------------------------------ MODULE Revisions ------------------------------
(***************************************************************************)
(* What the names mean that callers pass: revisions, which are read, and   *)
(* names of branches and tags, which are written.  The code has one        *)
(* resolver for revisions and others for the branch that is committed to   *)
(* or reset, for the target of a merge, for a squash and for a reflog;     *)
(* each takes the text apart in its own way.                               *)
(*                                                                         *)
(* A text is a sequence that ends in a name: "refs/heads/main" is          *)
(* <<"heads", main>>.  A commit stands for its public identifier, which is *)
(* a legal name of a branch too, and <<"sha256", c>> for its internal one. *)
(* Branches may be called "refs/heads/main" as well.                       *)
(*                                                                         *)
(* Every operation is one step here, which is RepoStore's subject; files   *)
(* are left out.                                                           *)
(***************************************************************************)
EXTENDS Integers, Sequences, FiniteSets

CONSTANTS
    Words,          \* what branches and tags are called
    Tidy,           \* Tidy[w]: w normalized, main for "main/."
    DefaultBranch,
    Texts,          \* the texts that callers pass
    Ids,            \* bound: all commits, in the order in which they are made
    MaxRefs,        \* bound: refs there ever are
    None,           \* the head of a branch without commits
    NotFound        \* an exception

RefPrefixes == {"heads", "tags", "sha256"}
AllIds == {Ids[i] : i \in DOMAIN Ids}

ASSUME RevisionsAssumption ==
    /\ MaxRefs \in Nat
    /\ Ids \in Seq(AllIds) /\ {None, NotFound} \intersect AllIds = {}
    /\ \A i, j \in DOMAIN Ids : Ids[i] = Ids[j] => i = j
    /\ Tidy \in [Words -> Words] /\ Words \intersect RefPrefixes = {}
    /\ \A w \in Words : Tidy[Tidy[w]] = Tidy[w]
    /\ DefaultBranch \in Words /\ Tidy[DefaultBranch] = DefaultBranch
    /\ Texts \subseteq Seq(Words \union AllIds \union RefPrefixes) \ {<< >>}
    /\ \A t \in Texts : t[1] = "sha256" => Len(t) = 2 /\ t[2] \in AllIds

VARIABLES
    refs,       \* refs[r]: head of the branch or tag r, None for an empty branch
    parents,    \* parents[c]: of each commit ever made
    present,    \* the commits that have a row
    reflog,     \* reflog[r]: the commits that the entries of r name
    strayed     \* (history) refs that have left a commit behind

refVars == <<refs, parents, present, reflog, strayed>>

Branch(n) == [kind |-> "branch", name |-> n]
Tag(n) == [kind |-> "tag", name |-> n]

RefsInit ==
    /\ refs = [r \in {Branch(<<DefaultBranch>>)} |-> None]
    /\ parents = [c \in {} |-> {}]
    /\ present = {}
    /\ reflog = [r \in {} |-> {}]
    /\ strayed = {}

Exists(r) == r \in DOMAIN refs

(* _validate_ref_name *)
Normalized(t) == [i \in DOMAIN t |-> IF t[i] \in Words THEN Tidy[t[i]] ELSE t[i]]
IsName(t) == t[1] # "sha256"

AncestorsIn(graph, c) ==
    LET above[x \in DOMAIN graph] == {x} \union UNION {above[p] : p \in graph[x]}
    IN  IF c = None THEN {} ELSE above[c]

AncestorsOf(c) == AncestorsIn(parents, c)

-----------------------------------------------------------------------------
(* Resolvers *)

\* mutant of RefRead: tags come first.
TagRead(t) ==
    CASE t[1] = "heads" -> Branch(Tail(t))
      [] t[1] = "tags" -> Tag(Tail(t))
      [] OTHER -> IF Exists(Tag(t)) THEN Tag(t) ELSE Branch(t)

(* The ref that a revision means, if there is such a ref. *)
RefRead(t) ==
    CASE t[1] = "heads" -> Branch(Tail(t))
      [] t[1] = "tags" -> Tag(Tail(t))
      [] OTHER -> IF Exists(Branch(t)) THEN Branch(t) ELSE Tag(t)

(* _resolve_revision; None is an error too, unless the caller allows it. *)
ResolveRevision(t) ==
    IF t[1] = "sha256" THEN IF t[2] \in present THEN t[2] ELSE NotFound
    ELSE IF Exists(RefRead(t)) THEN refs[RefRead(t)]
    ELSE IF Len(t) = 1 /\ t[1] \in present THEN t[1] ELSE NotFound

(* The branch to commit to or to reset. *)
Written(t) == Branch(Normalized(t))

Short(t) == Branch(Normalized(IF t[1] = "heads" THEN Tail(t) ELSE t))

(* _resolve_target_branch_name_unlocked *)
IsTarget(t) == t[1] \notin AllIds \union {"tags", "sha256"} /\ Exists(Short(t))

(* _resolve_branch_ref_for_squash_unlocked *)
IsSquashable(t) == t[1] \notin {"tags", "sha256"} /\ Exists(Short(t)) /\ refs[Short(t)] # None

(* _sqlite_ref_or_reflog_exists *)
Known(r) == Exists(r) \/ r \in DOMAIN reflog

(* _resolve_reflog_query: the refs a text may mean; it is answered for one. *)
Queried(t) ==
    {r \in CASE t[1] = "heads" -> {Branch(Normalized(Tail(t)))}
             [] t[1] = "tags" -> {Tag(Normalized(Tail(t)))}
             [] t[1] = "sha256" -> {}
             [] OTHER -> {Branch(Normalized(t)), Tag(Normalized(t))} : Known(r)}

-----------------------------------------------------------------------------
(* What readers are shown. *)

FullName(r) == <<IF r.kind = "branch" THEN "heads" ELSE "tags">> \o r.name

ListRepoRefs == {[ref |-> FullName(r), target |-> refs[r]] : r \in DOMAIN refs}

RepoInfo(t) == [head |-> ResolveRevision(t), refs |-> {FullName(r) : r \in DOMAIN refs}]

(* Each entry is shown with the public identifiers of its commits, which   *)
(* are made from their rows.                                               *)
ListRepoReflog(t) ==
    LET r == CHOOSE q \in Queried(t) : TRUE
        entries == IF r \in DOMAIN reflog THEN reflog[r] ELSE {}
    IN  IF Cardinality(Queried(t)) = 1 /\ entries \subseteq present THEN entries
        ELSE NotFound

-----------------------------------------------------------------------------
(* Operations *)

WithoutRef(f, r) == [x \in DOMAIN f \ {r} |-> f[x]]
WithRef(f, r, v) == [x \in DOMAIN f \union {r} |-> IF x = r THEN v ELSE f[x]]

(* _append_reflog, and whether the ref leaves the commit it was at. *)
Logs(r, old, new) ==
    LET entries == IF r \in DOMAIN reflog THEN reflog[r] ELSE {}
        forward == new # None /\ (old = None \/ old \in AncestorsIn(parents', new))
    IN  /\ reflog' = WithRef(reflog, r, entries \union ({old, new} \ {None}))
        /\ strayed' = IF forward \/ {old, new} = {None} THEN strayed
                      ELSE strayed \union {r}

(* _finalize_ref_update_unlocked *)
Moves(r, new) ==
    /\ Cardinality(DOMAIN refs \union DOMAIN reflog \union {r}) <= MaxRefs
    /\ refs' = WithRef(refs, r, new)
    /\ Logs(r, IF Exists(r) THEN refs[r] ELSE None, new)

CreateBranch(t, rev) ==
    /\ IsName(t)
    /\ ~Exists(Written(t))
    /\ ResolveRevision(rev) # NotFound
    /\ UNCHANGED <<parents, present>>
    /\ Moves(Written(t), ResolveRevision(rev))

CreateTag(t, rev) ==
    /\ IsName(t)
    /\ ~Exists(Tag(Normalized(t)))
    /\ ResolveRevision(rev) \notin {NotFound, None}
    /\ UNCHANGED <<parents, present>>
    /\ Moves(Tag(Normalized(t)), ResolveRevision(rev))

Drops(r) ==
    /\ Exists(r)
    /\ refs' = WithoutRef(refs, r)
    /\ UNCHANGED <<parents, present>>
    /\ Logs(r, refs[r], None)

DeleteBranch(t) ==
    /\ IsName(t)
    /\ Written(t) # Branch(<<DefaultBranch>>)
    /\ Drops(Written(t))

DeleteTag(t) == IsName(t) /\ Drops(Tag(Normalized(t)))

ResetRef(t, rev) ==
    /\ IsName(t)
    /\ Exists(Written(t))
    /\ ResolveRevision(rev) \notin {NotFound, None}
    /\ UNCHANGED <<parents, present>>
    /\ Moves(Written(t), ResolveRevision(rev))

(* New commits, given by their parents. *)
Fresh(i) == Ids[Cardinality(DOMAIN parents) + i]

Room(n) == Cardinality(DOMAIN parents) + n <= Len(Ids)

Make(new) ==
    LET made == {Fresh(i) : i \in DOMAIN new} IN
    /\ parents' = [c \in DOMAIN parents \union made |->
                      IF c \in DOMAIN parents THEN parents[c]
                      ELSE new[CHOOSE i \in DOMAIN new : Fresh(i) = c]]
    /\ present' = present \union made

CreateCommit(t) ==
    /\ IsName(t)
    /\ Exists(Written(t))
    /\ Room(1)
    /\ Make(<< {refs[Written(t)]} \ {None} >>)
    /\ Moves(Written(t), Fresh(1))

(* merge(): a fast-forward, or a commit that joins the two. *)
Merge(t, rev) ==
    LET source == ResolveRevision(rev)
        target == refs[Short(t)]
    IN
    /\ IsTarget(t)
    /\ source \notin {NotFound, None}
    /\ source \notin AncestorsOf(target)
    /\ IF target = None \/ target \in AncestorsOf(source)
       THEN UNCHANGED <<parents, present>> /\ Moves(Short(t), source)
       ELSE Room(1) /\ Make(<< {target, source} >>) /\ Moves(Short(t), Fresh(1))

\* mutant of Live: what only tags reach is not spared.
LiveOfBranches(heads) ==
    UNION {AncestorsOf(heads[r]) : r \in {x \in DOMAIN heads : x.kind = "branch"}}

(* What gc spares: everything that a branch or a tag reaches. *)
Live(heads) == UNION {AncestorsOf(heads[r]) : r \in DOMAIN heads}

(* squash_history() makes a new line of up to length commits. *)
SquashHistory(t, length) ==
    LET line == [i \in 1 .. length |-> IF i = 1 THEN {} ELSE {Fresh(i - 1)}]
    IN
    /\ IsSquashable(t)
    /\ length <= Cardinality(AncestorsOf(refs[Short(t)]))
    /\ Room(length)
    /\ Make(line)
    /\ Moves(Short(t), Fresh(length))

Gc ==
    /\ present' = Live(refs)
    /\ present' # present
    /\ UNCHANGED <<refs, parents, reflog, strayed>>

RefsNext ==
    \/ \E t \in Texts :
          \/ \E rev \in Texts :
                CreateBranch(t, rev) \/ CreateTag(t, rev) \/ ResetRef(t, rev) \/ Merge(t, rev)
          \/ DeleteBranch(t) \/ DeleteTag(t) \/ CreateCommit(t)
          \/ \E length \in DOMAIN Ids : SquashHistory(t, length)
    \/ Gc

RefsSpec == RefsInit /\ [][RefsNext]_refVars

-----------------------------------------------------------------------------
(* Properties *)

IsPlain(r) == r.name[1] \notin {"heads", "tags"}

(* The resolvers agree.  A full name out of a listing always means the ref *)
(* it was listed for, whatever that is called.  As long as no branch or    *)
(* tag has itself a name like "refs/heads/main", any text that can be read *)
(* as a ref and is accepted where a branch is written, merged into,        *)
(* squashed or looked up in the reflog means the same ref there, so that   *)
(* one reads what one wrote (list_repo_refs, repo_info, _resolve_revision, *)
(* create_commit, reset_ref, _resolve_target_branch_name_unlocked,         *)
(* _resolve_branch_ref_for_squash_unlocked, _resolve_reflog_query).        *)
ReadsMeetWrites ==
    /\ \A e \in ListRepoRefs : RepoInfo(e.ref).head = e.target
    /\ \A r \in DOMAIN refs : Queried(FullName(r)) = {r}
    /\ (\A r \in DOMAIN refs \union DOMAIN reflog : IsPlain(r)) =>
          \A t \in Texts : t[1] # "sha256" /\ Exists(RefRead(t)) =>
              /\ FullName(RefRead(t)) \in RepoInfo(t).refs
              /\ Exists(Written(t)) => RefRead(t) = Written(t)
              /\ IsTarget(t) \/ IsSquashable(t) => RefRead(t) = Short(t)
              /\ Cardinality(Queried(t)) = 1 => RefRead(t) \in Queried(t)

(* A reflog can be listed as long as its ref has only ever moved forward,  *)
(* and every ref can be read, however many other refs were reset, squashed *)
(* or deleted and whatever gc removed.  It spares nothing for the sake of  *)
(* a reflog: the log of a ref that was moved back may no longer answer     *)
(* (list_repo_reflog, _append_reflog, gc).                                 *)
ReflogsAnswer ==
    /\ \A r \in DOMAIN reflog \ strayed : ListRepoReflog(FullName(r)) = reflog[r]
    /\ \A r \in DOMAIN refs : refs[r] # None => AncestorsOf(refs[r]) \subseteq present
=============================================================================
