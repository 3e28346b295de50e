------------------------------- MODULE History -------------------------------
(***************************************************************************)
(* How histories grow, part and join (backend.py: create_commit, merge and *)
(* squash_history, as far as commits and snapshots are concerned).         *)
(*                                                                         *)
(* create_branch() and reset_ref() let a branch start from, or go to, any  *)
(* commit.  So any commit can be a head, and the branches are left out: an *)
(* action names the heads that it works on.  A commit is its index in the  *)
(* log, which is also the order of time.                                   *)
(***************************************************************************)
EXTENDS ThreeWayMerge, Sequences

CONSTANT MaxCommits     \* bound: commits in a behaviour

ASSUME BoundAssumption == MaxCommits \in Nat \ {0}

VARIABLE log

Commit == [parents : Seq(1..MaxCommits), files : Snapshots]

CommitsMade == DOMAIN log

Parents(c) == {log[c].parents[i] : i \in DOMAIN log[c].parents}

Files(c) == log[c].files

TypeOK ==
    /\ log \in Seq(Commit)
    /\ Len(log) <= MaxCommits
    /\ \A c \in CommitsMade :
          /\ Len(log[c].parents) <= 2
          /\ \A p \in Parents(c) : p < c

(* create_repo() makes the initial commit. *)
Init == log = <<[parents |-> << >>, files |-> Empty]>>

(***************************************************************************)
(* A commit and all that came before it.                                   *)
(***************************************************************************)
Ancestors ==
    LET of[c \in CommitsMade] == {c} \union UNION {of[p] : p \in Parents(c)}
    IN  of

Least(S) == CHOOSE n \in S : \A m \in S : n <= m

(***************************************************************************)
(* The number of steps from a commit to each of its ancestors.             *)
(***************************************************************************)
Distance ==
    LET of[c \in CommitsMade] ==
            [a \in Ancestors[c] |->
                IF a = c THEN 0
                ELSE 1 + Least({of[p][a] : p \in {q \in Parents(c) : a \in Ancestors[q]}})]
    IN  of

(***************************************************************************)
(* The beginnings of first-parent lineages, newest first.                  *)
(***************************************************************************)
IsLineage(commits) ==
    \A i \in 1..(Len(commits) - 1) :
        /\ log[commits[i]].parents # << >>
        /\ commits[i + 1] = log[commits[i]].parents[1]

Lineages ==
    {commits \in UNION {[1..n -> CommitsMade] : n \in 1..Len(log)} : IsLineage(commits)}

-----------------------------------------------------------------------------
Grow(commits) ==
    /\ Len(log) + Len(commits) <= MaxCommits
    /\ log' = log \o commits

(***************************************************************************)
(* create_commit(): any operations that lead to a legal tree.              *)
(***************************************************************************)
CreateCommit(head, files) ==
    /\ IsValid(files)
    /\ Grow(<<[parents |-> <<head>>, files |-> files]>>)

(***************************************************************************)
(* The merge base.  The identifiers of commits are hashes, so that the     *)
(* last criterion of the code picks any one of the nearest.                *)
(***************************************************************************)
Common(target, source) == Ancestors[target] \intersect Ancestors[source]

Larger(m, n) == IF m > n THEN m ELSE n

\* mutant of Nearer: the wrong end of the order.
Farther(target, source, a, b) ==
    Distance[target][a] + Distance[source][a] >
    Distance[target][b] + Distance[source][b]

Nearer(target, source, a, b) ==
    LET sum(c) == Distance[target][c] + Distance[source][c]
        max(c) == Larger(Distance[target][c], Distance[source][c])
    IN  sum(a) < sum(b) \/ (sum(a) = sum(b) /\ max(a) < max(b))

MergeBases(target, source) ==
    {c \in Common(target, source) :
        \A d \in Common(target, source) : ~Nearer(target, source, d, c)}

Diverged(target, source) ==
    target \notin Ancestors[source] /\ source \notin Ancestors[target]

(***************************************************************************)
(* What merge() may answer for base_commit.  With nothing to answer, min() *)
(* raises.                                                                 *)
(***************************************************************************)
AnsweredBases(target, source) ==
    IF source \in Ancestors[target] THEN {source}
    ELSE IF target \in Ancestors[source] THEN {target}
    ELSE MergeBases(target, source)

\* mutant of Merge: over no files at all if there is no common ancestor.
MergeUnrelated(target, source) ==
    /\ Diverged(target, source)
    /\ \E base \in {Files(c) : c \in MergeBases(target, source)}
                    \union {e \in {Empty} : Common(target, source) = {}} :
          /\ MergesCleanly(base, Files(target), Files(source))
          /\ Grow(<<[parents |-> <<target, source>>,
                     files |-> Merged(base, Files(target), Files(source))]>>)

(***************************************************************************)
(* merge() when neither head contains the other.  A conflict is answered   *)
(* and changes nothing.                                                    *)
(***************************************************************************)
Merge(target, source) ==
    /\ Diverged(target, source)
    /\ \E base \in MergeBases(target, source) :
          /\ MergesCleanly(Files(base), Files(target), Files(source))
          /\ Grow(<<[parents |-> <<target, source>>,
                     files |-> Merged(Files(base), Files(target), Files(source))]>>)

\* mutant of Rewritten: a commit gets itself for a parent.
RewrittenAhead(lineage) ==
    LET n == Len(lineage)
    IN  [i \in 1..n |->
            [parents |-> IF i = 1 THEN << >> ELSE <<Len(log) + i>>,
             files |-> Files(lineage[n + 1 - i])]]

(***************************************************************************)
(* squash_history() with a new message: the youngest commits of a lineage, *)
(* as far as the given root, are written again, the root without parents.  *)
(***************************************************************************)
Rewritten(lineage) ==
    LET n == Len(lineage)
    IN  [i \in 1..n |->
            [parents |-> IF i = 1 THEN << >> ELSE <<Len(log) + i - 1>>,
             files |-> Files(lineage[n + 1 - i])]]

SquashHistory(lineage) == Grow(Rewritten(lineage))

Next ==
    \/ \E head \in CommitsMade, files \in Snapshots : CreateCommit(head, files)
    \/ \E target, source \in CommitsMade : Merge(target, source)
    \/ \E lineage \in Lineages : SquashHistory(lineage)

Spec == Init /\ [][Next]_log

-----------------------------------------------------------------------------
(***************************************************************************)
(* No history, however it was branched, merged and rewritten, has a commit *)
(* with a file where a directory has to be or with two names that differ   *)
(* only in case.                                                           *)
(***************************************************************************)
TreesStayLegal == \A c \in CommitsMade : IsValid(log[c].files)

(***************************************************************************)
(* It makes no difference to the files whether one branch is merged into   *)
(* the other or the other into the one: the same merges are possible, with *)
(* the same results.                                                       *)
(***************************************************************************)
Outcomes(target, source) ==
    {Merged(Files(base), Files(target), Files(source)) :
        base \in {b \in MergeBases(target, source) :
                    MergesCleanly(Files(b), Files(target), Files(source))}}

MergesConverge ==
    \A t, s \in CommitsMade : Outcomes(t, s) = Outcomes(s, t)

(***************************************************************************)
(* While nothing has been merged yet, the merge base is the one that Git   *)
(* takes: it has every other common ancestor among its own.                *)
(***************************************************************************)
IsMerge(c) == Len(log[c].parents) > 1

HasMerges(c) == \E a \in Ancestors[c] : IsMerge(a)

BaseIsBestOnLines ==
    \A t, s \in CommitsMade :
        ~HasMerges(t) /\ ~HasMerges(s) =>
            \A base \in MergeBases(t, s) : Common(t, s) \subseteq Ancestors[base]

(***************************************************************************)
(* merge() finds a base exactly if the two heads go back to the same       *)
(* beginning: whatever was merged and squashed before, a history has one   *)
(* beginning only (_find_merge_base_unlocked).                             *)
(***************************************************************************)
Origins(c) == {a \in Ancestors[c] : log[a].parents = << >>}

RelatedMergesAreAnswered ==
    \A t, s \in CommitsMade :
        AnsweredBases(t, s) # {} <=> Origins(t) = Origins(s)
=============================================================================
