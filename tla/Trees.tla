------------------------------- MODULE Trees -------------------------------
(***************************************************************************)
(* How the files of a version are written as tree objects and read again.  *)
(*                                                                         *)
(* A path is the sequence of its names.  A snapshot is what the code has   *)
(* for it, a dictionary from paths to file objects: a sequence of entries, *)
(* in the order in which a Python dictionary would list them.  A tree      *)
(* object is named by the hash of its payload, so that it is its payload   *)
(* here; with it goes the identifier that Git would give to the directory. *)
(*                                                                         *)
(* Depth of directories is data: what the code does to a tree and to those *)
(* in it is a function of the places where they are.                       *)
(***************************************************************************)
EXTENDS Integers, Sequences, SequencesExt, FiniteSetsExt

CONSTANTS
    Names,      \* names of files and directories
    FoldOf,     \* FoldOf[n]: n in lower case
    MaxDepth,   \* bound: names of a path
    Sorted,     \* the names in the order of sorted()
    GitSorted,  \* [name, kind] in the order of _git_tree_sort_key()
    Missing,    \* no such entry
    Failed      \* an exception

ASSUME NamesAssumption ==
    /\ Sorted \in Seq(Names) /\ ToSet(Sorted) = Names /\ IsInjective(Sorted)
    /\ GitSorted \in Seq([name : Names, kind : {"file", "tree"}])
    /\ ToSet(GitSorted) = [name : Names, kind : {"file", "tree"}]
    /\ IsInjective(GitSorted)
    /\ FoldOf \in [Names -> Names]
    /\ MaxDepth \in Nat

(* Where something can be, the root included. *)
Places == UNION {[1 .. n -> Names] : n \in 0 .. MaxDepth}

Nothing == [kind |-> "nothing"]

(* The elements of s that are in T, in their order. *)
Only(s, T) ==
    LET kept[n \in 0 .. Len(s)] ==
            IF n = 0 THEN << >>
            ELSE IF s[n] \in T THEN Append(kept[n - 1], s[n]) ELSE kept[n - 1]
    IN  kept[Len(s)]

-----------------------------------------------------------------------------
(* Snapshots *)

Keys(s) == {s[i].path : i \in DOMAIN s}

Get(s, p) ==
    IF p \in Keys(s) THEN s[CHOOSE i \in DOMAIN s : s[i].path = p].file ELSE Missing

(* An assignment keeps the place of a key, and a new key comes last. *)
Assign(s, p, f) ==
    IF p \in Keys(s)
    THEN [i \in DOMAIN s |-> IF s[i].path = p THEN [path |-> p, file |-> f] ELSE s[i]]
    ELSE Append(s, [path |-> p, file |-> f])

(* The entries below directory p, with what comes after p in their paths. *)
Below(s, p) ==
    LET below == Only(s, {e \in ToSet(s) : IsStrictPrefix(p, e.path)})
    IN  [i \in DOMAIN below |->
            [below[i] EXCEPT !.path = SubSeq(@, Len(p) + 1, Len(@))]]

(* _validate_snapshot(): no file where another needs a directory, and no   *)
(* two files of one directory whose names differ only in case.             *)
IsLegal(s) ==
    /\ \A p, q \in Keys(s) : ~IsStrictPrefix(p, q)
    /\ \A p, q \in Keys(s) :
          Front(p) = Front(q) /\ FoldOf[Last(p)] = FoldOf[Last(q)] => p = q

-----------------------------------------------------------------------------
(* Writing *)

(* The names of what is in directory d. *)
NamesIn(s, d) == {n \in Names : \E p \in Keys(s) : IsPrefix(Append(d, n), p)}

\* mutant of Ordered: entries stay in the order of the dictionary.
OrderedAsMet(s, d) ==
    FoldLeft(LAMBDA names, p : IF IsStrictPrefix(d, p) /\ p[Len(d) + 1] \notin ToSet(names)
                               THEN Append(names, p[Len(d) + 1]) ELSE names,
             << >>, [i \in DOMAIN s |-> s[i].path])

(* sorted(node) *)
Ordered(s, d) == Only(Sorted, NamesIn(s, d))

(* _git_tree_oid(), for which a directory sorts as if its name ended in /. *)
GitOid(entries) ==
    LET present == Only(GitSorted, {[name |-> e.name, kind |-> e.kind] : e \in ToSet(entries)})
        entry(g) == CHOOSE e \in ToSet(entries) : e.name = g.name /\ e.kind = g.kind
        oid(e) == IF e.kind = "tree" THEN e.object.git ELSE e.object
    IN  [i \in DOMAIN present |-> <<present[i].name, present[i].kind, oid(entry(present[i]))>>]

(* _stage_tree_objects() and _stage_tree_node() *)
StageTree(s) ==
    LET node[d \in Places] ==
            LET names == Ordered(s, d)
                entry(n) ==
                    IF Append(d, n) \in Keys(s)
                    THEN [name |-> n, kind |-> "file", object |-> Get(s, Append(d, n))]
                    ELSE [name |-> n, kind |-> "tree", object |-> node[Append(d, n)]]
                entries == [i \in DOMAIN names |-> entry(names[i])]
            IN  [entries |-> entries, git |-> GitOid(entries)]
    IN  node[<< >>]

EmptyTree == StageTree(<< >>)

-----------------------------------------------------------------------------
(* Reading *)

(* The first entry of a name. *)
EntryAt(t, n) ==
    LET named == {i \in DOMAIN t.entries : t.entries[i].name = n}
    IN  IF named = {} THEN Nothing ELSE t.entries[Min(named)]

(* _tree_id_for_directory(): only the trees along the path are read.  What *)
(* is found is a tree, nothing, or a file, at the end or on the way.       *)
Found(t, p) ==
    LET at[n \in 0 .. Len(p)] ==
            IF n = 0 THEN [kind |-> "tree", object |-> t]
            ELSE IF at[n - 1].kind = "tree" THEN EntryAt(at[n - 1].object, p[n]) ELSE at[n - 1]
    IN  at[Len(p)]

\* mutant of FileAt: a file on the way is taken for the file.
FileAtOrAbove(t, p) ==
    LET e == Found(t, p) IN IF e.kind = "file" THEN e.object ELSE Missing

(* _file_object_id_for_tree() does the same, and answers each error alike. *)
FileAt(t, p) ==
    LET above == Found(t, Front(p))
        e == EntryAt(above.object, Last(p))
    IN  IF above.kind = "tree" /\ e.kind = "file" THEN e.object ELSE Missing

(* The directories of a version. *)
Dirs(t) == {d \in Places : Found(t, d).kind = "tree"}

(* _snapshot_for_tree(), whose prefix is d. *)
SnapshotOf(t) ==
    LET part[d \in Dirs(t)] ==
            LET entries == Found(t, d).object.entries
                found(e) == IF e.kind = "file"
                            THEN <<[path |-> Append(d, e.name), file |-> e.object]>>
                            ELSE part[Append(d, e.name)]
            IN  FlattenSeq([i \in DOMAIN entries |-> found(entries[i])])
    IN  part[<< >>]

(* _list_tree_entries(), whose prefix is d, below directory p. *)
ListTree(t, p, recursive) ==
    LET list[d \in Dirs(t)] ==
            LET entries == Found(t, d).object.entries
                line(e) == [path |-> Append(d, e.name), kind |-> e.kind,
                            oid |-> IF e.kind = "tree" THEN e.object.git ELSE e.object]
                deeper(e) == IF recursive /\ e.kind = "tree" THEN list[Append(d, e.name)] ELSE << >>
            IN  FlattenSeq([i \in DOMAIN entries |-> <<line(entries[i])>> \o deeper(entries[i])])
    IN  list[p]

(* list_repo_tree() *)
ListRepoTree(t, p, recursive) ==
    CASE Found(t, p).kind = "tree" -> ListTree(t, p, recursive)
      [] Found(t, p).kind = "file" -> Failed
      [] Found(t, p).kind = "nothing" -> Missing

(* get_paths_info(), of one path: decided on the snapshot. *)
PathInfo(t, p) ==
    LET s == SnapshotOf(t) IN
    IF p \in Keys(s) THEN [path |-> p, kind |-> "file", oid |-> Get(s, p)]
    ELSE IF Below(s, p) # << >> THEN [path |-> p, kind |-> "tree", oid |-> Found(t, p).object.git]
    ELSE Missing

(* _public_tree_oid() of a tree that does not have its own recorded. *)
PublicOid(t) ==
    LET oid[d \in Dirs(t)] ==
            LET entries == Found(t, d).object.entries
            IN  GitOid([i \in DOMAIN entries |->
                    IF entries[i].kind = "tree"
                    THEN [entries[i] EXCEPT !.object = [git |-> oid[Append(d, entries[i].name)]]]
                    ELSE entries[i]])
    IN  oid[<< >>]

(* _path_state_from_snapshot(): what "the same state of a path" means. *)
PathState(s, p) ==
    IF p \in Keys(s) THEN <<"file", Get(s, p)>>
    ELSE IF Below(s, p) # << >> THEN <<"tree", ToSet(Below(s, p))>> ELSE Missing

(* _commit_detail_info(): the changes from the first parent. *)
ChangeOf(old, new) ==
    IF old = Missing THEN "added" ELSE IF new = Missing THEN "deleted" ELSE "modified"

Changes(parent, current) ==
    {[path |-> p, type |-> ChangeOf(Get(parent, p), Get(current, p))] :
        p \in {q \in Keys(parent) \union Keys(current) : Get(parent, q) # Get(current, q)}}
=============================================================================
