---------------------------- MODULE ThreeWayMerge ----------------------------
(***************************************************************************)
(* Snapshots, and the three-way merge of them                              *)
(* (backend.py: _validate_snapshot, _merge_snapshots_unlocked).            *)
(*                                                                         *)
(* A snapshot says which version of a file lies at a path.  A version is   *)
(* what _file_identity_unlocked() returns: content, size and oid, whatever *)
(* the object is called and however it is stored.                          *)
(***************************************************************************)
EXTENDS Integers

CONSTANTS
    Paths,
    Versions,
    Absent,
    Below,  \* pairs of paths: the second lies in a directory named as the first
    Twins   \* pairs of paths of one directory whose names differ only in case

ASSUME TreeAssumption ==
    /\ Absent \notin Versions
    /\ Below \subseteq Paths \X Paths
    /\ Twins \subseteq Paths \X Paths

Snapshots == [Paths -> Versions \union {Absent}]

Empty == [p \in Paths |-> Absent]

Present(snapshot) == {p \in Paths : snapshot[p] # Absent}

(***************************************************************************)
(* Files where a directory has to be, and names that differ only in case.  *)
(***************************************************************************)
StructuralConflicts(snapshot) ==
    {pair \in Below \union Twins :
        pair[1] \in Present(snapshot) /\ pair[2] \in Present(snapshot)}

IsValid(snapshot) == StructuralConflicts(snapshot) = {}

-----------------------------------------------------------------------------
\* mutant of Disputed: a file that one side deleted is no conflict.
DisputedEdits(base, target, source) ==
    {p \in Paths : /\ target[p] # source[p]
                   /\ base[p] # target[p]
                   /\ base[p] # source[p]
                   /\ target[p] # Absent
                   /\ source[p] # Absent}

(***************************************************************************)
(* Both sides changed the path, each in its own way.                       *)
(***************************************************************************)
Disputed(base, target, source) ==
    {p \in Paths : /\ target[p] # source[p]
                   /\ base[p] # target[p]
                   /\ base[p] # source[p]}

(***************************************************************************)
(* The side that left a path alone gives way to the other.                 *)
(***************************************************************************)
Merged(base, target, source) ==
    [p \in Paths |-> IF base[p] = target[p] THEN source[p] ELSE target[p]]

\* mutant of MergesCleanly: the merged snapshot is not looked at as a tree.
MergesByPath(base, target, source) == Disputed(base, target, source) = {}

MergesCleanly(base, target, source) ==
    /\ Disputed(base, target, source) = {}
    /\ IsValid(Merged(base, target, source))

-----------------------------------------------------------------------------
(***************************************************************************)
(* What a merge is for, without a look at the code: the changes of both    *)
(* sides, applied together to what they have in common.                    *)
(***************************************************************************)
Changes(base, snapshot) ==
    {<<p, snapshot[p]>> : p \in {q \in Paths : snapshot[q] # base[q]}}

Compatible(changes) ==
    \A c, d \in changes : c[1] = d[1] => c[2] = d[2]
=============================================================================
