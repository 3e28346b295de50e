----------------------------- MODULE VersionStore -----------------------------
(***************************************************************************)
(* What a repository promises to those who only see its refs and commits:  *)
(* a set of named versions in which every change is one step.  A step      *)
(* moves, creates or deletes one ref together with exactly the commits     *)
(* that the ref newly needs, or forgets what no ref reaches, or does both. *)
(* There is no state in which a ref has moved and its history is missing,  *)
(* nor one in which history has appeared and no ref leads to it.           *)
(***************************************************************************)
EXTENDS CommitGraph

CONSTANTS
    Branches, Tags, DefaultBranch,
    InitialCommit,
    Absent,    \* a ref that does not exist
    NoCommit   \* the head of a branch without commits

VARIABLES refs, commits

Refs == Branches \union Tags

Heads == {refs[r] : r \in Refs} \intersect Commits

Init ==
    \E head \in {InitialCommit, NoCommit} :
       /\ refs = [r \in Refs |-> IF r = DefaultBranch THEN head ELSE Absent]
       /\ commits = {head} \ {NoCommit}

\* r, a branch or a tag, becomes v; `new' is the history that comes with it.
Moved(r, v, new) ==
    /\ r = DefaultBranch => v # Absent
    /\ r \in Tags => v # NoCommit
    /\ v \in Commits => v \in commits \union new /\ new \subseteq Ancestors[v]
    /\ v \notin Commits => new = {}
    /\ Closed(commits \union new)
    /\ refs' = [refs EXCEPT ![r] = v]

Move ==
    \E r \in Refs, v \in Commits \union {Absent, NoCommit}, new \in SUBSET Commits :
       /\ Moved(r, v, new)
       /\ commits' = commits \union new

Forget ==
    /\ refs' = refs
    /\ commits' = Reach(Heads)

\* squash_history() with run_gc: nobody sees the time between the two.
MoveAndForget ==
    \E r \in Branches, v \in Commits, new \in SUBSET Commits :
       /\ Moved(r, v, new)
       /\ commits' = Reach(Heads')

Next == Move \/ Forget \/ MoveAndForget

Spec == Init /\ [][Next]_<<refs, commits>>
=============================================================================
