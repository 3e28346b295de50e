----------------------------- MODULE CommitGraph -----------------------------
(***************************************************************************)
(* The graph that commits form through their parents, as the repository    *)
(* walks it.  Commits are content-addressed: the identifier of a commit is *)
(* the hash of its payload and so fixes its parents, which is why they are *)
(* a constant function of all commits that could ever be written.          *)
(***************************************************************************)
EXTENDS Integers, Sequences

CONSTANTS
    Commits,    \* identifiers of all commits that could be written
    ParentsOf,  \* Commits -> sequence of parents, the first one first
    MaxLineage  \* bound: commits of a first-parent chain that is looked at

ASSUME GraphAssumption ==
    /\ ParentsOf \in [Commits -> Seq(Commits)]
    /\ MaxLineage \in Nat

Parents(c) == {ParentsOf[c][i] : i \in DOMAIN ParentsOf[c]}

Closed(S) == \A c \in S : Parents(c) \subseteq S

\* Ancestors of a commit, itself included: the least closed set around it.
Ancestors ==
    [c \in Commits |->
        {a \in Commits : \A S \in SUBSET Commits :
                            c \in S /\ Closed(S) => a \in S}]

\* Everything that a walk from the heads H along all parents meets.
Reach(H) == UNION {Ancestors[c] : c \in H}

\* First-parent chains, newest first.
Chains ==
    UNION {{s \in [1..n -> Commits] :
              \A i \in 1..(n - 1) :
                 /\ ParentsOf[s[i]] # << >>
                 /\ s[i + 1] = ParentsOf[s[i]][1]} : n \in 1..MaxLineage}
=============================================================================
