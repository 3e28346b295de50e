------------------------------ MODULE MCHistory ------------------------------
(***************************************************************************)
(* A path that is a file on one branch and a directory on another, and     *)
(* two versions of each file.                                              *)
(***************************************************************************)
EXTENDS HistoryWalks

CONSTANTS data, inner   \* "data" and "data/inner"

MCBelow == {<<data, inner>>}
MCTwins == {}

Symmetry == Permutations(Versions)
=============================================================================
