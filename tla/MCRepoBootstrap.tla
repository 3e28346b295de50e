---------------------------- MODULE MCRepoBootstrap ----------------------------
(***************************************************************************)
(* Clients only ever compete for the lock, so their names are symmetric.   *)
(***************************************************************************)
EXTENDS RepoBootstrap, TLC

Symmetry == Permutations(Clients)
=============================================================================
