--------------------------- MODULE MCUploadProtocol ---------------------------
(***************************************************************************)
(* Two clients, one that leaves parent_commit to the server and one that   *)
(* gives the name of the branch.  Other writers put into p1 what makes the *)
(* first one copy, reuse one chunk of two, or send everything.             *)
(***************************************************************************)
EXTENDS UploadProtocol, TLC

CONSTANTS a, b, p1, p2, k1, k2

MCTarget == a :> p2 @@ b :> p1
MCWanted == a :> {k1, k2} @@ b :> {k1}
MCParentGiven == a :> "none" @@ b :> "branch"
MCLocalWrites == {<<p1, {k1}>>, <<p1, {k1, k2}>>, <<p1, {}>>}

Symmetry == Permutations(Requests)
=============================================================================
