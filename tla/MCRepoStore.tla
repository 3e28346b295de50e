----------------------------- MODULE MCRepoStore -----------------------------
(***************************************************************************)
(* Small instances of RepoStore.  The commits that can be written:         *)
(*                                                                         *)
(*     c0            the initial commit                                    *)
(*     c1  <- c0     one small file                                        *)
(*     c2  <- c0     one large file                                        *)
(*     c3  <- c1,c2  their merge                                           *)
(*     c4            c1 (or c2, below) written again as a root by a squash *)
(***************************************************************************)
EXTENDS RepoStore, TLC

CONSTANTS c0, c1, c2, c3, c4, b1, k1

MCParentsOf == c0 :> << >> @@ c1 :> <<c0>> @@ c2 :> <<c0>>
                 @@ c3 :> <<c1, c2>> @@ c4 :> << >>
MCBlobsOf == c0 :> {} @@ c1 :> {b1} @@ c2 :> {} @@ c3 :> {b1} @@ c4 :> {}
MCChunksOf == c0 :> {} @@ c1 :> {} @@ c2 :> {k1} @@ c3 :> {k1} @@ c4 :> {k1}

Symmetry == Permutations(Packs) \union Permutations(Clients)
=============================================================================
