------------------------------ MODULE MCBackend ------------------------------
(***************************************************************************)
(* Small instances of BackendSessions and ChunkedFiles, of which a         *)
(* behaviour uses one.  Threads t1 and t2 share backend object b1, thread  *)
(* t3 has b2 to itself.  The large files share chunks, and the third one   *)
(* has a chunk twice:                                                      *)
(*     [x y][x x]      [x y][y]      [y][x y][y]                           *)
(***************************************************************************)
EXTENDS BackendSessions, ChunkedFiles, TLC

CONSTANTS t1, t2, t3, b1, b2, x, y, magic

MCBackendOf == t1 :> b1 @@ t2 :> b1 @@ t3 :> b2

MCFirst == <<x, y, x, x>>
MCSecond == <<x, y, y>>
MCThird == <<y, x, y, y>>
MCContents == {MCFirst, MCSecond, MCThird}
MCSplitOf == MCFirst :> << <<x, y>>, <<x, x>> >>
          @@ MCSecond :> << <<x, y>>, <<y>> >>
          @@ MCThird :> << <<y>>, <<x, y>>, <<y>> >>
MCHeader == <<magic>>

VARIABLE part

EitherInit == Init /\ ChunkInit /\ part \in {"sessions", "chunks"}
EitherNext ==
    \/ part = "sessions" /\ Next /\ UNCHANGED <<part, chunkVars>>
    \/ part = "chunks" /\ ChunkNext /\ UNCHANGED <<part, vars>>

(* The threads of one object, and the objects of a repository, are alike. *)
Symmetry == Permutations({t1, t2}) \union Permutations(Objects)

EitherSpec == EitherInit /\ [][EitherNext]_<<part, vars, chunkVars>>
=============================================================================
