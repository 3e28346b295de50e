----------------------------- MODULE MCDownloads -----------------------------
(***************************************************************************)
(* Small instances of DetachedViews and RemoteDownloads.  Two commits: c1  *)
(* has files data and note, c2 has a file inner below a directory data,    *)
(* and other bytes in note.  A behaviour uses one of the two APIs, or it   *)
(* is about Revisions, what the names mean that both are given.            *)
(***************************************************************************)
EXTENDS DetachedViews, RemoteDownloads, Revisions, TLC

CONSTANTS c1, c2, c3, data, inner, note, main, untidy, dev, a, b, u, d1, d2

MCBelow == data :> {inner} @@ inner :> {} @@ note :> {}
MCTreeOf == c1 :> (data :> a @@ inner :> Absent @@ note :> a)
         @@ c2 :> (data :> Absent @@ inner :> a @@ note :> b)
MCRank == data :> 0 @@ inner :> 1 @@ note :> 2
MCSizeOf == a :> 1 @@ b :> 1 @@ u :> 1

Ask(kind, sel, export) == [kind |-> kind, rev |-> main, sel |-> sel, export |-> export]
MCRequests ==
    { Ask("snapshot", Paths, TRUE), Ask("snapshot", {note}, TRUE),
      Ask("snapshot", {note}, FALSE),
      Ask("file", {note}, TRUE), Ask("file", {note}, FALSE) }
MCSelections == {Paths, {note}}

MCTidy == main :> main @@ untidy :> main @@ dev :> dev
MCTexts ==
    { <<main>>, <<untidy>>, <<dev>>, <<"heads", main>>, <<"heads", dev>>, <<"tags", main>>,
      <<c1>>, <<"sha256", c1>> }
MCIds == <<c1, c2, c3>>

Symmetry == Permutations(Downloads)

VARIABLE api
localVars == <<disk, meta, job, now, started, upsets, clashed, loose>>

EitherInit == Init /\ RemoteInit /\ RefsInit /\ api \in {"local", "remote", "names"}
EitherNext ==
    \/ api = "local" /\ Next /\ UNCHANGED <<api, remoteVars, refVars>>
    \/ api = "remote" /\ RemoteNext /\ UNCHANGED <<api, localVars, refVars>>
    \/ api = "names" /\ RefsNext /\ UNCHANGED <<api, vars, remoteVars>>
EitherSpec == EitherInit /\ [][EitherNext]_<<api, vars, remoteVars, refVars>>
=============================================================================
