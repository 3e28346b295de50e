--------------------------- MODULE RemoteDownloads ---------------------------
(***************************************************************************)
(* Downloads over HTTP: hf_hub_download and snapshot_download of the       *)
(* remote client, the cache it keeps, and the three content routes of the  *)
(* server they call.                                                       *)
(*                                                                         *)
(* A server route takes the repository lock once per repository call, not  *)
(* once per request: the snapshot plan reads the revision three times, and *)
(* a file download reads it in a request of its own.  The client keeps a   *)
(* file under its etag and a snapshot under its commit, reuses whatever    *)
(* file exists there, and writes without a temporary file: a write has a   *)
(* moment at which the file is truncated.                                  *)
(***************************************************************************)
EXTENDS Published, Integers, FiniteSets

CONSTANTS
    Clients,            \* processes that use one client cache
    RemoteSelections,   \* sets of paths the patterns of a snapshot may allow
    Torn,               \* a file that was truncated and not yet written
    NotAsked,
    MaxCalls            \* bound: calls made

FileCall == [kind : {"file"}, rev : Revisions, path : Paths, etag : Contents,
             step : {"fetch", "open", "close", "returned"},
             body : Contents \union {Absent}, moved : BOOLEAN]
ShotCall == [kind : {"snapshot"}, rev : Revisions, sel : SUBSET Paths,
             head : Commits, plan : SUBSET Paths, todo : SUBSET Paths,
             step : {"list", "infos", "fetch", "open", "close", "returned"},
             path : Paths \union {Absent}, moved : BOOLEAN]

ASSUME RemoteAssumption ==
    /\ Torn \notin Contents \union {Absent}
    /\ RemoteSelections \subseteq SUBSET Paths
    /\ NotAsked \notin FileCall \union ShotCall
    /\ MaxCalls \in Nat

VARIABLES
    downloads,  \* downloads[e][p]: cached file of etag e and path p
    snapshots,  \* snapshots[c][p]: file p of the cached snapshot of commit c
    call,       \* call[x]: the call client x is executing, or NotAsked
    asked,      \* calls made so far
    spoiled     \* (history) cache slots filled by a call that died writing, or
                \* whose revision moved while it was still asking

remoteVars == <<downloads, snapshots, call, asked, spoiled>>

OnClient == Contents \union {Torn, Absent}
FileSlot == [etag : Contents, path : Paths]
ShotSlot == [commit : Commits, path : Paths]
Slot == FileSlot \union ShotSlot

RemoteTypeOK ==
    /\ heads \in [Revisions -> Commits]
    /\ downloads \in [Contents -> [Paths -> OnClient]]
    /\ snapshots \in [Commits -> [Paths -> OnClient]]
    /\ call \in [Clients -> FileCall \union ShotCall \union {NotAsked}]
    /\ asked \in 0 .. MaxCalls
    /\ spoiled \subseteq Slot

RemoteInit ==
    /\ downloads = [e \in Contents |-> [p \in Paths |-> Absent]]
    /\ snapshots = [c \in Commits |-> [p \in Paths |-> Absent]]
    /\ call = [x \in Clients |-> NotAsked]
    /\ asked = 0
    /\ spoiled = {}

Calls(x, kind, step) == call[x] # NotAsked /\ call[x].kind = kind /\ call[x].step = step

Counted == asked < MaxCalls /\ asked' = asked + 1

-----------------------------------------------------------------------------
\* mutant of EtagOf: the first file of the answer, asked for or not.
EtagOfFirst(rev, p) ==
    TreeOf[Resolve(rev)][CHOOSE q \in Files(Resolve(rev)) : TRUE]

(* download_bytes and paths_info: the etag of a file is its content's. *)
EtagOf(rev, p) == TreeOf[Resolve(rev)][p]

(* hf_hub_download: the etag comes from paths-info, ...                    *)
AskFile(x, rev, p) ==
    LET etag == EtagOf(rev, p) IN
    /\ call[x] = NotAsked
    /\ etag # Absent
    /\ call' = [call EXCEPT ![x] =
           [kind |-> "file", rev |-> rev, path |-> p, etag |-> etag, body |-> Absent,
            moved |-> FALSE,
            step |-> IF downloads[etag][p] # Absent THEN "returned" ELSE "fetch"]]
    /\ Counted
    /\ UNCHANGED <<heads, downloads, snapshots, spoiled>>

(* ... the bytes from the download route, which resolves the revision again *)
(* (and answers 404 when the file is gone: no such step).                  *)
FetchFile(x) ==
    LET body == TreeOf[Resolve(call[x].rev)][call[x].path] IN
    /\ Calls(x, "file", "fetch")
    /\ body # Absent
    /\ call' = [call EXCEPT ![x].body = body, ![x].step = "open"]
    /\ UNCHANGED <<heads, downloads, snapshots, asked, spoiled>>

(* write_bytes truncates the file, then fills it. *)
OpenFile(x) ==
    /\ Calls(x, "file", "open")
    /\ downloads' = [downloads EXCEPT ![call[x].etag][call[x].path] = Torn]
    /\ call' = [call EXCEPT ![x].step = "close"]
    /\ UNCHANGED <<heads, snapshots, asked, spoiled>>

CloseFile(x) ==
    LET c == call[x] IN
    /\ Calls(x, "file", "close")
    /\ downloads' = [downloads EXCEPT ![c.etag][c.path] = c.body]
    /\ call' = [call EXCEPT ![x].step = "returned"]
    /\ spoiled' = IF c.moved
                  THEN spoiled \union {[etag |-> c.etag, path |-> c.path]}
                  ELSE spoiled
    /\ UNCHANGED <<heads, snapshots, asked>>

-----------------------------------------------------------------------------
(* snapshot_download: the plan names the commit first (repo_info), ...     *)
AskSnapshot(x, rev, sel) ==
    /\ call[x] = NotAsked
    /\ call' = [call EXCEPT ![x] =
           [kind |-> "snapshot", rev |-> rev, sel |-> sel, head |-> Resolve(rev),
            plan |-> {}, todo |-> {}, step |-> "list", path |-> Absent, moved |-> FALSE]]
    /\ Counted
    /\ UNCHANGED <<heads, downloads, snapshots, spoiled>>

(* ... then lists the files the revision has by now (list_repo_files), ... *)
ListFiles(x) ==
    /\ Calls(x, "snapshot", "list")
    /\ call' = [call EXCEPT ![x].plan = Files(Resolve(call[x].rev)) \intersect call[x].sel,
                            ![x].step = "infos"]
    /\ UNCHANGED <<heads, downloads, snapshots, asked, spoiled>>

\* mutant of Missing: a directory with a file in it is taken for complete.
MissingEverything(commit, plan) ==
    IF \E p \in Paths : snapshots[commit][p] # Absent THEN {} ELSE plan

(* snapshot_is_complete *)
Missing(commit, plan) == {p \in plan : snapshots[commit][p] = Absent}

(* ... and looks each up once more (get_paths_info), ignoring the missing. *)
(* The client reuses a directory in which every planned file exists, and   *)
(* otherwise fetches those that do not.                                    *)
PlanSnapshot(x) ==
    LET c == call[x]
        plan == c.plan \intersect Files(Resolve(c.rev))
    IN
    /\ Calls(x, "snapshot", "infos")
    /\ call' = [call EXCEPT ![x].plan = plan, ![x].todo = plan,
                            ![x].step = IF Missing(c.head, plan) = {} THEN "returned" ELSE "fetch"]
    /\ UNCHANGED <<heads, downloads, snapshots, asked, spoiled>>

\* mutant of Served: the URL names the branch.
ServedByBranch(c, p) == TreeOf[Resolve(c.rev)][p]

(* The download route, given the commit of the plan. *)
Served(c, p) == TreeOf[c.head][p]

(* The next file of the plan, by a URL that names the commit: 404 when the *)
(* commit does not have it (no such step).                                 *)
FetchOne(x, p) ==
    LET c == call[x] IN
    /\ Calls(x, "snapshot", "fetch")
    /\ p \in c.todo
    /\ IF snapshots[c.head][p] # Absent
       THEN call' = [call EXCEPT ![x].todo = @ \ {p},
                                 ![x].step = IF c.todo = {p} THEN "returned" ELSE "fetch"]
       ELSE /\ Served(c, p) # Absent
            /\ call' = [call EXCEPT ![x].path = p, ![x].step = "open"]
    /\ UNCHANGED <<heads, downloads, snapshots, asked, spoiled>>

OpenOne(x) ==
    /\ Calls(x, "snapshot", "open")
    /\ snapshots' = [snapshots EXCEPT ![call[x].head][call[x].path] = Torn]
    /\ call' = [call EXCEPT ![x].step = "close"]
    /\ UNCHANGED <<heads, downloads, asked, spoiled>>

CloseOne(x) ==
    LET c == call[x] IN
    /\ Calls(x, "snapshot", "close")
    /\ snapshots' = [snapshots EXCEPT ![c.head][c.path] = Served(c, c.path)]
    /\ call' = [call EXCEPT ![x].todo = @ \ {c.path},
                            ![x].step = IF c.todo = {c.path} THEN "returned" ELSE "fetch"]
    /\ UNCHANGED <<heads, downloads, asked, spoiled>>

-----------------------------------------------------------------------------
(* The file a call is about to fill. *)
Open(x) ==
    IF Calls(x, "file", "close") THEN {[etag |-> call[x].etag, path |-> call[x].path]}
    ELSE IF Calls(x, "snapshot", "close")
    THEN {[commit |-> call[x].head, path |-> call[x].path]}
    ELSE {}

(* The path is returned, or the call raises or its process dies: nothing   *)
(* takes a truncated file away.                                            *)
Hangup(x) ==
    /\ call[x] # NotAsked
    /\ call' = [call EXCEPT ![x] = NotAsked]
    /\ spoiled' = spoiled \union Open(x)
    /\ UNCHANGED <<heads, downloads, snapshots, asked>>

(* A call that has resolved its revision and is going to do so again. *)
Undecided(c) == c.step \in (IF c.kind = "file" THEN {"fetch"} ELSE {"list", "infos"})

(* Somebody commits to, resets or moves the revision on the server. *)
Publish(rev, c) ==
    /\ MoveRevision(rev, c)
    /\ call' = [x \in Clients |->
           IF call[x] # NotAsked /\ call[x].rev = rev /\ Undecided(call[x])
           THEN [call[x] EXCEPT !.moved = TRUE] ELSE call[x]]
    /\ UNCHANGED <<downloads, snapshots, asked, spoiled>>

RemoteNext ==
    \/ \E x \in Clients :
          \/ \E rev \in Revisions, p \in Paths : AskFile(x, rev, p)
          \/ FetchFile(x) \/ OpenFile(x) \/ CloseFile(x)
          \/ \E rev \in Revisions, sel \in RemoteSelections : AskSnapshot(x, rev, sel)
          \/ ListFiles(x) \/ PlanSnapshot(x) \/ (\E p \in Paths : FetchOne(x, p))
          \/ OpenOne(x) \/ CloseOne(x)
          \/ Hangup(x)
    \/ \E rev \in Revisions, c \in Commits : Publish(rev, c)

RemoteSpec == (heads \in [Revisions -> Commits] /\ RemoteInit)
                  /\ [][RemoteNext]_<<heads, remoteVars>>

-----------------------------------------------------------------------------
(* Properties *)

BeingWritten == UNION {Open(x) : x \in Clients}

(* The snapshot directory of a commit never holds the bytes of another     *)
(* commit, though its file list comes from wherever the branch stands by   *)
(* then, other clients fill the same directory, and calls die halfway: a   *)
(* file there is the commit's, or truncated by a call that is writing it   *)
(* or died doing so (build_snapshot_plan, _download_url_for).              *)
SnapshotsHoldTheirCommit ==
    \A c \in Commits, p \in Paths :
        snapshots[c][p] # Absent =>
            \/ snapshots[c][p] = TreeOf[c][p]
            \/ /\ snapshots[c][p] = Torn
               /\ [commit |-> c, path |-> p] \in spoiled \union BeingWritten

(* A snapshot planned while its revision stood still is complete when it   *)
(* is returned: no selected file of the commit is missing, whatever part   *)
(* of it earlier calls with other selections had left in the directory     *)
(* (snapshot_is_complete).                                                 *)
SnapshotsAreComplete ==
    \A x \in Clients :
        Calls(x, "snapshot", "returned") /\ ~call[x].moved =>
            \A p \in Files(call[x].head) \intersect call[x].sel :
                snapshots[call[x].head][p] # Absent

(* A file kept under an etag has that content, unless the revision moved   *)
(* between the request for the etag and the request for the bytes, or a    *)
(* call died writing it; from then on every later download of that content *)
(* gets the wrong bytes (hf_hub_download, build_download_target).          *)
FilesMatchTheirEtag ==
    \A e \in Contents, p \in Paths :
        LET slot == [etag |-> e, path |-> p] IN
        downloads[e][p] # Absent /\ slot \notin spoiled =>
            downloads[e][p] = e \/ (downloads[e][p] = Torn /\ slot \in BeingWritten)
=============================================================================
