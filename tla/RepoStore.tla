------------------------------ MODULE RepoStore ------------------------------
(***************************************************************************)
(* The write path of one hubvault repository (hubvault/repo/backend.py).   *)
(*                                                                         *)
(* A repository is a SQLite file (refs, reflog, object rows, the chunk     *)
(* index, the transaction log) and, beside it, files that SQLite knows     *)
(* nothing of: blob data, chunk packs and transaction directories.  One    *)
(* advisory file lock lets in many readers or one writer.  A writer opens  *)
(* a SQLite transaction, stages and publishes FILES as it goes, and its    *)
(* METADATA becomes durable only when the lock is about to be released.    *)
(* Whatever happens in between, an exception or the death of the process,  *)
(* takes back the metadata and leaves the files as they are.               *)
(*                                                                         *)
(* `db' is the durable metadata and `work' is what the open write          *)
(* transaction sees.  Updates of `work' are invisible until the commit, so *)
(* each is merged with the next change of a file; changes of files are     *)
(* separate steps, and the writer can stop before and after each.          *)
(*                                                                         *)
(* Objects are content-addressed: the identifier of a commit fixes its     *)
(* parents and its content, so these are constant functions of Commits.    *)
(* The row of a commit stands for the row and those of its trees and       *)
(* files, which are inserted and deleted in the same SQLite transaction.   *)
(***************************************************************************)
EXTENDS CommitGraph

CONSTANTS
    Clients,        \* processes or threads, each with its own backend object
    Branches, Tags, \* names of refs
    DefaultBranch,
    InitialCommit,  \* the empty commit that create_repo() writes
    BlobsOf,        \* Commits -> small files of the snapshot
    ChunksOf,       \* Commits -> chunks of the large files of the snapshot
    Blobs, Chunks,
    Packs,          \* names of pack files (bounds the packs alive at a time)
    MaxReflog       \* bound: ref updates in a behaviour

CONSTANTS Absent, NoCommit, NoPack, Nobody, NotReading, AnyHead

Refs == Branches \union Tags

ASSUME ObjectsAssumption ==
    /\ BlobsOf \in [Commits -> SUBSET Blobs]
    /\ ChunksOf \in [Commits -> SUBSET Chunks]
    /\ InitialCommit \in Commits
    /\ ParentsOf[InitialCommit] = << >>
    /\ BlobsOf[InitialCommit] = {}
    /\ ChunksOf[InitialCommit] = {}

ASSUME NamesAssumption ==
    /\ DefaultBranch \in Branches
    /\ Branches \intersect Tags = {}
    /\ {Absent, NoCommit, NotReading, AnyHead} \intersect Commits = {}
    /\ Absent # NoCommit
    /\ NoPack \notin Packs
    /\ Nobody \notin Clients

ASSUME BoundsAssumption == MaxReflog \in Nat

VARIABLES
    db,         \* durable metadata
    work,       \* metadata as the open write transaction sees it
    blobFiles,  \* objects/blobs/*.data
    packFiles,  \* chunks/packs/*.pack: name -> chunks, {} when there is no file
    txdirs,     \* txn/*: the directories of the transaction and of its gc
    writer,     \* holder of the exclusive lock
    phase,      \* how far the writer is
    plan,       \* what the writer is about to publish
    reading,    \* readers under the shared lock, and the commit each resolved
    interrupted \* auxiliary: a writer stopped while gc was removing files

vars == <<db, work, blobFiles, packFiles, txdirs, writer, phase, plan, reading,
          interrupted>>

-----------------------------------------------------------------------------
TxKinds == {"write", "gc"}
Messages == {"commit", "merge", "reset ref", "create", "delete", "squash history"}
Heads == Commits \union {NoCommit}
LogEntry == [ref : Refs, old : Heads, new : Heads, message : Messages]

Metadata ==
    [refs : [Refs -> Heads \union {Absent}],
     reflog : Seq(LogEntry),
     commits : SUBSET Commits,
     blobs : SUBSET Blobs,
     chunkLoc : [Chunks -> Packs \union {NoPack}],
     txlog : SUBSET TxKinds]

Plan ==
    [ref : Refs,
     old : Heads,
     new : Heads \union {Absent},
     message : Messages,
     commits : SUBSET Commits,
     blobs : SUBSET Blobs,
     chunks : SUBSET Chunks,
     thenGc : BOOLEAN]

Phases == {"idle", "locked", "staged", "published", "updated", "ready",
           "collect", "gc staged", "sweep"}

NoPlan == [ref |-> DefaultBranch, old |-> NoCommit, new |-> NoCommit,
           message |-> "reset ref", commits |-> {}, blobs |-> {},
           chunks |-> {}, thenGc |-> FALSE]

(***************************************************************************)
(* The history that the refs of the metadata m reach.                      *)
(***************************************************************************)
HeadsOf(m) == {m.refs[r] : r \in Refs} \intersect Commits

Live(m) == Reach(HeadsOf(m))

LiveBlobs(m) == UNION {BlobsOf[c] : c \in Live(m)}

LiveChunks(m) == UNION {ChunksOf[c] : c \in Live(m)}

(***************************************************************************)
(* What can be read back: rows in the metadata m and bytes on disk.        *)
(***************************************************************************)
HasBlob(m, b) == b \in m.blobs /\ b \in blobFiles

Indexed(m, k) == m.chunkLoc[k] # NoPack

HasChunk(m, k) == Indexed(m, k) /\ k \in packFiles[m.chunkLoc[k]]

Readable(m, c) ==
    /\ c \in m.commits
    /\ \A b \in BlobsOf[c] : HasBlob(m, b)
    /\ \A k \in ChunksOf[c] : HasChunk(m, k)

Verified(m) ==
    /\ \A c \in Live(m) : Readable(m, c)
    /\ \A k \in Chunks : Indexed(m, k) => HasChunk(m, k)

-----------------------------------------------------------------------------
Init ==
    /\ \E head \in {InitialCommit, NoCommit} :
          db = [refs |-> [r \in Refs |-> IF r = DefaultBranch THEN head
                                                              ELSE Absent],
                reflog |-> IF head = NoCommit THEN << >>
                           ELSE << [ref |-> DefaultBranch, old |-> NoCommit,
                                    new |-> head, message |-> "commit"] >>,
                commits |-> {head} \ {NoCommit},
                blobs |-> {},
                chunkLoc |-> [k \in Chunks |-> NoPack],
                txlog |-> {}]
    /\ work = db
    /\ blobFiles = {}
    /\ packFiles = [q \in Packs |-> {}]
    /\ txdirs = {}
    /\ writer = Nobody
    /\ phase = "idle"
    /\ plan = NoPlan
    /\ reading = [p \in Clients |-> NotReading]
    /\ interrupted = FALSE

(***************************************************************************)
(* Lock, SQLite transaction, recovery.                                     *)
(***************************************************************************)
Readers == {p \in Clients : reading[p] # NotReading}

Files == <<blobFiles, packFiles>>

\* Mutant: the shared lock of the readers does not count.
NoWriter == writer = Nobody

LockFree == writer = Nobody /\ Readers = {}

\* _write_locked() up to its yield, then _recover_transactions().
Acquire(p) ==
    /\ LockFree
    /\ writer' = p
    /\ work' = [db EXCEPT !.txlog = {}]
    /\ txdirs' = {}
    /\ phase' = "locked"
    /\ UNCHANGED <<db, Files, plan, reading, interrupted>>

\* Mutant: the end of the scope forgets to unlock.
ReleaseWithoutUnlock ==
    /\ phase' = "idle"
    /\ plan' = NoPlan
    /\ UNCHANGED <<writer, Files, reading>>

Release ==
    /\ writer' = Nobody
    /\ phase' = "idle"
    /\ plan' = NoPlan
    /\ UNCHANGED <<Files, reading>>

\* Mutant: the durable index decides which packs are of no use.
UnusedPacksInDb ==
    {q \in Packs : packFiles[q] # {} /\ \A k \in Chunks : db.chunkLoc[k] # q}

\* Packs on disk that the transaction's chunk index does not mention.
UnusedPacks ==
    {q \in Packs : packFiles[q] # {} /\ \A k \in Chunks : work.chunkLoc[k] # q}

\* The lock scope ends without an exception: SQLite commit, unlock.
CommitTx(p) ==
    /\ writer = p
    /\ \/ phase = "ready"
       \/ /\ phase = "sweep"
          /\ blobFiles \intersect plan.blobs = {}
          /\ UnusedPacks = {}
    /\ db' = work
    /\ Release
    /\ UNCHANGED <<work, txdirs, interrupted>>

\* The directory that the running transaction would remove on a failure.
OwnTxdir ==
    CASE phase \in {"staged", "published", "updated"} -> {"write"}
      [] phase = "gc staged" -> {"gc"}
      [] OTHER -> {}

\* Mutant: what an exception interrupts is committed all the same.
CommitAnyway == db' = work /\ UNCHANGED work

Rollback == work' = db /\ UNCHANGED db

\* An exception in the lock scope, a rejected request included: rollback.
\* Removing the directory may itself fail.
Fail(p) ==
    /\ writer = p
    /\ txdirs' \in {txdirs, txdirs \ OwnTxdir}
    /\ interrupted' = (interrupted \/ phase = "sweep")
    /\ Rollback
    /\ Release

\* The process dies: the kernel drops the lock, SQLite its transaction.
Crash(p) ==
    /\ writer = p
    /\ interrupted' = (interrupted \/ phase = "sweep")
    /\ Rollback
    /\ Release
    /\ UNCHANGED txdirs

-----------------------------------------------------------------------------
(***************************************************************************)
(* Public operations, up to their last staged object: the recovered writer *)
(* checks the request against `work', makes a transaction directory and    *)
(* records what it is going to publish.                                    *)
(***************************************************************************)
Begin(p, newPlan, next) ==
    /\ writer = p
    /\ phase = "locked"
    /\ Len(work.reflog) < MaxReflog
    /\ work' = [work EXCEPT !.txlog = @ \union {"write"}]
    /\ txdirs' = txdirs \union {"write"}
    /\ plan' = newPlan
    /\ phase' = next
    /\ UNCHANGED <<db, Files, writer, reading, interrupted>>

RefPlan(r, old, new, message) ==
    [NoPlan EXCEPT !.ref = r, !.old = old, !.new = new, !.message = message]

\* The reflog and the commit's parents treat an empty branch as None.
AsParents(head) == IF head = NoCommit THEN << >> ELSE <<head>>

StoredBlobs(m) == UNION {BlobsOf[c] : c \in m.commits}
StoredChunks(m) == UNION {ChunksOf[c] : c \in m.commits}

\* create_commit().  Content of the new snapshot that is not `kept' from the
\* head or copied from another revision is uploaded.  Uploaded chunks that the
\* index knows are not staged again, but their pack is looked at.
CreateCommit(p) ==
    \E b \in Branches, parent \in work.commits \union {AnyHead}, c \in Commits :
       /\ work.refs[b] # Absent
       /\ parent \in {AnyHead, work.refs[b]}
       /\ ParentsOf[c] = AsParents(work.refs[b])
       /\ \E keptBlobs \in SUBSET (BlobsOf[c] \intersect StoredBlobs(work)),
             keptChunks \in SUBSET (ChunksOf[c] \intersect StoredChunks(work)) :
             LET uploaded == ChunksOf[c] \ keptChunks
             IN  /\ \A k \in uploaded :
                       Indexed(work, k) => packFiles[work.chunkLoc[k]] # {}
                 /\ Begin(p,
                      [RefPlan(b, work.refs[b], c, "commit") EXCEPT
                         !.commits = {c},
                         !.blobs = BlobsOf[c] \ keptBlobs,
                         !.chunks = {k \in uploaded : ~Indexed(work, k)}],
                      "staged")

\* merge(), a branch that the source contains: the head moves.
FastForward(p) ==
    \E b \in Branches, source \in work.commits :
       /\ work.refs[b] # Absent
       /\ \/ work.refs[b] = NoCommit
          \/ /\ work.refs[b] # source
             /\ work.refs[b] \in Ancestors[source]
       /\ Begin(p, RefPlan(b, work.refs[b], source, "merge"), "published")

\* merge(), diverged histories without a conflict: a commit with two parents
\* whose files are all files of one side or the other.
MergeCommit(p) ==
    \E b \in Branches, source \in work.commits, c \in Commits :
       LET target == work.refs[b]
       IN  /\ target \in Commits
           /\ source \notin Ancestors[target]
           /\ target \notin Ancestors[source]
           /\ Ancestors[target] \intersect Ancestors[source] # {}
           /\ ParentsOf[c] = <<target, source>>
           /\ BlobsOf[c] \subseteq BlobsOf[target] \union BlobsOf[source]
           /\ ChunksOf[c] \subseteq ChunksOf[target] \union ChunksOf[source]
           /\ Begin(p, [RefPlan(b, target, c, "merge") EXCEPT !.commits = {c}],
                    "staged")

\* reset_ref().
ResetRef(p) ==
    \E b \in Branches, c \in work.commits :
       /\ work.refs[b] # Absent
       /\ Begin(p, RefPlan(b, work.refs[b], c, "reset ref"), "published")

\* create_branch() and create_tag().  Only a branch can start empty.
CreateRef(p) ==
    \E r \in Refs, head \in work.commits \union {NoCommit} :
       /\ work.refs[r] = Absent
       /\ head = NoCommit =>
             r \in Branches /\ \E b \in Branches : work.refs[b] = NoCommit
       /\ Begin(p, RefPlan(r, NoCommit, head, "create"), "published")

\* delete_branch() and delete_tag().
DeleteRef(p) ==
    \E r \in Refs \ {DefaultBranch} :
       /\ work.refs[r] # Absent
       /\ Begin(p, RefPlan(r, work.refs[r], Absent, "delete"), "published")

\* squash_history(): the newest commits of the first-parent lineage, down to
\* the chosen root, are written again without what came before them.
SquashHistory(p) ==
    \E b \in Branches, old \in Chains, new \in Chains, runGc \in BOOLEAN :
       /\ Len(old) = Len(new)
       /\ old[1] = work.refs[b]
       /\ \A i \in 1..Len(old) :
             /\ old[i] \in work.commits
             /\ BlobsOf[new[i]] = BlobsOf[old[i]]
             /\ ChunksOf[new[i]] = ChunksOf[old[i]]
             /\ Len(ParentsOf[new[i]]) = IF i = Len(new) THEN 0 ELSE 1
       /\ Begin(p, [RefPlan(b, old[1], new[1], "squash history") EXCEPT
                      !.commits = {new[i] : i \in 1..Len(new)},
                      !.thenGc = runGc],
                "staged")

\* The request needs no change: exist_ok, a merge that is up to date or in
\* conflict, a dry run.
NothingToDo(p) ==
    /\ writer = p
    /\ phase = "locked"
    /\ phase' = "ready"
    /\ UNCHANGED <<db, work, Files, txdirs, writer, plan, reading, interrupted>>

\* gc() enters where squash_history(run_gc=True) arrives later.
RequestGc(p) ==
    /\ writer = p
    /\ phase = "locked"
    /\ phase' = "collect"
    /\ UNCHANGED <<db, work, Files, txdirs, writer, plan, reading, interrupted>>

-----------------------------------------------------------------------------
(***************************************************************************)
(* Publication.  Files go first, then the rows that speak of them.         *)
(***************************************************************************)
PublishBlob(p) ==
    /\ writer = p
    /\ phase = "staged"
    /\ \E b \in plan.blobs \ blobFiles : blobFiles' = blobFiles \union {b}
    /\ UNCHANGED <<db, work, packFiles, txdirs, writer, phase, plan, reading,
                   interrupted>>

\* Pack names are never used twice; a name that neither a file nor an index
\* row bears is as good as new.
FreshPack(q) ==
    /\ packFiles[q] = {}
    /\ \A k \in Chunks : db.chunkLoc[k] # q /\ work.chunkLoc[k] # q

WritePack(ks, q) ==
    IF ks = {}
    THEN UNCHANGED packFiles
    ELSE FreshPack(q) /\ packFiles' = [packFiles EXCEPT ![q] = ks]

\* Mutant: rows do not wait for the blob files.
BlobsUnordered == TRUE

BlobsWritten == plan.blobs \subseteq blobFiles

\* The new pack and every row: objects and, merged into it, the chunk index.
PublishRest(p) ==
    /\ writer = p
    /\ phase = "staged"
    /\ BlobsWritten
    /\ \E q \in Packs :
          /\ WritePack(plan.chunks, q)
          /\ work' = [work EXCEPT
                !.commits = @ \union plan.commits,
                !.blobs = @ \union plan.blobs,
                !.chunkLoc = [k \in Chunks |-> IF k \in plan.chunks THEN q
                                                                    ELSE @[k]]]
    /\ phase' = "published"
    /\ UNCHANGED <<db, blobFiles, txdirs, writer, plan, reading, interrupted>>

EntriesOf(log, r) == {i \in DOMAIN log : log[i].ref = r}

LastOf(log, r) == CHOOSE i \in EntriesOf(log, r) :
                     \A j \in EntriesOf(log, r) : j <= i

\* Mutant: a record equal to any earlier one is dropped.
AppendReflogOnce(log, e) ==
    IF \E i \in DOMAIN log : log[i] = e THEN log ELSE Append(log, e)

\* _append_reflog(): a record equal to the last one of its ref is dropped.
AppendReflog(log, e) ==
    IF EntriesOf(log, e.ref) # {} /\ log[LastOf(log, e.ref)] = e
    THEN log
    ELSE Append(log, e)

\* Mutant: a deleted ref is logged as it is.
AsHeadOfDeleted(v) == v

AsHead(v) == IF v = Absent THEN NoCommit ELSE v

UpdateRef(p) ==
    /\ writer = p
    /\ phase = "published"
    /\ work' = [work EXCEPT
          !.refs[plan.ref] = plan.new,
          !.reflog = AppendReflog(@, [ref |-> plan.ref, old |-> plan.old,
                                      new |-> AsHead(plan.new),
                                      message |-> plan.message])]
    /\ phase' = "updated"
    /\ UNCHANGED <<db, Files, txdirs, writer, plan, reading, interrupted>>

\* Mutant: only the directory is removed.
CleanupOnlyDirectory(p) ==
    /\ writer = p
    /\ phase = "updated"
    /\ txdirs' = txdirs \ {"write"}
    /\ phase' = IF plan.thenGc THEN "collect" ELSE "ready"
    /\ UNCHANGED <<db, work, Files, writer, plan, reading, interrupted>>

\* _safe_cleanup_txdir(): the log row goes, the directory unless that fails.
Cleanup(p) ==
    /\ writer = p
    /\ phase = "updated"
    /\ work' = [work EXCEPT !.txlog = @ \ {"write"}]
    /\ txdirs' \in {txdirs, txdirs \ {"write"}}
    /\ phase' = IF plan.thenGc THEN "collect" ELSE "ready"
    /\ UNCHANGED <<db, Files, writer, plan, reading, interrupted>>

-----------------------------------------------------------------------------
(***************************************************************************)
(* _gc_unlocked().                                                         *)
(***************************************************************************)
\* Mutant: only the heads are live, not what they were made from.
GcPlanOfHeads ==
    [plan EXCEPT !.commits = work.commits \ HeadsOf(work),
                 !.blobs = work.blobs \ LiveBlobs(work),
                 !.chunks = LiveChunks(work)]

\* Mutant: small files are left out of the collection.
GcPlanWithoutBlobs ==
    [plan EXCEPT !.commits = work.commits \ Live(work),
                 !.blobs = {},
                 !.chunks = LiveChunks(work)]

\* What nothing reaches, and the chunks that something does reach.
GcPlan ==
    [plan EXCEPT !.commits = work.commits \ Live(work),
                 !.blobs = work.blobs \ LiveBlobs(work),
                 !.chunks = LiveChunks(work)]

\* Full verification, then what nothing reaches is written down.
GcStage(p) ==
    /\ writer = p
    /\ phase = "collect"
    /\ Verified(work)
    /\ plan' = GcPlan
    /\ work' = [work EXCEPT !.txlog = @ \union {"gc"}]
    /\ txdirs' = txdirs \union {"gc"}
    /\ phase' = "gc staged"
    /\ UNCHANGED <<db, Files, writer, reading, interrupted>>

\* The live chunks move into one new pack and the index is replaced; the
\* directory is cleaned up; the rows that nothing reaches are deleted.
GcPublish(p) ==
    /\ writer = p
    /\ phase = "gc staged"
    /\ \E q \in Packs :
          /\ WritePack(plan.chunks, q)
          /\ work' = [work EXCEPT
                !.commits = @ \ plan.commits,
                !.blobs = @ \ plan.blobs,
                !.chunkLoc = [k \in Chunks |-> IF k \in plan.chunks THEN q
                                                                    ELSE NoPack],
                !.txlog = @ \ {"gc"}]
    /\ txdirs' \in {txdirs, txdirs \ {"gc"}}
    /\ phase' = "sweep"
    /\ UNCHANGED <<db, blobFiles, writer, plan, reading, interrupted>>

\* Files leave for the quarantine, from which nothing is ever read back.
GcMoveBlob(p) ==
    /\ writer = p
    /\ phase = "sweep"
    /\ \E b \in plan.blobs \intersect blobFiles : blobFiles' = blobFiles \ {b}
    /\ UNCHANGED <<db, work, packFiles, txdirs, writer, phase, plan, reading,
                   interrupted>>

GcMovePack(p) ==
    /\ writer = p
    /\ phase = "sweep"
    /\ plan.blobs \intersect blobFiles = {}
    /\ \E q \in UnusedPacks : packFiles' = [packFiles EXCEPT ![q] = {}]
    /\ UNCHANGED <<db, work, blobFiles, txdirs, writer, phase, plan, reading,
                   interrupted>>

-----------------------------------------------------------------------------
(***************************************************************************)
(* Readers resolve a revision under the shared lock and keep the lock      *)
(* until the last byte is read.                                            *)
(***************************************************************************)
ReadOpen(p) ==
    /\ writer = Nobody
    /\ reading[p] = NotReading
    /\ \E c \in db.commits : reading' = [reading EXCEPT ![p] = c]
    /\ UNCHANGED <<db, work, Files, txdirs, writer, phase, plan, interrupted>>

ReadClose(p) ==
    /\ reading[p] # NotReading
    /\ reading' = [reading EXCEPT ![p] = NotReading]
    /\ UNCHANGED <<db, work, Files, txdirs, writer, phase, plan, interrupted>>

-----------------------------------------------------------------------------
Request(p) ==
    \/ CreateCommit(p) \/ FastForward(p) \/ MergeCommit(p) \/ ResetRef(p)
    \/ CreateRef(p) \/ DeleteRef(p) \/ SquashHistory(p)
    \/ NothingToDo(p) \/ RequestGc(p)

Publish(p) == PublishBlob(p) \/ PublishRest(p) \/ UpdateRef(p) \/ Cleanup(p)

Gc(p) == GcStage(p) \/ GcPublish(p) \/ GcMoveBlob(p) \/ GcMovePack(p)

Write(p) == Request(p) \/ Publish(p) \/ Gc(p) \/ CommitTx(p) \/ Fail(p)

Next ==
    \E p \in Clients :
       \/ Acquire(p) \/ Write(p) \/ Crash(p) \/ ReadOpen(p) \/ ReadClose(p)

\* The lock holder runs on: nothing inside the lock waits for anyone.
Fairness == \A p \in Clients : WF_vars(Write(p)) /\ WF_vars(ReadClose(p))

Spec == Init /\ [][Next]_vars

FairSpec == Spec /\ Fairness

-----------------------------------------------------------------------------
(***************************************************************************)
(* Properties.                                                             *)
(***************************************************************************)
TypeOK ==
    /\ db \in Metadata
    /\ work \in Metadata
    /\ blobFiles \in SUBSET Blobs
    /\ packFiles \in [Packs -> SUBSET Chunks]
    /\ txdirs \in SUBSET TxKinds
    /\ writer \in Clients \union {Nobody}
    /\ phase \in Phases
    /\ plan \in Plan
    /\ reading \in [Clients -> Commits \union {NotReading}]
    /\ interrupted \in BOOLEAN

\* Whatever fails or dies, and wherever: the durable refs point to commits
\* whose rows exist, so do the rows of all their ancestors, and the rows that
\* name their blobs and the places of their chunks (refs, objects_* and
\* chunk_visible agree after every SQLite commit and rollback).
HistoryComplete ==
    \A c \in Live(db) :
       /\ c \in db.commits
       /\ BlobsOf[c] \subseteq db.blobs
       /\ \A k \in ChunksOf[c] : Indexed(db, k)

\* As long as no writer stopped while gc was removing files, and outside that
\* time, every file of every version that a ref reaches can be read back.
HistoryReadable ==
    ~interrupted /\ phase # "sweep" => \A c \in Live(db) : Readable(db, c)

\* A commit that a reader resolved stays readable until the reader lets go of
\* the shared lock, whatever writers, gc among them, would like to do.
ReadersUndisturbed ==
    ~interrupted => \A p \in Readers : Readable(db, reading[p])

\* What the writer is about to commit is readable at every moment, even while
\* gc removes files: the publication order never lets rows run ahead of files.
PendingReadable ==
    ~interrupted /\ writer # Nobody => \A c \in Live(work) : Readable(work, c)

\* No row of the transaction log outlives its transaction, so the rollback
\* that readers would start on such a row never has to take the write lock.
TxLogEmpty == db.txlog = {}

\* The reflog explains the refs: each entry starts where the previous one of
\* its ref ended, and the last one ends at the present head.
ReflogExplainsRefs ==
    \A r \in Refs :
       LET entries == EntriesOf(db.reflog, r)
       IN  /\ \A i, j \in entries :
                 i < j /\ (\A n \in entries : n <= i \/ j <= n)
                    => db.reflog[j].old = db.reflog[i].new
           /\ entries # {} =>
                 db.reflog[LastOf(db.reflog, r)].new = AsHead(db.refs[r])
           /\ entries = {} => db.refs[r] \in {Absent, NoCommit}

\* A gc that commits leaves the rows and packs of the live history and no
\* others, for a plain gc() and for squash_history(run_gc=True) alike.
IsReclaimed ==
    \A p \in Clients : phase = "sweep" /\ CommitTx(p) =>
       /\ db'.commits = Live(db')
       /\ db'.blobs = LiveBlobs(db')
       /\ {k \in Chunks : Indexed(db', k)} = LiveChunks(db')
       /\ \A q \in Packs : packFiles'[q] # {} =>
             \E k \in LiveChunks(db') : db'.chunkLoc[k] = q

\* Every step is one after which IsReclaimed holds (_gc_unlocked, and the end
\* of the lock scope it runs in).
GcReclaims == [][IsReclaimed]_vars

\* What doc and README promise beyond HistoryReadable, which the code does not
\* keep: no interruption, of gc included, damages a version that is committed
\* and still reachable.
CommittedVersionsSurvive ==
    writer = Nobody => \A c \in Live(db) : Readable(db, c)

\* The metadata, across all the steps, exceptions and crashes above, changes
\* as VersionStore says: one whole version at a time.
Versions == INSTANCE VersionStore WITH refs <- db.refs, commits <- db.commits

ImplementsVersionStore == Versions!Spec

\* Nobody holds the exclusive lock for ever.
LockIsReleased == []<>(writer = Nobody)
=============================================================================
