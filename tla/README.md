# A TLA+ model of hubvault

hubvault keeps versioned machine-learning artifacts in one movable directory: a
SQLite file for refs, history and object rows, and plain files for the bytes.  It
has no daemon.  Any number of processes open the directory, and an advisory file
lock with SQLite's own transactions is all that keeps them apart.  These modules
describe what that arrangement guarantees, which TLC checks on small instances
and TLAPS proves for instances of every size.

Paths below are relative to the repository; `backend.py` is
`hubvault/repo/backend.py` and `sqlite.py` is `hubvault/repo/sqlite.py`.

## Inventory

| Part | State it keeps | Operations | What makes it correct |
|---|---|---|---|
| Write path (`backend.py`) | the metadata, blob files, packs, `txn/*`, the lock `locks/repo.lock` | `create_commit`, `merge`, `reset_ref`, `create_*`/`delete_*` of branches and tags, `squash_history`, `gc`, recovery | a stop anywhere leaves a whole version; rows never run ahead of files; refs and reflog agree |
| Metadata store (`sqlite.py`) | tables `refs`, `reflog`, `txn_log`, `chunk_visible`, `objects_*`, `repo_meta` | one SQLite transaction per lock scope | all or nothing, and readable again after a crash |
| Creation and discovery (`backend.py`: `create_repo`, `_is_repo`, `_ensure_repo`) | directory layout, `FORMAT`, schema, configuration, first commit | several durable steps without a common transaction | a crash leaves something that opens or can be created again |
| Files and commit operations (`backend.py`: `_stage_tree_objects`, `_snapshot_for_tree`, `list_repo_tree`, `get_paths_info`, `create_commit`, `upload_folder`) | tree objects; the unlocked plan of a folder upload | add, delete, copy, in lists; read a version in five ways | equal files are equal trees; a list of operations means what it says; all views of a version agree |
| Refs and revisions (`backend.py`: `_resolve_revision` and five more resolvers, `list_repo_reflog`) | refs, reflog | six ways to take a name apart | one reads what one wrote; reflogs answer |
| Merge (`backend.py`: `_find_merge_base_unlocked`, `_merge_snapshots_unlocked`) | none, pure | merge base by distances, three-way merge of snapshots | a change of one side survives, two different changes of one path conflict, the result is a legal tree |
| Maintenance (`backend.py`: `squash_history`, `_gc_unlocked`, `_full_verify_unlocked`, `_storage_overview_unlocked`) | quarantine, new packs | rewrite a lineage, verify, collect | nothing reachable is lost, nothing unreachable stays |
| Chunked storage (`storage/pack.py`, `index.py`, `chunk.py`) | packs, staged index | write once, read ranges, content-defined chunks | a range reads as written; each chunk is stored once |
| Caches of one backend (`backend.py`: `_recent_*`, `_active_metadata_connection`) | payloads and verified chunks keyed by signatures; the active connection | read through, fill while writing | a hit returns what the store would return; a thread uses its own connection |
| Detached views (`backend.py`: `hf_hub_download`, `snapshot_download`) | files and metadata under `cache/`, or the user's `local_dir` | materialise, reuse when "current", remove what is stale | a view has the bytes of its revision, whatever else writes there |
| Upload protocol (`server/uploads.py`) | none between requests | plan, then apply with the planned base head | no commit over a head that the plan did not see |
| Content routes and client cache (`server/routes/content.py`, `remote/api.py`) | files by etag, snapshots by commit, on the client | plan, list, look up, fetch | a cached file is what its name says |
| History queries (`backend.py`: `list_repo_commits`, `_last_commit_info_by_path_unlocked`) | none, pure | log, last commit of a path | each commit once; a version is credited to the commit that brought it |
| Other HTTP routes, public API, models, command line, web front end | sessions, none, browser state | translation of requests | no protocol of their own |

How they interact: every public operation opens the lock file, takes the shared or
the exclusive lock, opens one SQLite connection and runs one transaction.  Readers
keep the shared lock until the last byte has been read.  Writers stage objects in
a transaction directory, move the files into place, insert the rows, move the ref,
append to the reflog, clean the directory up, and only then, as the scope ends,
commit SQLite and unlock.  The server makes a new backend for every request and
so adds interleavings, but no state; one request may take the lock several times.
The remote client adds a cache that any number of processes share without a lock.

What is hard: the two halves of a write (files, which are durable at once, and
rows, which are durable at the end) and a stop between any two of their steps;
gc, which removes files and rows of which readers, refs and later uploads may
still think; recovery by whoever comes next; downloads that run at once into
one directory that the user edits too; what one backend object remembers while
threads share it and other processes change the store; and the requests of one
upload or download, between which everybody else may act.  `PROJECT.json` lists
each of these hazards with its line.

## Modules

* **`CommitGraph`** – commits and their parents.  Identifiers are hashes of the
  payload, so the parents of a commit are a constant function, and a history is
  a closed set of commits.  `Ancestors` is the least closed set around a commit.
* **`VersionStore`** – the abstract specification: refs and commits, each change
  one step.  A step moves, creates or deletes one ref together with the commits
  that the ref newly needs (`Move`), forgets what no ref reaches (`Forget`), or both
  (`MoveAndForget`, a squash that also collects).
* **`RepoStore`** – the write path.
* **`RepoBootstrap`** – how a directory becomes a repository and how a call finds
  out that it is one: `create_repo()`, `_is_repo()`, `_ensure_repo()`, the journal.
* **`BackendSessions`** – what one backend object keeps in memory: the active
  connection that its threads share, and recent object payloads.
* **`ChunkedFiles`** – large files: chunks, packs, index, range reads, compaction and
  the cache of recent chunks.
* **`Trees`**, **`CommitOperations`** – versions as tree objects and the ways to read
  them; commits as lists of operations, and folder uploads.
* **`Revisions`** – the resolvers of names, with everything that changes refs.
* **`Published`** – revisions and the files of commits, as a download sees them;
  **`DetachedViews`** and **`RemoteDownloads`** extend it by the downloads of the
  backend and by those over HTTP.
* **`UploadProtocol`** – uploads through the server: a plan, and the request that
  applies it, with everything that may happen in between.
* **`ThreeWayMerge`** – snapshots, their three-way merge, and what a legal tree is; pure.
* **`History`** – histories as commits, merges and squashes make them; the merge base.
* **`HistoryWalks`** – the walks over a history as the code does them, loop by loop.
* **`MCRepoStore`**, **`MCRepoBootstrap`**, **`MCBackend`**, **`MCOperations`**,
  **`MCDownloads`**, **`MCUploadProtocol`**, **`MCHistory`** – small instances for TLC.
  `MCBackend` and `MCDownloads` each put two or three specifications that share
  constants beside one another; a behaviour is one of the first or one of the second.
* **`InductionLemmas`** – the lemmas that stand in for induction and recursion in all proofs.
* **`RepoStoreProofs`**, **`RepoBootstrapProofs`**, **`BackendProofs`** (for
  `BackendSessions` and `ChunkedFiles`),
  **`DownloadsProofs`** (for `DetachedViews`, `RemoteDownloads` and `Revisions`),
  **`OperationsProofs`** (for `Trees` and `CommitOperations`),
  **`UploadProtocolProofs`**, **`HistoryProofs`** – the theorems.

### RepoStore and the code

| Variable | Code |
|---|---|
| `db` | the committed content of `metadata.sqlite3`; `work` is the content seen by the connection of the open write transaction |
| `blobFiles`, `packFiles` | `objects/blobs/**/*.data`, `chunks/packs/*.pack` |
| `txdirs` | directories under `txn/`; one element stands for all of its kind |
| `writer`, `reading` | holders of the lock on `locks/repo.lock`; `reading[p]` is the commit that a reader resolved |
| `phase`, `plan` | how far the writer's call has come, and what it has staged |
| `interrupted` | auxiliary, never read by an action: a gc stopped while it removed files |

`Acquire` is `_write_locked()` up to its `yield` with `_recover_transactions()`, the
first call of every writer.  Each public writer is one action up to its last
staged object (`CreateCommit`, `FastForward`, `MergeCommit`, `ResetRef`, `CreateRef`,
`DeleteRef`, `SquashHistory`, `RequestGc`), since until then it has touched nothing
but its own transaction directory and rows that nobody else sees.  `NothingToDo`
stands for the calls that return without a change.  Publication follows the
order of `_publish_staged_objects()`: blob files one at a time (`PublishBlob`), then
the pack and all rows (`PublishRest`); `UpdateRef` is `_finalize_ref_update_unlocked()`,
`Cleanup` is `_safe_cleanup_txdir()`.  `GcStage`, `GcPublish`, `GcMoveBlob` and
`GcMovePack` are `_gc_unlocked()`.  `CommitTx`, `Fail` and `Crash` are the three ways
a lock scope ends: normally, by an exception (failpoints, I/O errors, rejected
requests), by the death of the process.  `Fail` and `Crash` are possible between
any two steps.

Abstractions: the row of a commit stands for the rows of its trees and files,
which are written and deleted in the same transaction; bytes, sizes, checksums
and messages are left out, but for the reflog's message kind, on which its
deduplication depends; changes of `work` that nobody can see are merged with the
next change of a file.

### RepoBootstrap and the code

| Variable | Code |
|---|---|
| `contents` | what lies beside `locks/`: nothing, files of somebody else, the layout, the layout with `FORMAT` |
| `database` | the durable content of `metadata.sqlite3`: no file, a file without tables, tables, tables with `repo_meta` |
| `updates` | how often the default branch has moved; 0 while its head is None |
| `journal` | whether `metadata.sqlite3-journal` was left by a process that is gone |
| `writer`, `step`, `reading` | the lock, and how far its holder is |
| `checked` | clients between `_ensure_repo()`, which takes no lock, and their lock |

`BeginCreate`, `Leave`, `LayOut`, `WriteMarker`, `CreateFile`, `CreateTables`, `Configure` and
`CreateInitialCommit` are the durable steps of `create_repo()` in its order, each of the
last three a SQLite commit.  `Check`, `BeginRead`, `EndRead`, `BeginWrite` and `Write` are
any other operation, as far as opening is concerned.  `Stop` ends a writer early; if
it dies in a commit the journal may stay.  A connection that may write removes a
journal as it opens (`LockExclusively`); one opened with `mode=ro` fails instead.

The two modules meet at the initial state of `RepoStore`, which starts where
`create_repo()` returns, or where it stopped before its initial commit (head None).
`RepoStore` has no journal: after a crash its next `Acquire` presupposes that the
journal has been played back, which `hot_journal` below shows to need a call of
`create_repo()`.

### BackendSessions and the code

| Variable | Code |
|---|---|
| `stage`, `writer` | where the operation of each thread is, and the holder of the exclusive lock |
| `active` | `_active_metadata_connection` of each object; a connection bears the name of the thread that opened it, `Dead` is a closed one |
| `previous` | what `_temporary_active_metadata_connection()` found and will put back |
| `rows`, `work`, `version` | object rows, committed and in the open transaction; the signature (size and time) of the database file |
| `cache` | `_recent_object_payload_cache` |
| `fetched` | the object whose row `_read_object_payload()` has read without the lock, before it takes the signature |
| `overtaken`, `late` | auxiliary: the threads that such a read has left behind, because a transaction ended or gc deleted the object; what they have put into the cache |
| `undone` | auxiliary: what was read in transactions that were rolled back since |

`Check` is `_ensure_repo()`; `EnterRead`, `EnterWrite`, `LeaveRead` and `LeaveWrite` are the ends
of `_read_locked()` and `_write_locked()`; `Close`, the last of them, closes the connection
and then unlocks.  `ReadObject` is `_read_object_payload()` in a lock scope, one step because
nobody else commits during it.  `upload_folder()` calls it before it locks, to see what there is to
delete: `Fetch` is the lookup and the read of the row, through the connection of another thread if
that is in the object, and `Stamp` takes the signature of the file and makes the entry; whatever else
runs may come between.  `Abandon` is an operation that ends before its lock scope.  `Insert` is the
publication of an object and `Delete` the deletion by gc.

### ChunkedFiles and the code

`packs`, `index` and `files` are the committed packs (as bytes), the table `chunk_visible`
and the large files; `tx` is the open write transaction; `recent` and `used` are
`_recent_chunk_cache` and its counter of bytes, for each backend object.  `Stage` is
`_stage_chunked_add_operation()` with `write_pack()`, `Read` is `_read_chunked_file_range()`
through the cache, `Compact` is the chunk part of gc.  A chunk is named by its bytes and not by
their hash, and where FastCDC cuts a file is a constant, which only has to add up.

### CommitOperations and the code

`head` is the tree of the branch head, in which a tree object is its own payload (it is
named by the hash of it).  A snapshot is a sequence of entries, since the code's
dictionary keeps an order and this order could leak into trees.  `CreateCommit` takes every
list of up to `MaxOps` operations; `PlanFolder` is `upload_folder()` up to its look at
the branch, without the lock, and `SendFolder` its commit.

`id` is the commit that the head is, `tag` another revision with the version it names, which
`CreateTag`, `DeleteTag` and `ResetRef` change and move the branch to.  A copy is from the
version the commit builds on or, with `src_revision`, from that of the tag, which has to be there when
the commit is made (`SourceSnapshots`, `SourceOf`).  The caller's `parent_commit` is nothing, the name of
the branch, the name of the tag, or the identifier of a commit (`plan.given`), which may be the
head that the upload looks at or not.  It is resolved when the commit is made (`SameParent`), so the
branch's name always agrees, and an identifier agrees again after a `reset_ref()` back to it.
`sent.bound` marks the case in which the comparison says something: the identifier of the head
that was looked at.

### Revisions and the code

`refs`, `parents`, `present` and `reflog` are the refs, all commits ever made, those whose
rows gc has left, and the commits that reflog entries name.  A text that a caller passes is
a sequence that ends in a name, so that "refs/heads/main", "main", "main/." and a commit id
are told apart.  `ResolveRevision`, `Written`, `Short` (with `IsTarget` and `IsSquashable`) and `Queried` are
the resolvers; the operations are those of the write path, one step each, and differ by
the resolver they use.

### DetachedViews, RemoteDownloads and the code

| Variable | Code |
|---|---|
| `heads` | what each revision resolves to on the server or in the repository |
| `disk`, `meta` | files of each root (a managed view under `cache/`, or `local_dir`), and the metadata of the view: revision, and content, size and time of each file |
| `job` | a running `hf_hub_download()` or `snapshot_download()`: what is stale, what is still to do, what it will record |
| `downloads`, `snapshots` | the client cache: files under their etag, snapshots under their commit |
| `call` | a running download of the remote client |
| `clashed`, `loose`, `spoiled`, `alone`, `moved` | auxiliary, read by no action: they say when a promise is not made |

`Download` reads the metadata and decides; `DropStale`, `Look`, `Unlink`, `Write`, `Stat` are the steps
of `_ensure_detached_view()` and of the loop around it; `Record` writes the metadata and `End`
returns or dies.  Every step of two downloads interleaves.  `AskFile`, `FetchFile`,
`AskSnapshot`, `ListFiles`, `PlanSnapshot`, `FetchOne` are the repository calls behind the three content
routes, each under a lock of its own; `OpenFile`/`CloseFile` and `OpenOne`/`CloseOne` are the
two moments of a write without a temporary file; `Hangup` is a call that dies.

Abstractions: a content stands for its bytes, oid, SHA-256 and etag.  Times are readings
of one clock that each write advances; an edit that restores size and time, which the
code cannot notice, is left out.  Writers of the repository wait for downloads of the
backend, so that commits and pruning happen when none runs; over HTTP they do not.

### UploadProtocol and the code

| Variable | Code |
|---|---|
| `log` | all commits that were ever made; each remembers the upload that it is of |
| `present` | the commits whose objects gc has left |
| `head` | the target branch |
| `index` | chunks that the chunk index can find |
| `plans` | the answer to `commit-plan`, kept by the client |
| `requests` | what the server works on: one `apply_commit_manifest()` each, and how far it is |

Here a lock scope is one step, which is what `RepoStore` shows it to be.  `PlanUpload`
is `plan_commit_manifest()`.  `Send` may be repeated with the same plan, which is a
retry or a duplicate, and nothing says that the answer of an earlier one arrived.
`CheckHead`, `Materialize` and `CreateCommit` are the three lock scopes of
`apply_commit_manifest()`: `_target_branch_state()`, `_read_existing_chunk_bytes()` and
`create_commit()`.  `WriteLocally`, `ResetRef` and `Gc` are everybody else.

Abstractions: one branch, and one added file in each manifest, large enough to be
stored in chunks; its content is a set of chunks, its checksum that set.  Sent
bytes are verified against checksums, so they are taken to be right.  `parent_commit`
in the manifest is absent or the name of the branch; a commit id behaves like an
absent one, as the head has to be that commit already when the plan is made.

### History and the code

The only variable is `log`, all commits in the order of time, each with its parents and
its snapshot.  Branches are left out: since `create_branch()` and `reset_ref()` take any
commit, any two commits may be the heads of two branches, and the properties are
stated for every pair.  A snapshot maps paths to versions; a version is what
`_file_identity_unlocked()` compares.  Which paths collide is given by two relations,
`Below` (a file where the other needs a directory) and `Twins` (files of one directory
whose names differ in case; the code does not compare the names of directories).

`CreateCommit` allows every list of operations with a legal result.  `Merge` is the part of
`merge()` for heads of which neither contains the other; the answers "fast-forward"
and "already up to date" make no commit, and conflicts change nothing; the base that any
of these answers names is in `AnsweredBases`, which is empty where `min()` raises.  The last
criterion for a merge base is the identifier, a hash, so `Merge` takes any of the
nearest.  `SquashHistory` is given a new message; otherwise a rewritten commit could
have the identifier of the old one.  gc is left out: it removes what no head reaches.

`History` defines ancestors and distances by what they are; `HistoryWalks` has the loops of
the code with their queue or stack (`Distances`, `Listing`, `LastCommit`, `Lineage`, `Blocks`),
and the run compares.  A loop is a step (`Measure`, `Visit`, `Search`, `GoBack`, `Seek`), which does
nothing once the condition of the `while` fails, applied `Rounds` times; a larger number would
change nothing, which the proofs show for every history.

## Runs

| Run | Question | Result |
|---|---|---|
| `write_path` | all operations of two clients on a branch and a tag | the invariants hold, gc collects exactly, and the metadata implements `VersionStore` |
| `lock_liveness` | does every lock scope end? | yes, under weak fairness of the lock holder |
| `gc_interrupted` | do committed versions survive an interruption of gc, as `plan/init/03-transaction-consistency.md:11` and `README.md:317` say? | **no** |
| `bootstrap` | four clients create, open, read, write and stop anywhere | what opens is whole; `create_repo()` never takes a repository back |
| `hot_journal` | is an interrupted write "treated as if it never happened" (`docs/source/index_en.rst:67`)? | **no**, not inside a SQLite commit |
| `upload` | two clients plan, send and resend while others commit, reset and collect | plans with a base head are bound to it, nothing is uploaded twice, uploads are whole |
| `stale_plan` | is a stale plan always refused, as `hubvault/server/uploads.py:5-7` says? | **no**, not without a base head and not for a branch name |
| `history` | what do merges do to files and trees, and what do the walks find? | trees stay legal, merges converge, walks are right; the base is Git's as long as nothing has been merged |
| `downloads` | two downloads at once, through the backend or over HTTP, while revisions move, users edit and calls die; and what the names given to them mean | views are faithful but where two downloads clash in `local_dir`; cached files are right but where a call died or the revision moved; the resolvers agree |
| `backend` | three threads over two backend objects, some reading without the lock; large files through a full cache | writers keep their connection, caches serve what is committed but for what a rollback or a read without the lock leaves until the next commit, ranges are exact |
| `operations` | every small version of three names that commits of two operations can make, with copies from another revision, and folder uploads while the branch moves and is reset | all views agree, equal files are equal trees, operations mean what they say |
| `shared_backend` | can threads share one object, as `plan/init/10-phase14-reachable-durability-and-metadata-redesign.md:71` says? | **no**, not two readers |

The properties of the write path and of creation:

* `HistoryComplete`, `HistoryReadable` – rows, and rows with their files, of
  everything that the durable refs reach.
* `ReadersUndisturbed` – the shared lock protects a resolved commit, gc or not.
* `PendingReadable` – at each moment the open transaction could be committed
  and would be readable.  This is stronger than the former two and is what the
  order "files, then rows; new pack, new index, then old packs" is for.
* `TxLogEmpty` – `txn_log` rows never become durable.  It has a consequence worth
  knowing: `_rollback_interrupted_ref_updates_if_needed()`, the reader's way into
  recovery, never finds anything to do; leftover directories wait for a writer.
* `ReflogExplainsRefs` – each entry continues the previous one of its ref and the
  last one names the present head, although equal records in a row are dropped.
* `GcReclaims` – rows, chunk index and packs after a committed gc are exactly
  those of the live history.
* `ImplementsVersionStore` – the refinement: `db.refs` and `db.commits`, across
  staging, failures and crashes, change by whole steps of `VersionStore`.
* `LockIsReleased` – the liveness property.
* `OpenedIsWhole` – what `_ensure_repo()` saw without the lock still holds under it.
* `ReadersSeeCommitted` – no reader holds the shared lock over a hot journal.
* `HistoryKept` – `create_repo()`, called by anybody at any time and stopped anywhere,
  keeps the configuration and the history.  (That it keeps foreign files is the theorem
  `ForeignIsKept`.)

Of the upload protocol:

* `PinnedPlansAreBound` – the comparison that counts is the one in `create_commit()`:
  a plan with a base head is applied to that head or not at all.
* `NoUploadTwice` – why a retry is safe although the server remembers nothing: the
  first success moves the head.  (After a `reset_ref()` back to the base it would be
  applied again, but not into the same history.)
* `UploadsAreWhole` – copied and reused content is what was promised, and writes
  that came between are kept, also by the plans that are not bound.

Of histories:

* `TreesStayLegal` – two legal trees may merge path by path into an illegal one.
* `MergesConverge` – merging either way is possible or not, and gives the same files.
* `BaseIsBestOnLines` – see "merge bases" below.
* `DistancesAreShortest`, `ListingCoversHistory`, `FilesAreAttributed` – the walks against
  their definitions: least distance; each commit once, the head first, each after one
  of its children; a file is credited to a commit that brought its version.
* `RelatedMergesAreAnswered` – a base is found exactly for heads that go back to the same
  beginning, whatever was merged and squashed before.
* `BlockersAreComplete` – the refs that a squash reports as keeping old history alive are
  exactly those that do, although the walk follows first parents only: a history has one root.

Of downloads and names:

* `CurrentIsFaithful` – the shortcut of a download: metadata whose files have the recorded
  sizes and times describes the commit's bytes, after any interleaving of downloads, edits,
  deaths and pruning.  The exception is a `local_dir` that two different downloads wrote to
  at once: each may record the times of the other's files.
* `ReturnsSnapshot` – what a download returns is complete and right.  Of two for the same files,
  one may remove a file that the other has just put there; other bytes are never returned.
* `ExportIsExact` – `local_dir` follows from one snapshot to the next: what earlier
  snapshots wrote and this one does not select goes away.
* `SnapshotsHoldTheirCommit`, `SnapshotsAreComplete` – the snapshot directory of the client, though
  the server reads the revision three times for one plan.
* `FilesMatchTheirEtag` – a file in the client cache, though etag and bytes come from two requests.
* `ReadsMeetWrites` – a text that means one ref to a reader means no other to a writer, a
  merge, a squash or a reflog query, unless refs have themselves names such as "refs/heads/main".
* `ReflogsAnswer` – reflogs of refs that only moved forward can always be listed, and refs be read.

Of the backend object and of files:

* `WritersUseTheirOwn` – writes go to the transaction that is committed, whatever readers
  that share the object have left in it.
* `CacheServesCommitted` – a payload that would be served is committed or the running writer's
  own.  Until anybody commits there are two exceptions: what was read in a transaction that was
  rolled back, and what `upload_folder()` read without the lock if a transaction ended before
  it took the signature (see "cached payloads" below).
* `RangesAreExact`, `ChunksAreStoredOnce`, `CacheIsAccounted` – byte ranges over shared, repeated
  and moved chunks; deduplication; and the counter of the chunk cache, kept by hand.
* `ViewsAgree` – lookup by tree, path info, listing, recursive listing and path states.
* `SameFilesSameTree` – the order of operations does not reach trees and Git identifiers.
* `CommitsMeanTheirOperations` – the last operation that speaks of a path decides, copies take what
  their source version had before the commit, and the changes shown are those.
* `FolderUploadsMirror` – a folder upload against a branch that has moved since it looked.  That nothing
  selected is left is promised only if `parent_commit` is the identifier of the head it looked at.

Bounds.  Five commits are enough for an initial commit, two commits that
diverge (one with a small file, one with a large one), their merge and a squashed
root; one blob and one chunk suffice because files are independent of each other
and both kinds occur; three packs are a commit's, a gc's and the leftover of an
interrupted run; `MaxReflog` (3 to 5) bounds the ref updates, which is all that makes
the state space infinite.  `MaxLineage` = 2 lets a squash drop or keep a parent.
One branch can diverge from itself by `reset_ref()`, with the tag keeping the other side.
Clients and packs are symmetric; the liveness run uses no symmetry.
`RepoBootstrap` is infinite only through `MaxUpdates`, of which 4 gives the initial
commit and three later writes; its four clients are one writer, one reader, one
that has checked and one that starts.
Three commits give `UploadProtocol` a base, a write that comes between and the upload
on top, or an upload and its repetition; one of the two clients leaves
`parent_commit` to the server and the other names the branch, and the three local
writes bring about each strategy of a plan.  Two requests are two copies of one
plan, or one of each client; they are symmetric.
Five commits in `History` are the initial one, two lines of which one is longer, and
their merge, the least in which a commit is reached along ways of different length;
two versions with absence make a dispute, and a file with a directory of the same
name a structural conflict.

`downloads` has two commits: one with a file `data`, the other with a directory of that name,
and a file with other bytes of the same size in both.  `MaxDownloads` = 3 lets one download
leave something, a second clash with a third; `MaxTime` = 5 is five writes or edits,
`MaxUpsets` = 1 one edit or one pruning; `MaxCalls` = 3 is a call that dies, one that
moves on, and one that finds what they left.  `Revisions` has three commits and
`MaxRefs` = 2 refs at a time among three names, two of which are one when normalised,
and the texts that can mean them.  This run has 1.6 million states.
`backend` has two threads on one object and one on another, two objects and a cache of one
entry, so that each entry evicts another; `MaxVersion` = 2 commits let one cache
miss the other's, and a read without the lock be overtaken by one and forgotten with the next.  The two threads that share an
object are symmetric, as are the two objects.  This run has 1.3 million states.  Its three files share chunks, and one has a chunk twice; `MaxCacheBytes` = 4
holds two chunks of two bytes, and `MaxPacks` = 3 are a commit's, another's and a gc's.
`operations` has the names `data`, `Data` and `data.txt`, which differ in case and of which a
directory sorts differently in Git; `MaxOps` = 2 is an operation that prepares another,
`MaxFiles` = 2 and `MaxDepth` = 3 bound the versions that a commit leaves; the lists of operations are
tried on all of them without that bound.  The tagged version has one file at most (`MaxTagged`),
and copies go to a file or into the directory of the same name (`CopyPaths`).  Four commits are one
for each of branch, tag and plan, and a new one; they are only compared, and symmetric.

Fairness.  `FairSpec` asks only that the holder of the lock keeps running and that a
reader closes eventually.  Both are what threads of a live process do: nothing
inside a lock scope waits for another client.  A crash counts as running on,
since the kernel releases the lock.  Nothing is assumed about waiting clients.

### What the refuted promises mean

`gc_interrupted`: `_gc_unlocked()` replaces the chunk index inside the SQLite transaction
and then moves the old packs into the quarantine and deletes them, all before
`_write_locked()` commits.  A process that dies in between, or an `OSError` from one of
the moves, brings the old index back without its packs.  Large files of every ref
are then unreadable, and gc itself refuses to run from then on because its
verification fails.  The variable `interrupted` marks this, and the invariants that
mention it say precisely how far the damage reaches: without it they hold always.

`hot_journal`: every operation begins with `_ensure_repo()`, whose connection is opened
with `mode=ro`.  SQLite cannot play a hot journal back over it, the error is taken
for an incomplete store, and the operation ends with `IntegrityError` before it would
have opened the writable connection that repairs everything.  The data is sound,
and any call of `create_repo()` repairs it, because that one locks before it looks,
even the call that answers "repository already exists".

`stale_plan`: `apply_commit_manifest()` compares the head with the plan and then lets
go of the lock.  What protects the rest is the `parent_commit` given to
`create_commit()`.  It is None for the first upload to an empty branch, which turns
the comparison off, and if the client gave a branch name it resolves to the head
of that moment and compares equal.  No content is lost, since `create_commit()` builds
on the head that it finds; but the upload lands on a state its client did not see.

`shared_backend`: readers overlap, so the connection that one finds in the object may be the
other's.  The first to leave puts back None under the other's hands, whose next read
raises `RepositoryNotFoundError`; the second puts back a connection that is closed by then,
and from there on every operation of this object fails its check.  Writers are safe
(`WritersUseTheirOwn`), since a writer is alone in its scope, and so is the data.

### What was found besides

These follow from the code and are not the subject of a run.

* gc takes its candidates from the object tables.  The row of a blob whose transaction was
  rolled back is gone, so its file is invisible to gc for ever, against
  `plan/init/03-transaction-consistency.md:87`.  (Packs have no such problem: gc removes every
  pack but its own.)
* A `create_repo()` that stops after the schema and before the configuration leaves a
  directory that every operation refuses and that it takes for a repository itself.
* A squashed branch has a root of its own, so it shares no ancestor with a branch or tag that still has
  the old history.  For two such heads `_find_merge_base_unlocked()` takes `min()` of an empty set
  (`backend.py:5018`), and `merge()` ends with a `ValueError` that it documents for another cause, where
  `models.py:215` promises a result with `base_commit=None`.  Nothing is changed.
  `RelatedMergesAreAnswered` says that it happens to no other heads; that it raises is what keeps
  histories from having several roots, on which `BlockersAreComplete` rests.
* Merge bases.  The code takes the common ancestor with the least sum of distances.
  Git takes one that is not itself an ancestor of another.  Without merges these are the
  same (`BaseIsBestOnLines`).  With merges they are not: let B be the first commit, A its
  child on a line A - R - V, where R undoes what A did; let T be the merge of A into a
  child of B, and S the merge of V into another child of B.  A and B are both four
  steps away in sum, B wins by the second criterion, and relative to B the branch of S
  has left the file alone: merging S into T brings the undone change back, without a
  conflict.  This takes eight commits and so lies beyond the run; it was reproduced with
  the repository's own code.
* gc spares nothing for the sake of a reflog.  When a ref was moved back, or squashed, and gc
  has removed what it left, `list_repo_reflog()` raises `IntegrityError` from then on
  (`backend.py:2573`), while `full_verify()` finds nothing wrong.  `ReflogsAnswer` says where it answers.
* Names that differ only in case are compared among the files of one directory
  (`backend.py:6757`); directories may differ in case, against
  `plan/init/02-storage-format.md:637`.
* Cached payloads.  `_recent_object_payload()` is documented to return a payload "when the object file
  is unchanged" (`backend.py:3171`).  `upload_folder()` reads the versions it compares with without the
  lock (`backend.py:3762`), and `_read_object_payload()` takes the size and time of the database file only after
  it has read the row.  When the gc of another process commits in between, the deleted object is
  cached as current; so is one that another thread's transaction showed and then
  rolled back.  It is served until the next commit (`late` in `BackendSessions`), when its entry is stale.
* `upload_folder()` deletes what its patterns select when it looks.  A file of that kind that another
  writer adds before the commit stays, unless `parent_commit` is the commit that it looked at; the
  branch name given as `parent_commit` compares equal with whatever the head is by then.
* Two different downloads into one `local_dir` at once record each other's times, and later ones
  believe them (`clashed` in `DetachedViews`).
* The remote client reuses any file that exists: one that a killed call left truncated, or
  one whose bytes were fetched after the branch had moved, stays under its etag (`spoiled`).

## Proofs

All are proofs for every value of the constants, from the assumptions that the modules state
on them; TLC evaluates these on every run.  Where a definition is recursive over numbers
or over the commits made so far, the provers have no induction to offer.  `InductionLemmas`
derives from the library's facts on finite sets that a nonempty set of numbers has a least
member, and the proofs below argue with the least commit, or the least length, for which a
claim fails.  It also derives that a step from one number to the next has, up to any number,
exactly one function that follows it (`Recursion`).

`RepoStoreProofs` proves, for any clients, refs, commits, blobs, chunks and packs,
`TypeOK`, `HistoryComplete`, `HistoryReadable`, `ReadersUndisturbed`, `PendingReadable` and
`TxLogEmpty`.  Assumptions: parents are commits, the initial commit is an empty root, the
special values are distinct.  None of these is inductive.  `IInv` adds what each phase
still owes:

* `Consistent(m)` for `db`, and for `work` while there is a writer: heads have rows,
  commits are closed under parents, and name only blobs and chunks with rows;
* `Backed(m)`: every row that speaks of a file has that file;
* `PlanInv`: while "staged", what the planned commits need is in `work` or in the
  plan; when "published" the new head has its row; in "gc staged" the plan is exactly
  what nothing reaches; in "sweep" no row names a blob that is still to be moved;
* `LockInv` and `TxLogInv`.

There is one lemma per action; all public operations that change something go
through `BeginIInv`.  `Backed(db)` is given up in "sweep", which is where the code
gives it up, and comes back with the commit because `Backed(work)` is kept.  For
the graph the proofs use only that `Reach` is closed and least, for which no
induction is needed.

Three results build on that invariant.  `ReflogExplainsRefs` needs two facts of the open
transaction: its log explains its refs as well, and a plan that waits for its ref update
starts where the ref stands (`ReflogInv`).  The only step that is not a formality is
`AppendExplains`, for a record that is appended and for one that is dropped.  `GcReclaims` needs
that the transaction holds the rows of the live history alone while files are swept
(`SweepInv`), which follows from the exactness of the plan in `IInv`.
`ImplementsVersions` is the refinement: every behaviour of the write path is one of
`VersionStore`.  What the open transaction has made of the committed versions is, at each
moment, one step of `VersionStore` that has not been taken yet, or none (`VersionInv`);
`CommitTx` takes it, `Fail` and `Crash` forget it, all other steps stutter.  The hardest step
is the squash, which brings a chain of new commits at once: that all of them are
ancestors of the new head is an induction along the chain (`ChainAncestors`).

`RepoBootstrapProofs` proves all properties of the run `bootstrap` for any number of
clients and any `MaxUpdates`, from the assumptions that `Nobody` is no client and the
bound is positive.  Here the invariant must say what `create_repo()` finds at each of
its steps (`Progress`: as long as the lock is held, the step taken last determines
the database) and that a writer excludes readers (`Exclusion`); without the first,
`CreateFile` could fall on a configured database, without the second, `Stop` could
leave a journal under a reader.

`BackendProofs` proves of sessions `WritersUseTheirOwn`, `ReadersUseReaders` (no reader works on a
connection of a writer) and `CacheServesCommitted` for any threads, objects and sizes
of the cache.  `Linked` says where a connection may be known: only in the object of the thread that
opened it, and nowhere after it has been closed; the cache needs that an object has one
entry and that no entry is newer than the store (`Caches`), and that a row which was read without the
lock is still there unless the read counts as overtaken (`UpToDate`).

Of large files it proves `CacheIsAccounted`, `RangesAreExact` and `ChunksAreStoredOnce`, for any
contents, any header of packs, any way to cut contents into chunks that add up
(`SplitAssumption`) and any budget (`BoundsAssumption`).  The invariant `ChunkInv` has three
parts.  `Committed`: every chunk of the index lies in a pack where its entry says, and committed
files consist of chunks of the index.  `Open`: the transaction adds packs and chunks under names that are
not taken, so that a commit disturbs no committed file and a rollback leaves none
without its chunks.  `Memories`: the counter of each cache is the sum of what it holds, also after an
eviction that stops in the middle or runs on until nothing is left.  That packs have the bytes of the indexed chunks and
no others is a separate invariant (`Balanced`, in `DedupInv`), for the committed state and for
what the transaction adds.  It is inductive only because a chunk that is in the index, or
twice in the file, is left out of the new pack; gc, which writes all live chunks anew, has to start
from it.  Sums and concatenations are folds in the model; the proofs turn each into the
function over prefixes that `Recursion` gives, and work with this.  The longest argument is
`RangeIs`: chunks cut to a range, and put one after the other, are the range of their concatenation.

`DownloadsProofs` has three parts.  For the local backend it proves `CurrentIsFaithful`,
`ReturnsSnapshot` and `ExportIsExact` for any downloads, requests, commits and files.  The heart
is `Faithful`: what is written down of a file, in the metadata or by a download under way,
agrees with the disk or is about a file that is not there any more, since no modification time
is used twice (`ClockInv`).  `JobInv` says what a download has done so far is still done, or
has been taken away by another one for the same files (`OnTrack`); `TogetherInv` says that
downloads that meet on a root know of each other and want the same, unless they have
`clashed`; `ExportInv` accounts for the recorded files that are still to be removed.  All
steps of a download are instances of one lemma (`WorkStep`), all that others do of another
(`OutsideStep`).  The proof needs that a tree has no file where it has a directory: a
download clears what is in the way of the path it writes, and would otherwise remove
what it has just written.  `_validate_snapshot()` refuses such trees, and `HistoryIsLegal` shows
that merges keep to it; `TreesAssumption` says so in `DetachedViews`.  For the remote
client it proves the three properties of the cache, for any clients, calls, commits and
files: the invariant says what a call knows at each of its steps if its revision has not moved
since it asked first (`FileCallOK`, `ShotCallOK`): that the etag is still the
one of the file, that the plan lists the commit, and that what is done of it is on disk.

`UploadProtocolProofs` proves `PinnedPlansAreBound`, `UploadsAreWhole` and `NoUploadTwice` for any clients,
requests, paths, chunks, writers and any number of commits.  The invariant adds
that parents are older than their children (so a commit says the same whatever is
appended to the log) and `PlansAreTrue`: what a plan says of its base stays true in
every later log, in the hands of the client and in each copy on the server.  That
a planned copy still finds its content then follows from the comparison in
`create_commit()` or, for plans that are not bound, from the fixed source commit.  For
`NoUploadTwice` the lineage of a commit, recursive in the model, is shown to be the least set
that holds it and the parent of each member.  A second application of a plan within
one lineage would make a commit an ancestor of its own parent.

`HistoryProofs` proves, for any paths, versions and collisions, that a merge applies the
changes of both sides and no others (`MergeAppliesBothSides`), that it refuses exactly
when they contradict each other (`DisputesAreReal`), that it commutes over one base,
and that every commit in every history has a legal tree and older parents
(`HistoryIsLegal`).  This invariant is inductive as it stands; the squash step needs
only that a lineage consists of commits, which is why lineages are a set of
sequences and not a recursive function.  From it follow `MergesConverge` and
`BaseIsBestOnLines`: because parents are older, the recursions that define `Ancestors` and
`Distance` have solutions, so the definitions mean what they say; the candidates for a merge
base do not depend on which side is which; and on a line of single parents the ancestors of a
commit are ordered by distance, so that the nearest common one has all others behind it.  `RelatedMergesAreAnswered` follows from the roots
below (`Rooted`, `OneOrigin`), and from the fact that among common ancestors there is a nearest (`BasesExist`).

It also proves what the four walks of `HistoryWalks` answer (`DistancesAreLeast`, `ListingsAreComplete`,
`FilesHaveTheirCommit`, `BlockersAreFound`), each along the same lines.  A loop ends because its
length of queue, plus two for each commit not yet looked behind, shrinks in every round
(`LoopEnds`; no commit has more than two parents, which is part of `TypeOK`).  An invariant of
the loop says that whatever has been looked behind has its parents looked behind or
waiting, so that at the end it is closed, and the ancestors are the least closed set
(`AncestorsAreLeast`).  For distances the queue is also in the order of the distances, never more than
two of them at a time (`Level`), and an ancestor that is not noted yet is behind an entry as near or
nearer (`NotedInOrder`): hence what is first in the queue has its least distance.  The search
for the commit beside a file cannot come out empty, because the oldest ancestor with the
version brought it.  That blocking refs need no look at second parents is a fact about
histories and not about the walk: each has one root, given by some function from commits to
commits (`Rooted`), which is an invariant, as a merge needs a common ancestor and a squash
makes one root or keeps it.

For revisions `DownloadsProofs` proves `ReadsMeetWrites` and `ReflogsAnswer` for any words, texts and number of
commits.  The former needs that refs have normalized names (`NamesInv`), and that the words of
names and the prefixes of refs are different.  For the latter the ancestors of a
commit, again recursive, are the least closed set (`GraphInv`: parents are made first);
whatever has rows has the rows of its parents (`PresentInv`); and the log of a ref that has only
moved forward names ancestors of its head (`LogInv`), which gc therefore spares.

`OperationsProofs` proves `CommitsMeanTheirOperations`, `FolderUploadsMirror`, `SameFilesSameTree` and
`ViewsAgree` for any names, files, depth of directories, lists of operations and uploads.  The invariant
(`OpsInv`) is short: the head is the tree of some legal snapshot (`IsVersion`), as are the tagged
version, which is the head's if both are one commit (`TagInv`), and the version that an
upload met; and a plan deletes what was selected in the files of some version, which is that of the
given commit, by the branch or by the tag, if the plan is bound (`Saw`).  A reset back to that commit
brings the same files back, so the comparison in `create_commit()` is enough.  Most of the proof is about what the operators of `Trees` compute.  Snapshots are compared by what they map paths to, so that each
operation has one statement of what it does, given the versions that copies may be from (`Does`,
`Sources`), and the last operation that speaks of
a path decides (`Decided`), one operation after the other.  A tree is a function of the places in it: what is
staged is shown to be the one solution of its equation (`TreesExist`, `TreesAgree`), which only
mentions the set of files and the sorted names.  What is found in it, place after place, is what the snapshot has there
(`EverythingIsFound`); what is read from it, directory after directory from the deepest ones
up, are the files it was staged for (`ReadBack`), and the same way gives the Git
identifiers (`OidIsRecorded`).  For `ViewsAgree` a listing is cut into what each name of a directory adds to
it (`ListTreeIs`).  By the same way up, the recursive listing has each path below a directory once (`ListsAre`),
because no path is below two names of one directory.  Going down towards a directory p, what the
recursive listing has of the paths in p all comes from the one name that leads to p, and in p from the lines
of its names; so it is what the listing of p alone says, in the same order
(`ChildrenListed`).  Equal path states give equal trees since both are solutions of one equation
(`AlikeTrees`), and equal trees equal path states since files are found in them (`TreesAlike`).  That the snapshot is legal is needed throughout: with a file in the way of
another, `NamesIn` and the lookup would disagree.

The type invariants of all modules that have one are theorems.  None is listed in a
configuration, where it would say the least of all properties: to check one again, add
`INVARIANT TypeOK` to the configuration.

All safety properties of the runs are theorems, but for those that a run refutes.  Only model-checked is
`LockIsReleased`, as liveness under fairness is out of the provers' reach.

## Not modelled

* The HTTP layer beside the content routes, serialisation, the public API, the records in
  `models.py`, the command line and the web front end: translation without a protocol.
* The byte formats of index segments, which the SQLite table has replaced, FastCDC itself,
  and checksums (a content is its checksum).
* The storage overview and the sizes in reports of gc and squash; messages of errors.
* Views of whole packs and blobs that a backend caches by size and time: they are taken to
  return what the file holds, which packs and blobs, written once, bear out.
* The validation of an upload plan's shape (`_validate_upload_plan()`), and manifests of
  several operations, which `create_commit()` applies as `CommitOperations` has it.
* Power loss: a rename is taken to be durable when it returns.

## Plan

In this order:

1. `RepoStore` and its proofs (done).
2. `RepoBootstrap` and its proofs (done).
3. `UploadProtocol` and its proofs (done).
4. `ThreeWayMerge`, `History`, `HistoryWalks` and their proofs (done).
5. `DetachedViews`, `RemoteDownloads` and their proofs (done).
6. `BackendSessions` and its proofs, `ChunkedFiles` (done).
7. `Trees`, `CommitOperations`, `Revisions`, and proofs for the latter (done).
8. Proofs of `ReflogExplainsRefs` and `GcReclaims` (done).
9. Proof that `RepoStore` implements `VersionStore`; of `NoUploadTwice`, `MergesConverge` and
   `BaseIsBestOnLines`, all of which are about recursive functions (done).
10. Proofs about `ChunkedFiles` (done).
11. Proofs about the walks of `HistoryWalks` (done).
12. Proofs about `Trees` and `CommitOperations`, and of `RelatedMergesAreAnswered` (done).
13. Chunk views that survive a rollback, and the validation of upload plans.
