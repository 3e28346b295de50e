---------------------------- MODULE DetachedViews ----------------------------
(***************************************************************************)
(* Files handed to the user: hf_hub_download and snapshot_download of the  *)
(* repository backend.  A download writes into a root: a managed view      *)
(* under cache/, whose name holds the commit and the selected paths, or    *)
(* the user's local_dir, which any revision may be exported to.  Next to   *)
(* the files the download keeps metadata: which revision it wrote, and the *)
(* size and modification time of every file it wrote.  A later download    *)
(* that finds all of them unchanged returns the root without reading a     *)
(* byte.                                                                   *)
(*                                                                         *)
(* Downloads hold the repository lock in shared mode, so any number run at *)
(* once, on the same root too; a commit or gc runs when none does.  The    *)
(* user edits the files at any time, and a download dies at any step.      *)
(*                                                                         *)
(* Modification times are readings of one clock that every write advances: *)
(* two writes never share one, and an edit that restores the old time and  *)
(* size, which no download would notice, is left out.  Directories are     *)
(* there exactly while a path below them is.                               *)
(***************************************************************************)
EXTENDS Published, Integers, FiniteSets

CONSTANTS
    Downloads,      \* the threads and processes that download
    Requests,       \* what they may ask for
    Rank,           \* Rank[p]: place of path p in the sorted order
    SizeOf,         \* SizeOf[x]: the size of a file that holds x
    UserContents,   \* what the user may write into a downloaded file
    LocalDir,       \* the root chosen by the user (local_dir)
    NoMeta, Idle,
    MaxTime,        \* bound: writes and edits in one behaviour
    MaxDownloads,   \* bound: downloads started
    MaxUpsets       \* bound: what users and gc do to the views

Bytes == Contents \union UserContents

(* A request names a revision and selects paths: the ones its allow and    *)
(* ignore patterns let through for "snapshot", a single one for "file".    *)
Request == [kind : {"snapshot", "file"}, rev : Revisions,
            sel : SUBSET Paths, export : BOOLEAN]

ASSUME ViewsAssumption ==
    /\ Requests \subseteq Request
    /\ Rank \in [Paths -> Nat]
    /\ \A p, q \in Paths : Rank[p] = Rank[q] => p = q
    /\ SizeOf \in [Bytes -> Nat]
    /\ Absent \notin Bytes /\ UserContents \intersect Contents = {}
    /\ \A p \in Paths : p \notin Below[p]
    /\ MaxTime \in Nat /\ MaxDownloads \in Nat /\ MaxUpsets \in Nat

\* No tree has a file where a directory has to be (_validate_snapshot).
ASSUME TreesAssumption ==
    \A c \in Commits : \A p \in Files(c) : Below[p] \intersect Files(c) = {}

ManagedRoots == [kind : {"snapshot", "file"}, commit : Commits, sel : SUBSET Paths]
ASSUME RootsAssumption == LocalDir \notin ManagedRoots

VARIABLES
    disk,       \* disk[root][p]: the file found there, or Absent
    meta,       \* meta[root]: the view metadata kept for the root
    job,        \* job[d]: the download d is executing, or Idle
    now,        \* the clock
    started, upsets,    \* downloads started, and upsets, so far
    clashed,    \* (history) two different downloads ran into LocalDir at once
    loose       \* (history) files exported to LocalDir that no metadata lists

vars == <<heads, disk, meta, job, now, started, upsets, clashed, loose>>

RootOf(q, c) ==
    IF q.export THEN LocalDir ELSE [kind |-> q.kind, commit |-> c, sel |-> q.sel]

(* The roots some request can lead to. *)
Roots == {RootOf(q, c) : q \in Requests, c \in Commits}

File == [content : Bytes, mtime : 0 .. MaxTime]
Entries == UNION {[S -> File] : S \in SUBSET Paths}
Meta == [rev : Revisions, commit : Commits, sel : SUBSET Paths, files : Entries]
Steps == {"stale", "look", "unlink", "write", "stat", "record", "returned"}
Job == [kind : {"snapshot", "file"}, rev : Revisions, sel : SUBSET Paths,
        export : BOOLEAN, commit : Commits, prev : Entries,
        stale : SUBSET Paths, todo : SUBSET Paths, files : Entries, step : Steps,
        alone : BOOLEAN]   \* (history) no other download ran on the root so far

ASSUME NamesAssumption == Absent \notin File /\ NoMeta \notin Meta /\ Idle \notin Job

NoEntries == [p \in {} |-> Absent]
Empty == [p \in Paths |-> Absent]

TypeOK ==
    /\ heads \in [Revisions -> Commits]
    /\ disk \in [Roots -> [Paths -> File \union {Absent}]]
    /\ meta \in [Roots -> Meta \union {NoMeta}]
    /\ job \in [Downloads -> Job \union {Idle}]
    /\ now \in 0 .. MaxTime
    /\ started \in 0 .. MaxDownloads
    /\ upsets \in 0 .. MaxUpsets
    /\ clashed \in BOOLEAN
    /\ loose \subseteq Paths

Init ==
    /\ heads \in [Revisions -> Commits]
    /\ disk = [r \in Roots |-> Empty]
    /\ meta = [r \in Roots |-> NoMeta]
    /\ job = [d \in Downloads |-> Idle]
    /\ now = 0
    /\ started = 0
    /\ upsets = 0
    /\ clashed = FALSE
    /\ loose = {}

-----------------------------------------------------------------------------
(* The file system *)

IsFile(r, p) == disk[r][p] # Absent
IsDirectory(r, p) == \E q \in Below[p] : IsFile(r, q)
ParentIsFile(r, p) == \E q \in Paths : p \in Below[q] /\ IsFile(r, q)

(* _remove_detached_path, _unlink_path and _remove_tree *)
Removed(r, p) == [q \in Paths |-> IF q = p \/ q \in Below[p] THEN Absent ELSE disk[r][q]]

\* mutant of Matches: the size alone is compared.
MatchesBySize(r, p, e) ==
    IsFile(r, p) /\ SizeOf[disk[r][p].content] = SizeOf[e.content]

(* _detached_file_matches_metadata *)
Matches(r, p, e) ==
    /\ IsFile(r, p)
    /\ disk[r][p].mtime = e.mtime
    /\ SizeOf[disk[r][p].content] = SizeOf[e.content]

\* mutant of IsCurrent: the metadata is believed without a look at the files.
IsCurrentByMetadata(r, q, c) ==
    /\ meta[r] # NoMeta
    /\ meta[r].rev = q.rev /\ meta[r].commit = c /\ meta[r].sel = q.sel

(* _snapshot_view_is_current *)
IsCurrent(r, q, c) ==
    /\ meta[r] # NoMeta
    /\ meta[r].rev = q.rev
    /\ meta[r].commit = c
    /\ meta[r].sel = q.sel
    /\ \A p \in DOMAIN meta[r].files : Matches(r, p, meta[r].files[p])

(* _managed_file_view_is_current, which also knows what to expect. *)
IsCurrentFile(r, q, c) ==
    /\ IsCurrent(r, q, c)
    /\ \A p \in q.sel : meta[r].files[p].content = TreeOf[c][p]

(* quick_verify() reads the managed views and warns of those that are not  *)
(* what their metadata says.                                               *)
StaleViews ==
    {r \in Roots \ {LocalDir} :
        /\ meta[r] # NoMeta
        /\ \E p \in DOMAIN meta[r].files :
              IF IsFile(r, p) THEN disk[r][p].content # meta[r].files[p].content
              ELSE r.kind = "snapshot"}

(* _filter_repo_paths over the sorted snapshot *)
Selected(c, sel) == Files(c) \intersect sel

First(S) == CHOOSE p \in S : \A q \in S : Rank[p] <= Rank[q]

-----------------------------------------------------------------------------
(* A download *)

Active == {d \in Downloads : job[d] # Idle}
JobRoot(j) == RootOf(j, j.commit)
On(r) == {d \in Active : JobRoot(job[d]) = r}

(* Two downloads into local_dir that do not want the same files. *)
Clashes(q, c) ==
    /\ q.export
    /\ \E d \in On(LocalDir) : job[d].commit # c \/ job[d].sel # q.sel

\* mutant of Previous: what an earlier snapshot wrote is forgotten.
NothingBefore(r, q) == NoEntries

(* Only the metadata of a snapshot is consulted file by file. *)
Previous(r, q) ==
    IF q.kind = "snapshot" /\ meta[r] # NoMeta THEN meta[r].files ELSE NoEntries

(* hf_hub_download and snapshot_download, up to the first byte they read:  *)
(* resolve the revision under the shared lock and see whether the root     *)
(* holds it already.  Exporting a single file keeps no metadata.           *)
Download(d, q) ==
    LET c == Resolve(q.rev)
        r == RootOf(q, c)
        current == IF q.kind = "snapshot" THEN IsCurrent(r, q, c)
                   ELSE ~q.export /\ IsCurrentFile(r, q, c)
        want == Selected(c, q.sel)
        prev == Previous(r, q)
    IN
    /\ job[d] = Idle
    /\ q.kind = "file" => q.sel \subseteq Files(c)
    /\ job' = [o \in Downloads |->
           IF o # d THEN IF o \in On(r) THEN [job[o] EXCEPT !.alone = FALSE] ELSE job[o]
           ELSE
           [kind |-> q.kind, rev |-> q.rev, sel |-> q.sel, export |-> q.export,
            commit |-> c, alone |-> On(r) = {},
            prev |-> IF current THEN NoEntries ELSE prev,
            stale |-> IF current THEN {} ELSE DOMAIN prev \ want,
            todo |-> IF current THEN {} ELSE want,
            files |-> NoEntries,
            step |-> IF current THEN "returned"
                     ELSE IF DOMAIN prev \subseteq want THEN "look" ELSE "stale"]]
    /\ clashed' = (clashed \/ Clashes(q, c))
    /\ started < MaxDownloads
    /\ started' = started + 1
    /\ UNCHANGED <<heads, disk, meta, now, upsets, loose>>

At(d, step) == job[d] # Idle /\ job[d].step = step

(* Files of the previous snapshot that the new one does not have go first. *)
DropStale(d) ==
    LET j == job[d]
        p == First(j.stale)
    IN
    /\ At(d, "stale")
    /\ disk' = [disk EXCEPT ![JobRoot(j)] = Removed(JobRoot(j), p)]
    /\ job' = [job EXCEPT ![d].stale = @ \ {p},
                          ![d].step = IF j.stale = {p} THEN "look" ELSE "stale"]
    /\ UNCHANGED <<heads, meta, now, started, upsets, clashed, loose>>

Listed(j, p, e) ==
    [j EXCEPT !.todo = @ \ {p}, !.step = "look",
              !.files = [x \in DOMAIN @ \union {p} |-> IF x = p THEN e ELSE @[x]]]

(* The next file: kept as it is when the previous metadata vouches for it, *)
(* else made by _ensure_detached_view, which reads what is there.  When a  *)
(* parent directory of the path is a file, mkdir raises: no such step.     *)
Look(d) ==
    LET j == job[d]
        r == JobRoot(j)
        p == First(j.todo)
        want == TreeOf[j.commit][p]
        kept == p \in DOMAIN j.prev /\ j.prev[p].content = want /\ Matches(r, p, j.prev[p])
        tree == IsDirectory(r, p)
        next == IF ~IsFile(r, p) THEN "write"
                ELSE IF disk[r][p].content = want THEN "stat" ELSE "unlink"
    IN
    /\ At(d, "look")
    /\ j.todo # {}
    /\ IF kept
       THEN /\ job' = [job EXCEPT ![d] =
                   Listed(j, p, [content |-> want, mtime |-> disk[r][p].mtime])]
            /\ UNCHANGED disk
       ELSE /\ ~ParentIsFile(r, p)
            /\ disk' = IF tree THEN [disk EXCEPT ![r] = Removed(r, p)] ELSE disk
            /\ job' = [job EXCEPT ![d].step = next]
    /\ UNCHANGED <<heads, meta, now, started, upsets, clashed, loose>>

(* The other bytes found at the path are removed before the new ones are   *)
(* written, ...                                                            *)
Unlink(d) ==
    LET j == job[d]
        r == JobRoot(j)
        p == First(j.todo)
    IN
    /\ At(d, "unlink")
    /\ ~IsDirectory(r, p)
    /\ disk' = [disk EXCEPT ![r][p] = Absent]
    /\ job' = [job EXCEPT ![d].step = "write"]
    /\ UNCHANGED <<heads, meta, now, started, upsets, clashed, loose>>

(* ... and _write_bytes_atomic puts those in one step.                     *)
Write(d) ==
    LET j == job[d]
        r == JobRoot(j)
        p == First(j.todo)
    IN
    /\ At(d, "write")
    /\ ~IsDirectory(r, p)
    /\ ~ParentIsFile(r, p)
    /\ now < MaxTime
    /\ now' = now + 1
    /\ disk' = [disk EXCEPT ![r][p] = [content |-> TreeOf[j.commit][p], mtime |-> now + 1]]
    /\ job' = [job EXCEPT ![d].step = "stat"]
    /\ loose' = IF j.export THEN loose \union {p} ELSE loose
    /\ UNCHANGED <<heads, meta, started, upsets, clashed>>

(* target_path.stat(): the time recorded is the one found now. *)
Stat(d) ==
    LET j == job[d]
        r == JobRoot(j)
        p == First(j.todo)
    IN
    /\ At(d, "stat")
    /\ IsFile(r, p)
    /\ job' = [job EXCEPT ![d] =
           Listed(j, p, [content |-> TreeOf[j.commit][p], mtime |-> disk[r][p].mtime])]
    /\ UNCHANGED <<heads, disk, meta, now, started, upsets, clashed, loose>>

(* The metadata is replaced last, as a whole. *)
Record(d) ==
    LET j == job[d]
        r == JobRoot(j)
        keepsMeta == j.kind = "snapshot" \/ ~j.export
    IN
    /\ At(d, "look")
    /\ j.todo = {}
    /\ meta' = IF keepsMeta
               THEN [meta EXCEPT ![r] = [rev |-> j.rev, commit |-> j.commit,
                                         sel |-> j.sel, files |-> j.files]]
               ELSE meta
    /\ job' = [job EXCEPT ![d].step = "returned"]
    /\ loose' = IF keepsMeta /\ j.export THEN loose \ DOMAIN j.files ELSE loose
    /\ UNCHANGED <<heads, disk, now, started, upsets, clashed>>

(* The path is returned and the shared lock released; or the download      *)
(* raises or is killed at the step it is at.                               *)
End(d) ==
    /\ job[d] # Idle
    /\ job' = [job EXCEPT ![d] = Idle]
    /\ UNCHANGED <<heads, disk, meta, now, started, upsets, clashed, loose>>

-----------------------------------------------------------------------------
(* Everybody else *)

Upset ==
    /\ upsets < MaxUpsets
    /\ upsets' = upsets + 1

(* A writer waits for every reader to release the lock. *)
Commit(rev, c) ==
    /\ Active = {}
    /\ MoveRevision(rev, c)
    /\ UNCHANGED <<disk, meta, job, now, started, upsets, clashed, loose>>

(* gc(prune_cache=True) removes cache/files, cache/snapshots and then      *)
(* cache/views; a kill leaves some files, or all the metadata, behind.     *)
PruneCache(left, interrupted) ==
    /\ Active = {}
    /\ left # {} => interrupted
    /\ disk' = [r \in Roots |-> [p \in Paths |->
           IF r = LocalDir \/ p \in left THEN disk[r][p] ELSE Absent]]
    /\ meta' = [r \in Roots |-> IF r = LocalDir \/ interrupted THEN meta[r] ELSE NoMeta]
    /\ disk # disk' \/ meta # meta'
    /\ Upset
    /\ UNCHANGED <<heads, job, now, started, clashed, loose>>

(* The user changes, makes or removes a file of a root no download is      *)
(* writing to: an edit that falls between a download's write and its stat  *)
(* is taken for the download's own.                                        *)
UserWrites(r, p, x) ==
    /\ On(r) = {}
    /\ ~IsDirectory(r, p)
    /\ ~ParentIsFile(r, p)
    /\ now < MaxTime
    /\ now' = now + 1
    /\ disk' = [disk EXCEPT ![r][p] = [content |-> x, mtime |-> now + 1]]
    /\ loose' = IF r = LocalDir THEN loose \ {p} ELSE loose
    /\ Upset
    /\ UNCHANGED <<heads, meta, job, started, clashed>>

UserRemoves(r, p) ==
    /\ On(r) = {}
    /\ IsFile(r, p)
    /\ disk' = [disk EXCEPT ![r][p] = Absent]
    /\ Upset
    /\ UNCHANGED <<heads, meta, job, now, started, clashed, loose>>

DownloadStep(d) ==
    \/ \E q \in Requests : Download(d, q)
    \/ DropStale(d) \/ Look(d) \/ Unlink(d) \/ Write(d) \/ Stat(d) \/ Record(d) \/ End(d)

(* A managed view is known to the user once a download has returned it. *)
UserStep(r, p) ==
    /\ r = LocalDir \/ meta[r] # NoMeta
    /\ \/ \E x \in UserContents : UserWrites(r, p, x)
       \/ UserRemoves(r, p)

Next ==
    \/ \E d \in Downloads : DownloadStep(d)
    \/ \E r \in Roots, p \in Paths : UserStep(r, p)
    \/ \E rev \in Revisions, c \in Commits : Commit(rev, c)
    \/ \E left \in SUBSET Paths, interrupted \in BOOLEAN : PruneCache(left, interrupted)

Spec == Init /\ [][Next]_vars

-----------------------------------------------------------------------------
(* Properties *)

Holds(r, p, c) == IsFile(r, p) /\ disk[r][p].content = TreeOf[c][p]

Reliable(r) == r = LocalDir => ~clashed

(* The shortcut is safe: metadata whose files are all unchanged describes  *)
(* what is there, every selected file of the commit with the commit's      *)
(* bytes; and what the next download would believe, quick_verify, which    *)
(* reads the bytes, does not call stale.  It holds across interrupted      *)
(* downloads, edits, gc and downloads in parallel                          *)
(* (_snapshot_view_is_current, _managed_file_view_is_current), but for a   *)
(* local_dir that two different downloads wrote to at once: each then      *)
(* records the modification times of the other's files.                    *)
CurrentIsFaithful ==
    \A r \in Roots :
        Reliable(r) /\ meta[r] # NoMeta =>
            LET m == meta[r] IN
            /\ DOMAIN m.files = Selected(m.commit, m.sel)
            /\ \A p \in DOMAIN m.files :
                   Matches(r, p, m.files[p]) => Holds(r, p, m.commit)
            /\ (\A p \in DOMAIN m.files : Matches(r, p, m.files[p])) => r \notin StaleViews

(* A download that returns has delivered: every selected file is there     *)
(* with the bytes of the commit it resolved, whatever the user had done to *)
(* the view before.  When other downloads of the same files ran alongside, *)
(* one of them may have removed a file (found edited, or left by an older  *)
(* snapshot) that this one had just written; even then no returned file    *)
(* has other bytes (_ensure_detached_view).                                *)
ReturnsSnapshot ==
    \A d \in Active :
        LET j == job[d]
            r == JobRoot(j)
        IN  j.step = "returned" /\ Reliable(r) =>
            \A p \in Selected(j.commit, j.sel) :
                Holds(r, p, j.commit) \/ (~j.alone /\ ~IsFile(r, p))

(* Once the stale files are gone, an exported directory holds no file an   *)
(* earlier snapshot_download left there but the selected ones, for every   *)
(* order of revisions and selections: the rest is the user's own, or was   *)
(* put there by a download whose metadata was never written.  So only      *)
(* those can be in the way of a file, or among the files returned.         *)
ExportIsExact ==
    \A d \in Active :
        LET j == job[d] IN
        j.step # "stale" /\ j.kind = "snapshot" /\ j.export /\ ~clashed =>
            {p \in Paths : IsFile(LocalDir, p) /\ disk[LocalDir][p].content \in Contents}
                \subseteq Selected(j.commit, j.sel) \union loose
=============================================================================
