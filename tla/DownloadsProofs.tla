---------------------------- MODULE DownloadsProofs ----------------------------
(***************************************************************************)
(* What downloads promise, for any downloads, requests, commits and files: *)
(* first those of the local backend (DetachedViews), then those of the     *)
(* remote client (RemoteDownloads), then what the names mean that are      *)
(* given to them (Revisions).                                              *)
(*                                                                         *)
(* DetachedViews.  CurrentIsFaithful holds because a modification time is  *)
(* never used twice: what is written down of a file, in the metadata or by *)
(* a download under way, stays true of it or is no longer about it         *)
(* (Faithful), whatever anybody does next.  ReturnsSnapshot also needs to  *)
(* know what every download has delivered so far, and that downloads that  *)
(* meet on a root want the same files.  A download takes away parent       *)
(* directories and files at the path it works on, so what it has delivered *)
(* stays because trees are legal (TreesAssumption).  ExportIsExact needs   *)
(* to know which of the recorded files are still to be removed.            *)
(*                                                                         *)
(* RemoteDownloads.  The properties need to be told what a call knows at   *)
(* each of its steps, provided that the revision did not move while it was *)
(* still asking.                                                           *)
(*                                                                         *)
(* Revisions.  What a name means only depends on refs having normalized    *)
(* names (NamesInv).  That reflogs answer depends on the graph of commits: *)
(* parents are made first, and whatever has a row has the rows of its      *)
(* parents (PresentInv), so that gc can take nothing that the log of a ref *)
(* names, if it only names ancestors of the ref (LogInv).                  *)
(***************************************************************************)
EXTENDS DetachedViews, RemoteDownloads, Revisions, InductionLemmas,
        FunctionTheorems

\* What is written down of the files of a root whose files are f, at the time t,
\* is true of those that are there.
Faithful(f, t, entries) ==
    \A p \in DOMAIN entries :
        /\ entries[p].mtime <= t
        /\ f[p] # Absent /\ f[p].mtime = entries[p].mtime
              => f[p].content = entries[p].content

Has(f, p, c) == f[p] # Absent /\ f[p].content = TreeOf[c][p]

IsOf(entries, c) == \A p \in DOMAIN entries : entries[p].content = TreeOf[c][p]

\* How the fields of a running download belong together.
IsShaped(j) ==
    /\ JobRoot(j) \in Roots
    /\ IsOf(j.files, j.commit)
    /\ j.step # "returned" =>
          /\ j.todo \subseteq Selected(j.commit, j.sel)
          /\ DOMAIN j.files = Selected(j.commit, j.sel) \ j.todo
    /\ j.step \in {"unlink", "write", "stat"} => j.todo # {}
    /\ j.step = "stale" => j.stale # {} /\ DOMAIN j.files = {}

Delivered(j) == IF j.step = "returned" THEN Selected(j.commit, j.sel) ELSE DOMAIN j.files

\* What a download has done so far is still done.
OnTrack(j, f, t) ==
    /\ Faithful(f, t, j.prev)
    /\ Faithful(f, t, j.files)
    /\ j.step = "stat" /\ f[First(j.todo)] # Absent => Has(f, First(j.todo), j.commit)
    /\ \A p \in Delivered(j) : Has(f, p, j.commit) \/ (~j.alone /\ f[p] = Absent)

ClockInv == \A r \in Roots, p \in Paths : disk[r][p] # Absent => disk[r][p].mtime <= now

MetaInv ==
    \A r \in Roots : meta[r] # NoMeta =>
        /\ DOMAIN meta[r].files = Selected(meta[r].commit, meta[r].sel)
        /\ IsOf(meta[r].files, meta[r].commit)
        /\ Reliable(r) => Faithful(disk[r], now, meta[r].files)

JobInv ==
    \A d \in Active :
        /\ IsShaped(job[d])
        /\ Reliable(JobRoot(job[d])) => OnTrack(job[d], disk[JobRoot(job[d])], now)

\* Downloads on one root know of each other, and want the same.
TogetherInv ==
    \A d, e \in Active : d # e /\ JobRoot(job[d]) = JobRoot(job[e]) =>
        /\ ~job[d].alone
        /\ Reliable(JobRoot(job[d])) =>
              job[d].commit = job[e].commit /\ job[d].sel = job[e].sel

Exports(f) == {p \in Paths : f[p] # Absent /\ f[p].content \in Contents}

Recorded == IF meta[LocalDir] = NoMeta THEN {} ELSE DOMAIN meta[LocalDir].files

StillStale(j) == IF j.step = "stale" THEN j.stale ELSE {}

\* What a snapshot may find in the exported directory.
Expects(j, known) == Selected(j.commit, j.sel) \union known \union StillStale(j)

ExportInv ==
    LocalDir \in Roots /\ ~clashed =>
        /\ Exports(disk[LocalDir]) \subseteq Recorded \union loose
        /\ \A d \in Active : job[d].kind = "snapshot" /\ job[d].export =>
              Exports(disk[LocalDir]) \subseteq Expects(job[d], loose)

IInv == TypeOK /\ ClockInv /\ MetaInv /\ JobInv /\ TogetherInv /\ ExportInv

-----------------------------------------------------------------------------
\* The first of some paths is one of them.
LEMMA FirstIsOne ==
    ASSUME NEW S \in SUBSET Paths, S # {}
    PROVE  First(S) \in S
<1> DEFINE T == {Rank[p] : p \in S}
<1>1. T \subseteq Nat /\ T # {}
  BY ViewsAssumption
<1>2. PICK n \in T : \A m \in T : n <= m
  <2> HIDE DEF T
  <2> QED
    BY <1>1, LeastNumber
<1>3. PICK p \in S : n = Rank[p]
  OBVIOUS
<1>4. \A q \in S : Rank[p] <= Rank[q]
  BY <1>2, <1>3
<1> QED
  BY <1>4 DEF First

\* The root of a download, and what it says of the download.
LEMMA RootIsLocal ==
    ASSUME NEW j \in Job
    PROVE  JobRoot(j) = LocalDir <=> j.export
<1>1. CASE j.export
  BY <1>1 DEF JobRoot, RootOf
<1>2. CASE ~j.export
  <2>1. JobRoot(j) \in ManagedRoots
    BY <1>2 DEF JobRoot, RootOf, ManagedRoots, Job
  <2> QED
    BY <1>2, <2>1, RootsAssumption
<1> QED
  BY <1>1, <1>2

\* Two downloads into one managed root want the same.
LEMMA ManagedRootSays ==
    ASSUME NEW i \in Job, NEW j \in Job, JobRoot(i) = JobRoot(j), ~j.export
    PROVE  i.commit = j.commit /\ i.sel = j.sel
<1>1. ~i.export
  BY RootIsLocal
<1>2. [kind |-> i.kind, commit |-> i.commit, sel |-> i.sel]
        = [kind |-> j.kind, commit |-> j.commit, sel |-> j.sel]
  BY <1>1 DEF JobRoot, RootOf
<1> QED
  BY <1>2

\* An entry is a file at a path; a file is not Absent.
LEMMA Entered ==
    ASSUME NEW entries \in Entries, NEW p \in DOMAIN entries
    PROVE  p \in Paths /\ entries[p] \in File
  BY DEF Entries

LEMMA FileFields ==
    ASSUME NEW x \in File
    PROVE  x # Absent /\ x.content \in Bytes /\ x.mtime \in 0..MaxTime
  BY NamesAssumption DEF File

-----------------------------------------------------------------------------
\* Files change by being removed or written, and a written one is the youngest.
Ages(f, g, t, u) ==
    \A p \in Paths : \/ g[p] = f[p]
                     \/ g[p] = Absent
                     \/ u = t + 1 /\ g[p].mtime = u

\* The same, where the files that are written are those of the commit c.
Works(f, g, t, u, c) ==
    \A p \in Paths : \/ g[p] = f[p]
                     \/ g[p] = Absent
                     \/ u = t + 1 /\ g[p] = [content |-> TreeOf[c][p], mtime |-> u]

\* Records stay faithful, because a file written later has a later time.
LEMMA FaithfulStays ==
    ASSUME NEW f, NEW g, NEW t \in Nat, NEW u \in {t, t + 1}, Ages(f, g, t, u),
           NEW entries \in Entries, Faithful(f, t, entries)
    PROVE  Faithful(g, u, entries)
<1> SUFFICES ASSUME NEW p \in DOMAIN entries
             PROVE  /\ entries[p].mtime <= u
                    /\ g[p] # Absent /\ g[p].mtime = entries[p].mtime
                          => g[p].content = entries[p].content
  BY DEF Faithful
<1>1. p \in Paths /\ entries[p].mtime \in Int /\ entries[p].mtime <= t
  BY Entered, FileFields DEF Faithful
<1> QED
  BY <1>1 DEF Ages, Faithful

LEMMA WorkAges ==
    ASSUME NEW f, NEW g, NEW t, NEW u, NEW c, Works(f, g, t, u, c)
    PROVE  Ages(f, g, t, u)
<1>1. ASSUME NEW p, g[p] = [content |-> TreeOf[c][p], mtime |-> u]
      PROVE  g[p].mtime = u
  BY <1>1
<1> QED
  BY <1>1 DEF Works, Ages

\* A download that is not alone can live with what another one of the same
\* commit does.
LEMMA TrackStays ==
    ASSUME NEW f, NEW g, NEW t \in Nat, NEW u \in {t, t + 1}, NEW j \in Job,
           IsShaped(j), ~j.alone, OnTrack(j, f, t), Works(f, g, t, u, j.commit),
           \A p \in Paths : g[p] \in File \union {Absent}
    PROVE  OnTrack(j, g, u)
<1>1. j.prev \in Entries /\ j.files \in Entries
  BY DEF Job
<1>2. Faithful(g, u, j.prev) /\ Faithful(g, u, j.files)
  BY <1>1, FaithfulStays, WorkAges DEF OnTrack
<1>3. ASSUME NEW p \in Paths, f[p] # Absent => Has(f, p, j.commit)
      PROVE  g[p] # Absent => Has(g, p, j.commit)
  <2>1. CASE g[p] = f[p]
    BY <1>3, <2>1 DEF Has
  <2>2. CASE g[p] = [content |-> TreeOf[j.commit][p], mtime |-> u]
    <3>1. g[p].content = TreeOf[j.commit][p]
      BY <2>2
    <3> QED
      BY <3>1 DEF Has
  <2> QED
    BY <2>1, <2>2 DEF Works
<1>4. ASSUME j.step = "stat", g[First(j.todo)] # Absent
      PROVE  Has(g, First(j.todo), j.commit)
  <2>1. First(j.todo) \in Paths
    BY <1>4, FirstIsOne DEF IsShaped, Job
  <2> QED
    BY <1>3, <1>4, <2>1 DEF OnTrack
<1>5. ASSUME NEW p \in Delivered(j)
      PROVE  Has(g, p, j.commit) \/ g[p] = Absent
  <2>1. p \in Paths
    BY <1>1, Entered DEF Delivered, Selected, Files
  <2> QED
    BY <1>3, <2>1 DEF OnTrack
<1> QED
  BY <1>2, <1>4, <1>5 DEF OnTrack

-----------------------------------------------------------------------------
\* i and j are the same download, at different steps.
SameDownload(i, j) ==
    /\ i.kind = j.kind /\ i.rev = j.rev /\ i.sel = j.sel /\ i.export = j.export
    /\ i.commit = j.commit /\ i.prev = j.prev /\ i.alone = j.alone

LEMMA SameRoot ==
    ASSUME NEW i, NEW j, SameDownload(i, j)
    PROVE  JobRoot(i) = JobRoot(j)
  BY DEF SameDownload, JobRoot, RootOf

LEMMA ActiveJob ==
    ASSUME IInv, NEW d \in Active
    PROVE  /\ d \in Downloads /\ job[d] \in Job /\ JobRoot(job[d]) \in Roots
           /\ IsShaped(job[d])
  BY DEF IInv, TypeOK, Active, JobInv, IsShaped

\* The download d becomes j, and the files of its root f: it has removed files, or
\* written one of its commit.
Working(d, j, f) ==
    /\ SameDownload(job[d], j)
    /\ job' = [job EXCEPT ![d] = j]
    /\ disk' = [disk EXCEPT ![JobRoot(j)] = f]
    /\ now' \in {now, now + 1} /\ now' \in 0..MaxTime
    /\ Works(disk[JobRoot(j)], f, now, now', j.commit)
    /\ loose \subseteq loose' /\ loose' \subseteq Paths
    /\ j.export => \A p \in Paths : \/ f[p] = disk[JobRoot(j)][p]
                                    \/ f[p] = Absent
                                    \/ p \in loose'
    /\ \A p \in StillStale(job[d]) \ StillStale(j) : f[p] = Absent
    /\ UNCHANGED <<heads, meta, started, upsets, clashed>>
    /\ IsShaped(j)
    /\ Reliable(JobRoot(j)) => OnTrack(j, f, now')

\* Whatever a download does to its root, the invariant survives: for the other
\* downloads on the root, for those elsewhere, and for all the metadata.
LEMMA WorkStep ==
    ASSUME IInv, NEW d \in Active, NEW j \in Job, NEW f \in [Paths -> File \union {Absent}],
           Working(d, j, f)
    PROVE  IInv'
<1> DEFINE r == JobRoot(j)
<1>1. /\ d \in Downloads /\ job[d] \in Job /\ JobRoot(job[d]) = r /\ r \in Roots
      /\ TypeOK /\ now \in Nat
  BY ActiveJob, SameRoot, ViewsAssumption DEF IInv, TypeOK, Working
<1>2. /\ \A e \in Downloads : job'[e] = IF e = d THEN j ELSE job[e]
      /\ j # Idle /\ job[d] # Idle
      /\ Active' = Active
  BY <1>1, NamesAssumption DEF TypeOK, Active, Working
<1>3. \A s \in Roots : disk'[s] = IF s = r THEN f ELSE disk[s]
  BY <1>1 DEF TypeOK, Working
<1>4. Ages(disk[r], f, now, now') /\ \A s \in Roots : Ages(disk[s], disk'[s], now, now')
  BY <1>3, WorkAges DEF Ages, Working
<1>5. /\ \A s : Reliable(s)' <=> Reliable(s)
      /\ meta' = meta /\ now' \in {now, now + 1} /\ clashed' = clashed
  BY DEF Reliable, Working
<1> HIDE DEF r
<1>6. TypeOK'
  <2>1. job' \in [Downloads -> Job \union {Idle}]
    BY <1>1 DEF TypeOK, Working
  <2>2. disk' \in [Roots -> [Paths -> File \union {Absent}]]
    BY <1>1 DEF TypeOK, Working, r
  <2> QED
    BY <1>1, <2>1, <2>2 DEF TypeOK, Working
<1>7. ClockInv'
  <2> SUFFICES ASSUME NEW s \in Roots, NEW p \in Paths, disk'[s][p] # Absent
               PROVE  disk'[s][p].mtime <= now'
    BY DEF ClockInv
  <2>1. disk[s][p] # Absent => disk[s][p].mtime <= now /\ disk[s][p].mtime \in Nat
    <3>1. disk[s][p] \in File \union {Absent}
      BY <1>1 DEF TypeOK
    <3> QED
      BY <3>1, FileFields DEF IInv, ClockInv
  <2> QED
    BY <1>1, <1>4, <1>5, <2>1 DEF Ages
<1>8. MetaInv'
  <2> SUFFICES ASSUME NEW s \in Roots, meta[s] # NoMeta, Reliable(s)
               PROVE  Faithful(disk'[s], now', meta[s].files)
    BY <1>5 DEF IInv, MetaInv
  <2>1. meta[s].files \in Entries
    BY <1>1 DEF TypeOK, Meta
  <2> QED
    <3> DEFINE g == disk[s]
               h == disk'[s]
               entries == meta[s].files
    <3>1. Faithful(g, now, entries) /\ entries \in Entries /\ Ages(g, h, now, now')
      BY <1>4, <2>1 DEF IInv, MetaInv
    <3> HIDE DEF g, h, entries
    <3>2. Faithful(h, now', entries)
      BY <1>1, <1>5, <3>1, FaithfulStays
    <3> QED
      BY <3>2 DEF h, entries
<1>9. JobInv'
  <2> SUFFICES ASSUME NEW e \in Active
               PROVE  /\ IsShaped(job'[e])
                      /\ Reliable(JobRoot(job'[e])) =>
                            OnTrack(job'[e], disk'[JobRoot(job'[e])], now')
    BY <1>2, <1>5 DEF JobInv
  <2>1. CASE e = d
    BY <1>1, <1>2, <1>3, <2>1 DEF r, Working
  <2>2. CASE e # d
    <3>1. /\ job'[e] = job[e] /\ job[e] \in Job /\ IsShaped(job[e]) /\ JobRoot(job[e]) \in Roots
      BY <1>2, <2>2, ActiveJob
    <3>2. ASSUME Reliable(JobRoot(job[e])), JobRoot(job[e]) = r
          PROVE  OnTrack(job[e], f, now')
      <4>1. ~job[e].alone /\ job[e].commit = job[d].commit
        BY <1>1, <2>2, <3>2 DEF IInv, TogetherInv
      <4>2. OnTrack(job[e], disk[r], now)
        BY <3>1, <3>2 DEF IInv, JobInv
      <4>3. Works(disk[r], f, now, now', job[e].commit)
        BY <4>1 DEF SameDownload, Working, r
      <4>4. \A p \in Paths : f[p] \in File \union {Absent}
        OBVIOUS
      <4> DEFINE i == job[e]
                 g == disk[r]
      <4>5. i \in Job /\ IsShaped(i) /\ ~i.alone /\ OnTrack(i, g, now) /\ Works(g, f, now, now', i.commit)
        BY <3>1, <4>1, <4>2, <4>3
      <4> HIDE DEF i, g
      <4>6. OnTrack(i, f, now')
        BY <1>1, <1>5, <4>4, <4>5, TrackStays
      <4> QED
        BY <4>6 DEF i
    <3>3. ASSUME Reliable(JobRoot(job[e])), JobRoot(job[e]) # r
          PROVE  OnTrack(job[e], disk[JobRoot(job[e])], now')
      <4> DEFINE g == disk[JobRoot(job[e])]
      <4>1. OnTrack(job[e], g, now)
        BY <3>1, <3>3 DEF IInv, JobInv
      <4>2. job[e].prev \in Entries /\ job[e].files \in Entries
        BY <3>1 DEF Job
      <4> HIDE DEF g
      <4>3. Ages(g, g, now, now')
        BY DEF Ages
      <4>4. Faithful(g, now', job[e].prev) /\ Faithful(g, now', job[e].files)
        BY <1>1, <1>5, <4>1, <4>2, <4>3, FaithfulStays DEF OnTrack
      <4>5. OnTrack(job[e], g, now')
        BY <4>1, <4>4 DEF OnTrack
      <4> QED
        BY <4>5 DEF g
    <3> QED
      BY <1>3, <3>1, <3>2, <3>3
  <2> QED
    BY <2>1, <2>2
<1>10. TogetherInv'
  <2>1. \A e \in Active : SameDownload(job[e], job'[e]) /\ JobRoot(job'[e]) = JobRoot(job[e])
    BY <1>1, <1>2, ActiveJob, SameRoot DEF SameDownload, Working, r
  <2> SUFFICES ASSUME NEW a \in Active, NEW b \in Active, a # b, JobRoot(job'[a]) = JobRoot(job'[b])
               PROVE  /\ ~job'[a].alone
                      /\ Reliable(JobRoot(job'[a])) =>
                            job'[a].commit = job'[b].commit /\ job'[a].sel = job'[b].sel
    BY <1>2, <1>5 DEF TogetherInv
  <2> QED
    BY <2>1 DEF IInv, TogetherInv, SameDownload
<1>11. ExportInv'
  <2> SUFFICES ASSUME LocalDir \in Roots, ~clashed
               PROVE  /\ Exports(disk'[LocalDir]) \subseteq Recorded \union loose'
                      /\ \A e \in Active : job'[e].kind = "snapshot" /\ job'[e].export =>
                            Exports(disk'[LocalDir]) \subseteq Expects(job'[e], loose')
    BY <1>2, <1>5 DEF ExportInv, Recorded
  <2>1. ASSUME NEW p \in Exports(disk'[LocalDir])
        PROVE  p \in Exports(disk[LocalDir]) \/ p \in loose'
    <3>1. r = LocalDir => j.export
      BY RootIsLocal DEF r
    <3>2. p \in Paths /\ disk'[LocalDir][p] # Absent
      BY DEF Exports
    <3>3. CASE r = LocalDir
      BY <1>3, <3>1, <3>2, <3>3 DEF Exports, Working, r
    <3>4. CASE r # LocalDir
      BY <1>3, <3>4
    <3> QED
      BY <3>3, <3>4
  <2>2. Exports(disk'[LocalDir]) \subseteq Recorded \union loose'
    BY <2>1 DEF IInv, ExportInv, Working
  <2>3. ASSUME NEW e \in Active, job'[e].kind = "snapshot", job'[e].export,
               NEW p \in Exports(disk'[LocalDir])
        PROVE  p \in Expects(job'[e], loose')
    <3>1. CASE e # d
      BY <1>2, <2>1, <2>3, <3>1, ActiveJob DEF IInv, ExportInv, Expects, Working
    <3>2. CASE e = d
      <4>1. job'[e] = j /\ job[d].kind = "snapshot" /\ job[d].export /\ j.sel = job[d].sel
            /\ j.commit = job[d].commit /\ r = LocalDir
        BY <1>1, <1>2, <2>3, <3>2, RootIsLocal DEF SameDownload, Working, r
      <4>2. p \in Exports(disk[LocalDir]) => p \in Expects(job[d], loose)
        BY <4>1 DEF IInv, ExportInv
      <4>3. p \notin StillStale(job[d]) \ StillStale(j)
        BY <1>3, <4>1, <2>3 DEF Exports, Working
      <4> QED
        BY <2>1, <4>1, <4>2, <4>3 DEF Expects, Working
    <3> QED
      BY <3>1, <3>2
  <2> QED
    BY <2>2, <2>3
<1> QED
  BY <1>6, <1>7, <1>8, <1>9, <1>10, <1>11 DEF IInv

-----------------------------------------------------------------------------
\* The updates of a job.
Stepped(j, step) == [j EXCEPT !.step = step]

Dropped(j, stale, step) == [j EXCEPT !.stale = stale, !.step = step]

LEMMA StepTo ==
    ASSUME NEW j \in Job, NEW step \in Steps
    PROVE  LET k == Stepped(j, step)
           IN  /\ k \in Job /\ SameDownload(j, k) /\ k.step = step
               /\ k.files = j.files /\ k.todo = j.todo /\ k.stale = j.stale
  BY DEF Job, SameDownload, Stepped

LEMMA DropTo ==
    ASSUME NEW j \in Job, NEW stale \in SUBSET Paths, NEW step \in Steps
    PROVE  LET k == Dropped(j, stale, step)
           IN  /\ k \in Job /\ SameDownload(j, k) /\ k.step = step
               /\ k.files = j.files /\ k.todo = j.todo /\ k.stale = stale
  BY DEF Job, SameDownload, Dropped

LEMMA ListTo ==
    ASSUME NEW j \in Job, NEW p \in Paths, NEW e \in File
    PROVE  LET k == Listed(j, p, e)
           IN  /\ k \in Job /\ SameDownload(j, k) /\ k.step = "look"
               /\ k.files = [x \in DOMAIN j.files \union {p} |-> IF x = p THEN e ELSE j.files[x]]
               /\ k.todo = j.todo \ {p} /\ k.stale = j.stale
<1> DEFINE files == [x \in DOMAIN j.files \union {p} |-> IF x = p THEN e ELSE j.files[x]]
<1>1. files \in Entries
  <2>1. j.files \in Entries
    BY DEF Job
  <2>2. DOMAIN j.files \union {p} \in SUBSET Paths
    BY <2>1 DEF Entries
  <2>3. files \in [DOMAIN j.files \union {p} -> File]
    BY <2>1, Entered
  <2> QED
    BY <2>2, <2>3 DEF Entries
<1>2. Listed(j, p, e) = [j EXCEPT !.todo = j.todo \ {p}, !.step = "look", !.files = files]
  BY DEF Listed
<1> HIDE DEF files
<1>3. /\ Listed(j, p, e).files = files /\ Listed(j, p, e).todo = j.todo \ {p}
      /\ Listed(j, p, e).step = "look" /\ Listed(j, p, e).stale = j.stale
      /\ SameDownload(j, Listed(j, p, e))
  BY <1>2 DEF Job, SameDownload
<1>4. Listed(j, p, e) \in Job
  BY <1>1, <1>2 DEF Job, Steps
<1> QED
  BY <1>3, <1>4 DEF files

\* A download keeps what it has delivered while it works on other paths.
LEMMA OwnTrackStays ==
    ASSUME NEW f, NEW g, NEW t \in Nat, NEW u \in {t, t + 1}, NEW i \in Job, NEW j \in Job,
           SameDownload(i, j), j.files = i.files, i.step # "returned", j.step # "returned",
           OnTrack(i, f, t), Works(f, g, t, u, i.commit),
           \A p \in DOMAIN i.files : g[p] = f[p],
           j.step = "stat" /\ g[First(j.todo)] # Absent => Has(g, First(j.todo), j.commit)
    PROVE  OnTrack(j, g, u)
<1>1. i.prev \in Entries /\ i.files \in Entries /\ Ages(f, g, t, u)
  BY WorkAges DEF Job
<1>2. Faithful(g, u, i.prev) /\ Faithful(g, u, i.files)
  BY <1>1, FaithfulStays DEF OnTrack
<1>3. Faithful(g, u, j.prev) /\ Faithful(g, u, j.files)
  BY <1>2 DEF SameDownload
<1>4. ASSUME NEW p \in Delivered(j)
      PROVE  Has(g, p, j.commit) \/ (~j.alone /\ g[p] = Absent)
  <2>1. p \in DOMAIN i.files /\ p \in Delivered(i) /\ g[p] = f[p]
    BY DEF Delivered
  <2> QED
    BY <2>1 DEF OnTrack, Has, SameDownload
<1> QED
  BY <1>3, <1>4 DEF OnTrack

\* A file of the commit, and what a step writes of it.
LEMMA CommitFile ==
    ASSUME NEW c \in Commits, NEW p \in Files(c)
    PROVE  TreeOf[c][p] \in Bytes
  BY PublishedAssumption DEF Files, Bytes

\* What a download is busy with is a file of its commit.
LEMMA NextFile ==
    ASSUME IInv, NEW d \in Active, job[d].step # "returned", job[d].todo # {}
    PROVE  /\ First(job[d].todo) \in Files(job[d].commit) \intersect job[d].todo
           /\ First(job[d].todo) \in Selected(job[d].commit, job[d].sel)
           /\ First(job[d].todo) \notin DOMAIN job[d].files
           /\ TreeOf[job[d].commit][First(job[d].todo)] \in Bytes
<1> DEFINE j == job[d]
           p == First(j.todo)
<1>1. j \in Job /\ IsShaped(j)
  BY ActiveJob
<1>2. p \in j.todo
  BY <1>1, FirstIsOne DEF Job
<1>3. p \in Selected(j.commit, j.sel) /\ p \notin DOMAIN j.files
  BY <1>1, <1>2 DEF IsShaped
<1>4. p \in Files(j.commit) /\ j.commit \in Commits
  BY <1>1, <1>3 DEF Selected, Job
<1> HIDE DEF p
<1>5. TreeOf[j.commit][p] \in Bytes
  BY <1>4, CommitFile
<1> QED
  BY <1>2, <1>3, <1>4, <1>5 DEF p

\* The step that a download has taken is the step of WorkStep, when it has left
\* alone what it has delivered.
LEMMA OwnStep ==
    ASSUME IInv, NEW d \in Active, NEW k \in Job, NEW f \in [Paths -> File \union {Absent}],
           SameDownload(job[d], k), k.files = job[d].files,
           job[d].step # "returned", k.step # "returned", IsShaped(k),
           job' = [job EXCEPT ![d] = k],
           disk' = [disk EXCEPT ![JobRoot(job[d])] = f],
           now' \in {now, now + 1}, now' \in 0..MaxTime,
           Works(disk[JobRoot(job[d])], f, now, now', job[d].commit),
           loose \subseteq loose', loose' \subseteq Paths,
           job[d].export => \A p \in Paths : \/ f[p] = disk[JobRoot(job[d])][p]
                                             \/ f[p] = Absent
                                             \/ p \in loose',
           \A p \in StillStale(job[d]) \ StillStale(k) : f[p] = Absent,
           UNCHANGED <<heads, meta, started, upsets, clashed>>,
           Reliable(JobRoot(job[d])) =>
               /\ \A p \in DOMAIN job[d].files : f[p] = disk[JobRoot(job[d])][p]
               /\ k.step = "stat" /\ f[First(k.todo)] # Absent
                     => Has(f, First(k.todo), k.commit)
    PROVE  IInv'
<1>1. JobRoot(k) = JobRoot(job[d])
  BY SameRoot
<1>2. Reliable(JobRoot(k)) => OnTrack(k, f, now')
  <2> DEFINE i == job[d]
             g == disk[JobRoot(k)]
  <2>1. i \in Job /\ now \in Nat
    BY ActiveJob DEF IInv, TypeOK
  <2> SUFFICES ASSUME Reliable(JobRoot(k))
               PROVE  OnTrack(k, f, now')
    OBVIOUS
  <2>2. OnTrack(i, g, now)
    BY <1>1 DEF IInv, JobInv
  <2>3. /\ SameDownload(i, k) /\ k.files = i.files /\ i.step # "returned"
        /\ Works(g, f, now, now', i.commit)
        /\ \A p \in DOMAIN i.files : f[p] = g[p]
        /\ k.step = "stat" /\ f[First(k.todo)] # Absent => Has(f, First(k.todo), k.commit)
    BY <1>1
  <2> HIDE DEF i, g
  <2> QED
    BY <2>1, <2>2, <2>3, OwnTrackStays
<1>3. Working(d, k, f)
  BY <1>1, <1>2 DEF Working, SameDownload
<1> QED
  BY <1>3, WorkStep

\* What it removes, it removes before it has delivered anything.
LEMMA DropStaleKeeps ==
    ASSUME IInv, NEW d \in Downloads, DropStale(d)
    PROVE  IInv'
<1> DEFINE j == job[d]
           p == First(j.stale)
           r == JobRoot(j)
           f == Removed(r, p)
           step == IF j.stale = {p} THEN "look" ELSE "stale"
           stale == j.stale \ {p}
           k == Dropped(j, stale, step)
<1>1. d \in Active /\ j.step = "stale"
  BY DEF DropStale, At, Active
<1>2. j \in Job /\ IsShaped(j) /\ r \in Roots /\ TypeOK /\ now \in Nat
  BY <1>1, ActiveJob DEF IInv, TypeOK
<1>3. p \in j.stale /\ p \in Paths /\ DOMAIN j.files = {}
  BY <1>1, <1>2, FirstIsOne DEF IsShaped, Job
<1>4. /\ job' = [job EXCEPT ![d] = k] /\ disk' = [disk EXCEPT ![r] = f]
      /\ UNCHANGED <<heads, meta, now, started, upsets, clashed, loose>>
  BY <1>2 DEF DropStale, TypeOK, Dropped
<1>5. f \in [Paths -> File \union {Absent}] /\ f[p] = Absent
      /\ \A q \in Paths : f[q] = disk[r][q] \/ f[q] = Absent
  BY <1>2, <1>3 DEF Removed, TypeOK
<1>6. /\ k \in Job /\ SameDownload(j, k) /\ k.step = step /\ k.files = j.files
      /\ k.todo = j.todo /\ k.stale = stale
  <2>1. step \in Steps /\ stale \in SUBSET Paths
    BY <1>2 DEF Steps, Job
  <2> HIDE DEF j, p, step, stale
  <2> QED
    BY <1>2, <2>1, DropTo
<1> HIDE DEF f, k, r
<1>7. IsShaped(k)
  <2>1. JobRoot(k) = JobRoot(j)
    BY <1>6, SameRoot
  <2> QED
    BY <1>1, <1>2, <1>3, <1>6, <2>1 DEF IsShaped, SameDownload, r
<1>8. \A q \in StillStale(j) \ StillStale(k) : f[q] = Absent
  BY <1>1, <1>3, <1>5, <1>6 DEF StillStale
<1>9. Works(disk[r], f, now, now', j.commit)
  BY <1>5 DEF Works
<1>10. now' \in {now, now + 1} /\ now' \in 0..MaxTime /\ loose' \subseteq Paths
       /\ loose \subseteq loose'
  BY <1>2, <1>4 DEF TypeOK
<1> QED
  BY <1>1, <1>3, <1>4, <1>5, <1>6, <1>7, <1>8, <1>9, <1>10, OwnStep DEF r

\* The steps on one file: it is looked at, removed or written.
LEMMA FileStep ==
    ASSUME IInv, NEW d \in Active, NEW step \in {"unlink", "write", "stat"},
           NEW f \in [Paths -> File \union {Absent}],
           job[d].step \in {"look", "unlink", "write"}, job[d].todo # {},
           job' = [job EXCEPT ![d] = Stepped(job[d], step)],
           disk' = [disk EXCEPT ![JobRoot(job[d])] = f],
           now' \in {now, now + 1}, now' \in 0..MaxTime,
           Works(disk[JobRoot(job[d])], f, now, now', job[d].commit),
           loose \subseteq loose', loose' \subseteq Paths,
           job[d].export => \A p \in Paths : \/ f[p] = disk[JobRoot(job[d])][p]
                                             \/ f[p] = Absent
                                             \/ p \in loose',
           UNCHANGED <<heads, meta, started, upsets, clashed>>,
           \A p \in DOMAIN job[d].files : f[p] = disk[JobRoot(job[d])][p],
           step = "stat" /\ f[First(job[d].todo)] # Absent
               => Has(f, First(job[d].todo), job[d].commit)
    PROVE  IInv'
<1> DEFINE j == job[d]
           k == Stepped(j, step)
<1>1. j \in Job /\ IsShaped(j)
  BY ActiveJob
<1>2. /\ k \in Job /\ SameDownload(j, k) /\ k.step = step
      /\ k.files = j.files /\ k.todo = j.todo /\ k.stale = j.stale
  <2>1. step \in Steps
    BY DEF Steps
  <2> HIDE DEF j
  <2> QED
    BY <1>1, <2>1, StepTo
<1> HIDE DEF k
<1>3. IsShaped(k)
  <2>1. JobRoot(k) = JobRoot(j)
    BY <1>2, SameRoot
  <2> QED
    BY <1>1, <1>2, <2>1 DEF IsShaped, SameDownload
<1>4. k.commit = j.commit /\ \A p \in StillStale(j) \ StillStale(k) : f[p] = Absent
  BY <1>2 DEF SameDownload, StillStale
<1>5. job' = [job EXCEPT ![d] = k]
  BY DEF k
<1>6. /\ SameDownload(j, k) /\ k.files = j.files /\ j.step # "returned" /\ k.step # "returned"
  BY <1>2
<1>7. k.step = "stat" /\ f[First(k.todo)] # Absent => Has(f, First(k.todo), k.commit)
  BY <1>2, <1>4
<1> QED
  BY <1>2, <1>3, <1>4, <1>5, <1>6, <1>7, OwnStep

\* A file that is as the download wants it goes on the list.
LEMMA ListStep ==
    ASSUME IInv, NEW d \in Active, job[d].step \in {"look", "stat"}, job[d].todo # {},
           IsFile(JobRoot(job[d]), First(job[d].todo)),
           Reliable(JobRoot(job[d])) =>
               Has(disk[JobRoot(job[d])], First(job[d].todo), job[d].commit),
           job' = [job EXCEPT ![d] = Listed(job[d], First(job[d].todo),
                       [content |-> TreeOf[job[d].commit][First(job[d].todo)],
                        mtime |-> disk[JobRoot(job[d])][First(job[d].todo)].mtime])],
           UNCHANGED <<heads, disk, meta, now, started, upsets, clashed, loose>>
    PROVE  IInv'
<1> DEFINE j == job[d]
           p == First(j.todo)
           r == JobRoot(j)
           f == disk[r]
           e == [content |-> TreeOf[j.commit][p], mtime |-> f[p].mtime]
           k == Listed(j, p, e)
<1>1. j \in Job /\ IsShaped(j) /\ r \in Roots /\ TypeOK /\ now \in Nat
  BY ActiveJob DEF IInv, TypeOK
<1>2. /\ p \in Files(j.commit) \intersect j.todo /\ p \in Selected(j.commit, j.sel)
      /\ p \notin DOMAIN j.files /\ TreeOf[j.commit][p] \in Bytes /\ p \in Paths
  BY NextFile DEF Files
<1>3. f \in [Paths -> File \union {Absent}] /\ f[p] \in File /\ f[p].mtime \in 0..MaxTime
      /\ f[p].mtime <= now
  <2>1. f \in [Paths -> File \union {Absent}] /\ f[p] \in File /\ f[p].mtime <= now
    BY <1>1, <1>2 DEF TypeOK, IsFile, IInv, ClockInv
  <2> QED
    BY <2>1, FileFields
<1>4. e \in File /\ e.content = TreeOf[j.commit][p] /\ e.mtime = f[p].mtime
  BY <1>2, <1>3 DEF File
<1>5. job' = [job EXCEPT ![d] = k] /\ disk' = [disk EXCEPT ![r] = f]
  BY <1>1 DEF TypeOK
<1>6. Reliable(r) => Has(f, p, j.commit)
  OBVIOUS
<1>7. Reliable(r) => OnTrack(j, f, now)
  BY DEF IInv, JobInv
<1> HIDE DEF p, e, f
<1>8. /\ k \in Job /\ SameDownload(j, k) /\ k.step = "look"
      /\ k.files = [x \in DOMAIN j.files \union {p} |-> IF x = p THEN e ELSE j.files[x]]
      /\ k.todo = j.todo \ {p} /\ k.stale = j.stale
  BY <1>1, <1>2, <1>4, ListTo
<1>9. /\ DOMAIN k.files = DOMAIN j.files \union {p} /\ k.files[p] = e
      /\ \A x \in DOMAIN j.files : k.files[x] = j.files[x]
  BY <1>2, <1>8
<1> HIDE DEF k
<1>10. JobRoot(k) = r /\ k.commit = j.commit /\ k.sel = j.sel /\ k.alone = j.alone
       /\ k.prev = j.prev
  BY <1>8, SameRoot DEF SameDownload
<1>11. IsShaped(k)
  <2>1. IsOf(k.files, k.commit)
    BY <1>1, <1>4, <1>9, <1>10 DEF IsShaped, IsOf
  <2>2. /\ k.todo \subseteq Selected(k.commit, k.sel)
        /\ DOMAIN k.files = Selected(k.commit, k.sel) \ k.todo
    BY <1>1, <1>2, <1>8, <1>9, <1>10 DEF IsShaped
  <2> QED
    BY <1>1, <1>8, <1>10, <2>1, <2>2 DEF IsShaped
<1>12. ASSUME Reliable(r)
       PROVE  OnTrack(k, f, now)
  <2>1. Has(f, p, j.commit) /\ f[p].content = e.content
    BY <1>4, <1>6, <1>12 DEF Has
  <2>2. Faithful(f, now, k.files)
    BY <1>3, <1>4, <1>7, <1>9, <1>12, <2>1 DEF OnTrack, Faithful
  <2>3. Delivered(j) = DOMAIN j.files /\ Delivered(k) = DOMAIN k.files
    BY <1>8 DEF Delivered
  <2>4. \A x \in Delivered(k) : Has(f, x, k.commit) \/ (~k.alone /\ f[x] = Absent)
    BY <1>7, <1>9, <1>10, <1>12, <2>1, <2>3 DEF OnTrack
  <2> QED
    BY <1>7, <1>8, <1>10, <1>12, <2>2, <2>4 DEF OnTrack
<1>13. Works(disk[r], f, now, now', k.commit) /\ f = disk[r] /\ now' = now
  BY DEF Works, f
<1>14. StillStale(job[d]) = {} /\ loose' = loose /\ loose \subseteq Paths /\ now \in 0..MaxTime
  BY <1>1 DEF StillStale, TypeOK
<1>15. Working(d, k, f)
  BY <1>5, <1>8, <1>10, <1>11, <1>12, <1>13, <1>14 DEF Working
<1> QED
  BY <1>3, <1>8, <1>15, WorkStep

\* The files a download has delivered are no parent directories of the others.
LEMMA LookKeeps ==
    ASSUME IInv, NEW d \in Downloads, Look(d)
    PROVE  IInv'
<1> DEFINE j == job[d]
           p == First(j.todo)
           r == JobRoot(j)
           want == TreeOf[j.commit][p]
           kept == p \in DOMAIN j.prev /\ j.prev[p].content = want /\ Matches(r, p, j.prev[p])
<1>1. d \in Active /\ j.step = "look" /\ j.todo # {}
  BY DEF Look, At, Active
<1>2. j \in Job /\ IsShaped(j) /\ r \in Roots /\ TypeOK /\ now \in Nat
  BY <1>1, ActiveJob DEF IInv, TypeOK
<1>3. CASE kept
  <2>1. Reliable(r) => OnTrack(j, disk[r], now)
    BY <1>1 DEF IInv, JobInv
  <2>2. Reliable(r) => Has(disk[r], p, j.commit)
    <3> HIDE DEF j, p, r
    <3> QED
      BY <1>3, <2>1 DEF OnTrack, Faithful, Has, Matches, IsFile
  <2>3. IsFile(r, p)
    BY <1>3 DEF Matches
  <2>4. /\ job' = [job EXCEPT ![d] = Listed(j, p, [content |-> want, mtime |-> disk[r][p].mtime])]
        /\ UNCHANGED <<heads, disk, meta, now, started, upsets, clashed, loose>>
    BY <1>3 DEF Look
  <2> QED
    BY <1>1, <2>2, <2>3, <2>4, ListStep
<1>4. CASE ~kept
  <2> DEFINE tree == IsDirectory(r, p)
             step == IF ~IsFile(r, p) THEN "write"
                     ELSE IF disk[r][p].content = want THEN "stat" ELSE "unlink"
             f == IF tree THEN Removed(r, p) ELSE disk[r]
  <2>1. /\ job' = [job EXCEPT ![d] = Stepped(j, step)]
        /\ disk' = IF tree THEN [disk EXCEPT ![r] = Removed(r, p)] ELSE disk
        /\ UNCHANGED <<heads, meta, now, started, upsets, clashed, loose>>
    BY <1>2, <1>4 DEF Look, Stepped, TypeOK
  <2>2. disk' = [disk EXCEPT ![r] = f]
    BY <1>2, <2>1 DEF TypeOK
  <2>3. f \in [Paths -> File \union {Absent}]
        /\ \A q \in Paths : f[q] = disk[r][q] \/ (f[q] = Absent /\ (q = p \/ q \in Below[p]))
    BY <1>2 DEF Removed, TypeOK
  <2>4. ASSUME NEW q \in DOMAIN j.files
        PROVE  f[q] = disk[r][q]
    <3>1. /\ q \in Files(j.commit) /\ p \in Files(j.commit) /\ p # q /\ q \in Paths
          /\ j.commit \in Commits
      BY <1>1, <1>2, NextFile DEF IsShaped, Selected, Files, Job
    <3>2. q \notin Below[p]
      BY <3>1, TreesAssumption
    <3> QED
      BY <2>3, <3>1, <3>2
  <2>5. step = "stat" /\ f[p] # Absent => Has(f, p, j.commit)
    <3>1. p \in Paths
      BY <1>1, NextFile DEF Files
    <3> QED
      BY <2>3, <3>1 DEF Has, IsFile
  <2>6. Works(disk[r], f, now, now', j.commit)
    BY <2>3 DEF Works
  <2>7. /\ now' \in {now, now + 1} /\ now' \in 0..MaxTime /\ loose' = loose /\ loose' \subseteq Paths
        /\ step \in {"unlink", "write", "stat"}
        /\ UNCHANGED <<heads, meta, started, upsets, clashed>>
    BY <1>2, <2>1 DEF TypeOK
  <2> HIDE DEF f, step
  <2> QED
    BY <1>1, <2>1, <2>2, <2>3, <2>4, <2>5, <2>6, <2>7, FileStep
<1> QED
  BY <1>3, <1>4

\* What it unlinks, it has not delivered yet.
LEMMA UnlinkKeeps ==
    ASSUME IInv, NEW d \in Downloads, Unlink(d)
    PROVE  IInv'
<1> DEFINE j == job[d]
           p == First(j.todo)
           r == JobRoot(j)
           f == [disk[r] EXCEPT ![p] = Absent]
<1>1. d \in Active /\ j.step = "unlink"
  BY DEF Unlink, At, Active
<1>2. j \in Job /\ IsShaped(j) /\ r \in Roots /\ TypeOK /\ now \in Nat /\ j.todo # {}
  BY <1>1, ActiveJob DEF IInv, TypeOK, IsShaped
<1>3. p \notin DOMAIN j.files /\ p \in Paths
  BY <1>1, <1>2, NextFile DEF Files
<1>4. /\ job' = [job EXCEPT ![d] = Stepped(j, "write")]
      /\ disk' = [disk EXCEPT ![r] = f]
      /\ UNCHANGED <<heads, meta, now, started, upsets, clashed, loose>>
  BY <1>2 DEF Unlink, Stepped, TypeOK
<1>5. f \in [Paths -> File \union {Absent}]
      /\ \A q \in Paths : f[q] = IF q = p THEN Absent ELSE disk[r][q]
  BY <1>2, <1>3 DEF TypeOK
<1>6. DOMAIN j.files \subseteq Paths
  BY <1>1, <1>2 DEF IsShaped, Selected, Files
<1> HIDE DEF f, p
<1>7. Works(disk[r], f, now, now', j.commit)
  BY <1>5 DEF Works
<1>8. /\ now' \in {now, now + 1} /\ now' \in 0..MaxTime /\ loose' = loose /\ loose' \subseteq Paths
      /\ UNCHANGED <<heads, meta, started, upsets, clashed>>
  BY <1>2, <1>4 DEF TypeOK
<1>9. \A q \in DOMAIN j.files : f[q] = disk[r][q]
  BY <1>3, <1>5, <1>6
<1> QED
  BY <1>1, <1>2, <1>4, <1>5, <1>7, <1>8, <1>9, FileStep

\* What it writes is the file of its commit.
LEMMA WriteKeeps ==
    ASSUME IInv, NEW d \in Downloads, Write(d)
    PROVE  IInv'
<1> DEFINE j == job[d]
           p == First(j.todo)
           r == JobRoot(j)
           x == [content |-> TreeOf[j.commit][p], mtime |-> now + 1]
           f == [disk[r] EXCEPT ![p] = x]
<1>1. d \in Active /\ j.step = "write"
  BY DEF Write, At, Active
<1>2. j \in Job /\ IsShaped(j) /\ r \in Roots /\ TypeOK /\ now \in Nat /\ j.todo # {}
  BY <1>1, ActiveJob DEF IInv, TypeOK, IsShaped
<1>3. p \notin DOMAIN j.files /\ p \in Paths /\ TreeOf[j.commit][p] \in Bytes
  BY <1>1, <1>2, NextFile DEF Files
<1>4. /\ job' = [job EXCEPT ![d] = Stepped(j, "stat")]
      /\ disk' = [disk EXCEPT ![r] = f]
      /\ now' = now + 1 /\ now' \in 0..MaxTime
      /\ loose' = IF j.export THEN loose \union {p} ELSE loose
      /\ UNCHANGED <<heads, meta, started, upsets, clashed>>
  BY <1>2, ViewsAssumption DEF Write, Stepped, TypeOK
<1>5. x \in File /\ x.content = TreeOf[j.commit][p] /\ x = [content |-> TreeOf[j.commit][p], mtime |-> now']
  BY <1>3, <1>4 DEF File
<1> HIDE DEF x
<1>6. f \in [Paths -> File \union {Absent}]
      /\ \A q \in Paths : f[q] = IF q = p THEN x ELSE disk[r][q]
  BY <1>2, <1>3, <1>5 DEF TypeOK
<1>7. DOMAIN j.files \subseteq Paths /\ loose \subseteq Paths
  BY <1>1, <1>2 DEF IsShaped, Selected, Files, TypeOK
<1> HIDE DEF f
<1>8. Works(disk[r], f, now, now', j.commit)
  BY <1>4, <1>5, <1>6 DEF Works
<1>9. /\ now' \in {now, now + 1} /\ loose \subseteq loose' /\ loose' \subseteq Paths
      /\ j.export => \A q \in Paths : f[q] = disk[r][q] \/ f[q] = Absent \/ q \in loose'
  BY <1>3, <1>4, <1>6, <1>7
<1>10. Has(f, p, j.commit) /\ \A q \in DOMAIN j.files : f[q] = disk[r][q]
  BY <1>3, <1>5, <1>6, <1>7, FileFields DEF Has
<1> QED
  BY <1>1, <1>2, <1>4, <1>6, <1>8, <1>9, <1>10, FileStep

\* Between its write and its stat nobody put other bytes there.
LEMMA StatKeeps ==
    ASSUME IInv, NEW d \in Downloads, Stat(d)
    PROVE  IInv'
<1> DEFINE j == job[d]
           p == First(j.todo)
           r == JobRoot(j)
<1>1. d \in Active /\ j.step = "stat" /\ IsFile(r, p)
  BY DEF Stat, At, Active
<1>2. j.todo # {}
  BY <1>1, ActiveJob DEF IsShaped
<1>3. Reliable(r) => Has(disk[r], p, j.commit)
  <2>1. Reliable(r) => OnTrack(j, disk[r], now)
    BY <1>1 DEF IInv, JobInv
  <2> HIDE DEF p, r, j
  <2> QED
    BY <1>1, <2>1 DEF OnTrack, IsFile, p
<1>4. /\ job' = [job EXCEPT ![d] = Listed(j, p, [content |-> TreeOf[j.commit][p],
                                                mtime |-> disk[r][p].mtime])]
      /\ UNCHANGED <<heads, disk, meta, now, started, upsets, clashed, loose>>
  BY DEF Stat
<1> QED
  BY <1>1, <1>2, <1>3, <1>4, ListStep

\* The metadata of what a download delivered is recorded as a whole.
LEMMA RecordKeeps ==
    ASSUME IInv, NEW d \in Downloads, Record(d)
    PROVE  IInv'
<1> DEFINE j == job[d]
           r == JobRoot(j)
           keepsMeta == j.kind = "snapshot" \/ ~j.export
           m == [rev |-> j.rev, commit |-> j.commit, sel |-> j.sel, files |-> j.files]
           k == Stepped(j, "returned")
<1>1. d \in Active /\ j.step = "look" /\ j.todo = {}
  BY DEF Record, At, Active
<1>2. j \in Job /\ IsShaped(j) /\ r \in Roots /\ TypeOK /\ now \in Nat
  BY <1>1, ActiveJob DEF IInv, TypeOK
<1>3. /\ k \in Job /\ SameDownload(j, k) /\ k.step = "returned" /\ k.files = j.files
      /\ k.todo = j.todo /\ k.stale = j.stale
  <2>1. "returned" \in Steps
    BY DEF Steps
  <2> HIDE DEF j
  <2> QED
    BY <1>2, <2>1, StepTo
<1>4. /\ job' = [job EXCEPT ![d] = k]
      /\ meta' = IF keepsMeta THEN [meta EXCEPT ![r] = m] ELSE meta
      /\ loose' = IF keepsMeta /\ j.export THEN loose \ DOMAIN j.files ELSE loose
      /\ UNCHANGED <<heads, disk, now, started, upsets, clashed>>
  BY DEF Record, Stepped
<1>5. m \in Meta /\ m.commit = j.commit /\ m.sel = j.sel /\ m.files = j.files
  BY <1>2 DEF Meta, Job
<1> HIDE DEF k, m
<1>6. /\ \A e \in Downloads : job'[e] = IF e = d THEN k ELSE job[e]
      /\ \A s \in Roots : meta'[s] = IF keepsMeta /\ s = r THEN m ELSE meta[s]
      /\ JobRoot(k) = r /\ k.commit = j.commit /\ k.sel = j.sel /\ k.alone = j.alone
      /\ k.prev = j.prev /\ k.kind = j.kind /\ k.export = j.export
      /\ k # Idle /\ m # NoMeta /\ DOMAIN j.files = Selected(j.commit, j.sel)
  BY <1>1, <1>2, <1>3, <1>4, <1>5, SameRoot, NamesAssumption DEF TypeOK, SameDownload, IsShaped
<1>7. Active' = Active /\ \A s : Reliable(s)' <=> Reliable(s)
  BY <1>1, <1>4, <1>6 DEF Active, Reliable
<1>8. Reliable(r) => OnTrack(j, disk[r], now)
  BY <1>1 DEF IInv, JobInv
<1> HIDE DEF j, r
<1>9. TypeOK'
  <2>1. job' \in [Downloads -> Job \union {Idle}]
    BY <1>2, <1>3, <1>4 DEF TypeOK
  <2>2. meta' \in [Roots -> Meta \union {NoMeta}]
    BY <1>2, <1>4, <1>5 DEF TypeOK
  <2> QED
    BY <1>2, <1>4, <2>1, <2>2 DEF TypeOK
<1>10. ClockInv'
  BY <1>4 DEF IInv, ClockInv
<1>11. MetaInv'
  <2> SUFFICES ASSUME NEW s \in Roots, meta'[s] # NoMeta
               PROVE  /\ DOMAIN meta'[s].files = Selected(meta'[s].commit, meta'[s].sel)
                      /\ IsOf(meta'[s].files, meta'[s].commit)
                      /\ Reliable(s) => Faithful(disk[s], now, meta'[s].files)
    BY <1>4, <1>7 DEF MetaInv
  <2>1. CASE keepsMeta /\ s = r
    <3>1. meta'[s] = m /\ IsOf(j.files, j.commit)
      BY <1>2, <1>6, <2>1 DEF IsShaped
    <3> QED
      BY <1>5, <1>6, <1>8, <2>1, <3>1 DEF OnTrack
  <2>2. CASE ~(keepsMeta /\ s = r)
    BY <1>6, <2>2 DEF IInv, MetaInv
  <2> QED
    BY <2>1, <2>2
<1>12. JobInv'
  <2> SUFFICES ASSUME NEW e \in Active
               PROVE  /\ IsShaped(job'[e])
                      /\ Reliable(JobRoot(job'[e])) =>
                            OnTrack(job'[e], disk[JobRoot(job'[e])], now)
    BY <1>4, <1>7 DEF JobInv
  <2>1. CASE e # d
    BY <1>6, <2>1, ActiveJob DEF IInv, JobInv
  <2>2. CASE e = d
    <3>1. job'[e] = k /\ IsShaped(k)
      BY <1>2, <1>3, <1>6, <2>2 DEF IsShaped
    <3>2. Delivered(k) = Delivered(j)
      BY <1>1, <1>3, <1>6 DEF Delivered, j
    <3>3. ASSUME Reliable(r) PROVE OnTrack(k, disk[r], now)
      BY <1>3, <1>6, <1>8, <3>2, <3>3 DEF OnTrack
    <3> QED
      BY <1>6, <3>1, <3>3
  <2> QED
    BY <2>1, <2>2
<1>13. /\ TogetherInv'
       /\ \A e \in Active : /\ job'[e].kind = job[e].kind /\ job'[e].export = job[e].export
                            /\ job'[e].commit = job[e].commit /\ job'[e].sel = job[e].sel
                            /\ JobRoot(job'[e]) = JobRoot(job[e])
                            /\ StillStale(job'[e]) = StillStale(job[e])
  <2>1. \A e \in Active : /\ SameDownload(job[e], job'[e]) /\ JobRoot(job'[e]) = JobRoot(job[e])
                          /\ StillStale(job'[e]) = StillStale(job[e])
    BY <1>1, <1>3, <1>6, ActiveJob DEF SameDownload, StillStale, j, r
  <2> SUFFICES ASSUME NEW a \in Active, NEW b \in Active, a # b, JobRoot(job'[a]) = JobRoot(job'[b])
               PROVE  /\ ~job'[a].alone
                      /\ Reliable(JobRoot(job'[a])) =>
                            job'[a].commit = job'[b].commit /\ job'[a].sel = job'[b].sel
    BY <1>7, <2>1 DEF TogetherInv, SameDownload
  <2> QED
    BY <2>1 DEF IInv, TogetherInv, SameDownload
<1>14. ExportInv'
  <2> SUFFICES ASSUME LocalDir \in Roots, ~clashed
               PROVE  /\ Exports(disk[LocalDir]) \subseteq Recorded' \union loose'
                      /\ \A e \in Active : job'[e].kind = "snapshot" /\ job'[e].export =>
                            Exports(disk[LocalDir]) \subseteq Expects(job'[e], loose')
    BY <1>4, <1>7 DEF ExportInv
  <2>1. r = LocalDir <=> j.export
    BY <1>2, RootIsLocal DEF r
  <2>2. CASE ~(keepsMeta /\ j.export)
    <3>1. Recorded' = Recorded /\ loose' = loose
      BY <1>4, <1>6, <2>1, <2>2 DEF Recorded
    <3> QED
      BY <1>13, <3>1 DEF IInv, ExportInv, Expects
  <2>3. CASE keepsMeta /\ j.export
    <3>1. /\ Recorded' = DOMAIN j.files /\ loose' = loose \ DOMAIN j.files
          /\ DOMAIN j.files = Selected(j.commit, j.sel) /\ j.kind = "snapshot"
      BY <1>4, <1>5, <1>6, <2>1, <2>3 DEF Recorded
    <3>2. Exports(disk[LocalDir]) \subseteq Selected(j.commit, j.sel) \union loose
      BY <1>1, <2>3, <3>1 DEF IInv, ExportInv, Expects, StillStale, j
    <3>3. ASSUME NEW e \in Active, job[e].kind = "snapshot", job[e].export
          PROVE  Exports(disk[LocalDir]) \subseteq Expects(job'[e], loose')
      <4>1. Exports(disk[LocalDir]) \subseteq Expects(job[e], loose)
        BY <3>3 DEF IInv, ExportInv
      <4>2. job[e].commit = j.commit /\ job[e].sel = j.sel
        <5>1. JobRoot(job[e]) = JobRoot(j) /\ Reliable(JobRoot(job[e]))
          BY <2>1, <3>3, ActiveJob, RootIsLocal, <2>3 DEF r, Reliable
        <5> QED
          BY <1>1, <5>1 DEF IInv, TogetherInv, j
      <4> QED
        BY <1>13, <3>1, <4>1, <4>2 DEF Expects
    <3> QED
      BY <1>13, <3>1, <3>2, <3>3
  <2> QED
    BY <2>2, <2>3
<1> QED
  BY <1>9, <1>10, <1>11, <1>12, <1>13, <1>14 DEF IInv

\* A download that is gone is missed by nobody.
LEMMA EndKeeps ==
    ASSUME IInv, NEW d \in Downloads, End(d)
    PROVE  IInv'
<1>1. /\ job' = [job EXCEPT ![d] = Idle] /\ TypeOK
      /\ UNCHANGED <<heads, disk, meta, now, started, upsets, clashed, loose>>
  BY DEF End, IInv
<1>2. Active' \subseteq Active /\ \A e \in Active' : job'[e] = job[e]
  BY <1>1 DEF Active, TypeOK
<1>3. TypeOK' /\ ClockInv' /\ MetaInv'
  BY <1>1 DEF TypeOK, ClockInv, MetaInv, IInv, Reliable
<1>4. JobInv'
  BY <1>1, <1>2 DEF IInv, JobInv, Reliable
<1>5. TogetherInv'
  BY <1>1, <1>2 DEF IInv, TogetherInv, Reliable
<1>6. ExportInv'
  BY <1>1, <1>2 DEF IInv, ExportInv, Recorded
<1> QED
  BY <1>3, <1>4, <1>5, <1>6 DEF IInv

-----------------------------------------------------------------------------
\* What others do: files are removed, or written where no download is running,
\* and metadata is lost.
LEMMA OutsideStep ==
    ASSUME IInv, TypeOK', UNCHANGED <<job, clashed>>, now' \in {now, now + 1},
           \A s \in Roots : Ages(disk[s], disk'[s], now, now'),
           \A e \in Active : disk'[JobRoot(job[e])] = disk[JobRoot(job[e])],
           \A s \in Roots : meta'[s] = meta[s] \/ meta'[s] = NoMeta,
           LocalDir \in Roots =>
               /\ meta'[LocalDir] = meta[LocalDir]
               /\ Exports(disk'[LocalDir]) \subseteq Exports(disk[LocalDir])
               /\ Exports(disk'[LocalDir]) \intersect loose \subseteq loose'
    PROVE  IInv'
<1>1. TypeOK /\ now \in Nat /\ \A s : Reliable(s)' <=> Reliable(s)
  BY DEF IInv, TypeOK, Reliable
<1>2. Active' = Active
  BY DEF Active
<1>3. ClockInv'
  <2> SUFFICES ASSUME NEW s \in Roots, NEW p \in Paths, disk'[s][p] # Absent
               PROVE  disk'[s][p].mtime <= now'
    BY DEF ClockInv
  <2>1. disk[s][p] # Absent => disk[s][p].mtime <= now /\ disk[s][p].mtime \in Nat
    <3>1. disk[s][p] \in File \union {Absent}
      BY <1>1 DEF TypeOK
    <3> QED
      BY <3>1, FileFields DEF IInv, ClockInv
  <2> QED
    BY <1>1, <2>1 DEF Ages
<1>4. MetaInv'
  <2> SUFFICES ASSUME NEW s \in Roots, meta'[s] # NoMeta
               PROVE  /\ DOMAIN meta'[s].files = Selected(meta'[s].commit, meta'[s].sel)
                      /\ IsOf(meta'[s].files, meta'[s].commit)
                      /\ Reliable(s) => Faithful(disk'[s], now', meta'[s].files)
    BY <1>1 DEF MetaInv
  <2> DEFINE m == meta[s]
             f == disk[s]
             g == disk'[s]
  <2>1. meta'[s] = m /\ m \in Meta
    BY <1>1 DEF TypeOK
  <2>2. /\ DOMAIN m.files = Selected(m.commit, m.sel)
        /\ IsOf(m.files, m.commit)
        /\ Reliable(s) => Faithful(f, now, m.files)
    BY <2>1 DEF IInv, MetaInv
  <2>3. m.files \in Entries /\ Ages(f, g, now, now')
    BY <2>1 DEF Meta
  <2> HIDE DEF m, f, g
  <2>4. Reliable(s) => Faithful(g, now', m.files)
    BY <1>1, <2>2, <2>3, FaithfulStays
  <2> QED
    BY <2>1, <2>2, <2>4 DEF g
<1>5. JobInv'
  <2> SUFFICES ASSUME NEW e \in Active, Reliable(JobRoot(job[e]))
               PROVE  OnTrack(job[e], disk[JobRoot(job[e])], now')
    BY <1>1, <1>2 DEF IInv, JobInv
  <2> DEFINE j == job[e]
             f == disk[JobRoot(j)]
  <2>1. OnTrack(j, f, now) /\ j.prev \in Entries /\ j.files \in Entries
    BY ActiveJob DEF IInv, JobInv, Job
  <2> HIDE DEF j, f
  <2>2. Ages(f, f, now, now')
    BY DEF Ages
  <2>3. Faithful(f, now', j.prev) /\ Faithful(f, now', j.files)
    <3>1. Faithful(f, now, j.prev) /\ Faithful(f, now, j.files)
      BY <2>1 DEF OnTrack
    <3>2. j.prev \in Entries /\ j.files \in Entries
      BY <2>1
    <3> QED
      BY <1>1, <2>2, <3>1, <3>2, FaithfulStays
  <2>4. OnTrack(j, f, now')
    BY <2>1, <2>3 DEF OnTrack
  <2> QED
    BY <2>4 DEF j, f
<1>6. TogetherInv'
  BY <1>1, <1>2 DEF IInv, TogetherInv
<1>7. ExportInv'
  BY <1>2 DEF IInv, ExportInv, Recorded, Expects
<1> QED
  BY <1>3, <1>4, <1>5, <1>6, <1>7 DEF IInv

\* A commit changes no view.
LEMMA CommitKeeps ==
    ASSUME IInv, NEW rev \in Revisions, NEW c \in Commits, Commit(rev, c)
    PROVE  IInv'
<1>1. /\ heads' = [heads EXCEPT ![rev] = c] /\ TypeOK
      /\ UNCHANGED <<disk, meta, job, now, started, upsets, clashed, loose>>
  BY DEF Commit, MoveRevision, IInv
<1>2. TypeOK'
  BY <1>1 DEF TypeOK
<1>3. \A s \in Roots : Ages(disk[s], disk'[s], now, now')
  BY <1>1 DEF Ages
<1> QED
  BY <1>1, <1>2, <1>3, OutsideStep DEF TypeOK

\* gc takes files, and perhaps the metadata, of managed views.
LEMMA PruneCacheKeeps ==
    ASSUME IInv, NEW left \in SUBSET Paths, NEW interrupted \in BOOLEAN,
           PruneCache(left, interrupted)
    PROVE  IInv'
<1>1. /\ TypeOK /\ Active = {} /\ upsets' = upsets + 1 /\ upsets < MaxUpsets
      /\ disk' = [r \in Roots |-> [p \in Paths |->
             IF r = LocalDir \/ p \in left THEN disk[r][p] ELSE Absent]]
      /\ meta' = [r \in Roots |-> IF r = LocalDir \/ interrupted THEN meta[r] ELSE NoMeta]
      /\ UNCHANGED <<heads, job, now, started, clashed, loose>>
  BY DEF PruneCache, Upset, IInv
<1>2. TypeOK'
  BY <1>1, ViewsAssumption DEF TypeOK
<1>3. \A s \in Roots : Ages(disk[s], disk'[s], now, now')
  BY <1>1 DEF Ages
<1>4. LocalDir \in Roots => Exports(disk'[LocalDir]) \subseteq Exports(disk[LocalDir])
  BY <1>1 DEF Exports
<1> QED
  BY <1>1, <1>2, <1>3, <1>4, OutsideStep

\* A user's edit of one file: the new file, if any, is no file of a commit.
LEMMA EditStep ==
    ASSUME IInv, NEW r \in Roots, NEW p \in Paths, NEW x \in File \union {Absent}, On(r) = {},
           \/ x = Absent /\ now' = now
           \/ x # Absent /\ now' = now + 1 /\ now < MaxTime
              /\ x.mtime = now' /\ x.content \notin Contents,
           disk' = [disk EXCEPT ![r][p] = x],
           loose' = loose \/ (r = LocalDir /\ loose' = loose \ {p} /\ x # Absent),
           upsets' = upsets + 1, upsets < MaxUpsets,
           UNCHANGED <<heads, meta, job, started, clashed>>
    PROVE  IInv'
<1>1. /\ TypeOK /\ now \in Nat /\ now' \in {now, now + 1}
      /\ \A s \in Roots, q \in Paths :
             disk'[s][q] = IF s = r /\ q = p THEN x ELSE disk[s][q]
  BY DEF IInv, TypeOK
<1>2. TypeOK'
  <2>1. disk' \in [Roots -> [Paths -> File \union {Absent}]]
    BY <1>1 DEF TypeOK
  <2> QED
    BY <1>1, <2>1, ViewsAssumption DEF TypeOK
<1>3. \A s \in Roots : Ages(disk[s], disk'[s], now, now')
  BY <1>1 DEF Ages
<1>4. ASSUME NEW e \in Active
      PROVE  disk'[JobRoot(job[e])] = disk[JobRoot(job[e])]
  BY <1>1, ActiveJob DEF On, TypeOK
<1>5. ASSUME LocalDir \in Roots
      PROVE  /\ Exports(disk'[LocalDir]) \subseteq Exports(disk[LocalDir])
             /\ Exports(disk'[LocalDir]) \intersect loose \subseteq loose'
  <2>1. x = Absent \/ x.content \notin Contents
    OBVIOUS
  <2> QED
    BY <1>1, <1>5, <2>1 DEF Exports
<1> QED
  BY <1>1, <1>2, <1>3, <1>4, <1>5, OutsideStep

\* Both edits of a user are edits.
LEMMA UserStepKeeps ==
    ASSUME IInv, NEW r \in Roots, NEW p \in Paths, UserStep(r, p)
    PROVE  IInv'
<1>1. ASSUME NEW y \in UserContents, UserWrites(r, p, y)
      PROVE  IInv'
  <2> DEFINE x == [content |-> y, mtime |-> now + 1]
  <2>1. /\ On(r) = {} /\ now < MaxTime /\ now' = now + 1 /\ disk' = [disk EXCEPT ![r][p] = x]
        /\ loose' = IF r = LocalDir THEN loose \ {p} ELSE loose
        /\ upsets' = upsets + 1 /\ upsets < MaxUpsets
        /\ UNCHANGED <<heads, meta, job, started, clashed>>
    BY <1>1 DEF UserWrites, Upset
  <2>2. x \in File
    BY <2>1, ViewsAssumption DEF File, Bytes, IInv, TypeOK
  <2>3. x # Absent /\ x.mtime = now' /\ x.content \notin Contents
    BY <2>1, <2>2, FileFields, ViewsAssumption
  <2> HIDE DEF x
  <2> QED
    BY <2>1, <2>2, <2>3, EditStep
<1>2. CASE UserRemoves(r, p)
  BY <1>2, EditStep DEF UserRemoves, Upset
<1> QED
  BY <1>1, <1>2 DEF UserStep

-----------------------------------------------------------------------------
\* The record of a download at its first step.
Begun(q, c, alone, current, prev) ==
    LET want == Selected(c, q.sel) IN
    [kind |-> q.kind, rev |-> q.rev, sel |-> q.sel, export |-> q.export,
     commit |-> c, alone |-> alone,
     prev |-> IF current THEN NoEntries ELSE prev,
     stale |-> IF current THEN {} ELSE DOMAIN prev \ want,
     todo |-> IF current THEN {} ELSE want,
     files |-> NoEntries,
     step |-> IF current THEN "returned"
              ELSE IF DOMAIN prev \subseteq want THEN "look" ELSE "stale"]

\* A new download has nothing written down.
LEMMA NothingEntered ==
    /\ NoEntries \in Entries /\ DOMAIN NoEntries = {}
    /\ \A f, t, c : Faithful(f, t, NoEntries) /\ IsOf(NoEntries, c)
<1>1. DOMAIN NoEntries = {}
  BY DEF NoEntries
<1>2. NoEntries \in [{} -> File]
  BY DEF NoEntries
<1>3. NoEntries \in Entries
  BY <1>2 DEF Entries
<1> QED
  BY <1>1, <1>3 DEF Faithful, IsOf

\* A new download is in order.
LEMMA BegunIsShaped ==
    ASSUME NEW q \in Requests, NEW c \in Commits, NEW alone \in BOOLEAN,
           NEW current \in BOOLEAN, NEW prev \in Entries
    PROVE  LET j == Begun(q, c, alone, current, prev)
               want == Selected(c, q.sel)
           IN  /\ j \in Job /\ IsShaped(j) /\ JobRoot(j) = RootOf(q, c)
               /\ j.commit = c /\ j.sel = q.sel /\ j.alone = alone
               /\ j.kind = q.kind /\ j.export = q.export
               /\ j.files = NoEntries /\ j.prev = IF current THEN NoEntries ELSE prev
               /\ Delivered(j) = IF current THEN want ELSE {}
               /\ StillStale(j) = IF current THEN {} ELSE DOMAIN prev \ want
               /\ j.step # "stat"
<1> DEFINE j == Begun(q, c, alone, current, prev)
           want == Selected(c, q.sel)
<1>1. q \in Request /\ want \subseteq Paths /\ DOMAIN prev \subseteq Paths
  BY ViewsAssumption DEF Selected, Files, Entries
<1> HIDE DEF want
<1>2. /\ j.kind = q.kind /\ j.rev = q.rev /\ j.sel = q.sel /\ j.export = q.export
      /\ j.commit = c /\ j.alone = alone /\ j.files = NoEntries
      /\ j.prev = IF current THEN NoEntries ELSE prev
      /\ j.stale = IF current THEN {} ELSE DOMAIN prev \ want
      /\ j.todo = IF current THEN {} ELSE want
      /\ j.step = IF current THEN "returned"
                  ELSE IF DOMAIN prev \subseteq want THEN "look" ELSE "stale"
  BY DEF Begun, want
<1>3. j \in Job
  <2>1. /\ q.kind \in {"snapshot", "file"} /\ q.rev \in Revisions
        /\ q.sel \in SUBSET Paths /\ q.export \in BOOLEAN
    BY <1>1 DEF Request
  <2>2. /\ (IF current THEN NoEntries ELSE prev) \in Entries
        /\ (IF current THEN {} ELSE DOMAIN prev \ want) \in SUBSET Paths
        /\ (IF current THEN {} ELSE want) \in SUBSET Paths
        /\ (IF current THEN "returned"
            ELSE IF DOMAIN prev \subseteq want THEN "look" ELSE "stale") \in Steps
    BY <1>1, NothingEntered DEF Steps
  <2> QED
    BY <2>1, <2>2, NothingEntered DEF Begun, Job, want
<1> HIDE DEF j
<1>4. JobRoot(j) = RootOf(q, c) /\ RootOf(q, c) \in Roots
  BY <1>2 DEF JobRoot, RootOf, Roots
<1>5. IsShaped(j)
  BY <1>2, <1>4, NothingEntered DEF IsShaped, want
<1>6. Delivered(j) = IF current THEN want ELSE {}
  BY <1>2, NothingEntered DEF Delivered, want
<1>7. StillStale(j) = IF current THEN {} ELSE DOMAIN prev \ want
  BY <1>2 DEF StillStale
<1>8. j.step # "stat"
  BY <1>2
<1> QED
  BY <1>2, <1>3, <1>4, <1>5, <1>6, <1>7, <1>8 DEF j, want

\* What a current root holds.
LEMMA CurrentHolds ==
    ASSUME IInv, NEW q \in Requests, NEW c \in Commits, IsCurrent(RootOf(q, c), q, c)
    PROVE  /\ DOMAIN meta[RootOf(q, c)].files = Selected(c, q.sel)
           /\ meta[RootOf(q, c)] # NoMeta
           /\ Reliable(RootOf(q, c)) =>
                 \A p \in Selected(c, q.sel) : Has(disk[RootOf(q, c)], p, c)
<1> DEFINE r == RootOf(q, c)
           m == meta[r]
           f == disk[r]
<1>1. r \in Roots
  BY DEF Roots
<1>2. /\ m # NoMeta /\ m.commit = c /\ m.sel = q.sel
      /\ \A p \in DOMAIN m.files : /\ f[p] # Absent
                                   /\ f[p].mtime = m.files[p].mtime
  BY DEF IsCurrent, Matches, IsFile
<1>3. /\ DOMAIN m.files = Selected(c, q.sel)
      /\ IsOf(m.files, c)
      /\ Reliable(r) => Faithful(f, now, m.files)
  BY <1>1, <1>2 DEF IInv, MetaInv
<1> HIDE DEF m, f
<1>4. Reliable(r) => \A p \in Selected(c, q.sel) : Has(f, p, c)
  BY <1>2, <1>3 DEF IsOf, Faithful, Has
<1> QED
  BY <1>2, <1>3, <1>4 DEF m, f

\* A download begins: it finds its files there, or knows what to look for.
LEMMA DownloadKeeps ==
    ASSUME IInv, NEW d \in Downloads, NEW q \in Requests, Download(d, q)
    PROVE  IInv'
<1> DEFINE c == Resolve(q.rev)
           r == RootOf(q, c)
           current == IF q.kind = "snapshot" THEN IsCurrent(r, q, c)
                      ELSE ~q.export /\ IsCurrentFile(r, q, c)
           prev == Previous(r, q)
           alone == On(r) = {}
           j == Begun(q, c, alone, current, prev)
           Trusted(s) == s = LocalDir => ~clashed'
<1>1. q \in Request /\ c \in Commits /\ TypeOK /\ now \in Nat /\ r \in Roots
  BY ViewsAssumption DEF IInv, TypeOK, Resolve, Request, Roots
<1>2. /\ job[d] = Idle
      /\ job' = [o \in Downloads |->
             IF o # d THEN IF o \in On(r) THEN [job[o] EXCEPT !.alone = FALSE] ELSE job[o]
             ELSE j]
      /\ clashed' = (clashed \/ Clashes(q, c))
      /\ started < MaxDownloads /\ started' = started + 1
      /\ UNCHANGED <<heads, disk, meta, now, upsets, loose>>
  BY DEF Download, Begun
<1>3. current \in BOOLEAN /\ (current => IsCurrent(r, q, c))
  BY DEF IsCurrent, IsCurrentFile
<1>4. prev \in Entries /\ (prev # NoEntries => meta[r] # NoMeta /\ prev = meta[r].files)
  BY <1>1, NothingEntered DEF Previous, TypeOK, Meta
<1>5. q.export <=> r = LocalDir
  <2>1. CASE q.export
    BY <2>1 DEF RootOf
  <2>2. CASE ~q.export
    <3>1. r \in ManagedRoots
      BY <1>1, <2>2 DEF RootOf, ManagedRoots, Request
    <3> QED
      BY <2>2, <3>1, RootsAssumption
  <2> QED
    BY <2>1, <2>2
<1>6. /\ current => /\ DOMAIN meta[r].files = Selected(c, q.sel) /\ meta[r] # NoMeta
                    /\ Reliable(r) => \A p \in Selected(c, q.sel) : Has(disk[r], p, c)
  BY <1>1, <1>3, CurrentHolds
<1>7. q.kind = "snapshot" =>
          prev = IF meta[r] # NoMeta THEN meta[r].files ELSE NoEntries
  BY DEF Previous
<1>8. d \notin Active /\ (\A s : Trusted(s) => Reliable(s)) /\ (clashed => clashed')
  BY <1>2 DEF Active, Reliable
<1>9. alone \in BOOLEAN
  OBVIOUS
<1> HIDE DEF c, current, prev, alone
<1>10. /\ j \in Job /\ IsShaped(j) /\ JobRoot(j) = r
       /\ j.commit = c /\ j.sel = q.sel /\ j.alone = alone
       /\ j.kind = q.kind /\ j.export = q.export
       /\ j.files = NoEntries /\ j.prev = IF current THEN NoEntries ELSE prev
       /\ Delivered(j) = IF current THEN Selected(c, q.sel) ELSE {}
       /\ StillStale(j) = IF current THEN {} ELSE DOMAIN prev \ Selected(c, q.sel)
       /\ j.step # "stat"
  <2> HIDE DEF r
  <2>1. /\ j \in Job /\ IsShaped(j) /\ JobRoot(j) = RootOf(q, c)
        /\ j.commit = c /\ j.sel = q.sel /\ j.alone = alone
        /\ j.kind = q.kind /\ j.export = q.export
        /\ j.files = NoEntries /\ j.prev = IF current THEN NoEntries ELSE prev
        /\ Delivered(j) = IF current THEN Selected(c, q.sel) ELSE {}
        /\ StillStale(j) = IF current THEN {} ELSE DOMAIN prev \ Selected(c, q.sel)
        /\ j.step # "stat"
    <3>1. prev \in Entries /\ current \in BOOLEAN /\ alone \in BOOLEAN /\ c \in Commits
      BY <1>1, <1>3, <1>4, <1>9
    <3> QED
      <4>1. j \in Job
        BY <3>1, BegunIsShaped
      <4>2. IsShaped(j) /\ JobRoot(j) = RootOf(q, c) /\ j.step # "stat"
        BY <3>1, BegunIsShaped
      <4>3. j.commit = c /\ j.sel = q.sel /\ j.alone = alone /\ j.kind = q.kind /\ j.export = q.export
        BY <3>1, BegunIsShaped
      <4>4. j.prev = IF current THEN NoEntries ELSE prev
        BY <3>1, BegunIsShaped
      <4>5. j.files = NoEntries /\ Delivered(j) = IF current THEN Selected(c, q.sel) ELSE {}
        BY <3>1, BegunIsShaped
      <4>6. StillStale(j) = IF current THEN {} ELSE DOMAIN prev \ Selected(c, q.sel)
        BY <3>1, BegunIsShaped
      <4> QED
        BY <4>1, <4>2, <4>3, <4>4, <4>5, <4>6
  <2> QED
    BY <2>1 DEF r
<1> HIDE DEF j, r
<1>11. j # Idle /\ job'[d] = j
  BY <1>2, <1>10, NamesAssumption
<1>12. ASSUME NEW e \in Active
       PROVE  /\ e # d /\ job'[e] # Idle /\ job'[e] \in Job /\ IsShaped(job'[e])
              /\ JobRoot(job'[e]) = JobRoot(job[e])
              /\ job'[e].commit = job[e].commit /\ job'[e].sel = job[e].sel
              /\ job'[e].kind = job[e].kind /\ job'[e].export = job[e].export
              /\ StillStale(job'[e]) = StillStale(job[e])
              /\ job'[e].alone => job[e].alone
              /\ JobRoot(job[e]) = r => ~job'[e].alone
              /\ \A f, t : OnTrack(job[e], f, t) => OnTrack(job'[e], f, t)
  <2> DEFINE i == job[e]
             k == job'[e]
  <2>1. e \in Downloads /\ e # d /\ i \in Job /\ IsShaped(i)
    BY <1>8, ActiveJob
  <2>2. k = IF e \in On(r) THEN [i EXCEPT !.alone = FALSE] ELSE i
    BY <1>2, <2>1
  <2>3. JobRoot(i) = r => e \in On(r)
    BY DEF On
  <2> HIDE DEF i, k
  <2>4. CASE k = i
    <3>1. i.alone \in BOOLEAN
      BY <2>1 DEF Job
    <3>2. e \in On(r) => ~k.alone
      BY <2>1, <2>2 DEF Job
    <3> QED
      BY <2>1, <2>3, <2>4, <3>2, NamesAssumption DEF i, k
  <2>5. CASE k = [i EXCEPT !.alone = FALSE]
    <3>1. /\ k \in Job /\ ~k.alone /\ k.kind = i.kind /\ k.rev = i.rev /\ k.sel = i.sel
          /\ k.export = i.export /\ k.commit = i.commit /\ k.prev = i.prev
          /\ k.stale = i.stale /\ k.todo = i.todo /\ k.files = i.files /\ k.step = i.step
      BY <2>1, <2>5 DEF Job
    <3>2. JobRoot(k) = JobRoot(i) /\ StillStale(k) = StillStale(i) /\ Delivered(k) = Delivered(i)
      BY <3>1 DEF JobRoot, RootOf, StillStale, Delivered
    <3>3. IsShaped(k)
      BY <2>1, <3>1, <3>2 DEF IsShaped
    <3>4. ASSUME NEW f, NEW t, OnTrack(i, f, t) PROVE OnTrack(k, f, t)
      BY <3>1, <3>2, <3>4 DEF OnTrack
    <3> QED
      BY <2>1, <3>1, <3>2, <3>3, <3>4, NamesAssumption DEF i, k
  <2> QED
    BY <2>2, <2>4, <2>5
<1>13. Active' = Active \union {d}
  <2>1. ASSUME NEW e \in Downloads, e # d, job[e] = Idle
        PROVE  job'[e] = Idle
    BY <1>2, <2>1 DEF On, Active
  <2> QED
    BY <1>11, <1>12, <2>1 DEF Active
<1>14. TypeOK'
  <2>1. \A e \in Downloads : job'[e] \in Job \union {Idle}
    <3>1. \A e \in Downloads : job'[e] # Idle => e \in Active \union {d}
      BY <1>13 DEF Active
    <3> QED
      BY <1>10, <1>11, <1>12, <3>1
  <2>2. job' \in [Downloads -> Job \union {Idle}]
    BY <1>2, <2>1
  <2>3. started' \in 0..MaxDownloads /\ clashed' \in BOOLEAN
    BY <1>1, <1>2, ViewsAssumption DEF TypeOK, Clashes
  <2> QED
    BY <1>1, <1>2, <2>2, <2>3 DEF TypeOK
<1>15. ClockInv' /\ MetaInv'
  BY <1>2, <1>8 DEF IInv, ClockInv, MetaInv, Reliable
<1>16. JobInv'
  <2>1. ASSUME Reliable(r) PROVE OnTrack(j, disk[r], now)
    <3>1. Faithful(disk[r], now, prev)
      BY <1>1, <1>4, <2>1, NothingEntered DEF IInv, MetaInv
    <3>2. Faithful(disk[r], now, j.prev) /\ Faithful(disk[r], now, j.files)
      BY <1>10, <3>1, NothingEntered
    <3>3. \A p \in Delivered(j) : Has(disk[r], p, j.commit)
      BY <1>6, <1>10, <2>1
    <3> QED
      BY <1>10, <3>2, <3>3 DEF OnTrack
  <2>2. ASSUME NEW e \in Active, Reliable(JobRoot(job[e]))
        PROVE  OnTrack(job'[e], disk[JobRoot(job[e])], now)
    BY <1>12, <2>2 DEF IInv, JobInv
  <2> SUFFICES ASSUME NEW e \in Active \union {d}
               PROVE  /\ IsShaped(job'[e])
                      /\ Trusted(JobRoot(job'[e])) =>
                            OnTrack(job'[e], disk[JobRoot(job'[e])], now)
    BY <1>2, <1>13 DEF JobInv, Reliable
  <2> QED
    BY <1>8, <1>10, <1>11, <1>12, <2>1, <2>2
<1>17. TogetherInv'
  <2>1. ASSUME NEW e \in Active, JobRoot(job[e]) = r
        PROVE  /\ ~j.alone /\ ~job'[e].alone
               /\ Trusted(r) => job[e].commit = c /\ job[e].sel = q.sel
    <3>1. e \in On(r) /\ job[e] \in Job
      BY <2>1, ActiveJob DEF On
    <3>2. ~j.alone
      BY <1>10, <3>1 DEF alone
    <3>3. CASE q.export
      BY <1>2, <1>5, <1>12, <2>1, <3>1, <3>2, <3>3 DEF Reliable, Clashes
    <3>4. CASE ~q.export
      <4>1. job[e].commit = j.commit /\ job[e].sel = j.sel
        BY <1>10, <2>1, <3>1, <3>4, ManagedRootSays
      <4> QED
        BY <1>10, <1>12, <2>1, <3>2, <4>1
    <3> QED
      BY <3>3, <3>4
  <2> SUFFICES ASSUME NEW a \in Active \union {d}, NEW b \in Active \union {d}, a # b,
                      JobRoot(job'[a]) = JobRoot(job'[b])
               PROVE  /\ ~job'[a].alone
                      /\ Trusted(JobRoot(job'[a])) =>
                            job'[a].commit = job'[b].commit /\ job'[a].sel = job'[b].sel
    BY <1>13 DEF TogetherInv, Reliable
  <2>2. CASE a = d
    <3>1. b \in Active /\ JobRoot(job[b]) = r
      BY <1>10, <1>11, <1>12, <2>2
    <3> QED
      BY <1>10, <1>11, <1>12, <2>1, <2>2, <3>1
  <2>3. CASE b = d
    <3>1. a \in Active /\ JobRoot(job[a]) = r
      BY <1>10, <1>11, <1>12, <2>3
    <3> QED
      BY <1>10, <1>11, <1>12, <2>1, <2>3, <3>1
  <2>4. CASE a # d /\ b # d
    <3>1. a \in Active /\ b \in Active /\ JobRoot(job[a]) = JobRoot(job[b])
      BY <1>12, <2>4
    <3>2. /\ ~job[a].alone
          /\ Reliable(JobRoot(job[a])) =>
                job[a].commit = job[b].commit /\ job[a].sel = job[b].sel
      BY <3>1 DEF IInv, TogetherInv
    <3> QED
      BY <1>8, <1>12, <3>1, <3>2
  <2> QED
    BY <2>2, <2>3, <2>4
<1>18. ExportInv'
  <2> SUFFICES ASSUME LocalDir \in Roots, ~clashed
               PROVE  /\ Exports(disk[LocalDir]) \subseteq Recorded \union loose
                      /\ \A e \in Active \union {d} :
                            job'[e].kind = "snapshot" /\ job'[e].export =>
                               Exports(disk[LocalDir]) \subseteq Expects(job'[e], loose)
    BY <1>2, <1>8, <1>13 DEF ExportInv, Recorded
  <2>1. Exports(disk[LocalDir]) \subseteq Recorded \union loose
    BY DEF IInv, ExportInv
  <2>2. ASSUME NEW e \in Active, job'[e].kind = "snapshot", job'[e].export
        PROVE  Exports(disk[LocalDir]) \subseteq Expects(job'[e], loose)
    BY <1>12, <2>2 DEF IInv, ExportInv, Expects
  <2>3. ASSUME q.kind = "snapshot", q.export
        PROVE  Exports(disk[LocalDir]) \subseteq Expects(j, loose)
    <3>1. r = LocalDir
      BY <1>5, <2>3
    <3>2. Recorded \subseteq Selected(c, q.sel) \union StillStale(j)
      <4>1. CASE current
        BY <1>6, <3>1, <4>1 DEF Recorded
      <4>2. CASE ~current
        BY <1>7, <1>10, <2>3, <3>1, <4>2 DEF Recorded
      <4> QED
        BY <4>1, <4>2
    <3> QED
      BY <1>10, <2>1, <3>2 DEF Expects
  <2> QED
    BY <1>10, <1>11, <2>1, <2>2, <2>3
<1> QED
  BY <1>14, <1>15, <1>16, <1>17, <1>18 DEF IInv

-----------------------------------------------------------------------------
LEMMA InitInv == Init => IInv
<1> SUFFICES ASSUME Init PROVE IInv
  OBVIOUS
<1>1. /\ \A r \in Roots, p \in Paths : disk[r][p] = Absent
      /\ \A r \in Roots : meta[r] = NoMeta
      /\ Active = {}
  BY DEF Init, Empty, Active
<1>2. TypeOK
  <2>1. Empty \in [Paths -> File \union {Absent}]
    BY DEF Empty
  <2>2. disk \in [Roots -> [Paths -> File \union {Absent}]]
    BY <2>1 DEF Init
  <2>3. meta \in [Roots -> Meta \union {NoMeta}] /\ job \in [Downloads -> Job \union {Idle}]
    BY DEF Init
  <2>4. now \in 0..MaxTime /\ started \in 0..MaxDownloads /\ upsets \in 0..MaxUpsets
    BY ViewsAssumption DEF Init
  <2> QED
    BY <2>2, <2>3, <2>4 DEF Init, TypeOK
<1>3. ClockInv /\ MetaInv /\ JobInv /\ TogetherInv
  BY <1>1 DEF ClockInv, MetaInv, JobInv, TogetherInv
<1>4. ExportInv
  BY <1>1 DEF ExportInv, Exports
<1> QED
  BY <1>2, <1>3, <1>4 DEF IInv

LEMMA NextInv == IInv /\ [Next]_vars => IInv'
<1> SUFFICES ASSUME IInv, [Next]_vars PROVE IInv'
  OBVIOUS
<1>1. ASSUME NEW d \in Downloads, DownloadStep(d) PROVE IInv'
  BY <1>1, DownloadKeeps, DropStaleKeeps, LookKeeps, UnlinkKeeps, WriteKeeps, StatKeeps,
     RecordKeeps, EndKeeps DEF DownloadStep
<1>2. ASSUME UNCHANGED vars PROVE IInv'
  <2>1. TypeOK' /\ ClockInv' /\ MetaInv'
    BY <1>2 DEF vars, IInv, TypeOK, ClockInv, MetaInv, Reliable
  <2>2. JobInv' /\ TogetherInv' /\ ExportInv'
    BY <1>2 DEF vars, IInv, JobInv, TogetherInv, ExportInv, Recorded, Active, Reliable
  <2> QED
    BY <2>1, <2>2 DEF IInv
<1> QED
  BY <1>1, <1>2, UserStepKeeps, CommitKeeps, PruneCacheKeeps DEF Next

LEMMA InvHolds == Spec => []IInv
  BY InitInv, NextInv, PTL DEF Spec

-----------------------------------------------------------------------------
\* Type correctness: every step of a download, a user, a writer or a gc leaves
\* the views, their metadata and the running downloads what TypeOK says.
THEOREM TypeCorrect == Spec => []TypeOK
<1>1. IInv => TypeOK
  BY DEF IInv
<1> QED
  BY <1>1, InvHolds, PTL

\* _snapshot_view_is_current and _managed_file_view_is_current: view metadata
\* whose sizes and times are those found on disk describes every selected file
\* of its commit, with the commit's bytes, so that a root taken for current is.
THEOREM ViewsAreFaithful == Spec => []CurrentIsFaithful
<1>1. IInv => CurrentIsFaithful
  <2> SUFFICES ASSUME IInv, NEW r \in Roots, Reliable(r), meta[r] # NoMeta
               PROVE  LET m == meta[r] IN
                      /\ DOMAIN m.files = Selected(m.commit, m.sel)
                      /\ \A p \in DOMAIN m.files :
                             Matches(r, p, m.files[p]) => Holds(r, p, m.commit)
                      /\ (\A p \in DOMAIN m.files : Matches(r, p, m.files[p]))
                            => r \notin StaleViews
    BY DEF CurrentIsFaithful
  <2> DEFINE m == meta[r]
             f == disk[r]
  <2>1. /\ DOMAIN m.files = Selected(m.commit, m.sel)
        /\ IsOf(m.files, m.commit) /\ Faithful(f, now, m.files)
    BY DEF IInv, MetaInv
  <2>2. ASSUME NEW p \in DOMAIN m.files, Matches(r, p, m.files[p])
        PROVE  IsFile(r, p) /\ f[p].content = m.files[p].content /\ Holds(r, p, m.commit)
    <3>1. f[p] # Absent /\ f[p].mtime = m.files[p].mtime
      BY <2>2 DEF Matches, IsFile
    <3>2. f[p].content = m.files[p].content /\ m.files[p].content = TreeOf[m.commit][p]
      <4> HIDE DEF m, f
      <4> QED
        BY <2>1, <3>1 DEF Faithful, IsOf
    <3> QED
      BY <3>1, <3>2 DEF IsFile, Holds
  <2> QED
    BY <2>1, <2>2 DEF StaleViews
<1> QED
  BY <1>1, InvHolds, PTL

\* _ensure_detached_view: what a download returns holds the selected files of the
\* commit it resolved; with others at work on the same root a file may be gone,
\* and none has other bytes.
THEOREM DownloadsDeliver == Spec => []ReturnsSnapshot
<1>1. IInv => ReturnsSnapshot
  <2> SUFFICES ASSUME IInv, NEW d \in Active, job[d].step = "returned",
                      Reliable(JobRoot(job[d])),
                      NEW p \in Selected(job[d].commit, job[d].sel)
               PROVE  \/ Holds(JobRoot(job[d]), p, job[d].commit)
                      \/ ~job[d].alone /\ ~IsFile(JobRoot(job[d]), p)
    BY DEF ReturnsSnapshot
  <2>1. OnTrack(job[d], disk[JobRoot(job[d])], now) /\ p \in Delivered(job[d])
    BY DEF IInv, JobInv, Delivered
  <2>2. \/ Has(disk[JobRoot(job[d])], p, job[d].commit)
        \/ ~job[d].alone /\ disk[JobRoot(job[d])][p] = Absent
    BY <2>1 DEF OnTrack
  <2> QED
    BY <2>2 DEF Has, Holds, IsFile
<1> QED
  BY <1>1, InvHolds, PTL

\* The sync of snapshot_download(local_dir): past the removal of stale files, no
\* file of an older snapshot is left in the directory but the ones selected and
\* the ones no metadata ever listed.
THEOREM ExportsAreExact == Spec => []ExportIsExact
<1>1. IInv => ExportIsExact
  <2> SUFFICES ASSUME IInv, NEW d \in Active, job[d].step # "stale",
                      job[d].kind = "snapshot", job[d].export, ~clashed
               PROVE  Exports(disk[LocalDir])
                          \subseteq Selected(job[d].commit, job[d].sel) \union loose
    BY DEF ExportIsExact, Exports, IsFile
  <2>1. LocalDir \in Roots
    BY ActiveJob, RootIsLocal
  <2> QED
    BY <2>1 DEF IInv, ExportInv, Expects, StillStale
<1> QED
  BY <1>1, InvHolds, PTL

-----------------------------------------------------------------------------
(* The remote client *)

(* With the revisions at at, and the cached snapshots shots. *)
FileCallOK(c, at) ==
    /\ c.step = "fetch" /\ ~c.moved => TreeOf[at[c.rev]][c.path] = c.etag
    /\ c.step \in {"open", "close"} => c.body \in Contents /\ (c.body = c.etag \/ c.moved)

ShotCallOK(c, at, shots) ==
    /\ c.step \in {"list", "infos"} /\ ~c.moved => at[c.rev] = c.head
    /\ c.step # "list" /\ ~c.moved => c.plan = Files(c.head) \intersect c.sel
    /\ c.step \in {"fetch", "open", "close"} =>
          \A p \in c.plan \ c.todo : shots[c.head][p] # Absent
    /\ c.step = "returned" => \A p \in c.plan : shots[c.head][p] # Absent
    /\ c.step \in {"open", "close"} => c.path \in Paths /\ TreeOf[c.head][c.path] # Absent

CallsOK ==
    \A x \in Clients :
        /\ call[x] \in FileCall => FileCallOK(call[x], heads)
        /\ call[x] \in ShotCall => ShotCallOK(call[x], heads, snapshots)

RemoteInv ==
    /\ RemoteTypeOK
    /\ CallsOK
    /\ SnapshotsHoldTheirCommit
    /\ FilesMatchTheirEtag

AllVars == <<heads, remoteVars>>

-----------------------------------------------------------------------------
(* The kind of a call tells what it is. *)
LEMMA CallKinds ==
  ASSUME RemoteTypeOK, NEW x \in Clients, call[x] # NotAsked
  PROVE  /\ call[x].kind = "file" => call[x] \in FileCall
         /\ call[x].kind = "snapshot" => call[x] \in ShotCall
         /\ call[x] \in FileCall => call[x].kind = "file"
         /\ call[x] \in ShotCall => call[x].kind = "snapshot"
BY DEF RemoteTypeOK, FileCall, ShotCall

LEMMA Distinct ==
  /\ \A c \in FileCall : c \notin ShotCall
  /\ \A c \in ShotCall : c \notin FileCall
  /\ NotAsked \notin FileCall /\ NotAsked \notin ShotCall
  /\ \A s \in FileSlot : s \notin ShotSlot
<1>1. \A c \in FileCall : c \notin ShotCall
  BY DEF FileCall, ShotCall
<1>2. \A s \in FileSlot : s \notin ShotSlot
  BY DEF FileSlot, ShotSlot
<1> QED  BY <1>1, <1>2, RemoteAssumption

(* A snapshot file is never removed: a step that only fills files keeps    *)
(* what the calls that do not move know.                                   *)
LEMMA OtherCalls ==
  ASSUME RemoteTypeOK, CallsOK, NEW x \in Clients,
         \A y \in Clients : y # x => call'[y] = call[y],
         heads' = heads,
         \A c \in Commits, p \in Paths :
            snapshots[c][p] # Absent => snapshots'[c][p] # Absent,
         call'[x] \in FileCall => FileCallOK(call'[x], heads),
         call'[x] \in ShotCall => ShotCallOK(call'[x], heads, snapshots')
  PROVE  CallsOK'
<1> SUFFICES ASSUME NEW y \in Clients
             PROVE  /\ call'[y] \in FileCall => FileCallOK(call'[y], heads)
                    /\ call'[y] \in ShotCall => ShotCallOK(call'[y], heads, snapshots')
  BY DEF CallsOK
<1>1. CASE y = x
  BY <1>1
<1>2. CASE y # x
  <2>1. call'[y] = call[y]
    BY <1>2
  <2>2. call[y] \in FileCall => FileCallOK(call[y], heads)
    BY DEF CallsOK
  <2>3. ASSUME call[y] \in ShotCall
        PROVE  ShotCallOK(call[y], heads, snapshots')
    <3> DEFINE c == call[y]
    <3>1. c.head \in Commits /\ c.plan \subseteq Paths
      BY <2>3 DEF ShotCall
    <3>2. ShotCallOK(c, heads, snapshots)
      BY <2>3 DEF CallsOK
    <3>3. \A p \in c.plan : snapshots[c.head][p] # Absent => snapshots'[c.head][p] # Absent
      BY <3>1
    <3> QED  BY <3>2, <3>3 DEF ShotCallOK
  <2> QED  BY <2>1, <2>2, <2>3
<1> QED  BY <1>1, <1>2

-----------------------------------------------------------------------------
(* Types *)

(* One call becomes v. *)
LEMMA CallType ==
  ASSUME RemoteTypeOK, NEW x \in Clients, NEW v \in FileCall \union ShotCall \union {NotAsked},
         call' = [call EXCEPT ![x] = v]
  PROVE  call' \in [Clients -> FileCall \union ShotCall \union {NotAsked}]
BY DEF RemoteTypeOK

LEMMA FilesType ==
  ASSUME RemoteTypeOK, NEW rev \in Revisions, NEW p \in Paths
  PROVE  /\ heads[rev] \in Commits
         /\ TreeOf[heads[rev]][p] \in Contents \union {Absent}
         /\ Files(heads[rev]) \subseteq Paths
BY PublishedAssumption DEF RemoteTypeOK, Files

LEMMA FileSteps ==
  ASSUME RemoteTypeOK, NEW x \in Clients, NEW step, Calls(x, "file", step)
  PROVE  /\ call[x] \in FileCall /\ call[x] \notin ShotCall
         /\ call[x].rev \in Revisions /\ call[x].path \in Paths /\ call[x].etag \in Contents
         /\ call[x].body \in Contents \union {Absent} /\ call[x].step = step
         /\ \A body \in Contents, next \in {"fetch", "open", "close", "returned"} :
               /\ [call[x] EXCEPT !.step = next] \in FileCall
               /\ [call[x] EXCEPT !.body = body, !.step = next] \in FileCall
<1>1. call[x] \in FileCall /\ call[x].step = step
  BY CallKinds DEF Calls
<1>2. call[x] \notin ShotCall
  BY <1>1, Distinct
<1> QED  BY <1>1, <1>2 DEF FileCall

LEMMA ShotSteps ==
  ASSUME RemoteTypeOK, NEW x \in Clients, NEW step, Calls(x, "snapshot", step)
  PROVE  /\ call[x] \in ShotCall /\ call[x] \notin FileCall
         /\ call[x].rev \in Revisions /\ call[x].sel \subseteq Paths
         /\ call[x].head \in Commits /\ call[x].plan \subseteq Paths
         /\ call[x].todo \subseteq Paths /\ call[x].step = step
         /\ call[x].path \in Paths \union {Absent}
<1>1. call[x] \in ShotCall /\ call[x].step = step
  BY CallKinds DEF Calls
<1>2. call[x] \notin FileCall
  BY <1>1, Distinct
<1> QED  BY <1>1, <1>2 DEF ShotCall

ShotStep == {"list", "infos", "fetch", "open", "close", "returned"}

LEMMA ShotUpdates ==
  ASSUME RemoteTypeOK, NEW x \in Clients, NEW step, Calls(x, "snapshot", step),
         NEW next \in ShotStep
  PROVE  /\ [call[x] EXCEPT !.step = next] \in ShotCall
         /\ \A plan \in SUBSET Paths : [call[x] EXCEPT !.plan = plan, !.step = next] \in ShotCall
         /\ \A plan, todo \in SUBSET Paths :
               [call[x] EXCEPT !.plan = plan, !.todo = todo, !.step = next] \in ShotCall
         /\ \A todo \in SUBSET Paths : [call[x] EXCEPT !.todo = todo, !.step = next] \in ShotCall
         /\ \A p \in Paths : [call[x] EXCEPT !.path = p, !.step = next] \in ShotCall
<1>0. call[x] \in ShotCall
  BY ShotSteps
<1>1. [call[x] EXCEPT !.step = next] \in ShotCall
  BY <1>0 DEF ShotCall, ShotStep
<1>2. ASSUME NEW plan \in SUBSET Paths
      PROVE  [call[x] EXCEPT !.plan = plan, !.step = next] \in ShotCall
  BY <1>0 DEF ShotCall, ShotStep
<1>3. ASSUME NEW plan \in SUBSET Paths, NEW todo \in SUBSET Paths
      PROVE  [call[x] EXCEPT !.plan = plan, !.todo = todo, !.step = next] \in ShotCall
  BY <1>0 DEF ShotCall, ShotStep
<1>4. ASSUME NEW todo \in SUBSET Paths
      PROVE  [call[x] EXCEPT !.todo = todo, !.step = next] \in ShotCall
  BY <1>0 DEF ShotCall, ShotStep
<1>5. ASSUME NEW p \in Paths
      PROVE  [call[x] EXCEPT !.path = p, !.step = next] \in ShotCall
  BY <1>0 DEF ShotCall, ShotStep
<1> QED  BY <1>1, <1>2, <1>3, <1>4, <1>5

LEMMA TypesKept == RemoteInv /\ [RemoteNext]_AllVars => RemoteTypeOK'
<1> SUFFICES ASSUME RemoteInv, [RemoteNext]_AllVars
             PROVE  RemoteTypeOK'
  OBVIOUS
<1> USE RemoteAssumption, PublishedAssumption DEF RemoteInv
<1>1. CASE UNCHANGED AllVars
  BY <1>1 DEF AllVars, remoteVars, RemoteTypeOK
<1>2. ASSUME NEW x \in Clients, NEW rev \in Revisions, NEW p \in Paths, AskFile(x, rev, p)
      PROVE  RemoteTypeOK'
  <2> DEFINE etag == EtagOf(rev, p)
             v == [kind |-> "file", rev |-> rev, path |-> p, etag |-> etag, body |-> Absent,
                   moved |-> FALSE,
                   step |-> IF downloads[etag][p] # Absent THEN "returned" ELSE "fetch"]
  <2>1. etag \in Contents
    BY <1>2, FilesType DEF AskFile, EtagOf, Resolve
  <2>2. v \in FileCall
    BY <2>1 DEF FileCall
  <2>3. call' = [call EXCEPT ![x] = v]
    BY <1>2 DEF AskFile
  <2> HIDE DEF v
  <2>4. call' \in [Clients -> FileCall \union ShotCall \union {NotAsked}]
    BY <2>2, <2>3, CallType
  <2> QED  BY <1>2, <2>4 DEF AskFile, Counted, RemoteTypeOK
<1>3. ASSUME NEW x \in Clients, FetchFile(x)
      PROVE  RemoteTypeOK'
  <2>1. Calls(x, "file", "fetch") /\ TreeOf[heads[call[x].rev]][call[x].path] # Absent
    BY <1>3 DEF FetchFile, Resolve
  <2>2. TreeOf[heads[call[x].rev]][call[x].path] \in Contents
    BY <2>1, FileSteps, FilesType
  <2> DEFINE v == [call[x] EXCEPT !.body = TreeOf[heads[call[x].rev]][call[x].path], !.step = "open"]
  <2>3. v \in FileCall
    BY <2>1, <2>2, FileSteps
  <2>4. call' = [call EXCEPT ![x] = v]
    BY <1>3 DEF FetchFile, Resolve
  <2> HIDE DEF v
  <2>5. call' \in [Clients -> FileCall \union ShotCall \union {NotAsked}]
    BY <2>3, <2>4, CallType
  <2> QED  BY <1>3, <2>5 DEF FetchFile, RemoteTypeOK
<1>4. ASSUME NEW x \in Clients, OpenFile(x)
      PROVE  RemoteTypeOK'
  <2>1. Calls(x, "file", "open")
    BY <1>4 DEF OpenFile
  <2> DEFINE v == [call[x] EXCEPT !.step = "close"]
  <2>2. v \in FileCall
    BY <2>1, FileSteps
  <2>3. call' = [call EXCEPT ![x] = v]
    BY <1>4 DEF OpenFile
  <2> HIDE DEF v
  <2>4. call' \in [Clients -> FileCall \union ShotCall \union {NotAsked}]
    BY <2>2, <2>3, CallType
  <2>5. downloads' \in [Contents -> [Paths -> OnClient]]
    BY <1>4 DEF OpenFile, OnClient, RemoteTypeOK
  <2> QED  BY <1>4, <2>4, <2>5 DEF OpenFile, RemoteTypeOK
<1>5. ASSUME NEW x \in Clients, CloseFile(x)
      PROVE  RemoteTypeOK'
  <2>1. Calls(x, "file", "close")
    BY <1>5 DEF CloseFile
  <2> DEFINE v == [call[x] EXCEPT !.step = "returned"]
  <2>2. v \in FileCall
    BY <2>1, FileSteps
  <2>3. call' = [call EXCEPT ![x] = v]
    BY <1>5 DEF CloseFile
  <2> HIDE DEF v
  <2>4. call' \in [Clients -> FileCall \union ShotCall \union {NotAsked}]
    BY <2>2, <2>3, CallType
  <2>5. call[x].body \in OnClient /\ [etag |-> call[x].etag, path |-> call[x].path] \in Slot
    BY <2>1, FileSteps DEF OnClient, Slot, FileSlot
  <2>6. downloads' \in [Contents -> [Paths -> OnClient]]
    BY <1>5, <2>5 DEF CloseFile, RemoteTypeOK
  <2> QED  BY <1>5, <2>4, <2>5, <2>6 DEF CloseFile, RemoteTypeOK
<1>6. ASSUME NEW x \in Clients, NEW rev \in Revisions, NEW sel \in RemoteSelections,
             AskSnapshot(x, rev, sel)
      PROVE  RemoteTypeOK'
  <2> DEFINE v == [kind |-> "snapshot", rev |-> rev, sel |-> sel, head |-> Resolve(rev),
                   plan |-> {}, todo |-> {}, step |-> "list", path |-> Absent, moved |-> FALSE]
  <2>1. Resolve(rev) \in Commits
    BY DEF Resolve, RemoteTypeOK
  <2>2. v \in ShotCall
    BY <2>1 DEF ShotCall
  <2>3. call' = [call EXCEPT ![x] = v]
    BY <1>6 DEF AskSnapshot
  <2> HIDE DEF v
  <2>4. call' \in [Clients -> FileCall \union ShotCall \union {NotAsked}]
    BY <2>2, <2>3, CallType
  <2> QED  BY <1>6, <2>4 DEF AskSnapshot, Counted, RemoteTypeOK
<1>7. ASSUME NEW x \in Clients, ListFiles(x)
      PROVE  RemoteTypeOK'
  <2>1. Calls(x, "snapshot", "list")
    BY <1>7 DEF ListFiles
  <2> DEFINE plan == Files(Resolve(call[x].rev)) \intersect call[x].sel
             v == [call[x] EXCEPT !.plan = plan, !.step = "infos"]
  <2>2. plan \in SUBSET Paths
    BY <2>1, ShotSteps
  <2> HIDE DEF plan
  <2>3. v \in ShotCall
    BY <2>1, <2>2, ShotUpdates DEF ShotStep
  <2>4. call' = [call EXCEPT ![x] = v]
    BY <1>7 DEF ListFiles, plan
  <2> HIDE DEF v
  <2>5. call' \in [Clients -> FileCall \union ShotCall \union {NotAsked}]
    BY <2>3, <2>4, CallType
  <2> QED  BY <1>7, <2>5 DEF ListFiles, RemoteTypeOK
<1>8. ASSUME NEW x \in Clients, PlanSnapshot(x)
      PROVE  RemoteTypeOK'
  <2>1. Calls(x, "snapshot", "infos")
    BY <1>8 DEF PlanSnapshot
  <2> DEFINE plan == call[x].plan \intersect Files(Resolve(call[x].rev))
             next == IF Missing(call[x].head, plan) = {} THEN "returned" ELSE "fetch"
             v == [call[x] EXCEPT !.plan = plan, !.todo = plan, !.step = next]
  <2>2. plan \in SUBSET Paths /\ next \in {"returned", "fetch"}
    BY <2>1, ShotSteps
  <2>3. call' = [call EXCEPT ![x] = v]
    BY <1>8 DEF PlanSnapshot
  <2> HIDE DEF plan, next
  <2>4. v \in ShotCall
    BY <2>1, <2>2, ShotUpdates DEF ShotStep
  <2> HIDE DEF v
  <2>5. call' \in [Clients -> FileCall \union ShotCall \union {NotAsked}]
    BY <2>3, <2>4, CallType
  <2> QED  BY <1>8, <2>5 DEF PlanSnapshot, RemoteTypeOK
<1>9. ASSUME NEW x \in Clients, NEW p \in Paths, FetchOne(x, p)
      PROVE  RemoteTypeOK'
  <2>1. Calls(x, "snapshot", "fetch")
    BY <1>9 DEF FetchOne
  <2>2. PICK v \in ShotCall : call' = [call EXCEPT ![x] = v]
    <3>1. CASE snapshots[call[x].head][p] # Absent
      <4> DEFINE todo == call[x].todo \ {p}
                 next == IF call[x].todo = {p} THEN "returned" ELSE "fetch"
      <4>1. todo \in SUBSET Paths /\ next \in {"returned", "fetch"}
        BY <2>1, ShotSteps
      <4>2. call' = [call EXCEPT ![x] = [call[x] EXCEPT !.todo = todo, !.step = next]]
        BY <1>9, <3>1 DEF FetchOne
      <4> HIDE DEF todo, next
      <4> QED  BY <2>1, <4>1, <4>2, ShotUpdates DEF ShotStep
    <3>2. CASE snapshots[call[x].head][p] = Absent
      <4>1. call' = [call EXCEPT ![x] = [call[x] EXCEPT !.path = p, !.step = "open"]]
        BY <1>9, <3>2 DEF FetchOne
      <4> QED  BY <2>1, <4>1, ShotUpdates DEF ShotStep
    <3> QED  BY <3>1, <3>2
  <2>3. call' \in [Clients -> FileCall \union ShotCall \union {NotAsked}]
    BY <2>2, CallType
  <2> QED  BY <1>9, <2>3 DEF FetchOne, RemoteTypeOK
<1>10. ASSUME NEW x \in Clients, OpenOne(x)
       PROVE  RemoteTypeOK'
  <2>1. Calls(x, "snapshot", "open")
    BY <1>10 DEF OpenOne
  <2> DEFINE v == [call[x] EXCEPT !.step = "close"]
  <2>2. v \in ShotCall
    BY <2>1, ShotUpdates DEF ShotStep
  <2>3. call' = [call EXCEPT ![x] = v]
    BY <1>10 DEF OpenOne
  <2> HIDE DEF v
  <2>4. call' \in [Clients -> FileCall \union ShotCall \union {NotAsked}]
    BY <2>2, <2>3, CallType
  <2>5. snapshots' \in [Commits -> [Paths -> OnClient]]
    BY <1>10 DEF OpenOne, OnClient, RemoteTypeOK
  <2> QED  BY <1>10, <2>4, <2>5 DEF OpenOne, RemoteTypeOK
<1>11. ASSUME NEW x \in Clients, CloseOne(x)
       PROVE  RemoteTypeOK'
  <2>1. Calls(x, "snapshot", "close")
    BY <1>11 DEF CloseOne
  <2> DEFINE todo == call[x].todo \ {call[x].path}
             next == IF call[x].todo = {call[x].path} THEN "returned" ELSE "fetch"
             v == [call[x] EXCEPT !.todo = todo, !.step = next]
  <2>2. todo \in SUBSET Paths /\ next \in {"returned", "fetch"}
    BY <2>1, ShotSteps
  <2>3. call' = [call EXCEPT ![x] = v]
    BY <1>11 DEF CloseOne
  <2> HIDE DEF todo, next
  <2>4. v \in ShotCall
    BY <2>1, <2>2, ShotUpdates DEF ShotStep
  <2> HIDE DEF v
  <2>5. call' \in [Clients -> FileCall \union ShotCall \union {NotAsked}]
    BY <2>3, <2>4, CallType
  <2>6. call[x].head \in Commits /\ call[x].path \in Paths
    BY <2>1, ShotSteps DEF CallsOK, ShotCallOK
  <2>7. Served(call[x], call[x].path) \in OnClient
    BY <2>6 DEF Served, OnClient
  <2>8. snapshots' \in [Commits -> [Paths -> OnClient]]
    BY <1>11, <2>7 DEF CloseOne, RemoteTypeOK
  <2> QED  BY <1>11, <2>5, <2>8 DEF CloseOne, RemoteTypeOK
<1>12. ASSUME NEW x \in Clients, Hangup(x)
       PROVE  RemoteTypeOK'
  <2>1. Open(x) \subseteq Slot
    <3>1. Calls(x, "snapshot", "close") => call[x].path \in Paths /\ call[x].head \in Commits
      BY ShotSteps DEF CallsOK, ShotCallOK
    <3>2. Calls(x, "file", "close") => call[x].path \in Paths /\ call[x].etag \in Contents
      BY FileSteps
    <3> QED  BY <3>1, <3>2 DEF Open, Slot, FileSlot, ShotSlot
  <2> QED  BY <1>12, <2>1 DEF Hangup, RemoteTypeOK
<1>13. ASSUME NEW rev \in Revisions, NEW c \in Commits, Publish(rev, c)
       PROVE  RemoteTypeOK'
  <2>1. heads' \in [Revisions -> Commits]
    BY <1>13 DEF Publish, MoveRevision, RemoteTypeOK
  <2>2. ASSUME NEW x \in Clients
        PROVE  call'[x] \in FileCall \union ShotCall \union {NotAsked}
    <3>1. call'[x] = call[x] \/ (call[x] # NotAsked /\ call'[x] = [call[x] EXCEPT !.moved = TRUE])
      BY <1>13 DEF Publish
    <3>2. call[x] \in FileCall => [call[x] EXCEPT !.moved = TRUE] \in FileCall
      BY DEF FileCall
    <3>3. call[x] \in ShotCall => [call[x] EXCEPT !.moved = TRUE] \in ShotCall
      BY DEF ShotCall
    <3> QED  BY <3>1, <3>2, <3>3 DEF RemoteTypeOK
  <2>3. call' \in [Clients -> FileCall \union ShotCall \union {NotAsked}]
    BY <1>13, <2>2 DEF Publish
  <2> QED  BY <1>13, <2>1, <2>3 DEF Publish, RemoteTypeOK
<1> QED  BY <1>1, <1>2, <1>3, <1>4, <1>5, <1>6, <1>7, <1>8, <1>9, <1>10, <1>11, <1>12, <1>13
         DEF RemoteNext

-----------------------------------------------------------------------------
(* What the calls know *)

LEMMA OneCall ==
  ASSUME RemoteTypeOK, CallsOK, NEW x \in Clients, NEW v,
         call' = [call EXCEPT ![x] = v], heads' = heads,
         \A c \in Commits, p \in Paths :
            snapshots[c][p] # Absent => snapshots'[c][p] # Absent,
         v \in FileCall => FileCallOK(v, heads),
         v \in ShotCall => ShotCallOK(v, heads, snapshots')
  PROVE  CallsOK'
<1>1. call'[x] = v /\ \A y \in Clients : y # x => call'[y] = call[y]
  BY DEF RemoteTypeOK
<1> QED  BY <1>1, OtherCalls

LEMMA CallsKept == RemoteInv /\ [RemoteNext]_AllVars => CallsOK'
<1> SUFFICES ASSUME RemoteInv, [RemoteNext]_AllVars
             PROVE  CallsOK'
  OBVIOUS
<1> USE RemoteAssumption, PublishedAssumption DEF RemoteInv
<1>1. CASE UNCHANGED AllVars
  BY <1>1 DEF AllVars, remoteVars, CallsOK, FileCallOK, ShotCallOK
<1>2. ASSUME NEW x \in Clients, NEW rev \in Revisions, NEW p \in Paths, AskFile(x, rev, p)
      PROVE  CallsOK'
  <2> DEFINE etag == EtagOf(rev, p)
             v == [kind |-> "file", rev |-> rev, path |-> p, etag |-> etag, body |-> Absent,
                   moved |-> FALSE,
                   step |-> IF downloads[etag][p] # Absent THEN "returned" ELSE "fetch"]
  <2>1. FileCallOK(v, heads)
    BY DEF FileCallOK, EtagOf, Resolve
  <2>2. v \notin ShotCall
    BY DEF ShotCall
  <2>3. call' = [call EXCEPT ![x] = v] /\ heads' = heads /\ snapshots' = snapshots
    BY <1>2 DEF AskFile
  <2> HIDE DEF v
  <2> QED  BY <2>1, <2>2, <2>3, OneCall
<1>3. ASSUME NEW x \in Clients, FetchFile(x)
      PROVE  CallsOK'
  <2> DEFINE body == TreeOf[heads[call[x].rev]][call[x].path]
             v == [call[x] EXCEPT !.body = body, !.step = "open"]
  <2>1. Calls(x, "file", "fetch") /\ body # Absent
    BY <1>3 DEF FetchFile, Resolve
  <2>2. call[x] \in FileCall /\ call[x].step = "fetch" /\ body \in Contents
    BY <2>1, FileSteps, FilesType
  <2>3. FileCallOK(call[x], heads)
    BY <2>2 DEF CallsOK
  <2>4. FileCallOK(v, heads)
    BY <2>2, <2>3 DEF FileCallOK, FileCall
  <2>5. v \notin ShotCall
    BY <2>2 DEF FileCall, ShotCall
  <2>6. call' = [call EXCEPT ![x] = v] /\ heads' = heads /\ snapshots' = snapshots
    BY <1>3 DEF FetchFile, Resolve
  <2> HIDE DEF v
  <2> QED  BY <2>4, <2>5, <2>6, OneCall
<1>4. ASSUME NEW x \in Clients, OpenFile(x)
      PROVE  CallsOK'
  <2> DEFINE v == [call[x] EXCEPT !.step = "close"]
  <2>1. Calls(x, "file", "open")
    BY <1>4 DEF OpenFile
  <2>2. call[x] \in FileCall /\ call[x].step = "open"
    BY <2>1, FileSteps
  <2>3. FileCallOK(call[x], heads)
    BY <2>2 DEF CallsOK
  <2>4. FileCallOK(v, heads)
    BY <2>2, <2>3 DEF FileCallOK, FileCall
  <2>5. v \notin ShotCall
    BY <2>1, FileSteps, Distinct
  <2>6. call' = [call EXCEPT ![x] = v] /\ heads' = heads /\ snapshots' = snapshots
    BY <1>4 DEF OpenFile
  <2> HIDE DEF v
  <2> QED  BY <2>4, <2>5, <2>6, OneCall
<1>5. ASSUME NEW x \in Clients, CloseFile(x)
      PROVE  CallsOK'
  <2> DEFINE v == [call[x] EXCEPT !.step = "returned"]
  <2>1. Calls(x, "file", "close")
    BY <1>5 DEF CloseFile
  <2>2. call[x] \in FileCall
    BY <2>1, FileSteps
  <2>3. FileCallOK(v, heads)
    BY <2>2 DEF FileCallOK, FileCall
  <2>4. v \notin ShotCall
    BY <2>1, FileSteps, Distinct
  <2>5. call' = [call EXCEPT ![x] = v] /\ heads' = heads /\ snapshots' = snapshots
    BY <1>5 DEF CloseFile
  <2> HIDE DEF v
  <2> QED  BY <2>3, <2>4, <2>5, OneCall
<1>6. ASSUME NEW x \in Clients, NEW rev \in Revisions, NEW sel \in RemoteSelections,
             AskSnapshot(x, rev, sel)
      PROVE  CallsOK'
  <2> DEFINE v == [kind |-> "snapshot", rev |-> rev, sel |-> sel, head |-> Resolve(rev),
                   plan |-> {}, todo |-> {}, step |-> "list", path |-> Absent, moved |-> FALSE]
  <2>1. ShotCallOK(v, heads, snapshots)
    BY DEF ShotCallOK, Resolve
  <2>2. v \notin FileCall
    BY DEF FileCall
  <2>3. call' = [call EXCEPT ![x] = v] /\ heads' = heads /\ snapshots' = snapshots
    BY <1>6 DEF AskSnapshot
  <2> HIDE DEF v
  <2> QED  BY <2>1, <2>2, <2>3, OneCall
<1>7. ASSUME NEW x \in Clients, ListFiles(x)
      PROVE  CallsOK'
  <2> DEFINE plan == Files(Resolve(call[x].rev)) \intersect call[x].sel
             v == [call[x] EXCEPT !.plan = plan, !.step = "infos"]
  <2>1. Calls(x, "snapshot", "list")
    BY <1>7 DEF ListFiles
  <2>2. call[x] \in ShotCall /\ call[x].step = "list"
    BY <2>1, ShotSteps
  <2>3. ShotCallOK(call[x], heads, snapshots)
    BY <2>2 DEF CallsOK
  <2>4. /\ v.step = "infos" /\ v.plan = plan /\ v.rev = call[x].rev /\ v.head = call[x].head
        /\ v.sel = call[x].sel /\ v.moved = call[x].moved
    BY <2>2 DEF ShotCall
  <2>5. ShotCallOK(v, heads, snapshots)
    BY <2>2, <2>3, <2>4 DEF ShotCallOK, Resolve
  <2>6. v \notin FileCall
    BY <2>2 DEF FileCall, ShotCall
  <2>7. call' = [call EXCEPT ![x] = v] /\ heads' = heads /\ snapshots' = snapshots
    BY <1>7 DEF ListFiles
  <2> HIDE DEF v
  <2> QED  BY <2>5, <2>6, <2>7, OneCall
<1>8. ASSUME NEW x \in Clients, PlanSnapshot(x)
      PROVE  CallsOK'
  <2> DEFINE plan == call[x].plan \intersect Files(Resolve(call[x].rev))
             next == IF Missing(call[x].head, plan) = {} THEN "returned" ELSE "fetch"
             v == [call[x] EXCEPT !.plan = plan, !.todo = plan, !.step = next]
  <2>1. Calls(x, "snapshot", "infos")
    BY <1>8 DEF PlanSnapshot
  <2>2. call[x] \in ShotCall /\ call[x].step = "infos" /\ plan \subseteq Paths
    BY <2>1, ShotSteps
  <2>3. ShotCallOK(call[x], heads, snapshots)
    BY <2>2 DEF CallsOK
  <2>4. /\ v.step = next /\ v.plan = plan /\ v.todo = plan /\ v.rev = call[x].rev
        /\ v.head = call[x].head /\ v.sel = call[x].sel /\ v.moved = call[x].moved
    BY <2>2 DEF ShotCall
  <2>5. ~call[x].moved => plan = Files(call[x].head) \intersect call[x].sel
    BY <2>2, <2>3 DEF ShotCallOK, Resolve
  <2>6. next = "returned" => \A p \in plan : snapshots[call[x].head][p] # Absent
    BY <2>2 DEF Missing
  <2>7. next \in {"returned", "fetch"}
    OBVIOUS
  <2>8. ShotCallOK(v, heads, snapshots)
    <3> HIDE DEF v, next, plan
    <3> QED  BY <2>4, <2>5, <2>6, <2>7 DEF ShotCallOK
  <2>9. v \notin FileCall
    BY <2>2 DEF FileCall, ShotCall
  <2>10. call' = [call EXCEPT ![x] = v] /\ heads' = heads /\ snapshots' = snapshots
    BY <1>8 DEF PlanSnapshot
  <2> HIDE DEF v
  <2> QED  BY <2>8, <2>9, <2>10, OneCall
<1>9. ASSUME NEW x \in Clients, NEW p \in Paths, FetchOne(x, p)
      PROVE  CallsOK'
  <2>1. /\ Calls(x, "snapshot", "fetch") /\ p \in call[x].todo
        /\ heads' = heads /\ snapshots' = snapshots
    BY <1>9 DEF FetchOne
  <2>2. call[x] \in ShotCall /\ call[x].step = "fetch"
    BY <2>1, ShotSteps
  <2>3. ShotCallOK(call[x], heads, snapshots)
    BY <2>2 DEF CallsOK
  <2>4. CASE snapshots[call[x].head][p] # Absent
    <3> DEFINE todo == call[x].todo \ {p}
               next == IF call[x].todo = {p} THEN "returned" ELSE "fetch"
               v == [call[x] EXCEPT !.todo = todo, !.step = next]
    <3>1. /\ v.step = next /\ v.plan = call[x].plan /\ v.todo = todo /\ v.rev = call[x].rev
          /\ v.head = call[x].head /\ v.sel = call[x].sel /\ v.moved = call[x].moved
      BY <2>2 DEF ShotCall
    <3>2. ShotCallOK(v, heads, snapshots)
      BY <2>2, <2>3, <2>4, <3>1 DEF ShotCallOK
    <3>3. v \notin FileCall
      BY <2>2 DEF FileCall, ShotCall
    <3>4. call' = [call EXCEPT ![x] = v]
      BY <1>9, <2>4 DEF FetchOne
    <3> HIDE DEF v
    <3> QED  BY <2>1, <3>2, <3>3, <3>4, OneCall
  <2>5. CASE snapshots[call[x].head][p] = Absent
    <3> DEFINE v == [call[x] EXCEPT !.path = p, !.step = "open"]
    <3>1. /\ v.step = "open" /\ v.plan = call[x].plan /\ v.todo = call[x].todo
          /\ v.rev = call[x].rev /\ v.path = p
          /\ v.head = call[x].head /\ v.sel = call[x].sel /\ v.moved = call[x].moved
      BY <2>2 DEF ShotCall
    <3>2. TreeOf[call[x].head][p] # Absent
      BY <1>9, <2>5 DEF FetchOne, Served
    <3>3. ShotCallOK(v, heads, snapshots)
      BY <2>2, <2>3, <3>1, <3>2 DEF ShotCallOK
    <3>4. v \notin FileCall
      BY <2>2 DEF FileCall, ShotCall
    <3>5. call' = [call EXCEPT ![x] = v]
      BY <1>9, <2>5 DEF FetchOne
    <3> HIDE DEF v
    <3> QED  BY <2>1, <3>3, <3>4, <3>5, OneCall
  <2> QED  BY <2>4, <2>5
<1>10. ASSUME NEW x \in Clients, OpenOne(x)
       PROVE  CallsOK'
  <2> DEFINE v == [call[x] EXCEPT !.step = "close"]
  <2>1. Calls(x, "snapshot", "open")
    BY <1>10 DEF OpenOne
  <2>2. call[x] \in ShotCall /\ call[x].step = "open"
    BY <2>1, ShotSteps
  <2>3. ShotCallOK(call[x], heads, snapshots)
    BY <2>2 DEF CallsOK
  <2>4. /\ v.step = "close" /\ v.plan = call[x].plan /\ v.todo = call[x].todo
        /\ v.rev = call[x].rev /\ v.path = call[x].path
        /\ v.head = call[x].head /\ v.sel = call[x].sel /\ v.moved = call[x].moved
    BY <2>2 DEF ShotCall
  <2>5. \A c \in Commits, p \in Paths :
            snapshots[c][p] # Absent => snapshots'[c][p] # Absent
    BY <1>10 DEF OpenOne, RemoteTypeOK
  <2>6. v.head \in Commits /\ v.plan \subseteq Paths
    BY <2>2, <2>4 DEF ShotCall
  <2>7. ShotCallOK(v, heads, snapshots')
    <3> HIDE DEF v
    <3> QED  BY <2>2, <2>3, <2>4, <2>5, <2>6 DEF ShotCallOK
  <2>8. v \notin FileCall
    BY <2>2 DEF FileCall, ShotCall
  <2>9. call' = [call EXCEPT ![x] = v] /\ heads' = heads
    BY <1>10 DEF OpenOne
  <2> HIDE DEF v
  <2> QED  BY <2>5, <2>7, <2>8, <2>9, OneCall
<1>11. ASSUME NEW x \in Clients, CloseOne(x)
       PROVE  CallsOK'
  <2> DEFINE todo == call[x].todo \ {call[x].path}
             next == IF call[x].todo = {call[x].path} THEN "returned" ELSE "fetch"
             v == [call[x] EXCEPT !.todo = todo, !.step = next]
  <2>1. Calls(x, "snapshot", "close")
    BY <1>11 DEF CloseOne
  <2>2. call[x] \in ShotCall /\ call[x].step = "close"
    BY <2>1, ShotSteps
  <2>3. ShotCallOK(call[x], heads, snapshots)
    BY <2>2 DEF CallsOK
  <2>4. /\ v.step = next /\ v.plan = call[x].plan /\ v.todo = todo /\ v.rev = call[x].rev
        /\ v.head = call[x].head /\ v.sel = call[x].sel /\ v.moved = call[x].moved
    BY <2>2 DEF ShotCall
  <2>5. v.head \in Commits /\ v.plan \subseteq Paths
    BY <2>2, <2>4 DEF ShotCall
  <2>6. call[x].path \in Paths /\ TreeOf[v.head][call[x].path] # Absent
    BY <2>2, <2>3, <2>4 DEF ShotCallOK
  <2>7. /\ snapshots'[v.head][call[x].path] # Absent
        /\ \A c \in Commits, p \in Paths :
              snapshots[c][p] # Absent => snapshots'[c][p] # Absent
    <3>1. snapshots' = [snapshots EXCEPT ![v.head][call[x].path] =
                            TreeOf[v.head][call[x].path]]
      BY <1>11, <2>4 DEF CloseOne, Served
    <3> HIDE DEF v
    <3> QED  BY <3>1, <2>5, <2>6 DEF RemoteTypeOK
  <2>8. \A p \in call[x].plan \ todo : snapshots'[v.head][p] # Absent
    <3> HIDE DEF v
    <3> QED  BY <2>2, <2>3, <2>4, <2>5, <2>7 DEF ShotCallOK
  <2>9. next = "returned" => todo = {}
    OBVIOUS
  <2>10. next \in {"returned", "fetch"}
    OBVIOUS
  <2>11. ShotCallOK(v, heads, snapshots')
    <3> HIDE DEF v, next, todo
    <3> QED  BY <2>2, <2>3, <2>4, <2>8, <2>9, <2>10 DEF ShotCallOK
  <2>12. v \notin FileCall
    BY <2>2 DEF FileCall, ShotCall
  <2>13. call' = [call EXCEPT ![x] = v] /\ heads' = heads
    BY <1>11 DEF CloseOne
  <2> HIDE DEF v
  <2> QED  BY <2>7, <2>11, <2>12, <2>13, OneCall
<1>12. ASSUME NEW x \in Clients, Hangup(x)
       PROVE  CallsOK'
  <2>1. call' = [call EXCEPT ![x] = NotAsked] /\ heads' = heads /\ snapshots' = snapshots
    BY <1>12 DEF Hangup
  <2> QED  BY <2>1, Distinct, OneCall
<1>13. ASSUME NEW rev \in Revisions, NEW c \in Commits, Publish(rev, c)
       PROVE  CallsOK'
  <2> SUFFICES ASSUME NEW x \in Clients
               PROVE  /\ call'[x] \in FileCall => FileCallOK(call'[x], heads')
                      /\ call'[x] \in ShotCall => ShotCallOK(call'[x], heads', snapshots')
    BY DEF CallsOK
  <2>1. /\ snapshots' = snapshots
        /\ \A r \in Revisions : r # rev => heads'[r] = heads[r]
    BY <1>13 DEF Publish, MoveRevision, RemoteTypeOK
  <2>2. CASE call[x] # NotAsked /\ call[x].rev = rev /\ Undecided(call[x])
    <3> DEFINE v == [call[x] EXCEPT !.moved = TRUE]
    <3>1. call'[x] = v
      BY <1>13, <2>2 DEF Publish
    <3>2. CASE call[x] \in FileCall
      <4>1. v.step = "fetch" /\ v.moved
        BY <2>2, <3>2 DEF Undecided, FileCall
      <4>2. v \notin ShotCall
        BY <3>2 DEF FileCall, ShotCall
      <4> QED  BY <3>1, <4>1, <4>2 DEF FileCallOK
    <3>3. CASE call[x] \in ShotCall
      <4>1. v.step \in {"list", "infos"} /\ v.moved
        BY <2>2, <3>3 DEF Undecided, ShotCall
      <4>2. v \notin FileCall
        BY <3>3 DEF FileCall, ShotCall
      <4> QED  BY <3>1, <4>1, <4>2 DEF ShotCallOK
    <3> QED  BY <2>2, <3>2, <3>3 DEF RemoteTypeOK
  <2>3. CASE ~(call[x] # NotAsked /\ call[x].rev = rev /\ Undecided(call[x]))
    <3>1. call'[x] = call[x]
      BY <1>13, <2>3 DEF Publish
    <3>2. ASSUME call[x] \in FileCall
          PROVE  FileCallOK(call[x], heads')
      <4>1. FileCallOK(call[x], heads)
        BY <3>2 DEF CallsOK
      <4>2. call[x].rev = rev => call[x].step # "fetch"
        BY <2>3, <3>2, Distinct DEF Undecided, FileCall
      <4>3. call[x].rev \in Revisions
        BY <3>2 DEF FileCall
      <4> QED  BY <2>1, <4>1, <4>2, <4>3 DEF FileCallOK
    <3>3. ASSUME call[x] \in ShotCall
          PROVE  ShotCallOK(call[x], heads', snapshots')
      <4>1. ShotCallOK(call[x], heads, snapshots)
        BY <3>3 DEF CallsOK
      <4>2. call[x].rev = rev => call[x].step \notin {"list", "infos"}
        BY <2>3, <3>3, Distinct DEF Undecided, ShotCall
      <4>3. call[x].rev \in Revisions
        BY <3>3 DEF ShotCall
      <4> QED  BY <2>1, <4>1, <4>2, <4>3 DEF ShotCallOK
    <3> QED  BY <3>1, <3>2, <3>3
  <2> QED  BY <2>2, <2>3
<1> QED  BY <1>1, <1>2, <1>3, <1>4, <1>5, <1>6, <1>7, <1>8, <1>9, <1>10, <1>11, <1>12, <1>13
         DEF RemoteNext

-----------------------------------------------------------------------------
(* The two caches *)

(* What the other calls are writing is still being written. *)
LEMMA StillWritten ==
  ASSUME RemoteTypeOK, NEW x \in Clients, \A y \in Clients : y # x => call'[y] = call[y]
  PROVE  /\ \A s \in BeingWritten : s \in Open(x) \/ s \in BeingWritten'
         /\ \A s \in Open(x)' : s \in BeingWritten'
<1>1. \A y \in Clients : y # x => Open(y)' = Open(y)
  BY DEF Open, Calls
<1> QED  BY <1>1 DEF BeingWritten

(* A call that is not at its last write writes nothing. *)
LEMMA NothingOpen ==
  ASSUME RemoteTypeOK, NEW x \in Clients,
         call[x] = NotAsked \/ call[x].step # "close"
  PROVE  Open(x) = {}
BY DEF Open, Calls

(* A step that leaves a cache alone keeps what holds of it, if the slots   *)
(* no longer being written are recorded or belong to the other cache.      *)
LEMMA ShotsAlone ==
  ASSUME SnapshotsHoldTheirCommit, snapshots' = snapshots,
         \A s \in ShotSlot \intersect (spoiled \union BeingWritten) :
            s \in spoiled' \union BeingWritten'
  PROVE  SnapshotsHoldTheirCommit'
BY DEF SnapshotsHoldTheirCommit, ShotSlot

LEMMA FilesAlone ==
  ASSUME FilesMatchTheirEtag, downloads' = downloads, spoiled \subseteq spoiled',
         \A s \in FileSlot \intersect BeingWritten : s \in spoiled' \union BeingWritten'
  PROVE  FilesMatchTheirEtag'
BY DEF FilesMatchTheirEtag, FileSlot

LEMMA CachesKept ==
  RemoteInv /\ [RemoteNext]_AllVars => SnapshotsHoldTheirCommit' /\ FilesMatchTheirEtag'
<1> SUFFICES ASSUME RemoteInv, [RemoteNext]_AllVars
             PROVE  SnapshotsHoldTheirCommit' /\ FilesMatchTheirEtag'
  OBVIOUS
<1> USE RemoteAssumption, PublishedAssumption DEF RemoteInv
<1>1. CASE UNCHANGED AllVars
  <2>1. BeingWritten' = BeingWritten
    BY <1>1 DEF AllVars, remoteVars, BeingWritten, Open, Calls
  <2> QED  BY <1>1, <2>1, ShotsAlone, FilesAlone DEF AllVars, remoteVars
(* The steps that write nothing: nothing was open, nothing is spoiled. *)
<1>2. ASSUME NEW x \in Clients,
             \A y \in Clients : y # x => call'[y] = call[y],
             call[x] = NotAsked \/ call[x].step # "close",
             snapshots' = snapshots, downloads' = downloads, spoiled' = spoiled
      PROVE  SnapshotsHoldTheirCommit' /\ FilesMatchTheirEtag'
  BY <1>2, StillWritten, NothingOpen, ShotsAlone, FilesAlone
<1>3. ASSUME NEW x \in Clients, NEW rev \in Revisions, NEW p \in Paths, AskFile(x, rev, p)
      PROVE  SnapshotsHoldTheirCommit' /\ FilesMatchTheirEtag'
  BY <1>2, <1>3 DEF AskFile, RemoteTypeOK
<1>4. ASSUME NEW x \in Clients, FetchFile(x)
      PROVE  SnapshotsHoldTheirCommit' /\ FilesMatchTheirEtag'
  BY <1>2, <1>4 DEF FetchFile, Calls, RemoteTypeOK
<1>5. ASSUME NEW x \in Clients, NEW rev \in Revisions, NEW sel \in RemoteSelections,
             AskSnapshot(x, rev, sel)
      PROVE  SnapshotsHoldTheirCommit' /\ FilesMatchTheirEtag'
  BY <1>2, <1>5 DEF AskSnapshot, RemoteTypeOK
<1>6. ASSUME NEW x \in Clients, ListFiles(x)
      PROVE  SnapshotsHoldTheirCommit' /\ FilesMatchTheirEtag'
  BY <1>2, <1>6 DEF ListFiles, Calls, RemoteTypeOK
<1>7. ASSUME NEW x \in Clients, PlanSnapshot(x)
      PROVE  SnapshotsHoldTheirCommit' /\ FilesMatchTheirEtag'
  BY <1>2, <1>7 DEF PlanSnapshot, Calls, RemoteTypeOK
<1>8. ASSUME NEW x \in Clients, NEW p \in Paths, FetchOne(x, p)
      PROVE  SnapshotsHoldTheirCommit' /\ FilesMatchTheirEtag'
  <2>1. \A y \in Clients : y # x => call'[y] = call[y]
    BY <1>8 DEF FetchOne, RemoteTypeOK
  <2> QED  BY <1>2, <1>8, <2>1 DEF FetchOne, Calls
<1>9. ASSUME NEW x \in Clients, OpenFile(x)
      PROVE  SnapshotsHoldTheirCommit' /\ FilesMatchTheirEtag'
  <2>1. Calls(x, "file", "open") /\ \A y \in Clients : y # x => call'[y] = call[y]
    BY <1>9 DEF OpenFile, RemoteTypeOK
  <2>2. Open(x) = {}
    BY <2>1, NothingOpen DEF Calls
  <2>3. SnapshotsHoldTheirCommit'
    BY <1>9, <2>1, <2>2, StillWritten, ShotsAlone DEF OpenFile
  <2> DEFINE e == call[x].etag
             p == call[x].path
  <2>4. e \in Contents /\ p \in Paths /\ call[x] \in FileCall
    BY <2>1, FileSteps
  <2>5. Calls(x, "file", "close")' /\ call'[x].etag = e /\ call'[x].path = p
    BY <1>9, <2>1, <2>4 DEF OpenFile, Calls, RemoteTypeOK, FileCall
  <2>6. [etag |-> e, path |-> p] \in BeingWritten'
    BY <2>1, <2>5, StillWritten DEF Open
  <2>7. downloads' = [downloads EXCEPT ![e][p] = Torn] /\ spoiled' = spoiled
    BY <1>9 DEF OpenFile
  <2> HIDE DEF e, p
  <2>8. FilesMatchTheirEtag'
    <3> SUFFICES ASSUME NEW f \in Contents, NEW q \in Paths,
                        downloads'[f][q] # Absent, [etag |-> f, path |-> q] \notin spoiled
                 PROVE  \/ downloads'[f][q] = f
                        \/ /\ downloads'[f][q] = Torn
                           /\ [etag |-> f, path |-> q] \in BeingWritten'
      BY <2>7 DEF FilesMatchTheirEtag
    <3>1. CASE f = e /\ q = p
      BY <2>4, <2>6, <2>7, <3>1 DEF RemoteTypeOK
    <3>2. CASE ~(f = e /\ q = p)
      <4>1. downloads'[f][q] = downloads[f][q]
        BY <2>4, <2>7, <3>2 DEF RemoteTypeOK
      <4> QED  BY <2>1, <2>2, <4>1, StillWritten DEF FilesMatchTheirEtag
    <3> QED  BY <3>1, <3>2
  <2> QED  BY <2>3, <2>8
<1>10. ASSUME NEW x \in Clients, CloseFile(x)
       PROVE  SnapshotsHoldTheirCommit' /\ FilesMatchTheirEtag'
  <2> DEFINE e == call[x].etag
             p == call[x].path
             slot == [etag |-> e, path |-> p]
  <2>1. Calls(x, "file", "close") /\ \A y \in Clients : y # x => call'[y] = call[y]
    BY <1>10 DEF CloseFile, RemoteTypeOK
  <2>2. e \in Contents /\ p \in Paths /\ call[x] \in FileCall
    BY <2>1, FileSteps
  <2>3. Open(x) = {slot} /\ slot \in FileSlot
    BY <2>1, <2>2 DEF Open, FileSlot
  <2>4. spoiled \subseteq spoiled' /\ snapshots' = snapshots
    BY <1>10 DEF CloseFile
  <2>5. SnapshotsHoldTheirCommit'
    <3>1. \A s \in ShotSlot : s # slot
      BY <2>3, Distinct
    <3> QED  BY <2>1, <2>3, <2>4, <3>1, StillWritten, ShotsAlone
  <2>6. call[x].body \in Contents /\ (call[x].body = e \/ call[x].moved)
    BY <2>1, <2>2 DEF CallsOK, FileCallOK, Calls
  <2>7. /\ downloads' = [downloads EXCEPT ![e][p] = call[x].body]
        /\ call[x].moved => slot \in spoiled'
    BY <1>10 DEF CloseFile
  <2>8. FilesMatchTheirEtag'
    <3> SUFFICES ASSUME NEW f \in Contents, NEW q \in Paths,
                        downloads'[f][q] # Absent, [etag |-> f, path |-> q] \notin spoiled'
                 PROVE  \/ downloads'[f][q] = f
                        \/ /\ downloads'[f][q] = Torn
                           /\ [etag |-> f, path |-> q] \in BeingWritten'
      BY DEF FilesMatchTheirEtag
    <3>1. CASE f = e /\ q = p
      BY <2>2, <2>6, <2>7, <3>1 DEF RemoteTypeOK
    <3>2. CASE ~(f = e /\ q = p)
      <4>1. downloads'[f][q] = downloads[f][q]
        BY <2>2, <2>7, <3>2 DEF RemoteTypeOK
      <4>2. [etag |-> f, path |-> q] # slot
        BY <3>2
      <4> HIDE DEF e, p, slot
      <4> QED  BY <2>1, <2>3, <2>4, <4>1, <4>2, StillWritten DEF FilesMatchTheirEtag
    <3> QED  BY <3>1, <3>2
  <2> QED  BY <2>5, <2>8
<1>11. ASSUME NEW x \in Clients, OpenOne(x)
       PROVE  SnapshotsHoldTheirCommit' /\ FilesMatchTheirEtag'
  <2>1. Calls(x, "snapshot", "open") /\ \A y \in Clients : y # x => call'[y] = call[y]
    BY <1>11 DEF OpenOne, RemoteTypeOK
  <2>2. Open(x) = {}
    BY <2>1, NothingOpen DEF Calls
  <2>3. FilesMatchTheirEtag'
    BY <1>11, <2>1, <2>2, StillWritten, FilesAlone DEF OpenOne
  <2> DEFINE d == call[x].head
             p == call[x].path
  <2>4. d \in Commits /\ p \in Paths /\ call[x] \in ShotCall
    BY <2>1, ShotSteps DEF CallsOK, ShotCallOK
  <2>5. Calls(x, "snapshot", "close")' /\ call'[x].head = d /\ call'[x].path = p
    <3>1. call'[x] = [call[x] EXCEPT !.step = "close"]
      BY <1>11 DEF OpenOne, RemoteTypeOK
    <3>2. call'[x] \in ShotCall
      BY <2>1, <3>1, ShotUpdates DEF ShotStep
    <3>3. call'[x] # NotAsked
      BY <3>2, Distinct
    <3> QED  BY <2>1, <2>4, <3>1, <3>3 DEF Calls, ShotCall
  <2>6. [commit |-> d, path |-> p] \in BeingWritten'
    <3>1. ~Calls(x, "file", "close")'
      BY <2>5 DEF Calls
    <3> QED  BY <2>1, <2>5, <3>1, StillWritten DEF Open
  <2>7. snapshots' = [snapshots EXCEPT ![d][p] = Torn] /\ spoiled' = spoiled
    BY <1>11 DEF OpenOne
  <2> HIDE DEF d, p
  <2>8. SnapshotsHoldTheirCommit'
    <3> SUFFICES ASSUME NEW c \in Commits, NEW q \in Paths, snapshots'[c][q] # Absent
                 PROVE  \/ snapshots'[c][q] = TreeOf[c][q]
                        \/ /\ snapshots'[c][q] = Torn
                           /\ [commit |-> c, path |-> q] \in spoiled \union BeingWritten'
      BY <2>7 DEF SnapshotsHoldTheirCommit
    <3>1. CASE c = d /\ q = p
      BY <2>4, <2>6, <2>7, <3>1 DEF RemoteTypeOK
    <3>2. CASE ~(c = d /\ q = p)
      <4>1. snapshots'[c][q] = snapshots[c][q]
        BY <2>4, <2>7, <3>2 DEF RemoteTypeOK
      <4> QED  BY <2>1, <2>2, <4>1, StillWritten DEF SnapshotsHoldTheirCommit
    <3> QED  BY <3>1, <3>2
  <2> QED  BY <2>3, <2>8
<1>12. ASSUME NEW x \in Clients, CloseOne(x)
       PROVE  SnapshotsHoldTheirCommit' /\ FilesMatchTheirEtag'
  <2> DEFINE d == call[x].head
             p == call[x].path
             slot == [commit |-> d, path |-> p]
  <2>1. Calls(x, "snapshot", "close") /\ \A y \in Clients : y # x => call'[y] = call[y]
    BY <1>12 DEF CloseOne, RemoteTypeOK
  <2>2. d \in Commits /\ p \in Paths /\ call[x] \in ShotCall
    BY <2>1, ShotSteps DEF CallsOK, ShotCallOK
  <2>3. Open(x) = {slot} /\ slot \in ShotSlot
    BY <2>1, <2>2 DEF Open, ShotSlot, Calls
  <2>4. spoiled' = spoiled /\ downloads' = downloads
    BY <1>12 DEF CloseOne
  <2>5. FilesMatchTheirEtag'
    <3>1. \A s \in FileSlot : s # slot
      BY <2>3, Distinct
    <3> QED  BY <2>1, <2>3, <2>4, <3>1, StillWritten, FilesAlone
  <2>6. snapshots' = [snapshots EXCEPT ![d][p] = TreeOf[d][p]]
    BY <1>12 DEF CloseOne, Served
  <2>7. SnapshotsHoldTheirCommit'
    <3> SUFFICES ASSUME NEW c \in Commits, NEW q \in Paths, snapshots'[c][q] # Absent
                 PROVE  \/ snapshots'[c][q] = TreeOf[c][q]
                        \/ /\ snapshots'[c][q] = Torn
                           /\ [commit |-> c, path |-> q] \in spoiled \union BeingWritten'
      BY <2>4 DEF SnapshotsHoldTheirCommit
    <3>1. CASE c = d /\ q = p
      BY <2>2, <2>6, <3>1 DEF RemoteTypeOK
    <3>2. CASE ~(c = d /\ q = p)
      <4>1. snapshots'[c][q] = snapshots[c][q]
        BY <2>2, <2>6, <3>2 DEF RemoteTypeOK
      <4>2. [commit |-> c, path |-> q] # slot
        BY <3>2
      <4> HIDE DEF d, p, slot
      <4> QED  BY <2>1, <2>3, <4>1, <4>2, StillWritten DEF SnapshotsHoldTheirCommit
    <3> QED  BY <3>1, <3>2
  <2> QED  BY <2>5, <2>7
<1>13. ASSUME NEW x \in Clients, Hangup(x)
       PROVE  SnapshotsHoldTheirCommit' /\ FilesMatchTheirEtag'
  <2>1. /\ \A y \in Clients : y # x => call'[y] = call[y]
        /\ spoiled' = spoiled \union Open(x)
        /\ snapshots' = snapshots /\ downloads' = downloads
    BY <1>13 DEF Hangup, RemoteTypeOK
  <2> QED  BY <2>1, StillWritten, ShotsAlone, FilesAlone
<1>14. ASSUME NEW rev \in Revisions, NEW c \in Commits, Publish(rev, c)
       PROVE  SnapshotsHoldTheirCommit' /\ FilesMatchTheirEtag'
  <2>1. snapshots' = snapshots /\ downloads' = downloads /\ spoiled' = spoiled
    BY <1>14 DEF Publish
  <2>2. ASSUME NEW x \in Clients
        PROVE  Open(x)' = Open(x)
    <3>1. call'[x] = call[x] \/ (call[x] # NotAsked /\ call'[x] = [call[x] EXCEPT !.moved = TRUE])
      BY <1>14 DEF Publish
    <3>2. CASE call'[x] = call[x]
      BY <3>2 DEF Open, Calls
    <3>3. CASE call[x] # NotAsked /\ call'[x] = [call[x] EXCEPT !.moved = TRUE]
      <4>1. call'[x] \in FileCall \union ShotCall
        <5>1. call[x] \in FileCall => call'[x] \in FileCall
          BY <3>3 DEF FileCall
        <5>2. call[x] \in ShotCall => call'[x] \in ShotCall
          BY <3>3 DEF ShotCall
        <5> QED  BY <3>3, <5>1, <5>2 DEF RemoteTypeOK
      <4>2. call'[x] # NotAsked
        BY <4>1
      <4>3. /\ call'[x].kind = call[x].kind /\ call'[x].step = call[x].step
            /\ call'[x].path = call[x].path
            /\ call[x].kind = "file" => call'[x].etag = call[x].etag
            /\ call[x].kind = "snapshot" => call'[x].head = call[x].head
        BY <3>3 DEF RemoteTypeOK, FileCall, ShotCall
      <4> QED  BY <3>3, <4>2, <4>3 DEF Open, Calls
    <3> QED  BY <3>1, <3>2, <3>3
  <2>3. BeingWritten' = BeingWritten
    BY <2>2 DEF BeingWritten
  <2> QED  BY <2>1, <2>3, ShotsAlone, FilesAlone
<1> QED  BY <1>1, <1>3, <1>4, <1>5, <1>6, <1>7, <1>8, <1>9, <1>10, <1>11, <1>12, <1>13, <1>14
         DEF RemoteNext

-----------------------------------------------------------------------------
LEMMA RemoteInitInv == heads \in [Revisions -> Commits] /\ RemoteInit => RemoteInv
<1> SUFFICES ASSUME heads \in [Revisions -> Commits], RemoteInit
             PROVE  RemoteInv
  OBVIOUS
<1> USE RemoteAssumption DEF RemoteInit
<1>1. RemoteTypeOK
  BY DEF RemoteTypeOK, OnClient
<1>2. CallsOK
  BY Distinct DEF CallsOK
<1>3. SnapshotsHoldTheirCommit /\ FilesMatchTheirEtag
  BY DEF SnapshotsHoldTheirCommit, FilesMatchTheirEtag
<1> QED  BY <1>1, <1>2, <1>3 DEF RemoteInv

LEMMA RemoteInvHolds == RemoteSpec => []RemoteInv
<1>1. RemoteInv /\ [RemoteNext]_AllVars => RemoteInv'
  BY TypesKept, CallsKept, CachesKept DEF RemoteInv
<1> QED  BY RemoteInitInv, <1>1, PTL DEF RemoteSpec, AllVars

(* The calls, both caches and the record of the dead writes keep their     *)
(* types: a truncated file in a cache is the only thing in it that is not  *)
(* the content of some file.                                               *)
THEOREM RemoteTypes == RemoteSpec => []RemoteTypeOK
BY RemoteInvHolds, PTL DEF RemoteInv

(* No snapshot directory ever holds the bytes of another commit, for any   *)
(* number of clients that fill it, die in it and move the branch meanwhile *)
(* (build_snapshot_plan, _download_url_for).                               *)
THEOREM SnapshotBytes == RemoteSpec => []SnapshotsHoldTheirCommit
BY RemoteInvHolds, PTL DEF RemoteInv

(* A file kept under an etag has that content, unless the revision moved   *)
(* between the two requests or a call died writing it (hf_hub_download).   *)
THEOREM FileBytes == RemoteSpec => []FilesMatchTheirEtag
BY RemoteInvHolds, PTL DEF RemoteInv

(* A snapshot returned to a caller whose revision stood still while it was *)
(* planned misses no selected file of the commit, whatever earlier and     *)
(* concurrent calls left in the directory (snapshot_is_complete).          *)
THEOREM SnapshotFiles == RemoteSpec => []SnapshotsAreComplete
<1>1. RemoteInv => SnapshotsAreComplete
  <2> SUFFICES ASSUME RemoteInv, NEW x \in Clients,
                      Calls(x, "snapshot", "returned"), ~call[x].moved
               PROVE  \A p \in Files(call[x].head) \intersect call[x].sel :
                         snapshots[call[x].head][p] # Absent
    BY DEF SnapshotsAreComplete
  <2>1. call[x] \in ShotCall /\ call[x].step = "returned"
    BY ShotSteps DEF RemoteInv
  <2> QED  BY <2>1 DEF RemoteInv, CallsOK, ShotCallOK
<1> QED  BY <1>1, RemoteInvHolds, PTL

-----------------------------------------------------------------------------
(* Names *)

Names == Seq(Words \union AllIds \union RefPrefixes)

\* A branch or a tag whose name is normalized.
IsRef(r) == \E n \in Names : n = Normalized(n) /\ (r = Branch(n) \/ r = Tag(n))

NamesInv == \A r \in DOMAIN refs \union DOMAIN reflog : IsRef(r)

\* Normalizing a name again changes nothing.
LEMMA NormalizedOnce ==
    ASSUME NEW t \in Names
    PROVE  Normalized(t) \in Names /\ Normalized(Normalized(t)) = Normalized(t)
<1> DEFINE n == Normalized(t)
           All == Words \union AllIds \union RefPrefixes
<1>1. /\ t \in [1..Len(t) -> All] /\ Len(t) \in Nat /\ DOMAIN t = 1..Len(t)
  BY DEF Names
<1>2. /\ DOMAIN n = 1..Len(t)
      /\ \A i \in 1..Len(t) : n[i] = IF t[i] \in Words THEN Tidy[t[i]] ELSE t[i]
  BY <1>1 DEF Normalized
<1>3. \A i \in 1..Len(t) : n[i] \in All
  BY <1>1, <1>2, RevisionsAssumption
<1>4. n \in Names
  <2>1. n = [i \in 1..Len(t) |-> n[i]]
    BY <1>1 DEF Normalized
  <2>2. n \in [1..Len(t) -> All]
    <3> HIDE DEF n, All
    <3> QED
      BY <1>3, <2>1
  <2> HIDE DEF n
  <2> QED
    BY <1>1, <2>2, IsASeq DEF Names
<1>5. Normalized(n) = n
  <2>1. Normalized(n) = [i \in DOMAIN n |-> IF n[i] \in Words THEN Tidy[n[i]] ELSE n[i]]
    BY DEF Normalized
  <2>2. \A i \in DOMAIN n : (IF n[i] \in Words THEN Tidy[n[i]] ELSE n[i]) = n[i]
    BY <1>1, <1>2, RevisionsAssumption
  <2>3. n = [i \in DOMAIN n |-> n[i]]
    BY DEF Normalized
  <2> HIDE DEF n
  <2> QED
    BY <2>1, <2>2, <2>3
<1> QED
  BY <1>4, <1>5

\* What operations write are refs with normalized names.
LEMMA TextsAreNames ==
    ASSUME NEW t \in Texts
    PROVE  /\ t \in Names /\ t # << >> /\ Tail(t) \in Names
           /\ IsRef(Written(t)) /\ IsRef(Tag(Normalized(t))) /\ IsRef(Short(t))
<1>1. t \in Names /\ t # << >> /\ Tail(t) \in Names
  BY RevisionsAssumption DEF Names
<1>2. IsRef(Written(t)) /\ IsRef(Tag(Normalized(t)))
  BY <1>1, NormalizedOnce DEF IsRef, Written
<1>3. IsRef(Short(t))
  BY <1>1, NormalizedOnce DEF IsRef, Short
<1> QED
  BY <1>1, <1>2, <1>3

LEMMA NamesInit == RefsInit => NamesInv
<1> SUFFICES ASSUME RefsInit PROVE NamesInv
  OBVIOUS
<1> DEFINE n == <<DefaultBranch>>
<1>1. n \in Names
  BY RevisionsAssumption DEF Names
<1>2. Normalized(n) = n
  BY RevisionsAssumption DEF Normalized
<1> HIDE DEF n
<1>3. DOMAIN refs = {Branch(n)} /\ DOMAIN reflog = {}
  BY DEF RefsInit, n
<1> QED
  BY <1>1, <1>2, <1>3 DEF NamesInv, IsRef

\* Moving or dropping a ref brings no other ref into being.
LEMMA NamesStep == NamesInv /\ [RefsNext]_refVars => NamesInv'
<1> SUFFICES ASSUME NamesInv, [RefsNext]_refVars PROVE NamesInv'
  OBVIOUS
<1>1. ASSUME NEW r, NEW new, IsRef(r), Moves(r, new)
      PROVE  NamesInv'
  BY <1>1 DEF NamesInv, Moves, Logs, WithRef
<1>2. ASSUME NEW r, Drops(r)
      PROVE  NamesInv'
  BY <1>2 DEF NamesInv, Drops, Logs, WithRef, WithoutRef, Exists
<1>3. ASSUME NEW t \in Texts, NEW rev \in Texts,
             CreateBranch(t, rev) \/ CreateTag(t, rev) \/ ResetRef(t, rev) \/ Merge(t, rev)
      PROVE  NamesInv'
  BY <1>1, <1>3, TextsAreNames DEF CreateBranch, CreateTag, ResetRef, Merge
<1>4. ASSUME NEW t \in Texts, DeleteBranch(t) \/ DeleteTag(t) \/ CreateCommit(t)
      PROVE  NamesInv'
  BY <1>1, <1>2, <1>4, TextsAreNames DEF DeleteBranch, DeleteTag, CreateCommit
<1>5. ASSUME NEW t \in Texts, NEW length \in DOMAIN Ids, SquashHistory(t, length)
      PROVE  NamesInv'
  BY <1>1, <1>5, TextsAreNames DEF SquashHistory
<1>6. CASE Gc \/ UNCHANGED refVars
  BY <1>6 DEF Gc, refVars, NamesInv
<1> QED
  BY <1>3, <1>4, <1>5, <1>6 DEF RefsNext

\* A full name says which ref it is the name of.
LEMMA FullNamesAreRead ==
    ASSUME NEW r, IsRef(r)
    PROVE  /\ FullName(r)[1] # "sha256"
           /\ RefRead(FullName(r)) = r
           /\ Queried(FullName(r)) = IF Known(r) THEN {r} ELSE {}
<1>1. PICK n \in Names : n = Normalized(n) /\ (r = Branch(n) \/ r = Tag(n))
  BY DEF IsRef
<1>2. ASSUME NEW word
      PROVE  Tail(<<word>> \o n) = n /\ (<<word>> \o n)[1] = word
  BY DEF Names
<1>3. CASE r = Branch(n)
  <2>1. FullName(r) = <<"heads">> \o n
    BY <1>3 DEF FullName, Branch
  <2>2. Tail(FullName(r)) = n /\ FullName(r)[1] = "heads"
    BY <1>2, <2>1
  <2> QED
    BY <1>1, <1>3, <2>2 DEF RefRead, Queried
<1>4. CASE r = Tag(n)
  <2>1. FullName(r) = <<"tags">> \o n
    BY <1>4 DEF FullName, Tag
  <2>2. Tail(FullName(r)) = n /\ FullName(r)[1] = "tags"
    BY <1>2, <2>1
  <2> QED
    BY <1>1, <1>4, <2>2 DEF RefRead, Queried
<1> QED
  BY <1>1, <1>3, <1>4

\* The name of a ref that exists is normalized.
LEMMA ExistingIsNormalized ==
    ASSUME NamesInv, NEW n, Exists(Branch(n)) \/ Exists(Tag(n))
    PROVE  Normalized(n) = n
<1>1. IsRef(Branch(n)) \/ IsRef(Tag(n))
  BY DEF NamesInv, Exists
<1>2. \A m : Branch(n) = Branch(m) \/ Tag(n) = Tag(m) => n = m
  BY DEF Branch, Tag
<1>3. \A m : Branch(n) # Tag(m) /\ Tag(n) # Branch(m)
  BY DEF Branch, Tag
<1> QED
  BY <1>1, <1>2, <1>3 DEF IsRef

\* Names keep their reading: see ReadsMeetWrites.
THEOREM NamesAreRead == RefsSpec => []ReadsMeetWrites
<1>1. NamesInv => ReadsMeetWrites
  <2> SUFFICES ASSUME NamesInv PROVE ReadsMeetWrites
    OBVIOUS
  <2>1. ASSUME NEW e \in ListRepoRefs
        PROVE  RepoInfo(e.ref).head = e.target
    <3>1. PICK r \in DOMAIN refs : e = [ref |-> FullName(r), target |-> refs[r]]
      BY DEF ListRepoRefs
    <3>2. RefRead(FullName(r)) = r /\ FullName(r)[1] # "sha256" /\ Exists(r)
      BY FullNamesAreRead DEF NamesInv, Exists
    <3>3. ResolveRevision(FullName(r)) = refs[r]
      BY <3>2 DEF ResolveRevision
    <3>4. e.ref = FullName(r) /\ e.target = refs[r]
      BY <3>1
    <3> QED
      BY <3>3, <3>4 DEF RepoInfo
  <2>2. ASSUME NEW r \in DOMAIN refs
        PROVE  Queried(FullName(r)) = {r}
    BY FullNamesAreRead DEF NamesInv, Known, Exists
  <2>3. ASSUME \A r \in DOMAIN refs \union DOMAIN reflog : IsPlain(r),
               NEW t \in Texts, t[1] # "sha256", Exists(RefRead(t))
        PROVE  /\ FullName(RefRead(t)) \in RepoInfo(t).refs
               /\ Exists(Written(t)) => RefRead(t) = Written(t)
               /\ IsTarget(t) \/ IsSquashable(t) => RefRead(t) = Short(t)
               /\ Cardinality(Queried(t)) = 1 => RefRead(t) \in Queried(t)
    <3>1. FullName(RefRead(t)) \in RepoInfo(t).refs
      BY <2>3 DEF RepoInfo, Exists
    <3>2. \A n : Normalized(n)[1] \in {"heads", "tags"} => ~Exists(Branch(Normalized(n)))
      BY <2>3 DEF IsPlain, Exists, Branch
    <3>3. t # << >> /\ t \in Seq(Words \union AllIds \union RefPrefixes)
      BY RevisionsAssumption
    <3>4. t[1] \in {"heads", "tags"} => Normalized(t)[1] = t[1]
      BY <3>3, RevisionsAssumption DEF Normalized, RefPrefixes
    <3>5. CASE t[1] = "heads"
      <4>1. RefRead(t) = Branch(Tail(t)) /\ Normalized(Tail(t)) = Tail(t)
        BY <2>3, <3>5, ExistingIsNormalized DEF RefRead
      <4>2. ~Exists(Written(t))
        BY <3>2, <3>4, <3>5 DEF Written
      <4>3. Short(t) = Branch(Tail(t))
        BY <3>5, <4>1 DEF Short
      <4>4. RefRead(t) \in Queried(t)
        BY <2>3, <3>5, <4>1 DEF Queried, Known
      <4> QED
        BY <3>1, <4>1, <4>2, <4>3, <4>4
    <3>6. CASE t[1] = "tags"
      <4>1. RefRead(t) = Tag(Tail(t)) /\ Normalized(Tail(t)) = Tail(t)
        BY <2>3, <3>6, ExistingIsNormalized DEF RefRead
      <4>2. ~Exists(Written(t))
        BY <3>2, <3>4, <3>6 DEF Written
      <4>3. ~IsTarget(t) /\ ~IsSquashable(t)
        BY <3>6 DEF IsTarget, IsSquashable
      <4>4. RefRead(t) \in Queried(t)
        BY <2>3, <3>6, <4>1 DEF Queried, Known
      <4> QED
        BY <3>1, <4>2, <4>3, <4>4
    <3>7. CASE t[1] \notin {"heads", "tags"}
      <4>1. RefRead(t) = IF Exists(Branch(t)) THEN Branch(t) ELSE Tag(t)
        BY <3>7 DEF RefRead
      <4>2. Normalized(t) = t
        BY <2>3, <4>1, ExistingIsNormalized
      <4>3. Written(t) = Branch(t) /\ Short(t) = Branch(t)
        BY <3>7, <4>2 DEF Written, Short
      <4>4. RefRead(t) \in Queried(t)
        BY <2>3, <3>7, <4>1, <4>2 DEF Queried, Known
      <4> QED
        BY <3>1, <4>1, <4>3, <4>4 DEF IsTarget, IsSquashable
    <3> QED
      BY <3>5, <3>6, <3>7
  <2> QED
    BY <2>1, <2>2, <2>3 DEF ReadsMeetWrites
<1> QED
  BY <1>1, NamesInit, NamesStep, PTL DEF RefsSpec

-----------------------------------------------------------------------------
(* Ancestors: the recursion yields the least set that holds a commit and   *)
(* the parents of its members, because parents are made first.             *)

ClosedIn(graph, S) == \A c \in S : graph[c] \subseteq S

Reach(graph, c) ==
    {a \in DOMAIN graph :
        \A S \in SUBSET DOMAIN graph : c \in S /\ ClosedIn(graph, S) => a \in S}

Made(n) == {Ids[i] : i \in 1..n}

\* A graph of the first n commits, where parents come before their children.
InOrder(graph, n) ==
    /\ n \in 0..Len(Ids)
    /\ DOMAIN graph = Made(n)
    /\ \A i \in 1..n : graph[Ids[i]] \subseteq Made(i - 1)

LEMMA OrderedIsClosed ==
    ASSUME NEW graph, NEW n, InOrder(graph, n)
    PROVE  /\ ClosedIn(graph, DOMAIN graph)
           /\ DOMAIN graph \subseteq AllIds /\ None \notin DOMAIN graph
           /\ n \in Nat /\ 1..n \subseteq DOMAIN Ids
<1>1. n \in Nat /\ 1..n \subseteq DOMAIN Ids /\ Len(Ids) \in Nat
  BY RevisionsAssumption DEF InOrder
<1>2. \A i \in 1..n : Made(i - 1) \subseteq Made(n)
  BY <1>1 DEF Made
<1> QED
  BY <1>1, <1>2, RevisionsAssumption DEF InOrder, ClosedIn, Made, AllIds

\* Reach is the least closed set that holds the commit.
LEMMA ReachIsLeast ==
    ASSUME NEW graph, ClosedIn(graph, DOMAIN graph), NEW c \in DOMAIN graph
    PROVE  /\ c \in Reach(graph, c) /\ Reach(graph, c) \subseteq DOMAIN graph
           /\ ClosedIn(graph, Reach(graph, c))
           /\ \A S \in SUBSET DOMAIN graph :
                  c \in S /\ ClosedIn(graph, S) => Reach(graph, c) \subseteq S
  BY DEF Reach, ClosedIn

\* What an ancestor reaches, its descendant reaches.
LEMMA ReachIsTransitive ==
    ASSUME NEW graph, ClosedIn(graph, DOMAIN graph), NEW c \in DOMAIN graph,
           NEW a \in Reach(graph, c)
    PROVE  Reach(graph, a) \subseteq Reach(graph, c)
<1>1. a \in DOMAIN graph /\ Reach(graph, c) \in SUBSET DOMAIN graph
      /\ ClosedIn(graph, Reach(graph, c))
  BY ReachIsLeast
<1> QED
  BY <1>1, ReachIsLeast

\* New commits take nothing away from what older ones reach.
LEMMA ReachGrows ==
    ASSUME NEW g, NEW h, ClosedIn(g, DOMAIN g), DOMAIN g \subseteq DOMAIN h,
           \A x \in DOMAIN g : h[x] = g[x], NEW c \in DOMAIN g
    PROVE  Reach(g, c) \subseteq Reach(h, c)
<1> SUFFICES ASSUME NEW a \in Reach(g, c), NEW S \in SUBSET DOMAIN h,
                    c \in S, ClosedIn(h, S)
             PROVE  a \in S
  BY DEF Reach
<1>1. ClosedIn(g, S \intersect DOMAIN g)
  BY DEF ClosedIn
<1> QED
  BY <1>1 DEF Reach

\* It solves the equation that defines the recursion of AncestorsIn, ...
LEMMA ReachUnfolds ==
    ASSUME NEW graph, ClosedIn(graph, DOMAIN graph), NEW c \in DOMAIN graph
    PROVE  Reach(graph, c) = {c} \union UNION {Reach(graph, p) : p \in graph[c]}
<1> DEFINE S == {c} \union UNION {Reach(graph, p) : p \in graph[c]}
<1>1. graph[c] \subseteq DOMAIN graph
  BY DEF ClosedIn
<1>2. S \in SUBSET DOMAIN graph /\ c \in S
  BY <1>1, ReachIsLeast
<1>3. ClosedIn(graph, S)
  <2> SUFFICES ASSUME NEW x \in S, NEW y \in graph[x]
               PROVE  y \in S
    BY DEF ClosedIn
  <2>1. CASE x = c
    BY <1>1, <2>1, ReachIsLeast
  <2>2. CASE x # c
    <3>1. PICK p \in graph[c] : x \in Reach(graph, p)
      BY <2>2
    <3>2. y \in Reach(graph, p)
      BY <1>1, <3>1, ReachIsLeast DEF ClosedIn
    <3> QED
      BY <3>2
  <2> QED
    BY <2>1, <2>2
<1>4. Reach(graph, c) \subseteq S
  BY <1>2, <1>3, ReachIsLeast
<1>5. \A p \in graph[c] : Reach(graph, p) \subseteq Reach(graph, c)
  BY ReachIsLeast, ReachIsTransitive DEF ClosedIn
<1>6. S \subseteq Reach(graph, c)
  BY <1>5, ReachIsLeast
<1> QED
  BY <1>4, <1>6

\* ... and the recursion has no other solution, because parents are older.
LEMMA AncestorsAreReached ==
    ASSUME NEW graph, NEW n, InOrder(graph, n), NEW c \in DOMAIN graph
    PROVE  AncestorsIn(graph, c) = Reach(graph, c)
<1> DEFINE Walk(f) == [x \in DOMAIN graph |-> {x} \union UNION {f[p] : p \in graph[x]}]
           reach == [x \in DOMAIN graph |-> Reach(graph, x)]
           above == CHOOSE f : f = Walk(f)
<1>1. ClosedIn(graph, DOMAIN graph) /\ n \in Nat /\ c # None
  BY OrderedIsClosed
<1>2. reach = Walk(reach)
  <2>1. ASSUME NEW x \in DOMAIN graph
        PROVE  Reach(graph, x) = {x} \union UNION {reach[p] : p \in graph[x]}
    <3>1. graph[x] \subseteq DOMAIN graph
      BY <1>1 DEF ClosedIn
    <3>2. \A p \in graph[x] : reach[p] = Reach(graph, p)
      BY <3>1
    <3>3. Reach(graph, x) = {x} \union UNION {Reach(graph, p) : p \in graph[x]}
      BY <1>1, ReachUnfolds
    <3> HIDE DEF reach
    <3> QED
      BY <3>2, <3>3
  <2> QED
    BY <2>1
<1>3. above = Walk(above)
  BY <1>2
<1> HIDE DEF above, reach
<1>4. \A x \in DOMAIN graph : above[x] = {x} \union UNION {above[p] : p \in graph[x]}
  BY <1>3
<1> DEFINE Strays == {i \in 1..n : above[Ids[i]] # Reach(graph, Ids[i])}
<1>5. ASSUME Strays # {}
      PROVE  FALSE
  <2>1. Strays \subseteq Nat
    BY <1>1
  <2>2. PICK i \in Strays : \A j \in Strays : i <= j
    <3> HIDE DEF Strays
    <3> QED
      BY <1>5, <2>1, LeastNumber
  <2>3. i \in 1..n /\ Ids[i] \in DOMAIN graph /\ graph[Ids[i]] \subseteq Made(i - 1)
    BY <2>2 DEF InOrder, Made
  <2>4. \A p \in graph[Ids[i]] : above[p] = Reach(graph, p)
    <3> SUFFICES ASSUME NEW p \in graph[Ids[i]] PROVE above[p] = Reach(graph, p)
      OBVIOUS
    <3>1. PICK j \in 1..(i - 1) : p = Ids[j]
      BY <2>3 DEF Made
    <3>2. j \in 1..n /\ ~(i <= j)
      BY <1>1, <2>3, <3>1
    <3> QED
      BY <2>2, <3>1, <3>2
  <2>5. above[Ids[i]] = Reach(graph, Ids[i])
    <3> DEFINE x == Ids[i]
    <3>1. x \in DOMAIN graph /\ \A p \in graph[x] : above[p] = Reach(graph, p)
      BY <2>3, <2>4
    <3> HIDE DEF x
    <3>2. above[x] = {x} \union UNION {above[p] : p \in graph[x]}
      BY <1>4, <3>1
    <3>3. Reach(graph, x) = {x} \union UNION {Reach(graph, p) : p \in graph[x]}
      BY <1>1, <3>1, ReachUnfolds
    <3>4. above[x] = Reach(graph, x)
      BY <3>1, <3>2, <3>3
    <3> QED
      BY <3>4 DEF x
  <2> QED
    BY <2>2, <2>5
<1>6. above[c] = Reach(graph, c)
  BY <1>5 DEF InOrder, Made
<1> QED
  BY <1>1, <1>6 DEF AncestorsIn, above

-----------------------------------------------------------------------------
(* Commits and reflogs *)

GraphInv == InOrder(parents, Cardinality(DOMAIN parents))

\* The commits that have a row have the rows of their parents too, and every ref
\* names one of them.
PresentInv ==
    /\ present \subseteq DOMAIN parents
    /\ ClosedIn(parents, present)
    /\ \A r \in DOMAIN refs : refs[r] \in present \union {None}

HeadOf(r) == IF Exists(r) THEN refs[r] ELSE None

\* The log of a ref that only moved forward lies within the history of the ref.
LogInv ==
    \A r \in DOMAIN reflog \ strayed : reflog[r] \subseteq AncestorsOf(HeadOf(r))

RefsInv == NamesInv /\ GraphInv /\ PresentInv /\ LogInv

\* The first n commits are n.
LEMMA MadeCounts ==
    ASSUME NEW n \in 0..Len(Ids)
    PROVE  Cardinality(Made(n)) = n
<1>1. n \in Nat /\ Len(Ids) \in Nat /\ 1..n \subseteq DOMAIN Ids
  BY RevisionsAssumption
<1> DEFINE ids == [i \in 1..n |-> Ids[i]]
<1>2. ids \in [1..n -> Made(n)] /\ \A t \in Made(n) : \E s \in 1..n : ids[s] = t
  BY DEF Made
<1>3. \A i, j \in 1..n : ids[i] = ids[j] => i = j
  BY <1>1, RevisionsAssumption
<1> HIDE DEF ids
<1>4. ids \in Bijection(1..n, Made(n))
  BY <1>2, <1>3, Fun_IsBij
<1>5. ExistsBijection(1..n, Made(n))
  BY <1>4, Fun_ExistsBij
<1> QED
  BY <1>1, <1>5, FS_CountingElements

\* What has a row has the rows of its history.
LEMMA AncestorsPresent ==
    ASSUME GraphInv, PresentInv, NEW c \in present \union {None}
    PROVE  /\ AncestorsOf(c) \subseteq present
           /\ c # None => c \in AncestorsOf(c) /\ ClosedIn(parents, AncestorsOf(c))
<1>1. CASE c = None
  BY <1>1 DEF AncestorsOf, AncestorsIn
<1>2. CASE c # None
  <2>1. c \in DOMAIN parents /\ ClosedIn(parents, DOMAIN parents)
    BY <1>2, OrderedIsClosed DEF GraphInv, PresentInv
  <2>2. AncestorsOf(c) = Reach(parents, c)
    BY <2>1, AncestorsAreReached DEF GraphInv, AncestorsOf
  <2> QED
    BY <1>2, <2>1, <2>2, ReachIsLeast DEF PresentInv
<1> QED
  BY <1>1, <1>2

\* A revision that resolves resolves to a commit with a row.
LEMMA Resolved ==
    ASSUME PresentInv, NEW t
    PROVE  ResolveRevision(t) \in present \union {None, NotFound}
  BY DEF PresentInv, ResolveRevision, Exists

\* The history has only grown.
Grown ==
    /\ GraphInv'
    /\ DOMAIN parents \subseteq DOMAIN parents' /\ present \subseteq present'
    /\ present' \subseteq DOMAIN parents' /\ ClosedIn(parents', present')
    /\ \A x \in DOMAIN parents : parents'[x] = parents[x]

\* New commits, each on top of present ones or of earlier new ones.
LEMMA MakeGrows ==
    ASSUME GraphInv, PresentInv, NEW k \in Nat, Room(k), NEW new, DOMAIN new = 1..k,
           \A i \in 1..k : new[i] \subseteq present \union {Fresh(j) : j \in 1..(i - 1)},
           Make(new)
    PROVE  Grown /\ \A i \in 1..k : Fresh(i) \in present'
<1> DEFINE n == Cardinality(DOMAIN parents)
<1>1. InOrder(parents, n) /\ n \in Nat /\ n + k <= Len(Ids) /\ Len(Ids) \in Nat
      /\ DOMAIN parents = Made(n)
  BY RevisionsAssumption, OrderedIsClosed DEF GraphInv, Room, InOrder
<1>2. \A i \in 1..(n + k) : i \in DOMAIN Ids
  BY <1>1, RevisionsAssumption
<1>3. \A i : Fresh(i) = Ids[n + i]
  BY DEF Fresh
<1> DEFINE made == {Fresh(i) : i \in 1..k}
<1>4. /\ DOMAIN parents' = DOMAIN parents \union made
      /\ \A x \in DOMAIN parents : parents'[x] = parents[x]
      /\ present' = present \union made
      /\ \A x \in made : x \notin DOMAIN parents =>
             parents'[x] = new[CHOOSE i \in 1..k : Fresh(i) = x]
  BY DEF Make
<1> HIDE DEF n
<1>5. DOMAIN parents' = Made(n + k)
  <2>1. made = {Ids[i] : i \in (n + 1)..(n + k)}
    <3>1. \A i \in 1..k : n + i \in (n + 1)..(n + k)
      BY <1>1
    <3>2. \A i \in (n + 1)..(n + k) : i - n \in 1..k /\ n + (i - n) = i
      BY <1>1
    <3> QED
      BY <1>3, <3>1, <3>2
  <2>2. 1..(n + k) = 1..n \union (n + 1)..(n + k)
    BY <1>1
  <2> HIDE DEF made
  <2> QED
    BY <1>1, <1>4, <2>1, <2>2 DEF Made
<1>6. Cardinality(DOMAIN parents') = n + k
  BY <1>1, <1>5, MadeCounts
<1>7. ASSUME NEW i \in 1..k
      PROVE  Fresh(i) \notin DOMAIN parents /\ parents'[Fresh(i)] = new[i]
  <2>1. ASSUME NEW j \in 1..n PROVE Ids[j] # Ids[n + i]
    BY <1>1, <1>2, RevisionsAssumption
  <2>2. Fresh(i) \notin DOMAIN parents
    BY <1>1, <1>3, <2>1 DEF Made
  <2>3. \A j \in 1..k : Fresh(j) = Fresh(i) => j = i
    <3>1. ASSUME NEW j \in 1..k, Ids[n + j] = Ids[n + i] PROVE n + j = n + i
      <4>1. n + j \in 1..(n + k) /\ n + i \in 1..(n + k)
        BY <1>1
      <4> QED
        BY <1>2, <3>1, <4>1, RevisionsAssumption
    <3> QED
      BY <1>1, <1>3, <3>1
  <2>4. (CHOOSE j \in 1..k : Fresh(j) = Fresh(i)) = i
    BY <2>3
  <2> QED
    BY <1>4, <2>2, <2>4
<1>8. InOrder(parents', n + k)
  <2>1. ASSUME NEW i \in 1..(n + k)
        PROVE  parents'[Ids[i]] \subseteq Made(i - 1)
    <3>1. CASE i <= n
      <4>1. i \in 1..n /\ Ids[i] \in DOMAIN parents
        BY <1>1, <3>1 DEF Made
      <4> QED
        BY <1>1, <1>4, <4>1 DEF InOrder
    <3>2. CASE i > n
      <4> DEFINE j == i - n
      <4>1. j \in 1..k /\ i = n + j /\ Ids[i] = Fresh(j)
        BY <1>1, <1>3, <3>2
      <4>2. parents'[Ids[i]] = new[j]
        BY <1>7, <4>1
      <4>3. present \subseteq Made(i - 1)
        <5>1. Made(n) \subseteq Made(i - 1)
          BY <1>1, <3>2 DEF Made
        <5> QED
          BY <1>1, <5>1 DEF PresentInv
      <4>4. \A m \in 1..(j - 1) : Fresh(m) \in Made(i - 1)
        <5> SUFFICES ASSUME NEW m \in 1..(j - 1) PROVE Fresh(m) \in Made(i - 1)
          OBVIOUS
        <5>1. n + m \in 1..(i - 1)
          BY <1>1, <4>1
        <5> QED
          BY <1>3, <5>1 DEF Made
      <4> HIDE DEF j
      <4> QED
        BY <4>1, <4>2, <4>3, <4>4
    <3> QED
      BY <1>1, <3>1, <3>2
  <2> QED
    BY <1>1, <1>5, <2>1 DEF InOrder
<1>9. GraphInv'
  BY <1>6, <1>8 DEF GraphInv
<1>10. ClosedIn(parents', present')
  <2>1. ASSUME NEW c \in present PROVE parents'[c] \subseteq present'
    BY <1>4 DEF PresentInv, ClosedIn
  <2>2. ASSUME NEW i \in 1..k PROVE parents'[Fresh(i)] \subseteq present'
    <3>1. \A j \in 1..(i - 1) : Fresh(j) \in made
      OBVIOUS
    <3> HIDE DEF made
    <3> QED
      BY <1>4, <1>7, <3>1
  <2> QED
    BY <1>4, <2>1, <2>2 DEF ClosedIn
<1> QED
  BY <1>4, <1>9, <1>10 DEF Grown, PresentInv

\* What was an ancestor stays one.
LEMMA AncestorsGrow ==
    ASSUME GraphInv, Grown, NEW c \in DOMAIN parents \union {None}
    PROVE  AncestorsOf(c) \subseteq AncestorsIn(parents', c)
<1>1. CASE c = None
  BY <1>1 DEF AncestorsOf, AncestorsIn
<1>2. CASE c # None
  <2>1. ClosedIn(parents, DOMAIN parents) /\ c \in DOMAIN parents /\ c \in DOMAIN parents'
    BY <1>2, OrderedIsClosed DEF GraphInv, Grown
  <2>2. AncestorsOf(c) = Reach(parents, c)
    BY <2>1, AncestorsAreReached DEF AncestorsOf, GraphInv
  <2>3. AncestorsIn(parents', c) = Reach(parents', c)
    BY <2>1, AncestorsAreReached DEF Grown, GraphInv
  <2>4. Reach(parents, c) \subseteq Reach(parents', c)
    BY <2>1, ReachGrows DEF Grown
  <2> QED
    BY <2>2, <2>3, <2>4
<1> QED
  BY <1>1, <1>2

\* A ref moves, over a history that may have grown.
LEMMA MoveKeeps ==
    ASSUME GraphInv, PresentInv, LogInv, Grown, NEW r, NEW new \in present' \union {None},
           Moves(r, new)
    PROVE  GraphInv' /\ PresentInv' /\ LogInv'
<1> DEFINE old == HeadOf(r)
           entries == IF r \in DOMAIN reflog THEN reflog[r] ELSE {}
           forward == new # None /\ (old = None \/ old \in AncestorsIn(parents', new))
<1>1. /\ DOMAIN refs' = DOMAIN refs \union {r} /\ refs'[r] = new
      /\ \A q \in DOMAIN refs : q # r => refs'[q] = refs[q]
      /\ DOMAIN reflog' = DOMAIN reflog \union {r}
      /\ reflog'[r] = entries \union ({old, new} \ {None})
      /\ \A q \in DOMAIN reflog : q # r => reflog'[q] = reflog[q]
      /\ strayed' = IF forward \/ {old, new} = {None} THEN strayed ELSE strayed \union {r}
  BY DEF Moves, Logs, WithRef, HeadOf
<1>2. GraphInv' /\ ClosedIn(parents', DOMAIN parents')
  BY OrderedIsClosed DEF Grown, GraphInv
<1>3. PresentInv'
  BY <1>1 DEF PresentInv, Grown
<1>4. \A q : HeadOf(q) \in present \union {None}
  BY DEF HeadOf, PresentInv, Exists
<1>5. ASSUME NEW q \in DOMAIN reflog' \ strayed'
      PROVE  reflog'[q] \subseteq AncestorsIn(parents', HeadOf(q)')
  <2>1. CASE q # r
    <3>1. HeadOf(q)' = HeadOf(q) /\ q \in DOMAIN reflog \ strayed /\ reflog'[q] = reflog[q]
      BY <1>1, <2>1 DEF HeadOf, Exists
    <3>2. AncestorsOf(HeadOf(q)) \subseteq AncestorsIn(parents', HeadOf(q))
      BY <1>4, AncestorsGrow DEF PresentInv
    <3> QED
      BY <3>1, <3>2 DEF LogInv
  <2>2. CASE q = r
    <3>1. HeadOf(q)' = new /\ r \notin strayed /\ (forward \/ {old, new} = {None})
      BY <1>1, <2>2 DEF HeadOf, Exists
    <3>2. entries \subseteq AncestorsIn(parents', old)
      <4>1. AncestorsOf(old) \subseteq AncestorsIn(parents', old)
        BY <1>4, AncestorsGrow DEF PresentInv
      <4> QED
        BY <3>1, <4>1 DEF LogInv
    <3>3. CASE forward
      <4>1. new \in DOMAIN parents' /\ AncestorsIn(parents', new) = Reach(parents', new)
        BY <1>2, <3>3, AncestorsAreReached DEF GraphInv, Grown
      <4>2. new \in AncestorsIn(parents', new)
        BY <1>2, <4>1, ReachIsLeast
      <4>3. AncestorsIn(parents', old) \subseteq AncestorsIn(parents', new)
        <5>1. CASE old = None
          BY <5>1 DEF AncestorsIn
        <5>2. CASE old # None
          <6>1. old \in Reach(parents', new) /\ old \in DOMAIN parents'
            BY <3>3, <4>1, <5>2, <1>2, ReachIsLeast
          <6>2. AncestorsIn(parents', old) = Reach(parents', old)
            BY <1>2, <6>1, AncestorsAreReached DEF GraphInv
          <6> QED
            BY <1>2, <4>1, <6>1, <6>2, ReachIsTransitive
        <5> QED
          BY <5>1, <5>2
      <4> QED
        BY <1>1, <2>2, <3>1, <3>2, <3>3, <4>2, <4>3
    <3>4. CASE {old, new} = {None}
      <4>1. old = None /\ new = None
        BY <3>4
      <4> QED
        BY <1>1, <2>2, <3>1, <3>2, <4>1
    <3> QED
      BY <3>1, <3>3, <3>4
  <2> QED
    BY <2>1, <2>2
<1>6. LogInv'
  BY <1>5 DEF LogInv, AncestorsOf
<1> QED
  BY <1>2, <1>3, <1>6

\* A ref is deleted: its log has strayed, unless the branch was empty.
LEMMA DropKeeps ==
    ASSUME GraphInv, PresentInv, LogInv, NEW r, Drops(r)
    PROVE  GraphInv' /\ PresentInv' /\ LogInv'
<1>1. /\ r \in DOMAIN refs /\ DOMAIN refs' = DOMAIN refs \ {r}
      /\ \A q \in DOMAIN refs : q # r => refs'[q] = refs[q]
      /\ parents' = parents /\ present' = present
      /\ DOMAIN reflog' = DOMAIN reflog \union {r}
      /\ reflog'[r] = (IF r \in DOMAIN reflog THEN reflog[r] ELSE {}) \union ({refs[r]} \ {None})
      /\ \A q \in DOMAIN reflog : q # r => reflog'[q] = reflog[q]
      /\ strayed' = IF refs[r] = None THEN strayed ELSE strayed \union {r}
  BY DEF Drops, Logs, WithRef, WithoutRef, Exists
<1>2. GraphInv' /\ PresentInv'
  BY <1>1 DEF GraphInv, PresentInv
<1>3. ASSUME NEW q \in DOMAIN reflog' \ strayed'
      PROVE  reflog'[q] \subseteq AncestorsIn(parents, HeadOf(q)')
  <2>1. CASE q # r
    BY <1>1, <2>1 DEF HeadOf, Exists, LogInv, AncestorsOf
  <2>2. CASE q = r
    BY <1>1, <2>2 DEF HeadOf, Exists, LogInv, AncestorsOf
  <2> QED
    BY <2>1, <2>2
<1>4. LogInv'
  BY <1>1, <1>3 DEF LogInv, AncestorsOf
<1> QED
  BY <1>2, <1>4

LEMMA NothingGrows ==
    ASSUME GraphInv, PresentInv, UNCHANGED <<parents, present>>
    PROVE  Grown
  BY DEF Grown, GraphInv, PresentInv

\* One new commit, with present parents.
LEMMA MakeOneGrows ==
    ASSUME GraphInv, PresentInv, Room(1), NEW above \in SUBSET present, Make(<<above>>)
    PROVE  Grown /\ Fresh(1) \in present'
<1>1. DOMAIN <<above>> = 1..1 /\ <<above>>[1] = above
  OBVIOUS
<1>2. \A i \in 1..1 : <<above>>[i] \subseteq present \union {Fresh(j) : j \in 1..(i - 1)}
  BY <1>1
<1> DEFINE new == <<above>>
<1>3. DOMAIN new = 1..1 /\ Make(new)
      /\ \A i \in 1..1 : new[i] \subseteq present \union {Fresh(j) : j \in 1..(i - 1)}
  BY <1>1, <1>2
<1> HIDE DEF new
<1>4. 1 \in Nat /\ 1 \in 1..1
  OBVIOUS
<1>5. Grown /\ \A i \in 1..1 : Fresh(i) \in present'
  BY <1>3, <1>4, MakeGrows
<1> QED
  BY <1>4, <1>5

\* A new line of commits.
LEMMA SquashGrows ==
    ASSUME GraphInv, PresentInv, NEW length \in Nat \ {0}, Room(length),
           Make([i \in 1..length |-> IF i = 1 THEN {} ELSE {Fresh(i - 1)}])
    PROVE  Grown /\ Fresh(length) \in present'
<1> DEFINE new == [i \in 1..length |-> IF i = 1 THEN {} ELSE {Fresh(i - 1)}]
<1>1. ASSUME NEW i \in 1..length
      PROVE  new[i] \subseteq present \union {Fresh(j) : j \in 1..(i - 1)}
  <2>1. i # 1 => i - 1 \in 1..(i - 1)
    OBVIOUS
  <2> QED
    BY <2>1
<1>2. DOMAIN new = 1..length /\ Make(new)
  OBVIOUS
<1> HIDE DEF new
<1>3. Grown /\ \A i \in 1..length : Fresh(i) \in present'
  BY <1>1, <1>2, MakeGrows
<1> QED
  BY <1>3

\* Both outcomes of a merge move the target to a present commit.
LEMMA MergeKeeps ==
    ASSUME GraphInv, PresentInv, LogInv, NEW t \in Texts, NEW rev \in Texts, Merge(t, rev)
    PROVE  GraphInv' /\ PresentInv' /\ LogInv'
<1> DEFINE source == ResolveRevision(rev)
           target == refs[Short(t)]
           r == Short(t)
<1>1. source \in present /\ target \in present \union {None}
  BY Resolved DEF Merge, PresentInv, IsTarget, Exists
<1>2. CASE UNCHANGED <<parents, present>> /\ Moves(r, source)
  <2> HIDE DEF source, r
  <2>1. source \in present' \union {None} /\ Grown
    BY <1>1, <1>2, NothingGrows
  <2> QED
    BY <1>2, <2>1, MoveKeeps
<1>3. CASE target # None /\ Room(1) /\ Make(<< {target, source} >>) /\ Moves(r, Fresh(1))
  <2> HIDE DEF source, target, r
  <2>1. {target, source} \in SUBSET present
    BY <1>1, <1>3
  <2>2. Grown /\ Fresh(1) \in present' \union {None}
    BY <1>3, <2>1, MakeOneGrows
  <2> QED
    BY <1>3, <2>2, MoveKeeps
<1> QED
  BY <1>2, <1>3 DEF Merge

\* gc keeps what is reachable, with everything above it.
LEMMA GcKeeps ==
    ASSUME GraphInv, PresentInv, LogInv, Gc
    PROVE  GraphInv' /\ PresentInv' /\ LogInv'
<1>1. present' = Live(refs) /\ UNCHANGED <<refs, parents, reflog, strayed>>
  BY DEF Gc
<1>2. \A r \in DOMAIN refs :
          /\ AncestorsOf(refs[r]) \subseteq present
          /\ refs[r] # None => refs[r] \in AncestorsOf(refs[r])
                               /\ ClosedIn(parents, AncestorsOf(refs[r]))
          /\ refs[r] = None => AncestorsOf(refs[r]) = {}
  BY AncestorsPresent DEF PresentInv, AncestorsOf, AncestorsIn
<1>3. Live(refs) \subseteq present /\ ClosedIn(parents, Live(refs))
  BY <1>2 DEF Live, ClosedIn
<1>4. \A r \in DOMAIN refs : refs[r] \in Live(refs) \union {None}
  BY <1>2 DEF Live
<1>5. PresentInv'
  BY <1>1, <1>3, <1>4 DEF PresentInv
<1>6. GraphInv' /\ LogInv'
  BY <1>1 DEF GraphInv, LogInv, HeadOf, Exists, AncestorsOf
<1> QED
  BY <1>5, <1>6

LEMMA RefsInitInv == RefsInit => RefsInv
<1> SUFFICES ASSUME RefsInit PROVE RefsInv
  OBVIOUS
<1>1. DOMAIN parents = {} /\ present = {} /\ DOMAIN reflog = {}
      /\ \A r \in DOMAIN refs : refs[r] = None
  BY DEF RefsInit
<1>2. GraphInv
  <2>1. Cardinality({}) = 0
    BY FS_EmptySet
  <2>2. InOrder(parents, 0)
    BY <1>1, RevisionsAssumption DEF InOrder, Made
  <2> QED
    BY <1>1, <2>1, <2>2 DEF GraphInv
<1>3. PresentInv /\ LogInv
  BY <1>1 DEF PresentInv, ClosedIn, LogInv
<1> QED
  BY <1>2, <1>3, NamesInit DEF RefsInv

LEMMA RefsNextInv == RefsInv /\ [RefsNext]_refVars => RefsInv'
<1> SUFFICES ASSUME RefsInv, [RefsNext]_refVars PROVE RefsInv'
  OBVIOUS
<1> DEFINE Kept == GraphInv' /\ PresentInv' /\ LogInv'
<1>1. NamesInv' /\ GraphInv /\ PresentInv /\ LogInv
  BY NamesStep DEF RefsInv
<1> SUFFICES Kept
  BY <1>1 DEF RefsInv
<1>2. ASSUME NEW r, NEW new, new # NotFound, new \in present \union {None, NotFound},
             UNCHANGED <<parents, present>>, Moves(r, new)
      PROVE  Kept
  <2>1. Grown /\ new \in present' \union {None}
    BY <1>1, <1>2, NothingGrows
  <2> QED
    BY <1>1, <1>2, <2>1, MoveKeeps
<1>3. ASSUME NEW t \in Texts, NEW rev \in Texts,
             CreateBranch(t, rev) \/ CreateTag(t, rev) \/ ResetRef(t, rev)
      PROVE  Kept
  <2> DEFINE new == ResolveRevision(rev)
             branch == Written(t)
             tag == Tag(Normalized(t))
  <2>1. /\ new # NotFound /\ UNCHANGED <<parents, present>>
        /\ Moves(branch, new) \/ Moves(tag, new)
    BY <1>3 DEF CreateBranch, CreateTag, ResetRef
  <2>2. new \in present \union {None, NotFound}
    BY <1>1, Resolved
  <2> HIDE DEF new, branch, tag, Kept
  <2> QED
    BY <1>2, <2>1, <2>2
<1>4. ASSUME NEW t \in Texts, DeleteBranch(t) \/ DeleteTag(t)
      PROVE  Kept
  <2> DEFINE branch == Written(t)
             tag == Tag(Normalized(t))
  <2>1. Drops(branch) \/ Drops(tag)
    BY <1>4 DEF DeleteBranch, DeleteTag
  <2> HIDE DEF branch, tag
  <2> QED
    BY <1>1, <2>1, DropKeeps
<1>5. ASSUME NEW t \in Texts, CreateCommit(t)
      PROVE  Kept
  <2> DEFINE branch == Written(t)
             above == {refs[branch]} \ {None}
  <2>1. above \in SUBSET present /\ Room(1) /\ Make(<<above>>) /\ Moves(branch, Fresh(1))
    BY <1>1, <1>5 DEF CreateCommit, PresentInv, Exists
  <2> HIDE DEF branch, above
  <2>2. Grown /\ Fresh(1) \in present' \union {None}
    BY <1>1, <2>1, MakeOneGrows
  <2> QED
    BY <1>1, <2>1, <2>2, MoveKeeps
<1>6. ASSUME NEW t \in Texts, NEW length \in DOMAIN Ids, SquashHistory(t, length)
      PROVE  Kept
  <2> DEFINE branch == Short(t)
  <2>1. length \in Nat \ {0}
    BY RevisionsAssumption
  <2>2. /\ Make([i \in 1..length |-> IF i = 1 THEN {} ELSE {Fresh(i - 1)}])
        /\ Room(length) /\ Moves(branch, Fresh(length))
    BY <1>6 DEF SquashHistory
  <2> HIDE DEF branch
  <2>3. Grown /\ Fresh(length) \in present' \union {None}
    BY <1>1, <2>1, <2>2, SquashGrows
  <2> QED
    BY <1>1, <2>2, <2>3, MoveKeeps
<1>7. CASE UNCHANGED refVars
  BY <1>1, <1>7 DEF refVars, GraphInv, PresentInv, LogInv, HeadOf, Exists, AncestorsOf
<1> QED
  BY <1>1, <1>3, <1>4, <1>5, <1>6, <1>7, MergeKeeps, GcKeeps DEF RefsNext

\* list_repo_reflog: the log of a ref that only moved forward can be shown, and
\* the history of every ref can be read, after any number of other moves, deletions,
\* squashes and collections.
THEOREM LogsAnswer == RefsSpec => []ReflogsAnswer
<1>1. RefsInv => ReflogsAnswer
  <2> SUFFICES ASSUME RefsInv PROVE ReflogsAnswer
    OBVIOUS
  <2>1. ASSUME NEW r \in DOMAIN reflog \ strayed
        PROVE  ListRepoReflog(FullName(r)) = reflog[r]
    <3>1. Queried(FullName(r)) = {r}
      BY FullNamesAreRead DEF RefsInv, NamesInv, Known
    <3>2. Cardinality({r}) = 1
      BY FS_Singleton
    <3>3. reflog[r] \subseteq present
      <4>1. HeadOf(r) \in present \union {None}
        BY DEF RefsInv, PresentInv, HeadOf, Exists
      <4>2. AncestorsOf(HeadOf(r)) \subseteq present
        BY <4>1, AncestorsPresent DEF RefsInv
      <4> QED
        BY <4>2 DEF RefsInv, LogInv
    <3>4. (CHOOSE q \in {r} : TRUE) = r
      OBVIOUS
    <3> QED
      BY <3>1, <3>2, <3>3, <3>4 DEF ListRepoReflog
  <2>2. ASSUME NEW r \in DOMAIN refs, refs[r] # None
        PROVE  AncestorsOf(refs[r]) \subseteq present
    BY AncestorsPresent DEF RefsInv, PresentInv
  <2> QED
    BY <2>1, <2>2 DEF ReflogsAnswer
<1> QED
  BY <1>1, RefsInitInv, RefsNextInv, PTL DEF RefsSpec

================================================================================
