---------------------------- MODULE RepoStoreProofs ----------------------------
(***************************************************************************)
(* Theorems about RepoStore, for every set of clients, refs and objects.   *)
(*                                                                         *)
(* HistoryReadable and its companions are not inductive: that the files of *)
(* the committed history are there depends on what the writer has planned, *)
(* staged and published so far.  IInv says how much of the plan is true in *)
(* each phase.                                                             *)
(*                                                                         *)
(* The second part is about what the store accounts for: the reflog        *)
(* explains every ref, and a gc that commits has collected exactly what    *)
(* nothing reaches.  ReflogExplainsRefs is about durable metadata; it is   *)
(* kept because it holds of the open transaction too, and because a plan   *)
(* that waits for its ref update knows where the ref stands.               *)
(*                                                                         *)
(* The last part is the refinement: every step of the store is a step of   *)
(* VersionStore, or leaves the visible versions as they are.               *)
(*                                                                         *)
(* The first facts are about reachability; Ancestors is a least closed     *)
(* set, so they need no induction.                                         *)
(***************************************************************************)
EXTENDS RepoStore, InductionLemmas

\* Parents are commits.
LEMMA ParentsType ==
    ASSUME NEW c \in Commits
    PROVE  Parents(c) \subseteq Commits
  BY GraphAssumption DEF Parents

\* The ancestors of a commit are commits, the commit among them, and nothing
\* that a walk could still reach is missing.
LEMMA AncestorsClosed ==
    ASSUME NEW c \in Commits
    PROVE  /\ Ancestors[c] \subseteq Commits
           /\ c \in Ancestors[c]
           /\ Closed(Ancestors[c])
<1>1. Ancestors[c] \subseteq Commits /\ c \in Ancestors[c]
  BY DEF Ancestors
<1>2. ASSUME NEW a \in Ancestors[c], NEW q \in Parents(a)
      PROVE  q \in Ancestors[c]
  <2>1. a \in Commits /\ q \in Commits
    BY <1>1, ParentsType
  <2>2. ASSUME NEW S \in SUBSET Commits, c \in S, Closed(S)
        PROVE  q \in S
    <3>1. a \in S
      BY <2>2 DEF Ancestors
    <3>2. QED
      BY <2>2, <3>1 DEF Closed
  <2>3. QED
    BY <2>1, <2>2 DEF Ancestors
<1>3. QED
  BY <1>1, <1>2 DEF Closed

\* What a walk from H reaches contains H and is closed.
LEMMA ReachClosed ==
    ASSUME NEW H \in SUBSET Commits
    PROVE  /\ Reach(H) \subseteq Commits
           /\ H \subseteq Reach(H)
           /\ Closed(Reach(H))
  BY AncestorsClosed DEF Reach, Closed

\* A walk from H never leaves a closed set that contains H.
LEMMA ReachLeast ==
    ASSUME NEW S \in SUBSET Commits, NEW H \in SUBSET S, Closed(S)
    PROVE  Reach(H) \subseteq S
<1>1. ASSUME NEW c \in H, NEW a \in Ancestors[c]
      PROVE  a \in S
  BY <1>1 DEF Ancestors
<1>2. QED
  BY <1>1 DEF Reach

-----------------------------------------------------------------------------
\* The rows agree with each other: heads, parents, blobs, chunk places.
Consistent(m) ==
    /\ HeadsOf(m) \subseteq m.commits
    /\ Closed(m.commits)
    /\ \A c \in m.commits :
          /\ BlobsOf[c] \subseteq m.blobs
          /\ \A k \in ChunksOf[c] : Indexed(m, k)

\* Every row that speaks of a file has that file.
Backed(m) ==
    /\ m.blobs \subseteq blobFiles
    /\ \A k \in Chunks : Indexed(m, k) => HasChunk(m, k)

\* Adding the planned rows to those of the transaction leaves no gap.
PlanComplete ==
    /\ \A c \in plan.commits :
          /\ Parents(c) \subseteq work.commits \union plan.commits
          /\ BlobsOf[c] \subseteq work.blobs \union plan.blobs
          /\ \A k \in ChunksOf[c] : Indexed(work, k) \/ k \in plan.chunks
    /\ plan.new \in work.commits \union plan.commits \union {NoCommit, Absent}

\* What gc is about to drop is what nothing reaches.
GcPlanExact ==
    /\ plan.commits = work.commits \ Live(work)
    /\ plan.blobs = work.blobs \ LiveBlobs(work)
    /\ plan.chunks = LiveChunks(work)

PlanInv ==
    /\ phase = "staged" => PlanComplete
    /\ phase = "published" => plan.new \in work.commits \union {NoCommit, Absent}
    /\ phase = "gc staged" => GcPlanExact
    /\ phase = "sweep" => plan.blobs \intersect work.blobs = {}

LockInv ==
    /\ phase = "idle" <=> writer = Nobody
    /\ Readers # {} => writer = Nobody
    /\ \A p \in Readers : reading[p] \in db.commits

TxLogInv ==
    /\ db.txlog = {}
    /\ phase \in {"locked", "ready", "collect", "sweep"} => work.txlog = {}
    /\ phase \in {"staged", "published", "updated"} => work.txlog \subseteq {"write"}
    /\ phase = "gc staged" => work.txlog \subseteq {"gc"}

RowsInv ==
    /\ Consistent(db)
    /\ writer # Nobody => Consistent(work)

FilesInv ==
    /\ ~interrupted /\ phase # "sweep" => Backed(db)
    /\ ~interrupted /\ writer # Nobody => Backed(work)

IInv == TypeOK /\ LockInv /\ TxLogInv /\ PlanInv /\ RowsInv /\ FilesInv

-----------------------------------------------------------------------------
\* What the refs of well-typed metadata reach is a closed set of commits.
LEMMA LiveClosed ==
    ASSUME NEW m \in Metadata
    PROVE  /\ HeadsOf(m) \subseteq Live(m)
           /\ Live(m) \subseteq Commits
           /\ Closed(Live(m))
<1>1. HeadsOf(m) \in SUBSET Commits
  BY DEF HeadsOf
<1>2. QED
  BY <1>1, ReachClosed DEF Live

\* In consistent metadata nothing that the refs reach lacks its row.
LEMMA LiveStored ==
    ASSUME NEW m \in Metadata, Consistent(m)
    PROVE  Live(m) \subseteq m.commits
<1>1. m.commits \in SUBSET Commits
  BY DEF Metadata
<1>2. HeadsOf(m) \in SUBSET m.commits /\ Closed(m.commits)
  BY DEF Consistent
<1>3. QED
  BY <1>1, <1>2, ReachLeast DEF Live

\* Consistent metadata whose files are all there can be read back.
LEMMA LiveReadable ==
    ASSUME NEW m \in Metadata, Consistent(m), Backed(m),
           NEW c \in m.commits
    PROVE  Readable(m, c)
<1>1. c \in Commits /\ BlobsOf[c] \subseteq m.blobs
  BY DEF Metadata, Consistent
<1>2. ASSUME NEW k \in ChunksOf[c]
      PROVE  HasChunk(m, k)
  <2>1. k \in Chunks
    BY <1>1, ObjectsAssumption
  <2>2. QED
    BY <2>1 DEF Consistent, Backed
<1>3. QED
  BY <1>1, <1>2 DEF Readable, HasBlob, Backed

-----------------------------------------------------------------------------
\* The empty plan is a plan.
LEMMA NoPlanType == NoPlan \in Plan
  BY NamesAssumption DEF NoPlan, Plan, Refs, Heads, Messages

\* The initial states satisfy the invariant.
LEMMA InitIInv == Init => IInv
<1> SUFFICES ASSUME Init PROVE IInv
  OBVIOUS
<1> USE DEF Init
<1>1. PICK head \in {InitialCommit, NoCommit} :
        db = [refs |-> [r \in Refs |-> IF r = DefaultBranch THEN head
                                                            ELSE Absent],
              reflog |-> IF head = NoCommit THEN << >>
                         ELSE << [ref |-> DefaultBranch, old |-> NoCommit,
                                  new |-> head, message |-> "commit"] >>,
              commits |-> {head} \ {NoCommit},
              blobs |-> {},
              chunkLoc |-> [k \in Chunks |-> NoPack],
              txlog |-> {}]
  OBVIOUS
<1>2. db \in Metadata
  <2>1. head \in Heads /\ {head} \ {NoCommit} \subseteq Commits
    BY ObjectsAssumption DEF Heads
  <2>2. [ref |-> DefaultBranch, old |-> NoCommit, new |-> head,
         message |-> "commit"] \in LogEntry
    BY <2>1, NamesAssumption DEF LogEntry, Refs, Heads, Messages
  <2>3. db.reflog \in Seq(LogEntry)
    BY <1>1, <2>2
  <2>4. QED
    BY <1>1, <2>1, <2>3 DEF Metadata, TxKinds
<1>3. TypeOK
  BY <1>2, NoPlanType DEF TypeOK, Phases, TxKinds
<1>4. LockInv /\ TxLogInv /\ PlanInv
  BY <1>1 DEF LockInv, TxLogInv, PlanInv, Readers
<1>5. Consistent(db)
  <2>1. HeadsOf(db) \subseteq {head} \ {NoCommit}
    <3>1. \A r \in Refs : db.refs[r] \in {head, Absent}
      BY <1>1
    <3>2. QED
      BY <3>1, NamesAssumption DEF HeadsOf
  <2>2. \A c \in db.commits : c = InitialCommit
    BY <1>1
  <2>3. Parents(InitialCommit) = {}
    BY ObjectsAssumption DEF Parents
  <2>4. QED
    BY <1>1, <2>1, <2>2, <2>3, ObjectsAssumption DEF Consistent, Closed
<1>6. RowsInv /\ FilesInv
  BY <1>1, <1>5 DEF RowsInv, FilesInv, Backed, Indexed
<1>7. QED
  BY <1>3, <1>4, <1>6 DEF IInv

-----------------------------------------------------------------------------
(***************************************************************************)
(* Steps that begin and end the lock scope.                                *)
(***************************************************************************)
\* Only the transaction log tells m from n: they agree on everything else.
SameRows(m, n) ==
    /\ m.refs = n.refs
    /\ m.commits = n.commits
    /\ m.blobs = n.blobs
    /\ m.chunkLoc = n.chunkLoc

\* Consistency looks at nothing but refs, objects and the chunk index.
LEMMA SameRowsConsistent ==
    ASSUME NEW m, NEW n, SameRows(m, n), Consistent(m)
    PROVE  Consistent(n)
  BY DEF SameRows, Consistent, HeadsOf, Indexed

\* Neither does the question whether the files behind the rows are there.
LEMMA SameRowsBacked ==
    ASSUME NEW m, NEW n, SameRows(m, n), Backed(m)
    PROVE  Backed(n)
  BY DEF SameRows, Backed, HasChunk, Indexed

\* _write_locked() starts from the durable rows, which are consistent.
LEMMA AcquireIInv == ASSUME IInv, NEW p \in Clients, Acquire(p) PROVE IInv'
<1> USE DEF IInv, Acquire, LockFree, Files
<1>1. db' = db /\ blobFiles' = blobFiles /\ packFiles' = packFiles
  OBVIOUS
<1>2. work' \in Metadata /\ SameRows(db, work') /\ work'.txlog = {}
  BY DEF TypeOK, Metadata, SameRows
<1>3. TypeOK'
  BY <1>2 DEF TypeOK, Phases
<1>4. LockInv'
  BY NamesAssumption DEF LockInv, Readers
<1>5. TxLogInv' /\ PlanInv'
  BY <1>2 DEF TxLogInv, PlanInv
<1>6. RowsInv'
  BY <1>1, <1>2, SameRowsConsistent DEF RowsInv
<1>7. FilesInv'
  <2>1. phase = "idle"
    BY DEF LockInv
  <2>2. Backed(db)' <=> Backed(db)
    BY <1>1 DEF Backed, HasChunk, Indexed
  <2>3. Backed(work)' <=> Backed(work')
    BY <1>1 DEF Backed, HasChunk, Indexed
  <2>4. QED
    BY <1>2, <2>1, <2>2, <2>3, SameRowsBacked DEF FilesInv
<1>8. QED
  BY <1>3, <1>4, <1>5, <1>6, <1>7

\* The SQLite commit makes the rows of the transaction durable: they were
\* consistent and backed by files already.
LEMMA CommitTxIInv == ASSUME IInv, NEW p \in Clients, CommitTx(p) PROVE IInv'
<1> USE DEF IInv, CommitTx, Release, Files
<1>1. /\ db' = work /\ work' = work /\ writer' = Nobody /\ phase' = "idle"
      /\ blobFiles' = blobFiles /\ packFiles' = packFiles
      /\ interrupted' = interrupted /\ reading' = reading
  OBVIOUS
<1>2. writer = p /\ writer # Nobody /\ phase \in {"ready", "sweep"}
  BY NamesAssumption
<1>3. TypeOK'
  BY NoPlanType DEF TypeOK, Phases
<1>4. Readers = {} /\ LockInv'
  BY <1>1, <1>2 DEF LockInv, Readers
<1>5. TxLogInv' /\ PlanInv'
  BY <1>1, <1>2 DEF TxLogInv, PlanInv
<1>6. RowsInv'
  BY <1>1, <1>2 DEF RowsInv
<1>7. FilesInv'
  <2>1. Backed(db)' <=> Backed(work)
    BY <1>1 DEF Backed, HasChunk, Indexed
  <2>2. QED
    BY <1>1, <1>2, <2>1 DEF FilesInv
<1>8. QED
  BY <1>3, <1>4, <1>5, <1>6, <1>7

\* An exception and a crash have the same effect but for the directory.
LEMMA StopIInv ==
    ASSUME IInv, NEW p \in Clients, Fail(p) \/ Crash(p)
    PROVE  IInv'
<1> USE DEF IInv, Fail, Crash, Rollback, Release, Files
<1>1. /\ db' = db /\ work' = db /\ writer' = Nobody /\ phase' = "idle"
      /\ blobFiles' = blobFiles /\ packFiles' = packFiles /\ plan' = NoPlan
      /\ interrupted' = (interrupted \/ phase = "sweep") /\ reading' = reading
  OBVIOUS
<1>2. writer = p /\ writer # Nobody /\ txdirs' \subseteq txdirs
  BY NamesAssumption
<1>3. TypeOK'
  BY <1>1, <1>2, NoPlanType DEF TypeOK, Phases
<1>4. LockInv'
  BY <1>1, <1>2 DEF LockInv, Readers
<1>5. TxLogInv' /\ PlanInv'
  BY <1>1 DEF TxLogInv, PlanInv
<1>6. RowsInv'
  BY <1>1 DEF RowsInv
<1>7. FilesInv'
  <2>1. Backed(db)' <=> Backed(db)
    BY <1>1 DEF Backed, HasChunk, Indexed
  <2>2. QED
    BY <1>1, <2>1 DEF FilesInv, TypeOK
<1>8. QED
  BY <1>3, <1>4, <1>5, <1>6, <1>7

-----------------------------------------------------------------------------
(***************************************************************************)
(* Requests.  All that change something go through Begin: it is enough     *)
(* that the plan fits the transaction.                                     *)
(***************************************************************************)
\* Recording what is to be published disturbs nothing, if what the planned
\* commits need is in the transaction or in the plan.
LEMMA BeginIInv ==
    ASSUME IInv, NEW p \in Clients, NEW pl \in Plan,
           NEW next \in {"staged", "published"},
           Begin(p, pl, next),
           next = "staged" =>
             /\ \A c \in pl.commits :
                   /\ Parents(c) \subseteq work.commits \union pl.commits
                   /\ BlobsOf[c] \subseteq work.blobs \union pl.blobs
                   /\ \A k \in ChunksOf[c] : Indexed(work, k) \/ k \in pl.chunks
             /\ pl.new \in work.commits \union pl.commits \union {NoCommit, Absent},
           next = "published" => pl.new \in work.commits \union {NoCommit, Absent}
    PROVE  IInv'
<1> USE DEF IInv, Begin, Files
<1>1. /\ db' = db /\ writer' = writer /\ phase' = next /\ plan' = pl
      /\ blobFiles' = blobFiles /\ packFiles' = packFiles /\ reading' = reading
      /\ interrupted' = interrupted /\ txdirs' = txdirs \union {"write"}
      /\ writer = p /\ phase = "locked"
  OBVIOUS
<1>2. /\ work' \in Metadata /\ SameRows(work, work')
      /\ work'.txlog = work.txlog \union {"write"}
  BY DEF TypeOK, Metadata, SameRows, TxKinds
<1>3. TypeOK'
  BY <1>1, <1>2 DEF TypeOK, Phases, TxKinds
<1>4. LockInv'
  BY <1>1 DEF LockInv, Readers
<1>5. TxLogInv'
  BY <1>1, <1>2 DEF TxLogInv
<1>6. PlanInv'
  <2>1. next = "staged" => PlanComplete'
    BY <1>1, <1>2 DEF PlanComplete, SameRows, Indexed
  <2>2. QED
    BY <1>1, <1>2, <2>1 DEF PlanInv, SameRows
<1>7. RowsInv'
  BY <1>1, <1>2, SameRowsConsistent DEF RowsInv
<1>8. FilesInv'
  <2>1. Backed(db)' <=> Backed(db)
    BY <1>1 DEF Backed, HasChunk, Indexed
  <2>2. Backed(work)' <=> Backed(work')
    BY <1>1 DEF Backed, HasChunk, Indexed
  <2>3. QED
    BY <1>1, <1>2, <2>1, <2>2, SameRowsBacked DEF FilesInv
<1>9. QED
  BY <1>3, <1>4, <1>5, <1>6, <1>7, <1>8

\* The plan of a ref update, and what it has in common with every plan.
LEMMA RefPlanType ==
    ASSUME NEW r \in Refs, NEW old \in Heads, NEW new \in Heads \union {Absent},
           NEW message \in Messages
    PROVE  /\ RefPlan(r, old, new, message) \in Plan
           /\ RefPlan(r, old, new, message).new = new
           /\ RefPlan(r, old, new, message).commits = {}
           /\ RefPlan(r, old, new, message).blobs = {}
           /\ RefPlan(r, old, new, message).chunks = {}
  BY NoPlanType DEF RefPlan, Plan, NoPlan

\* A ref may be pointed at any commit whose row exists: nothing is published.
LEMMA MoveRefIInv ==
    ASSUME IInv, NEW p \in Clients, NEW r \in Refs, NEW old \in Heads,
           NEW new \in work.commits \union {NoCommit, Absent},
           NEW message \in Messages,
           Begin(p, RefPlan(r, old, new, message), "published")
    PROVE  IInv'
<1> DEFINE pl == RefPlan(r, old, new, message)
<1>1. new \in Heads \union {Absent}
  BY DEF IInv, TypeOK, Metadata, Heads
<1>2. pl \in Plan /\ pl.new = new
  BY <1>1, RefPlanType
<1>3. Begin(p, pl, "published")
  OBVIOUS
<1> HIDE DEF pl
<1>4. QED
  BY <1>2, <1>3, BeginIInv

\* create_commit(): what is not uploaded was kept from a commit with rows.
LEMMA CreateCommitIInv ==
    ASSUME IInv, NEW p \in Clients, CreateCommit(p)
    PROVE  IInv'
<1>1. PICK b \in Branches, parent \in work.commits \union {AnyHead}, c \in Commits :
        /\ work.refs[b] # Absent
        /\ parent \in {AnyHead, work.refs[b]}
        /\ ParentsOf[c] = AsParents(work.refs[b])
        /\ \E keptBlobs \in SUBSET (BlobsOf[c] \intersect StoredBlobs(work)),
              keptChunks \in SUBSET (ChunksOf[c] \intersect StoredChunks(work)) :
              LET uploaded == ChunksOf[c] \ keptChunks
              IN  /\ \A k \in uploaded :
                        Indexed(work, k) => packFiles[work.chunkLoc[k]] # {}
                  /\ Begin(p,
                       [RefPlan(b, work.refs[b], c, "commit") EXCEPT
                          !.commits = {c},
                          !.blobs = BlobsOf[c] \ keptBlobs,
                          !.chunks = {k \in uploaded : ~Indexed(work, k)}],
                       "staged")
  BY DEF CreateCommit
<1>2. PICK keptBlobs \in SUBSET (BlobsOf[c] \intersect StoredBlobs(work)),
           keptChunks \in SUBSET (ChunksOf[c] \intersect StoredChunks(work)) :
        Begin(p,
          [RefPlan(b, work.refs[b], c, "commit") EXCEPT
             !.commits = {c},
             !.blobs = BlobsOf[c] \ keptBlobs,
             !.chunks = {k \in ChunksOf[c] \ keptChunks : ~Indexed(work, k)}],
          "staged")
  BY <1>1
<1> DEFINE pl == [RefPlan(b, work.refs[b], c, "commit") EXCEPT
                    !.commits = {c},
                    !.blobs = BlobsOf[c] \ keptBlobs,
                    !.chunks = {k \in ChunksOf[c] \ keptChunks : ~Indexed(work, k)}]
<1>3. work \in Metadata /\ b \in Refs /\ work.refs[b] \in Heads
  BY <1>1 DEF IInv, TypeOK, Metadata, Refs
<1>4. BlobsOf[c] \subseteq Blobs /\ ChunksOf[c] \subseteq Chunks
  BY ObjectsAssumption
<1>5. /\ pl \in Plan /\ pl.commits = {c} /\ pl.new = c
      /\ pl.blobs = BlobsOf[c] \ keptBlobs
      /\ pl.chunks = {k \in ChunksOf[c] \ keptChunks : ~Indexed(work, k)}
  <2> DEFINE base == RefPlan(b, work.refs[b], c, "commit")
  <2>1. c \in Heads /\ "commit" \in Messages
    BY DEF Heads, Messages
  <2>2. base \in Plan /\ base.new = c
    BY <1>3, <2>1, RefPlanType
  <2> HIDE DEF base
  <2>3. /\ {c} \in SUBSET Commits /\ BlobsOf[c] \ keptBlobs \in SUBSET Blobs
        /\ {k \in ChunksOf[c] \ keptChunks : ~Indexed(work, k)} \in SUBSET Chunks
    BY <1>4
  <2>4. pl = [base EXCEPT
                !.commits = {c},
                !.blobs = BlobsOf[c] \ keptBlobs,
                !.chunks = {k \in ChunksOf[c] \ keptChunks : ~Indexed(work, k)}]
    BY DEF base
  <2> HIDE DEF pl
  <2>5. QED
    BY <2>2, <2>3, <2>4 DEF Plan
<1>6. Consistent(work)
  BY <1>1, NamesAssumption DEF IInv, RowsInv, LockInv, Begin
<1>7. Parents(c) \subseteq work.commits
  <2>1. work.refs[b] = NoCommit \/ work.refs[b] \in HeadsOf(work)
    BY <1>3 DEF HeadsOf, Heads
  <2>2. QED
    BY <1>1, <1>6, <2>1 DEF Parents, AsParents, Consistent
<1>8. keptBlobs \subseteq work.blobs
  BY <1>6 DEF StoredBlobs, Consistent
<1>9. \A k \in keptChunks : Indexed(work, k)
  BY <1>6 DEF StoredChunks, Consistent
<1>10. QED
  <2> HIDE DEF pl
  <2>1. Begin(p, pl, "staged")
    BY <1>2 DEF pl
  <2>2. \A d \in pl.commits :
           /\ Parents(d) \subseteq work.commits \union pl.commits
           /\ BlobsOf[d] \subseteq work.blobs \union pl.blobs
           /\ \A k \in ChunksOf[d] : Indexed(work, k) \/ k \in pl.chunks
    BY <1>5, <1>7, <1>8, <1>9
  <2>3. QED
    BY <1>5, <2>1, <2>2, BeginIInv

\* merge() that moves the head along.
LEMMA FastForwardIInv ==
    ASSUME IInv, NEW p \in Clients, FastForward(p)
    PROVE  IInv'
<1>1. PICK b \in Branches, source \in work.commits :
        /\ work.refs[b] # Absent
        /\ Begin(p, RefPlan(b, work.refs[b], source, "merge"), "published")
  BY DEF FastForward
<1>2. b \in Refs /\ work.refs[b] \in Heads /\ source \in Heads
  BY <1>1 DEF IInv, TypeOK, Metadata, Refs, Heads
<1>3. "merge" \in Messages
  BY DEF Messages
<1>4. QED
  BY <1>1, <1>2, <1>3, MoveRefIInv

\* merge() with a merge commit: its files are files of its two parents.
LEMMA MergeCommitIInv ==
    ASSUME IInv, NEW p \in Clients, MergeCommit(p)
    PROVE  IInv'
<1>1. PICK b \in Branches, source \in work.commits, c \in Commits :
        /\ work.refs[b] \in Commits
        /\ ParentsOf[c] = <<work.refs[b], source>>
        /\ BlobsOf[c] \subseteq BlobsOf[work.refs[b]] \union BlobsOf[source]
        /\ ChunksOf[c] \subseteq ChunksOf[work.refs[b]] \union ChunksOf[source]
        /\ Begin(p, [RefPlan(b, work.refs[b], c, "merge") EXCEPT !.commits = {c}],
                 "staged")
  BY DEF MergeCommit
<1> DEFINE pl == [RefPlan(b, work.refs[b], c, "merge") EXCEPT !.commits = {c}]
<1>2. b \in Refs /\ work.refs[b] \in Heads /\ c \in Heads
  BY <1>1 DEF Refs, Heads
<1>3. pl \in Plan /\ pl.commits = {c} /\ pl.new = c
  <2> DEFINE base == RefPlan(b, work.refs[b], c, "merge")
  <2>1. "merge" \in Messages
    BY DEF Messages
  <2>2. base \in Plan /\ base.new = c
    BY <1>2, <2>1, RefPlanType
  <2> HIDE DEF base
  <2>3. pl = [base EXCEPT !.commits = {c}]
    BY DEF base
  <2> HIDE DEF pl
  <2>4. QED
    BY <2>2, <2>3 DEF Plan
<1>4. Consistent(work)
  BY <1>1, NamesAssumption DEF IInv, RowsInv, LockInv, Begin
<1>5. work.refs[b] \in work.commits
  BY <1>1, <1>2, <1>4 DEF Consistent, HeadsOf
<1>6. Parents(c) \subseteq work.commits
  BY <1>1, <1>5 DEF Parents
<1>7. BlobsOf[c] \subseteq work.blobs /\ \A k \in ChunksOf[c] : Indexed(work, k)
  BY <1>1, <1>4, <1>5 DEF Consistent
<1>8. QED
  <2> HIDE DEF pl
  <2>1. Begin(p, pl, "staged")
    BY <1>1 DEF pl
  <2>2. QED
    BY <1>3, <1>6, <1>7, <2>1, BeginIInv

\* reset_ref().
LEMMA ResetRefIInv ==
    ASSUME IInv, NEW p \in Clients, ResetRef(p)
    PROVE  IInv'
<1>1. PICK b \in Branches, c \in work.commits :
        /\ work.refs[b] # Absent
        /\ Begin(p, RefPlan(b, work.refs[b], c, "reset ref"), "published")
  BY DEF ResetRef
<1>2. b \in Refs /\ work.refs[b] \in Heads /\ c \in Heads
  BY <1>1 DEF IInv, TypeOK, Metadata, Refs, Heads
<1>3. "reset ref" \in Messages
  BY DEF Messages
<1>4. QED
  BY <1>1, <1>2, <1>3, MoveRefIInv

\* create_branch() and create_tag().
LEMMA CreateRefIInv ==
    ASSUME IInv, NEW p \in Clients, CreateRef(p)
    PROVE  IInv'
<1>1. PICK r \in Refs, head \in work.commits \union {NoCommit} :
        Begin(p, RefPlan(r, NoCommit, head, "create"), "published")
  BY DEF CreateRef
<1>2. NoCommit \in Heads /\ head \in Heads
  BY DEF IInv, TypeOK, Metadata, Heads
<1>3. "create" \in Messages
  BY DEF Messages
<1>4. QED
  BY <1>1, <1>2, <1>3, MoveRefIInv

\* delete_branch() and delete_tag().
LEMMA DeleteRefIInv ==
    ASSUME IInv, NEW p \in Clients, DeleteRef(p)
    PROVE  IInv'
<1>1. PICK r \in Refs \ {DefaultBranch} :
        /\ work.refs[r] # Absent
        /\ Begin(p, RefPlan(r, work.refs[r], Absent, "delete"), "published")
  BY DEF DeleteRef
<1>2. work.refs[r] \in Heads
  BY <1>1 DEF IInv, TypeOK, Metadata
<1>3. "delete" \in Messages
  BY DEF Messages
<1>4. QED
  BY <1>1, <1>2, <1>3, MoveRefIInv

\* The chain that squash writes: what each member needs is the next member.
LEMMA ChainParents ==
    ASSUME NEW new \in Chains,
           \A i \in 1..Len(new) :
              Len(ParentsOf[new[i]]) = IF i = Len(new) THEN 0 ELSE 1
    PROVE  /\ \A i \in 1..Len(new) : new[i] \in Commits
           /\ \A i \in 1..Len(new) :
                 Parents(new[i]) \subseteq {new[j] : j \in 1..Len(new)}
           /\ 1 \in 1..Len(new)
<1>1. PICK n \in 1..MaxLineage :
        /\ new \in [1..n -> Commits]
        /\ \A i \in 1..(n - 1) : /\ ParentsOf[new[i]] # << >>
                                 /\ new[i + 1] = ParentsOf[new[i]][1]
  BY DEF Chains
<1>2. n \in Nat \ {0}
  BY GraphAssumption
<1>3. new \in Seq(Commits) /\ Len(new) = n
  BY <1>1, <1>2
<1>4. ASSUME NEW i \in 1..n
      PROVE  Parents(new[i]) \subseteq {new[j] : j \in 1..n}
  <2>1. new[i] \in Commits /\ ParentsOf[new[i]] \in Seq(Commits)
    BY <1>1, GraphAssumption
  <2>2. CASE i = n
    <3>1. Len(ParentsOf[new[i]]) = 0
      BY <1>3, <2>2
    <3>2. QED
      BY <2>1, <3>1 DEF Parents
  <2>3. CASE i # n
    <3>0. i \in 1..(n - 1) /\ i + 1 \in 1..n
      BY <1>2, <2>3
    <3>1. Len(ParentsOf[new[i]]) = 1
      BY <1>3, <2>3
    <3>2. DOMAIN ParentsOf[new[i]] = {1}
      BY <2>1, <3>1
    <3>3. Parents(new[i]) = {new[i + 1]}
      BY <1>1, <3>0, <3>2 DEF Parents
    <3>4. QED
      BY <3>0, <3>3
  <2>4. QED
    BY <2>2, <2>3
<1>5. QED
  BY <1>1, <1>2, <1>3, <1>4

\* The plan of a squash.
LEMMA SquashPlanType ==
    ASSUME NEW base \in Plan, NEW cs \in SUBSET Commits, NEW runGc \in BOOLEAN
    PROVE  /\ [base EXCEPT !.commits = cs, !.thenGc = runGc] \in Plan
           /\ [base EXCEPT !.commits = cs, !.thenGc = runGc].commits = cs
           /\ [base EXCEPT !.commits = cs, !.thenGc = runGc].new = base.new
  BY DEF Plan

\* A squash needs no file: the old chain has its content.
LEMMA SquashHistoryIInv ==
    ASSUME IInv, NEW p \in Clients, SquashHistory(p)
    PROVE  IInv'
<1>1. PICK b \in Branches, old \in Chains, new \in Chains, runGc \in BOOLEAN :
        /\ Len(old) = Len(new)
        /\ old[1] = work.refs[b]
        /\ \A i \in 1..Len(old) :
              /\ old[i] \in work.commits
              /\ BlobsOf[new[i]] = BlobsOf[old[i]]
              /\ ChunksOf[new[i]] = ChunksOf[old[i]]
              /\ Len(ParentsOf[new[i]]) = IF i = Len(new) THEN 0 ELSE 1
        /\ Begin(p, [RefPlan(b, old[1], new[1], "squash history") EXCEPT
                       !.commits = {new[i] : i \in 1..Len(new)},
                       !.thenGc = runGc],
                 "staged")
  BY DEF SquashHistory
<1> DEFINE cs == {new[i] : i \in 1..Len(new)}
<1>2. /\ \A i \in 1..Len(new) : new[i] \in Commits /\ Parents(new[i]) \subseteq cs
      /\ 1 \in 1..Len(new)
  BY <1>1, ChainParents
<1>3. b \in Refs /\ old[1] \in Heads /\ new[1] \in Heads /\ new[1] \in cs
  BY <1>1, <1>2 DEF Refs, Heads, IInv, TypeOK, Metadata
<1>4. PICK from \in Heads, to \in Heads : from = old[1] /\ to = new[1]
  BY <1>3
<1> DEFINE base == RefPlan(b, from, to, "squash history")
           pl == [base EXCEPT !.commits = cs, !.thenGc = runGc]
<1>5. pl \in Plan /\ pl.commits = cs /\ pl.new = to
  <2>1. "squash history" \in Messages
    BY DEF Messages
  <2>2. \A message \in Messages : /\ RefPlan(b, from, to, message) \in Plan
                                  /\ RefPlan(b, from, to, message).new = to
    BY <1>3, <1>4, RefPlanType
  <2>3. base \in Plan /\ base.new = to
    BY <2>1, <2>2
  <2>4. cs \in SUBSET Commits
    BY <1>2
  <2> HIDE DEF cs, base
  <2>5. QED
    BY <2>3, <2>4, SquashPlanType
<1>6. Consistent(work)
  BY <1>1, NamesAssumption DEF IInv, RowsInv, LockInv, Begin
<1>7. ASSUME NEW c \in cs
      PROVE  /\ Parents(c) \subseteq cs
             /\ BlobsOf[c] \subseteq work.blobs
             /\ \A k \in ChunksOf[c] : Indexed(work, k)
  <2>1. PICK i \in 1..Len(new) : c = new[i]
    OBVIOUS
  <2>2. /\ old[i] \in work.commits
        /\ BlobsOf[c] = BlobsOf[old[i]]
        /\ ChunksOf[c] = ChunksOf[old[i]]
    BY <1>1, <2>1
  <2>3. Parents(c) \subseteq cs
    BY <1>2, <2>1
  <2> HIDE DEF cs
  <2>4. QED
    BY <1>6, <2>2, <2>3 DEF Consistent
<1>8. Begin(p, pl, "staged")
  BY <1>1, <1>4
<1> HIDE DEF cs, pl
<1>9. QED
  BY <1>3, <1>4, <1>5, <1>7, <1>8, BeginIInv

\* Passing from the recovered transaction to its end or to gc.
LEMMA SkipIInv ==
    ASSUME IInv, NEW p \in Clients, NothingToDo(p) \/ RequestGc(p)
    PROVE  IInv'
<1> USE DEF IInv, NothingToDo, RequestGc, Files
<1>1. TypeOK' /\ LockInv' /\ TxLogInv' /\ PlanInv'
  BY DEF TypeOK, Phases, LockInv, Readers, TxLogInv, PlanInv
<1>2. RowsInv'
  BY DEF RowsInv
<1>3. FilesInv'
  <2>1. Backed(db)' <=> Backed(db)
    BY DEF Backed, HasChunk, Indexed
  <2>2. Backed(work)' <=> Backed(work)
    BY DEF Backed, HasChunk, Indexed
  <2>3. QED
    BY <2>1, <2>2 DEF FilesInv
<1>4. QED
  BY <1>1, <1>2, <1>3

-----------------------------------------------------------------------------
(***************************************************************************)
(* Publication.                                                            *)
(***************************************************************************)
\* More blob files never hurt.
LEMMA PublishBlobIInv ==
    ASSUME IInv, NEW p \in Clients, PublishBlob(p)
    PROVE  IInv'
<1> USE DEF IInv, PublishBlob
<1>1. /\ blobFiles \subseteq blobFiles' /\ blobFiles' \in SUBSET Blobs
  BY DEF TypeOK, Plan
<1>2. TypeOK'
  BY <1>1 DEF TypeOK
<1>3. LockInv' /\ TxLogInv'
  BY DEF LockInv, Readers, TxLogInv
<1>4. PlanInv'
  BY DEF PlanInv, PlanComplete, Indexed
<1>5. RowsInv'
  BY DEF RowsInv
<1>6. FilesInv'
  <2>1. Backed(db) => Backed(db)'
    BY <1>1 DEF Backed, HasChunk, Indexed
  <2>2. Backed(work) => Backed(work)'
    BY <1>1 DEF Backed, HasChunk, Indexed
  <2>3. QED
    BY <2>1, <2>2 DEF FilesInv
<1>7. QED
  BY <1>2, <1>3, <1>4, <1>5, <1>6

\* A fresh pack has no row, so writing it spoils none.
LEMMA WritePackBacked ==
    ASSUME packFiles \in [Packs -> SUBSET Chunks],
           NEW ks \in SUBSET Chunks, NEW q \in Packs, WritePack(ks, q),
           blobFiles' = blobFiles, NEW m \in Metadata, Backed(m),
           m = db \/ m = work
    PROVE  /\ m.blobs \subseteq blobFiles'
           /\ \A k \in Chunks : Indexed(m, k) => k \in packFiles'[m.chunkLoc[k]]
<1>1. ASSUME NEW k \in Chunks, Indexed(m, k)
      PROVE  k \in packFiles'[m.chunkLoc[k]]
  <2>1. k \in packFiles[m.chunkLoc[k]] /\ m.chunkLoc[k] \in Packs
    BY <1>1 DEF Backed, HasChunk, Indexed, Metadata
  <2>2. QED
    BY <2>1 DEF WritePack, FreshPack
<1>2. QED
  BY <1>1 DEF Backed

\* The ref moves to a commit whose row is in the transaction by then.
LEMMA UpdateRefIInv ==
    ASSUME IInv, NEW p \in Clients, UpdateRef(p)
    PROVE  IInv'
<1> USE DEF IInv, UpdateRef, Files
<1> DEFINE e == [ref |-> plan.ref, old |-> plan.old,
                 new |-> AsHead(plan.new), message |-> plan.message]
<1>1. /\ db' = db /\ writer' = writer /\ phase' = "updated" /\ plan' = plan
      /\ blobFiles' = blobFiles /\ packFiles' = packFiles /\ reading' = reading
      /\ interrupted' = interrupted /\ txdirs' = txdirs /\ phase = "published"
      /\ writer = p
  OBVIOUS
<1>2. work \in Metadata /\ plan \in Plan /\ writer # Nobody
  BY <1>1, NamesAssumption DEF TypeOK
<1>3. e \in LogEntry
  BY <1>2, NamesAssumption DEF Plan, LogEntry, AsHead, Heads
<1>4. AppendReflog(work.reflog, e) \in Seq(LogEntry)
  BY <1>2, <1>3 DEF AppendReflog, Metadata
<1>5. work' = [work EXCEPT !.refs[plan.ref] = plan.new,
                           !.reflog = AppendReflog(@, e)]
  OBVIOUS
<1> HIDE DEF e
<1>6. /\ work'.refs = [work.refs EXCEPT ![plan.ref] = plan.new]
      /\ work'.reflog = AppendReflog(work.reflog, e)
      /\ work'.commits = work.commits /\ work'.blobs = work.blobs
      /\ work'.chunkLoc = work.chunkLoc /\ work'.txlog = work.txlog
  BY <1>2, <1>5 DEF Metadata
<1>7. work' \in Metadata
  BY <1>2, <1>4, <1>5, <1>6 DEF Metadata, Plan
<1>8. TypeOK' /\ LockInv' /\ TxLogInv' /\ PlanInv'
  BY <1>1, <1>6, <1>7 DEF TypeOK, Phases, LockInv, Readers, TxLogInv, PlanInv
<1>9. Consistent(work')
  <2>1. plan.new \in work.commits \union {NoCommit, Absent}
    BY <1>1 DEF PlanInv
  <2>2. HeadsOf(work') \subseteq HeadsOf(work) \union ({plan.new} \intersect Commits)
    BY <1>2, <1>6 DEF HeadsOf, Metadata
  <2>3. HeadsOf(work') \subseteq work.commits
    BY <1>1, <1>2, <2>1, <2>2, NamesAssumption DEF RowsInv, Consistent
  <2>4. QED
    BY <1>2, <1>6, <2>3 DEF RowsInv, Consistent, Indexed
<1>10. RowsInv'
  BY <1>1, <1>9 DEF RowsInv
<1>11. FilesInv'
  <2>1. Backed(db)' <=> Backed(db)
    BY <1>1 DEF Backed, HasChunk, Indexed
  <2>2. Backed(work)' <=> Backed(work)
    BY <1>1, <1>6 DEF Backed, HasChunk, Indexed
  <2>3. QED
    BY <1>1, <2>1, <2>2 DEF FilesInv
<1>12. QED
  BY <1>8, <1>10, <1>11

\* The log row and the directory are of no consequence for rows and files.
LEMMA CleanupIInv ==
    ASSUME IInv, NEW p \in Clients, Cleanup(p)
    PROVE  IInv'
<1> USE DEF IInv, Cleanup, Files
<1>1. /\ db' = db /\ writer' = writer /\ plan' = plan /\ phase' \in {"collect", "ready"}
      /\ blobFiles' = blobFiles /\ packFiles' = packFiles /\ reading' = reading
      /\ interrupted' = interrupted /\ txdirs' \subseteq txdirs /\ writer = p
      /\ phase = "updated"
  OBVIOUS
<1>2. work' \in Metadata /\ SameRows(work, work') /\ work'.txlog = {}
  BY DEF TypeOK, Metadata, SameRows, TxLogInv
<1>3. TypeOK'
  BY <1>1, <1>2 DEF TypeOK, Phases
<1>4. LockInv' /\ TxLogInv' /\ PlanInv'
  BY <1>1, <1>2 DEF LockInv, Readers, TxLogInv, PlanInv
<1>5. RowsInv'
  BY <1>1, <1>2, SameRowsConsistent DEF RowsInv
<1>6. FilesInv'
  <2>1. Backed(db)' <=> Backed(db)
    BY <1>1 DEF Backed, HasChunk, Indexed
  <2>2. Backed(work)' <=> Backed(work')
    BY <1>1 DEF Backed, HasChunk, Indexed
  <2>3. QED
    BY <1>1, <1>2, <2>1, <2>2, SameRowsBacked DEF FilesInv
<1>7. QED
  BY <1>3, <1>4, <1>5, <1>6

\* Rows enter together with the files they speak of.
LEMMA PublishRestIInv ==
    ASSUME IInv, NEW p \in Clients, PublishRest(p)
    PROVE  IInv'
<1> USE DEF IInv, PublishRest, BlobsWritten
<1>1. PICK q \in Packs :
        /\ WritePack(plan.chunks, q)
        /\ work' = [work EXCEPT
              !.commits = @ \union plan.commits,
              !.blobs = @ \union plan.blobs,
              !.chunkLoc = [k \in Chunks |-> IF k \in plan.chunks THEN q
                                                                  ELSE @[k]]]
  OBVIOUS
<1>2. /\ db' = db /\ writer' = writer /\ phase' = "published" /\ plan' = plan
      /\ blobFiles' = blobFiles /\ reading' = reading /\ phase = "staged"
      /\ interrupted' = interrupted /\ txdirs' = txdirs /\ writer = p
      /\ plan.blobs \subseteq blobFiles
  OBVIOUS
<1>3. /\ work \in Metadata /\ plan \in Plan /\ writer # Nobody /\ PlanComplete
      /\ packFiles \in [Packs -> SUBSET Chunks]
  BY <1>2, NamesAssumption DEF TypeOK, PlanInv
<1>4. /\ work'.refs = work.refs /\ work'.txlog = work.txlog
      /\ work'.commits = work.commits \union plan.commits
      /\ work'.blobs = work.blobs \union plan.blobs
      /\ work'.chunkLoc = [k \in Chunks |-> IF k \in plan.chunks THEN q
                                            ELSE work.chunkLoc[k]]
  BY <1>1, <1>3 DEF Metadata
<1>5. work' \in Metadata
  BY <1>1, <1>3, <1>4 DEF Metadata, Plan
<1>6. packFiles' \in [Packs -> SUBSET Chunks]
  BY <1>1, <1>3 DEF WritePack, Plan
<1>7. TypeOK'
  BY <1>2, <1>5, <1>6 DEF TypeOK, Phases
<1>8. LockInv' /\ TxLogInv'
  BY <1>2, <1>4 DEF LockInv, Readers, TxLogInv
<1>9. PlanInv'
  BY <1>2, <1>3, <1>4 DEF PlanInv, PlanComplete
<1>10. RowsInv'
  <2>1. Consistent(work)
    BY <1>3 DEF RowsInv
  <2>2. Closed(work'.commits)
    BY <1>3, <1>4, <2>1 DEF Consistent, Closed, PlanComplete
  <2>3. HeadsOf(work') \subseteq work'.commits
    BY <1>4, <2>1 DEF Consistent, HeadsOf
  <2>4. ASSUME NEW c \in work'.commits
        PROVE  /\ BlobsOf[c] \subseteq work'.blobs
               /\ \A k \in ChunksOf[c] : Indexed(work', k)
    <3>1. c \in Commits /\ ChunksOf[c] \subseteq Chunks
      BY <1>5, ObjectsAssumption DEF Metadata
    <3>2. BlobsOf[c] \subseteq work'.blobs
      BY <1>3, <1>4, <2>1 DEF Consistent, PlanComplete
    <3>3. \A k \in ChunksOf[c] : Indexed(work, k) \/ k \in plan.chunks
      BY <1>3, <1>4, <2>1 DEF Consistent, PlanComplete
    <3>4. \A k \in Chunks : Indexed(work, k) \/ k \in plan.chunks => Indexed(work', k)
      BY <1>4, NamesAssumption DEF Indexed
    <3>5. QED
      BY <3>1, <3>2, <3>3, <3>4
  <2>5. Consistent(work')
    BY <2>2, <2>3, <2>4 DEF Consistent
  <2>6. QED
    BY <1>2, <2>5 DEF RowsInv
<1>11. FilesInv'
  <2>1. Backed(db) => Backed(db)'
    <3>1. db \in Metadata /\ plan.chunks \in SUBSET Chunks
      BY <1>3 DEF TypeOK, Plan
    <3>2. QED
      BY <1>1, <1>2, <1>3, <3>1, WritePackBacked DEF Backed, HasChunk, Indexed
  <2>2. ASSUME Backed(work) PROVE Backed(work)'
    <3>1. \A k \in Chunks : Indexed(work, k) => k \in packFiles'[work.chunkLoc[k]]
      <4>1. plan.chunks \in SUBSET Chunks
        BY <1>3 DEF Plan
      <4>2. QED
        BY <1>1, <1>2, <1>3, <2>2, <4>1, WritePackBacked
    <3>2. \A k \in plan.chunks : k \in packFiles'[q]
      BY <1>1, <1>3 DEF WritePack, Plan
    <3>3. \A k \in Chunks : Indexed(work', k) => k \in packFiles'[work'.chunkLoc[k]]
      BY <1>4, <3>1, <3>2 DEF Indexed
    <3>4. work'.blobs \subseteq blobFiles'
      BY <1>2, <1>4, <2>2 DEF Backed
    <3>5. QED
      BY <3>3, <3>4 DEF Backed, HasChunk, Indexed
  <2>3. ~interrupted' /\ phase' # "sweep" => Backed(db)'
    BY <1>2, <2>1 DEF FilesInv
  <2>4. ~interrupted' => Backed(work)'
    BY <1>2, <1>3, <2>2 DEF FilesInv
  <2>5. QED
    BY <2>3, <2>4 DEF FilesInv
<1>12. QED
  BY <1>7, <1>8, <1>9, <1>10, <1>11

-----------------------------------------------------------------------------
(***************************************************************************)
(* gc.                                                                     *)
(***************************************************************************)
\* gc writes down what nothing reaches; no row or file changes yet.
LEMMA GcStageIInv ==
    ASSUME IInv, NEW p \in Clients, GcStage(p)
    PROVE  IInv'
<1> USE DEF IInv, GcStage, GcPlan, Files
<1>1. /\ db' = db /\ writer' = writer /\ phase' = "gc staged"
      /\ blobFiles' = blobFiles /\ packFiles' = packFiles /\ reading' = reading
      /\ interrupted' = interrupted /\ txdirs' = txdirs \union {"gc"}
      /\ writer = p /\ phase = "collect"
      /\ plan' = [plan EXCEPT !.commits = work.commits \ Live(work),
                              !.blobs = work.blobs \ LiveBlobs(work),
                              !.chunks = LiveChunks(work)]
      /\ work' = [work EXCEPT !.txlog = @ \union {"gc"}]
  OBVIOUS
<1> HIDE DEF GcStage
<1>2. work \in Metadata /\ plan \in Plan
  BY DEF TypeOK
<1>3. /\ work' \in Metadata /\ SameRows(work, work')
      /\ work'.txlog = work.txlog \union {"gc"}
  BY <1>1, <1>2 DEF Metadata, SameRows, TxKinds
<1>4. LiveChunks(work) \in SUBSET Chunks
  BY <1>2, LiveClosed, ObjectsAssumption DEF LiveChunks
<1>5. /\ plan' \in Plan
      /\ plan'.commits = work.commits \ Live(work)
      /\ plan'.blobs = work.blobs \ LiveBlobs(work)
      /\ plan'.chunks = LiveChunks(work)
  BY <1>1, <1>2, <1>4 DEF Plan, Metadata
<1>6. TypeOK'
  BY <1>1, <1>3, <1>5 DEF TypeOK, Phases, TxKinds
<1>7. LockInv' /\ TxLogInv'
  BY <1>1, <1>3 DEF LockInv, Readers, TxLogInv
<1>8. PlanInv'
  <2>1. /\ Live(work)' = Live(work) /\ LiveBlobs(work)' = LiveBlobs(work)
        /\ LiveChunks(work)' = LiveChunks(work)
    BY <1>3 DEF SameRows, Live, LiveBlobs, LiveChunks, HeadsOf
  <2>2. QED
    BY <1>1, <1>3, <1>5, <2>1 DEF PlanInv, GcPlanExact, SameRows
<1>9. RowsInv'
  BY <1>1, <1>3, SameRowsConsistent DEF RowsInv
<1>10. FilesInv'
  <2>1. Backed(db)' <=> Backed(db)
    BY <1>1 DEF Backed, HasChunk, Indexed
  <2>2. Backed(work)' <=> Backed(work')
    BY <1>1 DEF Backed, HasChunk, Indexed
  <2>3. QED
    BY <1>1, <1>3, <2>1, <2>2, SameRowsBacked DEF FilesInv
<1>11. QED
  BY <1>6, <1>7, <1>8, <1>9, <1>10

\* What gc keeps is the live history: closed, with all its blobs and chunks,
\* and every one of the chunks is in the pack that gc has just written.
LEMMA GcPublishIInv ==
    ASSUME IInv, NEW p \in Clients, GcPublish(p)
    PROVE  IInv'
<1> USE DEF IInv, GcPublish
<1>1. PICK q \in Packs :
        /\ WritePack(plan.chunks, q)
        /\ work' = [work EXCEPT
              !.commits = @ \ plan.commits,
              !.blobs = @ \ plan.blobs,
              !.chunkLoc = [k \in Chunks |-> IF k \in plan.chunks THEN q
                                                                  ELSE NoPack],
              !.txlog = @ \ {"gc"}]
  OBVIOUS
<1>2. /\ db' = db /\ writer' = writer /\ phase' = "sweep" /\ plan' = plan
      /\ blobFiles' = blobFiles /\ reading' = reading /\ phase = "gc staged"
      /\ interrupted' = interrupted /\ txdirs' \subseteq txdirs /\ writer = p
  OBVIOUS
<1> HIDE DEF GcPublish
<1>3. /\ work \in Metadata /\ plan \in Plan /\ writer # Nobody /\ GcPlanExact
      /\ packFiles \in [Packs -> SUBSET Chunks]
      /\ Consistent(work)
  BY <1>2, NamesAssumption DEF TypeOK, PlanInv, RowsInv
<1>4. /\ work'.refs = work.refs
      /\ work'.commits = work.commits \ plan.commits
      /\ work'.blobs = work.blobs \ plan.blobs
      /\ work'.chunkLoc = [k \in Chunks |-> IF k \in plan.chunks THEN q
                                            ELSE NoPack]
      /\ work'.txlog = work.txlog \ {"gc"}
  BY <1>1, <1>3 DEF Metadata
<1>5. work' \in Metadata
  BY <1>1, <1>3, <1>4 DEF Metadata, Plan
<1>6. packFiles' \in [Packs -> SUBSET Chunks]
  BY <1>1, <1>3 DEF WritePack, Plan
<1>7. TypeOK'
  BY <1>2, <1>5, <1>6 DEF TypeOK, Phases
<1>8. LockInv' /\ TxLogInv' /\ PlanInv'
  BY <1>2, <1>4 DEF LockInv, Readers, TxLogInv, PlanInv
<1>9. work'.commits = Live(work)
  BY <1>3, <1>4, LiveStored DEF GcPlanExact
<1>10. Consistent(work')
  <2>1. HeadsOf(work') \subseteq work'.commits /\ Closed(work'.commits)
    <3>1. HeadsOf(work') = HeadsOf(work)
      BY <1>4 DEF HeadsOf
    <3>2. HeadsOf(work) \subseteq Live(work) /\ Closed(Live(work))
      BY <1>3, LiveClosed
    <3>3. QED
      BY <1>9, <3>1, <3>2
  <2>2. ASSUME NEW c \in work'.commits
        PROVE  /\ BlobsOf[c] \subseteq work'.blobs
               /\ \A k \in ChunksOf[c] : Indexed(work', k)
    <3>1. c \in work.commits /\ c \in Commits /\ ChunksOf[c] \subseteq Chunks
      BY <1>3, <1>4, <1>5, ObjectsAssumption DEF Metadata
    <3>2. BlobsOf[c] \subseteq work.blobs /\ BlobsOf[c] \subseteq LiveBlobs(work)
      BY <1>3, <1>9, <3>1 DEF Consistent, LiveBlobs
    <3>3. ChunksOf[c] \subseteq plan.chunks
      <4>1. ChunksOf[c] \subseteq LiveChunks(work)
        BY <1>9 DEF LiveChunks
      <4>2. QED
        BY <1>3, <4>1 DEF GcPlanExact
    <3>4. QED
      BY <1>3, <1>4, <3>1, <3>2, <3>3, NamesAssumption DEF GcPlanExact, Indexed
  <2>3. QED
    BY <2>1, <2>2 DEF Consistent
<1>11. RowsInv'
  BY <1>2, <1>10 DEF RowsInv
<1>12. FilesInv'
  <2>1. ASSUME Backed(work) PROVE Backed(work)'
    <3>1. \A k \in plan.chunks : k \in packFiles'[q]
      BY <1>1, <1>3 DEF WritePack, Plan
    <3>2. \A k \in Chunks : Indexed(work', k) => k \in packFiles'[work'.chunkLoc[k]]
      BY <1>4, <3>1 DEF Indexed
    <3>3. work'.blobs \subseteq blobFiles'
      BY <1>2, <1>4, <2>1 DEF Backed
    <3>4. QED
      BY <3>2, <3>3 DEF Backed, HasChunk, Indexed
  <2>2. ~interrupted' => Backed(work)'
    BY <1>2, <1>3, <2>1 DEF FilesInv
  <2>3. QED
    BY <1>2, <2>2 DEF FilesInv
<1>13. QED
  BY <1>7, <1>8, <1>11, <1>12

\* Only files that the transaction no longer speaks of are moved away.
LEMMA GcMoveIInv ==
    ASSUME IInv, NEW p \in Clients, GcMoveBlob(p) \/ GcMovePack(p)
    PROVE  IInv'
<1> USE DEF IInv, GcMoveBlob, GcMovePack, UnusedPacks
<1>1. /\ db' = db /\ work' = work /\ writer' = writer /\ phase' = phase
      /\ plan' = plan /\ reading' = reading /\ txdirs' = txdirs
      /\ interrupted' = interrupted /\ phase = "sweep" /\ writer = p
  OBVIOUS
<1>2. blobFiles' \in SUBSET Blobs /\ packFiles' \in [Packs -> SUBSET Chunks]
  BY DEF TypeOK
<1>3. TypeOK' /\ LockInv' /\ TxLogInv'
  BY <1>1, <1>2 DEF TypeOK, LockInv, Readers, TxLogInv
<1>4. PlanInv' /\ RowsInv'
  BY <1>1 DEF PlanInv, RowsInv
<1>5. FilesInv'
  <2>1. ASSUME Backed(work), GcMoveBlob(p) PROVE Backed(work)'
    BY <1>1, <2>1 DEF Backed, PlanInv, HasChunk, Indexed
  <2>2. ASSUME Backed(work), GcMovePack(p) PROVE Backed(work)'
    <3>1. PICK q \in Packs :
            /\ \A k \in Chunks : work.chunkLoc[k] # q
            /\ packFiles' = [packFiles EXCEPT ![q] = {}]
            /\ blobFiles' = blobFiles
      BY <2>2
    <3>2. packFiles \in [Packs -> SUBSET Chunks] /\ work \in Metadata
      BY DEF TypeOK
    <3>3. ASSUME NEW k \in Chunks, Indexed(work, k)
          PROVE  k \in packFiles'[work.chunkLoc[k]]
      <4>1. work.chunkLoc[k] \in Packs /\ k \in packFiles[work.chunkLoc[k]]
        BY <2>2, <3>2, <3>3 DEF Backed, HasChunk, Indexed, Metadata
      <4>2. QED
        BY <3>1, <3>2, <4>1
    <3>4. QED
      BY <1>1, <2>2, <3>1, <3>3 DEF Backed, HasChunk, Indexed
  <2>3. QED
    BY <1>1, <2>1, <2>2 DEF FilesInv
<1>6. QED
  BY <1>3, <1>4, <1>5

-----------------------------------------------------------------------------
(***************************************************************************)
(* Readers, and the invariant of the specification.                        *)
(***************************************************************************)
\* Readers come when no writer is there and resolve commits that have rows.
LEMMA ReadIInv ==
    ASSUME IInv, NEW p \in Clients, ReadOpen(p) \/ ReadClose(p)
    PROVE  IInv'
<1> USE DEF IInv, ReadOpen, ReadClose, Files
<1>1. /\ db' = db /\ work' = work /\ writer' = writer /\ phase' = phase
      /\ plan' = plan /\ txdirs' = txdirs /\ interrupted' = interrupted
      /\ blobFiles' = blobFiles /\ packFiles' = packFiles
  OBVIOUS
<1>2. reading' \in [Clients -> Commits \union {NotReading}] /\ db \in Metadata
  BY DEF TypeOK, Metadata
<1>3. TypeOK'
  BY <1>1, <1>2 DEF TypeOK
<1>4. LockInv'
  <2>1. /\ \A r \in Readers' : reading'[r] \in db.commits
        /\ Readers' # {} => writer = Nobody
    BY <1>2 DEF LockInv, Readers, TypeOK
  <2>2. QED
    BY <1>1, <2>1 DEF LockInv
<1>5. TxLogInv' /\ PlanInv' /\ RowsInv'
  BY <1>1 DEF TxLogInv, PlanInv, PlanComplete, GcPlanExact, RowsInv, Indexed
<1>6. FilesInv'
  BY <1>1 DEF FilesInv, Backed, HasChunk, Indexed
<1>7. QED
  BY <1>3, <1>4, <1>5, <1>6

\* Steps that change nothing.
LEMMA StutterIInv == ASSUME IInv, UNCHANGED vars PROVE IInv'
  BY DEF IInv, vars, TypeOK, LockInv, Readers, TxLogInv, PlanInv, PlanComplete,
         GcPlanExact, RowsInv, FilesInv, Backed, HasChunk, Indexed

\* Every step keeps the invariant.
LEMMA NextIInv == IInv /\ [Next]_vars => IInv'
<1> SUFFICES ASSUME IInv, [Next]_vars PROVE IInv'
  OBVIOUS
<1>1. CASE UNCHANGED vars
  BY <1>1, StutterIInv
<1>2. ASSUME NEW p \in Clients,
             Acquire(p) \/ Write(p) \/ Crash(p) \/ ReadOpen(p) \/ ReadClose(p)
      PROVE  IInv'
  <2>1. CASE Acquire(p)
    BY <2>1, AcquireIInv
  <2>2. CASE Request(p)
    BY <2>2, CreateCommitIInv, FastForwardIInv, MergeCommitIInv, ResetRefIInv,
       CreateRefIInv, DeleteRefIInv, SquashHistoryIInv, SkipIInv DEF Request
  <2>3. CASE Publish(p)
    BY <2>3, PublishBlobIInv, PublishRestIInv, UpdateRefIInv, CleanupIInv
       DEF Publish
  <2>4. CASE Gc(p)
    BY <2>4, GcStageIInv, GcPublishIInv, GcMoveIInv DEF Gc
  <2>5. CASE CommitTx(p)
    BY <2>5, CommitTxIInv
  <2>6. CASE Fail(p) \/ Crash(p)
    BY <2>6, StopIInv
  <2>7. CASE ReadOpen(p) \/ ReadClose(p)
    BY <2>7, ReadIInv
  <2>8. QED
    BY <1>2, <2>1, <2>2, <2>3, <2>4, <2>5, <2>6, <2>7 DEF Write
<1>3. QED
  BY <1>1, <1>2 DEF Next

-----------------------------------------------------------------------------
(***************************************************************************)
(* The theorems.                                                           *)
(***************************************************************************)
\* The invariant of the write path: types, the lock, the transaction log, what
\* the plan still owes, rows that agree and the files behind them.
THEOREM InvariantHolds == Spec => []IInv
<1>1. Init => IInv
  BY InitIInv
<1>2. IInv /\ [Next]_vars => IInv'
  BY NextIInv
<1>3. QED
  BY <1>1, <1>2, PTL DEF Spec

\* Every variable keeps its type.
THEOREM TypeCorrect == Spec => []TypeOK
<1>1. IInv => TypeOK
  BY DEF IInv
<1>2. QED
  BY <1>1, InvariantHolds, PTL

\* The durable rows of the history that refs reach are complete after every
\* commit, exception and crash.
THEOREM HistoryIsComplete == Spec => []HistoryComplete
<1>1. IInv => HistoryComplete
  <2> SUFFICES ASSUME IInv PROVE HistoryComplete
    OBVIOUS
  <2>1. db \in Metadata /\ Consistent(db)
    BY DEF IInv, TypeOK, RowsInv
  <2>2. QED
    BY <2>1, LiveStored DEF HistoryComplete, Consistent
<1>2. QED
  BY <1>1, InvariantHolds, PTL

\* Outside gc's removal of files, and if none was cut short, everything that
\* refs reach can be read.
THEOREM HistoryIsReadable == Spec => []HistoryReadable
<1>1. IInv => HistoryReadable
  <2> SUFFICES ASSUME IInv, ~interrupted, phase # "sweep", NEW c \in Live(db)
               PROVE  Readable(db, c)
    BY DEF HistoryReadable
  <2>1. db \in Metadata /\ Consistent(db) /\ Backed(db)
    BY DEF IInv, TypeOK, RowsInv, FilesInv
  <2>2. QED
    BY <2>1, LiveStored, LiveReadable
<1>2. QED
  BY <1>1, InvariantHolds, PTL

\* No writer takes anything from a reader who holds the shared lock.
THEOREM ReadersAreUndisturbed == Spec => []ReadersUndisturbed
<1>1. IInv => ReadersUndisturbed
  <2> SUFFICES ASSUME IInv, ~interrupted, NEW p \in Readers
               PROVE  Readable(db, reading[p])
    BY DEF ReadersUndisturbed
  <2>1. phase = "idle" /\ reading[p] \in db.commits
    BY DEF IInv, LockInv
  <2>2. db \in Metadata /\ Consistent(db) /\ Backed(db)
    BY <2>1 DEF IInv, TypeOK, RowsInv, FilesInv
  <2>3. QED
    BY <2>1, <2>2, LiveReadable
<1>2. QED
  BY <1>1, InvariantHolds, PTL

\* Rows never run ahead of files in an open write transaction.
THEOREM PendingIsReadable == Spec => []PendingReadable
<1>1. IInv => PendingReadable
  <2> SUFFICES ASSUME IInv, ~interrupted, writer # Nobody, NEW c \in Live(work)
               PROVE  Readable(work, c)
    BY DEF PendingReadable
  <2>1. work \in Metadata /\ Consistent(work) /\ Backed(work)
    BY DEF IInv, TypeOK, RowsInv, FilesInv
  <2>2. QED
    BY <2>1, LiveStored, LiveReadable
<1>2. QED
  BY <1>1, InvariantHolds, PTL

\* The durable transaction log is always empty.
THEOREM TxLogIsEmpty == Spec => []TxLogEmpty
<1>1. IInv => TxLogEmpty
  BY DEF IInv, TxLogInv, TxLogEmpty
<1>2. QED
  BY <1>1, InvariantHolds, PTL

-----------------------------------------------------------------------------
(* Accounts *)

\* i is the last entry of r in the log.
IsLast(log, r, i) == i \in EntriesOf(log, r) /\ \A j \in EntriesOf(log, r) : j <= i

\* ReflogExplainsRefs, of any log and refs.
Explains(log, refs) ==
    \A r \in Refs :
        /\ \A i, j \in EntriesOf(log, r) :
              i < j /\ (\A n \in EntriesOf(log, r) : n <= i \/ j <= n)
                 => log[j].old = log[i].new
        /\ EntriesOf(log, r) # {} =>
              \E i \in EntriesOf(log, r) : IsLast(log, r, i) /\ log[i].new = AsHead(refs[r])
        /\ EntriesOf(log, r) = {} => refs[r] \in {Absent, NoCommit}

\* The durable log and that of the transaction explain their refs, and a plan
\* that waits for its ref update starts where the ref stands.
ReflogInv ==
    /\ Explains(db.reflog, db.refs)
    /\ writer # Nobody => Explains(work.reflog, work.refs)
    /\ phase \in {"staged", "published"} => plan.old = AsHead(work.refs[plan.ref])

\* While gc sweeps, its transaction has the rows of the live history only.
SweepInv ==
    phase = "sweep" =>
        /\ work.commits = Live(work)
        /\ work.blobs = LiveBlobs(work)
        /\ {k \in Chunks : Indexed(work, k)} = LiveChunks(work)

-----------------------------------------------------------------------------
\* There is one last entry.
LEMMA LastEntry ==
    ASSUME NEW log \in Seq(LogEntry), NEW r, NEW i, IsLast(log, r, i)
    PROVE  LastOf(log, r) = i
<1>1. \A j : IsLast(log, r, j) => j = i
  <2> SUFFICES ASSUME NEW j, IsLast(log, r, j) PROVE j = i
    OBVIOUS
  <2>1. i \in Nat /\ j \in Nat /\ i <= j /\ j <= i
    BY DEF IsLast, EntriesOf
  <2>2. QED
    BY <2>1
<1>2. LastOf(log, r) = CHOOSE j \in EntriesOf(log, r) :
                          \A n \in EntriesOf(log, r) : n <= j
  BY DEF LastOf
<1>3. i \in EntriesOf(log, r) /\ \A n \in EntriesOf(log, r) : n <= i
  BY DEF IsLast
<1>4. QED
  BY <1>1, <1>2, <1>3 DEF IsLast

\* _append_reflog() keeps the log an explanation, if the entry starts
\* where its ref stands.
LEMMA AppendExplains ==
    ASSUME NEW log \in Seq(LogEntry), NEW refs \in [Refs -> Heads \union {Absent}],
           Explains(log, refs), NEW r \in Refs, NEW v \in Heads \union {Absent},
           NEW e \in LogEntry, e.ref = r, e.old = AsHead(refs[r]), e.new = AsHead(v)
    PROVE  Explains(AppendReflog(log, e), [refs EXCEPT ![r] = v])
<1> DEFINE moved == [refs EXCEPT ![r] = v]
           new == AppendReflog(log, e)
<1>1. moved[r] = v /\ \A s \in Refs : s # r => moved[s] = refs[s]
  OBVIOUS
<1>2. CASE EntriesOf(log, r) # {} /\ log[LastOf(log, r)] = e
  <2>1. new = log
    BY <1>2 DEF AppendReflog
  <2>2. PICK i \in EntriesOf(log, r) : IsLast(log, r, i)
    BY <1>2 DEF Explains
  <2>3. log[i].new = AsHead(v)
    BY <1>2, <2>2, LastEntry
  <2> HIDE DEF moved, new
  <2>4. SUFFICES ASSUME NEW s \in Refs
                 PROVE  /\ \A k, j \in EntriesOf(log, s) :
                              k < j /\ (\A n \in EntriesOf(log, s) : n <= k \/ j <= n)
                                 => log[j].old = log[k].new
                        /\ EntriesOf(log, s) # {} =>
                              \E k \in EntriesOf(log, s) :
                                 IsLast(log, s, k) /\ log[k].new = AsHead(moved[s])
                        /\ EntriesOf(log, s) = {} => moved[s] \in {Absent, NoCommit}
    BY <2>1 DEF Explains, new, moved
  <2>5. CASE s = r
    BY <1>1, <1>2, <2>2, <2>3, <2>5 DEF Explains
  <2>6. CASE s # r
    BY <1>1, <2>6 DEF Explains
  <2>7. QED
    BY <2>5, <2>6
<1>3. CASE ~(EntriesOf(log, r) # {} /\ log[LastOf(log, r)] = e)
  <2> DEFINE m == Len(log) + 1
  <2>1. new = Append(log, e)
    BY <1>3 DEF AppendReflog
  <2>2. /\ m \in Nat /\ DOMAIN new = DOMAIN log \union {m} /\ new[m] = e
        /\ \A i \in DOMAIN log : i \in Nat /\ i < m /\ new[i] = log[i]
    BY <2>1
  <2> HIDE DEF m, new, moved
  <2>3. EntriesOf(new, r) = EntriesOf(log, r) \union {m}
    BY <2>2 DEF EntriesOf
  <2>4. \A s \in Refs : s # r => EntriesOf(new, s) = EntriesOf(log, s)
    BY <2>2 DEF EntriesOf
  <2>5. \A s : EntriesOf(log, s) \subseteq DOMAIN log
    BY DEF EntriesOf
  <2>6. SUFFICES ASSUME NEW s \in Refs
                 PROVE  /\ \A k, j \in EntriesOf(new, s) :
                              k < j /\ (\A n \in EntriesOf(new, s) : n <= k \/ j <= n)
                                 => new[j].old = new[k].new
                        /\ EntriesOf(new, s) # {} =>
                              \E k \in EntriesOf(new, s) :
                                 IsLast(new, s, k) /\ new[k].new = AsHead(moved[s])
                        /\ EntriesOf(new, s) = {} => moved[s] \in {Absent, NoCommit}
    BY DEF Explains, new, moved
  <2>7. CASE s # r
    <3>1. EntriesOf(new, s) = EntriesOf(log, s)
      BY <2>4, <2>7
    <3>2. \A k \in EntriesOf(log, s) : new[k] = log[k]
      BY <2>2, <2>5
    <3>3. \A k : IsLast(new, s, k) <=> IsLast(log, s, k)
      BY <3>1 DEF IsLast
    <3>4. QED
      BY <1>1, <2>7, <3>1, <3>2, <3>3 DEF Explains
  <2>8. CASE s = r
    <3>1. ASSUME NEW k \in EntriesOf(new, r), NEW j \in EntriesOf(new, r),
                 k < j, \A n \in EntriesOf(new, r) : n <= k \/ j <= n
          PROVE  new[j].old = new[k].new
      <4>1. k # m /\ k \in EntriesOf(log, r)
        BY <2>2, <2>3, <2>5, <3>1
      <4>2. CASE j # m
        <5>1. j \in EntriesOf(log, r)
          BY <2>3, <4>2
        <5>2. \A n \in EntriesOf(log, r) : n <= k \/ j <= n
          BY <2>3, <3>1
        <5>3. log[j].old = log[k].new
          BY <3>1, <4>1, <5>1, <5>2 DEF Explains
        <5>4. QED
          BY <2>2, <2>5, <4>1, <5>1, <5>3
      <4>3. CASE j = m
        <5>1. PICK i \in EntriesOf(log, r) :
                 IsLast(log, r, i) /\ log[i].new = AsHead(refs[r])
          BY <4>1 DEF Explains
        <5>2. i <= k \/ m <= i
          BY <2>3, <3>1, <4>3
        <5>3. k <= i /\ i \in Nat /\ k \in Nat /\ i < m
          BY <2>2, <2>5, <4>1, <5>1 DEF IsLast
        <5>4. k = i
          BY <2>2, <5>2, <5>3
        <5>5. QED
          BY <2>2, <2>5, <4>1, <4>3, <5>1, <5>4
      <4>4. QED
        BY <4>2, <4>3
    <3>2. IsLast(new, r, m) /\ new[m].new = AsHead(moved[r])
      BY <1>1, <2>2, <2>3, <2>5 DEF IsLast
    <3>3. QED
      BY <2>3, <2>8, <3>1, <3>2 DEF IsLast
  <2>9. QED
    BY <2>7, <2>8
<1>4. QED
  BY <1>2, <1>3

-----------------------------------------------------------------------------
\* Every request plans to start where its ref stands.
LEMMA PlansStartAtHead ==
    ASSUME IInv, NEW p \in Clients, NEW r \in Refs, NEW old, NEW v, NEW message,
           NEW pl, NEW next \in {"staged", "published"}, Begin(p, pl, next),
           pl.ref = r, pl.old = old, old = AsHead(work.refs[r]), ReflogInv
    PROVE  ReflogInv'
<1>1. /\ db' = db /\ writer' = writer /\ plan' = pl
      /\ work'.refs = work.refs /\ work'.reflog = work.reflog
  BY DEF Begin, IInv, TypeOK, Metadata
<1>2. QED
  BY <1>1 DEF ReflogInv


\* A step that leaves refs and reflog alone, and the plan while it waits.
LEMMA QuietSteps ==
    ASSUME ReflogInv, db' = db, writer' = writer,
           work'.refs = work.refs, work'.reflog = work.reflog,
           phase' \in {"staged", "published"} =>
               phase \in {"staged", "published"} /\ plan' = plan
    PROVE  ReflogInv'
  BY DEF ReflogInv

\* A ref that exists stands at a head.
LEMMA ExistingRef ==
    ASSUME NEW m \in Metadata, NEW r \in Refs, m.refs[r] # Absent
    PROVE  AsHead(m.refs[r]) = m.refs[r]
  BY DEF AsHead

\* What a plan of a ref update says of the ref, whatever else is put into it.
LEMMA RefPlanStart ==
    ASSUME NEW r, NEW old, NEW new, NEW message
    PROVE  /\ RefPlan(r, old, new, message).ref = r
           /\ RefPlan(r, old, new, message).old = old
           /\ \A cs, bs, ks :
                 LET pl == [RefPlan(r, old, new, message) EXCEPT
                              !.commits = cs, !.blobs = bs, !.chunks = ks]
                 IN  pl.ref = r /\ pl.old = old
           /\ \A cs :
                 LET pl == [RefPlan(r, old, new, message) EXCEPT !.commits = cs]
                 IN  pl.ref = r /\ pl.old = old
  BY DEF RefPlan, NoPlan

\* Commits of a branch: create_commit(), merge() and squash_history().
LEMMA CommitsStartAtHead ==
    ASSUME IInv, ReflogInv, NEW p \in Clients,
           CreateCommit(p) \/ MergeCommit(p) \/ SquashHistory(p)
    PROVE  ReflogInv'
<1>1. work \in Metadata /\ Branches \subseteq Refs
  BY DEF IInv, TypeOK, Refs
<1>2. CASE CreateCommit(p)
  <2>1. PICK b \in Branches, c \in Commits :
          /\ work.refs[b] # Absent
          /\ \E cs, bs, ks :
                Begin(p, [RefPlan(b, work.refs[b], c, "commit") EXCEPT
                            !.commits = cs, !.blobs = bs, !.chunks = ks], "staged")
    BY <1>2 DEF CreateCommit
  <2>2. PICK cs, bs, ks :
          Begin(p, [RefPlan(b, work.refs[b], c, "commit") EXCEPT
                      !.commits = cs, !.blobs = bs, !.chunks = ks], "staged")
    BY <2>1
  <2> DEFINE pl == [RefPlan(b, work.refs[b], c, "commit") EXCEPT
                      !.commits = cs, !.blobs = bs, !.chunks = ks]
  <2>3. pl.ref = b /\ pl.old = work.refs[b]
    BY RefPlanStart
  <2>4. Begin(p, pl, "staged") /\ work.refs[b] = AsHead(work.refs[b]) /\ b \in Refs
    BY <1>1, <2>1, <2>2, ExistingRef
  <2> HIDE DEF pl
  <2>5. QED
    BY <2>3, <2>4, PlansStartAtHead
<1>3. CASE MergeCommit(p)
  <2>1. PICK b \in Branches, c \in Commits :
          /\ work.refs[b] \in Commits
          /\ Begin(p, [RefPlan(b, work.refs[b], c, "merge") EXCEPT !.commits = {c}],
                   "staged")
    BY <1>3 DEF MergeCommit
  <2> DEFINE pl == [RefPlan(b, work.refs[b], c, "merge") EXCEPT !.commits = {c}]
  <2>2. pl.ref = b /\ pl.old = work.refs[b]
    BY RefPlanStart
  <2>3. Begin(p, pl, "staged") /\ work.refs[b] = AsHead(work.refs[b]) /\ b \in Refs
    BY <1>1, <2>1, NamesAssumption, ExistingRef
  <2> HIDE DEF pl
  <2>4. QED
    BY <2>2, <2>3, PlansStartAtHead
<1>4. CASE SquashHistory(p)
  <2>1. PICK b \in Branches, old \in Chains, new \in Chains, runGc \in BOOLEAN :
          /\ Len(old) = Len(new)
          /\ old[1] = work.refs[b]
          /\ \A i \in 1..Len(old) : old[i] \in work.commits
          /\ Begin(p, [RefPlan(b, old[1], new[1], "squash history") EXCEPT
                         !.commits = {new[i] : i \in 1..Len(new)},
                         !.thenGc = runGc],
                   "staged")
    BY <1>4 DEF SquashHistory
  <2>2. PICK from, to, cs :
          from = old[1] /\ to = new[1] /\ cs = {new[i] : i \in 1..Len(new)}
    OBVIOUS
  <2> DEFINE pl == [RefPlan(b, from, to, "squash history") EXCEPT
                      !.commits = cs, !.thenGc = runGc]
  <2>3. PICK n \in 1..MaxLineage : old \in [1..n -> Commits]
    BY DEF Chains
  <2>4. work.refs[b] \in Commits
    <3>1. 1 \in 1..n
      BY <2>3, GraphAssumption
    <3>2. QED
      BY <2>1, <2>3, <3>1
  <2>5. work.refs[b] = AsHead(work.refs[b]) /\ b \in Refs
    BY <1>1, <2>4, NamesAssumption, ExistingRef
  <2>6. pl.ref = b /\ pl.old = from
    BY DEF RefPlan, NoPlan
  <2>7. Begin(p, pl, "staged")
    BY <2>1, <2>2
  <2> HIDE DEF pl
  <2>8. QED
    BY <2>1, <2>2, <2>5, <2>6, <2>7, PlansStartAtHead
<1>5. QED
  BY <1>2, <1>3, <1>4

\* Refs that are moved, created and deleted without a new commit.
LEMMA MovesStartAtHead ==
    ASSUME IInv, ReflogInv, NEW p \in Clients,
           FastForward(p) \/ ResetRef(p) \/ CreateRef(p) \/ DeleteRef(p)
    PROVE  ReflogInv'
<1>1. work \in Metadata /\ Branches \subseteq Refs
  BY DEF IInv, TypeOK, Refs
<1>2. \E r \in Refs : \E old, new, message :
        /\ old = AsHead(work.refs[r])
        /\ Begin(p, RefPlan(r, old, new, message), "published")
  <2>1. CASE FastForward(p)
    <3>1. PICK b \in Branches, source \in work.commits :
            /\ work.refs[b] # Absent
            /\ Begin(p, RefPlan(b, work.refs[b], source, "merge"), "published")
      BY <2>1 DEF FastForward
    <3>2. QED
      BY <1>1, <3>1, ExistingRef
  <2>2. CASE ResetRef(p)
    <3>1. PICK b \in Branches, c \in work.commits :
            /\ work.refs[b] # Absent
            /\ Begin(p, RefPlan(b, work.refs[b], c, "reset ref"), "published")
      BY <2>2 DEF ResetRef
    <3>2. QED
      BY <1>1, <3>1, ExistingRef
  <2>3. CASE CreateRef(p)
    <3>1. PICK r \in Refs, head \in work.commits \union {NoCommit} :
            /\ work.refs[r] = Absent
            /\ Begin(p, RefPlan(r, NoCommit, head, "create"), "published")
      BY <2>3 DEF CreateRef
    <3>2. NoCommit = AsHead(work.refs[r])
      BY <3>1 DEF AsHead
    <3>3. QED
      BY <3>1, <3>2
  <2>4. CASE DeleteRef(p)
    <3>1. PICK r \in Refs :
            /\ work.refs[r] # Absent
            /\ Begin(p, RefPlan(r, work.refs[r], Absent, "delete"), "published")
      BY <2>4 DEF DeleteRef
    <3>2. QED
      BY <1>1, <3>1, ExistingRef
  <2>5. QED
    BY <2>1, <2>2, <2>3, <2>4
<1>3. PICK r \in Refs : \E old, new, message :
        /\ old = AsHead(work.refs[r])
        /\ Begin(p, RefPlan(r, old, new, message), "published")
  BY <1>2
<1>4. PICK old, new, message :
        /\ old = AsHead(work.refs[r])
        /\ Begin(p, RefPlan(r, old, new, message), "published")
  BY <1>3
<1> DEFINE pl == RefPlan(r, old, new, message)
<1>5. pl.ref = r /\ pl.old = old
  BY RefPlanStart
<1>6. Begin(p, pl, "published")
  BY <1>4
<1> HIDE DEF pl
<1>7. QED
  BY <1>4, <1>5, <1>6, PlansStartAtHead

\* The update of a ref and of its log is one that explains itself.
LEMMA UpdateRefReflog ==
    ASSUME IInv, ReflogInv, NEW p \in Clients, UpdateRef(p)
    PROVE  ReflogInv'
<1> DEFINE e == [ref |-> plan.ref, old |-> plan.old,
                 new |-> AsHead(plan.new), message |-> plan.message]
<1>1. /\ db' = db /\ writer' = writer /\ phase' = "updated"
      /\ phase = "published" /\ writer = p
      /\ work' = [work EXCEPT !.refs[plan.ref] = plan.new,
                              !.reflog = AppendReflog(@, e)]
  BY DEF UpdateRef
<1>2. work \in Metadata /\ plan \in Plan /\ writer # Nobody
  BY <1>1, NamesAssumption DEF IInv, TypeOK
<1>3. e \in LogEntry
  BY <1>2, NamesAssumption DEF Plan, LogEntry, AsHead, Heads
<1>4. e.ref = plan.ref /\ e.old = AsHead(work.refs[plan.ref]) /\ e.new = AsHead(plan.new)
  BY <1>1 DEF ReflogInv
<1> HIDE DEF e
<1>5. /\ work'.refs = [work.refs EXCEPT ![plan.ref] = plan.new]
      /\ work'.reflog = AppendReflog(work.reflog, e)
  BY <1>1, <1>2 DEF Metadata
<1>6. /\ work.reflog \in Seq(LogEntry) /\ work.refs \in [Refs -> Heads \union {Absent}]
      /\ plan.ref \in Refs /\ plan.new \in Heads \union {Absent}
      /\ Explains(work.reflog, work.refs)
  BY <1>2 DEF Metadata, Plan, ReflogInv
<1>7. Explains(work'.reflog, work'.refs)
  BY <1>3, <1>4, <1>5, <1>6, AppendExplains
<1>8. QED
  BY <1>1, <1>7 DEF ReflogInv

\* Every step keeps refs and reflog in agreement.
LEMMA NextReflog == IInv /\ ReflogInv /\ [Next]_vars => ReflogInv'
<1> SUFFICES ASSUME IInv, ReflogInv, [Next]_vars PROVE ReflogInv'
  OBVIOUS
<1>1. CASE UNCHANGED vars
  BY <1>1, QuietSteps DEF vars
<1>2. ASSUME NEW p \in Clients,
             Acquire(p) \/ Write(p) \/ Crash(p) \/ ReadOpen(p) \/ ReadClose(p)
      PROVE  ReflogInv'
  <2> USE DEF Files
  <2>1. db \in Metadata /\ work \in Metadata /\ p # Nobody
    BY NamesAssumption DEF IInv, TypeOK
  <2>2. CASE Acquire(p)
    <3>1. db' = db /\ work'.refs = db.refs /\ work'.reflog = db.reflog /\ phase' = "locked"
      BY <2>1, <2>2 DEF Acquire, Metadata
    <3>2. QED
      BY <3>1 DEF ReflogInv
  <2>3. CASE CommitTx(p)
    <3>1. db' = work /\ writer' = Nobody /\ phase' = "idle" /\ writer = p
      BY <2>3 DEF CommitTx, Release
    <3>2. QED
      BY <2>1, <3>1 DEF ReflogInv
  <2>4. CASE Fail(p) \/ Crash(p)
    <3>1. db' = db /\ writer' = Nobody /\ phase' = "idle"
      BY <2>4 DEF Fail, Crash, Rollback, Release
    <3>2. QED
      BY <3>1 DEF ReflogInv
  <2>5. CASE CreateCommit(p) \/ MergeCommit(p) \/ SquashHistory(p)
    BY <2>5, CommitsStartAtHead
  <2>6. CASE FastForward(p) \/ ResetRef(p) \/ CreateRef(p) \/ DeleteRef(p)
    BY <2>6, MovesStartAtHead
  <2>7. CASE UpdateRef(p)
    BY <2>7, UpdateRefReflog
  <2>8. CASE \/ NothingToDo(p) \/ RequestGc(p) \/ PublishBlob(p) \/ PublishRest(p)
             \/ Cleanup(p) \/ Gc(p) \/ ReadOpen(p) \/ ReadClose(p)
    <3>1. /\ db' = db /\ writer' = writer
          /\ work'.refs = work.refs /\ work'.reflog = work.reflog
      BY <2>1, <2>8 DEF NothingToDo, RequestGc, PublishBlob, PublishRest, Cleanup, Gc,
            GcStage, GcPublish, GcMoveBlob, GcMovePack, ReadOpen, ReadClose, Metadata
    <3>2. phase' \in {"staged", "published"} =>
             phase \in {"staged", "published"} /\ plan' = plan
      BY <2>8 DEF NothingToDo, RequestGc, PublishBlob, PublishRest, Cleanup, Gc,
            GcStage, GcPublish, GcMoveBlob, GcMovePack, ReadOpen, ReadClose
    <3>3. QED
      BY <3>1, <3>2, QuietSteps
  <2>9. QED
    BY <1>2, <2>2, <2>3, <2>4, <2>5, <2>6, <2>7, <2>8 DEF Write, Request, Publish
<1>3. QED
  BY <1>1, <1>2 DEF Next

\* An empty log explains an empty branch, one entry the first commit.
LEMMA InitReflog == Init => ReflogInv
<1> SUFFICES ASSUME Init PROVE ReflogInv
  OBVIOUS
<1>1. PICK head \in {InitialCommit, NoCommit} :
        /\ db.refs = [r \in Refs |-> IF r = DefaultBranch THEN head ELSE Absent]
        /\ db.reflog = IF head = NoCommit THEN << >>
                       ELSE << [ref |-> DefaultBranch, old |-> NoCommit,
                                new |-> head, message |-> "commit"] >>
  BY DEF Init
<1>2. writer = Nobody /\ phase = "idle"
  BY DEF Init
<1>3. ASSUME NEW r \in Refs
      PROVE  /\ \A i, j \in EntriesOf(db.reflog, r) : ~(i < j)
             /\ EntriesOf(db.reflog, r) # {} =>
                   \E i \in EntriesOf(db.reflog, r) :
                      IsLast(db.reflog, r, i) /\ db.reflog[i].new = AsHead(db.refs[r])
             /\ EntriesOf(db.reflog, r) = {} => db.refs[r] \in {Absent, NoCommit}
  <2>1. CASE head = NoCommit
    <3>1. EntriesOf(db.reflog, r) = {} /\ db.refs[r] \in {Absent, NoCommit}
      BY <1>1, <2>1 DEF EntriesOf
    <3>2. QED
      BY <3>1
  <2>2. CASE head # NoCommit
    <3> DEFINE e == [ref |-> DefaultBranch, old |-> NoCommit,
                     new |-> head, message |-> "commit"]
    <3>1. db.reflog = << e >> /\ e.ref = DefaultBranch /\ e.new = head /\ head # Absent
      BY <1>1, <2>2, ObjectsAssumption, NamesAssumption
    <3> HIDE DEF e
    <3>2. DOMAIN db.reflog = {1} /\ db.reflog[1] = e
      BY <3>1
    <3>3. CASE r = DefaultBranch
      <4>1. EntriesOf(db.reflog, r) = {1} /\ AsHead(db.refs[r]) = e.new
        BY <1>1, <3>1, <3>2, <3>3 DEF EntriesOf, AsHead
      <4>2. QED
        BY <3>2, <4>1 DEF IsLast
    <3>4. CASE r # DefaultBranch
      <4>1. EntriesOf(db.reflog, r) = {} /\ db.refs[r] = Absent
        BY <1>1, <3>1, <3>2, <3>4 DEF EntriesOf
      <4>2. QED
        BY <4>1
    <3>5. QED
      BY <3>3, <3>4
  <2>3. QED
    BY <2>1, <2>2
<1>4. Explains(db.reflog, db.refs)
  BY <1>3 DEF Explains
<1>5. QED
  BY <1>2, <1>4 DEF ReflogInv

-----------------------------------------------------------------------------
\* gc enters the sweep with the rows of the live history, and keeps them.
LEMMA NextSweep == IInv /\ SweepInv /\ [Next]_vars => SweepInv'
<1> SUFFICES ASSUME IInv, SweepInv, [Next]_vars, phase' = "sweep" PROVE SweepInv'
  BY DEF SweepInv
<1> USE DEF Files
<1>1. CASE \E p \in Clients : GcPublish(p)
  <2>1. PICK p \in Clients, q \in Packs :
          /\ phase = "gc staged" /\ writer = p
          /\ work' = [work EXCEPT
                !.commits = @ \ plan.commits,
                !.blobs = @ \ plan.blobs,
                !.chunkLoc = [k \in Chunks |-> IF k \in plan.chunks THEN q
                                                                    ELSE NoPack],
                !.txlog = @ \ {"gc"}]
    BY <1>1 DEF GcPublish
  <2>2. work \in Metadata /\ GcPlanExact /\ Consistent(work)
    BY <2>1, NamesAssumption DEF IInv, TypeOK, PlanInv, RowsInv
  <2>3. /\ work'.refs = work.refs
        /\ work'.commits = work.commits \ plan.commits
        /\ work'.blobs = work.blobs \ plan.blobs
        /\ work'.chunkLoc = [k \in Chunks |-> IF k \in plan.chunks THEN q ELSE NoPack]
    BY <2>1, <2>2 DEF Metadata
  <2>4. Live(work') = Live(work)
    BY <2>3 DEF Live, HeadsOf
  <2>5. Live(work) \subseteq work.commits /\ LiveBlobs(work) \subseteq work.blobs
    BY <2>2, LiveStored DEF LiveBlobs, Consistent
  <2>6. work'.commits = Live(work') /\ work'.blobs = LiveBlobs(work')
    BY <2>2, <2>3, <2>4, <2>5 DEF GcPlanExact, LiveBlobs
  <2>7. {k \in Chunks : Indexed(work', k)} = LiveChunks(work')
    <3>1. LiveChunks(work') = LiveChunks(work)
      BY <2>4 DEF LiveChunks
    <3>2. LiveChunks(work) \subseteq Chunks
      BY <2>2, LiveClosed, ObjectsAssumption DEF LiveChunks
    <3>3. \A k \in Chunks : Indexed(work', k) <=> k \in plan.chunks
      BY <2>3, NamesAssumption DEF Indexed
    <3>4. QED
      BY <2>2, <3>1, <3>2, <3>3 DEF GcPlanExact
  <2>8. QED
    BY <2>6, <2>7 DEF SweepInv
<1>2. CASE ~ \E p \in Clients : GcPublish(p)
  <2>1. phase = "sweep" /\ work' = work
    <3>1. CASE UNCHANGED vars
      BY <3>1 DEF vars
    <3>2. ASSUME NEW p \in Clients,
                 Acquire(p) \/ Write(p) \/ Crash(p) \/ ReadOpen(p) \/ ReadClose(p)
          PROVE  phase = "sweep" /\ work' = work
      <4>1. CASE Request(p)
        BY <4>1 DEF Request, CreateCommit, FastForward, MergeCommit, ResetRef, CreateRef,
           DeleteRef, SquashHistory, NothingToDo, RequestGc, Begin
      <4>2. CASE Publish(p)
        BY <4>2 DEF Publish, PublishBlob, PublishRest, UpdateRef, Cleanup
      <4>3. CASE Gc(p)
        BY <1>2, <4>3 DEF Gc, GcStage, GcMoveBlob, GcMovePack
      <4>4. CASE Acquire(p) \/ CommitTx(p) \/ Fail(p) \/ Crash(p)
        BY <4>4 DEF Acquire, CommitTx, Fail, Crash, Release
      <4>5. CASE ReadOpen(p) \/ ReadClose(p)
        BY <4>5 DEF ReadOpen, ReadClose
      <4>6. QED
        BY <3>2, <4>1, <4>2, <4>3, <4>4, <4>5 DEF Write
    <3>3. QED
      BY <3>1, <3>2 DEF Next
  <2>2. QED
    BY <2>1 DEF SweepInv
<1>3. QED
  BY <1>1, <1>2

-----------------------------------------------------------------------------
\* The reflog explains every ref, in every durable state: no failure, crash
\* or interleaving lets a ref and its log part, and no dropped record matters.
THEOREM ReflogIsExplained == Spec => []ReflogExplainsRefs
<1>1. IInv /\ ReflogInv => ReflogExplainsRefs
  <2> SUFFICES ASSUME IInv, ReflogInv, NEW r \in Refs,
                      EntriesOf(db.reflog, r) # {}
               PROVE  db.reflog[LastOf(db.reflog, r)].new = AsHead(db.refs[r])
    BY DEF ReflogExplainsRefs, ReflogInv, Explains
  <2>1. PICK i \in EntriesOf(db.reflog, r) :
          IsLast(db.reflog, r, i) /\ db.reflog[i].new = AsHead(db.refs[r])
    BY DEF ReflogInv, Explains
  <2>2. db.reflog \in Seq(LogEntry)
    BY DEF IInv, TypeOK, Metadata
  <2>3. QED
    BY <2>1, <2>2, LastEntry
<1>2. Init => ReflogInv
  BY InitReflog
<1>3. IInv /\ ReflogInv /\ [Next]_vars => ReflogInv'
  BY NextReflog
<1>4. QED
  BY <1>1, <1>2, <1>3, InvariantHolds, PTL DEF Spec

\* A gc that commits has left exactly what the refs reach, in rows, in the
\* chunk index and in packs, for any number of refs, commits and chunks.
THEOREM GcIsExact == Spec => GcReclaims
<1>1. SweepInv /\ [Next]_vars => [IsReclaimed]_vars
  <2> SUFFICES ASSUME SweepInv, NEW p \in Clients, phase = "sweep", CommitTx(p)
               PROVE  /\ db'.commits = Live(db')
                      /\ db'.blobs = LiveBlobs(db')
                      /\ {k \in Chunks : Indexed(db', k)} = LiveChunks(db')
                      /\ \A q \in Packs : packFiles'[q] # {} =>
                            \E k \in LiveChunks(db') : db'.chunkLoc[k] = q
    BY DEF IsReclaimed
  <2>1. db' = work /\ packFiles' = packFiles /\ UnusedPacks = {}
    BY DEF CommitTx, Release, Files
  <2>2. ASSUME NEW q \in Packs, packFiles[q] # {}
        PROVE  \E k \in LiveChunks(work) : work.chunkLoc[k] = q
    <3>1. PICK k \in Chunks : work.chunkLoc[k] = q
      BY <2>1, <2>2 DEF UnusedPacks
    <3>2. Indexed(work, k)
      BY <3>1, NamesAssumption DEF Indexed
    <3>3. QED
      BY <3>1, <3>2 DEF SweepInv
  <2>3. QED
    BY <2>1, <2>2 DEF SweepInv
<1>2. Init => SweepInv
  BY DEF Init, SweepInv
<1>3. IInv /\ SweepInv /\ [Next]_vars => SweepInv'
  BY NextSweep
<1>4. QED
  BY <1>1, <1>2, <1>3, InvariantHolds, PTL DEF Spec, GcReclaims

-----------------------------------------------------------------------------
\* What VersionStore asks of a step that moves r to v and brings the history new.
MayMove(r, v, new) ==
    /\ r \in Refs /\ v \in Heads \union {Absent} /\ new \in SUBSET Commits
    /\ r = DefaultBranch => v # Absent
    /\ r \in Tags => v # NoCommit
    /\ v \in Commits => v \in db.commits \union new /\ new \subseteq Ancestors[v]
    /\ v \notin Commits => new = {}
    /\ Closed(db.commits \union new)

\* The open transaction stands at the durable version, or one ref has moved in it.
Same == work.refs = db.refs /\ work.commits = db.commits

HasMoved(r, v, new) == MayMove(r, v, new) /\ work.refs = [db.refs EXCEPT ![r] = v]

SameOrSquashed ==
    \/ work.refs = db.refs
    \/ \E r \in Branches, v \in Commits, new \in SUBSET Commits : HasMoved(r, v, new)

\* How far the open transaction is from the durable version, in every phase.
VersionInv ==
    /\ phase \in {"locked", "staged"} => Same
    /\ phase \in {"staged", "published", "updated"} =>
          /\ MayMove(plan.ref, plan.new, plan.commits)
          /\ plan.thenGc => plan.ref \in Branches /\ plan.new \in Commits
    /\ phase = "published" => work.refs = db.refs
    /\ phase = "updated" => work.refs = [db.refs EXCEPT ![plan.ref] = plan.new]
    /\ phase \in {"published", "updated"} => work.commits = db.commits \union plan.commits
    /\ phase = "ready" =>
          Same \/ \E r \in Refs, v \in Heads \union {Absent}, new \in SUBSET Commits :
                     HasMoved(r, v, new) /\ work.commits = db.commits \union new
    /\ phase \in {"collect", "gc staged", "sweep"} => SameOrSquashed

\* A request may plan every move that VersionStore allows.
LEMMA BeginVersions ==
    ASSUME IInv, VersionInv, NEW p \in Clients, NEW pl,
           NEW next \in {"staged", "published"}, Begin(p, pl, next),
           MayMove(pl.ref, pl.new, pl.commits),
           pl.thenGc => pl.ref \in Branches /\ pl.new \in Commits,
           next = "published" => pl.commits = {}
    PROVE  VersionInv'
<1>1. /\ db' = db /\ plan' = pl /\ phase' = next /\ phase = "locked"
      /\ work'.refs = work.refs /\ work'.commits = work.commits
  BY DEF Begin, IInv, TypeOK, Metadata
<1>2. work.refs = db.refs /\ work.commits = db.commits
  BY <1>1 DEF VersionInv, Same
<1>3. MayMove(pl.ref, pl.new, pl.commits)'  <=> MayMove(pl.ref, pl.new, pl.commits)
  BY <1>1 DEF MayMove
<1>4. MayMove(plan.ref, plan.new, plan.commits)'
  BY <1>1 DEF MayMove
<1>5. Same' /\ plan'.thenGc => plan'.ref \in Branches /\ plan'.new \in Commits
  BY <1>1, <1>2 DEF Same
<1>6. QED
  BY <1>1, <1>2, <1>4, <1>5 DEF VersionInv, Same

\* A ref may go to any commit that is stored.
LEMMA StoredMoves ==
    ASSUME IInv, writer # Nobody, Same, NEW r \in Refs, NEW v \in work.commits
    PROVE  MayMove(r, v, {})
<1>1. Consistent(db) /\ work.commits \subseteq Commits /\ work.commits = db.commits
  BY DEF IInv, RowsInv, TypeOK, Metadata, Same
<1>2. v \in Commits /\ Closed(db.commits)
  BY <1>1 DEF Consistent
<1>3. v # Absent /\ v # NoCommit
  BY <1>2, NamesAssumption
<1>4. QED
  BY <1>1, <1>2, <1>3 DEF MayMove, Heads

\* A branch may go to a new commit whose parents are stored.
LEMMA NewMoves ==
    ASSUME IInv, writer # Nobody, Same, NEW b \in Branches, NEW c \in Commits,
           Parents(c) \subseteq work.commits
    PROVE  MayMove(b, c, {c})
<1>1. Consistent(db) /\ work.commits = db.commits
  BY DEF IInv, RowsInv, Same
<1>2. Closed(db.commits \union {c})
  BY <1>1 DEF Consistent, Closed
<1>3. c # Absent /\ c # NoCommit /\ b \in Refs /\ c \in Ancestors[c]
  BY NamesAssumption, AncestorsClosed DEF Refs
<1>4. QED
  BY <1>2, <1>3 DEF MayMove, Heads

\* A chain is made of ancestors of its first commit.
LEMMA ChainAncestors ==
    ASSUME NEW new \in Chains
    PROVE  \A i \in 1..Len(new) : new[i] \in Ancestors[new[1]]
<1>1. PICK n \in 1..MaxLineage :
        /\ new \in [1..n -> Commits]
        /\ \A i \in 1..(n - 1) : /\ ParentsOf[new[i]] # << >>
                                 /\ new[i + 1] = ParentsOf[new[i]][1]
  BY DEF Chains
<1>2. n \in Nat \ {0} /\ Len(new) = n /\ new[1] \in Commits
  BY <1>1, GraphAssumption
<1> DEFINE Strays == {i \in 1..n : new[i] \notin Ancestors[new[1]]}
<1>3. ASSUME NEW i \in 1..(n - 1), new[i] \in Ancestors[new[1]]
      PROVE  new[i + 1] \in Ancestors[new[1]]
  <2>1. new[i] \in Commits /\ ParentsOf[new[i]] \in Seq(Commits)
    BY <1>1, GraphAssumption
  <2>2. new[i + 1] \in Parents(new[i])
    BY <1>1, <2>1 DEF Parents
  <2>3. QED
    BY <1>2, <1>3, <2>2, AncestorsClosed DEF Closed
<1>4. ASSUME Strays # {}
      PROVE  FALSE
  <2>1. PICK i \in Strays : \A j \in Strays : i <= j
    <3>1. Strays \subseteq Nat
      BY <1>2
    <3> HIDE DEF Strays
    <3>2. QED
      BY <1>4, <3>1, LeastNumber
  <2>2. i # 1
    BY <1>2, AncestorsClosed
  <2>3. i - 1 \in 1..(n - 1) /\ i - 1 \in 1..n /\ i - 1 \notin Strays
    BY <1>2, <2>1, <2>2
  <2>4. new[(i - 1) + 1] \in Ancestors[new[1]]
    BY <1>3, <2>3
  <2>5. QED
    BY <2>1, <2>4
<1>5. QED
  BY <1>2, <1>4

\* In a recovered transaction, what a request starts from.
LEMMA Recovered ==
    ASSUME IInv, VersionInv, NEW p \in Clients, writer = p, phase = "locked"
    PROVE  /\ writer # Nobody /\ Same
           /\ work \in Metadata /\ Branches \subseteq Refs /\ Tags \subseteq Refs
           /\ \A r \in Refs : work.refs[r] \in Commits => work.refs[r] \in work.commits
<1>1. writer # Nobody /\ Same /\ work \in Metadata /\ Branches \subseteq Refs /\ Tags \subseteq Refs
  BY NamesAssumption DEF VersionInv, IInv, TypeOK, Refs
<1>2. Consistent(work)
  BY <1>1 DEF IInv, RowsInv
<1>3. QED
  BY <1>1, <1>2 DEF Consistent, HeadsOf

\* create_commit() and the merge of diverged branches bring one commit.
LEMMA CommitVersions ==
    ASSUME IInv, VersionInv, NEW p \in Clients, CreateCommit(p) \/ MergeCommit(p)
    PROVE  VersionInv'
<1>1. CASE CreateCommit(p)
  <2>1. PICK b \in Branches, c \in Commits :
          /\ work.refs[b] # Absent
          /\ ParentsOf[c] = AsParents(work.refs[b])
          /\ \E bs, ks : Begin(p, [RefPlan(b, work.refs[b], c, "commit") EXCEPT
                         !.commits = {c}, !.blobs = bs, !.chunks = ks], "staged")
    BY <1>1 DEF CreateCommit
  <2>a. PICK bs, ks : Begin(p, [RefPlan(b, work.refs[b], c, "commit") EXCEPT
                         !.commits = {c}, !.blobs = bs, !.chunks = ks], "staged")
    BY <2>1
  <2> DEFINE pl == [RefPlan(b, work.refs[b], c, "commit") EXCEPT
                      !.commits = {c}, !.blobs = bs, !.chunks = ks]
  <2>2. pl.ref = b /\ pl.new = c /\ pl.commits = {c} /\ pl.thenGc = FALSE
    BY DEF RefPlan, NoPlan
  <2>3. writer = p /\ phase = "locked" /\ Begin(p, pl, "staged")
    BY <2>a DEF Begin
  <2> HIDE DEF pl
  <2>4. Parents(c) \subseteq work.commits
    <3>1. work.refs[b] \in Heads
      BY <2>1, <2>3, Recovered DEF Metadata
    <3>2. CASE work.refs[b] = NoCommit
      BY <2>1, <3>2 DEF Parents, AsParents
    <3>3. CASE work.refs[b] # NoCommit
      <4>1. work.refs[b] \in Commits /\ ParentsOf[c] = <<work.refs[b]>>
        BY <2>1, <3>1, <3>3 DEF Heads, AsParents
      <4>2. Parents(c) = {work.refs[b]}
        BY <4>1 DEF Parents
      <4>3. QED
        BY <2>3, <4>1, <4>2, Recovered
    <3>4. QED
      BY <3>2, <3>3
  <2>5. MayMove(b, c, {c})
    BY <2>3, <2>4, Recovered, NewMoves
  <2>6. QED
    BY <2>2, <2>3, <2>5, BeginVersions
<1>2. CASE MergeCommit(p)
  <2>1. PICK b \in Branches, source \in work.commits, c \in Commits :
          /\ work.refs[b] \in Commits
          /\ ParentsOf[c] = <<work.refs[b], source>>
          /\ Begin(p, [RefPlan(b, work.refs[b], c, "merge") EXCEPT !.commits = {c}],
                   "staged")
    BY <1>2 DEF MergeCommit
  <2> DEFINE pl == [RefPlan(b, work.refs[b], c, "merge") EXCEPT !.commits = {c}]
  <2>2. pl.ref = b /\ pl.new = c /\ pl.commits = {c} /\ pl.thenGc = FALSE
    BY DEF RefPlan, NoPlan
  <2>3. writer = p /\ phase = "locked" /\ Begin(p, pl, "staged")
    BY <2>1 DEF Begin
  <2> HIDE DEF pl
  <2>4. Parents(c) \subseteq {work.refs[b], source}
    BY <2>1 DEF Parents
  <2>5. MayMove(b, c, {c})
    BY <2>1, <2>3, <2>4, Recovered, NewMoves
  <2>6. QED
    BY <2>2, <2>3, <2>5, BeginVersions
<1>3. QED
  BY <1>1, <1>2

\* The other requests bring no commit: a ref goes to one that is there, to none,
\* or away.
LEMMA MoveVersions ==
    ASSUME IInv, VersionInv, NEW p \in Clients,
           FastForward(p) \/ ResetRef(p) \/ CreateRef(p) \/ DeleteRef(p)
    PROVE  VersionInv'
<1>1. PICK r \in Refs, v \in Heads \union {Absent} :
        /\ \E old, message : Begin(p, RefPlan(r, old, v, message), "published")
        /\ v \in Commits => v \in work.commits
        /\ v = NoCommit => r \in Branches
        /\ v = Absent => r # DefaultBranch
  <2>1. Branches \subseteq Refs /\ NoCommit # Absent
    BY NamesAssumption DEF Refs
  <2>2. work.commits \subseteq Commits /\ NoCommit \notin Commits /\ Absent \notin Commits
    BY NamesAssumption DEF IInv, TypeOK, Metadata
  <2>3. CASE FastForward(p)
    BY <2>1, <2>2, <2>3 DEF FastForward, Heads
  <2>4. CASE ResetRef(p)
    BY <2>1, <2>2, <2>4 DEF ResetRef, Heads
  <2>5. CASE CreateRef(p)
    BY <2>1, <2>2, <2>5 DEF CreateRef, Heads
  <2>6. CASE DeleteRef(p)
    BY <2>1, <2>2, <2>6 DEF DeleteRef, Heads
  <2>7. QED
    BY <2>3, <2>4, <2>5, <2>6
<1>a. PICK old, message : Begin(p, RefPlan(r, old, v, message), "published")
  BY <1>1
<1>2. /\ writer = p /\ phase = "locked"
      /\ RefPlan(r, old, v, message).ref = r /\ RefPlan(r, old, v, message).new = v
      /\ RefPlan(r, old, v, message).commits = {}
      /\ RefPlan(r, old, v, message).thenGc = FALSE
  BY <1>a DEF Begin, RefPlan, NoPlan
<1>3. writer # Nobody /\ Same /\ Closed(db.commits)
  BY <1>2, Recovered DEF IInv, RowsInv, Consistent
<1>4. MayMove(r, v, {})
  <2>1. CASE v \in Commits
    BY <1>1, <1>3, <2>1, StoredMoves
  <2>2. CASE v \notin Commits
    <3>1. r \in Tags => v # NoCommit
      BY <1>1, NamesAssumption
    <3>2. QED
      BY <1>1, <1>3, <2>2, <3>1 DEF MayMove
  <2>3. QED
    BY <2>1, <2>2
<1>5. QED
  BY <1>1, <1>a, <1>2, <1>4, BeginVersions

\* squash_history() brings a chain that ends in a root.
LEMMA SquashVersions ==
    ASSUME IInv, VersionInv, NEW p \in Clients, SquashHistory(p)
    PROVE  VersionInv'
<1>1. PICK b \in Branches, old \in Chains, new \in Chains, runGc \in BOOLEAN :
        /\ Len(old) = Len(new)
        /\ old[1] = work.refs[b]
        /\ \A i \in 1..Len(old) :
              /\ old[i] \in work.commits
              /\ BlobsOf[new[i]] = BlobsOf[old[i]]
              /\ ChunksOf[new[i]] = ChunksOf[old[i]]
              /\ Len(ParentsOf[new[i]]) = IF i = Len(new) THEN 0 ELSE 1
        /\ Begin(p, [RefPlan(b, old[1], new[1], "squash history") EXCEPT
                       !.commits = {new[i] : i \in 1..Len(new)},
                       !.thenGc = runGc],
                 "staged")
  BY DEF SquashHistory
<1> DEFINE cs == {new[i] : i \in 1..Len(new)}
           pl == [RefPlan(b, old[1], new[1], "squash history") EXCEPT
                    !.commits = cs, !.thenGc = runGc]
<1>2. pl.ref = b /\ pl.new = new[1] /\ pl.commits = cs
  BY DEF RefPlan, NoPlan
<1>3. Begin(p, pl, "staged") /\ writer = p /\ phase = "locked"
  BY <1>1 DEF Begin
<1> HIDE DEF pl
<1>4. /\ \A i \in 1..Len(new) : /\ new[i] \in Commits
                                 /\ Parents(new[i]) \subseteq cs
                                 /\ new[i] \in Ancestors[new[1]]
      /\ 1 \in 1..Len(new)
  BY <1>1, ChainParents, ChainAncestors
<1>5. cs \subseteq Commits /\ new[1] \in cs /\ cs \subseteq Ancestors[new[1]] /\ Closed(cs)
  BY <1>4 DEF Closed
<1> HIDE DEF cs
<1>6. Closed(db.commits) /\ b \in Refs
  BY <1>3, Recovered DEF IInv, RowsInv, Consistent
<1>7. Closed(db.commits \union cs)
  BY <1>5, <1>6 DEF Closed
<1>8. MayMove(b, new[1], cs)
  BY <1>5, <1>6, <1>7, NamesAssumption DEF MayMove, Heads
<1>9. QED
  BY <1>2, <1>3, <1>5, <1>8, BeginVersions

\* A step that leaves the refs and commits alone and stays among the phases of
\* gc, or goes to a phase without a claim.
LEMMA QuietVersions ==
    ASSUME IInv, VersionInv, db' = db, plan' = plan,
           \/ phase' = phase /\ work' = work
           \/ phase' = "idle"
    PROVE  VersionInv'
<1>1. CASE phase' = phase /\ work' = work
  <2>1. \A r, v, new : MayMove(r, v, new)' <=> MayMove(r, v, new)
    BY DEF MayMove
  <2>2. \A r, v, new : HasMoved(r, v, new)' <=> HasMoved(r, v, new)
    BY <1>1, <2>1 DEF HasMoved
  <2>3. (SameOrSquashed' <=> SameOrSquashed) /\ (Same' <=> Same)
    BY <1>1, <2>2 DEF SameOrSquashed, Same
  <2>4. QED
    BY <1>1, <2>1, <2>2, <2>3 DEF VersionInv
<1>2. CASE phase' = "idle"
  BY <1>2 DEF VersionInv
<1>3. QED
  BY <1>1, <1>2

\* Publication brings the planned commits, then moves the planned ref.
LEMMA PublishVersions ==
    ASSUME IInv, VersionInv, NEW p \in Clients, Publish(p)
    PROVE  VersionInv'
<1> USE DEF Files
<1>1. work \in Metadata /\ plan \in Plan
  BY DEF IInv, TypeOK
<1>2. CASE PublishBlob(p)
  BY <1>2, QuietVersions DEF PublishBlob
<1>3. CASE PublishRest(p)
  <2>1. /\ phase = "staged" /\ phase' = "published" /\ db' = db /\ plan' = plan
        /\ work'.refs = work.refs /\ work'.commits = work.commits \union plan.commits
    BY <1>1, <1>3 DEF PublishRest, Metadata
  <2>2. MayMove(plan.ref, plan.new, plan.commits)' <=> MayMove(plan.ref, plan.new, plan.commits)
    BY <2>1 DEF MayMove
  <2>3. QED
    BY <2>1, <2>2 DEF VersionInv, Same
<1>4. CASE UpdateRef(p)
  <2>1. /\ phase = "published" /\ phase' = "updated" /\ db' = db /\ plan' = plan
        /\ work'.refs = [work.refs EXCEPT ![plan.ref] = plan.new]
        /\ work'.commits = work.commits
    BY <1>1, <1>4 DEF UpdateRef, Metadata
  <2>2. MayMove(plan.ref, plan.new, plan.commits)' <=> MayMove(plan.ref, plan.new, plan.commits)
    BY <2>1 DEF MayMove
  <2>3. QED
    BY <2>1, <2>2 DEF VersionInv, Same
<1>5. CASE Cleanup(p)
  <2>1. /\ phase = "updated" /\ phase' = (IF plan.thenGc THEN "collect" ELSE "ready")
        /\ db' = db /\ plan' = plan
        /\ work'.refs = work.refs /\ work'.commits = work.commits
    BY <1>1, <1>5 DEF Cleanup, Metadata
  <2>2. /\ MayMove(plan.ref, plan.new, plan.commits)
        /\ work.refs = [db.refs EXCEPT ![plan.ref] = plan.new]
        /\ work.commits = db.commits \union plan.commits
        /\ plan.thenGc => plan.ref \in Branches /\ plan.new \in Commits
    BY <2>1 DEF VersionInv
  <2>3. HasMoved(plan.ref, plan.new, plan.commits)'
    BY <2>1, <2>2 DEF HasMoved, MayMove
  <2>4. /\ plan'.ref \in Refs /\ plan'.new \in Heads \union {Absent}
        /\ plan'.commits \in SUBSET Commits
        /\ work'.commits = db'.commits \union plan'.commits
    BY <2>1, <2>2 DEF MayMove
  <2>5. CASE plan.thenGc
    <3>1. SameOrSquashed'
      BY <2>1, <2>2, <2>3, <2>4, <2>5 DEF SameOrSquashed
    <3>2. QED
      BY <2>1, <2>5, <3>1 DEF VersionInv
  <2>6. CASE ~ plan.thenGc
    BY <2>1, <2>3, <2>4, <2>6 DEF VersionInv
  <2>7. QED
    BY <2>5, <2>6
<1>6. QED
  BY <1>2, <1>3, <1>4, <1>5 DEF Publish

\* gc leaves the refs of the open transaction alone.
LEMMA GcVersions ==
    ASSUME IInv, VersionInv, NEW p \in Clients, Gc(p)
    PROVE  VersionInv'
<1> USE DEF Files
<1>1. work \in Metadata
  BY DEF IInv, TypeOK
<1>2. phase \in {"collect", "gc staged", "sweep"} /\ phase' \in {"gc staged", "sweep"} /\ db' = db
  BY DEF Gc, GcStage, GcPublish, GcMoveBlob, GcMovePack
<1>3. work'.refs = work.refs
  BY <1>1 DEF Gc, GcStage, GcPublish, GcMoveBlob, GcMovePack, Metadata
<1>4. SameOrSquashed'
  BY <1>2, <1>3 DEF VersionInv, SameOrSquashed, HasMoved, MayMove
<1>5. QED
  BY <1>2, <1>4 DEF VersionInv

\* Every step keeps the distance.
LEMMA NextVersions == IInv /\ VersionInv /\ [Next]_vars => VersionInv'
<1> SUFFICES ASSUME IInv, VersionInv, [Next]_vars PROVE VersionInv'
  OBVIOUS
<1> USE DEF Files
<1>1. CASE UNCHANGED vars
  BY <1>1, QuietVersions DEF vars
<1>2. ASSUME NEW p \in Clients,
             Acquire(p) \/ Write(p) \/ Crash(p) \/ ReadOpen(p) \/ ReadClose(p)
      PROVE  VersionInv'
  <2>1. CASE Acquire(p)
    <3>1. phase' = "locked" /\ work'.refs = db'.refs /\ work'.commits = db'.commits
      BY <2>1 DEF Acquire, IInv, TypeOK, Metadata
    <3>2. QED
      BY <3>1 DEF VersionInv, Same
  <2>2. CASE Request(p)
    <3>1. CASE NothingToDo(p) \/ RequestGc(p)
      <4>1. /\ phase = "locked" /\ phase' \in {"ready", "collect"}
            /\ db' = db /\ work' = work
        BY <3>1 DEF NothingToDo, RequestGc
      <4>2. QED
        BY <4>1 DEF VersionInv, Same, SameOrSquashed
    <3>2. QED
      BY <2>2, <3>1, CommitVersions, MoveVersions, SquashVersions DEF Request
  <2>3. CASE CommitTx(p) \/ Fail(p) \/ Crash(p)
    <3>1. phase' = "idle"
      BY <2>3 DEF CommitTx, Fail, Crash, Release
    <3>2. QED
      BY <3>1 DEF VersionInv
  <2>4. CASE ReadOpen(p) \/ ReadClose(p)
    BY <2>4, QuietVersions DEF ReadOpen, ReadClose
  <2>5. QED
    BY <1>2, <2>1, <2>2, <2>3, <2>4, PublishVersions, GcVersions DEF Write
<1>3. QED
  BY <1>1, <1>2 DEF Next

\* What VersionStore calls by its own names.
LEMMA VersionNames ==
    /\ \A S : Versions!Closed(S) <=> Closed(S)
    /\ Versions!Ancestors = Ancestors
    /\ \A H : Versions!Reach(H) = Reach(H)
    /\ Versions!Refs = Refs
    /\ Versions!Heads = HeadsOf(db)
  BY DEF Versions!Closed, Versions!Parents, Closed, Parents, Versions!Ancestors, Ancestors,
         Versions!Reach, Reach, Versions!Refs, Refs, Versions!Heads, HeadsOf

\* Each step of the write path is one step of VersionStore, or none.
LEMMA StepOfVersions ==
    IInv /\ VersionInv /\ SweepInv /\ [Next]_vars
       => [Versions!Next]_<<db.refs, db.commits>>
<1> SUFFICES ASSUME IInv, VersionInv, SweepInv, [Next]_vars, db' # db
             PROVE  [Versions!Next]_<<db.refs, db.commits>>
  OBVIOUS
<1> USE DEF Files
<1>1. PICK p \in Clients : CommitTx(p)
  <2>1. CASE UNCHANGED vars
    BY <2>1 DEF vars
  <2>2. ASSUME NEW p \in Clients,
               Acquire(p) \/ Write(p) \/ Crash(p) \/ ReadOpen(p) \/ ReadClose(p)
        PROVE  CommitTx(p)
    <3>1. CASE Request(p)
      BY <3>1 DEF Request, CreateCommit, FastForward, MergeCommit, ResetRef, CreateRef,
         DeleteRef, SquashHistory, NothingToDo, RequestGc, Begin
    <3>2. CASE Publish(p) \/ Gc(p)
      BY <3>2 DEF Publish, PublishBlob, PublishRest, UpdateRef, Cleanup, Gc, GcStage,
         GcPublish, GcMoveBlob, GcMovePack
    <3>3. QED
      BY <2>2, <3>1, <3>2 DEF Write, Acquire, Fail, Crash, ReadOpen, ReadClose, Rollback
  <2>3. QED
    BY <2>1, <2>2 DEF Next
<1>2. db' = work /\ phase \in {"ready", "sweep"}
  BY <1>1 DEF CommitTx
<1>3. ASSUME NEW r \in Refs, NEW v \in Heads \union {Absent}, NEW new \in SUBSET Commits,
             HasMoved(r, v, new)
      PROVE  Versions!Moved(r, v, new)
  BY <1>2, <1>3, VersionNames DEF HasMoved, MayMove, Versions!Moved
<1>4. CASE phase = "ready"
  <2>1. CASE Same
    BY <1>2, <2>1 DEF Same
  <2>2. CASE ~ Same
    <3>1. PICK r \in Refs, v \in Heads \union {Absent}, new \in SUBSET Commits :
             HasMoved(r, v, new) /\ work.commits = db.commits \union new
      BY <1>4, <2>2 DEF VersionInv
    <3>2. Versions!Moved(r, v, new) /\ v \in Commits \union {Absent, NoCommit}
      BY <1>3, <3>1 DEF Heads
    <3>3. Versions!Move
      BY <1>2, <3>1, <3>2, VersionNames DEF Versions!Move
    <3>4. QED
      BY <3>3 DEF Versions!Next
  <2>3. QED
    BY <2>1, <2>2
<1>5. CASE phase = "sweep"
  <2>1. db'.commits = Reach(HeadsOf(db'))
    BY <1>2, <1>5 DEF SweepInv, Live
  <2>2. CASE work.refs = db.refs
    <3>1. HeadsOf(db') = HeadsOf(db)
      BY <1>2, <2>2 DEF HeadsOf
    <3>2. Versions!Forget
      BY <1>2, <2>1, <2>2, <3>1, VersionNames DEF Versions!Forget
    <3>3. QED
      BY <3>2 DEF Versions!Next
  <2>3. CASE work.refs # db.refs
    <3>1. PICK r \in Branches, v \in Commits, new \in SUBSET Commits : HasMoved(r, v, new)
      BY <1>5, <2>3 DEF VersionInv, SameOrSquashed
    <3>2. Versions!Moved(r, v, new)
      BY <1>3, <3>1 DEF Refs, Heads
    <3>3. (Versions!Heads)' = HeadsOf(db')
      BY DEF Versions!Heads, HeadsOf, Versions!Refs, Refs
    <3>4. Versions!MoveAndForget
      BY <2>1, <3>1, <3>2, <3>3, VersionNames DEF Versions!MoveAndForget
    <3>5. QED
      BY <3>4 DEF Versions!Next
  <2>4. QED
    BY <2>2, <2>3
<1>6. QED
  BY <1>2, <1>4, <1>5

\* The write path implements VersionStore: whatever fails, dies or interleaves,
\* who sees the durable refs and commits sees one whole version after another.
THEOREM ImplementsVersions == Spec => ImplementsVersionStore
<1>1. Init => Versions!Init
  BY DEF Init, Versions!Init, Versions!Refs, Refs
<1>2. Init => VersionInv /\ SweepInv
  BY DEF Init, VersionInv, SweepInv
<1>3. QED
  BY <1>1, <1>2, InvariantHolds, NextVersions, NextSweep, StepOfVersions, PTL
     DEF Spec, ImplementsVersionStore, Versions!Spec

================================================================================
