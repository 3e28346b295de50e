------------------------- MODULE UploadProtocolProofs -------------------------
(***************************************************************************)
(* What the server promises an upload, for any clients, requests, files    *)
(* and writers.  Two things are needed beyond the properties: commits only *)
(* refer to older ones, which the log never changes, and a plan still says *)
(* the truth about its base when it is applied, however late.  That no     *)
(* lineage has one upload twice follows from the order of commits, and     *)
(* types also need that gc keeps the parents of what it keeps.             *)
(***************************************************************************)
EXTENDS UploadProtocol, InductionLemmas

Request ==
    [by : Clients \union {NoClient},
     plan : Plan \union {NoPlan},
     stage : {"idle", "received", "checked", "ready"}]

Types ==
    /\ log \in Seq(Commit)
    /\ Len(log) <= MaxCommits
    /\ head \in 0..Len(log)
    /\ present \subseteq 1..Len(log)
    /\ plans \in [Clients -> Plan \union {NoPlan}]
    /\ requests \in [Requests -> Request]

(***************************************************************************)
(* Snapshot, with the log as an argument.                                  *)
(***************************************************************************)
FilesAt(l, c) == IF c = 0 THEN NoFiles ELSE l[c].files

(***************************************************************************)
(* What the plan of a client says of its base is true in the log l.        *)
(***************************************************************************)
IsTrueFor(l, plan, c) ==
    /\ plan \in Plan
    /\ plan.base <= Len(l)
    /\ plan.strategy = "copy" => FilesAt(l, plan.base)[plan.source] = Wanted[c]

PlansAreTrue ==
    /\ \A c \in Clients : plans[c] # NoPlan => IsTrueFor(log, plans[c], c)
    /\ \A r \in Requests :
          requests[r].stage # "idle" =>
             /\ requests[r].by \in Clients
             /\ IsTrueFor(log, requests[r].plan, requests[r].by)

ParentsAreOlder == \A c \in 1..Len(log) : log[c].parent < c

IInv ==
    /\ Types
    /\ PlansAreTrue
    /\ ParentsAreOlder
    /\ PinnedPlansAreBound
    /\ UploadsAreWhole

-----------------------------------------------------------------------------
(***************************************************************************)
(* A snapshot is a function from paths.                                    *)
(***************************************************************************)
LEMMA SnapshotType ==
  ASSUME Types, NEW c \in 0..Len(log)
  PROVE  Snapshot(c) \in [Paths -> SUBSET Chunks]
<1>1. CASE c = 0
  BY <1>1 DEF Snapshot, NoFiles, Missing
<1>2. CASE c # 0
  <2>1. log[c] \in Commit
    BY <1>2 DEF Types
  <2> QED
    BY <1>2, <2>1 DEF Snapshot, Commit
<1> QED
  BY <1>1, <1>2

(***************************************************************************)
(* The log only grows, so no snapshot ever changes.                        *)
(***************************************************************************)
LEMMA SnapshotKept ==
  ASSUME Types, NEW commit \in Commit, log' = Append(log, commit)
  PROVE  /\ Len(log') = Len(log) + 1
         /\ log'[Len(log) + 1] = commit
         /\ \A c \in 1..Len(log) : log'[c] = log[c]
         /\ \A c \in 0..Len(log) : FilesAt(log', c) = Snapshot(c)
<1>1. /\ log \in Seq(Commit)
      /\ Len(log) \in Nat
  BY DEF Types
<1>2. /\ Len(log') = Len(log) + 1
      /\ log'[Len(log) + 1] = commit
      /\ \A c \in 1..Len(log) : log'[c] = log[c]
  BY <1>1
<1>3. \A c \in 0..Len(log) : FilesAt(log', c) = Snapshot(c)
  BY <1>1, <1>2 DEF Snapshot, FilesAt
<1> QED
  BY <1>2, <1>3

(***************************************************************************)
(* plan_commit_manifest() returns a plan that is true of the head.         *)
(***************************************************************************)
LEMMA NewPlanIsTrue ==
  ASSUME Types, NEW c \in Clients
  PROVE  IsTrueFor(log, PlanFor(c), c)
<1> DEFINE reusable == Wanted[c] \intersect VisibleChunks(Snapshot(head))
           copy == [base |-> head, parent |-> ParentGiven[c],
                    strategy |-> "copy",
                    source |-> CHOOSE p \in Copies(Wanted[c]) : TRUE,
                    reused |-> {}]
           chunks == [base |-> head, parent |-> ParentGiven[c],
                      strategy |-> "chunks", source |-> Target[c],
                      reused |-> reusable]
           full == [base |-> head, parent |-> ParentGiven[c],
                    strategy |-> "full", source |-> Target[c], reused |-> {}]
<1>0. /\ head \in 0..MaxCommits
      /\ head <= Len(log)
      /\ ParentGiven[c] \in Parents
      /\ Target[c] \in Paths
      /\ Wanted[c] \in SUBSET Chunks
      /\ reusable \in SUBSET Chunks
  BY UploadsAssumption, BoundAssumption DEF Types, Parents
<1>1. \/ Copies(Wanted[c]) # {} /\ PlanFor(c) = copy
      \/ PlanFor(c) = chunks
      \/ PlanFor(c) = full
  BY DEF PlanFor
<1>2. CASE Copies(Wanted[c]) # {} /\ PlanFor(c) = copy
  <2>1. copy.source \in Copies(Wanted[c])
    BY <1>2
  <2>2. copy.source \in Paths /\ Snapshot(head)[copy.source] = Wanted[c]
    BY <2>1 DEF Copies
  <2>3. copy \in Plan
    BY <1>0, <2>2 DEF Plan, Strategies
  <2> QED
    BY <1>0, <1>2, <2>2, <2>3 DEF IsTrueFor, FilesAt, Snapshot
<1>3. CASE PlanFor(c) = chunks
  BY <1>0, <1>3 DEF IsTrueFor, Plan, Strategies
<1>4. CASE PlanFor(c) = full
  BY <1>0, <1>4 DEF IsTrueFor, Plan, Strategies
<1> QED
  BY <1>1, <1>2, <1>3, <1>4

-----------------------------------------------------------------------------
(***************************************************************************)
(* As long as the log stays or grows by one commit, what was true of a     *)
(* plan or of the commits before stays true.                               *)
(***************************************************************************)
Grows(commit) == commit \in Commit /\ log' = Append(log, commit)

LEMMA PlansStayTrue ==
  ASSUME Types, NEW plan, NEW c, IsTrueFor(log, plan, c),
         log' = log \/ \E commit : Grows(commit)
  PROVE  IsTrueFor(log', plan, c)
<1>0. plan \in Plan /\ plan.base \in 0..Len(log) /\ Len(log) \in Nat
  BY DEF IsTrueFor, Plan, Types
<1>1. CASE log' = log
  BY <1>1
<1>2. CASE \E commit : Grows(commit)
  <2> PICK commit : Grows(commit)
    BY <1>2
  <2>1. /\ FilesAt(log', plan.base) = FilesAt(log, plan.base)
        /\ Len(log') = Len(log) + 1
    BY <1>0, SnapshotKept DEF Grows, Snapshot, FilesAt
  <2> QED
    BY <1>0, <2>1 DEF IsTrueFor
<1> QED
  BY <1>1, <1>2

(***************************************************************************)
(* The properties of commits are kept by a new one that has them.          *)
(***************************************************************************)
HasThem(commit) ==
    /\ commit.parent = head
    /\ commit.by # NoClient =>
          /\ commit.by \in Clients
          /\ Pinned(commit.plan) => commit.parent = commit.plan.base
          /\ commit.files = NewFiles(commit.plan, Target[commit.by],
                                     Wanted[commit.by])

LEMMA CommitsStayWhole ==
  ASSUME Types, ParentsAreOlder, PinnedPlansAreBound, UploadsAreWhole,
         NEW commit, Grows(commit), HasThem(commit)
  PROVE  (ParentsAreOlder /\ PinnedPlansAreBound /\ UploadsAreWhole)'
<1> DEFINE n == Len(log) + 1
<1>1. /\ Len(log) \in Nat
      /\ head \in 0..Len(log)
      /\ log \in Seq(Commit)
      /\ log' \in Seq(Commit)
  BY DEF Types, Grows
<1>2. /\ Len(log') = n
      /\ log'[n] = commit
      /\ \A c \in 1..Len(log) : log'[c] = log[c]
      /\ \A c \in 0..Len(log) : FilesAt(log', c) = Snapshot(c)
  BY SnapshotKept DEF Grows
<1>3. DOMAIN log = 1..Len(log) /\ DOMAIN log' = 1..n
  BY <1>1, <1>2
<1>4. ParentsAreOlder'
  BY <1>1, <1>2 DEF ParentsAreOlder, HasThem
<1>5. PinnedPlansAreBound'
  <2> SUFFICES ASSUME NEW c \in 1..n, log'[c].by # NoClient, Pinned(log'[c].plan)
               PROVE  log'[c].parent = log'[c].plan.base
    BY <1>3 DEF PinnedPlansAreBound, Uploads, Pinned
  <2>1. CASE c = n
    BY <1>2, <2>1 DEF HasThem
  <2>2. CASE c \in 1..Len(log)
    <3>1. c \in Uploads /\ log'[c] = log[c]
      BY <1>2, <1>3, <2>2 DEF Uploads
    <3> QED
      BY <3>1 DEF PinnedPlansAreBound
  <2> QED
    BY <1>1, <2>1, <2>2
<1>6. UploadsAreWhole'
  <2> SUFFICES ASSUME NEW c \in 1..n, log'[c].by # NoClient
               PROVE  /\ log'[c].files[Target[log'[c].by]] = Wanted[log'[c].by]
                      /\ \A p \in Paths \ {Target[log'[c].by]} :
                            log'[c].files[p] = FilesAt(log', log'[c].parent)[p]
    BY <1>3 DEF UploadsAreWhole, Uploads, Snapshot, FilesAt, NoFiles, Missing
  <2>1. CASE c = n
    <3> DEFINE path == Target[commit.by]
    <3>1. /\ commit.by \in Clients
          /\ commit.parent = head
          /\ commit.files = [Snapshot(head) EXCEPT ![path] = Wanted[commit.by]]
      BY <1>2, <2>1 DEF HasThem, NewFiles
    <3>2. path \in Paths /\ Snapshot(head) \in [Paths -> SUBSET Chunks]
      BY <1>1, <3>1, SnapshotType, UploadsAssumption
    <3>3. FilesAt(log', commit.parent) = Snapshot(head)
      BY <1>1, <1>2, <3>1
    <3> HIDE DEF path
    <3>4. /\ commit.files[path] = Wanted[commit.by]
          /\ \A p \in Paths \ {path} : commit.files[p] = Snapshot(head)[p]
      BY <3>1, <3>2
    <3> QED
      BY <1>2, <2>1, <3>3, <3>4 DEF path
  <2>2. CASE c \in 1..Len(log)
    <3>1. c \in Uploads /\ log'[c] = log[c]
      BY <1>2, <1>3, <2>2 DEF Uploads
    <3>2. log[c].parent \in 0..Len(log)
      <4>1. log[c] \in Commit /\ log[c].parent < c
        BY <1>1, <2>2 DEF ParentsAreOlder
      <4> QED
        BY <1>1, <2>2, <4>1 DEF Commit
    <3>3. FilesAt(log', log[c].parent) = Snapshot(log[c].parent)
      BY <1>2, <3>2
    <3> QED
      BY <3>1, <3>3 DEF UploadsAreWhole
  <2> QED
    BY <1>1, <2>1, <2>2
<1> QED
  BY <1>4, <1>5, <1>6

-----------------------------------------------------------------------------
(***************************************************************************)
(* A step that makes no commit has to keep the types and the truth of      *)
(* plans only.                                                             *)
(***************************************************************************)
LEMMA QuietStep ==
  ASSUME IInv, log' = log, Types', PlansAreTrue'
  PROVE  IInv'
<1>1. (ParentsAreOlder /\ PinnedPlansAreBound /\ UploadsAreWhole)'
  BY DEF IInv, ParentsAreOlder, PinnedPlansAreBound, UploadsAreWhole, Uploads,
         Pinned, Snapshot, NoFiles, Missing
<1> QED
  BY <1>1 DEF IInv

(***************************************************************************)
(* A commit that has the properties keeps everything, if it is all that a  *)
(* step does but for the request that it answers.                          *)
(***************************************************************************)
LEMMA LoudStep ==
  ASSUME IInv, NEW commit, Grows(commit), HasThem(commit), Types', plans' = plans,
         \A r \in Requests :
            requests'[r] = requests[r] \/ requests'[r].stage = "idle"
  PROVE  IInv'
<1>1. (ParentsAreOlder /\ PinnedPlansAreBound /\ UploadsAreWhole)'
  BY CommitsStayWhole DEF IInv
<1>2. ASSUME NEW c \in Clients, plans[c] # NoPlan
      PROVE  IsTrueFor(log', plans[c], c)
  BY <1>2, PlansStayTrue DEF IInv, PlansAreTrue
<1>3. ASSUME NEW r \in Requests, requests[r].stage # "idle"
      PROVE  /\ requests[r].by \in Clients
             /\ IsTrueFor(log', requests[r].plan, requests[r].by)
  BY <1>3, PlansStayTrue DEF IInv, PlansAreTrue
<1>4. PlansAreTrue'
  BY <1>2, <1>3 DEF PlansAreTrue
<1> QED
  BY <1>1, <1>4 DEF IInv

(***************************************************************************)
(* The commit that an action makes with Append1.                           *)
(***************************************************************************)
LEMMA Appended ==
  ASSUME Types, NEW commit \in Commit, Append1(commit)
  PROVE  /\ Grows(commit)
         /\ log' \in Seq(Commit)
         /\ Len(log') <= MaxCommits
         /\ head' \in 0..Len(log')
         /\ present' \subseteq 1..Len(log')
<1>1. log \in Seq(Commit) /\ Len(log) \in Nat /\ MaxCommits \in Nat
  BY BoundAssumption DEF Types
<1>2. Grows(commit) /\ log' \in Seq(Commit) /\ Len(log') = Len(log) + 1
  BY <1>1 DEF Append1, Grows
<1>3. Len(log') <= MaxCommits /\ head' = Len(log')
  BY <1>1, <1>2 DEF Append1
<1>4. present' \subseteq 1..Len(log')
  <2>1. present' = present \union {Len(log) + 1} /\ present \subseteq 1..Len(log)
    BY DEF Append1, Types
  <2>2. ASSUME NEW c \in present' PROVE c \in 1..Len(log')
    <3>1. CASE c \in present
      <4>1. c \in 1..Len(log)
        BY <3>1, <2>1
      <4> QED
        BY <4>1, <1>1, <1>2
    <3>2. CASE c = Len(log) + 1
      BY <3>2, <1>1, <1>2
    <3> QED
      BY <2>1, <2>2, <3>1, <3>2
  <2> QED
    BY <2>2
<1> QED
  BY <1>1, <1>2, <1>3, <1>4

LEMMA InitHolds == Init => IInv
<1> SUFFICES ASSUME Init PROVE IInv
  OBVIOUS
<1>1. Len(log) = 0 /\ log \in Seq(Commit) /\ DOMAIN log = {}
  BY DEF Init
<1>2. Types
  BY <1>1, BoundAssumption DEF Init, Types, Request, Idle
<1>3. PlansAreTrue
  BY DEF Init, PlansAreTrue, Idle
<1> QED
  BY <1>1, <1>2, <1>3
  DEF IInv, ParentsAreOlder, PinnedPlansAreBound, UploadsAreWhole, Uploads

-----------------------------------------------------------------------------
(***************************************************************************)
(* A client gets a plan, and sends it.                                     *)
(***************************************************************************)
LEMMA PlanUploadStep ==
  ASSUME IInv, NEW c \in Clients, PlanUpload(c)
  PROVE  IInv'
<1>1. Types /\ PlansAreTrue
  BY DEF IInv
<1>2. IsTrueFor(log, PlanFor(c), c)
  BY <1>1, NewPlanIsTrue
<1>3. /\ log' = log /\ requests' = requests
      /\ plans' = [plans EXCEPT ![c] = PlanFor(c)]
      /\ present' = present /\ head' = head
  BY DEF PlanUpload
<1> HIDE DEF PlanUpload
<1>4. Types'
  BY <1>1, <1>2, <1>3 DEF Types, IsTrueFor
<1>5. PlansAreTrue'
  BY <1>1, <1>2, <1>3 DEF Types, PlansAreTrue
<1> QED
  BY <1>3, <1>4, <1>5, QuietStep

LEMMA SendStep ==
  ASSUME IInv, NEW c \in Clients, NEW r \in Requests, Send(c, r)
  PROVE  IInv'
<1> DEFINE request == [by |-> c, plan |-> plans[c], stage |-> "received"]
<1>1. Types /\ PlansAreTrue
  BY DEF IInv
<1>2. IsTrueFor(log, plans[c], c)
  BY <1>1 DEF Send, PlansAreTrue
<1>3. /\ log' = log /\ plans' = plans /\ present' = present /\ head' = head
      /\ requests' = [requests EXCEPT ![r] = request]
  BY DEF Send
<1>4. request \in Request
  BY <1>2 DEF Request, IsTrueFor
<1>5. Types'
  BY <1>1, <1>3, <1>4 DEF Types
<1>6. PlansAreTrue'
  BY <1>1, <1>2, <1>3 DEF Types, PlansAreTrue
<1> QED
  BY <1>3, <1>5, <1>6, QuietStep

(***************************************************************************)
(* A request moves on, or ends in a conflict.                              *)
(***************************************************************************)
LEMMA AdvanceStep ==
  ASSUME IInv, NEW r \in Requests, requests[r].stage # "idle",
         NEW stage \in {"checked", "ready"}, Advance(r, stage),
         UNCHANGED <<log, present, head, index, plans>>
  PROVE  IInv'
<1>1. Types /\ PlansAreTrue
  BY DEF IInv
<1>2. requests[r] \in Request
  BY <1>1 DEF Types
<1>3. requests' = [requests EXCEPT ![r] = [requests[r] EXCEPT !.stage = stage]]
  BY DEF Advance
<1>4. /\ [requests[r] EXCEPT !.stage = stage] \in Request
      /\ [requests[r] EXCEPT !.stage = stage].by = requests[r].by
      /\ [requests[r] EXCEPT !.stage = stage].plan = requests[r].plan
  BY <1>2 DEF Request
<1> HIDE DEF Advance
<1>5. Types'
  BY <1>1, <1>3, <1>4 DEF Types
<1>6. PlansAreTrue'
  BY <1>1, <1>3, <1>4 DEF Types, PlansAreTrue
<1> QED
  BY <1>5, <1>6, QuietStep

LEMMA RefuseStep ==
  ASSUME IInv, NEW r \in Requests, Refuse(r)
  PROVE  IInv'
<1>1. Types /\ PlansAreTrue
  BY DEF IInv
<1>2. Idle \in Request /\ Idle.stage = "idle"
  BY DEF Idle, Request
<1>3. Types'
  BY <1>1, <1>2 DEF Refuse, Types
<1>4. PlansAreTrue'
  BY <1>1, <1>2 DEF Refuse, Types, PlansAreTrue
<1> QED
  BY <1>3, <1>4, QuietStep DEF Refuse

(***************************************************************************)
(* create_commit() for an upload.  The plan is true of its base, so a copy *)
(* brings the wanted content; and if it is pinned its base is the head.    *)
(***************************************************************************)
LEMMA CreateCommitStep ==
  ASSUME IInv, NEW r \in Requests, CreateCommit(r)
  PROVE  IInv'
<1> DEFINE client == requests[r].by
           plan == requests[r].plan
           content == IF plan.strategy = "copy" THEN SourceOf(plan)
                                                ELSE Wanted[client]
           commit == [parent |-> head, by |-> client, plan |-> plan,
                      files |-> NewFiles(plan, Target[client], content)]
<1>1. CASE Refuse(r)
  BY <1>1, RefuseStep
<1>2. CASE /\ requests[r].stage = "ready"
           /\ ParentMatches(plan)
           /\ Append1(commit)
           /\ requests' = [requests EXCEPT ![r] = Idle]
           /\ UNCHANGED plans
  <2>1. Types /\ client \in Clients /\ IsTrueFor(log, plan, client)
    BY <1>2 DEF IInv, PlansAreTrue
  <2>2. content = Wanted[client]
    BY <2>1 DEF IsTrueFor, SourceOf, Snapshot, FilesAt
  <2>3. /\ plan \in Plan
        /\ head \in 0..Len(log) /\ head \in 0..MaxCommits
        /\ Snapshot(head) \in [Paths -> SUBSET Chunks]
        /\ Target[client] \in Paths /\ Wanted[client] \in SUBSET Chunks
    BY <2>1, SnapshotType, UploadsAssumption, BoundAssumption
    DEF IsTrueFor, Types
  <2>4. NewFiles(plan, Target[client], content) \in [Paths -> SUBSET Chunks]
    BY <2>2, <2>3 DEF NewFiles
  <2>5. commit \in Commit
    BY <2>1, <2>3, <2>4 DEF Commit
  <2>6. Pinned(plan) => head = plan.base
    BY <1>2 DEF Pinned, ParentMatches, EffectiveParent
  <2>7. HasThem(commit)
    BY <2>1, <2>2, <2>6 DEF HasThem
  <2> HIDE DEF commit, content, plan, client
  <2>8. /\ Grows(commit) /\ log' \in Seq(Commit) /\ Len(log') <= MaxCommits
        /\ head' \in 0..Len(log') /\ present' \subseteq 1..Len(log')
    BY <1>2, <2>1, <2>5, Appended
  <2>9. Idle \in Request /\ Idle.stage = "idle"
    BY DEF Idle, Request
  <2>10. Types'
    BY <1>2, <2>1, <2>8, <2>9 DEF Types
  <2>11. \A q \in Requests :
            requests'[q] = requests[q] \/ requests'[q].stage = "idle"
    BY <1>2, <2>1, <2>9 DEF Types
  <2> QED
    BY <1>2, <2>7, <2>8, <2>10, <2>11, LoudStep
<1> QED
  BY <1>1, <1>2 DEF CreateCommit

(***************************************************************************)
(* The other writers.                                                      *)
(***************************************************************************)
LEMMA WriteLocallyStep ==
  ASSUME IInv, NEW write \in LocalWrites, WriteLocally(write[1], write[2])
  PROVE  IInv'
<1> DEFINE files == [Snapshot(head) EXCEPT ![write[1]] = write[2]]
           commit == [parent |-> head, by |-> NoClient, plan |-> NoPlan,
                      files |-> files]
<1>1. Types /\ head \in 0..Len(log) /\ head \in 0..MaxCommits
  BY BoundAssumption DEF IInv, Types
<1>2. /\ Snapshot(head) \in [Paths -> SUBSET Chunks]
      /\ write[1] \in Paths /\ write[2] \in SUBSET Chunks
  BY <1>1, SnapshotType, UploadsAssumption
<1>3. files \in [Paths -> SUBSET Chunks]
  BY <1>2
<1>4. commit \in Commit
  BY <1>1, <1>3 DEF Commit
<1>5. HasThem(commit)
  BY DEF HasThem
<1>6. Append1(commit) /\ UNCHANGED <<plans, requests>>
  BY DEF WriteLocally
<1> HIDE DEF commit, files
<1>7. /\ Grows(commit) /\ log' \in Seq(Commit) /\ Len(log') <= MaxCommits
      /\ head' \in 0..Len(log') /\ present' \subseteq 1..Len(log')
  BY <1>1, <1>4, <1>6, Appended
<1>8. Types'
  BY <1>1, <1>6, <1>7 DEF Types
<1> QED
  BY <1>5, <1>6, <1>7, <1>8, LoudStep

LEMMA ResetRefStep ==
  ASSUME IInv, NEW c \in present, ResetRef(c)
  PROVE  IInv'
<1>1. Types /\ PlansAreTrue
  BY DEF IInv
<1>2. c \in 0..Len(log)
  BY <1>1 DEF Types
<1>3. Types' /\ PlansAreTrue'
  BY <1>1, <1>2 DEF ResetRef, Types, PlansAreTrue
<1> QED
  BY <1>3, QuietStep DEF ResetRef

LEMMA GcStep ==
  ASSUME IInv, Gc
  PROVE  IInv'
<1>1. Types /\ PlansAreTrue
  BY DEF IInv
<1>2. log' = log /\ present' \subseteq present /\ UNCHANGED <<head, plans, requests>>
  BY DEF Gc
<1>3. Types' /\ PlansAreTrue'
  BY <1>1, <1>2 DEF Types, PlansAreTrue
<1> QED
  BY <1>2, <1>3, QuietStep

(***************************************************************************)
(* Every step keeps the invariant.                                         *)
(***************************************************************************)
LEMMA StepKeepsInvariant ==
  ASSUME IInv, [Next]_vars
  PROVE  IInv'
<1>1. CASE UNCHANGED vars
  <2>1. Types' /\ PlansAreTrue'
    BY <1>1 DEF IInv, vars, Types, PlansAreTrue
  <2> QED
    BY <1>1, <2>1, QuietStep DEF vars
<1>2. ASSUME NEW c \in Clients, PlanUpload(c)
      PROVE  IInv'
  BY <1>2, PlanUploadStep
<1>3. ASSUME NEW c \in Clients, NEW r \in Requests, Send(c, r)
      PROVE  IInv'
  BY <1>3, SendStep
<1>4. ASSUME NEW r \in Requests, CheckHead(r)
      PROVE  IInv'
  <2>1. requests[r].stage # "idle"
    BY <1>4 DEF CheckHead
  <2>2. CASE Refuse(r)
    BY <2>2, RefuseStep
  <2>3. CASE Advance(r, "checked") /\ UNCHANGED <<log, present, head, index, plans>>
    BY <2>1, <2>3, AdvanceStep
  <2> QED
    BY <1>4, <2>2, <2>3 DEF CheckHead
<1>5. ASSUME NEW r \in Requests, Materialize(r)
      PROVE  IInv'
  <2>1. requests[r].stage # "idle"
    BY <1>5 DEF Materialize
  <2>2. CASE Refuse(r)
    BY <2>2, RefuseStep
  <2>3. CASE Advance(r, "ready") /\ UNCHANGED <<log, present, head, index, plans>>
    BY <2>1, <2>3, AdvanceStep
  <2> QED
    BY <1>5, <2>2, <2>3 DEF Materialize
<1>6. ASSUME NEW r \in Requests, CreateCommit(r)
      PROVE  IInv'
  BY <1>6, CreateCommitStep
<1>7. ASSUME NEW write \in LocalWrites, WriteLocally(write[1], write[2])
      PROVE  IInv'
  BY <1>7, WriteLocallyStep
<1>8. ASSUME NEW c \in present, ResetRef(c)
      PROVE  IInv'
  BY <1>8, ResetRefStep
<1>9. CASE Gc
  BY <1>9, GcStep
<1> QED
  BY <1>1, <1>2, <1>3, <1>4, <1>5, <1>6, <1>7, <1>8, <1>9 DEF Next

-----------------------------------------------------------------------------
(***************************************************************************)
(* The recursion that defines Lineage has a solution: the least sets that  *)
(* are closed under parents.                                               *)
(***************************************************************************)
LEMMA LineageUnfolds ==
  ASSUME Types, ParentsAreOlder
  PROVE  Lineage = [c \in 0..Len(log) |->
                      IF c = 0 THEN {} ELSE {c} \union Lineage[log[c].parent]]
<1> DEFINE D == 0..Len(log)
           IsClosed(S) == \A c \in S : c # 0 => log[c].parent \in S
           F == [c \in D |-> {a \in D : a # 0 /\ \A S \in SUBSET D :
                                           c \in S /\ IsClosed(S) => a \in S}]
<1>1. ASSUME NEW c \in D, c # 0
      PROVE  log[c].parent \in D
  <2>1. log[c] \in Commit /\ c \in 1..Len(log) /\ Len(log) \in Nat
    BY <1>1 DEF Types
  <2>2. log[c].parent \in 0..MaxCommits /\ log[c].parent < c
    BY <2>1 DEF Commit, ParentsAreOlder
  <2>3. QED
    BY <2>1, <2>2, BoundAssumption
<1>2. F[0] = {}
  <2>1. 0 \in D /\ {0} \in SUBSET D /\ IsClosed({0})
    BY DEF Types
  <2>2. QED
    BY <2>1
<1>3. ASSUME NEW c \in D, c # 0
      PROVE  F[c] = {c} \union F[log[c].parent]
  <2> DEFINE q == log[c].parent
  <2>1. q \in D
    BY <1>1, <1>3
  <2> HIDE DEF q
  <2>2. ASSUME NEW S \in SUBSET D, c \in S, IsClosed(S)
        PROVE  q \in S
    BY <1>3, <2>2 DEF q
  <2>3. ASSUME NEW a \in F[q]
        PROVE  a \in F[c]
    BY <2>1, <2>2, <2>3
  <2>4. c \in F[c]
    BY <1>3
  <2>5. ASSUME NEW a \in F[c], a # c
        PROVE  a \in F[q]
    <3>1. ASSUME NEW S \in SUBSET D, q \in S, IsClosed(S)
          PROVE  a \in S
      <4>1. S \union {c} \in SUBSET D /\ c \in S \union {c}
        OBVIOUS
      <4>2. IsClosed(S \union {c})
        BY <3>1 DEF q
      <4>3. a \in S \union {c}
        BY <2>5, <4>1, <4>2
      <4>4. QED
        BY <2>5, <4>3
    <3>2. QED
      BY <2>1, <2>5, <3>1
  <2>6. F[c] = {c} \union F[q]
    BY <2>3, <2>4, <2>5
  <2>7. QED
    BY <2>6 DEF q
<1>4. F = [c \in 0..Len(log) |-> IF c = 0 THEN {} ELSE {c} \union F[log[c].parent]]
  <2> DEFINE G == [c \in D |-> IF c = 0 THEN {} ELSE {c} \union F[log[c].parent]]
  <2>1. \A c \in D : F[c] = G[c]
    BY <1>2, <1>3
  <2>2. F = [c \in D |-> F[c]] /\ G = [c \in D |-> G[c]]
    OBVIOUS
  <2> HIDE DEF F
  <2>3. F = G
    <3> HIDE DEF G
    <3>1. QED
      BY <2>1, <2>2
  <2>4. QED
    BY <2>3
<1> HIDE DEF F
<1>5. QED
  BY <1>4 DEF Lineage

(***************************************************************************)
(* A history is made of the commit, and of older ones with their parents.  *)
(***************************************************************************)
LEMMA ParentIsCommit ==
  ASSUME Types, ParentsAreOlder, NEW c \in 1..Len(log)
  PROVE  log[c].parent \in 0..Len(log) /\ log[c].parent < c
<1>1. log[c] \in Commit /\ Len(log) \in Nat
  BY DEF Types
<1>2. log[c].parent \in 0..MaxCommits /\ log[c].parent < c
  BY <1>1 DEF Commit, ParentsAreOlder
<1> QED
  BY <1>1, <1>2, BoundAssumption

LEMMA LineageIsOlder ==
  ASSUME Types, ParentsAreOlder, NEW d \in 0..Len(log)
  PROVE  Lineage[d] \subseteq 1..d
<1> DEFINE Strays == {c \in 0..Len(log) : ~ Lineage[c] \subseteq 1..c}
<1>1. ASSUME Strays # {}
      PROVE  FALSE
  <2>1. Strays \subseteq Nat
    BY DEF Types
  <2>2. PICK c \in Strays : \A b \in Strays : c <= b
    <3> HIDE DEF Strays
    <3> QED
      BY <1>1, <2>1, LeastNumber
  <2>3. c # 0 /\ c \in 1..Len(log) /\ Lineage[c] = {c} \union Lineage[log[c].parent]
    BY <2>2, LineageUnfolds DEF Types
  <2>4. log[c].parent \in 0..Len(log) /\ log[c].parent < c /\ Len(log) \in Nat
    BY <2>3, ParentIsCommit DEF Types
  <2>5. Lineage[log[c].parent] \subseteq 1..log[c].parent
    BY <2>2, <2>4
  <2> QED
    BY <2>2, <2>3, <2>4, <2>5
<1> QED
  BY <1>1

LEMMA LineageIsClosed ==
  ASSUME Types, ParentsAreOlder, NEW d \in 0..Len(log)
  PROVE  \A a \in Lineage[d] : log[a].parent \in Lineage[d] \union {0}
<1> DEFINE Strays == {c \in 0..Len(log) :
                        \E a \in Lineage[c] : log[a].parent \notin Lineage[c] \union {0}}
<1>1. ASSUME Strays # {}
      PROVE  FALSE
  <2>1. Strays \subseteq Nat
    BY DEF Types
  <2>2. PICK c \in Strays : \A b \in Strays : c <= b
    <3> HIDE DEF Strays
    <3> QED
      BY <1>1, <2>1, LeastNumber
  <2>3. c # 0 /\ c \in 1..Len(log) /\ Lineage[c] = {c} \union Lineage[log[c].parent]
    BY <2>2, LineageUnfolds DEF Types
  <2>4. log[c].parent \in 0..Len(log) /\ log[c].parent < c /\ Len(log) \in Nat
    BY <2>3, ParentIsCommit DEF Types
  <2>5. log[c].parent # 0 => log[c].parent \in Lineage[log[c].parent]
    BY <2>4, LineageUnfolds
  <2>6. log[c].parent \notin Strays
    BY <2>2, <2>4
  <2> QED
    BY <2>2, <2>3, <2>4, <2>5, <2>6
<1> QED
  BY <1>1

(***************************************************************************)
(* A set of commits that has all parents has all histories.                *)
(***************************************************************************)
LEMMA LineageStaysInside ==
  ASSUME Types, ParentsAreOlder, NEW S \in SUBSET (1..Len(log)),
         \A c \in S : log[c].parent \in S \union {0}, NEW d \in S
  PROVE  Lineage[d] \subseteq S
<1> DEFINE Strays == {c \in S : ~ Lineage[c] \subseteq S}
<1>1. ASSUME Strays # {}
      PROVE  FALSE
  <2>1. Strays \subseteq Nat
    <3>1. Len(log) \in Nat
      BY DEF Types
    <3>2. S \subseteq 1..Len(log) /\ Strays \subseteq S
      OBVIOUS
    <3> HIDE DEF Strays
    <3>3. ASSUME NEW c \in Strays
          PROVE  c \in Nat
      BY <3>1, <3>2
    <3> QED
      BY <3>3
  <2>2. PICK c \in Strays : \A b \in Strays : c <= b
    <3> HIDE DEF Strays
    <3> QED
      BY <1>1, <2>1, LeastNumber
  <2>3. c # 0 /\ c \in 1..Len(log) /\ Lineage[c] = {c} \union Lineage[log[c].parent]
    BY <2>2, LineageUnfolds DEF Types
  <2>4. log[c].parent \in 0..Len(log) /\ log[c].parent < c /\ Len(log) \in Nat
    BY <2>3, ParentIsCommit DEF Types
  <2>5. CASE log[c].parent = 0
    <3>1. Lineage[0] = {}
      BY LineageUnfolds DEF Types
    <3> QED
      BY <2>2, <2>3, <2>5, <3>1
  <2>6. CASE log[c].parent \in S
    BY <2>2, <2>3, <2>4, <2>6
  <2> QED
    BY <2>2, <2>5, <2>6
<1> QED
  BY <1>1

-----------------------------------------------------------------------------
(***************************************************************************)
(* What gc has left is closed: the head and the parents are there.         *)
(***************************************************************************)
PresentIsClosed ==
    /\ head \in present \union {0}
    /\ \A c \in present : log[c].parent \in present \union {0}
    /\ index \subseteq Chunks
    /\ \A r \in Requests : requests[r].stage = "idle" => requests[r] = Idle

LEMMA AppendedIsClosed ==
  ASSUME IInv, PresentIsClosed, NEW commit \in Commit, commit.parent = head, Append1(commit)
  PROVE  /\ head' \in present' \union {0}
         /\ \A c \in present' : log'[c].parent \in present' \union {0}
         /\ index' \subseteq Chunks
<1>1. Types /\ Grows(commit)
  BY Appended DEF IInv
<1>2. /\ log'[Len(log) + 1] = commit
      /\ \A c \in 1..Len(log) : log'[c] = log[c]
  BY <1>1, SnapshotKept DEF Grows
<1>3. /\ present' = present \union {Len(log) + 1} /\ head' = Len(log) + 1
      /\ index' = index \union VisibleChunks(commit.files)
  BY DEF Append1
<1>4. present \subseteq 1..Len(log)
  BY <1>1 DEF Types
<1>5. ASSUME NEW c \in present'
      PROVE  log'[c].parent \in present' \union {0}
  <2>1. CASE c = Len(log) + 1
    BY <1>2, <1>3, <2>1 DEF PresentIsClosed
  <2>2. CASE c \in present
    BY <1>2, <1>3, <1>4, <2>2 DEF PresentIsClosed
  <2> QED
    BY <1>3, <2>1, <2>2
<1>6. VisibleChunks(commit.files) \subseteq Chunks
  BY DEF VisibleChunks, Commit
<1> QED
  BY <1>3, <1>5, <1>6 DEF PresentIsClosed

LEMMA GcStaysClosed ==
  ASSUME IInv, PresentIsClosed, Gc
  PROVE  PresentIsClosed'
<1>1. /\ present' = present \intersect Lineage[head]
      /\ index' = UNION {VisibleChunks(log[c].files) : c \in present'}
      /\ UNCHANGED <<log, head, plans, requests>>
  BY DEF Gc, Live
<1>2. Types /\ ParentsAreOlder /\ head \in 0..Len(log) /\ present \subseteq 1..Len(log)
  BY DEF IInv, Types
<1>3. head # 0 => head \in Lineage[head]
  BY <1>2, LineageUnfolds
<1>4. \A c \in present' : log[c].parent \in present' \union {0}
  BY <1>1, <1>2, LineageIsClosed DEF PresentIsClosed
<1>5. \A c \in present' : VisibleChunks(log[c].files) \subseteq Chunks
  <2> SUFFICES ASSUME NEW c \in present' PROVE VisibleChunks(log[c].files) \subseteq Chunks
    OBVIOUS
  <2>1. log[c] \in Commit
    BY <1>1, <1>2 DEF Types
  <2> QED
    BY <2>1 DEF VisibleChunks, Commit
<1> QED
  BY <1>1, <1>3, <1>4, <1>5 DEF PresentIsClosed

LEMMA StepStaysClosed ==
  ASSUME IInv, PresentIsClosed, [Next]_vars
  PROVE  PresentIsClosed'
<1>1. Types /\ Idle.stage = "idle"
  BY DEF IInv, Idle
<1>2. CASE UNCHANGED vars
  BY <1>2 DEF vars, PresentIsClosed
<1>3. ASSUME NEW c \in Clients, PlanUpload(c)
      PROVE  PresentIsClosed'
  BY <1>3 DEF PlanUpload, PresentIsClosed
<1>4. ASSUME NEW c \in Clients, NEW r \in Requests, Send(c, r)
      PROVE  PresentIsClosed'
  BY <1>1, <1>4 DEF Send, PresentIsClosed, Types
<1>5. ASSUME NEW r \in Requests, Refuse(r)
      PROVE  PresentIsClosed'
  BY <1>1, <1>5 DEF Refuse, PresentIsClosed, Types
<1>6. ASSUME NEW r \in Requests, NEW stage \in {"checked", "ready"}, Advance(r, stage),
             UNCHANGED <<log, present, head, index, plans>>
      PROVE  PresentIsClosed'
  <2>1. \A q \in Requests : requests'[q] = requests[q] \/ requests'[q].stage = stage
    BY <1>1, <1>6 DEF Advance, Types, Request
  <2> QED
    BY <1>6, <2>1 DEF PresentIsClosed
<1>7. ASSUME NEW r \in Requests, CreateCommit(r), ~ Refuse(r)
      PROVE  PresentIsClosed'
  <2> DEFINE client == requests[r].by
             plan == requests[r].plan
             content == IF plan.strategy = "copy" THEN SourceOf(plan)
                                                  ELSE Wanted[client]
             commit == [parent |-> head, by |-> client, plan |-> plan,
                        files |-> NewFiles(plan, Target[client], content)]
  <2>1. /\ requests[r].stage = "ready" /\ Append1(commit)
        /\ requests' = [requests EXCEPT ![r] = Idle]
    BY <1>7 DEF CreateCommit
  <2>2. client \in Clients /\ IsTrueFor(log, plan, client)
    BY <2>1 DEF IInv, PlansAreTrue
  <2>3. content = Wanted[client] /\ plan \in Plan
    BY <2>2 DEF IsTrueFor, SourceOf, Snapshot, FilesAt
  <2>4. commit \in Commit /\ commit.parent = head
    <3>1. Snapshot(head) \in [Paths -> SUBSET Chunks] /\ head \in 0..MaxCommits
      BY <1>1, SnapshotType, BoundAssumption DEF Types
    <3>2. NewFiles(plan, Target[client], content) \in [Paths -> SUBSET Chunks]
      BY <2>2, <2>3, <3>1, UploadsAssumption DEF NewFiles
    <3> QED
      BY <2>2, <2>3, <3>1, <3>2 DEF Commit
  <2> HIDE DEF commit
  <2>5. \A q \in Requests : requests'[q] = requests[q] \/ requests'[q] = Idle
    BY <1>1, <2>1 DEF Types
  <2> QED
    BY <2>1, <2>4, <2>5, AppendedIsClosed DEF PresentIsClosed
<1>8. ASSUME NEW write \in LocalWrites, WriteLocally(write[1], write[2])
      PROVE  PresentIsClosed'
  <2> DEFINE commit == [parent |-> head, by |-> NoClient, plan |-> NoPlan,
                        files |-> [Snapshot(head) EXCEPT ![write[1]] = write[2]]]
  <2>1. Append1(commit) /\ requests' = requests
    BY <1>8 DEF WriteLocally
  <2>2. commit \in Commit /\ commit.parent = head
    <3>1. Snapshot(head) \in [Paths -> SUBSET Chunks] /\ head \in 0..MaxCommits
      BY <1>1, SnapshotType, BoundAssumption DEF Types
    <3>2. write[1] \in Paths /\ write[2] \in SUBSET Chunks
      BY UploadsAssumption
    <3> QED
      BY <3>1, <3>2 DEF Commit
  <2> HIDE DEF commit
  <2> QED
    BY <2>1, <2>2, AppendedIsClosed DEF PresentIsClosed
<1>9. ASSUME NEW c \in present, ResetRef(c)
      PROVE  PresentIsClosed'
  BY <1>9 DEF ResetRef, PresentIsClosed
<1>10. CASE Gc
  BY <1>10, GcStaysClosed
<1>11. ASSUME NEW r \in Requests, CheckHead(r) \/ Materialize(r)
      PROVE  PresentIsClosed'
  BY <1>5, <1>6, <1>11 DEF CheckHead, Materialize
<1> QED
  BY <1>2, <1>3, <1>4, <1>5, <1>7, <1>8, <1>9, <1>10, <1>11 DEF Next

-----------------------------------------------------------------------------
(***************************************************************************)
(* The inductive invariant holds in every behaviour.                       *)
(***************************************************************************)
THEOREM InvariantHolds == Spec => []IInv
<1>1. IInv /\ [Next]_vars => IInv'
  BY StepKeepsInvariant
<1> QED
  BY <1>1, InitHolds, PTL DEF Spec

(***************************************************************************)
(* A plan that names its base head is applied to that head or not at all.  *)
(***************************************************************************)
THEOREM PlansAreBound == Spec => []PinnedPlansAreBound
<1>1. IInv => PinnedPlansAreBound
  BY DEF IInv
<1> QED
  BY <1>1, InvariantHolds, PTL

(***************************************************************************)
(* Each upload brings the content that was promised and changes nothing    *)
(* else, for pinned plans and others.                                      *)
(***************************************************************************)
THEOREM UploadsAreFaithful == Spec => []UploadsAreWhole
<1>1. IInv => UploadsAreWhole
  BY DEF IInv
<1> QED
  BY <1>1, InvariantHolds, PTL

(***************************************************************************)
(* No history is ever cut: the head, and with each commit all its          *)
(* ancestors, are there, though resets move the branch and gc collects at  *)
(* any time.                                                               *)
(***************************************************************************)
THEOREM TypeCorrect == Spec => []TypeOK
<1>1. IInv /\ PresentIsClosed => TypeOK
  <2> SUFFICES ASSUME IInv, PresentIsClosed PROVE TypeOK
    OBVIOUS
  <2>1. Types /\ ParentsAreOlder
    BY DEF IInv
  <2>2. \A c \in present : Lineage[c] \subseteq present
    BY <2>1, LineageStaysInside DEF PresentIsClosed, Types
  <2>3. ASSUME NEW r \in Requests, requests[r].stage # "idle"
        PROVE  /\ requests[r].by \in Clients /\ requests[r].plan \in Plan
               /\ requests[r].stage \in {"received", "checked", "ready"}
    BY <2>1, <2>3 DEF IInv, PlansAreTrue, IsTrueFor, Types, Request
  <2> QED
    BY <2>1, <2>2, <2>3 DEF PresentIsClosed, Types, TypeOK
<1>2. Init => PresentIsClosed
  BY DEF Init, PresentIsClosed
<1>3. IInv /\ PresentIsClosed /\ [Next]_vars => PresentIsClosed'
  BY StepStaysClosed
<1> QED
  BY <1>1, <1>2, <1>3, InvariantHolds, PTL DEF Spec

(***************************************************************************)
(* A plan with a base head is in one history at most once, however often   *)
(* it is sent.  Two commits of it would have the same parent, the base;    *)
(* and a commit is not among the ancestors of its own parent.              *)
(***************************************************************************)
THEOREM UploadsAreSingle == Spec => []NoUploadTwice
<1>1. IInv => NoUploadTwice
  <2> SUFFICES ASSUME IInv, NEW c \in Uploads, NEW d \in Uploads, c # d, c \in Lineage[d],
                      log[c].plan = log[d].plan, Pinned(log[c].plan)
               PROVE  FALSE
    BY DEF NoUploadTwice
  <2>1. Types /\ ParentsAreOlder /\ c \in 1..Len(log) /\ d \in 1..Len(log)
    BY DEF IInv, Types, Uploads
  <2>2. log[c].parent = log[d].parent
    BY DEF IInv, PinnedPlansAreBound
  <2>3. log[d].parent \in 0..Len(log) /\ log[c].parent < c
    BY <2>1, ParentIsCommit
  <2>4. Lineage[d] = {d} \union Lineage[log[d].parent]
    BY <2>1, LineageUnfolds
  <2>5. c \in 1..log[d].parent
    BY <2>1, <2>3, <2>4, LineageIsOlder
  <2> QED
    BY <2>2, <2>3, <2>5
<1> QED
  BY <1>1, InvariantHolds, PTL
=============================================================================
