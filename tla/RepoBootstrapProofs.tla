-------------------------- MODULE RepoBootstrapProofs --------------------------
(***************************************************************************)
(* What RepoBootstrap guarantees for any number of clients.  The inductive *)
(* invariant adds to the properties that a writer excludes readers, and    *)
(* what each step of create_repo() finds: the database is a function of the   *)
(* last step as long as one is under way.                                  *)
(***************************************************************************)
EXTENDS RepoBootstrap, TLAPS

Exclusion == writer # Nobody => reading = {}

(***************************************************************************)
(* What is in the directory when the creating client has made its step.    *)
(***************************************************************************)
Progress ==
    /\ step = "directories" => contents = "layout" /\ database = "absent"
    /\ step = "marked" => contents = "FORMAT" /\ database = "absent"
    /\ step = "file" => contents = "FORMAT" /\ database = "empty"
    /\ step = "tables" => contents = "FORMAT" /\ database = "tables"
    /\ step = "configured" =>
          contents = "FORMAT" /\ database = "config" /\ updates = 0

EmptyIsNew == contents = "nothing" => database = "absent"

IInv ==
    /\ TypeOK
    /\ OpenedIsWhole
    /\ ReadersSeeCommitted
    /\ Exclusion
    /\ Progress
    /\ EmptyIsNew

(***************************************************************************)
(* The invariant without its type part, for the steps below.               *)
(***************************************************************************)
Parts ==
    /\ OpenedIsWhole
    /\ ReadersSeeCommitted
    /\ Exclusion
    /\ Progress
    /\ EmptyIsNew

-----------------------------------------------------------------------------
(***************************************************************************)
(* A directory nobody has worked in satisfies the invariant.               *)
(***************************************************************************)
LEMMA InitHolds == Init => IInv
  BY ClientsAssumption, MaxUpdatesAssumption
  DEF Init, IInv, TypeOK, Steps, OpenedIsWhole, ReadersSeeCommitted, Exclusion, Progress, EmptyIsNew

(***************************************************************************)
(* Every step of every operation leaves each variable in its range, and    *)
(* the lock is held exactly while a step is under way.                     *)
(***************************************************************************)
LEMMA StepKeepsTypes ==
  ASSUME IInv, [Next]_vars
  PROVE  TypeOK'
<1> USE ClientsAssumption, MaxUpdatesAssumption DEF TypeOK, Steps
<1>0. TypeOK /\ Progress
  BY DEF IInv
<1>1. CASE UNCHANGED vars
  BY <1>0, <1>1 DEF vars
<1>2. CASE Next
  <2> PICK c \in Clients :
        \/ BeginCreate(c) \/ Leave(c) \/ LayOut(c) \/ WriteMarker(c)
        \/ CreateFile(c) \/ CreateTables(c) \/ Configure(c)
        \/ CreateInitialCommit(c) \/ Check(c) \/ BeginRead(c) \/ EndRead(c)
        \/ BeginWrite(c) \/ Write(c) \/ Stop(c)
    BY <1>2 DEF Next
  <2>1. CASE BeginCreate(c)
    BY <1>0, <2>1 DEF BeginCreate, LockExclusively
  <2>2. CASE Leave(c)
    BY <1>0, <2>2 DEF Leave, Unlock
  <2>3. CASE LayOut(c)
    BY <1>0, <2>3 DEF LayOut
  <2>4. CASE WriteMarker(c)
    BY <1>0, <2>4 DEF WriteMarker
  <2>5. CASE CreateFile(c)
    BY <1>0, <2>5 DEF CreateFile
  <2>6. CASE CreateTables(c)
    BY <1>0, <2>6 DEF CreateTables
  <2>7. CASE Configure(c)
    BY <1>0, <2>7 DEF Configure
  <2>8. CASE CreateInitialCommit(c)
    BY <1>0, <2>8 DEF CreateInitialCommit
  <2>9. CASE Check(c)
    BY <1>0, <2>9 DEF Check
  <2>10. CASE BeginRead(c)
    BY <1>0, <2>10 DEF BeginRead
  <2>11. CASE EndRead(c)
    BY <1>0, <2>11 DEF EndRead
  <2>12. CASE BeginWrite(c)
    BY <1>0, <2>12 DEF BeginWrite, LockExclusively
  <2>13. CASE Write(c)
    BY <1>0, <2>13 DEF Write, Unlock
  <2>14. CASE Stop(c)
    BY <1>0, <2>14 DEF Stop, Unlock
  <2> QED
    BY <2>1, <2>2, <2>3, <2>4, <2>5, <2>6, <2>7, <2>8, <2>9, <2>10, <2>11,
       <2>12, <2>13, <2>14
<1> QED
  BY <1>1, <1>2

(***************************************************************************)
(* Every step keeps the other parts of the invariant.                      *)
(***************************************************************************)
LEMMA StepKeepsParts ==
  ASSUME IInv, [Next]_vars
  PROVE  Parts'
<1> USE ClientsAssumption
    DEF Parts, OpenedIsWhole, ReadersSeeCommitted, Exclusion,
        Progress, EmptyIsNew
<1>0. Parts /\ TypeOK
  BY DEF IInv
<1>1. CASE UNCHANGED vars
  BY <1>0, <1>1 DEF vars
<1>2. CASE Next
  <2> PICK c \in Clients :
        \/ BeginCreate(c) \/ Leave(c) \/ LayOut(c) \/ WriteMarker(c)
        \/ CreateFile(c) \/ CreateTables(c) \/ Configure(c)
        \/ CreateInitialCommit(c) \/ Check(c) \/ BeginRead(c) \/ EndRead(c)
        \/ BeginWrite(c) \/ Write(c) \/ Stop(c)
    BY <1>2 DEF Next
  <2>1. CASE BeginCreate(c)
    BY <1>0, <2>1 DEF BeginCreate, LockExclusively, LockFree
  <2>2. CASE Leave(c)
    BY <1>0, <2>2 DEF Leave, Unlock
  <2>3. CASE LayOut(c)
    BY <1>0, <2>3 DEF LayOut, MayCreate
  <2>4. CASE WriteMarker(c)
    BY <1>0, <2>4 DEF WriteMarker
  <2>5. CASE CreateFile(c)
    BY <1>0, <2>5 DEF CreateFile
  <2>6. CASE CreateTables(c)
    BY <1>0, <2>6 DEF CreateTables
  <2>7. CASE Configure(c)
    BY <1>0, <2>7 DEF Configure
  <2>8. CASE CreateInitialCommit(c)
    BY <1>0, <2>8 DEF CreateInitialCommit
  <2>9. CASE Check(c)
    BY <1>0, <2>9 DEF Check, EnsureRepo, Bootstrapped
  <2>10. CASE BeginRead(c)
    BY <1>0, <2>10 DEF BeginRead, TypeOK
  <2>11. CASE EndRead(c)
    BY <1>0, <2>11 DEF EndRead
  <2>12. CASE BeginWrite(c)
    BY <1>0, <2>12 DEF BeginWrite, LockExclusively, LockFree
  <2>13. CASE Write(c)
    BY <1>0, <2>13 DEF Write, Unlock
  <2>14. CASE Stop(c)
    <3>1. reading = {}
      BY <1>0, <2>14 DEF Stop
    <3> QED
      BY <1>0, <2>14, <3>1 DEF Stop, Unlock
  <2> QED
    BY <2>1, <2>2, <2>3, <2>4, <2>5, <2>6, <2>7, <2>8, <2>9, <2>10, <2>11,
       <2>12, <2>13, <2>14
<1> QED
  BY <1>1, <1>2

(***************************************************************************)
(* No step takes the configuration or a change of the default branch back, *)
(* and none works in a directory that was somebody else's.                 *)
(***************************************************************************)
LEMMA StepKeepsHistory ==
  ASSUME IInv, Next
  PROVE  IsHistoryKept /\ IsForeignKept
<1> USE DEF IsHistoryKept, IsForeignKept
<1>0. TypeOK /\ Progress
  BY DEF IInv
<1>1. updates \in Nat
  BY <1>0, MaxUpdatesAssumption DEF TypeOK
<1> PICK c \in Clients :
      \/ BeginCreate(c) \/ Leave(c) \/ LayOut(c) \/ WriteMarker(c)
      \/ CreateFile(c) \/ CreateTables(c) \/ Configure(c)
      \/ CreateInitialCommit(c) \/ Check(c) \/ BeginRead(c) \/ EndRead(c)
      \/ BeginWrite(c) \/ Write(c) \/ Stop(c)
  BY DEF Next
<1>2. CASE LayOut(c)
  BY <1>1, <1>2 DEF LayOut, MayCreate
<1>3. CASE WriteMarker(c) \/ CreateFile(c) \/ CreateTables(c) \/ Configure(c)
  BY <1>0, <1>1, <1>3
  DEF WriteMarker, CreateFile, CreateTables, Configure, Progress
<1>4. CASE CreateInitialCommit(c)
  BY <1>0, <1>4 DEF CreateInitialCommit, Progress
<1>5. CASE Write(c)
  BY <1>1, <1>5 DEF Write
<1>6. CASE UNCHANGED <<contents, database, updates>>
  BY <1>1, <1>6
<1> QED
  BY <1>2, <1>3, <1>4, <1>5, <1>6
  DEF BeginCreate, Leave, Check, BeginRead, EndRead, BeginWrite, Stop

-----------------------------------------------------------------------------
(***************************************************************************)
(* The inductive invariant holds in every behaviour.                       *)
(***************************************************************************)
THEOREM InvariantHolds == Spec => []IInv
<1>1. Init => IInv
  BY InitHolds
<1>2. IInv /\ [Next]_vars => IInv'
  BY StepKeepsTypes, StepKeepsParts DEF IInv, Parts
<1> QED
  BY <1>1, <1>2, PTL DEF Spec

(***************************************************************************)
(* Whoever passed the unlocked check of _ensure_repo() still works on a    *)
(* configured database when it has the lock.                               *)
(***************************************************************************)
THEOREM ChecksStayTrue == Spec => []OpenedIsWhole
<1>1. IInv => OpenedIsWhole
  BY DEF IInv
<1> QED
  BY <1>1, InvariantHolds, PTL

(***************************************************************************)
(* A read transaction of _read_locked() never runs over pages that a       *)
(* journal still has to undo.                                              *)
(***************************************************************************)
THEOREM ReadersAreSafe == Spec => []ReadersSeeCommitted
<1>1. IInv => ReadersSeeCommitted
  BY DEF IInv
<1> QED
  BY <1>1, InvariantHolds, PTL

(***************************************************************************)
(* create_repo() writes nothing into a directory of somebody else.         *)
(***************************************************************************)
THEOREM ForeignIsKept == Spec => ForeignKept
<1>1. IInv /\ [Next]_vars => [IsForeignKept]_vars
  BY StepKeepsHistory
<1> QED
  BY <1>1, InvariantHolds, PTL DEF Spec, ForeignKept

(***************************************************************************)
(* No sequence of calls and stops of create_repo(), by however many        *)
(* processes, undoes a configured repository.                              *)
(***************************************************************************)
THEOREM HistoryIsKept == Spec => HistoryKept
<1>1. IInv /\ [Next]_vars => [IsHistoryKept]_vars
  BY StepKeepsHistory
<1> QED
  BY <1>1, InvariantHolds, PTL DEF Spec, HistoryKept

(***************************************************************************)
(* Type correctness, the lock being held exactly while a step is under way.*)
(***************************************************************************)
THEOREM TypeCorrect == Spec => []TypeOK
<1>1. IInv => TypeOK
  BY DEF IInv
<1> QED
  BY <1>1, InvariantHolds, PTL
=============================================================================
