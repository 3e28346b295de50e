---------------------------- MODULE UploadProtocol ----------------------------
(***************************************************************************)
(* Uploads through the server (hubvault/server/uploads.py).                *)
(*                                                                         *)
(* A client asks for a plan, commit-plan, and gets one made for the head   *)
(* of the branch: copy a file that is there already, send only the chunks  *)
(* that are not, or send everything.  It then sends the plan back with the *)
(* missing bytes, commit, and may send it again when no answer comes.      *)
(* The server keeps nothing between requests, so the plan itself says what *)
(* it was made for.  Serving the second request takes the lock three       *)
(* times: to compare the head, to read the reused chunks, and in           *)
(* create_commit().  Other clients, local writers, reset_ref() and gc()    *)
(* act in between.                                                         *)
(*                                                                         *)
(* One branch and one added file per upload; operations of other kinds     *)
(* pass through to create_commit().  Content is a set of chunks; its       *)
(* checksum stands for it.                                                 *)
(***************************************************************************)
EXTENDS Integers, Sequences

CONSTANTS
    Clients,
    Requests,       \* commit requests that the server works on at a time
    Paths, Chunks,
    Target,         \* Clients -> the path that the client uploads
    Wanted,         \* Clients -> what it is to contain
    ParentGiven,    \* Clients -> what the manifest says of its parent_commit
    LocalWrites,    \* what other writers commit: pairs of path and content
    MaxCommits,     \* bound: commits in a behaviour
    NoPlan, NoClient

ASSUME UploadsAssumption ==
    /\ Target \in [Clients -> Paths]
    /\ Wanted \in [Clients -> (SUBSET Chunks) \ {{}}]
    /\ ParentGiven \in [Clients -> {"none", "branch"}]
    /\ LocalWrites \subseteq Paths \X SUBSET Chunks
    /\ NoClient \notin Clients

ASSUME BoundAssumption == MaxCommits \in Nat

VARIABLES
    log,        \* all commits ever made, a commit is its index
    present,    \* commits whose objects gc has left
    head,       \* the branch, 0 when it has no commit
    index,      \* chunks with an entry in the chunk index
    plans,      \* the plan that each client holds
    requests    \* what the server works on

vars == <<log, present, head, index, plans, requests>>

-----------------------------------------------------------------------------
(* A file has at least one chunk; a path without one is not there. *)
Missing == {}

NoFiles == [p \in Paths |-> Missing]

(***************************************************************************)
(* The snapshot of a commit, and of the branch without one.                *)
(***************************************************************************)
Snapshot(c) == IF c = 0 THEN NoFiles ELSE log[c].files

VisibleChunks(snapshot) == UNION {snapshot[p] : p \in Paths}

(* A commit is younger than its parents, so the recursion ends. *)
Lineage ==
    LET of[c \in 0..Len(log)] ==
            IF c = 0 THEN {} ELSE {c} \union of[log[c].parent]
    IN  of

Strategies == {"copy", "chunks", "full"}

(***************************************************************************)
(* What parent_commit can say in the manifest: nothing, or the name of the *)
(* branch.  A commit given there has to be the head, and is then the same  *)
(* as the base head that is filled in for nothing.                         *)
(***************************************************************************)
Parents == {"none", "branch"}

Plan ==
    [base : 0..MaxCommits,
     parent : Parents,
     strategy : Strategies,
     source : Paths,
     reused : SUBSET Chunks]

Commit ==
    [parent : 0..MaxCommits,
     by : Clients \union {NoClient},
     plan : Plan \union {NoPlan},
     files : [Paths -> SUBSET Chunks]]

Idle == [by |-> NoClient, plan |-> NoPlan, stage |-> "idle"]

TypeOK ==
    /\ log \in Seq(Commit)
    /\ Len(log) <= MaxCommits
    /\ head \in present \union {0}
    /\ present \subseteq 1..Len(log)
    /\ \A c \in present : Lineage[c] \subseteq present
    /\ index \subseteq Chunks
    /\ plans \in [Clients -> Plan \union {NoPlan}]
    /\ \A r \in Requests :
          \/ requests[r] = Idle
          \/ /\ requests[r].by \in Clients
             /\ requests[r].plan \in Plan
             /\ requests[r].stage \in {"received", "checked", "ready"}

Init ==
    /\ log = << >>
    /\ present = {}
    /\ head = 0
    /\ index = {}
    /\ plans = [c \in Clients |-> NoPlan]
    /\ requests = [r \in Requests |-> Idle]

-----------------------------------------------------------------------------
(***************************************************************************)
(* plan_commit_manifest(), for the first time or once more.  A copy needs  *)
(* a file with the very checksum, a chunk upload at least one chunk of the *)
(* snapshot of the head.                                                   *)
(***************************************************************************)
Copies(content) == {p \in Paths : Snapshot(head)[p] = content}

PlanFor(c) ==
    LET reusable == Wanted[c] \intersect VisibleChunks(Snapshot(head))
        plan(strategy, source, reused) ==
            [base |-> head, parent |-> ParentGiven[c],
             strategy |-> strategy, source |-> source, reused |-> reused]
    IN  IF Copies(Wanted[c]) # {}
        THEN plan("copy", CHOOSE p \in Copies(Wanted[c]) : TRUE, {})
        ELSE IF reusable # {}
        THEN plan("chunks", Target[c], reusable)
        ELSE plan("full", Target[c], {})

PlanUpload(c) ==
    /\ ParentGiven[c] = "branch" => head # 0
    /\ plans' = [plans EXCEPT ![c] = PlanFor(c)]
    /\ UNCHANGED <<log, present, head, index, requests>>

(***************************************************************************)
(* The client sends its plan; as often as it likes.                        *)
(***************************************************************************)
Send(c, r) ==
    /\ plans[c] # NoPlan
    /\ requests[r] = Idle
    /\ requests' = [requests EXCEPT ![r] =
                      [by |-> c, plan |-> plans[c], stage |-> "received"]]
    /\ UNCHANGED <<log, present, head, index, plans>>

-----------------------------------------------------------------------------
Advance(r, stage) == requests' = [requests EXCEPT ![r].stage = stage]

(***************************************************************************)
(* The request ends with a conflict, and nothing has changed.              *)
(***************************************************************************)
Refuse(r) ==
    /\ requests' = [requests EXCEPT ![r] = Idle]
    /\ UNCHANGED <<log, present, head, index, plans>>

(***************************************************************************)
(* apply_commit_manifest() compares the head with the base of the plan.    *)
(***************************************************************************)
IsFresh(plan) == plan.base = head

CheckHead(r) ==
    /\ requests[r].stage = "received"
    /\ \/ /\ IsFresh(requests[r].plan)
          /\ Advance(r, "checked")
          /\ UNCHANGED <<log, present, head, index, plans>>
       \/ ~IsFresh(requests[r].plan) /\ Refuse(r)

(***************************************************************************)
(* _materialize_add_operation(): reused chunks are read from wherever the  *)
(* index has them now.  Bytes that were sent are verified by checksum.     *)
(***************************************************************************)
Materialize(r) ==
    /\ requests[r].stage = "checked"
    /\ \/ /\ requests[r].plan.reused \subseteq index
          /\ Advance(r, "ready")
          /\ UNCHANGED <<log, present, head, index, plans>>
       \/ ~ requests[r].plan.reused \subseteq index /\ Refuse(r)

\* mutant of EffectiveParent: the base head is not filled in.
AsInManifest(plan) == plan.parent

(***************************************************************************)
(* The parent_commit that create_commit() is given.                        *)
(***************************************************************************)
EffectiveParent(plan) ==
    IF plan.parent = "none" /\ plan.base # 0 THEN "base" ELSE plan.parent

\* mutant of ParentMatches: the head is compared only before the bytes are read.
NoComparison(plan) == TRUE

(***************************************************************************)
(* create_commit() compares again, under the lock.  No parent is no        *)
(* comparison, and the name of the branch resolves to the head it has now. *)
(***************************************************************************)
ParentMatches(plan) ==
    EffectiveParent(plan) = "base" => plan.base = head

SourceOf(plan) == Snapshot(plan.base)[plan.source]

SourceIsThere(plan) ==
    /\ plan.base \in present
    /\ SourceOf(plan) # Missing

\* mutant of NewFiles: the snapshot of the base is written again.
FilesOverBase(plan, path, content) ==
    [Snapshot(plan.base) EXCEPT ![path] = content]

NewFiles(plan, path, content) == [Snapshot(head) EXCEPT ![path] = content]

Append1(commit) ==
    /\ Len(log) < MaxCommits
    /\ log' = Append(log, commit)
    /\ head' = Len(log) + 1
    /\ present' = present \union {Len(log) + 1}
    /\ index' = index \union VisibleChunks(commit.files)

CreateCommit(r) ==
    LET client == requests[r].by
        plan == requests[r].plan
        content == IF plan.strategy = "copy" THEN SourceOf(plan)
                                             ELSE Wanted[client]
        applies == /\ ParentMatches(plan)
                   /\ plan.strategy = "copy" => SourceIsThere(plan)
    IN  /\ requests[r].stage = "ready"
        /\ \/ /\ applies
              /\ Append1([parent |-> head, by |-> client, plan |-> plan,
                          files |-> NewFiles(plan, Target[client], content)])
              /\ requests' = [requests EXCEPT ![r] = Idle]
              /\ UNCHANGED plans
           \/ ~applies /\ Refuse(r)

-----------------------------------------------------------------------------
(***************************************************************************)
(* The other writers of the repository: a commit that adds or replaces a   *)
(* file or deletes it, a reset of the branch, and gc.                      *)
(***************************************************************************)
WriteLocally(path, content) ==
    /\ content = Missing => Snapshot(head)[path] # Missing
    /\ Append1([parent |-> head, by |-> NoClient, plan |-> NoPlan,
                files |-> [Snapshot(head) EXCEPT ![path] = content]])
    /\ UNCHANGED <<plans, requests>>

ResetRef(c) ==
    /\ c \in present
    /\ head' = c
    /\ UNCHANGED <<log, present, index, plans, requests>>

\* mutant of Live: gc keeps the head of the branch and forgets its history.
LiveHead == {head} \ {0}

Live == Lineage[head]

Gc ==
    /\ present' = present \intersect Live
    /\ index' = UNION {VisibleChunks(log[c].files) : c \in present \intersect Live}
    /\ UNCHANGED <<log, head, plans, requests>>

Next ==
    \/ \E c \in Clients :
          \/ PlanUpload(c)
          \/ \E r \in Requests : Send(c, r)
    \/ \E r \in Requests : CheckHead(r) \/ Materialize(r) \/ CreateCommit(r)
    \/ \E write \in LocalWrites : WriteLocally(write[1], write[2])
    \/ \E c \in present : ResetRef(c)
    \/ Gc

Spec == Init /\ [][Next]_vars

-----------------------------------------------------------------------------
Uploads == {c \in DOMAIN log : log[c].by # NoClient}

(* parent_commit was not the name of the branch, and the branch had a head. *)
Pinned(plan) == plan.parent = "none" /\ plan.base # 0

(***************************************************************************)
(* An upload whose plan names a base head becomes a commit on that head or *)
(* none at all, whatever was committed, reset or collected between its two *)
(* requests or while the second was served.                                *)
(***************************************************************************)
PinnedPlansAreBound ==
    \A c \in Uploads : Pinned(log[c].plan) => log[c].parent = log[c].plan.base

(***************************************************************************)
(* A request that is sent twice, also while the first copy is served, does *)
(* not put the upload twice into one history.                              *)
(***************************************************************************)
NoUploadTwice ==
    \A c, d \in Uploads :
        /\ c # d
        /\ c \in Lineage[d]
        /\ log[c].by = log[d].by
        /\ log[c].plan = log[d].plan
        => ~Pinned(log[c].plan)

(***************************************************************************)
(* The commit of an upload holds the promised content at its path, even    *)
(* where the content was copied or put together from chunks that were      *)
(* there before, and everything else is as its parent has it: uploads      *)
(* lose no write that came in between.                                     *)
(***************************************************************************)
UploadsAreWhole ==
    \A c \in Uploads :
        /\ log[c].files[Target[log[c].by]] = Wanted[log[c].by]
        /\ \A p \in Paths \ {Target[log[c].by]} :
              log[c].files[p] = Snapshot(log[c].parent)[p]

(***************************************************************************)
(* What hubvault/server/uploads.py:5-7 says of all plans: a stale one      *)
(* cannot be applied after an intervening write.  The code does not keep   *)
(* it when the branch had no head, or when parent_commit is a branch name. *)
(***************************************************************************)
StalePlansAreRefused ==
    \A c \in Uploads : log[c].parent = log[c].plan.base
=============================================================================
