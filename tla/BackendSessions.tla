--------------------------- MODULE BackendSessions ---------------------------
(***************************************************************************)
(* What one RepositoryBackend object keeps in memory between and during    *)
(* its operations: the metadata connection of the running operation, which *)
(* every helper reads from the object, and recently read object payloads.  *)
(* Several threads may call one object; several objects may serve one      *)
(* repository.                                                             *)
(*                                                                         *)
(* An operation first checks the repository without the lock, then enters  *)
(* a lock scope: it takes the file lock, opens a connection of its own,    *)
(* and puts it in the object, remembering what was there; on leaving it    *)
(* ends the transaction, puts that back, closes the connection and only    *)
(* then releases the lock.  upload_folder() reads objects between the two: *)
(* without the lock, while others may commit.                              *)
(*                                                                         *)
(* A connection is named by the thread that opened it.  `version' stands   *)
(* for the size and modification time of the database file, which change   *)
(* with every commit and only then.                                        *)
(***************************************************************************)
EXTENDS Integers, Sequences

CONSTANTS
    Threads,
    Backends,
    BackendOf,      \* BackendOf[t]: the object thread t calls
    Objects,        \* object identifiers
    Nobody, Nil,    \* no thread; no connection
    NoObject,       \* no object
    Dead,           \* a connection that has been closed
    CacheSize,      \* RECENT_OBJECT_PAYLOAD_CACHE_MAX_ENTRIES
    MaxVersion      \* bound: commits in a behaviour

ASSUME SessionsAssumption ==
    /\ BackendOf \in [Threads -> Backends]
    /\ {Nobody, Nil, Dead} \intersect Threads = {}
    /\ Nil # Dead
    /\ NoObject \notin Objects
    /\ CacheSize \in Nat
    /\ MaxVersion \in Nat

VARIABLES
    stage,      \* stage[t]: where thread t is in its operation
    active,     \* active[b]: _active_metadata_connection
    previous,   \* previous[t]: what t found there when it entered its scope
    writer,     \* the thread in an exclusive scope
    rows,       \* committed object rows
    work,       \* object rows as the writer's transaction sees them
    version,
    cache,      \* cache[b]: recent payloads, least recently used first
    fetched,    \* fetched[t]: the object whose payload t has read without the
                \* lock and not yet put into the cache
    overtaken,  \* (history) threads whose fetched object was deleted, or a
                \* transaction of which has ended, since they read it
    undone,     \* (history) undone[b]: objects b read in transactions that
                \* were rolled back since the last commit
    late        \* (history) late[b]: objects b has put into its cache since
                \* the last commit by reads that had been overtaken

vars == <<stage, active, previous, writer, rows, work, version, cache,
          fetched, overtaken, undone, late>>

Stages == {"idle", "checked", "reading", "writing", "leaving"}
Connections == Threads \union {Nil, Dead}
Cached == [object : Objects, version : 0 .. MaxVersion]

TypeOK ==
    /\ stage \in [Threads -> Stages]
    /\ active \in [Backends -> Connections]
    /\ previous \in [Threads -> Connections]
    /\ writer \in Threads \union {Nobody}
    /\ rows \subseteq Objects /\ work \subseteq Objects
    /\ version \in 0 .. MaxVersion
    /\ cache \in [Backends -> Seq(Cached)]
    /\ \A b \in Backends : Len(cache[b]) <= CacheSize
    /\ fetched \in [Threads -> Objects \union {NoObject}]
    /\ overtaken \subseteq Threads
    /\ undone \in [Backends -> SUBSET Objects]
    /\ late \in [Backends -> SUBSET Objects]

Init ==
    /\ stage = [t \in Threads |-> "idle"]
    /\ active = [b \in Backends |-> Nil]
    /\ previous = [t \in Threads |-> Nil]
    /\ writer = Nobody
    /\ rows \in SUBSET Objects /\ work = rows
    /\ version = 0
    /\ cache = [b \in Backends |-> << >>]
    /\ fetched = [t \in Threads |-> NoObject]
    /\ overtaken = {}
    /\ undone = [b \in Backends |-> {}]
    /\ late = [b \in Backends |-> {}]

InScope == {t \in Threads : stage[t] \in {"reading", "writing", "leaving"}}

\* mutant of Hit: an entry of any age.
HitOfAnyAge(b, o) == \E i \in DOMAIN cache[b] : cache[b][i].object = o

(* The entry of an object that the database file has not changed since. *)
Hit(b, o) ==
    \E i \in DOMAIN cache[b] : cache[b][i].object = o /\ cache[b][i].version = version

Store == <<writer, rows, work, version>>
Fetches == <<fetched, overtaken>>
Memory == <<cache, Fetches, undone, late>>

(* The threads that read without the lock, of one object and of any.       *)
Fetching(b) == {t \in Threads : BackendOf[t] = b /\ fetched[t] # NoObject}
AllFetching == UNION {Fetching(b) : b \in Backends}

-----------------------------------------------------------------------------
(* Scopes *)

(* _ensure_repo and _has_ref_update_transactions, before the lock: through *)
(* the object's connection when it has one, another thread's included, and *)
(* otherwise through one opened for the purpose.  A closed one raises.     *)
Check(t) ==
    /\ stage[t] = "idle"
    /\ active[BackendOf[t]] # Dead
    /\ stage' = [stage EXCEPT ![t] = "checked"]
    /\ UNCHANGED <<active, previous, Store, Memory>>

\* mutant of Publishes: a connection that is there already is shared.
PublishesFirst(t) ==
    /\ previous' = [previous EXCEPT ![t] = active[BackendOf[t]]]
    /\ active' = [active EXCEPT ![BackendOf[t]] = IF @ = Nil THEN t ELSE @]

(* _temporary_active_metadata_connection *)
Publishes(t) ==
    /\ previous' = [previous EXCEPT ![t] = active[BackendOf[t]]]
    /\ active' = [active EXCEPT ![BackendOf[t]] = t]

EnterRead(t) ==
    /\ stage[t] = "checked" /\ fetched[t] = NoObject
    /\ writer = Nobody
    /\ stage' = [stage EXCEPT ![t] = "reading"]
    /\ Publishes(t)
    /\ UNCHANGED <<Store, Memory>>

EnterWrite(t) ==
    /\ stage[t] = "checked" /\ fetched[t] = NoObject
    /\ InScope = {}
    /\ stage' = [stage EXCEPT ![t] = "writing"]
    /\ Publishes(t)
    /\ writer' = t
    /\ work' = rows
    /\ UNCHANGED <<rows, version, Memory>>

Restores(t) ==
    /\ active' = [active EXCEPT ![BackendOf[t]] = previous[t]]
    /\ previous' = [previous EXCEPT ![t] = Nil]
    /\ stage' = [stage EXCEPT ![t] = "leaving"]

LeaveRead(t) ==
    /\ stage[t] = "reading"
    /\ Restores(t)
    /\ UNCHANGED <<Store, Memory>>

(* The commit changes the database file; a rollback does not. *)
LeaveWrite(t, commits) ==
    LET b == BackendOf[t]
        served == {o \in Objects : Hit(b, o)}
    IN
    /\ stage[t] = "writing"
    /\ IF commits
       THEN /\ version < MaxVersion
            /\ rows' = work
            /\ version' = version + 1
            /\ undone' = [x \in Backends |-> {}]
            /\ late' = [x \in Backends |-> {}]
            /\ overtaken' = AllFetching
       ELSE /\ undone' = [undone EXCEPT ![b] = @ \union (served \ rows)]
            /\ overtaken' = overtaken \union Fetching(b)
            /\ UNCHANGED <<rows, version, late>>
    /\ work' = rows'
    /\ Restores(t)
    /\ UNCHANGED <<writer, cache, fetched>>

(* The connection is closed wherever it is still known, the lock released. *)
Closed(c, t) == IF c = t THEN Dead ELSE c

Close(t) ==
    /\ stage[t] = "leaving"
    /\ active' = [b \in Backends |-> Closed(active[b], t)]
    /\ previous' = [o \in Threads |-> Closed(previous[o], t)]
    /\ writer' = IF writer = t THEN Nobody ELSE writer
    /\ stage' = [stage EXCEPT ![t] = "idle"]
    /\ UNCHANGED <<rows, work, version, Memory>>

-----------------------------------------------------------------------------
(* Object payloads *)

(* The rows a connection sees; without one, _run_metadata_read opens one.  *)
Seen(c) == IF c = writer THEN work ELSE rows

(* An object has one entry at most. *)
Without(s, o) ==
    LET i == CHOOSE j \in DOMAIN s : s[j].object = o
    IN  IF \E j \in DOMAIN s : s[j].object = o
        THEN SubSeq(s, 1, i - 1) \o SubSeq(s, i + 1, Len(s)) ELSE s

(* _remember_recent_object_payload *)
Newest(s) == SubSeq(s, IF Len(s) > CacheSize THEN Len(s) - CacheSize + 1 ELSE 1, Len(s))
Remembered(b, o) == Newest(Append(Without(cache[b], o), [object |-> o, version |-> version]))

(* What _run_metadata_read finds; a closed connection raises.              *)
Finds(b, o) == active[b] # Dead /\ o \in Seen(active[b])

(* _read_object_payload in a scope, during which nobody else commits: a    *)
(* hit is moved to the end, a stale entry dropped, and an object without a *)
(* row is an error.                                                        *)
ReadObject(t, o) ==
    LET b == BackendOf[t] IN
    /\ stage[t] \in {"reading", "writing"}
    /\ cache' = [cache EXCEPT ![b] =
           IF Hit(b, o) \/ Finds(b, o) THEN Remembered(b, o) ELSE Without(@, o)]
    /\ UNCHANGED <<stage, active, previous, Store, Fetches, undone, late>>

(* The same without the lock, by upload_folder(): on a miss the row is     *)
(* read, maybe in another thread's transaction, and only afterwards the    *)
(* size and time of the file as they are then.                             *)
Fetch(t, o) ==
    LET b == BackendOf[t] IN
    /\ stage[t] = "checked" /\ fetched[t] = NoObject
    /\ cache' = [cache EXCEPT ![b] = IF Hit(b, o) THEN Remembered(b, o) ELSE Without(@, o)]
    /\ fetched' = [fetched EXCEPT ![t] = IF ~Hit(b, o) /\ Finds(b, o) THEN o ELSE NoObject]
    /\ stage' = [stage EXCEPT ![t] = IF Hit(b, o) \/ Finds(b, o) THEN @ ELSE "idle"]
    /\ UNCHANGED <<active, previous, Store, overtaken, undone, late>>

Stamp(t) ==
    LET b == BackendOf[t] IN
    /\ fetched[t] # NoObject
    /\ cache' = [cache EXCEPT ![b] = Remembered(b, fetched[t])]
    /\ late' = [late EXCEPT ![b] = IF t \in overtaken THEN @ \union {fetched[t]} ELSE @]
    /\ fetched' = [fetched EXCEPT ![t] = NoObject]
    /\ overtaken' = overtaken \ {t}
    /\ UNCHANGED <<stage, active, previous, Store, undone>>

(* An operation that ends before it takes the lock. *)
Abandon(t) ==
    /\ stage[t] = "checked" /\ fetched[t] = NoObject
    /\ stage' = [stage EXCEPT ![t] = "idle"]
    /\ UNCHANGED <<active, previous, Store, Memory>>

(* Publishing an object inserts its row; gc deletes it and forgets it. *)
Insert(t, o) ==
    /\ stage[t] = "writing"
    /\ o \notin work
    /\ work' = work \union {o}
    /\ UNCHANGED <<stage, active, previous, writer, rows, version, Memory>>

Delete(t, o) ==
    /\ stage[t] = "writing"
    /\ o \in work
    /\ work' = work \ {o}
    /\ cache' = [cache EXCEPT ![BackendOf[t]] = Without(@, o)]
    /\ overtaken' = overtaken \union {u \in Fetching(BackendOf[t]) : fetched[u] = o}
    /\ UNCHANGED <<stage, active, previous, writer, rows, version, fetched, undone, late>>

Next ==
    \E t \in Threads :
        \/ Check(t) \/ EnterRead(t) \/ EnterWrite(t) \/ Abandon(t)
        \/ (\E o \in Objects : Fetch(t, o)) \/ Stamp(t)
        \/ \E o \in Objects : ReadObject(t, o) \/ Insert(t, o) \/ Delete(t, o)
        \/ LeaveRead(t) \/ (\E commits \in BOOLEAN : LeaveWrite(t, commits)) \/ Close(t)

Spec == Init /\ [][Next]_vars

-----------------------------------------------------------------------------
(* Properties *)

(* Whatever readers that share its backend object have left behind, a      *)
(* writer works on the connection it opened, so what it writes is in the   *)
(* transaction it commits: the object's connection is put back before the  *)
(* lock is released (_temporary_active_metadata_connection, _write_locked).*)
WritersUseTheirOwn ==
    \A t \in Threads : stage[t] = "writing" =>
        active[BackendOf[t]] = t /\ writer = t

(* No reader sees a transaction that is not committed: while a writer is   *)
(* in its scope nobody else is, and after it no object is left with its    *)
(* connection open.                                                        *)
ReadersUseReaders ==
    \A t \in Threads : stage[t] = "reading" =>
        writer = Nobody /\ active[BackendOf[t]] \in {Nil, Dead} \union InScope

(* A cached payload that would be served is that of a committed object, or *)
(* of one the running writer of this backend has inserted, with two        *)
(* exceptions that last until anybody commits: what the same backend had   *)
(* read in a transaction that was rolled back, and what upload_folder()    *)
(* has read without the lock if a transaction ended before it looked at    *)
(* the size and time of the file (_recent_object_payload).  Nothing that was  *)
(* read under the lock is served after a gc, by whichever backend.         *)
CacheServesCommitted ==
    \A b \in Backends, o \in Objects :
        Hit(b, o) =>
            \/ o \in rows
            \/ writer # Nobody /\ BackendOf[writer] = b /\ o \in work
            \/ o \in undone[b]
            \/ o \in late[b]

(* What the code's design promises for threads that share one object: in a *)
(* scope, the connection the helpers use is open.                          *)
ScopesHaveConnections ==
    \A t \in Threads : stage[t] \in {"reading", "writing"} =>
        active[BackendOf[t]] \in InScope
=============================================================================
