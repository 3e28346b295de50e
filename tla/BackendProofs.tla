---------------------------- MODULE BackendProofs ----------------------------
(***************************************************************************)
(* What holds of backend objects: first of their sessions, for any         *)
(* threads, backend objects and repository objects and a cache of any      *)
(* size, then of large files, for any contents, any way to cut them and    *)
(* any budget of the cache.                                                *)
(*                                                                         *)
(* The properties of a scope rest on where connections are known: nowhere  *)
(* after they are closed, and only in the object of the thread that opened *)
(* them.  Those of the cache of objects rest on there being one entry for  *)
(* an object, and none from the future, and, for what is read without the  *)
(* lock, on the row still being there unless a transaction has ended.      *)
(*                                                                         *)
(* Those of large files rest on every chunk of a committed file being      *)
(* where its entry says, in packs that stay as they are when others come.  *)
(***************************************************************************)
EXTENDS BackendSessions, ChunkedFiles, InductionLemmas

-----------------------------------------------------------------------------
(*                               Sessions                                  *)
-----------------------------------------------------------------------------
(* The lock. *)
Locking ==
    /\ writer # Nobody => stage[writer] \in {"writing", "leaving"} /\ InScope = {writer}
    /\ \A t \in Threads : stage[t] = "writing" => writer = t
    /\ writer = Nobody \/ stage[writer] # "writing" => work = rows

(* What an object may know: the open connections of its own threads. *)
Known(b) == {Nil, Dead} \union {t \in InScope : BackendOf[t] = b}

Linked ==
    /\ \A b \in Backends : active[b] \in Known(b)
    /\ \A t \in Threads : previous[t] \in Known(BackendOf[t])
    /\ \A t \in Threads : stage[t] = "writing" => active[BackendOf[t]] = t

IsUnique(s) == \A i, j \in DOMAIN s : s[i].object = s[j].object => i = j

Caches ==
    /\ \A b \in Backends : IsUnique(cache[b])
    /\ \A b \in Backends : \A i \in DOMAIN cache[b] : cache[b][i].version <= version
    /\ CacheServesCommitted

(* The row of an object is committed, or in the open transaction of b.     *)
HasRow(b, o) == o \in rows \/ (writer # Nobody /\ BackendOf[writer] = b /\ o \in work)

Served(b, o) == HasRow(b, o) \/ o \in undone[b] \/ o \in late[b]

(* What was read without the lock is there, or counts as overtaken.        *)
UpToDate ==
    \A t \in Threads :
        fetched[t] # NoObject /\ t \notin overtaken => HasRow(BackendOf[t], fetched[t])

IInv == TypeOK /\ Locking /\ Linked /\ Caches /\ UpToDate

-----------------------------------------------------------------------------
(* Sequences of cache entries *)

LEMMA WithoutFacts ==
  ASSUME NEW s \in Seq(Cached), NEW o \in Objects, IsUnique(s)
  PROVE  /\ Without(s, o) \in Seq(Cached)
         /\ Len(Without(s, o)) <= Len(s)
         /\ \A i \in DOMAIN Without(s, o) :
               /\ Without(s, o)[i].object # o
               /\ \E j \in DOMAIN s : s[j] = Without(s, o)[i]
         /\ IsUnique(Without(s, o))
<1>1. CASE \A j \in DOMAIN s : s[j].object # o
  BY <1>1 DEF Without
<1>2. CASE \E j \in DOMAIN s : s[j].object = o
  <2> DEFINE k == CHOOSE j \in DOMAIN s : s[j].object = o
             a == SubSeq(s, 1, k - 1)
             b == SubSeq(s, k + 1, Len(s))
  <2>1. k \in 1 .. Len(s) /\ s[k].object = o
    BY <1>2
  <2>2. Without(s, o) = a \o b
    BY <1>2 DEF Without
  <2> HIDE DEF k
  <2>3. /\ a \in Seq(Cached) /\ Len(a) = k - 1
        /\ \A i \in 1 .. k - 1 : a[i] = s[i]
    BY <2>1
  <2>4. /\ b \in Seq(Cached) /\ Len(b) = Len(s) - k
        /\ \A i \in 1 .. Len(s) - k : b[i] = s[k + i]
    BY <2>1
  <2> HIDE DEF a, b
  <2> DEFINE from(i) == IF i < k THEN i ELSE i + 1
  <2>5. /\ a \o b \in Seq(Cached) /\ Len(a \o b) = Len(s) - 1
        /\ \A i \in 1 .. Len(s) - 1 : (a \o b)[i] = s[from(i)]
    <3>1. /\ a \o b \in Seq(Cached) /\ Len(a \o b) = Len(a) + Len(b)
          /\ \A i \in 1 .. Len(a) + Len(b) :
                (a \o b)[i] = IF i <= Len(a) THEN a[i] ELSE b[i - Len(a)]
      BY <2>3, <2>4, ConcatProperties
    <3>2. Len(a) + Len(b) = Len(s) - 1
      BY <2>1, <2>3, <2>4
    <3>3. ASSUME NEW i \in 1 .. Len(s) - 1
          PROVE  (a \o b)[i] = s[from(i)]
      <4>1. CASE i < k
        <5>1. i <= Len(a) /\ i \in 1 .. k - 1
          BY <4>1, <2>1, <2>3
        <5> QED  BY <5>1, <3>1, <3>2, <2>3, <4>1
      <4>2. CASE ~(i < k)
        <5>1. ~(i <= Len(a)) /\ i - Len(a) \in 1 .. Len(s) - k /\ k + (i - Len(a)) = i + 1
          BY <4>2, <2>1, <2>3
        <5>2. (a \o b)[i] = b[i - Len(a)]
          BY <5>1, <3>1, <3>2
        <5>3. b[i - Len(a)] = s[k + (i - Len(a))]
          BY <5>1, <2>4
        <5> QED  BY <5>1, <5>2, <5>3, <4>2
      <4> QED  BY <4>1, <4>2
    <3> QED  BY <3>1, <3>2, <3>3
  <2>6. \A i \in 1 .. Len(s) - 1 : from(i) \in 1 .. Len(s) /\ from(i) # k
    BY <2>1
  <2>7. \A i \in 1 .. Len(s) - 1 : s[from(i)].object # o
    BY <2>1, <2>6 DEF IsUnique
  <2>8. DOMAIN (a \o b) = 1 .. Len(s) - 1
    BY <2>5
  <2>9. \A i, j \in 1 .. Len(s) - 1 : from(i) = from(j) => i = j
    BY <2>1
  <2>10. IsUnique(a \o b)
    <3> SUFFICES ASSUME NEW i \in 1 .. Len(s) - 1, NEW j \in 1 .. Len(s) - 1,
                        (a \o b)[i].object = (a \o b)[j].object
                 PROVE  i = j
      BY <2>8 DEF IsUnique
    <3>1. s[from(i)].object = s[from(j)].object
      BY <2>5
    <3> QED  BY <3>1, <2>6, <2>9 DEF IsUnique
  <2>11. Len(a \o b) <= Len(s)
    BY <2>5
  <2>12. \A i \in DOMAIN (a \o b) :
            (a \o b)[i].object # o /\ \E j \in DOMAIN s : s[j] = (a \o b)[i]
    <3> SUFFICES ASSUME NEW i \in 1 .. Len(s) - 1
                 PROVE  (a \o b)[i].object # o /\ \E j \in DOMAIN s : s[j] = (a \o b)[i]
      BY <2>8
    <3>1. from(i) \in DOMAIN s /\ s[from(i)] = (a \o b)[i]
      BY <2>5, <2>6
    <3>2. s[from(i)].object # o
      BY <2>7
    <3> HIDE DEF from
    <3> QED  BY <3>1, <3>2
  <2> QED  BY <2>2, <2>5, <2>10, <2>11, <2>12
<1> QED  BY <1>1, <1>2

LEMMA NewestFacts ==
  ASSUME NEW s \in Seq(Cached), IsUnique(s), CacheSize \in Nat
  PROVE  /\ Newest(s) \in Seq(Cached)
         /\ Len(Newest(s)) <= CacheSize
         /\ \A i \in DOMAIN Newest(s) : \E j \in DOMAIN s : s[j] = Newest(s)[i]
         /\ IsUnique(Newest(s))
<1> DEFINE k == IF Len(s) > CacheSize THEN Len(s) - CacheSize + 1 ELSE 1
           a == SubSeq(s, k, Len(s))
<1>1. k \in 1 .. Len(s) + 1 /\ Len(s) - k + 1 <= CacheSize
  OBVIOUS
<1>2. Newest(s) = a
  BY DEF Newest
<1> HIDE DEF k
<1>3. /\ a \in Seq(Cached) /\ Len(a) = Len(s) - k + 1
      /\ DOMAIN a = 1 .. Len(s) - k + 1
      /\ \A i \in 1 .. Len(s) - k + 1 : a[i] = s[k + i - 1]
  <2>1. \A i \in k .. Len(s) : s[i] \in Cached
    BY <1>1
  <2> QED  BY <1>1, <2>1, SubSeqProperties
<1>4. \A i \in 1 .. Len(s) - k + 1 : k + i - 1 \in DOMAIN s
  BY <1>1
<1> HIDE DEF a
<1>5. IsUnique(a)
  <2> SUFFICES ASSUME NEW i \in 1 .. Len(s) - k + 1, NEW j \in 1 .. Len(s) - k + 1,
                      a[i].object = a[j].object
               PROVE  i = j
    BY <1>3 DEF IsUnique
  <2>1. k + i - 1 = k + j - 1
    BY <1>3, <1>4 DEF IsUnique
  <2> QED  BY <2>1, <1>1
<1> QED  BY <1>1, <1>2, <1>3, <1>4, <1>5

LEMMA RememberedFacts ==
  ASSUME TypeOK, NEW b \in Backends, NEW o \in Objects, IsUnique(cache[b])
  PROVE  /\ Remembered(b, o) \in Seq(Cached)
         /\ Len(Remembered(b, o)) <= CacheSize
         /\ \A i \in DOMAIN Remembered(b, o) :
               \/ Remembered(b, o)[i] = [object |-> o, version |-> version]
               \/ \E j \in DOMAIN cache[b] : cache[b][j] = Remembered(b, o)[i]
         /\ IsUnique(Remembered(b, o))
<1> DEFINE w == Without(cache[b], o)
           e == [object |-> o, version |-> version]
           s == Append(w, e)
<1>1. cache[b] \in Seq(Cached) /\ e \in Cached
  BY DEF TypeOK, Cached
<1>2. /\ w \in Seq(Cached)
      /\ \A i \in DOMAIN w : /\ w[i].object # o
                             /\ \E j \in DOMAIN cache[b] : cache[b][j] = w[i]
      /\ IsUnique(w)
  BY <1>1, WithoutFacts
<1>3. Remembered(b, o) = Newest(s)
  BY DEF Remembered
<1> HIDE DEF w
<1>4. /\ s \in Seq(Cached) /\ DOMAIN s = 1 .. Len(w) + 1 /\ s[Len(w) + 1] = e
      /\ \A i \in 1 .. Len(w) : i \in DOMAIN w /\ s[i] = w[i]
  BY <1>1, <1>2
<1>5. \A i \in DOMAIN s : i = Len(w) + 1 \/ i \in 1 .. Len(w)
  BY <1>2, <1>4
<1>6. e.object = o
  OBVIOUS
<1> HIDE DEF s, e
<1>7. IsUnique(s)
  BY <1>2, <1>4, <1>5, <1>6 DEF IsUnique
<1>8. \A i \in DOMAIN s : s[i] = e \/ \E j \in DOMAIN cache[b] : cache[b][j] = s[i]
  BY <1>2, <1>4, <1>5
<1>9. /\ Newest(s) \in Seq(Cached)
      /\ Len(Newest(s)) <= CacheSize
      /\ \A i \in DOMAIN Newest(s) : \E j \in DOMAIN s : s[j] = Newest(s)[i]
      /\ IsUnique(Newest(s))
  BY <1>4, <1>7, NewestFacts, SessionsAssumption
<1>10. \A i \in DOMAIN Newest(s) :
          Newest(s)[i] = e \/ \E j \in DOMAIN cache[b] : cache[b][j] = Newest(s)[i]
  BY <1>8, <1>9
<1> QED  BY <1>3, <1>9, <1>10 DEF e

-----------------------------------------------------------------------------
(* Induction *)

LEMMA InitIInv == Init => IInv
<1> SUFFICES ASSUME Init
             PROVE  IInv
  OBVIOUS
<1>1. InScope = {}
  BY DEF Init, InScope
<1>2. TypeOK
  BY SessionsAssumption DEF Init, TypeOK, Stages, Connections
<1>3. Locking
  BY DEF Init, Locking
<1>4. Linked
  BY <1>1, SessionsAssumption DEF Init, Linked, Known
<1>5. Caches
  BY SessionsAssumption DEF Init, Caches, IsUnique, CacheServesCommitted, Hit
<1>6. UpToDate
  BY DEF Init, UpToDate
<1> QED  BY <1>2, <1>3, <1>4, <1>5, <1>6 DEF IInv

LEMMA TypesKept == IInv /\ [Next]_vars => TypeOK'
<1> SUFFICES ASSUME IInv, [Next]_vars
             PROVE  TypeOK'
  OBVIOUS
<1> USE SessionsAssumption DEF IInv
<1>1. CASE UNCHANGED vars
  BY <1>1 DEF vars, TypeOK
<1>2. ASSUME NEW t \in Threads, Check(t)
      PROVE  TypeOK'
  BY <1>2 DEF Check, Store, Memory, Fetches, TypeOK, Stages
<1>3. ASSUME NEW t \in Threads, EnterRead(t)
      PROVE  TypeOK'
  BY <1>3 DEF EnterRead, Publishes, Store, Memory, Fetches, TypeOK, Stages, Connections
<1>4. ASSUME NEW t \in Threads, EnterWrite(t)
      PROVE  TypeOK'
  BY <1>4 DEF EnterWrite, Publishes, Memory, Fetches, TypeOK, Stages, Connections
<1>5. ASSUME NEW t \in Threads, LeaveRead(t)
      PROVE  TypeOK'
  BY <1>5 DEF LeaveRead, Restores, Store, Memory, Fetches, TypeOK, Stages, Connections
<1>6. ASSUME NEW t \in Threads, NEW commits \in BOOLEAN, LeaveWrite(t, commits)
      PROVE  TypeOK'
  <2>1. stage' \in [Threads -> Stages] /\ active' \in [Backends -> Connections]
        /\ previous' \in [Threads -> Connections]
    BY <1>6 DEF LeaveWrite, Restores, TypeOK, Stages, Connections
  <2>2. rows' \subseteq Objects /\ work' \subseteq Objects /\ version' \in 0 .. MaxVersion
    BY <1>6 DEF LeaveWrite, TypeOK
  <2>3. undone' \in [Backends -> SUBSET Objects] /\ late' \in [Backends -> SUBSET Objects]
    BY <1>6 DEF LeaveWrite, TypeOK
  <2>4. overtaken' \subseteq Threads
    BY <1>6 DEF LeaveWrite, AllFetching, Fetching, TypeOK
  <2> QED  BY <1>6, <2>1, <2>2, <2>3, <2>4 DEF LeaveWrite, TypeOK
<1>7. ASSUME NEW t \in Threads, Close(t)
      PROVE  TypeOK'
  BY <1>7 DEF Close, Closed, Memory, Fetches, TypeOK, Stages, Connections
<1>8. ASSUME NEW t \in Threads, NEW o \in Objects, ReadObject(t, o)
      PROVE  TypeOK'
  <2> DEFINE b == BackendOf[t]
  <2>1. IsUnique(cache[b]) /\ cache[b] \in Seq(Cached) /\ Len(cache[b]) <= CacheSize
    BY DEF Caches, TypeOK
  <2>2. Remembered(b, o) \in Seq(Cached) /\ Len(Remembered(b, o)) <= CacheSize
    BY <2>1, RememberedFacts
  <2>3. Without(cache[b], o) \in Seq(Cached) /\ Len(Without(cache[b], o)) <= Len(cache[b])
    BY <2>1, WithoutFacts
  <2>4. Len(Without(cache[b], o)) <= CacheSize
    BY <2>1, <2>3
  <2> QED  BY <1>8, <2>2, <2>3, <2>4 DEF ReadObject, Store, Fetches, TypeOK
<1>9. ASSUME NEW t \in Threads, NEW o \in Objects, Insert(t, o)
      PROVE  TypeOK'
  BY <1>9 DEF Insert, Memory, Fetches, TypeOK
<1>10. ASSUME NEW t \in Threads, NEW o \in Objects, Delete(t, o)
       PROVE  TypeOK'
  <2> DEFINE b == BackendOf[t]
  <2>1. IsUnique(cache[b]) /\ cache[b] \in Seq(Cached) /\ Len(cache[b]) <= CacheSize
    BY DEF Caches, TypeOK
  <2>2. Without(cache[b], o) \in Seq(Cached) /\ Len(Without(cache[b], o)) <= Len(cache[b])
    BY <2>1, WithoutFacts
  <2>3. Len(Without(cache[b], o)) <= CacheSize
    BY <2>1, <2>2
  <2>4. overtaken' \subseteq Threads
    BY <1>10 DEF Delete, Fetching, TypeOK
  <2> QED  BY <1>10, <2>2, <2>3, <2>4 DEF Delete, TypeOK
<1>11. ASSUME NEW t \in Threads, NEW o \in Objects, Fetch(t, o)
       PROVE  TypeOK'
  <2> DEFINE b == BackendOf[t]
  <2>1. IsUnique(cache[b]) /\ cache[b] \in Seq(Cached) /\ Len(cache[b]) <= CacheSize
    BY DEF Caches, TypeOK
  <2>2. Remembered(b, o) \in Seq(Cached) /\ Len(Remembered(b, o)) <= CacheSize
    BY <2>1, RememberedFacts
  <2>3. Without(cache[b], o) \in Seq(Cached) /\ Len(Without(cache[b], o)) <= Len(cache[b])
    BY <2>1, WithoutFacts
  <2>4. Len(Without(cache[b], o)) <= CacheSize
    BY <2>1, <2>3
  <2>5. cache' \in [Backends -> Seq(Cached)] /\ \A x \in Backends : Len(cache'[x]) <= CacheSize
    BY <1>11, <2>2, <2>3, <2>4 DEF Fetch, TypeOK
  <2>6. stage' \in [Threads -> Stages] /\ fetched' \in [Threads -> Objects \union {NoObject}]
    BY <1>11 DEF Fetch, TypeOK, Stages
  <2> QED  BY <1>11, <2>5, <2>6 DEF Fetch, Store, TypeOK
<1>12. ASSUME NEW t \in Threads, Stamp(t)
       PROVE  TypeOK'
  <2> DEFINE b == BackendOf[t]
             o == fetched[t]
  <2>1. IsUnique(cache[b]) /\ cache[b] \in Seq(Cached) /\ Len(cache[b]) <= CacheSize
    BY DEF Caches, TypeOK
  <2>2. o \in Objects
    BY <1>12 DEF Stamp, TypeOK
  <2>3. Remembered(b, o) \in Seq(Cached) /\ Len(Remembered(b, o)) <= CacheSize
    BY <2>1, <2>2, RememberedFacts
  <2>4. cache' \in [Backends -> Seq(Cached)] /\ \A x \in Backends : Len(cache'[x]) <= CacheSize
    BY <1>12, <2>3 DEF Stamp, TypeOK
  <2>5. late' \in [Backends -> SUBSET Objects] /\ overtaken' \subseteq Threads
        /\ fetched' \in [Threads -> Objects \union {NoObject}]
    BY <1>12, <2>2 DEF Stamp, TypeOK
  <2> QED  BY <1>12, <2>4, <2>5 DEF Stamp, Store, TypeOK
<1>13. ASSUME NEW t \in Threads, Abandon(t)
       PROVE  TypeOK'
  BY <1>13 DEF Abandon, Store, Memory, Fetches, TypeOK, Stages
<1> QED  BY <1>1, <1>2, <1>3, <1>4, <1>5, <1>6, <1>7, <1>8, <1>9, <1>10, <1>11, <1>12, <1>13
         DEF Next

LEMMA LockingKept == IInv /\ [Next]_vars => Locking'
<1> SUFFICES ASSUME IInv, [Next]_vars
             PROVE  Locking'
  OBVIOUS
<1> USE SessionsAssumption DEF IInv, TypeOK, Locking
<1>1. CASE UNCHANGED vars
  BY <1>1 DEF vars, InScope
<1>2. ASSUME NEW t \in Threads, Check(t)
      PROVE  Locking'
  BY <1>2 DEF Check, Store, InScope
<1>3. ASSUME NEW t \in Threads, EnterRead(t)
      PROVE  Locking'
  BY <1>3 DEF EnterRead, Store, InScope
<1>4. ASSUME NEW t \in Threads, EnterWrite(t)
      PROVE  Locking'
  BY <1>4 DEF EnterWrite, InScope
<1>5. ASSUME NEW t \in Threads, LeaveRead(t)
      PROVE  Locking'
  BY <1>5 DEF LeaveRead, Restores, Store, InScope
<1>6. ASSUME NEW t \in Threads, NEW commits \in BOOLEAN, LeaveWrite(t, commits)
      PROVE  Locking'
  BY <1>6 DEF LeaveWrite, Restores, InScope
<1>7. ASSUME NEW t \in Threads, Close(t)
      PROVE  Locking'
  BY <1>7 DEF Close, InScope
<1>8. ASSUME NEW t \in Threads, NEW o \in Objects, ReadObject(t, o)
      PROVE  Locking'
  BY <1>8 DEF ReadObject, Store, InScope
<1>9. ASSUME NEW t \in Threads, NEW o \in Objects, Insert(t, o) \/ Delete(t, o)
      PROVE  Locking'
  BY <1>9 DEF Insert, Delete, InScope
<1>10. ASSUME NEW t \in Threads, Stamp(t) \/ Abandon(t) \/ \E o \in Objects : Fetch(t, o)
       PROVE  Locking'
  BY <1>10 DEF Fetch, Stamp, Abandon, Store, InScope
<1> QED  BY <1>1, <1>2, <1>3, <1>4, <1>5, <1>6, <1>7, <1>8, <1>9, <1>10 DEF Next

LEMMA LinkedKept == IInv /\ [Next]_vars => Linked'
<1> SUFFICES ASSUME IInv, [Next]_vars
             PROVE  Linked'
  OBVIOUS
<1> USE SessionsAssumption DEF IInv, TypeOK, Locking, Linked, Known, InScope
<1>1. CASE UNCHANGED vars
  BY <1>1 DEF vars
<1>2. ASSUME NEW t \in Threads, Check(t)
      PROVE  Linked'
  BY <1>2 DEF Check
<1>3. ASSUME NEW t \in Threads, EnterRead(t)
      PROVE  Linked'
  BY <1>3 DEF EnterRead, Publishes
<1>4. ASSUME NEW t \in Threads, EnterWrite(t)
      PROVE  Linked'
  BY <1>4 DEF EnterWrite, Publishes
<1>5. ASSUME NEW t \in Threads, LeaveRead(t)
      PROVE  Linked'
  BY <1>5 DEF LeaveRead, Restores
<1>6. ASSUME NEW t \in Threads, NEW commits \in BOOLEAN, LeaveWrite(t, commits)
      PROVE  Linked'
  BY <1>6 DEF LeaveWrite, Restores
<1>7. ASSUME NEW t \in Threads, Close(t)
      PROVE  Linked'
  BY <1>7 DEF Close, Closed
<1>8. ASSUME NEW t \in Threads, NEW o \in Objects, ReadObject(t, o) \/ Insert(t, o) \/ Delete(t, o)
      PROVE  Linked'
  BY <1>8 DEF ReadObject, Insert, Delete
<1>9. ASSUME NEW t \in Threads, Stamp(t) \/ Abandon(t) \/ \E o \in Objects : Fetch(t, o)
      PROVE  Linked'
  <2>1. active' = active /\ previous' = previous
    BY <1>9 DEF Fetch, Stamp, Abandon
  <2>2. \A u \in Threads : stage'[u] = stage[u] \/ {stage'[u], stage[u]} \subseteq {"checked", "idle"}
    BY <1>9 DEF Fetch, Stamp, Abandon
  <2>3. \A u \in Threads : stage'[u] = "writing" => stage[u] = "writing"
    BY <2>2
  <2>4. InScope' = InScope
    BY <2>2
  <2> QED  BY <2>1, <2>2, <2>3, <2>4
<1> QED  BY <1>1, <1>2, <1>3, <1>4, <1>5, <1>6, <1>7, <1>8, <1>9 DEF Next

(* Rows are visible through the connections of the own backend.            *)
LEMMA FoundHasRow ==
  ASSUME IInv, NEW b \in Backends, NEW o \in Objects, Finds(b, o)
  PROVE  HasRow(b, o)
<1>1. active[b] \in Known(b) /\ o \in Seen(active[b])
  BY DEF IInv, Linked, Finds
<1>2. CASE writer = Nobody
  BY <1>1, <1>2 DEF Seen, IInv, Locking, HasRow
<1>3. CASE writer # Nobody
  <2>1. writer \in Threads
    BY <1>3 DEF IInv, TypeOK
  <2>2. active[b] = writer => BackendOf[writer] = b
    BY <1>1, <1>3, <2>1, SessionsAssumption DEF Known, InScope
  <2> QED  BY <1>1, <1>3, <2>2 DEF Seen, HasRow
<1> QED  BY <1>2, <1>3

(* Dropping an entry, or remembering a payload that may be served, leaves  *)
(* the caches as they should be.                                           *)
LEMMA TouchedCache ==
  ASSUME TypeOK, Caches, NEW b \in Backends, NEW o \in Objects, NEW w,
         w = Without(cache[b], o) \/ (w = Remembered(b, o) /\ Served(b, o)'),
         cache' = [cache EXCEPT ![b] = w],
         UNCHANGED <<Store, undone>>,
         \A x \in Backends : late[x] \subseteq late'[x]
  PROVE  Caches'
<1> DEFINE entry == [object |-> o, version |-> version]
<1>1. IsUnique(cache[b]) /\ cache[b] \in Seq(Cached)
  BY DEF Caches, TypeOK
<1>2. \A i \in DOMAIN w :
         \/ w[i] = entry /\ Served(b, o)'
         \/ \E j \in DOMAIN cache[b] : cache[b][j] = w[i]
  <2>1. CASE w = Without(cache[b], o)
    <3>1. \A i \in DOMAIN Without(cache[b], o) :
             \E j \in DOMAIN cache[b] : cache[b][j] = Without(cache[b], o)[i]
      BY <1>1, WithoutFacts
    <3> QED  BY <2>1, <3>1
  <2>2. CASE w = Remembered(b, o) /\ Served(b, o)'
    <3>1. \A i \in DOMAIN Remembered(b, o) :
             \/ Remembered(b, o)[i] = [object |-> o, version |-> version]
             \/ \E j \in DOMAIN cache[b] : cache[b][j] = Remembered(b, o)[i]
      BY <1>1, RememberedFacts
    <3> QED  BY <2>2, <3>1
  <2> QED  BY <2>1, <2>2
<1>3. IsUnique(w)
  BY <1>1, RememberedFacts, WithoutFacts
<1>4. /\ version' = version /\ rows' = rows /\ work' = work /\ writer' = writer
      /\ undone' = undone
      /\ cache'[b] = w /\ \A x \in Backends : x # b => cache'[x] = cache[x]
  BY DEF Store, TypeOK
<1>5. \A x \in Backends : IsUnique(cache[x])'
  <2>1. \A x \in Backends : IsUnique(cache'[x])
    BY <1>3, <1>4 DEF Caches
  <2> QED  BY <2>1 DEF IsUnique
<1>6. \A x \in Backends : \A i \in DOMAIN cache'[x] : cache'[x][i].version <= version'
  <2>1. \A i \in DOMAIN w : w[i].version <= version
    <3> SUFFICES ASSUME NEW i \in DOMAIN w
                 PROVE  w[i].version <= version
      OBVIOUS
    <3>1. CASE w[i] = entry
      <4>1. w[i].version = version /\ version \in Int
        BY <3>1 DEF TypeOK
      <4> QED  BY <4>1
    <3>2. CASE \E j \in DOMAIN cache[b] : cache[b][j] = w[i]
      BY <3>2 DEF Caches
    <3> QED  BY <1>2, <3>1, <3>2
  <2> QED  BY <1>4, <2>1 DEF Caches
<1>7. CacheServesCommitted'
  <2> SUFFICES ASSUME NEW x \in Backends, NEW p \in Objects, Hit(x, p)'
               PROVE  Served(x, p)'
    BY DEF CacheServesCommitted, Served, HasRow
  <2>1. CASE Hit(x, p)
    <3>1. Served(x, p)
      BY <2>1 DEF Caches, CacheServesCommitted, Served, HasRow
    <3> QED  BY <1>4, <3>1 DEF Served, HasRow
  <2>2. CASE ~Hit(x, p)
    <3>1. x = b
      BY <1>4, <2>2 DEF Hit
    <3>2. PICK i \in DOMAIN w : w[i].object = p /\ w[i].version = version
      BY <1>4, <3>1 DEF Hit
    <3>3. w[i] = entry /\ Served(b, o)'
      BY <1>2, <2>2, <3>1, <3>2 DEF Hit
    <3>4. p = o
      BY <3>2, <3>3
    <3> QED  BY <3>1, <3>3, <3>4
  <2> QED  BY <2>1, <2>2
<1> QED  BY <1>5, <1>6, <1>7 DEF Caches

(* An entry of the current version is served. *)
LEMMA CachesKept == IInv /\ [Next]_vars => Caches'
<1> SUFFICES ASSUME IInv, [Next]_vars
             PROVE  Caches'
  OBVIOUS
<1> USE SessionsAssumption DEF IInv, TypeOK
<1>1. CASE UNCHANGED vars
  BY <1>1 DEF vars, Caches, IsUnique, CacheServesCommitted, Hit
<1>2. ASSUME NEW t \in Threads, Check(t) \/ EnterRead(t) \/ LeaveRead(t)
      PROVE  Caches'
  BY <1>2 DEF Check, EnterRead, LeaveRead, Store, Memory, Caches, IsUnique,
              CacheServesCommitted, Hit
<1>3. ASSUME NEW t \in Threads, EnterWrite(t)
      PROVE  Caches'
  <2>1. writer = Nobody
    BY <1>3 DEF EnterWrite, Locking, InScope
  <2> QED  BY <1>3, <2>1 DEF EnterWrite, Memory, Caches, IsUnique, CacheServesCommitted, Hit
<1>4. ASSUME NEW t \in Threads, NEW commits \in BOOLEAN, LeaveWrite(t, commits)
      PROVE  Caches'
  <2>1. writer = t
    BY <1>4 DEF LeaveWrite, Locking
  <2>2. CASE commits
    <3>1. version' = version + 1 /\ cache' = cache
      BY <1>4, <2>2 DEF LeaveWrite
    <3>2. \A b \in Backends : \A i \in DOMAIN cache[b] : cache[b][i].version \in 0 .. MaxVersion
      <4> SUFFICES ASSUME NEW b \in Backends, NEW i \in DOMAIN cache[b]
                   PROVE  cache[b][i].version \in 0 .. MaxVersion
        OBVIOUS
      <4>1. cache[b] \in Seq(Cached) /\ i \in 1 .. Len(cache[b])
        OBVIOUS
      <4>2. cache[b][i] \in Cached
        BY <4>1, ElementOfSeq
      <4> QED  BY <4>2 DEF Cached
    <3>3. \A b \in Backends, o \in Objects : ~Hit(b, o)'
      BY <3>1, <3>2 DEF Caches, Hit
    <3>4. \A b \in Backends : \A i \in DOMAIN cache'[b] : cache'[b][i].version <= version'
      BY <3>1, <3>2 DEF Caches
    <3>5. \A b \in Backends : IsUnique(cache'[b])
      BY <3>1 DEF Caches, IsUnique
    <3> QED  BY <3>3, <3>4, <3>5 DEF Caches, IsUnique, CacheServesCommitted
  <2>3. CASE ~commits
    <3>1. cache' = cache /\ version' = version /\ rows' = rows /\ late' = late
      BY <1>4, <2>3 DEF LeaveWrite
    <3>2. \A b \in Backends, o \in Objects : Hit(b, o)' <=> Hit(b, o)
      BY <3>1 DEF Hit
    <3>3. undone' = [undone EXCEPT ![BackendOf[t]] =
                        @ \union ({o \in Objects : Hit(BackendOf[t], o)} \ rows)]
      BY <1>4, <2>3 DEF LeaveWrite
    <3>4. CacheServesCommitted'
      <4> SUFFICES ASSUME NEW b \in Backends, NEW o \in Objects, Hit(b, o)
                   PROVE  o \in rows \/ o \in undone'[b] \/ o \in late'[b]
        BY <3>1, <3>2 DEF CacheServesCommitted
      <4>1. CASE o \in rows
        BY <4>1
      <4>2. CASE BackendOf[t] = b /\ o \notin rows
        BY <3>3, <4>2
      <4>3. CASE BackendOf[t] # b /\ o \notin rows
        BY <2>1, <3>1, <3>3, <4>3 DEF Caches, CacheServesCommitted
      <4> QED  BY <4>1, <4>2, <4>3
    <3> QED  BY <3>1, <3>4 DEF Caches, IsUnique
  <2> QED  BY <2>2, <2>3
<1>5. ASSUME NEW t \in Threads, Close(t)
      PROVE  Caches'
  <2>1. writer = t => work = rows
    BY <1>5 DEF Close, Locking
  <2> QED  BY <1>5, <2>1 DEF Close, Memory, Caches, IsUnique, CacheServesCommitted, Hit
<1>6. ASSUME NEW t \in Threads, NEW o \in Objects, ReadObject(t, o)
      PROVE  Caches'
  <2> DEFINE b == BackendOf[t]
             w == IF Hit(b, o) \/ Finds(b, o) THEN Remembered(b, o) ELSE Without(cache[b], o)
  <2>1. cache' = [cache EXCEPT ![b] = w] /\ UNCHANGED <<Store, undone, late>>
    BY <1>6 DEF ReadObject
  <2>2. Hit(b, o) \/ Finds(b, o) => Served(b, o)
    BY FoundHasRow DEF Caches, CacheServesCommitted, Served, HasRow
  <2>3. w = Without(cache[b], o) \/ (w = Remembered(b, o) /\ Served(b, o)')
    BY <2>1, <2>2 DEF Served, HasRow, Store
  <2> QED  BY <2>1, <2>3, TouchedCache
<1>7. ASSUME NEW t \in Threads, NEW o \in Objects, Insert(t, o)
      PROVE  Caches'
  BY <1>7 DEF Insert, Memory, Caches, IsUnique, CacheServesCommitted, Hit
<1>8. ASSUME NEW t \in Threads, NEW o \in Objects, Delete(t, o)
      PROVE  Caches'
  <2> DEFINE b == BackendOf[t]
             w == Without(cache[b], o)
  <2>1. IsUnique(cache[b]) /\ cache[b] \in Seq(Cached)
    BY DEF Caches
  <2>2. /\ IsUnique(w)
        /\ \A i \in DOMAIN w : w[i].object # o /\ \E j \in DOMAIN cache[b] : cache[b][j] = w[i]
    BY <2>1, WithoutFacts
  <2>3. /\ version' = version /\ rows' = rows /\ work' = work \ {o} /\ writer' = writer
        /\ undone' = undone /\ late' = late /\ cache' = [cache EXCEPT ![b] = w]
        /\ writer = t
    BY <1>8 DEF Delete, Locking
  <2> HIDE DEF w
  <2>4. cache'[b] = w /\ \A x \in Backends : x # b => cache'[x] = cache[x]
    BY <2>3
  <2>5. \A x \in Backends : IsUnique(cache[x])'
    <3>1. \A x \in Backends : IsUnique(cache'[x])
      BY <2>2, <2>4 DEF Caches
    <3> QED  BY <3>1 DEF IsUnique
  <2>6. \A x \in Backends : \A i \in DOMAIN cache'[x] : cache'[x][i].version <= version'
    <3>1. \A i \in DOMAIN w : w[i].version <= version
      BY <2>2 DEF Caches
    <3> QED  BY <2>3, <2>4, <3>1 DEF Caches
  <2>7. CacheServesCommitted'
    <3> SUFFICES ASSUME NEW x \in Backends, NEW p \in Objects, Hit(x, p)'
                 PROVE  \/ p \in rows
                        \/ writer # Nobody /\ BackendOf[writer] = x /\ p \in work \ {o}
                        \/ p \in undone[x]
                        \/ p \in late[x]
      BY <2>3 DEF CacheServesCommitted
    <3>1. Hit(x, p)
      BY <2>2, <2>3, <2>4 DEF Hit
    <3>2. x = b => p # o
      BY <2>2, <2>4 DEF Hit
    <3> QED  BY <2>3, <3>1, <3>2 DEF Caches, CacheServesCommitted
  <2> QED  BY <2>5, <2>6, <2>7 DEF Caches
<1>9. ASSUME NEW t \in Threads, NEW o \in Objects, Fetch(t, o)
      PROVE  Caches'
  <2> DEFINE b == BackendOf[t]
             w == IF Hit(b, o) THEN Remembered(b, o) ELSE Without(cache[b], o)
  <2>1. cache' = [cache EXCEPT ![b] = w] /\ UNCHANGED <<Store, undone, late>>
    BY <1>9 DEF Fetch
  <2>2. Hit(b, o) => Served(b, o)
    BY DEF Caches, CacheServesCommitted, Served, HasRow
  <2>3. w = Without(cache[b], o) \/ (w = Remembered(b, o) /\ Served(b, o)')
    BY <2>1, <2>2 DEF Served, HasRow, Store
  <2> QED  BY <2>1, <2>3, TouchedCache
<1>10. ASSUME NEW t \in Threads, Stamp(t)
       PROVE  Caches'
  <2> DEFINE b == BackendOf[t]
  <2>0. PICK o \in Objects : o = fetched[t]
    BY <1>10 DEF Stamp
  <2> DEFINE w == Remembered(b, o)
  <2>1. /\ cache' = [cache EXCEPT ![b] = w] /\ UNCHANGED <<Store, undone>>
        /\ late' = [late EXCEPT ![b] = IF t \in overtaken THEN @ \union {o} ELSE @]
    BY <1>10, <2>0 DEF Stamp
  <2>2. \A x \in Backends : late[x] \subseteq late'[x]
    BY <2>1
  <2>3. Served(b, o)'
    <3>1. CASE t \in overtaken
      BY <2>1, <3>1 DEF Served
    <3>2. CASE t \notin overtaken
      <4>1. HasRow(b, o)
        BY <2>0, <3>2, SessionsAssumption DEF UpToDate
      <4> QED  BY <2>1, <4>1 DEF Served, HasRow, Store
    <3> QED  BY <3>1, <3>2
  <2> QED  BY <2>1, <2>2, <2>3, TouchedCache
<1>11. ASSUME NEW t \in Threads, Abandon(t)
       PROVE  Caches'
  BY <1>11 DEF Abandon, Store, Memory, Caches, IsUnique, CacheServesCommitted, Hit
<1> QED  BY <1>1, <1>2, <1>3, <1>4, <1>5, <1>6, <1>7, <1>8, <1>9, <1>10, <1>11 DEF Next

(* What has been read without the lock keeps its row, until a transaction  *)
(* ends or gc deletes it, which the history notes.                         *)
LEMMA UpToDateKept == IInv /\ [Next]_vars => UpToDate'
<1> SUFFICES ASSUME IInv, [Next]_vars
             PROVE  UpToDate'
  OBVIOUS
<1> USE SessionsAssumption DEF IInv, TypeOK
<1>1. CASE UNCHANGED vars
  BY <1>1 DEF vars, UpToDate, HasRow
<1>2. ASSUME NEW t \in Threads, Check(t) \/ EnterRead(t) \/ LeaveRead(t) \/ Abandon(t)
      PROVE  UpToDate'
  BY <1>2 DEF Check, EnterRead, LeaveRead, Abandon, Store, Memory, Fetches, UpToDate, HasRow
<1>3. ASSUME NEW t \in Threads, EnterWrite(t)
      PROVE  UpToDate'
  <2>1. writer = Nobody
    BY <1>3 DEF EnterWrite, Locking, InScope
  <2> QED  BY <1>3, <2>1 DEF EnterWrite, Memory, Fetches, UpToDate, HasRow
<1>4. ASSUME NEW t \in Threads, NEW commits \in BOOLEAN, LeaveWrite(t, commits)
      PROVE  UpToDate'
  <2>1. writer = t /\ fetched' = fetched
    BY <1>4 DEF LeaveWrite, Locking
  <2>2. CASE commits
    <3>1. overtaken' = AllFetching
      BY <1>4, <2>2 DEF LeaveWrite
    <3> QED  BY <2>1, <3>1 DEF AllFetching, Fetching, UpToDate
  <2>3. CASE ~commits
    <3>1. overtaken' = overtaken \union Fetching(BackendOf[t]) /\ rows' = rows
      BY <1>4, <2>3 DEF LeaveWrite
    <3>2. ASSUME NEW u \in Threads, fetched[u] # NoObject, u \notin overtaken'
          PROVE  HasRow(BackendOf[u], fetched[u])'
      <4>1. BackendOf[u] # BackendOf[t] /\ u \notin overtaken
        BY <3>1, <3>2 DEF Fetching
      <4>2. fetched[u] \in rows
        BY <2>1, <3>2, <4>1 DEF UpToDate, HasRow
      <4> QED  BY <2>1, <3>1, <4>2 DEF HasRow
    <3> QED  BY <2>1, <3>2 DEF UpToDate
  <2> QED  BY <2>2, <2>3
<1>5. ASSUME NEW t \in Threads, Close(t)
      PROVE  UpToDate'
  <2>1. writer = t => work = rows
    BY <1>5 DEF Close, Locking
  <2> QED  BY <1>5, <2>1 DEF Close, Memory, Fetches, UpToDate, HasRow
<1>6. ASSUME NEW t \in Threads, NEW o \in Objects, ReadObject(t, o)
      PROVE  UpToDate'
  BY <1>6 DEF ReadObject, Store, Fetches, UpToDate, HasRow
<1>7. ASSUME NEW t \in Threads, NEW o \in Objects, Insert(t, o)
      PROVE  UpToDate'
  BY <1>7 DEF Insert, Memory, Fetches, UpToDate, HasRow
<1>8. ASSUME NEW t \in Threads, NEW o \in Objects, Delete(t, o)
      PROVE  UpToDate'
  <2>1. /\ fetched' = fetched /\ rows' = rows /\ work' = work \ {o}
        /\ writer' = writer /\ writer = t
        /\ overtaken' = overtaken \union {u \in Fetching(BackendOf[t]) : fetched[u] = o}
    BY <1>8 DEF Delete, Locking
  <2>2. ASSUME NEW u \in Threads, fetched[u] # NoObject, u \notin overtaken'
        PROVE  HasRow(BackendOf[u], fetched[u])'
    <3>1. HasRow(BackendOf[u], fetched[u])
      BY <2>1, <2>2 DEF UpToDate
    <3>2. BackendOf[u] = BackendOf[t] => fetched[u] # o
      BY <2>1, <2>2 DEF Fetching
    <3> QED  BY <2>1, <3>1, <3>2 DEF HasRow
  <2> QED  BY <2>1, <2>2 DEF UpToDate
<1>9. ASSUME NEW t \in Threads, NEW o \in Objects, Fetch(t, o)
      PROVE  UpToDate'
  <2>1. /\ UNCHANGED <<rows, work, writer, overtaken>>
        /\ fetched' = [fetched EXCEPT ![t] = IF ~Hit(BackendOf[t], o) /\ Finds(BackendOf[t], o)
                                             THEN o ELSE NoObject]
    BY <1>9 DEF Fetch, Store
  <2>2. ASSUME NEW u \in Threads, fetched'[u] # NoObject, u \notin overtaken
        PROVE  HasRow(BackendOf[u], fetched'[u])
    <3>1. CASE u = t
      <4>1. fetched'[u] = o /\ Finds(BackendOf[t], o)
        BY <2>1, <2>2, <3>1
      <4> QED  BY <3>1, <4>1, FoundHasRow
    <3>2. CASE u # t
      BY <2>1, <2>2, <3>2 DEF UpToDate
    <3> QED  BY <3>1, <3>2
  <2> QED  BY <2>1, <2>2 DEF UpToDate, HasRow
<1>10. ASSUME NEW t \in Threads, Stamp(t)
       PROVE  UpToDate'
  BY <1>10 DEF Stamp, Store, UpToDate, HasRow
<1> QED  BY <1>1, <1>2, <1>3, <1>4, <1>5, <1>6, <1>7, <1>8, <1>9, <1>10 DEF Next

LEMMA IInvHolds == Spec => []IInv
<1>1. Init => IInv
  BY InitIInv
<1>2. IInv /\ [Next]_vars => IInv'
  BY TypesKept, LockingKept, LinkedKept, CachesKept, UpToDateKept DEF IInv
<1> QED  BY <1>1, <1>2, PTL DEF Spec

-----------------------------------------------------------------------------
(* The state of backends stays within its types; the cache in its bound. *)
THEOREM TypeCorrectness == Spec => []TypeOK
<1>1. IInv => TypeOK
  BY DEF IInv
<1> QED  BY <1>1, IInvHolds, PTL

(* A writer works on its own connection whatever readers of the same       *)
(* object came before it (_temporary_active_metadata_connection).          *)
THEOREM WritersAreOnTheirOwn == Spec => []WritersUseTheirOwn
<1>1. IInv => WritersUseTheirOwn
  BY DEF IInv, Locking, Linked, WritersUseTheirOwn
<1> QED  BY <1>1, IInvHolds, PTL

(* No reader is given the connection of a writer (_read_locked,            *)
(* _write_locked).                                                         *)
THEOREM ReadersAreAmongReaders == Spec => []ReadersUseReaders
<1>1. IInv => ReadersUseReaders
  BY SessionsAssumption
     DEF IInv, TypeOK, Locking, Linked, Known, InScope, ReadersUseReaders
<1> QED  BY <1>1, IInvHolds, PTL

(* What the payload cache serves is committed, or was read by the same     *)
(* backend in a transaction that it rolled back, or without the lock while *)
(* a transaction ended (_recent_object_payload, upload_folder).            *)
THEOREM CachesServeCommitted == Spec => []CacheServesCommitted
<1>1. IInv => CacheServesCommitted
  BY DEF IInv, Caches
<1> QED  BY <1>1, IInvHolds, PTL

-----------------------------------------------------------------------------
(*                              Large files                                *)
-----------------------------------------------------------------------------
LEMMA MaxOfPrefix ==
    ASSUME NEW k \in Nat, k > 0
    PROVE  Max(1..k) = k /\ (1..k) \ {k} = 1..(k - 1) /\ 1..k # {}
<1>1. k \in 1..k /\ 1..k \in SUBSET (1..k) /\ (1..k) \ {k} = 1..(k - 1)
  OBVIOUS
<1>2. Max(1..k) \in 1..k /\ \A y \in 1..k : Max(1..k) >= y
  BY <1>1, MaxOfNumbers
<1>3. QED
  BY <1>1, <1>2

Solves(h, n, A, base, G) ==
    /\ h \in [SUBSET (1..n) -> A]
    /\ \A t \in SUBSET (1..n) :
          h[t] = IF t = {} THEN base ELSE G[Max(t)][h[t \ {Max(t)}]]

\* The recursion of the folds over sequences has a solution.
LEMMA FoldRecursion ==
    ASSUME NEW n, NEW A, NEW base, NEW G, IsStep(n, A, base, G)
    PROVE  \E h : Solves(h, n, A, base, G)
<1> n \in Nat /\ base \in A /\ G \in [1..n -> [A -> A]]
  BY DEF IsStep
<1> DEFINE Rule(h, t) == h[t] = IF t = {} THEN base ELSE G[Max(t)][h[t \ {Max(t)}]]
           IsSolved(m) ==
             \E h \in [SUBSET (1..m) -> A] : \A t \in SUBSET (1..m) : Rule(h, t)
           T == {m \in 0..n : IsSolved(m)}
<1>1. 0 \in T
  <2>1. SUBSET (1..0) = {{}}
    OBVIOUS
  <2>2. [t \in SUBSET (1..0) |-> base] \in [SUBSET (1..0) -> A]
    OBVIOUS
  <2>3. \A t \in SUBSET (1..0) : Rule([u \in SUBSET (1..0) |-> base], t)
    BY <2>1
  <2>4. IsSolved(0)
    <3> HIDE DEF Rule
    <3> QED
      BY <2>2, <2>3
  <2>5. QED
    <3> HIDE DEF IsSolved
    <3> QED
      BY <2>4
<1>2. ASSUME NEW m \in 1..n, m - 1 \in T
      PROVE  m \in T
  <2>1. PICK h \in [SUBSET (1..m - 1) -> A] : \A t \in SUBSET (1..m - 1) : Rule(h, t)
    <3> HIDE DEF Rule
    <3> QED
      BY <1>2
  <2> DEFINE g == [t \in SUBSET (1..m) |-> IF m \in t THEN G[m][h[t \ {m}]] ELSE h[t]]
  <2>2. ASSUME NEW t \in SUBSET (1..m)
        PROVE  g[t] \in A /\ Rule(g, t)
    <3>1. CASE m \in t
      <4>1. t \ {m} \in SUBSET (1..m - 1) /\ t # {} /\ t \ {m} \in SUBSET (1..m)
        BY <3>1
      <4>2. Max(t) = m
        <5>1. Max(t) \in t /\ \A y \in t : Max(t) >= y
          <6> HIDE DEF g, Rule, T
          <6> m \in Nat
            OBVIOUS
          <6> QED
            BY <4>1, MaxOfNumbers
        <5>2. Max(t) \in 1..m /\ Max(t) >= m
          BY <3>1, <5>1
        <5>3. QED
          BY <5>2
      <4>3. g[t \ {m}] = h[t \ {m}]
        BY <4>1
      <4>4. g[t] = G[m][h[t \ {m}]] /\ h[t \ {m}] \in A
        BY <2>1, <3>1, <4>1
      <4>5. G[m] \in [A -> A]
        OBVIOUS
      <4> HIDE DEF g
      <4>6. QED
        BY <4>1, <4>2, <4>3, <4>4, <4>5
    <3>2. CASE m \notin t
      <4>1. t \in SUBSET (1..m - 1)
        BY <3>2
      <4>2. g[t] = h[t] /\ h[t] \in A /\ Rule(h, t)
        BY <2>1, <3>2, <4>1
      <4>3. CASE t = {}
        BY <4>2, <4>3
      <4>4. CASE t # {}
        <5>1. t \ {Max(t)} \in SUBSET (1..m) /\ m \notin t \ {Max(t)}
          BY <3>2
        <5>2. g[t \ {Max(t)}] = h[t \ {Max(t)}]
          BY <5>1
        <5> HIDE DEF g
        <5>3. QED
          BY <4>2, <4>4, <5>2
      <4>5. QED
        BY <4>3, <4>4
    <3>3. QED
      BY <3>1, <3>2
  <2>3. g \in [SUBSET (1..m) -> A]
    BY <2>2
  <2>4. IsSolved(m)
    <3> HIDE DEF g, Rule
    <3> QED
      BY <2>2, <2>3
  <2>5. QED
    <3> HIDE DEF IsSolved
    <3> QED
      BY <2>4
<1>3. n \in T
  <2> HIDE DEF T
  <2>1. 0..n \subseteq T
    BY <1>1, <1>2, UpTo
  <2>2. QED
    BY <2>1
<1>4. QED
  <2>1. IsSolved(n)
    BY <1>3
  <2>2. PICK h \in [SUBSET (1..n) -> A] : \A t \in SUBSET (1..n) : Rule(h, t)
    <3> HIDE DEF Rule
    <3> QED
      BY <2>1
  <2>3. QED
    BY <2>2 DEF Solves

-----------------------------------------------------------------------------
(* Total *)

\* f[k] is how many bytes the first k chunks of s have.
IsSizes(f, s) ==
    /\ f \in [0..Len(s) -> Nat]
    /\ f[0] = 0
    /\ \A k \in 1..Len(s) : f[k] = f[k - 1] + Len(s[k])

LEMMA TotalOfPrefixes ==
    ASSUME NEW V, NEW s \in Seq(Seq(V))
    PROVE  \E f : IsSizes(f, s) /\ Total(s) = f[Len(s)]
<1> DEFINE n == Len(s)
           G == [k \in 1..n |-> [a \in Nat |-> a + Len(s[k])]]
           Rule(g) == g = [t \in SUBSET DOMAIN s |->
                             IF t = {} THEN 0 ELSE g[t \ {Max(t)}] + Len(s[Max(t)])]
           it == CHOOSE g : Rule(g)
           f == [k \in 0..n |-> it[1..k]]
<1>1. /\ n \in Nat /\ DOMAIN s = 1..n
      /\ \A k \in 1..n : Len(s[k]) \in Nat
  <2>1. \A k \in 1..n : s[k] \in Seq(V)
    OBVIOUS
  <2>2. QED
    BY <2>1
<1>2. Total(s) = it[1..n]
  BY <1>1 DEF Total, FoldLeft, MapThenFoldSet
<1>3. Rule(it)
  <2>1. G \in [1..n -> [Nat -> Nat]]
    BY <1>1
  <2>2. PICK h : Solves(h, n, Nat, 0, G)
    <3>1. IsStep(n, Nat, 0, G)
      BY <1>1, <2>1 DEF IsStep
    <3> HIDE DEF G, n
    <3> QED
      BY <3>1, FoldRecursion
  <2>3. ASSUME NEW t \in SUBSET (1..n)
        PROVE  h[t] = IF t = {} THEN 0 ELSE h[t \ {Max(t)}] + Len(s[Max(t)])
    <3>a. /\ h \in [SUBSET (1..n) -> Nat]
          /\ h[t] = IF t = {} THEN 0 ELSE G[Max(t)][h[t \ {Max(t)}]]
      BY <2>2 DEF Solves
    <3>1. CASE t = {}
      BY <3>a, <3>1
    <3>2. CASE t # {}
      <4>1. Max(t) \in 1..n /\ t \ {Max(t)} \in SUBSET (1..n)
        BY <1>1, <3>2, MaxOfNumbers
      <4>2. h[t \ {Max(t)}] \in Nat
        BY <3>a, <4>1
      <4>3. G[Max(t)][h[t \ {Max(t)}]] = h[t \ {Max(t)}] + Len(s[Max(t)])
        BY <4>1, <4>2
      <4>4. QED
        BY <3>a, <3>2, <4>3
    <3>3. QED
      BY <3>1, <3>2
  <2>4. Rule(h)
    <3>1. h \in [SUBSET (1..n) -> Nat]
      BY <2>2 DEF Solves
    <3>2. QED
      BY <1>1, <2>3, <3>1
  <2>5. QED
    <3> HIDE DEF Rule
    <3> QED
      BY <2>4
<1>4. /\ it[{}] = 0
      /\ \A t \in SUBSET (1..n) : t # {} => it[t] = it[t \ {Max(t)}] + Len(s[Max(t)])
  BY <1>1, <1>3
<1> HIDE DEF it
<1>5. f[0] = 0 /\ \A k \in 1..n : f[k] = f[k - 1] + Len(s[k])
  <2>1. f[0] = 0
    <3>1. 1..0 = {}
      OBVIOUS
    <3>2. QED
      BY <1>4, <3>1
  <2>2. ASSUME NEW k \in 1..n
        PROVE  f[k] = f[k - 1] + Len(s[k])
    <3>1. Max(1..k) = k /\ (1..k) \ {k} = 1..(k - 1) /\ 1..k # {}
      BY MaxOfPrefix
    <3>2. 1..k \in SUBSET (1..n)
      OBVIOUS
    <3>3. it[1..k] = it[1..(k - 1)] + Len(s[k])
      BY <1>4, <3>1, <3>2
    <3>4. QED
      BY <3>3
  <2>3. QED
    BY <2>1, <2>2
<1>6. f \in [0..n -> Nat]
  <2> DEFINE T == {k \in 0..n : f[k] \in Nat}
  <2>1. 0 \in T
    BY <1>1, <1>5
  <2>a. ASSUME NEW k \in 1..n, k - 1 \in T
        PROVE  k \in T
    <3> HIDE DEF f, n
    <3>1. f[k - 1] \in Nat /\ f[k] = f[k - 1] + Len(s[k]) /\ Len(s[k]) \in Nat
      BY <1>1, <1>5, <2>a
    <3>2. QED
      BY <3>1
  <2>2. 0..n \subseteq T
    <3> HIDE DEF T, n
    <3> QED
      BY <1>1, <2>1, <2>a, UpTo
  <2>3. QED
    BY <2>2
<1>7. f[n] = it[1..n]
  BY <1>1
<1>8. QED
  BY <1>2, <1>5, <1>6, <1>7 DEF IsSizes

LEMMA SizesAreUnique ==
    ASSUME NEW s, Len(s) \in Nat, NEW f, IsSizes(f, s), NEW g, IsSizes(g, s)
    PROVE  \A k \in 0..Len(s) : f[k] = g[k]
<1> DEFINE T == {k \in 0..Len(s) : f[k] = g[k]}
<1>1. 0 \in T
  BY DEF IsSizes
<1>2. ASSUME NEW k \in 1..Len(s), k - 1 \in T
      PROVE  k \in T
  BY <1>2 DEF IsSizes
<1>3. 0..Len(s) \subseteq T
  <2> HIDE DEF T
  <2> QED
    BY <1>1, <1>2, UpTo
<1>4. QED
  BY <1>3

\* What satisfies the equations of a sum is the sum.
LEMMA TotalIs ==
    ASSUME NEW V, NEW s \in Seq(Seq(V)), NEW f, IsSizes(f, s)
    PROVE  Total(s) = f[Len(s)] /\ Total(s) \in Nat
<1>1. PICK g : IsSizes(g, s) /\ Total(s) = g[Len(s)]
  BY TotalOfPrefixes
<1>2. \A k \in 0..Len(s) : f[k] = g[k]
  BY <1>1, SizesAreUnique
<1>3. Len(s) \in 0..Len(s) /\ g[Len(s)] \in Nat
  BY <1>1 DEF IsSizes
<1>4. QED
  BY <1>1, <1>2, <1>3

LEMMA SizesAreNumbers ==
    ASSUME NEW V, NEW s \in Seq(Seq(V)), NEW f, IsSizes(f, s)
    PROVE  /\ Len(s) \in Nat
           /\ \A k \in 0..Len(s) : f[k] \in Nat
           /\ \A k \in 1..Len(s) : s[k] \in Seq(V) /\ Len(s[k]) \in Nat
<1>1. Len(s) \in Nat /\ \A k \in 1..Len(s) : s[k] \in Seq(V)
  OBVIOUS
<1>2. \A k \in 1..Len(s) : Len(s[k]) \in Nat
  BY <1>1
<1>3. \A k \in 0..Len(s) : f[k] \in Nat
  BY DEF IsSizes
<1>4. QED
  BY <1>1, <1>2, <1>3

\* RemoveAt, element by element.
LEMMA Removal ==
    ASSUME NEW S, NEW s \in Seq(S), NEW k \in 1..Len(s)
    PROVE  /\ RemoveAt(s, k) \in Seq(S)
           /\ Len(RemoveAt(s, k)) = Len(s) - 1
           /\ \A i \in 1..Len(s) - 1 :
                 RemoveAt(s, k)[i] = IF i < k THEN s[i] ELSE s[i + 1]
<1> DEFINE a == SubSeq(s, 1, k - 1)
           b == SubSeq(s, k + 1, Len(s))
<1>1. /\ a \in Seq(S) /\ Len(a) = k - 1
      /\ \A i \in 1..k - 1 : a[i] = s[i]
  OBVIOUS
<1>2. /\ b \in Seq(S) /\ Len(b) = Len(s) - k
      /\ \A i \in 1..Len(s) - k : b[i] = s[i + k]
  OBVIOUS
<1>3. RemoveAt(s, k) = a \o b
  BY DEF RemoveAt
<1> HIDE DEF a, b
<1>4. /\ a \o b \in Seq(S) /\ Len(a \o b) = Len(s) - 1
      /\ \A i \in 1..Len(a \o b) :
            (a \o b)[i] = IF i <= Len(a) THEN a[i] ELSE b[i - Len(a)]
  <2>1. /\ a \o b \in Seq(S) /\ Len(a \o b) = Len(a) + Len(b)
        /\ \A i \in 1..Len(a) + Len(b) :
              (a \o b)[i] = IF i <= Len(a) THEN a[i] ELSE b[i - Len(a)]
    BY <1>1, <1>2, ConcatProperties
  <2>2. Len(a) + Len(b) = Len(s) - 1
    BY <1>1, <1>2
  <2>3. QED
    BY <2>1, <2>2
<1>5. ASSUME NEW i \in 1..Len(s) - 1
      PROVE  RemoveAt(s, k)[i] = IF i < k THEN s[i] ELSE s[i + 1]
  <2>1. CASE i < k
    BY <1>1, <1>3, <1>4, <2>1
  <2>2. CASE i >= k
    <3>1. i - (k - 1) \in 1..Len(s) - k
      BY <2>2
    <3>2. b[i - (k - 1)] = s[i + 1]
      <4>1. b[i - (k - 1)] = s[(i - (k - 1)) + k]
        BY <1>2, <3>1
      <4>2. (i - (k - 1)) + k = i + 1
        OBVIOUS
      <4>3. QED
        BY <4>1, <4>2
    <3>3. QED
      BY <1>1, <1>3, <1>4, <2>2, <3>2
  <2>3. QED
    BY <2>1, <2>2
<1>6. QED
  BY <1>3, <1>4, <1>5

LEMMA TotalOfAppend ==
    ASSUME NEW V, NEW s \in Seq(Seq(V)), NEW c \in Seq(V)
    PROVE  Total(Append(s, c)) = Total(s) + Len(c)
<1>1. PICK f : IsSizes(f, s)
  BY TotalOfPrefixes
<1> DEFINE n == Len(s)
           g == [k \in 0..n + 1 |-> IF k = n + 1 THEN f[n] + Len(c) ELSE f[k]]
<1>2. Append(s, c) \in Seq(Seq(V)) /\ Len(Append(s, c)) = n + 1 /\ n \in Nat
  OBVIOUS
<1>3. IsSizes(g, Append(s, c))
  <2>1. \A k \in 1..n : Append(s, c)[k] = s[k]
    OBVIOUS
  <2>2. Append(s, c)[n + 1] = c
    OBVIOUS
  <2>3. f[n] \in Nat /\ Len(c) \in Nat /\ \A k \in 0..n : f[k] \in Nat
    BY <1>1, <1>2, SizesAreNumbers
  <2>4. g \in [0..n + 1 -> Nat] /\ g[0] = 0
    BY <1>1, <2>3 DEF IsSizes
  <2>5. ASSUME NEW k \in 1..n + 1
        PROVE  g[k] = g[k - 1] + Len(Append(s, c)[k])
    <3>1. CASE k = n + 1
      BY <2>2, <3>1
    <3>2. CASE k # n + 1
      BY <1>1, <2>1, <3>2 DEF IsSizes
    <3>3. QED
      BY <3>1, <3>2
  <2> HIDE DEF g
  <2>6. QED
    BY <1>2, <2>4, <2>5 DEF IsSizes
<1>4. g[n + 1] = f[n] + Len(c)
  OBVIOUS
<1>5. Total(s) = f[n]
  BY <1>1, TotalIs
<1>6. Total(Append(s, c)) = g[Len(Append(s, c))]
  <2> HIDE DEF g
  <2> QED
    BY <1>2, <1>3, TotalIs
<1>7. QED
  BY <1>2, <1>4, <1>5, <1>6

LEMMA TotalOfRemoval ==
    ASSUME NEW V, NEW s \in Seq(Seq(V)), NEW k \in 1..Len(s)
    PROVE  Total(RemoveAt(s, k)) = Total(s) - Len(s[k])
<1>1. PICK f : IsSizes(f, s)
  BY TotalOfPrefixes
<1> DEFINE n == Len(s)
           t == RemoveAt(s, k)
           g == [i \in 0..n - 1 |-> IF i < k THEN f[i] ELSE f[i + 1] - Len(s[k])]
<1>2. /\ t \in Seq(Seq(V)) /\ Len(t) = n - 1 /\ n \in Nat
      /\ \A i \in 1..n - 1 : t[i] = IF i < k THEN s[i] ELSE s[i + 1]
  BY Removal
<1>3. \A i \in 1..n : Len(s[i]) \in Nat
  BY <1>1, SizesAreNumbers
<1>4. /\ \A i \in 0..n : f[i] \in Nat
      /\ f[0] = 0 /\ k \in 1..n
      /\ \A i \in 1..n : f[i] = f[i - 1] + Len(s[i])
  <2>1. \A i \in 0..n : f[i] \in Nat
    BY <1>1, SizesAreNumbers
  <2>2. QED
    BY <1>1, <2>1 DEF IsSizes
<1>5. /\ g[0] = 0
      /\ \A i \in 0..n - 1 : g[i] = IF i < k THEN f[i] ELSE f[i + 1] - Len(s[k])
  <2>1. 0 \in 0..n - 1 /\ 0 < k
    BY <1>2, <1>4
  <2>2. g[0] = f[0]
    BY <2>1
  <2>3. QED
    BY <1>4, <2>2
<1>6. g = [i \in 0..n - 1 |-> g[i]]
  OBVIOUS
<1> HIDE DEF t, g, n
<1>7. ASSUME NEW i \in 1..n - 1
      PROVE  g[i] = g[i - 1] + Len(t[i])
  <2>a. /\ g[i] = IF i < k THEN f[i] ELSE f[i + 1] - Len(s[k])
        /\ g[i - 1] = IF i - 1 < k THEN f[i - 1] ELSE f[(i - 1) + 1] - Len(s[k])
        /\ i \in 1..n /\ i + 1 \in 1..n
    BY <1>2, <1>5
  <2>1. f[i] = f[i - 1] + Len(s[i]) /\ f[i + 1] = f[(i + 1) - 1] + Len(s[i + 1])
    BY <1>4, <2>a
  <2>2. f[i] \in Nat /\ f[i - 1] \in Nat /\ f[i + 1] \in Nat
    <3>1. i \in 0..n /\ i - 1 \in 0..n /\ i + 1 \in 0..n
      BY <1>2
    <3>2. QED
      BY <1>4, <3>1
  <2>3. (i - 1) + 1 = i /\ (i + 1) - 1 = i /\ i \in Int /\ k \in Int
    BY <1>2, <1>4
  <2>4. CASE i < k
    BY <1>2, <2>a, <2>1, <2>3, <2>4
  <2>5. CASE i = k
    <3>1. g[i] = f[i + 1] - Len(s[k]) /\ g[i - 1] = f[i - 1] /\ t[i] = s[i + 1]
      BY <1>2, <2>a, <2>5
    <3>2. f[i + 1] = f[i] + Len(s[i + 1]) /\ f[i] = f[i - 1] + Len(s[k])
      BY <2>1, <2>3, <2>5
    <3>3. Len(s[k]) \in Nat /\ Len(s[i + 1]) \in Nat
      BY <1>3, <1>4, <2>a
    <3> DEFINE a == f[i - 1]
               b == Len(s[k])
               d == Len(s[i + 1])
    <3>4. g[i] = ((a + b) + d) - b /\ g[i - 1] = a /\ Len(t[i]) = d
      BY <3>1, <3>2
    <3>5. a \in Nat /\ b \in Nat /\ d \in Nat
      BY <2>2, <3>3
    <3> HIDE DEF a, b, d
    <3>6. ((a + b) + d) - b = a + d
      BY <3>5
    <3>7. QED
      BY <3>4, <3>6 DEF d
  <2>6. CASE i > k
    <3>1. g[i] = f[i + 1] - Len(s[k]) /\ g[i - 1] = f[i] - Len(s[k]) /\ t[i] = s[i + 1]
      BY <1>2, <2>a, <2>3, <2>6
    <3>2. f[i + 1] = f[i] + Len(s[i + 1])
      BY <2>1, <2>3
    <3>3. Len(s[k]) \in Nat /\ Len(s[i + 1]) \in Nat
      BY <1>3, <1>4, <2>a
    <3>4. QED
      BY <2>2, <3>1, <3>2, <3>3
  <2>7. QED
    BY <2>3, <2>4, <2>5, <2>6
<1>8. \A i \in 0..n - 1 : g[i] \in Nat
  <2> DEFINE T == {i \in 0..n - 1 : g[i] \in Nat}
             m == n - 1
  <2>1. 0 \in T /\ m \in Nat
    BY <1>2, <1>4, <1>5
  <2>2. ASSUME NEW i \in 1..m, i - 1 \in T
        PROVE  i \in T
    <3>1. t[i] \in Seq(V)
      BY <1>2
    <3>2. g[i - 1] \in Nat /\ Len(t[i]) \in Nat /\ g[i] = g[i - 1] + Len(t[i])
      BY <1>7, <2>2, <3>1
    <3>3. QED
      BY <3>2
  <2>3. 0..m \subseteq T
    <3> HIDE DEF T, m
    <3> QED
      BY <2>1, <2>2, UpTo
  <2>4. QED
    BY <2>3
<1>9. IsSizes(g, t)
  <2>1. g \in [0..n - 1 -> Nat]
    BY <1>6, <1>8
  <2>2. QED
    BY <1>2, <1>5, <1>7, <2>1 DEF IsSizes
<1>10. g[n - 1] = f[n] - Len(s[k])
  <2>1. CASE k = n
    <3>1. n - 1 \in 0..n - 1 /\ n - 1 < k
      BY <1>2, <1>4, <2>1
    <3>2. g[n - 1] = f[n - 1] /\ f[n] = f[n - 1] + Len(s[k])
      BY <1>4, <1>5, <2>1, <3>1
    <3>3. f[n - 1] \in Nat /\ Len(s[k]) \in Nat
      BY <1>2, <1>3, <1>4
    <3>4. QED
      BY <3>2, <3>3
  <2>2. CASE k < n
    <3>1. n - 1 \in 0..n - 1 /\ ~(n - 1 < k) /\ (n - 1) + 1 = n
      BY <1>2, <1>4, <2>2
    <3>2. QED
      BY <1>5, <3>1
  <2>3. QED
    BY <1>2, <1>4, <2>1, <2>2
<1>11. Total(s) = f[n]
  BY <1>1, TotalIs DEF n
<1>12. Total(t) = g[Len(t)]
  BY <1>2, <1>9, TotalIs
<1>13. QED
  BY <1>2, <1>10, <1>11, <1>12 DEF t

\* The sizes of a prefix and of the rest.
LEMMA TotalOfParts ==
    ASSUME NEW V, NEW s \in Seq(Seq(V)), NEW f, IsSizes(f, s), NEW k \in 0..Len(s)
    PROVE  /\ Total(SubSeq(s, 1, k)) = f[k]
           /\ Total(SubSeq(s, k + 1, Len(s))) = f[Len(s)] - f[k]
<1> DEFINE n == Len(s)
           a == SubSeq(s, 1, k)
           b == SubSeq(s, k + 1, n)
           g == [i \in 0..k |-> f[i]]
           h == [i \in 0..n - k |-> f[i + k] - f[k]]
<1>1. /\ \A i \in 0..n : f[i] \in Nat
      /\ f[0] = 0 /\ n \in Nat /\ k \in 0..n
      /\ \A i \in 1..n : f[i] = f[i - 1] + Len(s[i])
  <2>1. n \in Nat /\ \A i \in 0..n : f[i] \in Nat
    BY SizesAreNumbers
  <2>2. QED
    BY <2>1 DEF IsSizes
<1>2. a \in Seq(Seq(V)) /\ Len(a) = k /\ \A i \in 1..k : a[i] = s[i]
  OBVIOUS
<1>3. b \in Seq(Seq(V)) /\ Len(b) = n - k /\ \A i \in 1..n - k : b[i] = s[i + k]
  OBVIOUS
<1>4. /\ \A i \in 0..k : g[i] = f[i]
      /\ g = [i \in 0..k |-> g[i]]
      /\ \A i \in 0..n - k : h[i] = f[i + k] - f[k]
      /\ h = [i \in 0..n - k |-> h[i]]
  OBVIOUS
<1> HIDE DEF a, b, g, h, n
<1>5. IsSizes(g, a)
  <2>1. \A i \in 0..k : i \in 0..n /\ g[i] \in Nat
    BY <1>1, <1>4
  <2>2. g \in [0..k -> Nat]
    BY <1>4, <2>1
  <2>3. ASSUME NEW i \in 1..k
        PROVE  g[i] = g[i - 1] + Len(a[i])
    <3>1. i \in 0..k /\ i - 1 \in 0..k /\ i \in 1..n
      BY <1>1
    <3>2. QED
      BY <1>1, <1>2, <1>4, <3>1
  <2>4. g[0] = 0
    BY <1>1, <1>4
  <2>5. QED
    BY <1>2, <2>2, <2>3, <2>4 DEF IsSizes
<1>6. ASSUME NEW i \in 1..n - k
      PROVE  h[i] = h[i - 1] + Len(b[i]) /\ Len(b[i]) \in Nat
  <2>1. /\ i \in 0..n - k /\ i - 1 \in 0..n - k /\ i + k \in 1..n
        /\ i + k \in 0..n /\ (i - 1) + k \in 0..n /\ (i + k) - 1 = (i - 1) + k
    BY <1>1
  <2>2. f[i + k] = f[(i - 1) + k] + Len(b[i])
    <3>1. f[i + k] = f[(i + k) - 1] + Len(s[i + k])
      BY <1>1, <2>1
    <3>2. QED
      BY <1>3, <2>1, <3>1
  <2>3. b[i] \in Seq(V)
    BY <1>3
  <2>4. f[i + k] \in Nat /\ f[(i - 1) + k] \in Nat /\ f[k] \in Nat /\ Len(b[i]) \in Nat
    BY <1>1, <2>1, <2>3
  <2>5. h[i] = f[i + k] - f[k] /\ h[i - 1] = f[(i - 1) + k] - f[k]
    BY <1>4, <2>1
  <2>6. QED
    BY <2>2, <2>4, <2>5
<1>7. h[0] = 0
  <2>1. 0 \in 0..n - k /\ 0 + k = k /\ f[k] \in Nat
    BY <1>1
  <2>2. QED
    BY <1>4, <2>1
<1>8. \A i \in 0..n - k : h[i] \in Nat
  <2> DEFINE T == {i \in 0..n - k : h[i] \in Nat}
             m == n - k
  <2>1. 0 \in T /\ m \in Nat
    BY <1>1, <1>7
  <2>2. ASSUME NEW i \in 1..m, i - 1 \in T
        PROVE  i \in T
    BY <1>6, <2>2
  <2>3. 0..m \subseteq T
    <3> HIDE DEF T, m
    <3> QED
      BY <2>1, <2>2, UpTo
  <2>4. QED
    BY <2>3
<1>9. IsSizes(h, b)
  <2>1. h \in [0..n - k -> Nat]
    BY <1>4, <1>8
  <2>2. QED
    BY <1>3, <1>6, <1>7, <2>1 DEF IsSizes
<1>10. Total(a) = g[Len(a)]
  BY <1>2, <1>5, TotalIs
<1>11. Total(b) = h[Len(b)]
  BY <1>3, <1>9, TotalIs
<1>12. g[k] = f[k] /\ h[n - k] = f[n] - f[k]
  <2>1. k \in 0..k /\ n - k \in 0..n - k /\ (n - k) + k = n
    BY <1>1
  <2>2. QED
    BY <1>4, <2>1
<1>13. QED
  BY <1>2, <1>3, <1>10, <1>11, <1>12 DEF a, b, n

-----------------------------------------------------------------------------
(* The cache *)

Bytes == Range(Header) \union (UNION {Range(x) : x \in Contents})

Item == [chunk : Chunks, entry : Entry]
CacheState == [items : Seq(Item), bytes : Nat]

ChunksOf(x) == Range(SplitOf[x])

ChunksIn(items) == [i \in DOMAIN items |-> items[i].chunk]

IsDistinct(items) ==
    \A i, j \in DOMAIN items : items[i].chunk = items[j].chunk => i = j

IsAccounted(mem) ==
    /\ mem \in CacheState
    /\ IsDistinct(mem.items)
    /\ mem.bytes = Total(ChunksIn(mem.items))

IsSound(mem) == IsAccounted(mem) /\ mem.bytes <= MaxCacheBytes

LEMMA ChunkTypes ==
    /\ \A x \in Contents : /\ SplitOf[x] \in Seq(Seq(Bytes))
                           /\ \A i \in DOMAIN SplitOf[x] : SplitOf[x][i] \in Chunks
    /\ \A c \in Chunks : c \in Seq(Bytes) /\ c # << >> /\ Len(c) \in Nat /\ Len(c) > 0
<1>1. ASSUME NEW x \in Contents
      PROVE  SplitOf[x] \in Seq(Seq(Bytes))
  <2>1. SplitOf[x] \in Seq(Seq(Range(x))) /\ Range(x) \subseteq Bytes
    BY SplitAssumption DEF Bytes
  <2>2. Seq(Range(x)) \subseteq Seq(Bytes)
    BY <2>1, SeqMonotonic
  <2>3. Seq(Seq(Range(x))) \subseteq Seq(Seq(Bytes))
    BY <2>2, SeqMonotonic
  <2>4. QED
    BY <2>1, <2>3
<1>2. ASSUME NEW x \in Contents, NEW i \in DOMAIN SplitOf[x]
      PROVE  SplitOf[x][i] \in Chunks
  BY DEF Chunks, Range
<1>3. ASSUME NEW c \in Chunks
      PROVE  c \in Seq(Bytes) /\ c # << >> /\ Len(c) \in Nat /\ Len(c) > 0
  <2>1. PICK x \in Contents : c \in Range(SplitOf[x])
    BY DEF Chunks
  <2>2. PICK i \in DOMAIN SplitOf[x] : c = SplitOf[x][i]
    BY <2>1 DEF Range
  <2>3. c \in Seq(Bytes)
    BY <1>1, <2>2, ElementOfSeq
  <2>4. c # << >>
    BY <2>1, SplitAssumption
  <2>5. QED
    BY <2>3, <2>4
<1>4. QED
  BY <1>1, <1>2, <1>3

LEMMA ChunksInTypes ==
    ASSUME NEW items \in Seq(Item)
    PROVE  /\ ChunksIn(items) \in Seq(Seq(Bytes)) /\ Len(ChunksIn(items)) = Len(items)
           /\ \A i \in 1..Len(items) : /\ ChunksIn(items)[i] = items[i].chunk
                                       /\ items[i] \in Item /\ items[i].chunk \in Chunks
<1>1. DOMAIN items = 1..Len(items) /\ Len(items) \in Nat
  OBVIOUS
<1>2. \A i \in 1..Len(items) : items[i] \in Item /\ items[i].chunk \in Chunks
  <2>1. \A i \in 1..Len(items) : items[i] \in Item
    OBVIOUS
  <2>2. QED
    BY <2>1 DEF Item
<1>3. ChunksIn(items) \in [1..Len(items) -> Seq(Bytes)]
  BY <1>1, <1>2, ChunkTypes DEF ChunksIn
<1>4. ChunksIn(items) \in Seq(Seq(Bytes)) /\ Len(ChunksIn(items)) = Len(items)
  BY <1>1, <1>3
<1>5. \A i \in 1..Len(items) : ChunksIn(items)[i] = items[i].chunk
  BY <1>1 DEF ChunksIn
<1>6. QED
  BY <1>2, <1>4, <1>5

LEMMA MinOfNumbers ==
    ASSUME NEW S, S \subseteq Nat, S # {}
    PROVE  Min(S) \in S /\ \A y \in S : Min(S) <= y
<1>1. \E x \in S : \A y \in S : x <= y
  BY LeastNumber
<1>2. QED
  BY <1>1 DEF Min

\* Popping a chunk takes it, and nothing else, away.
LEMMA Popping ==
    ASSUME NEW items \in Seq(Item), IsDistinct(items), NEW c
    PROVE  /\ Popped(items, c) \in Seq(Item) /\ IsDistinct(Popped(items, c))
           /\ \A i \in DOMAIN Popped(items, c) : Popped(items, c)[i].chunk # c
           /\ Total(ChunksIn(Popped(items, c))) =
                 Total(ChunksIn(items)) - IF \E i \in DOMAIN items : items[i].chunk = c
                                          THEN Len(c) ELSE 0
<1> DEFINE n == Len(items)
           w == Popped(items, c)
<1>1. n \in Nat /\ DOMAIN items = 1..n
  OBVIOUS
<1>2. CASE \A i \in 1..n : items[i].chunk # c
  <2>1. w = items
    BY <1>2 DEF Popped, RemoveFirstMatch
  <2>2. Total(ChunksIn(items)) \in Nat
    <3>1. ChunksIn(items) \in Seq(Seq(Bytes))
      BY ChunksInTypes
    <3>2. PICK f : IsSizes(f, ChunksIn(items))
      BY <3>1, TotalOfPrefixes
    <3>3. QED
      BY <3>1, <3>2, TotalIs
  <2>3. QED
    BY <1>1, <1>2, <2>1, <2>2
<1>3. CASE \E i \in 1..n : items[i].chunk = c
  <2> DEFINE I == {i \in 1..n : items[i].chunk = c}
             k == Min(I)
  <2>1. k \in I
    <3>1. I \subseteq Nat /\ I # {}
      BY <1>3
    <3>2. QED
      BY <3>1, MinOfNumbers
  <2>2. w = RemoveAt(items, k)
    <3>1. SelectInSeq(items, LAMBDA i : i.chunk = c) = k
      BY <1>3 DEF SelectInSeq
    <3>2. QED
      BY <1>3, <3>1 DEF Popped, RemoveFirstMatch
  <2>3. k \in 1..n /\ items[k].chunk = c
    BY <2>1
  <2> HIDE DEF k
  <2>4. /\ w \in Seq(Item) /\ Len(w) = n - 1
        /\ \A i \in 1..n - 1 : w[i] = IF i < k THEN items[i] ELSE items[i + 1]
    BY <2>2, <2>3, Removal
  <2>5. DOMAIN w = 1..n - 1
    BY <2>4
  <2>6. ChunksIn(w) = RemoveAt(ChunksIn(items), k)
    <3> DEFINE u == RemoveAt(ChunksIn(items), k)
    <3>1. ChunksIn(items) \in Seq(Seq(Bytes)) /\ Len(ChunksIn(items)) = n
      BY ChunksInTypes
    <3>2. /\ u \in Seq(Seq(Bytes)) /\ Len(u) = n - 1
          /\ \A i \in 1..n - 1 :
                u[i] = IF i < k THEN ChunksIn(items)[i] ELSE ChunksIn(items)[i + 1]
      BY <2>3, <3>1, Removal
    <3>3. ASSUME NEW i \in 1..n - 1
          PROVE  ChunksIn(w)[i] = u[i]
      <4>1. i \in 1..n /\ i + 1 \in 1..n
        BY <1>1
      <4>2. ChunksIn(w)[i] = w[i].chunk
        BY <2>4, ChunksInTypes
      <4>3. /\ ChunksIn(items)[i] = items[i].chunk
            /\ ChunksIn(items)[i + 1] = items[i + 1].chunk
        BY <4>1, ChunksInTypes
      <4>4. QED
        BY <2>4, <3>2, <4>2, <4>3
    <3>4. ChunksIn(w) \in Seq(Seq(Bytes)) /\ Len(ChunksIn(w)) = n - 1
      BY <2>4, ChunksInTypes
    <3> HIDE DEF u, w
    <3>5. ChunksIn(w) = u
      BY <3>2, <3>3, <3>4, SeqEqual
    <3>6. QED
      BY <3>5 DEF u, w
  <2>7. Total(ChunksIn(w)) = Total(ChunksIn(items)) - Len(c)
    <3>1. /\ ChunksIn(items) \in Seq(Seq(Bytes)) /\ Len(ChunksIn(items)) = n
          /\ ChunksIn(items)[k] = c
      BY <2>3, ChunksInTypes
    <3>2. QED
      BY <2>3, <2>6, <3>1, TotalOfRemoval
  <2>8. ASSUME NEW i \in 1..n - 1
        PROVE  /\ w[i].chunk # c
               /\ \A j \in 1..n - 1 : w[i].chunk = w[j].chunk => i = j
    <3> DEFINE Old(l) == IF l < k THEN l ELSE l + 1
    <3>1. \A l \in 1..n - 1 : Old(l) \in 1..n /\ Old(l) # k /\ w[l] = items[Old(l)]
      BY <1>1, <2>3, <2>4
    <3>2. \A l \in 1..n - 1 : \A m \in 1..n - 1 : Old(l) = Old(m) => l = m
      BY <1>1, <2>3
    <3>3. \A l, m \in 1..n : items[l].chunk = items[m].chunk => l = m
      BY <1>1 DEF IsDistinct
    <3> HIDE DEF Old, w
    <3>4. QED
      BY <2>3, <3>1, <3>2, <3>3
  <2>9. QED
    BY <1>1, <1>3, <2>4, <2>5, <2>7, <2>8 DEF IsDistinct
<1>4. QED
  BY <1>2, <1>3

\* Whatever is appended counts.
LEMMA Appending ==
    ASSUME NEW items \in Seq(Item), IsDistinct(items), NEW item \in Item,
           \A i \in DOMAIN items : items[i].chunk # item.chunk
    PROVE  /\ Append(items, item) \in Seq(Item) /\ IsDistinct(Append(items, item))
           /\ Total(ChunksIn(Append(items, item))) =
                 Total(ChunksIn(items)) + Len(item.chunk)
<1> DEFINE n == Len(items)
           w == Append(items, item)
<1>1. n \in Nat /\ DOMAIN items = 1..n
  OBVIOUS
<1>2. /\ w \in Seq(Item) /\ Len(w) = n + 1 /\ w[n + 1] = item
      /\ \A i \in 1..n : w[i] = items[i]
  OBVIOUS
<1>3. DOMAIN w = 1..n + 1
  BY <1>2
<1> HIDE DEF w
<1>4. IsDistinct(w)
  <2>1. ASSUME NEW i \in 1..n + 1, NEW j \in 1..n + 1, w[i].chunk = w[j].chunk
        PROVE  i = j
    <3>1. CASE i = n + 1 /\ j # n + 1
      BY <1>1, <1>2, <2>1, <3>1
    <3>2. CASE j = n + 1 /\ i # n + 1
      BY <1>1, <1>2, <2>1, <3>2
    <3>3. CASE i # n + 1 /\ j # n + 1
      <4>1. i \in 1..n /\ j \in 1..n
        BY <1>1, <3>3
      <4>2. QED
        BY <1>1, <1>2, <2>1, <4>1 DEF IsDistinct
    <3>4. QED
      BY <3>1, <3>2, <3>3
  <2>2. QED
    BY <1>3, <2>1 DEF IsDistinct
<1>5. ChunksIn(w) = Append(ChunksIn(items), item.chunk)
  <2> DEFINE u == Append(ChunksIn(items), item.chunk)
  <2>1. ChunksIn(items) \in Seq(Seq(Bytes)) /\ Len(ChunksIn(items)) = n
    BY ChunksInTypes
  <2>2. item.chunk \in Seq(Bytes)
    BY ChunkTypes DEF Item
  <2>3. /\ u \in Seq(Seq(Bytes)) /\ Len(u) = n + 1 /\ u[n + 1] = item.chunk
        /\ \A i \in 1..n : u[i] = ChunksIn(items)[i]
    BY <2>1, <2>2, AppendProperties
  <2>4. /\ ChunksIn(w) \in Seq(Seq(Bytes)) /\ Len(ChunksIn(w)) = n + 1
        /\ \A i \in 1..n + 1 : ChunksIn(w)[i] = w[i].chunk
    BY <1>2, ChunksInTypes
  <2>5. \A i \in 1..n : ChunksIn(items)[i] = items[i].chunk
    BY ChunksInTypes
  <2> HIDE DEF u
  <2>6. ASSUME NEW i \in 1..n + 1
        PROVE  ChunksIn(w)[i] = u[i]
    <3>1. CASE i = n + 1
      BY <1>2, <2>3, <2>4, <3>1
    <3>2. CASE i # n + 1
      <4>1. i \in 1..n
        BY <1>1, <3>2
      <4>2. QED
        BY <1>2, <2>3, <2>4, <2>5, <4>1
    <3>3. QED
      BY <3>1, <3>2
  <2>7. ChunksIn(w) = u
    BY <2>3, <2>4, <2>6, SeqEqual
  <2>8. QED
    BY <2>7 DEF u
<1>6. Total(ChunksIn(w)) = Total(ChunksIn(items)) + Len(item.chunk)
  <2>1. ChunksIn(items) \in Seq(Seq(Bytes)) /\ item.chunk \in Seq(Bytes)
    BY ChunksInTypes, ChunkTypes DEF Item
  <2>2. QED
    BY <1>5, <2>1, TotalOfAppend
<1>7. QED
  BY <1>2, <1>4, <1>6 DEF w

\* The oldest items leave until the budget is kept.
Prefix(items, k) == Total([i \in 1..k |-> items[i].chunk])

Evicted(items) ==
    Min({k \in 0..Len(items) :
            \/ Total(ChunksIn(items)) - Prefix(items, k) <= MaxCacheBytes
            \/ k = Len(items)})

LEMMA Evicting ==
    ASSUME NEW items \in Seq(Item), IsDistinct(items), NEW gone, gone = Evicted(items)
    PROVE  IsSound([items |-> SubSeq(items, gone + 1, Len(items)),
                    bytes |-> Total(ChunksIn(items)) - Prefix(items, gone)])
<1> DEFINE n == Len(items)
           s == ChunksIn(items)
           w == SubSeq(items, gone + 1, n)
           Goes(k) == Total(s) - Prefix(items, k) <= MaxCacheBytes \/ k = n
<1>1. /\ n \in Nat /\ DOMAIN items = 1..n
      /\ s \in Seq(Seq(Bytes)) /\ Len(s) = n
      /\ \A i \in 1..n : s[i] = items[i].chunk
  BY ChunksInTypes
<1> HIDE DEF s
<1>2. gone \in 0..n /\ Goes(gone)
  <2> DEFINE S == {k \in 0..n : Goes(k)}
  <2>1. S \subseteq Nat /\ S # {}
    <3>1. n \in 0..n /\ Goes(n)
      BY <1>1
    <3>2. QED
      BY <1>1, <3>1
  <2>2. gone = Min(S)
    BY DEF Evicted, s
  <2> HIDE DEF S, Goes
  <2>3. gone \in S
    BY <2>1, <2>2, MinOfNumbers
  <2>4. QED
    BY <2>3 DEF S
<1> HIDE DEF Goes, n
<1>3. Prefix(items, gone) = Total(SubSeq(s, 1, gone))
  <2> DEFINE a == [i \in 1..gone |-> items[i].chunk]
             b == SubSeq(s, 1, gone)
  <2>1. b \in Seq(Seq(Bytes)) /\ Len(b) = gone /\ \A i \in 1..gone : b[i] = s[i]
    BY <1>1, <1>2
  <2>2. \A i \in 1..gone : i \in 1..n
    BY <1>1, <1>2
  <2>3. DOMAIN b = 1..gone /\ b = [i \in DOMAIN b |-> b[i]]
    BY <2>1
  <2>4. a = b
    <3> HIDE DEF b, s
    <3>1. \A i \in 1..gone : items[i].chunk = b[i]
      BY <1>1, <2>1, <2>2
    <3>2. QED
      BY <2>3, <3>1
  <2>5. QED
    BY <2>4 DEF Prefix
<1>4. PICK f : IsSizes(f, s)
  BY <1>1, TotalOfPrefixes
<1>5. /\ Total(s) = f[n]
      /\ Total(SubSeq(s, 1, gone)) = f[gone]
      /\ Total(SubSeq(s, gone + 1, n)) = f[n] - f[gone]
  <2>1. gone \in 0..Len(s)
    BY <1>1, <1>2
  <2>2. Total(s) = f[Len(s)]
    BY <1>1, <1>4, TotalIs
  <2>3. /\ Total(SubSeq(s, 1, gone)) = f[gone]
        /\ Total(SubSeq(s, gone + 1, Len(s))) = f[Len(s)] - f[gone]
    BY <1>1, <1>4, <2>1, TotalOfParts
  <2>4. QED
    BY <1>1, <2>2, <2>3
<1>6. w \in Seq(Item) /\ Len(w) = n - gone /\ \A i \in 1..n - gone : w[i] = items[i + gone]
  BY <1>1, <1>2 DEF n
<1> HIDE DEF w
<1>7. DOMAIN w = 1..n - gone
  BY <1>6
<1>8. IsDistinct(w)
  <2>1. ASSUME NEW i \in 1..n - gone, NEW j \in 1..n - gone, w[i].chunk = w[j].chunk
        PROVE  i = j
    <3>1. i + gone \in 1..n /\ j + gone \in 1..n
      BY <1>1, <1>2
    <3>2. items[i + gone].chunk = items[j + gone].chunk
      BY <1>6, <2>1
    <3>3. i + gone = j + gone
      BY <1>1, <3>1, <3>2 DEF IsDistinct
    <3>4. QED
      BY <1>2, <3>3
  <2>2. QED
    BY <1>7, <2>1 DEF IsDistinct
<1>9. ChunksIn(w) = SubSeq(s, gone + 1, n)
  <2> DEFINE u == SubSeq(s, gone + 1, n)
  <2>1. u \in Seq(Seq(Bytes)) /\ Len(u) = n - gone /\ \A i \in 1..n - gone : u[i] = s[i + gone]
    BY <1>1, <1>2
  <2>2. /\ ChunksIn(w) \in Seq(Seq(Bytes)) /\ Len(ChunksIn(w)) = n - gone
        /\ \A i \in 1..n - gone : ChunksIn(w)[i] = w[i].chunk
    BY <1>6, ChunksInTypes
  <2>3. ASSUME NEW i \in 1..n - gone
        PROVE  ChunksIn(w)[i] = u[i]
    <3>1. i + gone \in 1..n
      BY <1>1, <1>2
    <3>2. s[i + gone] = items[i + gone].chunk
      BY <1>1, <3>1
    <3> HIDE DEF u
    <3>3. QED
      BY <1>6, <2>1, <2>2, <3>2
  <2> HIDE DEF u
  <2>4. ChunksIn(w) = u
    BY <2>1, <2>2, <2>3, SeqEqual
  <2>5. QED
    BY <2>4 DEF u
<1>10. Total(s) - Prefix(items, gone) = Total(ChunksIn(w))
  BY <1>3, <1>5, <1>9
<1>11. Total(ChunksIn(w)) \in Nat
  <2>1. ChunksIn(w) \in Seq(Seq(Bytes))
    BY <1>6, ChunksInTypes
  <2>2. PICK g : IsSizes(g, ChunksIn(w))
    BY <2>1, TotalOfPrefixes
  <2>3. QED
    BY <2>1, <2>2, TotalIs
<1>12. Total(ChunksIn(w)) <= MaxCacheBytes
  <2>1. CASE gone = n
    <3>1. f[n] - f[gone] = 0
      <4>1. f[n] \in Nat
        BY <1>1, <1>4, SizesAreNumbers
      <4>2. QED
        BY <2>1, <4>1
    <3>2. QED
      BY <1>3, <1>5, <1>10, <3>1, BoundsAssumption DEF n
  <2>2. CASE gone # n
    BY <1>2, <1>10, <2>2 DEF Goes
  <2>3. QED
    BY <2>1, <2>2
<1> DEFINE mem == [items |-> w, bytes |-> Total(s) - Prefix(items, gone)]
<1>13. mem.items = w /\ mem.bytes = Total(ChunksIn(w)) /\ mem \in CacheState
  BY <1>6, <1>10, <1>11 DEF CacheState
<1> HIDE DEF mem
<1>14. IsSound(mem)
  BY <1>8, <1>12, <1>13 DEF IsSound, IsAccounted
<1>15. QED
  BY <1>14 DEF mem, w, s, n

\* _remember_recent_chunk_bytes keeps the books.
LEMMA Remembering ==
    ASSUME NEW mem, IsSound(mem), NEW c \in Chunks, NEW e \in Entry
    PROVE  IsSound(Remember(mem, c, e))
<1> DEFINE w == Popped(mem.items, c)
           item == [chunk |-> c, entry |-> e]
           items == Append(w, item)
           bytes == Forget(mem, c).bytes + Len(c)
           without(k) == Total([i \in 1 .. k |-> items[i].chunk])
           gone == Min({k \in 0 .. Len(items) :
                           bytes - without(k) <= MaxCacheBytes \/ k = Len(items)})
<1>1. mem.items \in Seq(Item) /\ IsDistinct(mem.items) /\ mem.bytes = Total(ChunksIn(mem.items))
  BY DEF IsSound, IsAccounted, CacheState
<1>2. /\ w \in Seq(Item) /\ IsDistinct(w)
      /\ \A i \in DOMAIN w : w[i].chunk # c
      /\ Total(ChunksIn(w)) = Total(ChunksIn(mem.items)) -
            IF \E i \in DOMAIN mem.items : mem.items[i].chunk = c THEN Len(c) ELSE 0
  BY <1>1, Popping
<1>3. Forget(mem, c).items = w /\ Forget(mem, c).bytes = Total(ChunksIn(w))
  BY <1>1, <1>2 DEF Forget
<1>4. item \in Item /\ item.chunk = c
  BY DEF Item
<1> HIDE DEF w, item
<1>5. /\ items \in Seq(Item) /\ IsDistinct(items)
      /\ Total(ChunksIn(items)) = Total(ChunksIn(w)) + Len(c)
  BY <1>2, <1>4, Appending
<1>6. bytes = Total(ChunksIn(items))
  BY <1>3, <1>5
<1>7. Remember(mem, c, e) = [items |-> SubSeq(items, gone + 1, Len(items)),
                              bytes |-> bytes - without(gone)]
  BY <1>3 DEF Remember, item
<1>8. \A k : without(k) = Prefix(items, k)
  BY DEF Prefix
<1> HIDE DEF items, bytes, without
<1>9. gone = Evicted(items)
  BY <1>6, <1>8 DEF Evicted
<1> HIDE DEF gone
<1>10. IsSound([items |-> SubSeq(items, gone + 1, Len(items)),
                bytes |-> Total(ChunksIn(items)) - Prefix(items, gone)])
  BY <1>5, <1>9, Evicting
<1>11. QED
  BY <1>6, <1>7, <1>8, <1>10

\* So does the use of a chunk.
LEMMA Touching ==
    ASSUME NEW mem, IsSound(mem), NEW c \in Chunks, index[c] \in Entry
    PROVE  IsSound(Touch(mem, c))
<1> DEFINE hit == [chunk |-> c, entry |-> index[c]]
           w == Popped(mem.items, c)
<1>1. CASE hit \in Range(mem.items)
  <2>1. mem.items \in Seq(Item) /\ IsDistinct(mem.items) /\ mem \in CacheState
    BY DEF IsSound, IsAccounted, CacheState
  <2>2. \E i \in DOMAIN mem.items : mem.items[i].chunk = c
    BY <1>1 DEF Range
  <2>3. /\ w \in Seq(Item) /\ IsDistinct(w)
        /\ \A i \in DOMAIN w : w[i].chunk # c
        /\ Total(ChunksIn(w)) = Total(ChunksIn(mem.items)) - Len(c)
    BY <2>1, <2>2, Popping
  <2>4. hit \in Item /\ hit.chunk = c
    BY DEF Item
  <2>5. Touch(mem, c) = [mem EXCEPT !.items = Append(w, hit)]
    BY <1>1 DEF Touch
  <2> HIDE DEF w, hit
  <2>6. /\ Append(w, hit) \in Seq(Item) /\ IsDistinct(Append(w, hit))
        /\ Total(ChunksIn(Append(w, hit))) = Total(ChunksIn(w)) + Len(c)
    BY <2>3, <2>4, Appending
  <2>7. mem.bytes \in Nat /\ Len(c) \in Nat /\ mem.bytes = Total(ChunksIn(mem.items))
    BY ChunkTypes DEF IsSound, IsAccounted, CacheState
  <2>8. Total(ChunksIn(Append(w, hit))) = mem.bytes
    BY <2>3, <2>6, <2>7
  <2> DEFINE new == [mem EXCEPT !.items = Append(w, hit)]
  <2>9. new \in CacheState /\ new.items = Append(w, hit) /\ new.bytes = mem.bytes
    BY <2>1, <2>6 DEF CacheState
  <2> HIDE DEF new
  <2>10. IsSound(new)
    BY <2>6, <2>8, <2>9 DEF IsSound, IsAccounted
  <2>11. QED
    BY <2>5, <2>10 DEF new
<1>2. CASE hit \notin Range(mem.items)
  <2>1. Touch(mem, c) = Remember(mem, c, index[c])
    BY <1>2 DEF Touch
  <2>2. QED
    BY <2>1, Remembering
<1>3. QED
  BY <1>1, <1>2

\* Reading keeps the books, whatever it reads.
LEMMA TouchingAll ==
    ASSUME NEW mem, IsSound(mem), NEW s, NEW n \in Nat, DOMAIN s = 1..n,
           \A k \in 1..n : s[k].chunk \in Chunks /\ index[s[k].chunk] \in Entry
    PROVE  IsSound(FoldLeft(LAMBDA m, d : Touch(m, d.chunk), mem, s))
<1> DEFINE A == {a \in CacheState : IsSound(a)}
           G == [k \in 1..n |-> [a \in A |-> Touch(a, s[k].chunk)]]
           Rule(g) == g = [t \in SUBSET DOMAIN s |->
                             IF t = {} THEN mem ELSE Touch(g[t \ {Max(t)}], s[Max(t)].chunk)]
           it == CHOOSE g : Rule(g)
<1>1. mem \in A
  BY DEF IsSound, IsAccounted
<1>2. ASSUME NEW a \in A, NEW k \in 1..n
      PROVE  Touch(a, s[k].chunk) \in A
  <2>1. IsSound(Touch(a, s[k].chunk))
    BY Touching
  <2>2. QED
    BY <2>1 DEF IsSound, IsAccounted
<1>3. FoldLeft(LAMBDA m, d : Touch(m, d.chunk), mem, s) = it[1..n]
  BY DEF FoldLeft, MapThenFoldSet
<1>4. Rule(it)
  <2>1. IsStep(n, A, mem, G)
    <3> HIDE DEF A
    <3> QED
      BY <1>1, <1>2 DEF IsStep
  <2>2. PICK h : Solves(h, n, A, mem, G)
    <3> HIDE DEF A, G
    <3> QED
      BY <2>1, FoldRecursion
  <2> HIDE DEF A
  <2>3. ASSUME NEW t \in SUBSET (1..n)
        PROVE  h[t] = IF t = {} THEN mem ELSE Touch(h[t \ {Max(t)}], s[Max(t)].chunk)
    <3>1. /\ h \in [SUBSET (1..n) -> A]
          /\ h[t] = IF t = {} THEN mem ELSE G[Max(t)][h[t \ {Max(t)}]]
      BY <2>2 DEF Solves
    <3>2. CASE t = {}
      BY <3>1, <3>2
    <3>3. CASE t # {}
      <4>1. Max(t) \in 1..n /\ t \ {Max(t)} \in SUBSET (1..n)
        BY <3>3, MaxOfNumbers
      <4>2. h[t \ {Max(t)}] \in A
        BY <3>1, <4>1
      <4>3. G[Max(t)][h[t \ {Max(t)}]] = Touch(h[t \ {Max(t)}], s[Max(t)].chunk)
        BY <4>1, <4>2
      <4> HIDE DEF G
      <4>4. QED
        BY <3>1, <3>3, <4>3
    <3>4. QED
      BY <3>2, <3>3
  <2>4. Rule(h)
    <3>1. h \in [SUBSET (1..n) -> A]
      BY <2>2 DEF Solves
    <3>2. QED
      BY <2>3, <3>1
  <2>5. QED
    <3> HIDE DEF Rule
    <3> QED
      BY <2>4
<1>5. /\ it[{}] = mem
      /\ \A t \in SUBSET (1..n) : t # {} => it[t] = Touch(it[t \ {Max(t)}], s[Max(t)].chunk)
  <2> HIDE DEF it
  <2> QED
    BY <1>4
<1> HIDE DEF it, A
<1>6. it[1..n] \in A
  <2> DEFINE T == {k \in 0..n : it[1..k] \in A}
  <2>1. 0 \in T
    <3>1. 1..0 = {}
      OBVIOUS
    <3>2. QED
      BY <1>1, <1>5, <3>1
  <2>2. ASSUME NEW k \in 1..n, k - 1 \in T
        PROVE  k \in T
    <3>1. Max(1..k) = k /\ (1..k) \ {k} = 1..(k - 1) /\ 1..k # {}
      <4>1. k \in Nat /\ k > 0
        OBVIOUS
      <4> HIDE DEF T, G, Rule
      <4>2. QED
        BY <4>1, MaxOfPrefix
    <3>2. 1..k \in SUBSET (1..n)
      OBVIOUS
    <3>3. it[1..k] = Touch(it[1..(k - 1)], s[k].chunk)
      BY <1>5, <3>1, <3>2
    <3>4. it[1..(k - 1)] \in A
      BY <2>2
    <3>5. QED
      BY <1>2, <3>3, <3>4
  <2>3. 0..n \subseteq T
    <3> HIDE DEF T
    <3> QED
      BY <2>1, <2>2, UpTo
  <2>4. QED
    BY <2>3
<1>7. QED
  BY <1>3, <1>6 DEF A

RememberAll(mem, s, where) == FoldLeft(LAMBDA m, c : Remember(m, c, where[c]), mem, s)

\* And so does writing.
LEMMA RememberingAll ==
    ASSUME NEW mem, IsSound(mem), NEW s, NEW n \in Nat, DOMAIN s = 1..n,
           NEW where, \A k \in 1..n : s[k] \in Chunks /\ where[s[k]] \in Entry
    PROVE  IsSound(RememberAll(mem, s, where))
<1> DEFINE A == {a \in CacheState : IsSound(a)}
           G == [k \in 1..n |-> [a \in A |-> Remember(a, s[k], where[s[k]])]]
           Rule(g) == g = [t \in SUBSET DOMAIN s |->
                             IF t = {} THEN mem ELSE Remember(g[t \ {Max(t)}], s[Max(t)], where[s[Max(t)]])]
           it == CHOOSE g : Rule(g)
<1>1. mem \in A
  BY DEF IsSound, IsAccounted
<1>2. ASSUME NEW a \in A, NEW k \in 1..n
      PROVE  Remember(a, s[k], where[s[k]]) \in A
  <2>1. IsSound(Remember(a, s[k], where[s[k]]))
    BY Remembering
  <2>2. QED
    BY <2>1 DEF IsSound, IsAccounted
<1>3. RememberAll(mem, s, where) = it[1..n]
  BY DEF RememberAll, FoldLeft, MapThenFoldSet
<1>4. Rule(it)
  <2>1. IsStep(n, A, mem, G)
    <3> HIDE DEF A
    <3> QED
      BY <1>1, <1>2 DEF IsStep
  <2>2. PICK h : Solves(h, n, A, mem, G)
    <3> HIDE DEF A, G
    <3> QED
      BY <2>1, FoldRecursion
  <2> HIDE DEF A
  <2>3. ASSUME NEW t \in SUBSET (1..n)
        PROVE  h[t] = IF t = {} THEN mem ELSE Remember(h[t \ {Max(t)}], s[Max(t)], where[s[Max(t)]])
    <3>1. /\ h \in [SUBSET (1..n) -> A]
          /\ h[t] = IF t = {} THEN mem ELSE G[Max(t)][h[t \ {Max(t)}]]
      BY <2>2 DEF Solves
    <3>2. CASE t = {}
      BY <3>1, <3>2
    <3>3. CASE t # {}
      <4>1. Max(t) \in 1..n /\ t \ {Max(t)} \in SUBSET (1..n)
        BY <3>3, MaxOfNumbers
      <4>2. h[t \ {Max(t)}] \in A
        BY <3>1, <4>1
      <4>3. G[Max(t)][h[t \ {Max(t)}]] = Remember(h[t \ {Max(t)}], s[Max(t)], where[s[Max(t)]])
        BY <4>1, <4>2
      <4> HIDE DEF G
      <4>4. QED
        BY <3>1, <3>3, <4>3
    <3>4. QED
      BY <3>2, <3>3
  <2>4. Rule(h)
    <3>1. h \in [SUBSET (1..n) -> A]
      BY <2>2 DEF Solves
    <3>2. QED
      BY <2>3, <3>1
  <2>5. QED
    <3> HIDE DEF Rule
    <3> QED
      BY <2>4
<1>5. /\ it[{}] = mem
      /\ \A t \in SUBSET (1..n) : t # {} => it[t] = Remember(it[t \ {Max(t)}], s[Max(t)], where[s[Max(t)]])
  <2> HIDE DEF it
  <2> QED
    BY <1>4
<1> HIDE DEF it, A
<1>6. it[1..n] \in A
  <2> DEFINE T == {k \in 0..n : it[1..k] \in A}
  <2>1. 0 \in T
    <3>1. 1..0 = {}
      OBVIOUS
    <3>2. QED
      BY <1>1, <1>5, <3>1
  <2>2. ASSUME NEW k \in 1..n, k - 1 \in T
        PROVE  k \in T
    <3>1. Max(1..k) = k /\ (1..k) \ {k} = 1..(k - 1) /\ 1..k # {}
      <4>1. k \in Nat /\ k > 0
        OBVIOUS
      <4> HIDE DEF T, G, Rule
      <4>2. QED
        BY <4>1, MaxOfPrefix
    <3>2. 1..k \in SUBSET (1..n)
      OBVIOUS
    <3>3. it[1..k] = Remember(it[1..(k - 1)], s[k], where[s[k]])
      BY <1>5, <3>1, <3>2
    <3>4. it[1..(k - 1)] \in A
      BY <2>2
    <3>5. QED
      BY <1>2, <3>3, <3>4
  <2>3. 0..n \subseteq T
    <3> HIDE DEF T
    <3> QED
      BY <2>1, <2>2, UpTo
  <2>4. QED
    BY <2>3
<1>7. QED
  BY <1>3, <1>6 DEF A

-----------------------------------------------------------------------------
(* Concatenation *)

\* Where the bytes of each chunk are in the whole.
LEMMA FlatBytes ==
    ASSUME NEW V, NEW s \in Seq(Seq(V)), NEW f, IsSizes(f, s)
    PROVE  /\ FlattenSeq(s) \in Seq(V) /\ Len(FlattenSeq(s)) = f[Len(s)]
           /\ \A k \in 1..Len(s) : /\ f[k] <= f[Len(s)]
                                   /\ \A j \in 1..Len(s[k]) : FlattenSeq(s)[f[k - 1] + j] = s[k][j]
<1> DEFINE n == Len(s)
<1>1. PICK g : IsFlat(g, V, s) /\ FlattenSeq(s) = g[n]
  BY FlatOfPrefixes
<1>2. /\ n \in Nat /\ f[0] = 0
      /\ \A k \in 0..n : f[k] \in Nat
      /\ \A k \in 1..n : f[k] = f[k - 1] + Len(s[k]) /\ s[k] \in Seq(V) /\ Len(s[k]) \in Nat
  <2>1. f[0] = 0 /\ \A k \in 1..n : f[k] = f[k - 1] + Len(s[k])
    BY DEF IsSizes
  <2>2. QED
    BY <2>1, SizesAreNumbers
<1>3. /\ g[0] = << >>
      /\ \A k \in 0..n : g[k] \in Seq(V)
      /\ \A k \in 1..n : g[k] = g[k - 1] \o s[k]
  BY <1>1 DEF IsFlat
<1> DEFINE Placed(m) ==
             /\ Len(g[m]) = f[m]
             /\ \A k \in 1..m : /\ f[k] <= f[m]
                                /\ \A j \in 1..Len(s[k]) : g[m][f[k - 1] + j] = s[k][j]
           T == {m \in 0..n : Placed(m)}
<1> HIDE DEF n
<1>4. 0 \in T
  BY <1>2, <1>3
<1>5. ASSUME NEW m \in 1..n, m - 1 \in T
      PROVE  m \in T
  <2>1. Placed(m - 1) /\ m \in 0..n /\ m - 1 \in 0..n
    <3>1. m \in 0..n /\ m - 1 \in 0..n
      BY <1>2
    <3>2. Placed(m - 1)
      <4> HIDE DEF Placed
      <4> QED
        BY <1>5
    <3>3. QED
      BY <3>1, <3>2
  <2>2. /\ g[m] = g[m - 1] \o s[m] /\ g[m - 1] \in Seq(V) /\ s[m] \in Seq(V)
        /\ f[m] = f[m - 1] + Len(s[m]) /\ f[m - 1] \in Nat /\ f[m] \in Nat
        /\ Len(s[m]) \in Nat /\ Len(g[m - 1]) = f[m - 1]
    BY <1>2, <1>3, <2>1
  <2>3. /\ Len(g[m]) = f[m]
        /\ \A i \in 1..f[m] : g[m][i] = IF i <= f[m - 1] THEN g[m - 1][i]
                                                         ELSE s[m][i - f[m - 1]]
    <3> DEFINE a == g[m - 1]
               b == s[m]
    <3>1. a \in Seq(V) /\ b \in Seq(V) /\ Len(a) = f[m - 1] /\ Len(a) + Len(b) = f[m]
      BY <2>2
    <3> HIDE DEF a, b
    <3>2. /\ Len(a \o b) = Len(a) + Len(b)
          /\ \A i \in 1..Len(a) + Len(b) :
                (a \o b)[i] = IF i <= Len(a) THEN a[i] ELSE b[i - Len(a)]
      BY <3>1, ConcatProperties
    <3> DEFINE c == a \o b
    <3> HIDE DEF c
    <3>3. /\ Len(c) = f[m]
          /\ \A i \in 1..f[m] : c[i] = IF i <= f[m - 1] THEN a[i] ELSE b[i - f[m - 1]]
      BY <3>1, <3>2 DEF c
    <3>4. g[m] = c
      BY <2>2 DEF a, b, c
    <3>5. QED
      BY <3>3, <3>4 DEF a, b
  <2>a. /\ f[m] = f[m - 1] + Len(s[m]) /\ f[m - 1] \in Nat /\ f[m] \in Nat
        /\ Len(s[m]) \in Nat
    BY <2>2
  <2>b. f[m - 1] <= f[m]
    BY <2>a
  <2>4. ASSUME NEW k \in 1..m
        PROVE  /\ f[k] <= f[m]
               /\ \A j \in 1..Len(s[k]) : g[m][f[k - 1] + j] = s[k][j]
    <3>1. CASE k = m
      <4>1. ASSUME NEW j \in 1..Len(s[m])
            PROVE  g[m][f[m - 1] + j] = s[m][j]
        <5>1. f[m - 1] + j \in 1..f[m] /\ ~ f[m - 1] + j <= f[m - 1]
              /\ (f[m - 1] + j) - f[m - 1] = j
          BY <2>a
        <5>2. QED
          BY <2>3, <5>1
      <4>2. QED
        BY <2>a, <3>1, <4>1
    <3>2. CASE k # m
      <4>1. k \in 1..m - 1 /\ k \in 1..n /\ k - 1 \in 0..n /\ k \in 0..n
        BY <1>2, <3>2
      <4>2. /\ f[k] <= f[m - 1]
            /\ \A j \in 1..Len(s[k]) : g[m - 1][f[k - 1] + j] = s[k][j]
        BY <2>1, <4>1
      <4>3. /\ f[k] = f[k - 1] + Len(s[k]) /\ f[k - 1] \in Nat /\ f[k] \in Nat
            /\ Len(s[k]) \in Nat
        BY <1>2, <4>1
      <4>4. ASSUME NEW j \in 1..Len(s[k])
            PROVE  g[m][f[k - 1] + j] = s[k][j]
        <5>1. f[k - 1] + j \in 1..f[m] /\ f[k - 1] + j <= f[m - 1]
          <6> HIDE DEF Placed, T
          <6>1. j \in Nat /\ j >= 1 /\ j <= Len(s[k])
            BY <4>3
          <6>2. f[k - 1] + j <= f[k] /\ f[k - 1] + j >= 1
            BY <4>3, <6>1
          <6>3. f[m - 1] <= f[m] /\ f[k - 1] + j \in Nat
            BY <2>b, <4>3, <6>1
          <6>4. QED
            BY <2>a, <4>2, <4>3, <6>2, <6>3
        <5>2. g[m][f[k - 1] + j] = g[m - 1][f[k - 1] + j]
          BY <2>3, <5>1
        <5>3. QED
          BY <4>2, <5>2
      <4>5. f[k] <= f[m]
        <5> HIDE DEF Placed, T
        <5> QED
          BY <2>a, <2>b, <4>2, <4>3
      <4>6. QED
        BY <4>4, <4>5
    <3>3. QED
      BY <3>1, <3>2
  <2>5. QED
    BY <2>1, <2>3, <2>4
<1>6. n \in T
  <2> HIDE DEF T
  <2>1. 0..n \subseteq T
    BY <1>2, <1>4, <1>5, UpTo
  <2>2. QED
    BY <1>2, <2>1
<1>7. Placed(n) /\ n \in 0..n
  BY <1>2, <1>6
<1>8. QED
  BY <1>1, <1>3, <1>7 DEF n

-----------------------------------------------------------------------------
(* Packs *)

LEMMA PartIs ==
    ASSUME NEW V, NEW p \in Seq(V), NEW c \in Seq(V), NEW at \in Nat, at + Len(c) <= Len(p),
           \A j \in 1..Len(c) : p[at + j] = c[j]
    PROVE  SubSeq(p, at + 1, at + Len(c)) = c
<1> DEFINE n == Len(c)
           u == SubSeq(p, at + 1, at + n)
<1>1. n \in Nat
  OBVIOUS
<1>2. u \in Seq(V) /\ Len(u) = n /\ \A j \in 1..n : u[j] = p[at + j]
  <2>1. \A i \in at + 1..at + n : p[i] \in V
    <3>1. \A i \in 1..Len(p) : p[i] \in V
      OBVIOUS
    <3>2. \A i \in at + 1..at + n : i \in 1..Len(p)
      BY <1>1
    <3>3. QED
      BY <3>1, <3>2
  <2>2. /\ u \in Seq(V)
        /\ Len(u) = IF at + 1 <= at + n THEN (at + n) - (at + 1) + 1 ELSE 0
        /\ \A j \in 1..(at + n) - (at + 1) + 1 : u[j] = p[(at + 1) + j - 1]
    <3>1. at + 1 \in Int /\ at + n \in Int
      BY <1>1
    <3> HIDE DEF n
    <3> QED
      BY <2>1, <3>1, SubSeqProperties
  <2>3. (at + n) - (at + 1) + 1 = n /\ \A j \in 1..n : (at + 1) + j - 1 = at + j
    BY <1>1
  <2> HIDE DEF u, n
  <2>4. Len(u) = n
    BY <1>1, <2>2
  <2>5. QED
    BY <2>2, <2>3, <2>4
<1> HIDE DEF u
<1>3. u = c
  BY <1>2, SeqEqual
<1>4. QED
  BY <1>3 DEF u

LEMMA PackHolds ==
    ASSUME NEW chunks \in Seq(Seq(Bytes)), NEW k \in 1..Len(chunks)
    PROVE  LET at == Len(Header) + Before(chunks, k)
           IN  /\ at \in Nat
               /\ SubSeq(PackOf(chunks), at + 1, at + Len(chunks[k])) = chunks[k]
<1>1. PICK f : IsSizes(f, chunks)
  BY TotalOfPrefixes
<1> DEFINE n == Len(chunks)
           h == Len(Header)
           flat == FlattenSeq(chunks)
           c == chunks[k]
           p == PackOf(chunks)
           at == h + f[k - 1]
<1>2. /\ n \in Nat /\ k \in 1..n /\ k - 1 \in 0..n /\ k \in 0..n
      /\ f[k - 1] \in Nat /\ f[k] \in Nat /\ f[n] \in Nat
      /\ c \in Seq(Bytes) /\ Len(c) \in Nat
  <2>1. n \in Nat /\ k \in 1..n /\ k - 1 \in 0..n /\ k \in 0..n /\ n \in 0..n
    OBVIOUS
  <2>2. QED
    BY <1>1, <2>1, SizesAreNumbers
<1>3. f[k] = f[k - 1] + Len(c)
  BY <1>1 DEF IsSizes
<1>4. Before(chunks, k) = f[k - 1]
  BY <1>1, <1>2, TotalOfParts DEF Before
<1>5. /\ flat \in Seq(Bytes) /\ Len(flat) = f[n] /\ f[k] <= f[n]
      /\ \A j \in 1..Len(c) : flat[f[k - 1] + j] = c[j]
  BY <1>1, FlatBytes
<1>6. Header \in Seq(Bytes) /\ h \in Nat
  <2>1. Range(Header) \subseteq Bytes
    BY DEF Bytes
  <2>2. Seq(Range(Header)) \subseteq Seq(Bytes)
    BY <2>1, SeqMonotonic
  <2>3. Header \in Seq(Bytes)
    BY <2>2, BoundsAssumption
  <2>4. QED
    BY <2>3
<1> HIDE DEF flat, c, n, h
<1>7. p = Header \o flat
  BY DEF PackOf, flat
<1>8. /\ p \in Seq(Bytes) /\ Len(p) = h + f[n]
      /\ \A i \in 1..f[n] : p[h + i] = flat[i]
  <2>1. /\ Header \o flat \in Seq(Bytes)
        /\ Len(Header \o flat) = Len(Header) + Len(flat)
        /\ \A i \in 1..Len(Header) + Len(flat) :
              (Header \o flat)[i] = IF i <= Len(Header) THEN Header[i] ELSE flat[i - Len(Header)]
    BY <1>5, <1>6, ConcatProperties
  <2> DEFINE q == Header \o flat
  <2> HIDE DEF q
  <2>2. /\ q \in Seq(Bytes) /\ Len(q) = h + f[n]
        /\ \A i \in 1..h + f[n] : q[i] = IF i <= h THEN Header[i] ELSE flat[i - h]
    BY <1>5, <2>1 DEF q, h
  <2>3. \A i \in 1..f[n] : h + i \in 1..h + f[n] /\ ~ h + i <= h /\ (h + i) - h = i
    BY <1>2, <1>6
  <2>4. p = q
    BY <1>7 DEF q
  <2>5. QED
    BY <2>2, <2>3, <2>4
<1> HIDE DEF p
<1>9. /\ at \in Nat /\ at + Len(c) <= Len(p)
      /\ \A j \in 1..Len(c) : p[at + j] = c[j]
  <2>1. at \in Nat /\ at + Len(c) <= Len(p)
    <3>1. /\ f[k] <= f[n] /\ Len(p) = h + f[n] /\ f[k] = f[k - 1] + Len(c)
          /\ f[n] \in Nat /\ f[k - 1] \in Nat /\ Len(c) \in Nat /\ h \in Nat
      BY <1>2, <1>3, <1>5, <1>6, <1>8
    <3> DEFINE a == f[k - 1]
               b == Len(c)
    <3>2. /\ a \in Nat /\ b \in Nat /\ h \in Nat /\ f[n] \in Nat
          /\ a + b <= f[n] /\ Len(p) = h + f[n] /\ at = h + a
      BY <3>1
    <3> HIDE DEF a, b, at
    <3>3. h + a \in Nat /\ (h + a) + b <= h + f[n]
      BY <3>2
    <3>4. QED
      BY <3>2, <3>3 DEF b
  <2>2. ASSUME NEW j \in 1..Len(c)
        PROVE  p[at + j] = c[j]
    <3>1. f[k - 1] + j \in 1..f[n] /\ at + j = h + (f[k - 1] + j)
      BY <1>2, <1>3, <1>5, <1>6
    <3>2. QED
      BY <1>5, <1>8, <3>1
  <2>3. QED
    BY <2>1, <2>2
<1> HIDE DEF at
<1>10. SubSeq(p, at + 1, at + Len(c)) = c
  BY <1>2, <1>8, <1>9, PartIs
<1>11. QED
  BY <1>4, <1>9, <1>10 DEF at, p, c, h

LEMMA EntriesHold ==
    ASSUME NEW chunks \in Seq(Seq(Bytes)), NEW id \in PackIds, NEW c \in Range(chunks)
    PROVE  LET e == EntriesOf(chunks, id)[c]
           IN  /\ DOMAIN EntriesOf(chunks, id) = Range(chunks)
               /\ e \in Entry /\ e.pack = id /\ e.size = Len(c)
               /\ SubSeq(PackOf(chunks), e.offset + 1, e.offset + e.size) = c
<1> DEFINE i == CHOOSE i \in DOMAIN chunks : chunks[i] = c
           e == [pack |-> id, offset |-> Len(Header) + Before(chunks, i), size |-> Len(c)]
<1>1. i \in DOMAIN chunks /\ chunks[i] = c
  BY DEF Range
<1> HIDE DEF i
<1>2. i \in 1..Len(chunks) /\ c \in Seq(Bytes) /\ Len(c) \in Nat
  BY <1>1
<1>3. /\ Len(Header) + Before(chunks, i) \in Nat
      /\ SubSeq(PackOf(chunks), Len(Header) + Before(chunks, i) + 1,
                Len(Header) + Before(chunks, i) + Len(c)) = c
  BY <1>1, <1>2, PackHolds
<1>4. EntriesOf(chunks, id)[c] = e /\ DOMAIN EntriesOf(chunks, id) = Range(chunks)
  BY DEF EntriesOf, i
<1>5. e \in Entry /\ e.pack = id /\ e.size = Len(c) /\ e.offset = Len(Header) + Before(chunks, i)
  BY <1>2, <1>3 DEF Entry
<1> HIDE DEF e
<1>6. QED
  BY <1>3, <1>4, <1>5

\* f[k] has what the first k chunks of s add to the known ones.
Adds(f, s, known) ==
    /\ f[0] = << >>
    /\ \A k \in 1..Len(s) :
          f[k] = (IF s[k] \in known \union Range(f[k - 1]) THEN f[k - 1] ELSE Append(f[k - 1], s[k]))

LEMMA DistinctFold ==
    ASSUME NEW known, NEW S, NEW s \in Seq(S)
    PROVE  \E f : Adds(f, s, known) /\ Distinct(s, known) = f[Len(s)]
<1> DEFINE n == Len(s)
<1> n \in Nat /\ DOMAIN s = 1..n /\ \A k \in 1..n : s[k] \in S
  OBVIOUS
<1> HIDE DEF n
<1> DEFINE A == Seq(S)
           G == [k \in 1..n |-> [a \in A |-> (IF s[k] \in known \union Range(a) THEN a ELSE Append(a, s[k]))]]
           Rule(g) == g = [t \in SUBSET DOMAIN s |->
                             IF t = {} THEN << >>
                             ELSE (IF s[Max(t)] \in known \union Range(g[t \ {Max(t)}]) THEN g[t \ {Max(t)}] ELSE Append(g[t \ {Max(t)}], s[Max(t)]))]
           it == CHOOSE g : Rule(g)
           f == [k \in 0..n |-> it[1..k]]
<1>1. Distinct(s, known) = it[1..n]
  BY DEF Distinct, FoldLeft, MapThenFoldSet
<1>2. Rule(it)
  <2>1. IsStep(n, A, << >>, G)
    <3>1. ASSUME NEW k \in 1..n, NEW a \in A
          PROVE  (IF s[k] \in known \union Range(a) THEN a ELSE Append(a, s[k])) \in A
      OBVIOUS
    <3>2. << >> \in A
      OBVIOUS
    <3> HIDE DEF A
    <3>3. QED
      BY <3>1, <3>2 DEF IsStep
  <2>2. PICK h : Solves(h, n, A, << >>, G)
    <3> HIDE DEF A, G
    <3> QED
      BY <2>1, FoldRecursion
  <2> HIDE DEF A
  <2>3. ASSUME NEW t \in SUBSET (1..n)
        PROVE  h[t] = IF t = {} THEN << >>
                      ELSE (IF s[Max(t)] \in known \union Range(h[t \ {Max(t)}]) THEN h[t \ {Max(t)}] ELSE Append(h[t \ {Max(t)}], s[Max(t)]))
    <3>1. /\ h \in [SUBSET (1..n) -> A]
          /\ h[t] = IF t = {} THEN << >> ELSE G[Max(t)][h[t \ {Max(t)}]]
      BY <2>2 DEF Solves
    <3>2. CASE t = {}
      BY <3>1, <3>2
    <3>3. CASE t # {}
      <4>1. Max(t) \in 1..n /\ t \ {Max(t)} \in SUBSET (1..n)
        BY <3>3, MaxOfNumbers
      <4>2. h[t \ {Max(t)}] \in A
        BY <3>1, <4>1
      <4>3. G[Max(t)][h[t \ {Max(t)}]] = (IF s[Max(t)] \in known \union Range(h[t \ {Max(t)}]) THEN h[t \ {Max(t)}] ELSE Append(h[t \ {Max(t)}], s[Max(t)]))
        BY <4>1, <4>2
      <4> HIDE DEF G
      <4>4. QED
        BY <3>1, <3>3, <4>3
    <3>4. QED
      BY <3>2, <3>3
  <2>4. Rule(h)
    <3>1. h \in [SUBSET (1..n) -> A]
      BY <2>2 DEF Solves
    <3>2. QED
      BY <2>3, <3>1
  <2>5. QED
    <3> HIDE DEF Rule
    <3> QED
      BY <2>4
<1>3. /\ it[{}] = << >>
      /\ \A t \in SUBSET (1..n) : t # {} =>
            it[t] = (IF s[Max(t)] \in known \union Range(it[t \ {Max(t)}]) THEN it[t \ {Max(t)}] ELSE Append(it[t \ {Max(t)}], s[Max(t)]))
  <2> HIDE DEF it
  <2> QED
    BY <1>2
<1> HIDE DEF it, A, G, Rule
<1>4. f[0] = << >> /\ f[n] = it[1..n]
  <2>1. 1..0 = {} /\ 0 \in 0..n /\ n \in 0..n
    OBVIOUS
  <2>2. QED
    BY <1>3, <2>1
<1>5. ASSUME NEW k \in 1..n
      PROVE  f[k] = (IF s[k] \in known \union Range(f[k - 1]) THEN f[k - 1] ELSE Append(f[k - 1], s[k]))
  <2>1. Max(1..k) = k /\ (1..k) \ {k} = 1..(k - 1) /\ 1..k # {}
    <3>1. k \in Nat /\ k > 0
      OBVIOUS
    <3>2. QED
      BY <3>1, MaxOfPrefix
  <2>2. 1..k \in SUBSET (1..n) /\ f[k] = it[1..k] /\ f[k - 1] = it[1..(k - 1)]
    OBVIOUS
  <2>3. it[1..k] = (IF s[k] \in known \union Range(it[1..(k - 1)]) THEN it[1..(k - 1)] ELSE Append(it[1..(k - 1)], s[k]))
    BY <1>3, <2>1, <2>2
  <2> HIDE DEF f
  <2>4. QED
    BY <2>2, <2>3
<1> HIDE DEF f
<1>6. QED
  BY <1>1, <1>4, <1>5 DEF Adds, n

\* The chunks of x, each with where it starts.
Parts(x) == [i \in DOMAIN SplitOf[x] |-> [chunk |-> SplitOf[x][i], from |-> Before(SplitOf[x], i)]]

LEMMA PartsOf ==
    ASSUME NEW x \in Contents
    PROVE  /\ Parts(x) \in Seq([chunk : ChunksOf(x), from : Nat])
           /\ DOMAIN Parts(x) = DOMAIN SplitOf[x] /\ Len(Parts(x)) = Len(SplitOf[x])
           /\ \A i \in DOMAIN Parts(x) :
                 Parts(x)[i] = [chunk |-> SplitOf[x][i], from |-> Before(SplitOf[x], i)]
<1> DEFINE s == SplitOf[x]
<1>1. s \in Seq(Seq(Bytes))
  BY ChunkTypes
<1> HIDE DEF s
<1>2. PICK f : IsSizes(f, s)
  BY <1>1, TotalOfPrefixes
<1>3. ASSUME NEW i \in 1..Len(s)
      PROVE  Before(s, i) \in Nat
  <2>1. i - 1 \in 0..Len(s)
    BY <1>1
  <2>2. Before(s, i) = f[i - 1]
    BY <1>1, <1>2, <2>1, TotalOfParts DEF Before
  <2>3. QED
    BY <1>1, <1>2, <2>1, <2>2, SizesAreNumbers
<1>4. \A i \in 1..Len(s) : s[i] \in ChunksOf(x)
  BY <1>1 DEF ChunksOf, s, Range
<1>5. Parts(x) = [i \in 1..Len(s) |-> [chunk |-> s[i], from |-> Before(s, i)]]
  BY <1>1 DEF Parts, s
<1>6. Parts(x) \in Seq([chunk : ChunksOf(x), from : Nat])
  <2> DEFINE p == Parts(x)
             V == [chunk : ChunksOf(x), from : Nat]
  <2>1. p \in [1..Len(s) -> V]
    BY <1>3, <1>4, <1>5
  <2>2. Len(s) \in Nat
    BY <1>1
  <2> HIDE DEF p, V
  <2>3. p \in Seq(V)
    BY <2>1, <2>2
  <2>4. QED
    BY <2>3 DEF p, V
<1>7. QED
  BY <1>1, <1>5, <1>6 DEF s

\* f[k] has the ones among the first k parts that overlap the range.
Picks(f, s, start, end) ==
    /\ f[0] = << >>
    /\ \A k \in 1..Len(s) :
          f[k] = (IF s[k].from + Len(s[k].chunk) <= start \/ s[k].from >= end THEN f[k - 1] ELSE Append(f[k - 1], s[k]))

LEMMA OverlapFold ==
    ASSUME NEW x \in Contents, NEW start, NEW end
    PROVE  \E f : Picks(f, Parts(x), start, end) /\ Overlap(x, start, end) = f[Len(Parts(x))]
<1> DEFINE s == Parts(x)
           n == Len(s)
           S == [chunk : ChunksOf(x), from : Nat]
<1> n \in Nat /\ DOMAIN s = 1..n /\ \A k \in 1..n : s[k] \in S
  <2>1. s \in Seq(S)
    BY PartsOf
  <2> HIDE DEF s, S
  <2>2. QED
    BY <2>1
<1>0. Overlap(x, start, end) =
         FoldLeft(LAMBDA parts, d : IF d.from + Len(d.chunk) <= start \/ d.from >= end THEN parts ELSE Append(parts, d),
                  << >>, s)
  BY DEF Overlap, Parts
<1> HIDE DEF n, s, S
<1> DEFINE A == Seq(S)
           G == [k \in 1..n |-> [a \in A |-> (IF s[k].from + Len(s[k].chunk) <= start \/ s[k].from >= end THEN a ELSE Append(a, s[k]))]]
           Rule(g) == g = [t \in SUBSET DOMAIN s |->
                             IF t = {} THEN << >>
                             ELSE (IF s[Max(t)].from + Len(s[Max(t)].chunk) <= start \/ s[Max(t)].from >= end THEN g[t \ {Max(t)}] ELSE Append(g[t \ {Max(t)}], s[Max(t)]))]
           it == CHOOSE g : Rule(g)
           f == [k \in 0..n |-> it[1..k]]
<1>1. FoldLeft(LAMBDA parts, d : IF d.from + Len(d.chunk) <= start \/ d.from >= end THEN parts ELSE Append(parts, d), << >>, s) = it[1..n]
  BY DEF FoldLeft, MapThenFoldSet
<1>2. Rule(it)
  <2>1. IsStep(n, A, << >>, G)
    <3>1. ASSUME NEW k \in 1..n, NEW a \in A
          PROVE  (IF s[k].from + Len(s[k].chunk) <= start \/ s[k].from >= end THEN a ELSE Append(a, s[k])) \in A
      OBVIOUS
    <3>2. << >> \in A
      OBVIOUS
    <3> HIDE DEF A
    <3>3. QED
      BY <3>1, <3>2 DEF IsStep
  <2>2. PICK h : Solves(h, n, A, << >>, G)
    <3> HIDE DEF A, G
    <3> QED
      BY <2>1, FoldRecursion
  <2> HIDE DEF A
  <2>3. ASSUME NEW t \in SUBSET (1..n)
        PROVE  h[t] = IF t = {} THEN << >>
                      ELSE (IF s[Max(t)].from + Len(s[Max(t)].chunk) <= start \/ s[Max(t)].from >= end THEN h[t \ {Max(t)}] ELSE Append(h[t \ {Max(t)}], s[Max(t)]))
    <3>1. /\ h \in [SUBSET (1..n) -> A]
          /\ h[t] = IF t = {} THEN << >> ELSE G[Max(t)][h[t \ {Max(t)}]]
      BY <2>2 DEF Solves
    <3>2. CASE t = {}
      BY <3>1, <3>2
    <3>3. CASE t # {}
      <4>1. Max(t) \in 1..n /\ t \ {Max(t)} \in SUBSET (1..n)
        BY <3>3, MaxOfNumbers
      <4>2. h[t \ {Max(t)}] \in A
        BY <3>1, <4>1
      <4>3. G[Max(t)][h[t \ {Max(t)}]] = (IF s[Max(t)].from + Len(s[Max(t)].chunk) <= start \/ s[Max(t)].from >= end THEN h[t \ {Max(t)}] ELSE Append(h[t \ {Max(t)}], s[Max(t)]))
        BY <4>1, <4>2
      <4> HIDE DEF G
      <4>4. QED
        BY <3>1, <3>3, <4>3
    <3>4. QED
      BY <3>2, <3>3
  <2>4. Rule(h)
    <3>1. h \in [SUBSET (1..n) -> A]
      BY <2>2 DEF Solves
    <3>2. QED
      BY <2>3, <3>1
  <2>5. QED
    <3> HIDE DEF Rule
    <3> QED
      BY <2>4
<1>3. /\ it[{}] = << >>
      /\ \A t \in SUBSET (1..n) : t # {} =>
            it[t] = (IF s[Max(t)].from + Len(s[Max(t)].chunk) <= start \/ s[Max(t)].from >= end THEN it[t \ {Max(t)}] ELSE Append(it[t \ {Max(t)}], s[Max(t)]))
  <2> HIDE DEF it
  <2> QED
    BY <1>2
<1> HIDE DEF it, A, G, Rule
<1>4. f[0] = << >> /\ f[n] = it[1..n]
  <2>1. 1..0 = {} /\ 0 \in 0..n /\ n \in 0..n
    OBVIOUS
  <2>2. QED
    BY <1>3, <2>1
<1>5. ASSUME NEW k \in 1..n
      PROVE  f[k] = (IF s[k].from + Len(s[k].chunk) <= start \/ s[k].from >= end THEN f[k - 1] ELSE Append(f[k - 1], s[k]))
  <2>1. Max(1..k) = k /\ (1..k) \ {k} = 1..(k - 1) /\ 1..k # {}
    <3>1. k \in Nat /\ k > 0
      OBVIOUS
    <3>2. QED
      BY <3>1, MaxOfPrefix
  <2>2. 1..k \in SUBSET (1..n) /\ f[k] = it[1..k] /\ f[k - 1] = it[1..(k - 1)]
    OBVIOUS
  <2>3. it[1..k] = (IF s[k].from + Len(s[k].chunk) <= start \/ s[k].from >= end THEN it[1..(k - 1)] ELSE Append(it[1..(k - 1)], s[k]))
    BY <1>3, <2>1, <2>2
  <2> HIDE DEF f
  <2>4. QED
    BY <2>2, <2>3
<1> HIDE DEF f
<1>6. QED
  BY <1>0, <1>1, <1>4, <1>5 DEF Picks, n, s

\* Distinct gives the chunks that are not known, each once.
LEMMA DistinctHolds ==
    ASSUME NEW S, NEW s \in Seq(S), NEW known
    PROVE  /\ Distinct(s, known) \in Seq(S)
           /\ Range(Distinct(s, known)) = Range(s) \ known
           /\ \A i, j \in DOMAIN Distinct(s, known) :
                 Distinct(s, known)[i] = Distinct(s, known)[j] => i = j
<1> DEFINE n == Len(s)
           IsOnce(t) == \A i, j \in DOMAIN t : t[i] = t[j] => i = j
           Good(t, k) == t \in Seq(S) /\ Range(t) = {s[i] : i \in 1..k} \ known /\ IsOnce(t)
<1>1. n \in Nat /\ DOMAIN s = 1..n /\ \A k \in 1..n : s[k] \in S
  OBVIOUS
<1> HIDE DEF n
<1>2. PICK f : Adds(f, s, known) /\ Distinct(s, known) = f[n]
  BY DistinctFold DEF n
<1>3. /\ f[0] = << >>
      /\ \A k \in 1..n : f[k] = (IF s[k] \in known \union Range(f[k - 1]) THEN f[k - 1] ELSE Append(f[k - 1], s[k]))
  BY <1>2 DEF Adds, n
<1> DEFINE T == {k \in 0..n : Good(f[k], k)}
<1>4. 0 \in T
  <2>1. << >> \in Seq(S) /\ DOMAIN << >> = {} /\ 1..0 = {}
    OBVIOUS
  <2>2. Range(<< >>) = {}
    BY <2>1 DEF Range
  <2>3. Good(<< >>, 0)
    BY <2>1, <2>2
  <2>4. QED
    <3> HIDE DEF Good
    <3> QED
      BY <1>1, <1>3, <2>3
<1>5. ASSUME NEW k \in 1..n, k - 1 \in T
      PROVE  k \in T
  <2> DEFINE t == f[k - 1]
  <2>1. t \in Seq(S) /\ Range(t) = {s[i] : i \in 1..k - 1} \ known /\ IsOnce(t)
    BY <1>5
  <2>2. s[k] \in S /\ {s[i] : i \in 1..k} = {s[i] : i \in 1..k - 1} \union {s[k]}
    <3>1. 1..k = (1..k - 1) \union {k}
      OBVIOUS
    <3>2. QED
      BY <1>1, <3>1
  <2>3. CASE s[k] \in known \union Range(t)
    <3>1. f[k] = t
      BY <1>3, <2>3
    <3>2. Range(t) = {s[i] : i \in 1..k} \ known
      BY <2>1, <2>2, <2>3
    <3>3. Good(f[k], k)
      BY <2>1, <3>1, <3>2
    <3>4. QED
      <4> HIDE DEF Good
      <4> QED
        BY <3>3
  <2>4. CASE s[k] \notin known \union Range(t)
    <3>1. f[k] = Append(t, s[k])
      BY <1>3, <2>4
    <3> HIDE DEF t
    <3> DEFINE u == Append(t, s[k])
    <3>2. /\ u \in Seq(S) /\ Len(u) = Len(t) + 1 /\ Len(t) \in Nat /\ DOMAIN t = 1..Len(t)
          /\ DOMAIN u = 1..Len(t) + 1
          /\ u[Len(t) + 1] = s[k] /\ \A i \in 1..Len(t) : u[i] = t[i]
      BY <2>1, <2>2
    <3> HIDE DEF u
    <3>3. Range(u) = Range(t) \union {s[k]}
      <4>1. DOMAIN u = DOMAIN t \union {Len(t) + 1}
        BY <3>2
      <4>2. \A i \in DOMAIN t : u[i] = t[i]
        BY <3>2
      <4>3. QED
        BY <3>2, <4>1, <4>2 DEF Range
    <3>4. Range(u) = {s[i] : i \in 1..k} \ known
      BY <2>1, <2>2, <2>4, <3>3
    <3>5. \A i \in 1..Len(t) : t[i] # s[k]
      BY <2>4, <3>2 DEF Range
    <3>6. IsOnce(u)
      <4>1. SUFFICES ASSUME NEW i \in 1..Len(t) + 1, NEW j \in 1..Len(t) + 1, u[i] = u[j]
                     PROVE  i = j
        BY <3>2
      <4>2. (i \in 1..Len(t) \/ i = Len(t) + 1) /\ (j \in 1..Len(t) \/ j = Len(t) + 1)
        BY <3>2
      <4>3. \A a, b \in 1..Len(t) : t[a] = t[b] => a = b
        BY <2>1, <3>2
      <4>4. QED
        BY <3>2, <3>5, <4>1, <4>2, <4>3
    <3>7. Good(f[k], k)
      BY <3>1, <3>2, <3>4, <3>6 DEF u
    <3>8. QED
      <4> HIDE DEF Good
      <4> QED
        BY <3>7
  <2>5. QED
    BY <2>3, <2>4
<1>6. Good(f[n], n)
  <2>1. 0..n \subseteq T
    <3> HIDE DEF T
    <3> QED
      BY <1>1, <1>4, <1>5, UpTo
  <2>2. n \in T
    <3> HIDE DEF T
    <3> QED
      BY <1>1, <2>1
  <2>3. QED
    BY <2>2
<1>7. Range(s) = {s[i] : i \in 1..n}
  BY <1>1 DEF Range
<1>8. QED
  BY <1>2, <1>6, <1>7

-----------------------------------------------------------------------------
(* The invariant *)

\* The chunk c is in one of the packs, where the entry says.
IsIn(pk, e, c) ==
    /\ e \in Entry /\ e.size = Len(c) /\ e.pack \in DOMAIN pk
    /\ SubSeq(pk[e.pack], e.offset + 1, e.offset + e.size) = c

\* Chunks of the index are in packs, and files consist of chunks of the index.
Committed ==
    /\ written \in Nat /\ written <= MaxPacks
    /\ DOMAIN packs \subseteq 1..written
    /\ DOMAIN index \subseteq Chunks
    /\ \A c \in DOMAIN index : IsIn(packs, index[c], c)
    /\ files \subseteq Contents /\ IsFiniteSet(files)
    /\ \A x \in files : ChunksOf(x) \subseteq DOMAIN index

\* A transaction adds packs and chunks, and takes nothing away.
Open ==
    tx # NoTx =>
        /\ tx = [owner |-> tx.owner, packs |-> tx.packs, index |-> tx.index, files |-> tx.files]
        /\ tx.owner \in Readers
        /\ DOMAIN tx.packs \subseteq 1..written
        /\ DOMAIN tx.packs \intersect DOMAIN packs = {}
        /\ DOMAIN tx.index \subseteq Chunks
        /\ DOMAIN tx.index \intersect DOMAIN index = {}
        /\ \A c \in DOMAIN tx.index : IsIn(tx.packs, tx.index[c], c)
        /\ tx.files \subseteq Contents /\ IsFiniteSet(tx.files)
        /\ \A x \in tx.files : ChunksOf(x) \subseteq DOMAIN index \union DOMAIN tx.index

\* The caches are accounted for, and within the budget.
Memories ==
    /\ recent \in [Readers -> Seq(Item)]
    /\ used \in [Readers -> Nat]
    /\ \A m \in Readers : IsSound(InMemory(m))

ChunkInv == Committed /\ Open /\ Memories

-----------------------------------------------------------------------------
(* Steps *)

\* The parts of x that overlap a range are chunks of x.
LEMMA OverlapTypes ==
    ASSUME NEW x \in Contents, NEW start, NEW end
    PROVE  /\ Len(Overlap(x, start, end)) \in Nat
           /\ DOMAIN Overlap(x, start, end) = 1..Len(Overlap(x, start, end))
           /\ \A k \in DOMAIN Overlap(x, start, end) : Overlap(x, start, end)[k].chunk \in ChunksOf(x)
<1> DEFINE S == [chunk : ChunksOf(x), from : Nat]
           s == Parts(x)
           n == Len(s)
<1>1. \A d \in S : d.chunk \in ChunksOf(x)
  OBVIOUS
<1>2. s \in Seq(S)
  BY PartsOf
<1> HIDE DEF S, s
<1>3. n \in Nat /\ \A k \in 1..n : s[k] \in S
  BY <1>2
<1> HIDE DEF n
<1>4. PICK f : Picks(f, s, start, end) /\ Overlap(x, start, end) = f[n]
  BY OverlapFold DEF s, n
<1>5. /\ f[0] = << >>
      /\ \A k \in 1..n : f[k] = f[k - 1] \/ f[k] = Append(f[k - 1], s[k])
  BY <1>4 DEF Picks, n
<1> DEFINE T == {k \in 0..n : f[k] \in Seq(S)}
<1>6. 0 \in T
  <2>1. 0 \in 0..n /\ << >> \in Seq(S)
    BY <1>3
  <2>2. QED
    BY <1>5, <2>1
<1>7. ASSUME NEW k \in 1..n, k - 1 \in T
      PROVE  k \in T
  <2>1. f[k - 1] \in Seq(S) /\ s[k] \in S
    BY <1>3, <1>7
  <2>2. Append(f[k - 1], s[k]) \in Seq(S)
    BY <2>1
  <2>3. f[k] = f[k - 1] \/ f[k] = Append(f[k - 1], s[k])
    BY <1>5
  <2>4. f[k] \in Seq(S) /\ k \in 0..n
    BY <1>3, <2>1, <2>2, <2>3
  <2>5. QED
    BY <2>4
<1>8. n \in T
  <2> HIDE DEF T
  <2>1. 0..n \subseteq T
    BY <1>3, <1>6, <1>7, UpTo
  <2>2. QED
    BY <1>3, <2>1
<1>9. Overlap(x, start, end) \in Seq(S)
  BY <1>4, <1>8
<1>10. QED
  BY <1>1, <1>9

\* A finite set in some order.
LEMMA Listing ==
    ASSUME NEW S, IsFiniteSet(S)
    PROVE  /\ SetToSeq(S) \in Seq(S) /\ Range(SetToSeq(S)) = S
           /\ \A i, j \in DOMAIN SetToSeq(S) : SetToSeq(S)[i] = SetToSeq(S)[j] => i = j
<1> DEFINE n == Cardinality(S)
           s == SetToSeq(S)
<1>1. n \in Nat /\ ExistsBijection(1..n, S)
  BY FS_CardinalityType
<1> HIDE DEF n
<1>2. PICK b : b \in Injection(1..n, S)
  BY <1>1 DEF ExistsBijection, Bijection
<1>3. s = CHOOSE f \in [1..n -> S] : IsInjective(f)
  BY DEF SetToSeq, n
<1>4. b \in [1..n -> S] /\ IsInjective(b)
  BY <1>2 DEF Injection
<1>5. s \in [1..n -> S] /\ IsInjective(s)
  <2> HIDE DEF s
  <2> QED
    BY <1>3, <1>4
<1> HIDE DEF s
<1>6. s \in Injection(1..n, S)
  BY <1>5 DEF Injection
<1>7. Cardinality(1..n) = n
  <2>1. 1 \in Int /\ n \in Int /\ (IF 1 > n THEN 0 ELSE n - 1 + 1) = n
    BY <1>1
  <2>2. QED
    BY <2>1, FS_Interval
<1>8. s \in Surjection(1..n, S)
  BY <1>6, <1>7, FS_Injection DEF n
<1>9. \A t \in S : \E i \in 1..n : s[i] = t
  BY <1>8 DEF Surjection
<1>10. s \in Seq(S) /\ DOMAIN s = 1..n
  BY <1>1, <1>5
<1>11. Range(s) = S
  BY <1>5, <1>9, <1>10 DEF Range
<1>12. \A i, j \in DOMAIN s : s[i] = s[j] => i = j
  BY <1>5 DEF IsInjective
<1>13. QED
  BY <1>10, <1>11, <1>12 DEF s

LEMMA ChunkInitInv == ChunkInit => ChunkInv
<1> SUFFICES ASSUME ChunkInit
             PROVE  ChunkInv
  OBVIOUS
<1>1. DOMAIN Nothing = {}
  BY DEF Nothing
<1>2. Committed
  BY <1>1, BoundsAssumption, FS_EmptySet DEF ChunkInit, Committed
<1>3. Open
  BY DEF ChunkInit, Open
<1>4. Memories
  <2>1. ASSUME NEW m \in Readers
        PROVE  IsSound(InMemory(m))
    <3> DEFINE none == [items |-> << >>, bytes |-> 0]
    <3>1. InMemory(m) = none
      BY DEF ChunkInit, InMemory
    <3>2. none.items = << >> /\ none.bytes = 0 /\ << >> \in Seq(Item) /\ DOMAIN << >> = {}
      OBVIOUS
    <3>3. ChunksIn(<< >>) = << >>
      BY <3>2 DEF ChunksIn
    <3>4. Total(<< >>) = 0
      <4>1. << >> \in Seq(Seq(Bytes)) /\ Len(<< >>) = 0
        OBVIOUS
      <4>2. PICK f : IsSizes(f, << >>) /\ Total(<< >>) = f[Len(<< >>)]
        BY <4>1, TotalOfPrefixes
      <4>3. QED
        BY <4>1, <4>2 DEF IsSizes
    <3>5. IsDistinct(<< >>)
      BY <3>2 DEF IsDistinct
    <3>6. none \in CacheState
      BY <3>2 DEF CacheState
    <3> HIDE DEF none
    <3>7. QED
      BY <3>1, <3>2, <3>3, <3>4, <3>5, <3>6, BoundsAssumption DEF IsSound, IsAccounted
  <2>2. /\ recent \in [Readers -> Seq(Item)]
        /\ used \in [Readers -> Nat]
    BY DEF ChunkInit
  <2>3. QED
    BY <2>1, <2>2 DEF Memories
<1>5. QED
  BY <1>2, <1>3, <1>4 DEF ChunkInv

\* What a backend object remembers, sound, keeps the memories so.
LEMMA MemoriesKept ==
    ASSUME Memories, NEW m \in Readers, NEW mem, IsSound(mem), Remembers(m, mem)
    PROVE  Memories'
<1>1. mem = [items |-> mem.items, bytes |-> mem.bytes] /\ mem.items \in Seq(Item) /\ mem.bytes \in Nat
  BY DEF IsSound, IsAccounted, CacheState
<1>2. /\ recent' \in [Readers -> Seq(Item)]
      /\ used' \in [Readers -> Nat]
  BY <1>1 DEF Memories, Remembers
<1>3. ASSUME NEW r \in Readers
      PROVE  IsSound(InMemory(r)')
  <2>1. CASE r = m
    <3>1. recent'[r] = mem.items /\ used'[r] = mem.bytes
      BY <2>1 DEF Memories, Remembers
    <3>2. InMemory(r)' = mem
      BY <1>1, <3>1 DEF InMemory
    <3>3. QED
      BY <3>2
  <2>2. CASE r # m
    <3>1. recent'[r] = recent[r] /\ used'[r] = used[r]
      BY <2>2 DEF Memories, Remembers
    <3>2. InMemory(r)' = InMemory(r)
      BY <3>1 DEF InMemory
    <3>3. IsSound(InMemory(r))
      BY DEF Memories
    <3>4. QED
      BY <3>2, <3>3
  <2>3. QED
    BY <2>1, <2>2
<1>4. QED
  BY <1>2, <1>3 DEF Memories

LEMMA MemoriesUntouched ==
    ASSUME Memories, UNCHANGED <<recent, used>>
    PROVE  Memories'
<1>1. \A m \in Readers : InMemory(m)' = InMemory(m)
  BY DEF InMemory
<1>2. \A m \in Readers : IsSound(InMemory(m)')
  BY <1>1 DEF Memories
<1>3. QED
  BY <1>2 DEF Memories

LEMMA Joined ==
    ASSUME NEW f, NEW g
    PROVE  /\ DOMAIN With(f, g) = DOMAIN f \union DOMAIN g
           /\ \A k \in DOMAIN g : With(f, g)[k] = g[k]
           /\ \A k \in DOMAIN f : k \notin DOMAIN g => With(f, g)[k] = f[k]
  BY DEF With

\* Packs that are there stay where they are when others come.
LEMMA JoinedHold ==
    ASSUME NEW old, NEW new, DOMAIN old \intersect DOMAIN new = {}, NEW e, NEW c,
           IsIn(old, e, c) \/ IsIn(new, e, c)
    PROVE  IsIn(With(old, new), e, c)
<1> DEFINE all == With(old, new)
<1>1. /\ DOMAIN all = DOMAIN old \union DOMAIN new
      /\ \A k \in DOMAIN new : all[k] = new[k]
      /\ \A k \in DOMAIN old : k \notin DOMAIN new => all[k] = old[k]
  BY Joined, Zenon
<1> HIDE DEF all
<1>2. CASE IsIn(old, e, c)
  <2>1. e.pack \in DOMAIN old /\ e.pack \notin DOMAIN new
    BY <1>2 DEF IsIn
  <2>2. all[e.pack] = old[e.pack] /\ e.pack \in DOMAIN all
    BY <1>1, <2>1
  <2>3. IsIn(all, e, c)
    BY <1>2, <2>2 DEF IsIn
  <2>4. QED
    BY <2>3 DEF all
<1>3. CASE IsIn(new, e, c)
  <2>1. e.pack \in DOMAIN new
    BY <1>3 DEF IsIn
  <2>2. all[e.pack] = new[e.pack] /\ e.pack \in DOMAIN all
    BY <1>1, <2>1
  <2>3. IsIn(all, e, c)
    BY <1>3, <2>2 DEF IsIn
  <2>4. QED
    BY <2>3 DEF all
<1>4. QED
  BY <1>2, <1>3

LEMMA BeginKeeps ==
    ASSUME ChunkInv, NEW m \in Readers, Begin(m)
    PROVE  ChunkInv'
<1>1. Committed'
  <2>1. UNCHANGED <<packs, index, files, written>> /\ Committed
    BY DEF ChunkInv, Begin
  <2>2. QED
    BY <2>1 DEF Committed, IsIn
<1>2. Open'
  <2> DEFINE t == [owner |-> m, packs |-> Nothing, index |-> Nothing, files |-> {}]
  <2>1. tx' = t
    BY DEF Begin
  <2>2. /\ t = [owner |-> t.owner, packs |-> t.packs, index |-> t.index, files |-> t.files]
        /\ t.owner = m /\ t.packs = Nothing /\ t.index = Nothing /\ t.files = {}
    OBVIOUS
  <2>3. DOMAIN Nothing = {}
    BY DEF Nothing
  <2> HIDE DEF t
  <2>4. QED
    BY <2>1, <2>2, <2>3, FS_EmptySet DEF Open
<1>3. Memories'
  BY MemoriesUntouched DEF ChunkInv, Begin
<1>4. QED
  BY <1>1, <1>2, <1>3 DEF ChunkInv

LEMMA AbortKeeps ==
    ASSUME ChunkInv, Abort
    PROVE  ChunkInv'
<1>1. Committed'
  <2>1. UNCHANGED <<packs, index, files, written>> /\ Committed
    BY DEF ChunkInv, Abort
  <2>2. QED
    BY <2>1 DEF Committed, IsIn
<1>2. Open'
  BY DEF Open, Abort
<1>3. Memories'
  BY MemoriesUntouched DEF ChunkInv, Abort
<1>4. QED
  BY <1>1, <1>2, <1>3 DEF ChunkInv

LEMMA CommitKeeps ==
    ASSUME ChunkInv, Commit
    PROVE  ChunkInv'
<1> USE DEF ChunkInv
<1>1. Committed'
  <2>1. /\ packs' = With(packs, tx.packs) /\ index' = With(index, tx.index)
        /\ files' = files \union tx.files /\ written' = written
    BY DEF Commit
  <2>2. /\ DOMAIN packs' = DOMAIN packs \union DOMAIN tx.packs
        /\ DOMAIN index' = DOMAIN index \union DOMAIN tx.index
    BY <2>1, Joined
  <2>3. /\ DOMAIN packs' \subseteq 1..written'
        /\ DOMAIN index' \subseteq Chunks
        /\ written' \in Nat /\ written' <= MaxPacks
    BY <2>1, <2>2 DEF Committed, Open, Commit
  <2>4. ASSUME NEW c \in DOMAIN index'
        PROVE  IsIn(packs', index'[c], c)
    <3>1. DOMAIN packs \intersect DOMAIN tx.packs = {}
      BY DEF Open, Commit
    <3>2. CASE c \in DOMAIN tx.index
      <4>1. index'[c] = tx.index[c]
        <5>1. With(index, tx.index)[c] = tx.index[c]
          BY <3>2 DEF With
        <5>2. QED
          BY <2>1, <5>1
      <4>2. IsIn(tx.packs, tx.index[c], c)
        BY <3>2 DEF Open, Commit
      <4>3. QED
        BY <2>1, <3>1, <4>1, <4>2, JoinedHold
    <3>3. CASE c \notin DOMAIN tx.index
      <4>1. index'[c] = index[c] /\ c \in DOMAIN index
        BY <2>1, <2>2, <3>3, Joined
      <4>2. IsIn(packs, index[c], c)
        BY <4>1 DEF Committed
      <4>3. QED
        BY <2>1, <3>1, <4>1, <4>2, JoinedHold
    <3>4. QED
      BY <3>2, <3>3
  <2>5. files' \subseteq Contents /\ IsFiniteSet(files')
    BY <2>1, FS_Union DEF Committed, Open, Commit
  <2>6. \A x \in files' : ChunksOf(x) \subseteq DOMAIN index'
    BY <2>1, <2>2 DEF Committed, Open, Commit
  <2>7. QED
    BY <2>3, <2>4, <2>5, <2>6 DEF Committed
<1>2. Open'
  BY DEF Open, Commit
<1>3. Memories'
  BY MemoriesUntouched DEF Commit
<1>4. QED
  BY <1>1, <1>2, <1>3

LEMMA ReadKeeps ==
    ASSUME ChunkInv, NEW m \in Readers, NEW x \in Contents, NEW start, NEW length,
           Read(m, x, start, length)
    PROVE  ChunkInv'
<1> USE DEF ChunkInv
<1>1. Committed'
  <2>1. UNCHANGED <<packs, index, files, written>>
    BY DEF Read
  <2>2. QED
    BY <2>1 DEF Committed, IsIn
<1>2. Open'
  BY DEF Open, Read
<1>3. Memories'
  <2> DEFINE parts == Overlap(x, start, Min({Len(x), start + length}))
             n == Len(parts)
             mem == FoldLeft(LAMBDA r, d : Touch(r, d.chunk), InMemory(m), parts)
  <2>1. /\ n \in Nat /\ DOMAIN parts = 1..n
        /\ \A k \in DOMAIN parts : parts[k].chunk \in ChunksOf(x)
    BY OverlapTypes
  <2>2. Remembers(m, mem)
    BY DEF Read
  <2>3. x \in files
    BY DEF Read
  <2> HIDE DEF parts, n
  <2>4. \A k \in 1..n : parts[k].chunk \in Chunks /\ index[parts[k].chunk] \in Entry
    BY <2>1, <2>3 DEF Committed, IsIn
  <2>5. IsSound(InMemory(m))
    BY DEF Memories
  <2>6. IsSound(mem)
    BY <2>1, <2>4, <2>5, TouchingAll
  <2> HIDE DEF mem
  <2>7. QED
    BY <2>2, <2>6, MemoriesKept
<1>4. QED
  BY <1>1, <1>2, <1>3

\* A pack of its own holds the chunks it was made of.
LEMMA NewPackHolds ==
    ASSUME NEW chunks \in Seq(Seq(Bytes)), NEW id \in PackIds
    PROVE  /\ DOMAIN EntriesOf(chunks, id) = Range(chunks)
           /\ \A c \in Range(chunks) :
                 IsIn([p \in {id} |-> PackOf(chunks)], EntriesOf(chunks, id)[c], c)
<1>1. ASSUME NEW c \in Range(chunks)
      PROVE  IsIn([p \in {id} |-> PackOf(chunks)], EntriesOf(chunks, id)[c], c)
  <2> DEFINE e == EntriesOf(chunks, id)[c]
             pk == [p \in {id} |-> PackOf(chunks)]
  <2>1. /\ e \in Entry /\ e.pack = id /\ e.size = Len(c)
        /\ SubSeq(PackOf(chunks), e.offset + 1, e.offset + e.size) = c
    BY EntriesHold
  <2>2. DOMAIN pk = {id} /\ pk[id] = PackOf(chunks)
    OBVIOUS
  <2> HIDE DEF e, pk
  <2>3. IsIn(pk, e, c)
    BY <2>1, <2>2 DEF IsIn
  <2>4. QED
    BY <2>3 DEF e, pk
<1>2. QED
  BY <1>1 DEF EntriesOf

\* What is new about a file: chunks of it, none of them known.
LEMMA NewChunks ==
    ASSUME NEW x \in Contents, NEW known
    PROVE  /\ Distinct(SplitOf[x], known) \in Seq(Seq(Bytes))
           /\ Range(Distinct(SplitOf[x], known)) = ChunksOf(x) \ known
           /\ ChunksOf(x) \subseteq Chunks
           /\ \A c \in ChunksOf(x) : c \in Seq(Bytes)
<1>1. SplitOf[x] \in Seq(Seq(Bytes))
  BY ChunkTypes
<1>2. ChunksOf(x) \subseteq Chunks
  BY DEF ChunksOf, Chunks
<1>3. QED
  BY <1>1, <1>2, DistinctHolds, ChunkTypes DEF ChunksOf

LEMMA StageOpen ==
    ASSUME ChunkInv, NEW x \in Contents, Stage(x)
    PROVE  Open'
<1> DEFINE known == With(index, tx.index)
           new == Distinct(SplitOf[x], DOMAIN known)
           id == written + 1
           entries == EntriesOf(new, id)
           pk == [p \in {id} |-> PackOf(new)]
<1>1. PICK o, p, ind, fs : tx = [owner |-> o, packs |-> p, index |-> ind, files |-> fs]
  BY DEF ChunkInv, Open, Stage
<1>2. /\ tx.owner = o /\ tx.packs = p /\ tx.index = ind /\ tx.files = fs
  BY <1>1
<1>3. /\ o \in Readers
      /\ DOMAIN p \subseteq 1..written
      /\ DOMAIN p \intersect DOMAIN packs = {}
      /\ DOMAIN ind \subseteq Chunks
      /\ DOMAIN ind \intersect DOMAIN index = {}
      /\ \A c \in DOMAIN ind : IsIn(p, ind[c], c)
      /\ fs \subseteq Contents /\ IsFiniteSet(fs)
      /\ \A y \in fs : ChunksOf(y) \subseteq DOMAIN index \union DOMAIN ind
  BY <1>2 DEF ChunkInv, Open, Stage
<1>4. DOMAIN known = DOMAIN index \union DOMAIN ind
  BY <1>2, Joined
<1>5. /\ new \in Seq(Seq(Bytes))
      /\ Range(new) = ChunksOf(x) \ DOMAIN known
      /\ ChunksOf(x) \subseteq Chunks
  BY NewChunks
<1>6. fs \union {x} \subseteq Contents /\ IsFiniteSet(fs \union {x})
  BY <1>3, FS_AddElement
<1>7. packs' = packs /\ index' = index
  BY DEF Stage
<1>8. CASE new = << >>
  <2>1. tx' = [owner |-> o, packs |-> p, index |-> ind, files |-> fs \union {x}] /\ written' = written
    BY <1>1, <1>8 DEF Stage
  <2>2. tx'.owner = o /\ tx'.packs = p /\ tx'.index = ind /\ tx'.files = fs \union {x}
    BY <2>1
  <2>3. Range(new) = {}
    BY <1>8 DEF Range
  <2>4. ChunksOf(x) \subseteq DOMAIN index \union DOMAIN ind
    BY <1>4, <1>5, <2>3
  <2>5. QED
    BY <1>3, <1>6, <1>7, <2>1, <2>2, <2>4 DEF Open
<1>9. CASE new # << >>
  <2>1. /\ tx' = [owner |-> o, packs |-> With(p, pk), index |-> With(ind, entries), files |-> fs \union {x}]
        /\ written' = id /\ written < MaxPacks
    BY <1>1, <1>2, <1>9 DEF Stage
  <2>2. written \in Nat /\ id \in PackIds
    BY <2>1, BoundsAssumption DEF ChunkInv, Committed, PackIds
  <2>3. /\ DOMAIN entries = Range(new)
        /\ \A c \in Range(new) : IsIn(pk, entries[c], c)
    BY <1>5, <2>2, NewPackHolds
  <2>4. DOMAIN pk = {id}
    OBVIOUS
  <2>5. DOMAIN packs \subseteq 1..written
    BY DEF ChunkInv, Committed
  <2> HIDE DEF entries, new, known, pk
  <2> DEFINE P == With(p, pk)
             I == With(ind, entries)
  <2>6. /\ DOMAIN P = DOMAIN p \union {id} /\ DOMAIN I = DOMAIN ind \union Range(new)
        /\ \A c \in Range(new) : I[c] = entries[c]
        /\ \A c \in DOMAIN ind : c \notin Range(new) => I[c] = ind[c]
    BY <2>3, <2>4 DEF With
  <2>7. DOMAIN p \intersect DOMAIN pk = {}
    BY <1>3, <2>2, <2>4
  <2>8. \A c \in DOMAIN I : IsIn(P, I[c], c)
    <3>1. ASSUME NEW c \in DOMAIN I
          PROVE  IsIn(P, I[c], c)
      <4>1. CASE c \in Range(new)
        <5>1. I[c] = entries[c] /\ IsIn(pk, entries[c], c)
          BY <2>3, <2>6, <4>1
        <5> HIDE DEF I
        <5>2. QED
          BY <2>7, <5>1, JoinedHold
      <4>2. CASE c \notin Range(new)
        <5>1. I[c] = ind[c] /\ IsIn(p, ind[c], c)
          BY <1>3, <2>6, <4>2
        <5> HIDE DEF I
        <5>2. QED
          BY <2>7, <5>1, JoinedHold
      <4>3. QED
        BY <4>1, <4>2
    <3>2. QED
      BY <3>1
  <2> HIDE DEF P, I
  <2>9. tx' = [owner |-> o, packs |-> P, index |-> I, files |-> fs \union {x}]
    BY <2>1 DEF P, I
  <2>10. tx'.owner = o /\ tx'.packs = P /\ tx'.index = I /\ tx'.files = fs \union {x}
    BY <2>9
  <2>11. /\ DOMAIN P \subseteq 1..written' /\ DOMAIN P \intersect DOMAIN packs = {}
    BY <1>3, <2>1, <2>2, <2>5, <2>6
  <2>12. DOMAIN I \subseteq Chunks /\ DOMAIN I \intersect DOMAIN index = {}
    BY <1>3, <1>4, <1>5, <2>6
  <2>13. \A y \in fs \union {x} : ChunksOf(y) \subseteq DOMAIN index \union DOMAIN I
    BY <1>3, <1>4, <1>5, <2>6
  <2>14. QED
    BY <1>3, <1>6, <1>7, <2>8, <2>9, <2>10, <2>11, <2>12, <2>13 DEF Open
<1>10. QED
  BY <1>8, <1>9

LEMMA StageKeeps ==
    ASSUME ChunkInv, NEW x \in Contents, Stage(x)
    PROVE  ChunkInv'
<1> DEFINE known == With(index, tx.index)
           new == Distinct(SplitOf[x], DOMAIN known)
           id == written + 1
           entries == EntriesOf(new, id)
           where == With(known, entries)
           s == SplitOf[x]
           mem == RememberAll(InMemory(tx.owner), s, where)
<1>1. Committed'
  <2>1. UNCHANGED <<packs, index, files>> /\ Committed
    BY DEF ChunkInv, Stage
  <2>2. written' \in Nat /\ written' <= MaxPacks /\ written <= written'
    <3>1. written' = written \/ (written' = written + 1 /\ written < MaxPacks)
      BY DEF Stage
    <3>2. written \in Nat /\ written <= MaxPacks /\ MaxPacks \in Nat
      BY BoundsAssumption DEF ChunkInv, Committed
    <3>3. QED
      BY <3>1, <3>2
  <2>3. 1..written \subseteq 1..written'
    BY <2>1, <2>2 DEF Committed
  <2>4. QED
    BY <2>1, <2>2, <2>3 DEF Committed, IsIn
<1>2. Open'
  BY StageOpen
<1>3. Memories'
  <2>1. /\ new \in Seq(Seq(Bytes))
        /\ Range(new) = ChunksOf(x) \ DOMAIN known
        /\ ChunksOf(x) \subseteq Chunks
    BY NewChunks
  <2>2. s \in Seq(Seq(Bytes)) /\ \A i \in DOMAIN s : s[i] \in ChunksOf(x)
    BY ChunkTypes DEF ChunksOf, Range
  <2>3. DOMAIN known = DOMAIN index \union DOMAIN tx.index
    BY DEF With
  <2>4. \A c \in DOMAIN known : known[c] \in Entry
    <3>1. ASSUME NEW c \in DOMAIN known
          PROVE  known[c] \in Entry
      <4>1. CASE c \in DOMAIN tx.index
        <5>1. known[c] = tx.index[c]
          BY <4>1 DEF With
        <5>2. IsIn(tx.packs, tx.index[c], c)
          BY <4>1 DEF ChunkInv, Open, Stage
        <5>3. QED
          BY <5>1, <5>2 DEF IsIn
      <4>2. CASE c \notin DOMAIN tx.index
        <5>1. known[c] = index[c] /\ c \in DOMAIN index
          BY <2>3, <4>2 DEF With
        <5>2. IsIn(packs, index[c], c)
          BY <5>1 DEF ChunkInv, Committed
        <5>3. QED
          BY <5>1, <5>2 DEF IsIn
      <4>3. QED
        BY <4>1, <4>2
    <3>2. QED
      BY <3>1
  <2>5. DOMAIN entries = Range(new)
    BY DEF EntriesOf
  <2>6. \A c \in Range(new) : entries[c] \in Entry
    <3>1. ASSUME NEW c \in Range(new)
          PROVE  entries[c] \in Entry
      <4>1. new # << >>
        BY <3>1 DEF Range
      <4>2. written < MaxPacks
        BY <4>1 DEF Stage
      <4>3. id \in PackIds
        BY <4>2, BoundsAssumption DEF ChunkInv, Committed, PackIds
      <4>4. \A d \in Range(new) : IsIn([p \in {id} |-> PackOf(new)], entries[d], d)
        BY <2>1, <4>3, NewPackHolds
      <4> HIDE DEF new, entries
      <4>5. QED
        BY <3>1, <4>4 DEF IsIn
    <3>2. QED
      BY <3>1
  <2>7. Remembers(tx.owner, mem)
    BY DEF Stage, RememberAll
  <2> HIDE DEF known, new, entries
  <2>8. \A c \in ChunksOf(x) : where[c] \in Entry
    <3>1. ASSUME NEW c \in ChunksOf(x)
          PROVE  where[c] \in Entry
      <4>1. CASE c \in Range(new)
        <5>1. where[c] = entries[c]
          BY <2>5, <4>1 DEF With
        <5>2. QED
          BY <2>6, <4>1, <5>1
      <4>2. CASE c \notin Range(new)
        <5>1. c \in DOMAIN known
          BY <2>1, <4>2
        <5>2. where[c] = known[c]
          BY <2>5, <4>2, <5>1 DEF With
        <5>3. QED
          BY <2>4, <5>1, <5>2
      <4>3. QED
        BY <4>1, <4>2
    <3>2. QED
      BY <3>1
  <2> HIDE DEF where, s
  <2>9. tx.owner \in Readers
    BY DEF ChunkInv, Open, Stage
  <2>10. IsSound(InMemory(tx.owner)) /\ Memories
    BY <2>9 DEF ChunkInv, Memories
  <2>11. IsSound(mem)
    <3> DEFINE n == Len(s)
    <3>1. n \in Nat /\ DOMAIN s = 1..n
      BY <2>2
    <3>2. \A k \in 1..n : s[k] \in Chunks /\ where[s[k]] \in Entry
      BY <2>1, <2>2, <2>8, <3>1
    <3> HIDE DEF n
    <3>3. QED
      BY <2>10, <3>1, <3>2, RememberingAll
  <2> HIDE DEF mem
  <2>12. QED
    BY <2>7, <2>9, <2>10, <2>11, MemoriesKept
<1>4. QED
  BY <1>1, <1>2, <1>3 DEF ChunkInv

\* The chunks that gc copies are the live ones.
LEMMA LiveChunks ==
    ASSUME ChunkInv, NEW keep, keep \subseteq files
    PROVE  LET live == SetToSeq(UNION {Range(SplitOf[x]) : x \in keep})
           IN  /\ live \in Seq(Chunks) /\ live \in Seq(Seq(Bytes))
               /\ Range(live) = UNION {ChunksOf(x) : x \in keep}
               /\ Range(live) \subseteq DOMAIN index
               /\ [i \in DOMAIN live |-> Stored(index[live[i]])] = live
               /\ \A i, j \in DOMAIN live : live[i] = live[j] => i = j
<1> DEFINE S == UNION {Range(SplitOf[x]) : x \in keep}
           live == SetToSeq(S)
<1>1. keep \subseteq Contents /\ IsFiniteSet(keep)
  BY FS_Subset DEF ChunkInv, Committed
<1>2. \A x \in keep : IsFiniteSet(Range(SplitOf[x]))
  <2>1. ASSUME NEW x \in keep
        PROVE  IsFiniteSet(Range(SplitOf[x]))
    <3> DEFINE s == SplitOf[x]
               n == Len(s)
    <3>1. s \in Seq(Seq(Bytes))
      BY <1>1, ChunkTypes
    <3> HIDE DEF s
    <3>2. n \in Nat /\ DOMAIN s = 1..n
      BY <3>1
    <3> HIDE DEF n
    <3>3. IsFiniteSet(1..n)
      <4>1. 1 \in Int /\ n \in Int
        BY <3>2
      <4>2. QED
        BY <4>1, FS_Interval
    <3>4. s \in Surjection(1..n, Range(s))
      <4>1. s \in [1..n -> Range(s)]
        <5>1. s \in Seq(Seq(Bytes)) /\ DOMAIN s = 1..n
          BY <3>1, <3>2
        <5>2. s = [i \in 1..n |-> s[i]]
          BY <5>1, <3>2
        <5>3. \A i \in 1..n : s[i] \in Range(s)
          BY <3>2 DEF Range
        <5>4. QED
          BY <5>2, <5>3
      <4>2. \A t \in Range(s) : \E i \in 1..n : s[i] = t
        BY <3>2 DEF Range
      <4>3. QED
        BY <4>1, <4>2 DEF Surjection
    <3>5. IsFiniteSet(Range(s))
      BY <3>3, <3>4, FS_Surjection
    <3>6. QED
      BY <3>5 DEF s
  <2>2. QED
    BY <2>1
<1>3. IsFiniteSet(S)
  <2> DEFINE U == {Range(SplitOf[x]) : x \in keep}
             f == [x \in keep |-> Range(SplitOf[x])]
  <2>1. IsFiniteSet(U)
    <3>1. f \in Surjection(keep, U)
      BY DEF Surjection
    <3> HIDE DEF f, U
    <3>2. QED
      BY <1>1, <3>1, FS_Surjection
  <2>2. \A t \in U : IsFiniteSet(t)
    BY <1>2
  <2> HIDE DEF U
  <2>3. IsFiniteSet(UNION U)
    BY <2>1, <2>2, FS_UNION
  <2>4. QED
    BY <2>3 DEF U
<1>4. S \subseteq DOMAIN index /\ S \subseteq Chunks /\ S = UNION {ChunksOf(x) : x \in keep}
  <2>1. \A x \in keep : ChunksOf(x) \subseteq DOMAIN index
    BY DEF ChunkInv, Committed
  <2>2. DOMAIN index \subseteq Chunks
    BY DEF ChunkInv, Committed
  <2>3. QED
    BY <2>1, <2>2 DEF ChunksOf
<1> HIDE DEF S
<1>5. /\ live \in Seq(S) /\ Range(live) = S
      /\ \A i, j \in DOMAIN live : live[i] = live[j] => i = j
  BY <1>3, Listing
<1> HIDE DEF live
<1>6. live \in Seq(Chunks) /\ live \in Seq(Seq(Bytes))
  <2>1. Seq(S) \subseteq Seq(Chunks)
    BY <1>4, SeqMonotonic
  <2>2. Chunks \subseteq Seq(Bytes)
    BY ChunkTypes
  <2>3. Seq(Chunks) \subseteq Seq(Seq(Bytes))
    BY <2>2, SeqMonotonic
  <2>4. QED
    BY <1>5, <2>1, <2>3
<1>7. [i \in DOMAIN live |-> Stored(index[live[i]])] = live
  <2>1. ASSUME NEW i \in DOMAIN live
        PROVE  Stored(index[live[i]]) = live[i]
    <3>1. live[i] \in DOMAIN index
      BY <1>4, <1>5 DEF Range
    <3>2. IsIn(packs, index[live[i]], live[i])
      BY <3>1 DEF ChunkInv, Committed
    <3>3. QED
      BY <3>2 DEF IsIn, Stored
  <2>2. live = [i \in DOMAIN live |-> live[i]]
    BY <1>6
  <2>3. QED
    BY <2>1, <2>2
<1>8. QED
  BY <1>4, <1>5, <1>6, <1>7 DEF live, S

LEMMA CompactKeeps ==
    ASSUME ChunkInv, NEW keep \in SUBSET files, Compact(keep)
    PROVE  ChunkInv'
<1> DEFINE live == SetToSeq(UNION {Range(SplitOf[x]) : x \in keep})
           id == written + 1
           copies == [i \in DOMAIN live |-> Stored(index[live[i]])]
<1>1. /\ live \in Seq(Seq(Bytes))
      /\ Range(live) = UNION {ChunksOf(x) : x \in keep}
      /\ Range(live) \subseteq DOMAIN index
      /\ copies = live
  BY LiveChunks
<1>2. /\ files' = keep /\ index' = EntriesOf(live, id)
      /\ \/ keep = {} /\ packs' = Nothing /\ written' = written
         \/ written < MaxPacks /\ written' = id /\ packs' = [p \in {id} |-> PackOf(copies)]
      /\ tx = NoTx /\ tx' = NoTx /\ UNCHANGED <<recent, used>>
  BY DEF Compact
<1> HIDE DEF live, copies
<1>3. /\ written \in Nat /\ MaxPacks \in Nat /\ written <= MaxPacks
      /\ keep \subseteq Contents /\ IsFiniteSet(keep) /\ DOMAIN index \subseteq Chunks
  BY BoundsAssumption, FS_Subset DEF ChunkInv, Committed
<1>4. DOMAIN index' = Range(live)
  BY <1>2 DEF EntriesOf
<1>5. Committed'
  <2>1. DOMAIN index' \subseteq Chunks
    BY <1>1, <1>3, <1>4
  <2>2. \A x \in files' : ChunksOf(x) \subseteq DOMAIN index'
    BY <1>1, <1>2, <1>4
  <2>3. files' \subseteq Contents /\ IsFiniteSet(files')
    BY <1>2, <1>3
  <2>4. CASE keep = {} /\ packs' = Nothing /\ written' = written
    <3>1. DOMAIN index' = {}
      BY <1>1, <1>4, <2>4
    <3>2. DOMAIN packs' = {}
      BY <2>4 DEF Nothing
    <3>3. QED
      BY <1>3, <2>1, <2>2, <2>3, <2>4, <3>1, <3>2 DEF Committed
  <2>5. CASE written < MaxPacks /\ written' = id /\ packs' = [p \in {id} |-> PackOf(copies)]
    <3>1. id \in PackIds /\ written' \in Nat /\ written' <= MaxPacks /\ id \in 1..written'
      BY <1>3, <2>5 DEF PackIds
    <3>2. packs' = [p \in {id} |-> PackOf(live)] /\ DOMAIN packs' = {id}
      BY <1>1, <2>5
    <3>3. \A c \in Range(live) : IsIn([p \in {id} |-> PackOf(live)], EntriesOf(live, id)[c], c)
      BY <1>1, <3>1, NewPackHolds
    <3> HIDE DEF id
    <3>4. \A c \in DOMAIN index' : IsIn(packs', index'[c], c)
      BY <1>2, <1>4, <3>2, <3>3 DEF id
    <3>5. QED
      BY <2>1, <2>2, <2>3, <3>1, <3>2, <3>4 DEF Committed
  <2>6. QED
    BY <1>2, <2>4, <2>5
<1>6. Open'
  BY <1>2 DEF Open
<1>7. Memories'
  BY <1>2, MemoriesUntouched DEF ChunkInv
<1>8. QED
  BY <1>5, <1>6, <1>7 DEF ChunkInv

LEMMA ChunkInvHolds == ChunkSpec => []ChunkInv
<1>1. ASSUME ChunkInv, ChunkNext
      PROVE  ChunkInv'
  <2>1. ASSUME NEW m \in Readers, Begin(m)
        PROVE  ChunkInv'
    BY <1>1, <2>1, BeginKeeps
  <2>2. ASSUME NEW x \in Contents, Stage(x)
        PROVE  ChunkInv'
    BY <1>1, <2>2, StageKeeps
  <2>3. ASSUME Commit
        PROVE  ChunkInv'
    BY <1>1, <2>3, CommitKeeps
  <2>4. ASSUME Abort
        PROVE  ChunkInv'
    BY <1>1, <2>4, AbortKeeps
  <2>5. ASSUME NEW m \in Readers, NEW x \in Contents, NEW start, NEW length, Read(m, x, start, length)
        PROVE  ChunkInv'
    BY <1>1, <2>5, ReadKeeps
  <2>6. ASSUME NEW keep \in SUBSET files, Compact(keep)
        PROVE  ChunkInv'
    BY <1>1, <2>6, CompactKeeps
  <2>7. QED
    BY <1>1, <2>1, <2>2, <2>3, <2>4, <2>5, <2>6 DEF ChunkNext
<1>2. ASSUME ChunkInv, UNCHANGED chunkVars
      PROVE  ChunkInv'
  <2>1. /\ packs' = packs /\ index' = index /\ files' = files /\ tx' = tx
        /\ recent' = recent /\ used' = used /\ written' = written
    BY <1>2 DEF chunkVars
  <2>2. Committed'
    BY <1>2, <2>1 DEF ChunkInv, Committed, IsIn
  <2>3. Open'
    BY <1>2, <2>1 DEF ChunkInv, Open, IsIn
  <2>4. Memories'
    BY <1>2, <2>1, MemoriesUntouched DEF ChunkInv
  <2>5. QED
    BY <2>2, <2>3, <2>4 DEF ChunkInv
<1>3. QED
  BY <1>1, <1>2, ChunkInitInv, PTL DEF ChunkSpec

(* The counter of the chunk cache is the size of what it holds, within the *)
(* budget and with no chunk in it twice, after every read, upload and gc   *)
(* (_remember_recent_chunk_bytes, _recent_chunk_view).                     *)
THEOREM CachesAreAccounted == ChunkSpec => []CacheIsAccounted
<1>1. ASSUME ChunkInv
      PROVE  CacheIsAccounted
  <2>1. ASSUME NEW m \in Readers
        PROVE  /\ used[m] = Total([i \in DOMAIN recent[m] |-> recent[m][i].chunk])
               /\ used[m] <= MaxCacheBytes
               /\ \A i, j \in DOMAIN recent[m] : recent[m][i].chunk = recent[m][j].chunk => i = j
    <3>1. IsSound(InMemory(m))
      BY <1>1 DEF ChunkInv, Memories
    <3>2. InMemory(m).items = recent[m] /\ InMemory(m).bytes = used[m]
      BY DEF InMemory
    <3>3. QED
      BY <3>1, <3>2 DEF IsSound, IsAccounted, IsDistinct, ChunksIn
  <2>2. QED
    BY <2>1 DEF CacheIsAccounted
<1>2. QED
  BY <1>1, ChunkInvHolds, PTL

-----------------------------------------------------------------------------
(* Ranges *)

LEMMA FlatOfAppend ==
    ASSUME NEW V, NEW s \in Seq(Seq(V)), NEW c \in Seq(V)
    PROVE  FlattenSeq(Append(s, c)) = FlattenSeq(s) \o c
<1>1. PICK f : IsFlat(f, V, s) /\ FlattenSeq(s) = f[Len(s)]
  BY FlatOfPrefixes
<1> DEFINE n == Len(s)
           last == f[n] \o c
           t == Append(s, c)
           g == [k \in 0..n + 1 |-> IF k = n + 1 THEN last ELSE f[k]]
<1>2. t \in Seq(Seq(V)) /\ Len(t) = n + 1 /\ n \in Nat
  OBVIOUS
<1>3. (\A k \in 1..n : t[k] = s[k]) /\ t[n + 1] = c
  OBVIOUS
<1>4. f[n] \in Seq(V) /\ f[0] = << >> /\ \A k \in 0..n : f[k] \in Seq(V)
  BY <1>1, <1>2 DEF IsFlat
<1>5. last \in Seq(V)
  BY <1>4, ConcatProperties
<1> HIDE DEF last, n, t
<1>6. g[n + 1] = last /\ \A k \in 0..n : g[k] = f[k]
  BY <1>2
<1>11. g = [k \in 0..n + 1 |-> g[k]]
  OBVIOUS
<1>7. \A k \in 1..n : f[k] = f[k - 1] \o s[k]
  BY <1>1 DEF IsFlat, n
<1> HIDE DEF g
<1>8. IsFlat(g, V, t)
  <2>1. \A k \in 0..n + 1 : g[k] \in Seq(V)
    <3>1. \A k \in 0..n + 1 : k \in 0..n \/ k = n + 1
      BY <1>2
    <3>2. QED
      BY <1>4, <1>5, <1>6, <3>1
  <2>2. ASSUME NEW k \in 1..n + 1
        PROVE  g[k] = g[k - 1] \o t[k]
    <3>1. CASE k = n + 1
      <4>1. g[k - 1] = f[n] /\ g[k] = last /\ t[k] = c
        BY <1>2, <1>3, <1>6, <3>1
      <4>2. QED
        BY <4>1 DEF last
    <3>2. CASE k # n + 1
      <4>1. k \in 1..n /\ k - 1 \in 0..n /\ k \in 0..n
        BY <1>2, <3>2
      <4>2. g[k - 1] = f[k - 1] /\ g[k] = f[k] /\ t[k] = s[k]
        BY <1>3, <1>6, <4>1
      <4>3. f[k] = f[k - 1] \o s[k]
        BY <1>7, <4>1
      <4>4. QED
        BY <4>2, <4>3
    <3>3. QED
      BY <3>1, <3>2
  <2>3. g[0] = << >>
    BY <1>2, <1>4, <1>6
  <2>4. g \in [0..n + 1 -> Seq(V)]
    BY <1>11, <2>1
  <2>5. QED
    BY <1>2, <2>2, <2>3, <2>4 DEF IsFlat
<1>9. FlattenSeq(t) = g[n + 1]
  BY <1>2, <1>8, FlatIs
<1>10. QED
  BY <1>1, <1>6, <1>9 DEF t, n, last

\* Where the chunks of a file are in it.
LEMMA FileBytes ==
    ASSUME NEW x \in Contents, NEW g, IsSizes(g, SplitOf[x])
    PROVE  /\ x \in Seq(Bytes) /\ Len(x) \in Nat /\ Len(x) = g[Len(SplitOf[x])]
           /\ \A k \in 1..Len(SplitOf[x]) :
                 /\ g[k - 1] \in Nat /\ g[k] \in Nat /\ g[k - 1] < g[k] /\ g[k] <= Len(x)
                 /\ g[k] = g[k - 1] + Len(SplitOf[x][k])
                 /\ SplitOf[x][k] = SubSeq(x, g[k - 1] + 1, g[k])
<1> DEFINE s == SplitOf[x]
           n == Len(s)
<1>1. s \in Seq(Seq(Bytes)) /\ \A k \in DOMAIN s : s[k] \in Chunks
  BY ChunkTypes
<1>2. FlattenSeq(s) = x
  BY SplitAssumption
<1> HIDE DEF s
<1>3. /\ x \in Seq(Bytes) /\ Len(x) = g[n]
      /\ \A k \in 1..n : /\ g[k] <= g[n]
                         /\ \A j \in 1..Len(s[k]) : x[g[k - 1] + j] = s[k][j]
  BY <1>1, <1>2, FlatBytes DEF s
<1>4. n \in Nat /\ DOMAIN s = 1..n
  BY <1>1
<1>5. \A k \in 0..n : g[k] \in Nat
  BY <1>1, SizesAreNumbers DEF s
<1> HIDE DEF n
<1>6. ASSUME NEW k \in 1..n
      PROVE  /\ g[k - 1] \in Nat /\ g[k] \in Nat /\ g[k - 1] < g[k] /\ g[k] <= Len(x)
             /\ g[k] = g[k - 1] + Len(s[k])
             /\ s[k] = SubSeq(x, g[k - 1] + 1, g[k])
  <2> DEFINE c == s[k]
             at == g[k - 1]
  <2>1. at \in Nat /\ g[k] \in Nat
    BY <1>4, <1>5
  <2>2. g[k] = at + Len(c)
    BY DEF IsSizes, n, s
  <2>3. c \in Seq(Bytes) /\ Len(c) \in Nat /\ Len(c) > 0
    BY <1>1, <1>4, ChunkTypes
  <2>4. \A j \in 1..Len(c) : x[at + j] = c[j]
    BY <1>3
  <2>5. at + Len(c) <= Len(x)
    BY <1>3, <2>2
  <2> HIDE DEF c, at
  <2>6. SubSeq(x, at + 1, at + Len(c)) = c
    BY <1>3, <2>1, <2>3, <2>4, <2>5, PartIs
  <2>7. at < g[k] /\ g[k] <= Len(x)
    BY <2>1, <2>2, <2>3, <2>5
  <2>8. QED
    BY <2>1, <2>2, <2>6, <2>7 DEF c, at
<1>7. Len(x) \in Nat
  BY <1>3
<1> HIDE DEF n
<1>8. QED
  <2>1. \A k \in 1..n :
           /\ g[k - 1] \in Nat /\ g[k] \in Nat /\ g[k - 1] < g[k] /\ g[k] <= Len(x)
           /\ g[k] = g[k - 1] + Len(s[k])
           /\ s[k] = SubSeq(x, g[k - 1] + 1, g[k])
    BY <1>6, Zenon
  <2>2. x \in Seq(Bytes) /\ Len(x) = g[n]
    BY <1>3
  <2>3. QED
    BY <1>7, <2>1, <2>2, Zenon DEF n, s

LEMMA OfTwo ==
    ASSUME NEW a \in Nat, NEW b \in Nat
    PROVE  /\ Max({a, b}) = IF a >= b THEN a ELSE b
           /\ Min({a, b}) = IF a <= b THEN a ELSE b
  BY DEF Max, Min

\* The bytes of the part d that are within the range.
Cut(d, start, end) ==
    LET low == Max({start, d.from}) - d.from
        high == Min({end, d.from + Len(d.chunk)}) - d.from
    IN  SubSeq(d.chunk, low + 1, high)

Cuts(parts, start, end) == [i \in DOMAIN parts |-> Cut(parts[i], start, end)]

\* d is the part of x from a up to b, and the range meets it from lo to hi.
Meets(d, x, a, b, start, end, lo, hi) ==
    /\ x \in Seq(Bytes) /\ start \in Nat /\ end \in Nat /\ start < end /\ end <= Len(x)
    /\ a \in Nat /\ b \in Nat /\ a < b /\ b <= Len(x) /\ a < end /\ start < b
    /\ d.from = a /\ d.chunk = SubSeq(x, a + 1, b) /\ a + Len(d.chunk) = b
    /\ lo = (IF start >= a THEN start ELSE a)
    /\ hi = (IF end <= b THEN end ELSE b)

\* The cut of a part that overlaps the range, in terms of the file.
LEMMA CutIs ==
    ASSUME NEW d, NEW x, NEW a, NEW b, NEW start, NEW end, NEW lo, NEW hi,
           Meets(d, x, a, b, start, end, lo, hi)
    PROVE  Cut(d, start, end) = SubSeq(x, lo + 1, hi)
<1> USE DEF Meets
<1>1. Max({start, a}) = lo /\ Min({end, b}) = hi
  BY OfTwo
<1>2. lo \in Nat /\ hi \in Nat /\ a <= lo /\ lo < hi /\ hi <= b /\ Len(x) \in Nat
  OBVIOUS
<1>3. Cut(d, start, end) = SubSeq(SubSeq(x, a + 1, b), (lo - a) + 1, hi - a)
  BY <1>1 DEF Cut
<1>4. /\ a + 1 \in 1..Len(x) /\ b \in 1..Len(x)
      /\ (lo - a) + 1 \in 1..b - (a + 1) + 1 /\ hi - a \in 1..b - (a + 1) + 1
      /\ (a + 1) + ((lo - a) + 1) - 1 = lo + 1 /\ (a + 1) + (hi - a) - 1 = hi
  BY <1>2
<1> DEFINE p == (lo - a) + 1
           q == hi - a
           r == a + 1
<1>5. /\ r \in 1..Len(x) /\ p \in 1..b - r + 1 /\ q \in 1..b - r + 1
      /\ r + p - 1 = lo + 1 /\ r + q - 1 = hi
  BY <1>4
<1> HIDE DEF p, q, r
<1>6. SubSeq(SubSeq(x, r, b), p, q) = SubSeq(x, r + p - 1, r + q - 1)
  BY <1>4, <1>5, SubSeqOfSubSeq
<1>7. QED
  BY <1>3, <1>5, <1>6 DEF p, q, r

LEMMA CutsOfAppend ==
    ASSUME NEW S, NEW parts \in Seq(S), NEW d \in S, NEW start, NEW end, NEW V,
           Cuts(parts, start, end) \in Seq(V), Cut(d, start, end) \in V
    PROVE  Cuts(Append(parts, d), start, end) = Append(Cuts(parts, start, end), Cut(d, start, end))
<1> DEFINE n == Len(parts)
           t == Append(parts, d)
           cut == Cut(d, start, end)
           cuts == Cuts(parts, start, end)
           all == Cuts(t, start, end)
           u == Append(cuts, cut)
<1>1. n \in Nat /\ DOMAIN parts = 1..n /\ DOMAIN t = 1..n + 1
      /\ t[n + 1] = d /\ \A i \in 1..n : t[i] = parts[i]
  OBVIOUS
<1>2. DOMAIN cuts = 1..n /\ \A i \in 1..n : cuts[i] = Cut(parts[i], start, end)
  BY <1>1 DEF Cuts
<1>3. all = [i \in 1..n + 1 |-> Cut(t[i], start, end)]
  BY <1>1 DEF Cuts
<1>4. cuts \in Seq(V) /\ cut \in V
  OBVIOUS
<1> HIDE DEF t, cut, cuts, all, n
<1>5. Len(cuts) = n
  BY <1>1, <1>2, <1>4
<1>6. /\ u = [i \in 1..n + 1 |-> u[i]]
      /\ u[n + 1] = cut /\ \A i \in 1..n : u[i] = cuts[i]
  <2>1. u \in Seq(V) /\ Len(u) = n + 1
    BY <1>4, <1>5
  <2>2. u[n + 1] = cut /\ \A i \in 1..n : u[i] = cuts[i]
    BY <1>1, <1>4, <1>5
  <2> HIDE DEF u
  <2>3. u = [i \in 1..n + 1 |-> u[i]]
    BY <2>1
  <2>4. QED
    BY <2>2, <2>3
<1> HIDE DEF u
<1>7. ASSUME NEW i \in 1..n + 1
      PROVE  Cut(t[i], start, end) = u[i]
  <2>1. CASE i = n + 1
    BY <1>1, <1>6, <2>1 DEF cut
  <2>2. CASE i # n + 1
    <3>1. i \in 1..n
      BY <1>1, <2>2
    <3>2. cuts[i] = Cut(parts[i], start, end) /\ t[i] = parts[i] /\ u[i] = cuts[i]
      BY <1>1, <1>2, <1>6, <3>1
    <3>3. QED
      BY <3>2
  <2>3. QED
    BY <2>1, <2>2
<1>8. all = u
  BY <1>3, <1>6, <1>7
<1>9. QED
  BY <1>8 DEF all, u, t, cut, cuts

LEMMA CutsAreBytes ==
    ASSUME NEW parts, NEW n \in Nat, DOMAIN parts = 1..n, NEW start, NEW end,
           \A i \in 1..n : Cut(parts[i], start, end) \in Seq(Bytes)
    PROVE  Cuts(parts, start, end) \in Seq(Seq(Bytes))
<1> DEFINE V == Seq(Bytes)
           cuts == Cuts(parts, start, end)
<1>1. cuts \in [1..n -> V]
  BY DEF Cuts
<1> HIDE DEF cuts, V
<1>2. cuts \in Seq(V)
  BY <1>1
<1>3. QED
  BY <1>2 DEF cuts, V

\* The parts of the chunks that overlap a range make up the range.
LEMMA RangeIs ==
    ASSUME NEW x \in Contents, NEW start \in Nat, NEW end \in Nat, start < end, end <= Len(x)
    PROVE  FlattenSeq(Cuts(Overlap(x, start, end), start, end)) = SubSeq(x, start + 1, end)
<1> DEFINE s == SplitOf[x]
           n == Len(s)
           D == [chunk : ChunksOf(x), from : Nat]
           P == Parts(x)
<1>1. s \in Seq(Seq(Bytes))
  BY ChunkTypes
<1>2. n \in Nat
  <2> HIDE DEF s
  <2> QED
    BY <1>1
<1>3. PICK g : IsSizes(g, s)
  BY <1>1, TotalOfPrefixes
<1> DEFINE upto(k) == IF end <= g[k] THEN end ELSE g[k]
           lo(k) == IF start >= g[k - 1] THEN start ELSE g[k - 1]
           size == Len(x)
<1>4. /\ x \in Seq(Bytes) /\ size \in Nat /\ size = g[n]
      /\ \A k \in 1..n :
            /\ g[k - 1] \in Nat /\ g[k] \in Nat /\ g[k - 1] < g[k] /\ g[k] <= size
            /\ g[k] = g[k - 1] + Len(s[k])
            /\ s[k] = SubSeq(x, g[k - 1] + 1, g[k])
  BY <1>3, FileBytes
<1>5. g[0] = 0
  BY <1>3 DEF IsSizes
<1>6. /\ P \in Seq(D) /\ Len(P) = n
      /\ \A k \in 1..n : P[k] = [chunk |-> s[k], from |-> Before(s, k)]
  <2>1. /\ P \in Seq(D) /\ Len(P) = n /\ DOMAIN P = DOMAIN s
        /\ \A k \in DOMAIN P : P[k] = [chunk |-> s[k], from |-> Before(s, k)]
    BY PartsOf
  <2>2. DOMAIN s = 1..n
    <3> HIDE DEF s
    <3> QED
      BY <1>1
  <2> HIDE DEF P, D, n, s
  <2>3. QED
    BY <2>1, <2>2
<1>7. \A k \in 1..n : Before(s, k) = g[k - 1]
  <2>1. ASSUME NEW k \in 1..n
        PROVE  Before(s, k) = g[k - 1]
    <3>1. k - 1 \in 0..n
      BY <1>2
    <3>2. QED
      BY <1>1, <1>3, <3>1, TotalOfParts DEF Before
  <2>2. QED
    BY <2>1
<1>8. \A k \in 1..n : P[k] \in D /\ P[k].chunk = s[k] /\ P[k].from = g[k - 1]
  <2>1. \A k \in 1..n : P[k] \in D
    <3> HIDE DEF D, P
    <3> QED
      BY <1>2, <1>6
  <2>2. \A k \in 1..n : P[k].chunk = s[k] /\ P[k].from = g[k - 1]
    <3>1. \A k \in 1..n : P[k] = [chunk |-> s[k], from |-> Before(s, k)]
      BY <1>6
    <3> HIDE DEF P, s, n
    <3>2. ASSUME NEW k \in 1..n
          PROVE  P[k].chunk = s[k] /\ P[k].from = g[k - 1]
      <4> DEFINE r == [chunk |-> s[k], from |-> Before(s, k)]
      <4>1. r.chunk = s[k] /\ r.from = Before(s, k)
        OBVIOUS
      <4> HIDE DEF r
      <4>2. P[k] = r
        BY <3>1 DEF r
      <4>3. QED
        BY <1>7, <4>1, <4>2
    <3>3. QED
      BY <3>2
  <2>3. QED
    BY <2>1, <2>2
<1>9. PICK f : Picks(f, P, start, end) /\ Overlap(x, start, end) = f[n]
  BY <1>6, OverlapFold
<1>10. /\ f[0] = << >>
       /\ \A k \in 1..n : f[k] = IF g[k] <= start \/ g[k - 1] >= end THEN f[k - 1]
                                 ELSE Append(f[k - 1], P[k])
  BY <1>4, <1>6, <1>8, <1>9 DEF Picks
<1> HIDE DEF s, n, D, P, size
<1> DEFINE Good(k) == /\ f[k] \in Seq(D)
                      /\ Cuts(f[k], start, end) \in Seq(Seq(Bytes))
                      /\ FlattenSeq(Cuts(f[k], start, end)) = SubSeq(x, start + 1, upto(k))
           T == {k \in 0..n : Good(k)}
<1>11. Good(0)
  <2>1. upto(0) = 0
    BY <1>5
  <2>2. SubSeq(x, start + 1, 0) = << >>
    BY SubSeqEmpty
  <2>3. << >> \in Seq(D) /\ << >> \in Seq(Seq(Bytes)) /\ DOMAIN << >> = {}
    OBVIOUS
  <2>4. Cuts(<< >>, start, end) = << >>
    BY <2>3 DEF Cuts
  <2>5. FlattenSeq(<< >>) = << >>
    <3>1. << >> \in Seq(Seq(Bytes)) /\ Len(<< >>) = 0
      OBVIOUS
    <3>2. PICK h : IsFlat(h, Bytes, << >>) /\ FlattenSeq(<< >>) = h[Len(<< >>)]
      BY <3>1, FlatOfPrefixes
    <3>3. QED
      BY <3>1, <3>2 DEF IsFlat
  <2> HIDE DEF upto
  <2>6. QED
    BY <1>10, <2>1, <2>2, <2>3, <2>4, <2>5
<1>12. ASSUME NEW k \in 1..n, Good(k - 1)
       PROVE  Good(k)
  <2> DEFINE a == g[k - 1]
             b == g[k]
  <2>1. /\ a \in Nat /\ b \in Nat /\ a < b /\ b <= size /\ size \in Nat /\ end <= size
        /\ b = a + Len(s[k]) /\ s[k] = SubSeq(x, a + 1, b)
    BY <1>4 DEF size
  <2> HIDE DEF a, b
  <2>2. CASE b <= start \/ a >= end
    <3>1. f[k] = f[k - 1]
      BY <1>10, <2>2 DEF a, b
    <3>2. SubSeq(x, start + 1, upto(k)) = SubSeq(x, start + 1, upto(k - 1))
      <4>1. upto(k) = (IF end <= b THEN end ELSE b) /\ upto(k - 1) = IF end <= a THEN end ELSE a
        BY DEF a, b
      <4> HIDE DEF upto
      <4>2. CASE b <= start
        <5>1. /\ upto(k) \in Int /\ upto(k - 1) \in Int /\ start + 1 \in Int
              /\ upto(k) < start + 1 /\ upto(k - 1) < start + 1
          BY <2>1, <4>1, <4>2
        <5>2. SubSeq(x, start + 1, upto(k)) = << >> /\ SubSeq(x, start + 1, upto(k - 1)) = << >>
          BY <5>1, SubSeqEmpty
        <5>3. QED
          BY <5>2
      <4>3. CASE a >= end
        <5>1. upto(k) = end /\ upto(k - 1) = end
          BY <2>1, <4>1, <4>3
        <5>2. QED
          BY <5>1
      <4>4. QED
        BY <2>2, <4>2, <4>3
    <3> HIDE DEF upto
    <3>3. QED
      BY <1>12, <3>1, <3>2
  <2>3. CASE ~ (b <= start \/ a >= end)
    <3> DEFINE d == P[k]
               cut == Cut(d, start, end)
               m == IF start >= a THEN start ELSE a
               u == IF end <= b THEN end ELSE b
               old == Cuts(f[k - 1], start, end)
               before == upto(k - 1)
    <3>1. f[k] = Append(f[k - 1], d)
      BY <1>10, <2>3 DEF a, b
    <3>2. d \in D /\ d.from = a /\ d.chunk = s[k]
      BY <1>8 DEF a
    <3> HIDE DEF d
    <3>3. cut = SubSeq(x, m + 1, u)
      <4>1. /\ d.chunk = SubSeq(x, a + 1, b) /\ a + Len(d.chunk) = b /\ a < end /\ start < b
            /\ end <= Len(x) /\ b <= Len(x)
        <5>1. d.chunk = SubSeq(x, a + 1, b) /\ a + Len(d.chunk) = b
          BY <2>1, <3>2
        <5>2. a \in Nat /\ b \in Nat /\ b <= Len(x)
          BY <2>1 DEF size
        <5>3. a < end /\ start < b
          BY <2>3, <5>2
        <5>4. QED
          BY <5>1, <5>2, <5>3
      <4>2. a \in Nat /\ b \in Nat /\ a < b
        BY <2>1
      <4>3. x \in Seq(Bytes)
        BY <1>4
      <4>4. d.from = a
        BY <3>2
      <4>5. Cut(d, start, end) = SubSeq(x, m + 1, u)
        <5>1. m = (IF start >= a THEN start ELSE a) /\ u = IF end <= b THEN end ELSE b
          OBVIOUS
        <5> HIDE DEF m, u
        <5>2. Meets(d, x, a, b, start, end, m, u)
          BY <4>1, <4>2, <4>3, <4>4, <5>1 DEF Meets
        <5>3. QED
          BY <5>2, CutIs
      <4>6. QED
        BY <4>5 DEF cut
    <3> HIDE DEF cut
    <3>4. m \in Nat /\ u \in Nat /\ m < u /\ u <= size
      BY <2>1, <2>3
    <3>5. before = a /\ upto(k) = u
      BY <2>1, <2>3 DEF a, b
    <3>6. SubSeq(x, start + 1, a) \o SubSeq(x, m + 1, u) = SubSeq(x, start + 1, u)
      <4>1. CASE start <= a
        <5>1. m = a
          BY <2>1, <4>1
        <5>2. /\ start + 1 \in 1..Len(x) + 1 /\ a \in (start + 1) - 1..Len(x) /\ u \in a..Len(x)
          BY <2>1, <2>3, <3>4, <4>1, <5>1 DEF size
        <5> DEFINE v == start + 1
        <5>3. v \in 1..Len(x) + 1 /\ a \in v - 1..Len(x)
          BY <5>2
        <5> HIDE DEF v, m, u
        <5>4. SubSeq(x, v, a) \o SubSeq(x, a + 1, u) = SubSeq(x, v, u)
          BY <1>4, <5>2, <5>3, ConcatAdjacentSubSeq
        <5>5. QED
          BY <5>1, <5>4 DEF v
      <4>2. CASE start > a
        <5>1. m = start
          BY <2>1, <4>2
        <5>2. SubSeq(x, start + 1, a) = << >>
          <6>1. start + 1 \in Int /\ a \in Int /\ a < start + 1
            BY <2>1, <4>2
          <6>2. QED
            BY <6>1, SubSeqEmpty
        <5>3. SubSeq(x, start + 1, u) \in Seq(Bytes)
          <6>1. \A i \in start + 1..u : x[i] \in Bytes
            <7>1. \A i \in start + 1..u : i \in 1..Len(x)
              BY <3>4 DEF size
            <7>2. \A i \in 1..Len(x) : x[i] \in Bytes
              BY <1>4
            <7>3. QED
              BY <7>1, <7>2
          <6>2. start + 1 \in Int /\ u \in Int
            BY <3>4
          <6> HIDE DEF u
          <6>3. QED
            BY <6>1, <6>2, SubSeqProperties
        <5> DEFINE r == SubSeq(x, start + 1, u)
        <5> HIDE DEF r
        <5>4. << >> \o r = r
          BY <5>3, ConcatEmptySeq DEF r
        <5> HIDE DEF m
        <5>5. QED
          BY <5>1, <5>2, <5>4 DEF r
      <4>3. start <= a \/ start > a
        <5>1. start \in Nat /\ a \in Nat
          BY <2>1
        <5>2. QED
          BY <5>1
      <4>4. QED
        BY <4>1, <4>2, <4>3
    <3>7. cut \in Seq(Bytes)
      <4>1. \A i \in m + 1..u : x[i] \in Bytes
        <5>1. \A i \in m + 1..u : i \in 1..Len(x)
          BY <3>4 DEF size
        <5>2. \A i \in 1..Len(x) : x[i] \in Bytes
          BY <1>4
        <5>3. QED
          BY <5>1, <5>2
      <4>2. m + 1 \in Int /\ u \in Int
        BY <3>4
      <4> HIDE DEF u, m
      <4>3. QED
        BY <3>3, <4>1, <4>2, SubSeqProperties
    <3> HIDE DEF upto, u, m
    <3>8. /\ f[k - 1] \in Seq(D) /\ old \in Seq(Seq(Bytes))
          /\ FlattenSeq(old) = SubSeq(x, start + 1, a)
      BY <1>12, <3>5
    <3>9. f[k] \in Seq(D)
      BY <3>1, <3>2, <3>8
    <3>10. Cuts(f[k], start, end) = Append(old, cut)
      <4>1. Cut(d, start, end) \in Seq(Bytes)
        BY <3>7 DEF cut
      <4>2. Cuts(f[k - 1], start, end) \in Seq(Seq(Bytes))
        BY <3>8 DEF old
      <4>3. Cuts(Append(f[k - 1], d), start, end) = Append(Cuts(f[k - 1], start, end), Cut(d, start, end))
        BY <3>2, <3>8, <4>1, <4>2, CutsOfAppend
      <4>4. QED
        BY <3>1, <4>3 DEF cut, old
    <3> HIDE DEF old
    <3>11. Append(old, cut) \in Seq(Seq(Bytes))
      BY <3>7, <3>8
    <3>12. FlattenSeq(Append(old, cut)) = FlattenSeq(old) \o cut
      BY <3>7, <3>8, FlatOfAppend
    <3>13. FlattenSeq(Append(old, cut)) = SubSeq(x, start + 1, u)
      BY <3>3, <3>6, <3>8, <3>12
    <3>14. QED
      BY <3>5, <3>9, <3>10, <3>11, <3>13
  <2>4. QED
    BY <2>2, <2>3
<1> HIDE DEF Good
<1>13. n \in T
  <2>1. 0 \in T
    BY <1>2, <1>11
  <2>2. \A k \in 1..n : k - 1 \in T => k \in T
    BY <1>12
  <2> HIDE DEF T
  <2>3. 0..n \subseteq T
    BY <1>2, <2>1, <2>2, UpTo
  <2>4. QED
    BY <1>2, <2>3
<1>14. upto(n) = end
  BY <1>4 DEF size
<1> HIDE DEF upto
<1>15. QED
  BY <1>9, <1>13, <1>14 DEF Good

\* Every chunk of a committed file is where its entry says.
LEMMA ChunksAreThere ==
    ASSUME ChunkInv, NEW x \in files, NEW c \in ChunksOf(x)
    PROVE  c \in DOMAIN index /\ index[c].size = Len(c) /\ Stored(index[c]) = c
<1>1. c \in DOMAIN index
  BY DEF ChunkInv, Committed
<1>2. IsIn(packs, index[c], c)
  BY <1>1 DEF ChunkInv, Committed
<1>3. QED
  BY <1>1, <1>2 DEF IsIn, Stored

LEMMA WholeReadIs ==
    ASSUME ChunkInv, NEW x \in files
    PROVE  IsVerified(x) /\ WholeRead(x) = x
<1> DEFINE s == SplitOf[x]
<1>1. x \in Contents
  BY DEF ChunkInv, Committed
<1>2. s \in Seq(Seq(Bytes))
  BY <1>1, ChunkTypes
<1>3. \A i \in DOMAIN s : s[i] \in ChunksOf(x)
  BY DEF ChunksOf, Range
<1>4. IsVerified(x)
  BY <1>3, ChunksAreThere DEF IsVerified
<1>5. [i \in DOMAIN s |-> Stored(index[s[i]])] = s
  <2>1. \A i \in DOMAIN s : Stored(index[s[i]]) = s[i]
    BY <1>3, ChunksAreThere
  <2> HIDE DEF s
  <2>2. s = [i \in DOMAIN s |-> s[i]]
    BY <1>2
  <2>3. QED
    BY <2>1, <2>2
<1>6. WholeRead(x) = FlattenSeq(s)
  BY <1>5 DEF WholeRead
<1>7. QED
  BY <1>1, <1>4, <1>6, SplitAssumption

LEMMA RangeReadIs ==
    ASSUME ChunkInv, NEW x \in files, NEW start \in Nat, NEW length \in Nat
    PROVE  RangeRead(x, start, length) = SubSeq(x, start + 1, Min({Len(x), start + length}))
<1> DEFINE end == Min({Len(x), start + length})
           parts == Overlap(x, start, end)
           slice(d) ==
             LET low == Max({start, d.from}) - d.from
                 high == Min({end, d.from + Len(d.chunk)}) - d.from
             IN  SubSeq(Stored(index[d.chunk]), low + 1, high)
<1>1. x \in Contents /\ x \in Seq(Bytes) /\ Len(x) \in Nat
  <2>1. x \in Contents
    BY DEF ChunkInv, Committed
  <2>2. PICK g : IsSizes(g, SplitOf[x])
    BY <2>1, ChunkTypes, TotalOfPrefixes
  <2>3. QED
    BY <2>1, <2>2, FileBytes
<1>2. end = IF Len(x) <= start + length THEN Len(x) ELSE start + length
  <2> DEFINE to == start + length
  <2>1. to \in Nat
    OBVIOUS
  <2> HIDE DEF to
  <2>2. Min({Len(x), to}) = IF Len(x) <= to THEN Len(x) ELSE to
    BY <1>1, <2>1, OfTwo
  <2>3. QED
    BY <2>2 DEF to
<1>3. CASE start >= Len(x) \/ length = 0
  <2>1. RangeRead(x, start, length) = << >>
    BY <1>3 DEF RangeRead
  <2>2. end \in Int /\ start + 1 \in Int /\ end < start + 1
    BY <1>1, <1>2, <1>3
  <2> HIDE DEF end
  <2>3. SubSeq(x, start + 1, end) = << >>
    BY <2>2, SubSeqEmpty
  <2>4. QED
    BY <2>1, <2>3 DEF end
<1>4. CASE ~ (start >= Len(x) \/ length = 0)
  <2>1. RangeRead(x, start, length) = FlattenSeq([i \in DOMAIN parts |-> slice(parts[i])])
    BY <1>4 DEF RangeRead
  <2>2. end \in Nat /\ start < end /\ end <= Len(x)
    BY <1>1, <1>2, <1>4
  <2> HIDE DEF end
  <2>3. \A i \in DOMAIN parts : parts[i].chunk \in ChunksOf(x)
    BY <1>1, OverlapTypes
  <2> HIDE DEF parts
  <2>4. ASSUME NEW i \in DOMAIN parts
        PROVE  slice(parts[i]) = Cut(parts[i], start, end)
    <3>1. Stored(index[parts[i].chunk]) = parts[i].chunk
      BY <2>3, ChunksAreThere
    <3>2. QED
      BY <3>1 DEF Cut
  <2> HIDE DEF slice
  <2>5. [i \in DOMAIN parts |-> slice(parts[i])] = Cuts(parts, start, end)
    BY <2>4 DEF Cuts
  <2>6. FlattenSeq(Cuts(parts, start, end)) = SubSeq(x, start + 1, end)
    BY <1>1, <2>2, RangeIs DEF parts
  <2>7. QED
    BY <2>1, <2>5, <2>6 DEF end
<1>5. QED
  BY <1>3, <1>4

(* Every range of every committed large file reads as it was written, for  *)
(* any way to cut files into chunks and any packs that uploads and gc left *)
(* (_read_chunked_file_range, _read_chunked_file_bytes).                   *)
THEOREM RangesReadExactly == ChunkSpec => []RangesAreExact
<1>1. ASSUME ChunkInv
      PROVE  RangesAreExact
  <2>1. ASSUME NEW x \in files
        PROVE  /\ IsVerified(x) /\ WholeRead(x) = x
               /\ \A start \in 0 .. Len(x) + 1, length \in 0 .. Len(x) + 1 :
                     RangeRead(x, start, length)
                        = SubSeq(WholeRead(x), start + 1, Min({Len(x), start + length}))
    <3>1. IsVerified(x) /\ WholeRead(x) = x
      BY <1>1, WholeReadIs
    <3>2. ASSUME NEW start \in 0 .. Len(x) + 1, NEW length \in 0 .. Len(x) + 1
          PROVE  RangeRead(x, start, length) = SubSeq(x, start + 1, Min({Len(x), start + length}))
      <4>1. start \in Nat /\ length \in Nat
        OBVIOUS
      <4>2. QED
        BY <1>1, <4>1, RangeReadIs
    <3>3. QED
      BY <3>1, <3>2
  <2>2. QED
    BY <2>1 DEF RangesAreExact
<1>2. QED
  BY <1>1, ChunkInvHolds, PTL

-----------------------------------------------------------------------------
(* Sums *)

\* h[t] is the sum of w over the subset t of S.
IsSum(h, w, S) ==
    /\ h \in [SUBSET S -> Nat]
    /\ h[{}] = 0
    /\ \A t \in SUBSET S : \A e \in t : h[t] = w[e] + h[t \ {e}]

LEMMA SumExists ==
    ASSUME NEW S, IsFiniteSet(S), NEW w \in [S -> Nat]
    PROVE  \E h : IsSum(h, w, S)
<1> DEFINE n == Cardinality(S)
<1>1. n \in Nat /\ ExistsBijection(1..n, S)
  BY FS_CardinalityType
<1> HIDE DEF n
<1>2. PICK b : b \in Bijection(1..n, S)
  BY <1>1 DEF ExistsBijection
<1>3. /\ b \in [1..n -> S]
      /\ \A i, j \in 1..n : b[i] = b[j] => i = j
      /\ \A e \in S : \E i \in 1..n : b[i] = e
  BY <1>2 DEF Bijection, Injection, Surjection, IsInjective
<1> DEFINE A == [SUBSET S -> Nat]
           zero == [t \in SUBSET S |-> 0]
           more(k, t) == IF b[k] \in t THEN w[b[k]] ELSE 0
           G == [k \in 1..n |-> [a \in A |-> [t \in SUBSET S |-> a[t] + more(k, t)]]]
<1>4. IsStep(n, A, zero, G)
  <2>1. ASSUME NEW k \in 1..n, NEW a \in A
        PROVE  [t \in SUBSET S |-> a[t] + more(k, t)] \in A
    <3>1. w[b[k]] \in Nat
      BY <1>3
    <3>2. QED
      BY <3>1
  <2>2. zero \in A
    OBVIOUS
  <2> HIDE DEF A, zero, more
  <2>3. QED
    BY <1>1, <2>1, <2>2 DEF IsStep
<1>5. PICK f : Follows(f, n, A, zero, G)
  <2> HIDE DEF A, zero, G
  <2> QED
    BY <1>4, Recursion
<1>6. /\ \A k \in 0..n : f[k] \in A
      /\ \A t \in SUBSET S : f[0][t] = 0
  BY <1>5 DEF Follows
<1>7. ASSUME NEW k \in 1..n, NEW t \in SUBSET S
      PROVE  f[k][t] = f[k - 1][t] + more(k, t)
  <2>1. k - 1 \in 0..n
    BY <1>1
  <2>2. f[k - 1] \in A /\ f[k] = G[k][f[k - 1]]
    BY <1>5, <1>6, <2>1 DEF Follows
  <2>3. G[k][f[k - 1]] = [u \in SUBSET S |-> f[k - 1][u] + more(k, u)]
    BY <2>2
  <2> HIDE DEF G, more
  <2>4. QED
    BY <2>2, <2>3
<1> HIDE DEF G
<1>8. f[n] \in A
  <2>1. n \in 0..n
    BY <1>1
  <2> HIDE DEF A
  <2>2. QED
    BY <1>6, <2>1
<1>9. f[n][{}] = 0
  <2> DEFINE T == {k \in 0..n : f[k][{}] = 0}
  <2>1. 0 \in T
    BY <1>1, <1>6
  <2>2. ASSUME NEW k \in 1..n, k - 1 \in T
        PROVE  k \in T
    <3>1. {} \in SUBSET S
      OBVIOUS
    <3>2. more(k, {}) = 0
      OBVIOUS
    <3>3. f[k][{}] = f[k - 1][{}] + more(k, {})
      BY <1>7, <3>1
    <3>4. f[k][{}] = 0
      BY <2>2, <3>2, <3>3
    <3>5. QED
      BY <3>4
  <2> HIDE DEF T
  <2>3. 0..n \subseteq T
    BY <1>1, <2>1, <2>2, UpTo
  <2>4. n \in T
    BY <1>1, <2>3
  <2>5. QED
    BY <2>4 DEF T
<1>10. ASSUME NEW t \in SUBSET S, NEW e \in t
       PROVE  f[n][t] = w[e] + f[n][t \ {e}]
  <2>1. PICK j \in 1..n : b[j] = e
    BY <1>3
  <2> DEFINE r == t \ {e}
             has(k) == IF k >= j THEN w[e] ELSE 0
             T == {k \in 0..n : f[k][t] = has(k) + f[k][r]}
  <2>2. r \in SUBSET S /\ t \in SUBSET S /\ w[e] \in Nat
    OBVIOUS
  <2>3. 0 \in T
    BY <1>1, <1>6, <2>2
  <2>4. ASSUME NEW k \in 1..n, k - 1 \in T
        PROVE  k \in T
    <3>1. /\ f[k - 1][t] \in Nat /\ f[k - 1][r] \in Nat
          /\ f[k - 1][t] = has(k - 1) + f[k - 1][r]
      BY <1>1, <1>6, <2>2, <2>4
    <3>2. f[k][t] = f[k - 1][t] + more(k, t) /\ f[k][r] = f[k - 1][r] + more(k, r)
      BY <1>7, <2>2
    <3> HIDE DEF r, T
    <3>3. CASE k = j
      <4>1. more(k, t) = w[e] /\ more(k, r) = 0
        BY <2>1, <3>3 DEF r
      <4>2. has(k) = w[e] /\ has(k - 1) = 0
        BY <3>3
      <4> HIDE DEF more, has
      <4>3. f[k][t] = has(k) + f[k][r]
        BY <2>2, <3>1, <3>2, <4>1, <4>2
      <4>4. QED
        BY <4>3 DEF T
    <3>4. CASE k # j
      <4>1. b[k] # e
        BY <1>3, <2>1, <3>4
      <4>2. more(k, t) = more(k, r)
        BY <4>1 DEF r
      <4>3. has(k) = has(k - 1)
        BY <3>4
      <4>4. more(k, t) \in Nat /\ has(k) \in Nat
        <5>1. w[b[k]] \in Nat
          BY <1>3
        <5>2. QED
          BY <2>2, <5>1
      <4> HIDE DEF more, has
      <4>5. f[k][t] = has(k) + f[k][r]
        BY <3>1, <3>2, <4>2, <4>3, <4>4
      <4>6. QED
        BY <4>5 DEF T
    <3>5. QED
      BY <3>3, <3>4
  <2> HIDE DEF T
  <2>5. 0..n \subseteq T
    BY <1>1, <2>3, <2>4, UpTo
  <2>6. n \in T
    BY <1>1, <2>5
  <2>7. has(n) = w[e]
    BY <1>1
  <2> HIDE DEF has
  <2>8. QED
    BY <2>6, <2>7 DEF T
<1>11. IsSum(f[n], w, S)
  BY <1>8, <1>9, <1>10 DEF IsSum
<1>12. QED
  BY <1>11

\* SumFunction is the sum.
LEMMA SumIs ==
    ASSUME NEW S, IsFiniteSet(S), NEW w \in [S -> Nat], NEW h, IsSum(h, w, S)
    PROVE  SumFunction(w) = h[S] /\ h[S] \in Nat
<1> DEFINE pick(t) == CHOOSE e \in t : TRUE
           Rule(g) == g = [t \in SUBSET DOMAIN w |->
                             IF t = {} THEN 0 ELSE w[pick(t)] + g[t \ {pick(t)}]]
           it == CHOOSE g : Rule(g)
<1>1. SumFunction(w) = it[DOMAIN w] /\ DOMAIN w = S
  BY DEF SumFunction, SumFunctionOnSet, FoldFunctionOnSet, MapThenFoldSet
<1>2. \A t \in SUBSET S : t # {} => pick(t) \in t
  OBVIOUS
<1> HIDE DEF pick
<1>3. Rule(h)
  <2>1. h \in [SUBSET S -> Nat] /\ DOMAIN w = S
    BY DEF IsSum
  <2>2. ASSUME NEW t \in SUBSET S
        PROVE  h[t] = IF t = {} THEN 0 ELSE w[pick(t)] + h[t \ {pick(t)}]
    BY <1>2 DEF IsSum
  <2>3. QED
    BY <2>1, <2>2
<1>4. Rule(it)
  <2> HIDE DEF Rule
  <2> QED
    BY <1>3
<1>5. \A t \in SUBSET S : it[t] = IF t = {} THEN 0 ELSE w[pick(t)] + it[t \ {pick(t)}]
  <2>1. DOMAIN w = S
    OBVIOUS
  <2> HIDE DEF it
  <2>2. QED
    BY <1>4, <2>1
<1>6. \A t \in SUBSET S : h[t] = IF t = {} THEN 0 ELSE w[pick(t)] + h[t \ {pick(t)}]
  BY <1>2 DEF IsSum
<1> HIDE DEF it, Rule
<1> DEFINE Bad == {t \in SUBSET S : it[t] # h[t]}
<1>7. ASSUME Bad # {}
      PROVE  FALSE
  <2> DEFINE N == {Cardinality(t) : t \in Bad}
  <2>1. \A t \in SUBSET S : IsFiniteSet(t) /\ Cardinality(t) \in Nat
    BY FS_Subset, FS_CardinalityType
  <2>2. N \subseteq Nat /\ N # {}
    BY <1>7, <2>1
  <2>3. PICK m \in N : \A k \in N : m <= k
    <3> HIDE DEF N
    <3> QED
      BY <2>2, LeastNumber
  <2>4. PICK t \in Bad : Cardinality(t) = m
    BY <2>3
  <2>5. t # {}
    BY <1>5, <1>6, <2>4
  <2>6. pick(t) \in t /\ t \in SUBSET S
    BY <1>2, <2>4, <2>5
  <2> DEFINE u == t \ {pick(t)}
  <2>7. Cardinality(u) = Cardinality(t) - 1 /\ u \in SUBSET S
    BY <2>1, <2>6, FS_RemoveElement
  <2>8. u \notin Bad
    <3>1. ~ Cardinality(t) <= Cardinality(u)
      BY <2>1, <2>6, <2>7
    <3>2. QED
      BY <2>3, <2>4, <3>1
  <2>9. it[u] = h[u]
    BY <2>7, <2>8
  <2>10. it[t] = h[t]
    BY <1>5, <1>6, <2>5, <2>6, <2>9
  <2>11. QED
    BY <2>4, <2>10
<1>8. it[S] = h[S]
  BY <1>7
<1>9. h[S] \in Nat
  BY DEF IsSum
<1>10. QED
  BY <1>1, <1>8, <1>9

LEMMA SumOfNone ==
    ASSUME NEW w, DOMAIN w = {}, w \in [{} -> Nat]
    PROVE  SumFunction(w) = 0
<1>1. IsFiniteSet({})
  BY FS_EmptySet
<1>2. PICK h : IsSum(h, w, {})
  BY <1>1, SumExists
<1>3. QED
  BY <1>1, <1>2, SumIs DEF IsSum

LEMMA SumOfOne ==
    ASSUME NEW e, NEW w \in [{e} -> Nat]
    PROVE  SumFunction(w) = w[e]
<1>1. IsFiniteSet({e})
  BY FS_Singleton
<1>2. PICK h : IsSum(h, w, {e})
  BY <1>1, SumExists
<1>3. h[{e}] = w[e] + h[{}] /\ h[{}] = 0 /\ w[e] \in Nat
  <2>1. {e} \in SUBSET {e} /\ e \in {e} /\ {e} \ {e} = {}
    OBVIOUS
  <2>2. h[{e}] = w[e] + h[{e} \ {e}]
    BY <1>2, <2>1 DEF IsSum
  <2>3. QED
    BY <1>2, <2>1, <2>2 DEF IsSum
<1>4. QED
  BY <1>1, <1>2, <1>3, SumIs

\* The sum over a union of disjoint sets.
LEMMA SumOfJoined ==
    ASSUME NEW S, IsFiniteSet(S), NEW f \in [S -> Nat],
           NEW T, IsFiniteSet(T), NEW g \in [T -> Nat], S \intersect T = {}
    PROVE  SumFunction(With(f, g)) = SumFunction(f) + SumFunction(g)
<1> DEFINE w == With(f, g)
           U == S \union T
<1>1. /\ w \in [U -> Nat]
      /\ (\A e \in S : w[e] = f[e]) /\ (\A e \in T : w[e] = g[e])
  BY DEF With
<1> HIDE DEF w
<1>2. IsFiniteSet(U)
  BY FS_Union
<1>3. PICK h : IsSum(h, w, U)
  BY <1>1, <1>2, SumExists
<1>4. PICK hg : IsSum(hg, g, T)
  BY SumExists
<1>5. SumFunction(w) = h[U] /\ SumFunction(g) = hg[T] /\ hg[T] \in Nat
  BY <1>1, <1>2, <1>3, <1>4, SumIs
<1> DEFINE hf == [t \in SUBSET S |-> h[t]]
<1>6. /\ h \in [SUBSET U -> Nat] /\ h[{}] = 0
      /\ \A t \in SUBSET U : \A e \in t : h[t] = w[e] + h[t \ {e}]
  BY <1>3 DEF IsSum
<1>7. IsSum(hf, f, S)
  <2>1. hf \in [SUBSET S -> Nat]
    BY <1>6
  <2>2. hf[{}] = 0
    BY <1>6
  <2>3. ASSUME NEW t \in SUBSET S, NEW e \in t
        PROVE  hf[t] = f[e] + hf[t \ {e}]
    <3>1. t \in SUBSET U /\ t \ {e} \in SUBSET S /\ e \in S
      OBVIOUS
    <3>2. h[t] = w[e] + h[t \ {e}] /\ w[e] = f[e]
      BY <1>1, <1>6, <3>1
    <3>3. hf[t] = h[t] /\ hf[t \ {e}] = h[t \ {e}]
      BY <3>1
    <3> HIDE DEF hf
    <3>4. QED
      BY <3>2, <3>3
  <2> HIDE DEF hf
  <2>4. QED
    BY <2>1, <2>2, <2>3 DEF IsSum
<1>8. SumFunction(f) = h[S]
  <2>1. hf[S] = h[S]
    OBVIOUS
  <2> HIDE DEF hf
  <2>2. SumFunction(f) = hf[S]
    BY <1>7, SumIs
  <2>3. QED
    BY <2>1, <2>2
<1>9. h[S] \in Nat
  BY <1>6
<1> DEFINE Bad == {t \in SUBSET T : h[S \union t] # h[S] + hg[t]}
<1>10. /\ hg \in [SUBSET T -> Nat] /\ hg[{}] = 0
       /\ \A t \in SUBSET T : \A e \in t : hg[t] = g[e] + hg[t \ {e}]
  BY <1>4 DEF IsSum
<1>11. ASSUME Bad # {}
       PROVE  FALSE
  <2> DEFINE N == {Cardinality(t) : t \in Bad}
  <2>1. \A t \in SUBSET T : IsFiniteSet(t) /\ Cardinality(t) \in Nat
    BY FS_Subset, FS_CardinalityType
  <2>2. N \subseteq Nat /\ N # {}
    <3>1. \A t \in Bad : t \in SUBSET T
      OBVIOUS
    <3> HIDE DEF Bad
    <3>2. QED
      BY <1>11, <2>1, <3>1
  <2>3. PICK m \in N : \A k \in N : m <= k
    <3> HIDE DEF N
    <3> QED
      BY <2>2, LeastNumber
  <2>4. PICK t \in Bad : Cardinality(t) = m
    BY <2>3
  <2>5. t # {}
    <3>1. S \union {} = S
      OBVIOUS
    <3>2. h[S \union {}] = h[S] + hg[{}]
      BY <1>9, <1>10, <3>1
    <3>3. QED
      BY <2>4, <3>2
  <2>6. PICK e : e \in t
    BY <2>5
  <2> DEFINE u == t \ {e}
  <2>7. Cardinality(u) = Cardinality(t) - 1 /\ u \in SUBSET T /\ t \in SUBSET T
    BY <2>1, <2>4, <2>6, FS_RemoveElement
  <2>8. u \notin Bad
    <3>1. ~ Cardinality(t) <= Cardinality(u)
      BY <2>1, <2>7
    <3>2. QED
      BY <2>3, <2>4, <3>1
  <2>9. h[S \union u] = h[S] + hg[u]
    BY <2>7, <2>8
  <2>10. hg[t] = g[e] + hg[u] /\ hg[u] \in Nat /\ g[e] \in Nat
    BY <1>10, <2>6, <2>7
  <2>11. h[S \union t] = g[e] + h[S \union u]
    <3>1. S \union t \in SUBSET U /\ e \in S \union t /\ (S \union t) \ {e} = S \union u /\ e \in T
      BY <2>6, <2>7
    <3> DEFINE v == S \union t
    <3>2. v \in SUBSET U /\ e \in v /\ v \ {e} = S \union u
      BY <3>1
    <3> HIDE DEF v, u
    <3>3. h[v] = w[e] + h[v \ {e}]
      BY <1>6, <3>2
    <3>4. w[e] = g[e]
      BY <1>1, <3>1
    <3>5. QED
      BY <3>2, <3>3, <3>4 DEF v
  <2> HIDE DEF u
  <2>12. h[S \union t] = h[S] + hg[t]
    BY <1>9, <2>9, <2>10, <2>11
  <2>13. QED
    BY <2>4, <2>12
<1>12. h[S \union T] = h[S] + hg[T]
  BY <1>11
<1>13. QED
  BY <1>5, <1>8, <1>12 DEF w

\* The sum over a sequence without repetition is that over its elements.
LEMMA SumOfOrder ==
    ASSUME NEW V, NEW s \in Seq(Seq(V)), \A i, j \in DOMAIN s : s[i] = s[j] => i = j
    PROVE  SumFunction([c \in Range(s) |-> Len(c)]) = Total(s) /\ IsFiniteSet(Range(s))
<1> DEFINE n == Len(s)
           S == Range(s)
           w == [c \in S |-> Len(c)]
<1>1. n \in Nat /\ DOMAIN s = 1..n /\ \A i \in 1..n : s[i] \in Seq(V)
  OBVIOUS
<1> HIDE DEF n
<1>2. S = {s[i] : i \in 1..n}
  BY <1>1 DEF Range
<1>3. IsFiniteSet(S)
  <2> DEFINE f == [i \in 1..n |-> s[i]]
  <2>1. IsFiniteSet(1..n)
    <3>1. 1 \in Int /\ n \in Int
      BY <1>1
    <3>2. QED
      BY <3>1, FS_Interval
  <2>2. f \in Surjection(1..n, S)
    BY <1>2 DEF Surjection
  <2> HIDE DEF f, S
  <2>3. QED
    BY <2>1, <2>2, FS_Surjection
<1>4. w \in [S -> Nat] /\ \A i \in 1..n : s[i] \in S /\ w[s[i]] = Len(s[i])
  <2>1. \A c \in S : Len(c) \in Nat
    BY <1>1, <1>2
  <2>2. \A i \in 1..n : s[i] \in S
    BY <1>2
  <2> HIDE DEF S
  <2>3. QED
    BY <2>1, <2>2
<1> HIDE DEF S, w
<1>5. PICK h : IsSum(h, w, S)
  BY <1>3, <1>4, SumExists
<1>6. PICK g : IsSizes(g, s)
  BY TotalOfPrefixes
<1>7. Total(s) = g[n]
  BY <1>6, TotalIs DEF n
<1>8. g[0] = 0 /\ \A k \in 1..n : g[k] = g[k - 1] + Len(s[k])
  BY <1>6 DEF IsSizes, n
<1> DEFINE first(k) == {s[i] : i \in 1..k}
           T == {k \in 0..n : h[first(k)] = g[k]}
<1>9. 0 \in T
  <2>1. first(0) = {}
    <3>1. 1..0 = {}
      OBVIOUS
    <3>2. QED
      BY <3>1
  <2> HIDE DEF first
  <2>2. QED
    <3>1. h[{}] = 0
      BY <1>5 DEF IsSum
    <3>2. h[first(0)] = g[0]
      BY <1>8, <2>1, <3>1
    <3>3. QED
      BY <1>1, <3>2
<1>10. ASSUME NEW k \in 1..n, k - 1 \in T
       PROVE  k \in T
  <2>1. 1..k = (1..k - 1) \union {k} /\ k \notin 1..k - 1 /\ 1..k \subseteq 1..n
    BY <1>1
  <2>2. first(k) = first(k - 1) \union {s[k]}
    BY <2>1
  <2>3. s[k] \notin first(k - 1)
    <3>1. \A i \in 1..k - 1 : i \in DOMAIN s /\ i # k
      BY <1>1, <2>1
    <3>2. \A i \in 1..k - 1 : s[i] # s[k]
      BY <1>1, <3>1
    <3>3. QED
      BY <3>2
  <2>4. first(k) \in SUBSET S
    BY <1>4, <2>1
  <2>5. h[first(k - 1)] = g[k - 1]
    BY <1>10
  <2> HIDE DEF first, T
  <2>6. s[k] \in first(k) /\ first(k) \ {s[k]} = first(k - 1)
    BY <2>2, <2>3
  <2>7. h[first(k)] = w[s[k]] + h[first(k) \ {s[k]}]
    BY <1>5, <2>4, <2>6 DEF IsSum
  <2>8. w[s[k]] = Len(s[k]) /\ Len(s[k]) \in Nat
    BY <1>1, <1>4
  <2>9. g[k - 1] \in Nat
    <3>1. k - 1 \in 0..n
      BY <1>1
    <3>2. QED
      BY <1>6, <3>1, SizesAreNumbers DEF n
  <2>10. h[first(k)] = g[k]
    <3>1. h[first(k)] = Len(s[k]) + g[k - 1]
      BY <2>5, <2>6, <2>7, <2>8
    <3>2. g[k] = g[k - 1] + Len(s[k])
      BY <1>8
    <3> DEFINE c == Len(s[k])
    <3> HIDE DEF c
    <3>3. h[first(k)] = c + g[k - 1] /\ g[k] = g[k - 1] + c /\ c \in Nat
      BY <2>8, <3>1, <3>2 DEF c
    <3>4. QED
      BY <2>9, <3>3
  <2>11. k \in 0..n
    BY <1>1
  <2>12. QED
    BY <2>10, <2>11 DEF T
<1>11. n \in T
  <2> HIDE DEF T
  <2>1. 0..n \subseteq T
    BY <1>1, <1>9, <1>10, UpTo
  <2>2. QED
    BY <1>1, <2>1
<1>12. first(n) = S
  BY <1>2
<1>13. h[S] = g[n]
  BY <1>11, <1>12
<1>14. SumFunction(w) = h[S]
  BY <1>3, <1>4, <1>5, SumIs
<1>15. QED
  BY <1>3, <1>7, <1>13, <1>14 DEF w, S

-----------------------------------------------------------------------------
(* Deduplication *)

Weights(pk) == [p \in DOMAIN pk |-> Len(pk[p]) - Len(Header)]
Sizes(idx) == [c \in DOMAIN idx |-> Len(c)]

\* The packs have the bytes of the chunks in the index, and no others.
Balanced(pk, idx) ==
    /\ IsFiniteSet(DOMAIN pk) /\ IsFiniteSet(DOMAIN idx)
    /\ \A p \in DOMAIN pk : Len(pk[p]) - Len(Header) \in Nat
    /\ DOMAIN idx \subseteq Chunks
    /\ SumFunction(Weights(pk)) = SumFunction(Sizes(idx))

DedupInv ==
    /\ Balanced(packs, index)
    /\ tx # NoTx => Balanced(tx.packs, tx.index)

LEMMA NothingIsBalanced == Balanced(Nothing, Nothing)
<1>1. DOMAIN Nothing = {} /\ IsFiniteSet({})
  BY FS_EmptySet DEF Nothing
<1>2. /\ Weights(Nothing) \in [{} -> Nat] /\ DOMAIN Weights(Nothing) = {}
      /\ Sizes(Nothing) \in [{} -> Nat] /\ DOMAIN Sizes(Nothing) = {}
  BY <1>1 DEF Weights, Sizes
<1>3. SumFunction(Weights(Nothing)) = 0 /\ SumFunction(Sizes(Nothing)) = 0
  BY <1>2, SumOfNone
<1>4. QED
  BY <1>1, <1>3 DEF Balanced

LEMMA JoinedIsBalanced ==
    ASSUME NEW pk, NEW idx, Balanced(pk, idx), NEW qk, NEW jdx, Balanced(qk, jdx),
           DOMAIN pk \intersect DOMAIN qk = {}, DOMAIN idx \intersect DOMAIN jdx = {}
    PROVE  Balanced(With(pk, qk), With(idx, jdx))
<1> DEFINE P == With(pk, qk)
           I == With(idx, jdx)
<1>1. /\ DOMAIN P = DOMAIN pk \union DOMAIN qk /\ DOMAIN I = DOMAIN idx \union DOMAIN jdx
      /\ \A p \in DOMAIN P : P[p] = IF p \in DOMAIN qk THEN qk[p] ELSE pk[p]
  BY DEF With
<1> HIDE DEF P, I
<1> DEFINE A == DOMAIN pk
           B == DOMAIN qk
           C == DOMAIN idx
           D == DOMAIN jdx
<1>13. /\ IsFiniteSet(A) /\ IsFiniteSet(B) /\ IsFiniteSet(C) /\ IsFiniteSet(D)
       /\ A \intersect B = {} /\ C \intersect D = {}
  BY DEF Balanced
<1>2. IsFiniteSet(DOMAIN P) /\ IsFiniteSet(DOMAIN I) /\ DOMAIN I \subseteq Chunks
  <2>1. DOMAIN I \subseteq Chunks
    BY <1>1 DEF Balanced
  <2>2. DOMAIN P = A \union B /\ DOMAIN I = C \union D
    BY <1>1
  <2> HIDE DEF A, B, C, D
  <2>3. IsFiniteSet(A \union B) /\ IsFiniteSet(C \union D)
    BY <1>13, FS_Union
  <2>4. QED
    BY <2>1, <2>2, <2>3
<1>3. /\ \A p \in DOMAIN pk : P[p] = pk[p]
      /\ \A p \in DOMAIN qk : P[p] = qk[p]
  BY <1>1
<1>4. \A p \in DOMAIN P : Len(P[p]) - Len(Header) \in Nat
  BY <1>1, <1>3 DEF Balanced
<1>5. /\ Weights(pk) \in [DOMAIN pk -> Nat] /\ Weights(qk) \in [DOMAIN qk -> Nat]
      /\ Sizes(idx) \in [DOMAIN idx -> Nat] /\ Sizes(jdx) \in [DOMAIN jdx -> Nat]
  BY ChunkTypes DEF Balanced, Weights, Sizes
<1>6. Weights(P) = With(Weights(pk), Weights(qk))
  BY <1>1, <1>3 DEF Weights, With
<1>7. Sizes(I) = With(Sizes(idx), Sizes(jdx))
  BY <1>1 DEF Sizes, With
<1>8. SumFunction(With(Weights(pk), Weights(qk))) = SumFunction(Weights(pk)) + SumFunction(Weights(qk))
  <2> DEFINE f == Weights(pk)
             g == Weights(qk)
  <2>1. f \in [A -> Nat] /\ g \in [B -> Nat]
    BY <1>5
  <2> HIDE DEF A, B, f, g
  <2>2. SumFunction(With(f, g)) = SumFunction(f) + SumFunction(g)
    BY <1>13, <2>1, SumOfJoined
  <2>3. QED
    BY <2>2 DEF f, g
<1>9. SumFunction(With(Sizes(idx), Sizes(jdx))) = SumFunction(Sizes(idx)) + SumFunction(Sizes(jdx))
  <2> DEFINE f == Sizes(idx)
             g == Sizes(jdx)
  <2>1. f \in [C -> Nat] /\ g \in [D -> Nat]
    BY <1>5
  <2> HIDE DEF C, D, f, g
  <2>2. SumFunction(With(f, g)) = SumFunction(f) + SumFunction(g)
    BY <1>13, <2>1, SumOfJoined
  <2>3. QED
    BY <2>2 DEF f, g
<1>10. SumFunction(Weights(P)) = SumFunction(Sizes(I))
  BY <1>6, <1>7, <1>8, <1>9 DEF Balanced
<1>11. Balanced(P, I)
  BY <1>2, <1>4, <1>10 DEF Balanced
<1>12. QED
  BY <1>11 DEF P, I

LEMMA NewPackIsBalanced ==
    ASSUME NEW chunks \in Seq(Seq(Bytes)), \A i, j \in DOMAIN chunks : chunks[i] = chunks[j] => i = j,
           Range(chunks) \subseteq Chunks, NEW id
    PROVE  Balanced([p \in {id} |-> PackOf(chunks)], EntriesOf(chunks, id))
<1> DEFINE pk == [p \in {id} |-> PackOf(chunks)]
           idx == EntriesOf(chunks, id)
           h == Len(Header)
           total == Total(chunks)
<1>1. DOMAIN pk = {id} /\ pk[id] = PackOf(chunks) /\ DOMAIN idx = Range(chunks)
  BY DEF EntriesOf
<1>2. PICK g : IsSizes(g, chunks)
  BY TotalOfPrefixes
<1>3. total = g[Len(chunks)] /\ total \in Nat
  BY <1>2, TotalIs
<1>4. FlattenSeq(chunks) \in Seq(Bytes) /\ Len(FlattenSeq(chunks)) = total
  BY <1>2, <1>3, FlatBytes
<1>5. Header \in Seq(Bytes) /\ h \in Nat
  <2>1. Range(Header) \subseteq Bytes
    BY DEF Bytes
  <2>2. Seq(Range(Header)) \subseteq Seq(Bytes)
    BY <2>1, SeqMonotonic
  <2>3. Header \in Seq(Bytes)
    BY <2>2, BoundsAssumption
  <2>4. QED
    BY <2>3
<1>6. Len(PackOf(chunks)) = h + total
  <2>1. Len(Header \o FlattenSeq(chunks)) = Len(Header) + Len(FlattenSeq(chunks))
    <3> DEFINE flat == FlattenSeq(chunks)
    <3>1. flat \in Seq(Bytes)
      BY <1>4
    <3> HIDE DEF flat
    <3>2. Len(Header \o flat) = Len(Header) + Len(flat)
      BY <1>5, <3>1, ConcatProperties
    <3>3. QED
      BY <3>2 DEF flat
  <2>2. PackOf(chunks) = Header \o FlattenSeq(chunks)
    BY DEF PackOf
  <2> DEFINE u == Header \o FlattenSeq(chunks)
  <2> HIDE DEF u
  <2>3. PackOf(chunks) = u /\ Len(u) = h + Len(FlattenSeq(chunks))
    BY <2>1, <2>2 DEF u
  <2>4. QED
    BY <1>4, <2>3
<1> HIDE DEF pk, idx, h, total
<1>7. Len(pk[id]) - Len(Header) = total
  BY <1>1, <1>3, <1>5, <1>6 DEF h
<1>8. Weights(pk) \in [{id} -> Nat] /\ Weights(pk)[id] = total
  BY <1>1, <1>3, <1>7 DEF Weights
<1>9. SumFunction(Weights(pk)) = total
  BY <1>8, SumOfOne
<1>10. SumFunction([c \in Range(chunks) |-> Len(c)]) = total /\ IsFiniteSet(Range(chunks))
  BY SumOfOrder DEF total
<1>11. Sizes(idx) = [c \in Range(chunks) |-> Len(c)]
  BY <1>1 DEF Sizes
<1>12. IsFiniteSet({id})
  BY FS_Singleton
<1>13. Balanced(pk, idx)
  BY <1>1, <1>3, <1>7, <1>9, <1>10, <1>11, <1>12 DEF Balanced
<1>14. QED
  BY <1>13 DEF pk, idx

LEMMA StageBalances ==
    ASSUME ChunkInv, DedupInv, NEW x \in Contents, Stage(x)
    PROVE  DedupInv'
<1> DEFINE known == With(index, tx.index)
           new == Distinct(SplitOf[x], DOMAIN known)
           id == written + 1
           entries == EntriesOf(new, id)
           pk == [p \in {id} |-> PackOf(new)]
<1>1. PICK o, p, ind, fs : tx = [owner |-> o, packs |-> p, index |-> ind, files |-> fs]
  BY DEF ChunkInv, Open, Stage
<1>2. /\ tx.owner = o /\ tx.packs = p /\ tx.index = ind /\ tx.files = fs
  BY <1>1
<1>3. DOMAIN p \subseteq 1..written /\ Balanced(p, ind)
  BY <1>2 DEF ChunkInv, Open, Stage, DedupInv
<1>4. DOMAIN known = DOMAIN index \union DOMAIN ind
  BY <1>2, Joined
<1>5. /\ new \in Seq(Seq(Bytes))
      /\ Range(new) = ChunksOf(x) \ DOMAIN known
      /\ ChunksOf(x) \subseteq Chunks
  BY NewChunks
<1>6. packs' = packs /\ index' = index /\ Balanced(packs, index)
  BY DEF Stage, DedupInv
<1>7. CASE new = << >>
  <2>1. tx' = [owner |-> o, packs |-> p, index |-> ind, files |-> fs \union {x}]
    BY <1>1, <1>7 DEF Stage
  <2>2. tx'.packs = p /\ tx'.index = ind
    BY <2>1
  <2>3. QED
    BY <1>3, <1>6, <2>2 DEF DedupInv
<1>8. CASE new # << >>
  <2>1. tx' = [owner |-> o, packs |-> With(p, pk), index |-> With(ind, entries), files |-> fs \union {x}]
    BY <1>1, <1>2, <1>8 DEF Stage
  <2>2. tx'.packs = With(p, pk) /\ tx'.index = With(ind, entries)
    BY <2>1
  <2>3. \A i, j \in DOMAIN new : new[i] = new[j] => i = j
    <3>1. SplitOf[x] \in Seq(Seq(Bytes))
      BY ChunkTypes
    <3>2. QED
      BY <3>1, DistinctHolds
  <2>4. DOMAIN pk = {id} /\ DOMAIN entries = Range(new)
    BY DEF EntriesOf
  <2> HIDE DEF new, known
  <2>5. Balanced(pk, entries)
    BY <1>5, <2>3, NewPackIsBalanced
  <2>6. DOMAIN p \intersect DOMAIN pk = {}
    <3>1. id \notin 1..written
      BY DEF ChunkInv, Committed
    <3>2. QED
      BY <1>3, <2>4, <3>1
  <2>7. DOMAIN ind \intersect DOMAIN entries = {}
    BY <1>4, <1>5, <2>4
  <2> HIDE DEF pk, entries
  <2>8. Balanced(With(p, pk), With(ind, entries))
    BY <1>3, <2>5, <2>6, <2>7, JoinedIsBalanced
  <2>9. QED
    BY <1>6, <2>2, <2>8 DEF DedupInv
<1>9. QED
  BY <1>7, <1>8

LEMMA CompactBalances ==
    ASSUME ChunkInv, DedupInv, NEW keep \in SUBSET files, Compact(keep)
    PROVE  DedupInv'
<1> DEFINE live == SetToSeq(UNION {Range(SplitOf[x]) : x \in keep})
           id == written + 1
           copies == [i \in DOMAIN live |-> Stored(index[live[i]])]
<1>1. /\ live \in Seq(Seq(Bytes))
      /\ Range(live) = UNION {ChunksOf(x) : x \in keep}
      /\ Range(live) \subseteq DOMAIN index
      /\ copies = live
      /\ \A i, j \in DOMAIN live : live[i] = live[j] => i = j
  BY LiveChunks
<1>2. /\ index' = EntriesOf(live, id)
      /\ \/ keep = {} /\ packs' = Nothing
         \/ packs' = [p \in {id} |-> PackOf(copies)]
      /\ tx' = NoTx
  BY DEF Compact
<1> HIDE DEF live, copies, id
<1>3. Range(live) \subseteq Chunks
  BY <1>1 DEF ChunkInv, Committed
<1>4. CASE keep = {} /\ packs' = Nothing
  <2>1. Range(live) = {}
    BY <1>1, <1>4
  <2>2. index' = Nothing
    BY <1>2, <2>1 DEF EntriesOf, Nothing
  <2>3. QED
    BY <1>2, <1>4, <2>2, NothingIsBalanced DEF DedupInv
<1>5. CASE packs' = [p \in {id} |-> PackOf(copies)]
  <2>1. packs' = [p \in {id} |-> PackOf(live)]
    BY <1>1, <1>5
  <2>2. Balanced(packs', index')
    BY <1>1, <1>2, <1>3, <2>1, NewPackIsBalanced
  <2>3. QED
    BY <1>2, <2>2 DEF DedupInv
<1>6. QED
  BY <1>2, <1>4, <1>5

LEMMA DedupInvHolds == ChunkSpec => []DedupInv
<1>1. ChunkInit => DedupInv
  BY NothingIsBalanced DEF ChunkInit, DedupInv
<1>2. ASSUME ChunkInv, DedupInv, ChunkNext
      PROVE  DedupInv'
  <2>1. ASSUME NEW m \in Readers, Begin(m)
        PROVE  DedupInv'
    <3> DEFINE t == [owner |-> m, packs |-> Nothing, index |-> Nothing, files |-> {}]
    <3>1. tx' = t /\ packs' = packs /\ index' = index
      BY <2>1 DEF Begin
    <3>2. t.packs = Nothing /\ t.index = Nothing
      OBVIOUS
    <3> HIDE DEF t
    <3>3. QED
      BY <1>2, <3>1, <3>2, NothingIsBalanced DEF DedupInv
  <2>2. ASSUME NEW x \in Contents, Stage(x)
        PROVE  DedupInv'
    BY <1>2, <2>2, StageBalances
  <2>3. ASSUME Commit
        PROVE  DedupInv'
    <3>1. /\ packs' = With(packs, tx.packs) /\ index' = With(index, tx.index)
          /\ tx' = NoTx /\ tx # NoTx
      BY <2>3 DEF Commit
    <3>2. /\ DOMAIN packs \intersect DOMAIN tx.packs = {}
          /\ DOMAIN index \intersect DOMAIN tx.index = {}
      BY <1>2, <3>1 DEF ChunkInv, Open
    <3>3. Balanced(With(packs, tx.packs), With(index, tx.index))
      BY <1>2, <3>1, <3>2, JoinedIsBalanced DEF DedupInv
    <3>4. QED
      BY <3>1, <3>3 DEF DedupInv
  <2>4. ASSUME Abort
        PROVE  DedupInv'
    BY <1>2, <2>4 DEF Abort, DedupInv
  <2>5. ASSUME NEW m \in Readers, NEW x \in Contents, NEW start, NEW length, Read(m, x, start, length)
        PROVE  DedupInv'
    BY <1>2, <2>5 DEF Read, DedupInv
  <2>6. ASSUME NEW keep \in SUBSET files, Compact(keep)
        PROVE  DedupInv'
    BY <1>2, <2>6, CompactBalances
  <2>7. QED
    BY <1>2, <2>1, <2>2, <2>3, <2>4, <2>5, <2>6 DEF ChunkNext
<1>3. ASSUME DedupInv, UNCHANGED chunkVars
      PROVE  DedupInv'
  BY <1>3 DEF DedupInv, chunkVars
<1>4. QED
  BY <1>1, <1>2, <1>3, ChunkInvHolds, PTL DEF ChunkSpec

(* The packs weigh what the chunks of the index weigh, so that no chunk is *)
(* stored twice and none is left behind (_stage_chunked_add_operation,     *)
(* _chunk_storage_plan_unlocked).                                          *)
THEOREM ChunksAreNotRepeated == ChunkSpec => []ChunksAreStoredOnce
<1>1. ASSUME ChunkInv, DedupInv
      PROVE  ChunksAreStoredOnce
  <2>1. SumFunction([p \in DOMAIN packs |-> Len(packs[p]) - Len(Header)])
           = SumFunction([c \in DOMAIN index |-> Len(c)])
    BY <1>1 DEF DedupInv, Balanced, Weights, Sizes
  <2>2. ASSUME NEW c \in DOMAIN index
        PROVE  Stored(index[c]) = c
    <3>1. IsIn(packs, index[c], c)
      BY <1>1 DEF ChunkInv, Committed
    <3>2. QED
      BY <3>1 DEF IsIn, Stored
  <2>3. QED
    BY <2>1, <2>2 DEF ChunksAreStoredOnce
<1>2. QED
  BY <1>1, ChunkInvHolds, DedupInvHolds, PTL

=============================================================================
