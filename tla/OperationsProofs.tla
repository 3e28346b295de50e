--------------------------- MODULE OperationsProofs ---------------------------
(***************************************************************************)
(* What commits do to the files and to the trees, for any names, depths,   *)
(* files, lists of operations and folder uploads.                          *)
(*                                                                         *)
(* A snapshot is taken for what it maps paths to (Snaps, Get): each of the *)
(* operations is shown to change that as it should (Does), so that a list  *)
(* of them does what the last one that speaks of a path says (Decided).    *)
(* Trees are functions of the places in them: what is staged for a snap-   *)
(* shot is the solution of an equation (IsTreeOf) that only depends on its *)
(* files, what is found in it at a path is what the snapshot has there     *)
(* (FoundRight), and reading it back gives its files again (ReadBack).  A  *)
(* listing is made of the pieces of its names (Piece): the recursive one   *)
(* has each path once (Listed), and what it has of a directory is the      *)
(* listing of that directory (ChildrenListed).                             *)
(* The invariant is that the head and what the tag names are such trees of *)
(* legal snapshots (IsVersion), the same one if they are the same commit,  *)
(* with what a plan knows of the files it was made for.                    *)
(***************************************************************************)
EXTENDS CommitOperations, InductionLemmas, FunctionTheorems

-----------------------------------------------------------------------------
(* Loops *)

\* One step of Only(), of AssignBelow() and of Found().
Kept(a, e, T) == IF e \in T THEN Append(a, e) ELSE a
Put(s, d, e) == Assign(s, d \o e.path, e.file)
Into(e, n) == IF e.kind = "tree" THEN EntryAt(e.object, n) ELSE e

OnlyLoopIs(f, s, T, n, A) ==
  /\ f \in [0..n -> A]
  /\ f[0] = << >>
  /\ \A k \in 1..n : f[k] = Kept(f[k - 1], s[k], T)
  /\ f[n] = Only(s, T)

\* Only() goes through prefixes of the sequence.
LEMMA OnlyLoop ==
  ASSUME NEW s, NEW T, NEW n \in Nat, n = Len(s), NEW A, << >> \in A,
         \A a \in A : \A k \in 1..n : Kept(a, s[k], T) \in A
  PROVE  \E f : OnlyLoopIs(f, s, T, n, A)
<1> DEFINE G == [k \in 1..n |-> [a \in A |-> Kept(a, s[k], T)]]
           Rest(x, k) == Kept(x, s[k], T)
           IsIt(f) == f = [k \in 0..Len(s) |-> IF k = 0 THEN << >> ELSE Rest(f[k - 1], k)]
           f == CHOOSE h : IsIt(h)
<1>1. G \in [1..n -> [A -> A]]
  OBVIOUS
<1>2. PICK g : Follows(g, n, A, << >>, G)
  <2>1. IsStep(n, A, << >>, G)
    BY <1>1 DEF IsStep
  <2> HIDE DEF G
  <2> QED
    BY <2>1, Recursion
<1>3. g \in [0..n -> A] /\ g[0] = << >> /\ \A k \in 1..n : g[k] = Kept(g[k - 1], s[k], T)
  <2>1. g \in [0..n -> A] /\ g[0] = << >> /\ \A k \in 1..n : g[k] = G[k][g[k - 1]]
    BY <1>2 DEF Follows
  <2>2. \A k \in 1..n : g[k - 1] \in A
    BY <2>1
  <2>3. \A k \in 1..n : G[k][g[k - 1]] = Kept(g[k - 1], s[k], T)
    BY <2>2
  <2> HIDE DEF G
  <2> QED
    BY <2>1, <2>3
<1>4. IsIt(g)
  <2>1. \A k \in 0..n : g[k] = IF k = 0 THEN << >> ELSE Rest(g[k - 1], k)
    <3>1. \A k \in 1..n : g[k] = Rest(g[k - 1], k)
      BY <1>3
    <3> HIDE DEF Rest
    <3> QED
      BY <1>3, <3>1
  <2>2. DOMAIN g = 0..n /\ g = [k \in DOMAIN g |-> g[k]]
    BY <1>3
  <2> QED
    BY <2>1, <2>2
<1>5. IsIt(f)
  <2> HIDE DEF IsIt
  <2> QED
    BY <1>4
<1>6. Only(s, T) = f[n]
  BY DEF Only, Kept
<1>7. f[0] = << >> /\ \A k \in 1..n : f[k] = Kept(f[k - 1], s[k], T)
  <2>1. f[0] = << >> /\ \A k \in 1..n : f[k] = Rest(f[k - 1], k)
    <3> HIDE DEF f, Rest
    <3> QED
      BY <1>5
  <2> HIDE DEF f
  <2> QED
    BY <2>1
<1>8. f \in [0..n -> A]
  <2> DEFINE S == {k \in 0..n : f[k] \in A}
  <2>1. 0 \in S
    BY <1>7
  <2>2. ASSUME NEW k \in 1..n, k - 1 \in S
        PROVE  k \in S
    <3>1. k \in 0..n /\ f[k - 1] \in A
      BY <2>2
    <3> HIDE DEF f
    <3> QED
      BY <1>7, <3>1
  <2>3. 0..n \subseteq S
    <3> HIDE DEF S
    <3> QED
      BY <2>1, <2>2, UpTo
  <2>4. DOMAIN f = 0..n
    <3> HIDE DEF f
    <3> QED
      BY <1>5
  <2>5. f = [k \in DOMAIN f |-> f[k]]
    <3> HIDE DEF f
    <3> QED
      BY <1>5
  <2> HIDE DEF f
  <2> QED
    BY <2>3, <2>4, <2>5
<1> QED
  BY <1>6, <1>7, <1>8 DEF OnlyLoopIs

AssignLoopIs(f, s, d, from, n, A) ==
  /\ f \in [0..n -> A]
  /\ f[0] = s
  /\ \A k \in 1..n : f[k] = Put(f[k - 1], d, from[k])
  /\ f[n] = AssignBelow(s, d, from)

\* AssignBelow() makes one assignment after the other.
LEMMA AssignLoop ==
  ASSUME NEW s, NEW d, NEW from, NEW n \in Nat, n = Len(from), NEW A, s \in A,
         \A a \in A : \A k \in 1..n : Put(a, d, from[k]) \in A
  PROVE  \E f : AssignLoopIs(f, s, d, from, n, A)
<1> DEFINE G == [k \in 1..n |-> [a \in A |-> Put(a, d, from[k])]]
           Rest(x, k) == Put(x, d, from[k])
           IsIt(f) == f = [k \in 0..Len(from) |-> IF k = 0 THEN s ELSE Rest(f[k - 1], k)]
           f == CHOOSE h : IsIt(h)
<1>1. G \in [1..n -> [A -> A]]
  OBVIOUS
<1>2. PICK g : Follows(g, n, A, s, G)
  <2>1. IsStep(n, A, s, G)
    BY <1>1 DEF IsStep
  <2> HIDE DEF G
  <2> QED
    BY <2>1, Recursion
<1>3. g \in [0..n -> A] /\ g[0] = s /\ \A k \in 1..n : g[k] = Put(g[k - 1], d, from[k])
  <2>1. g \in [0..n -> A] /\ g[0] = s /\ \A k \in 1..n : g[k] = G[k][g[k - 1]]
    BY <1>2 DEF Follows
  <2>2. \A k \in 1..n : g[k - 1] \in A
    BY <2>1
  <2>3. \A k \in 1..n : G[k][g[k - 1]] = Put(g[k - 1], d, from[k])
    BY <2>2
  <2> HIDE DEF G
  <2> QED
    BY <2>1, <2>3
<1>4. IsIt(g)
  <2>1. \A k \in 0..n : g[k] = IF k = 0 THEN s ELSE Rest(g[k - 1], k)
    <3>1. \A k \in 1..n : g[k] = Rest(g[k - 1], k)
      BY <1>3
    <3> HIDE DEF Rest
    <3> QED
      BY <1>3, <3>1
  <2>2. DOMAIN g = 0..n /\ g = [k \in DOMAIN g |-> g[k]]
    BY <1>3
  <2> QED
    BY <2>1, <2>2
<1>5. IsIt(f)
  <2> HIDE DEF IsIt
  <2> QED
    BY <1>4
<1>6. AssignBelow(s, d, from) = f[n]
  BY DEF AssignBelow, Put
<1>7. f[0] = s /\ \A k \in 1..n : f[k] = Put(f[k - 1], d, from[k])
  <2>1. f[0] = s /\ \A k \in 1..n : f[k] = Rest(f[k - 1], k)
    <3> HIDE DEF f, Rest
    <3> QED
      BY <1>5
  <2> HIDE DEF f
  <2> QED
    BY <2>1
<1>8. f \in [0..n -> A]
  <2> DEFINE S == {k \in 0..n : f[k] \in A}
  <2>1. 0 \in S
    BY <1>7
  <2>2. ASSUME NEW k \in 1..n, k - 1 \in S
        PROVE  k \in S
    <3>1. k \in 0..n /\ f[k - 1] \in A
      BY <2>2
    <3> HIDE DEF f
    <3> QED
      BY <1>7, <3>1
  <2>3. 0..n \subseteq S
    <3> HIDE DEF S
    <3> QED
      BY <2>1, <2>2, UpTo
  <2>4. DOMAIN f = 0..n
    <3> HIDE DEF f
    <3> QED
      BY <1>5
  <2>5. f = [k \in DOMAIN f |-> f[k]]
    <3> HIDE DEF f
    <3> QED
      BY <1>5
  <2> HIDE DEF f
  <2> QED
    BY <2>3, <2>4, <2>5
<1> QED
  BY <1>6, <1>7, <1>8 DEF AssignLoopIs

StagedLoopIs(f, sources, ops, n, A) ==
  /\ f \in [0..n -> A]
  /\ f[0] = sources.none
  /\ \A k \in 1..n : f[k] = Applied(f[k - 1], SourceOf(sources, ops[k]), ops[k])
  /\ f[n] = AllApplied(sources, ops)

\* AllApplied() applies one operation after the other.
LEMMA StagedLoop ==
  ASSUME NEW sources, NEW ops, NEW n \in Nat, n = Len(ops), NEW A, sources.none \in A,
         \A a \in A : \A k \in 1..n : Applied(a, SourceOf(sources, ops[k]), ops[k]) \in A
  PROVE  \E f : StagedLoopIs(f, sources, ops, n, A)
<1> DEFINE G == [k \in 1..n |-> [a \in A |-> Applied(a, SourceOf(sources, ops[k]), ops[k])]]
           Rest(x, k) == Applied(x, SourceOf(sources, ops[k]), ops[k])
           IsIt(f) == f = [k \in 0..Len(ops) |-> IF k = 0 THEN sources.none ELSE Rest(f[k - 1], k)]
           f == CHOOSE h : IsIt(h)
<1>1. G \in [1..n -> [A -> A]]
  OBVIOUS
<1>2. PICK g : Follows(g, n, A, sources.none, G)
  <2>1. IsStep(n, A, sources.none, G)
    BY <1>1 DEF IsStep
  <2> HIDE DEF G
  <2> QED
    BY <2>1, Recursion
<1>3. g \in [0..n -> A] /\ g[0] = sources.none /\ \A k \in 1..n : g[k] = Applied(g[k - 1], SourceOf(sources, ops[k]), ops[k])
  <2>1. g \in [0..n -> A] /\ g[0] = sources.none /\ \A k \in 1..n : g[k] = G[k][g[k - 1]]
    BY <1>2 DEF Follows
  <2>2. \A k \in 1..n : g[k - 1] \in A
    BY <2>1
  <2>3. \A k \in 1..n : G[k][g[k - 1]] = Applied(g[k - 1], SourceOf(sources, ops[k]), ops[k])
    BY <2>2
  <2> HIDE DEF G
  <2> QED
    BY <2>1, <2>3
<1>4. IsIt(g)
  <2>1. \A k \in 0..n : g[k] = IF k = 0 THEN sources.none ELSE Rest(g[k - 1], k)
    <3>1. \A k \in 1..n : g[k] = Rest(g[k - 1], k)
      BY <1>3
    <3> HIDE DEF Rest
    <3> QED
      BY <1>3, <3>1
  <2>2. DOMAIN g = 0..n /\ g = [k \in DOMAIN g |-> g[k]]
    BY <1>3
  <2> QED
    BY <2>1, <2>2
<1>5. IsIt(f)
  <2> HIDE DEF IsIt
  <2> QED
    BY <1>4
<1>6. AllApplied(sources, ops) = f[n]
  BY DEF AllApplied
<1>7. f[0] = sources.none /\ \A k \in 1..n : f[k] = Applied(f[k - 1], SourceOf(sources, ops[k]), ops[k])
  <2>1. f[0] = sources.none /\ \A k \in 1..n : f[k] = Rest(f[k - 1], k)
    <3> HIDE DEF f, Rest
    <3> QED
      BY <1>5
  <2> HIDE DEF f
  <2> QED
    BY <2>1
<1>8. f \in [0..n -> A]
  <2> DEFINE S == {k \in 0..n : f[k] \in A}
  <2>1. 0 \in S
    BY <1>7
  <2>2. ASSUME NEW k \in 1..n, k - 1 \in S
        PROVE  k \in S
    <3>1. k \in 0..n /\ f[k - 1] \in A
      BY <2>2
    <3> HIDE DEF f
    <3> QED
      BY <1>7, <3>1
  <2>3. 0..n \subseteq S
    <3> HIDE DEF S
    <3> QED
      BY <2>1, <2>2, UpTo
  <2>4. DOMAIN f = 0..n
    <3> HIDE DEF f
    <3> QED
      BY <1>5
  <2>5. f = [k \in DOMAIN f |-> f[k]]
    <3> HIDE DEF f
    <3> QED
      BY <1>5
  <2> HIDE DEF f
  <2> QED
    BY <2>3, <2>4, <2>5
<1> QED
  BY <1>6, <1>7, <1>8 DEF StagedLoopIs

FoundLoopIs(f, t, p, n, A) ==
  /\ f \in [0..n -> A]
  /\ f[0] = [kind |-> "tree", object |-> t]
  /\ \A k \in 1..n : f[k] = Into(f[k - 1], p[k])
  /\ f[n] = Found(t, p)

\* Found() goes down one name after the other.
LEMMA FoundLoop ==
  ASSUME NEW t, NEW p, NEW n \in Nat, n = Len(p), NEW A, [kind |-> "tree", object |-> t] \in A,
         \A a \in A : \A k \in 1..n : Into(a, p[k]) \in A
  PROVE  \E f : FoundLoopIs(f, t, p, n, A)
<1> DEFINE G == [k \in 1..n |-> [a \in A |-> Into(a, p[k])]]
           Rest(x, k) == Into(x, p[k])
           IsIt(f) == f = [k \in 0..Len(p) |-> IF k = 0 THEN [kind |-> "tree", object |-> t] ELSE Rest(f[k - 1], k)]
           f == CHOOSE h : IsIt(h)
<1>1. G \in [1..n -> [A -> A]]
  OBVIOUS
<1>2. PICK g : Follows(g, n, A, [kind |-> "tree", object |-> t], G)
  <2>1. IsStep(n, A, [kind |-> "tree", object |-> t], G)
    BY <1>1 DEF IsStep
  <2> HIDE DEF G
  <2> QED
    BY <2>1, Recursion
<1>3. g \in [0..n -> A] /\ g[0] = [kind |-> "tree", object |-> t] /\ \A k \in 1..n : g[k] = Into(g[k - 1], p[k])
  <2>1. g \in [0..n -> A] /\ g[0] = [kind |-> "tree", object |-> t] /\ \A k \in 1..n : g[k] = G[k][g[k - 1]]
    BY <1>2 DEF Follows
  <2>2. \A k \in 1..n : g[k - 1] \in A
    BY <2>1
  <2>3. \A k \in 1..n : G[k][g[k - 1]] = Into(g[k - 1], p[k])
    BY <2>2
  <2> HIDE DEF G
  <2> QED
    BY <2>1, <2>3
<1>4. IsIt(g)
  <2>1. \A k \in 0..n : g[k] = IF k = 0 THEN [kind |-> "tree", object |-> t] ELSE Rest(g[k - 1], k)
    <3>1. \A k \in 1..n : g[k] = Rest(g[k - 1], k)
      BY <1>3
    <3> HIDE DEF Rest
    <3> QED
      BY <1>3, <3>1
  <2>2. DOMAIN g = 0..n /\ g = [k \in DOMAIN g |-> g[k]]
    BY <1>3
  <2> QED
    BY <2>1, <2>2
<1>5. IsIt(f)
  <2> HIDE DEF IsIt
  <2> QED
    BY <1>4
<1>6. Found(t, p) = f[n]
  BY DEF Found, Into
<1>7. f[0] = [kind |-> "tree", object |-> t] /\ \A k \in 1..n : f[k] = Into(f[k - 1], p[k])
  <2>1. f[0] = [kind |-> "tree", object |-> t] /\ \A k \in 1..n : f[k] = Rest(f[k - 1], k)
    <3> HIDE DEF f, Rest
    <3> QED
      BY <1>5
  <2> HIDE DEF f
  <2> QED
    BY <2>1
<1>8. f \in [0..n -> A]
  <2> DEFINE S == {k \in 0..n : f[k] \in A}
  <2>1. 0 \in S
    BY <1>7
  <2>2. ASSUME NEW k \in 1..n, k - 1 \in S
        PROVE  k \in S
    <3>1. k \in 0..n /\ f[k - 1] \in A
      BY <2>2
    <3> HIDE DEF f
    <3> QED
      BY <1>7, <3>1
  <2>3. 0..n \subseteq S
    <3> HIDE DEF S
    <3> QED
      BY <2>1, <2>2, UpTo
  <2>4. DOMAIN f = 0..n
    <3> HIDE DEF f
    <3> QED
      BY <1>5
  <2>5. f = [k \in DOMAIN f |-> f[k]]
    <3> HIDE DEF f
    <3> QED
      BY <1>5
  <2> HIDE DEF f
  <2> QED
    BY <2>3, <2>4, <2>5
<1> QED
  BY <1>6, <1>7, <1>8 DEF FoundLoopIs

-----------------------------------------------------------------------------
(* Snapshots *)

Entries == [path : Seq(Names) \ {<< >>}, file : Files]

\* What the code's dictionaries are: entries, of which no two disagree about a path.
Snaps == {s \in Seq(Entries) : \A d, e \in ToSet(s) : d.path = e.path => d = e}

\* What is appended is added to the elements.
LEMMA Appended ==
  ASSUME NEW V, NEW s \in Seq(V), NEW v \in V
  PROVE  /\ Append(s, v) \in Seq(V) /\ Len(Append(s, v)) = Len(s) + 1
         /\ ToSet(Append(s, v)) = ToSet(s) \union {v}
<1> DEFINE r == Append(s, v)
<1>1. /\ r \in Seq(V) /\ Len(r) = Len(s) + 1 /\ r[Len(s) + 1] = v
      /\ \A i \in 1..Len(s) : r[i] = s[i]
      /\ DOMAIN r = 1..Len(s) + 1 /\ DOMAIN s = 1..Len(s) /\ Len(s) \in Nat
  OBVIOUS
<1>2. 1..Len(s) + 1 = (1..Len(s)) \union {Len(s) + 1}
  BY <1>1
<1> HIDE DEF r
<1>3. ToSet(r) = ToSet(s) \union {v}
  BY <1>1, <1>2 DEF ToSet
<1> QED
  BY <1>1, <1>3 DEF r

\* Only() keeps exactly the elements asked for.
LEMMA OnlyIs ==
  ASSUME NEW V, NEW s \in Seq(V), NEW T
  PROVE  /\ Only(s, T) \in Seq(V) /\ ToSet(Only(s, T)) = ToSet(s) \intersect T
         /\ Len(Only(s, T)) <= Len(s)
<1>1. /\ Len(s) \in Nat /\ << >> \in Seq(V)
      /\ \A a \in Seq(V) : \A k \in 1..Len(s) : Kept(a, s[k], T) \in Seq(V)
  BY DEF Kept
<1>2. PICK n \in Nat : n = Len(s)
  OBVIOUS
<1>3. PICK f \in [0..n -> Seq(V)] :
         /\ f[0] = << >>
         /\ \A k \in 1..n : f[k] = Kept(f[k - 1], s[k], T)
         /\ f[n] = Only(s, T)
  <2>1. \A a \in Seq(V) : \A k \in 1..n : Kept(a, s[k], T) \in Seq(V)
    BY <1>1, <1>2
  <2> DEFINE A == Seq(V)
  <2>2. << >> \in A /\ \A a \in A : \A k \in 1..n : Kept(a, s[k], T) \in A
    BY <1>1, <2>1
  <2> HIDE DEF A
  <2>3. PICK f : OnlyLoopIs(f, s, T, n, A)
    BY <1>2, <2>2, OnlyLoop
  <2> QED
    BY <2>3 DEF A, OnlyLoopIs
<1> DEFINE IsKept(k) == Len(f[k]) <= k /\ ToSet(f[k]) = {s[i] : i \in 1..k} \intersect T
           S == {k \in 0..n : IsKept(k)}
<1>4. IsKept(0)
  <2>1. ToSet(<< >>) = {} /\ Len(<< >>) = 0 /\ 1..0 = {}
    BY DEF ToSet
  <2> QED
    BY <1>3, <2>1
<1>5. ASSUME NEW k \in 1..n, IsKept(k - 1)
      PROVE  IsKept(k)
  <2> DEFINE a == f[k - 1]
  <2>1. a \in Seq(V) /\ k \in Nat /\ s[k] \in V /\ Len(a) \in Nat
    BY <1>2, <1>3
  <2>2. {s[i] : i \in 1..k} = {s[i] : i \in 1..k - 1} \union {s[k]}
    <3>1. 1..k = (1..k - 1) \union {k}
      BY <2>1
    <3> QED
      BY <3>1
  <2>3. f[k] = (IF s[k] \in T THEN Append(a, s[k]) ELSE a)
    BY <1>3 DEF Kept
  <2>4. Len(a) <= k - 1 /\ ToSet(a) = {s[i] : i \in 1..k - 1} \intersect T
    BY <1>5
  <2> HIDE DEF a
  <2>5. CASE s[k] \notin T
    BY <2>1, <2>2, <2>3, <2>4, <2>5
  <2>6. CASE s[k] \in T
    <3>1. Len(f[k]) = Len(a) + 1 /\ ToSet(f[k]) = ToSet(a) \union {s[k]}
      BY <2>1, <2>3, <2>6, Appended
    <3> QED
      BY <2>1, <2>2, <2>4, <2>6, <3>1
  <2> QED
    BY <2>5, <2>6
<1>6. n \in S
  <2>1. 0 \in S
    BY <1>4
  <2>2. ASSUME NEW k \in 1..n, k - 1 \in S
        PROVE  k \in S
    <3>1. k \in 0..n /\ IsKept(k - 1)
      BY <2>2
    <3> HIDE DEF IsKept
    <3> QED
      BY <1>5, <3>1
  <2>3. 0..n \subseteq S
    <3> HIDE DEF S
    <3> QED
      BY <2>1, <2>2, UpTo
  <2> QED
    BY <2>3
<1>7. {s[i] : i \in 1..n} = ToSet(s)
  <2>1. DOMAIN s = 1..n
    BY <1>2
  <2> QED
    BY <2>1 DEF ToSet
<1>8. f[n] \in Seq(V)
  <2>1. n \in 0..n
    BY <1>2
  <2> QED
    BY <1>3, <2>1
<1> QED
  BY <1>2, <1>3, <1>6, <1>7, <1>8

\* Looking up the keys of a snapshot gives its entries.
LEMMA SnapIs ==
  ASSUME NEW s \in Snaps
  PROVE  /\ s \in Seq(Entries) /\ Keys(s) \subseteq Seq(Names) \ {<< >>}
         /\ Keys(s) = {e.path : e \in ToSet(s)} /\ ToSet(s) \subseteq Entries
         /\ \A e \in ToSet(s) : Get(s, e.path) = e.file /\ e.path \in Keys(s)
         /\ \A p \in Keys(s) : Get(s, p) \in Files /\ [path |-> p, file |-> Get(s, p)] \in ToSet(s)
         /\ \A p : p \notin Keys(s) <=> Get(s, p) = Missing
         /\ s = << >> <=> Keys(s) = {}
<1>1. /\ s \in Seq(Entries) /\ ToSet(s) \subseteq Entries
      /\ \A d, e \in ToSet(s) : d.path = e.path => d = e
  BY DEF Snaps, ToSet
<1>2. Keys(s) = {e.path : e \in ToSet(s)}
  BY DEF Keys, ToSet
<1>3. \A e \in ToSet(s) : e = [path |-> e.path, file |-> e.file] /\ e.path \in Seq(Names) \ {<< >>} /\ e.file \in Files
  BY <1>1 DEF Entries
<1>4. ASSUME NEW p \in Keys(s)
      PROVE  \E e \in ToSet(s) : e.path = p /\ Get(s, p) = e.file
  <2> DEFINE i == CHOOSE j \in DOMAIN s : s[j].path = p
  <2>1. \E j \in DOMAIN s : s[j].path = p
    BY DEF Keys
  <2>2. i \in DOMAIN s /\ s[i].path = p
    BY <2>1
  <2>3. Get(s, p) = s[i].file
    BY DEF Get
  <2> HIDE DEF i
  <2> QED
    BY <2>2, <2>3 DEF ToSet
<1>5. ASSUME NEW e \in ToSet(s)
      PROVE  e.path \in Keys(s) /\ Get(s, e.path) = e.file
  <2>1. e.path \in Keys(s)
    BY <1>2
  <2>2. PICK d \in ToSet(s) : d.path = e.path /\ Get(s, e.path) = d.file
    BY <1>4, <2>1
  <2> QED
    BY <1>1, <2>1, <2>2
<1>6. ASSUME NEW p \in Keys(s)
      PROVE  Get(s, p) \in Files /\ [path |-> p, file |-> Get(s, p)] \in ToSet(s)
  BY <1>3, <1>4
<1>7. \A p : p \notin Keys(s) <=> Get(s, p) = Missing
  BY <1>6, OperationsAssumption DEF Get
<1>8. s = << >> <=> Keys(s) = {}
  <2>1. s # << >> => s[1].path \in Keys(s)
    BY <1>1 DEF Keys
  <2>2. s = << >> => Keys(s) = {}
    BY DEF Keys
  <2> QED
    BY <2>1, <2>2
<1> QED
  BY <1>1, <1>2, <1>3, <1>5, <1>6, <1>7, <1>8

\* Some entries of a snapshot are a snapshot of these files.
LEMMA OnlySnap ==
  ASSUME NEW s \in Snaps, NEW T
  PROVE  /\ Only(s, T) \in Snaps /\ ToSet(Only(s, T)) = ToSet(s) \intersect T
         /\ \A q : Get(Only(s, T), q) =
                IF q \in Keys(s) /\ [path |-> q, file |-> Get(s, q)] \in T THEN Get(s, q) ELSE Missing
<1> DEFINE r == Only(s, T)
<1>1. s \in Seq(Entries) /\ \A d, e \in ToSet(s) : d.path = e.path => d = e
  BY DEF Snaps
<1>2. r \in Seq(Entries) /\ ToSet(r) = ToSet(s) \intersect T
  BY <1>1, OnlyIs
<1> HIDE DEF r
<1>3. r \in Snaps
  BY <1>1, <1>2 DEF Snaps
<1>4. ASSUME NEW q
      PROVE  Get(r, q) = IF q \in Keys(s) /\ [path |-> q, file |-> Get(s, q)] \in T THEN Get(s, q) ELSE Missing
  <2> DEFINE e == [path |-> q, file |-> Get(s, q)]
  <2>1. CASE q \in Keys(s) /\ e \in T
    <3>1. e \in ToSet(r) /\ e.path = q /\ e.file = Get(s, q)
      BY <1>2, <2>1, SnapIs
    <3>2. Get(r, e.path) = e.file
      BY <1>3, <3>1, SnapIs
    <3> QED
      BY <2>1, <3>1, <3>2
  <2>2. CASE ~(q \in Keys(s) /\ e \in T)
    <3>1. ASSUME q \in Keys(r)
          PROVE  FALSE
      <4>1. [path |-> q, file |-> Get(r, q)] \in ToSet(r)
        BY <1>3, <3>1, SnapIs
      <4> DEFINE d == [path |-> q, file |-> Get(r, q)]
      <4>2. d \in ToSet(s) /\ d \in T /\ d.path = q /\ d.file = Get(r, q)
        BY <1>2, <4>1
      <4>3. d.path \in Keys(s) /\ Get(s, d.path) = d.file
        BY <4>2, SnapIs
      <4> QED
        BY <2>2, <4>2, <4>3
    <3>2. Get(r, q) = Missing
      BY <3>1 DEF Get
    <3> QED
      BY <2>2, <3>2
  <2> QED
    BY <2>1, <2>2
<1> QED
  BY <1>2, <1>3, <1>4 DEF r

\* An assignment changes one path.
LEMMA AssignSnap ==
  ASSUME NEW s \in Snaps, NEW p \in Seq(Names) \ {<< >>}, NEW f \in Files
  PROVE  /\ Assign(s, p, f) \in Snaps /\ Keys(Assign(s, p, f)) = Keys(s) \union {p}
         /\ \A q : Get(Assign(s, p, f), q) = IF q = p THEN f ELSE Get(s, q)
<1> DEFINE r == Assign(s, p, f)
           new == [path |-> p, file |-> f]
<1>1. /\ s \in Seq(Entries) /\ ToSet(s) \subseteq Entries
      /\ \A d, e \in ToSet(s) : d.path = e.path => d = e
      /\ Keys(s) = {e.path : e \in ToSet(s)}
      /\ DOMAIN s = 1..Len(s) /\ Len(s) \in Nat
  BY SnapIs DEF Snaps
<1>2. new \in Entries /\ new.path = p /\ new.file = f
  BY DEF Entries
<1>3. /\ r \in Seq(Entries)
      /\ ToSet(r) = {e \in ToSet(s) : e.path # p} \union {new}
  <2>1. CASE p \in Keys(s)
    <3>1. r = [i \in DOMAIN s |-> IF s[i].path = p THEN new ELSE s[i]]
      BY <2>1 DEF Assign
    <3> HIDE DEF r, new
    <3>2. \A i \in DOMAIN s : r[i] = (IF s[i].path = p THEN new ELSE s[i]) /\ s[i] \in ToSet(s)
      BY <3>1 DEF ToSet
    <3>3. DOMAIN r = DOMAIN s /\ r \in Seq(Entries)
      <4>1. \A i \in DOMAIN s : (IF s[i].path = p THEN new ELSE s[i]) \in Entries
        BY <1>1, <1>2, <3>2
      <4>2. r \in [1..Len(s) -> Entries]
        BY <1>1, <3>1, <4>1
      <4> QED
        BY <1>1, <4>2
    <3>4. \A i \in DOMAIN s : r[i].path = s[i].path
      BY <1>2, <3>2
    <3>6. PICK k \in DOMAIN s : s[k].path = p
      BY <2>1 DEF Keys
    <3>7. new \in ToSet(r)
      BY <3>2, <3>3, <3>6 DEF ToSet
    <3>8. \A e \in ToSet(r) : e = new \/ (e \in ToSet(s) /\ e.path # p)
      BY <3>2, <3>3 DEF ToSet
    <3>9. \A e \in ToSet(s) : e.path # p => e \in ToSet(r)
      BY <3>2, <3>3 DEF ToSet
    <3> QED
      BY <3>3, <3>7, <3>8, <3>9
  <2>2. CASE p \notin Keys(s)
    <3>1. r = Append(s, new)
      BY <2>2 DEF Assign
    <3> HIDE DEF r, new
    <3>2. /\ r \in Seq(Entries) /\ DOMAIN r = 1..Len(s) + 1 /\ r[Len(s) + 1] = new
          /\ \A i \in 1..Len(s) : r[i] = s[i]
      BY <1>1, <1>2, <3>1
    <3>3. 1..Len(s) + 1 = (1..Len(s)) \union {Len(s) + 1}
      BY <1>1
    <3>4. ToSet(r) = ToSet(s) \union {new}
      BY <1>1, <3>2, <3>3 DEF ToSet
    <3>5. \A e \in ToSet(s) : e.path # p
      BY <1>1, <2>2
    <3> QED
      BY <3>2, <3>4, <3>5
  <2> QED
    BY <2>1, <2>2
<1> HIDE DEF r
<1>4. r \in Snaps
  BY <1>1, <1>2, <1>3 DEF Snaps
<1>5. Keys(r) = {e.path : e \in ToSet(r)}
  BY <1>4, SnapIs
<1>6. Keys(r) = Keys(s) \union {p}
  BY <1>1, <1>2, <1>3, <1>5
<1>7. ASSUME NEW q
      PROVE  Get(r, q) = IF q = p THEN f ELSE Get(s, q)
  <2>1. CASE q = p
    <3>1. new \in ToSet(r)
      BY <1>3
    <3>2. Get(r, new.path) = new.file
      BY <1>4, <3>1, SnapIs
    <3> QED
      BY <1>2, <2>1, <3>2
  <2>2. CASE q # p /\ q \in Keys(s)
    <3>1. [path |-> q, file |-> Get(s, q)] \in ToSet(s)
      BY <2>2, SnapIs
    <3> DEFINE e == [path |-> q, file |-> Get(s, q)]
    <3>2. e \in ToSet(r) /\ e.path = q /\ e.file = Get(s, q)
      BY <1>3, <2>2, <3>1
    <3>3. Get(r, e.path) = e.file
      BY <1>4, <3>2, SnapIs
    <3> QED
      BY <2>2, <3>2, <3>3
  <2>3. CASE q # p /\ q \notin Keys(s)
    <3>1. q \notin Keys(r)
      BY <1>6, <2>3
    <3> QED
      BY <1>4, <2>3, <3>1, SnapIs
  <2> QED
    BY <2>1, <2>2, <2>3
<1> QED
  BY <1>4, <1>6, <1>7 DEF r

-----------------------------------------------------------------------------
(* Paths *)

PathsOf == Seq(Names) \ {<< >>}

\* A path joined to another starts with it.
LEMMA Joined ==
  ASSUME NEW p \in Seq(Names), NEW r \in Seq(Names)
  PROVE  /\ p \o r \in Seq(Names) /\ Len(p \o r) = Len(p) + Len(r)
         /\ IsPrefix(p, p \o r) /\ (IsStrictPrefix(p, p \o r) <=> r # << >>)
         /\ SubSeq(p \o r, Len(p) + 1, Len(p \o r)) = r
         /\ r # << >> => p \o r # << >>
<1> DEFINE q == p \o r
<1>1. /\ q \in Seq(Names) /\ Len(q) = Len(p) + Len(r) /\ Len(p) \in Nat /\ Len(r) \in Nat
      /\ \A i \in 1..Len(p) : q[i] = p[i]
      /\ \A i \in 1..Len(r) : q[Len(p) + i] = r[i]
  OBVIOUS
<1> HIDE DEF q
<1>2. IsPrefix(p, q)
  <2>1. SubSeq(p, 1, Len(p)) = p
    BY <1>1
  <2>2. SubSeq(q, 1, Len(p)) = p
    BY <1>1
  <2> QED
    BY <1>1, <2>1, <2>2 DEF IsPrefix
<1>3. SubSeq(q, Len(p) + 1, Len(q)) = r
  BY <1>1
<1>4. r = << >> => q = p
  BY <1>1
<1>5. r # << >> => q # p /\ q # << >>
  BY <1>1
<1> QED
  BY <1>1, <1>2, <1>3, <1>4, <1>5 DEF q, IsStrictPrefix

\* A path is any of its prefixes and what comes after it.
LEMMA Split ==
  ASSUME NEW p \in Seq(Names), NEW q \in Seq(Names), IsPrefix(p, q)
  PROVE  LET r == SubSeq(q, Len(p) + 1, Len(q))
         IN  r \in Seq(Names) /\ q = p \o r /\ Len(r) = Len(q) - Len(p)
<1> DEFINE r == SubSeq(q, Len(p) + 1, Len(q))
<1>1. /\ Len(p) <= Len(q) /\ SubSeq(p, 1, Len(p)) = SubSeq(q, 1, Len(p))
      /\ Len(p) \in Nat /\ Len(q) \in Nat
  BY DEF IsPrefix
<1>2. SubSeq(p, 1, Len(p)) = p
  BY <1>1
<1>3. r \in Seq(Names) /\ Len(r) = Len(q) - Len(p) /\ \A i \in 1..Len(r) : r[i] = q[Len(p) + i]
  BY <1>1
<1>4. \A i \in 1..Len(p) : p[i] = q[i]
  <2>1. \A i \in 1..Len(p) : SubSeq(q, 1, Len(p))[i] = q[i]
    BY <1>1
  <2> QED
    BY <1>1, <1>2, <2>1
<1> HIDE DEF r
<1>5. q = p \o r
  <2> DEFINE t == p \o r
  <2>1. t \in Seq(Names) /\ Len(t) = Len(q)
    BY <1>1, <1>3
  <2>2. ASSUME NEW i \in 1..Len(q)
        PROVE  q[i] = t[i]
    <3>1. CASE i <= Len(p)
      BY <1>1, <1>3, <1>4, <3>1
    <3>2. CASE i > Len(p)
      <4>1. i - Len(p) \in 1..Len(r) /\ Len(p) + (i - Len(p)) = i
        BY <1>1, <1>3, <3>2
      <4>2. t[i] = r[i - Len(p)] /\ r[i - Len(p)] = q[i]
        BY <1>1, <1>3, <3>2, <4>1
      <4> QED
        BY <4>2
    <3>3. i <= Len(p) \/ i > Len(p)
      BY <1>1
    <3> HIDE DEF t
    <3> QED
      BY <3>1, <3>2, <3>3
  <2> HIDE DEF t
  <2>3. q = t
    BY <2>1, <2>2, SeqEqual
  <2> QED
    BY <2>3 DEF t
<1> QED
  BY <1>3, <1>5 DEF r

\* Paths that go on from the same directory in the same way are the same.
LEMMA Cancel ==
  ASSUME NEW p \in Seq(Names), NEW q \in Seq(Names), NEW r \in Seq(Names), p \o q = p \o r
  PROVE  q = r
<1>1. SubSeq(p \o q, Len(p) + 1, Len(p \o q)) = q
  BY Joined
<1>2. SubSeq(p \o r, Len(p) + 1, Len(p \o r)) = r
  BY Joined
<1> QED
  BY <1>1, <1>2

-----------------------------------------------------------------------------
(* What is below a directory *)

\* What is below a directory is a snapshot, of the paths that go on from it.
LEMMA BelowSnap ==
  ASSUME NEW s \in Snaps, NEW p \in Seq(Names)
  PROVE  /\ Below(s, p) \in Snaps
         /\ Keys(Below(s, p)) = {q \in PathsOf : p \o q \in Keys(s)}
         /\ \A q \in Keys(Below(s, p)) : Get(Below(s, p), q) = Get(s, p \o q)
<1> DEFINE T == {e \in ToSet(s) : IsStrictPrefix(p, e.path)}
           b == Only(s, T)
           Moved(e) == [e EXCEPT !.path = SubSeq(@, Len(p) + 1, Len(@))]
           r == Below(s, p)
<1>1. /\ ToSet(s) \subseteq Entries /\ \A d, e \in ToSet(s) : d.path = e.path => d = e
      /\ \A e \in ToSet(s) : e.path \in Keys(s) /\ Get(s, e.path) = e.file
      /\ \A q \in Keys(s) : [path |-> q, file |-> Get(s, q)] \in ToSet(s)
      /\ Keys(s) \subseteq PathsOf
  BY SnapIs DEF Snaps, PathsOf
<1>2. b \in Seq(Entries) /\ ToSet(b) = T /\ T \subseteq ToSet(s)
  <2>1. b \in Snaps /\ ToSet(b) = ToSet(s) \intersect T
    BY OnlySnap
  <2> QED
    BY <2>1, SnapIs
<1>3. r = [i \in DOMAIN b |-> Moved(b[i])]
  BY DEF Below
<1>4. ASSUME NEW e \in T
      PROVE  /\ Moved(e) \in Entries /\ e.path = p \o Moved(e).path /\ Moved(e).file = e.file
             /\ Moved(e).path \in PathsOf
  <2> DEFINE q == SubSeq(e.path, Len(p) + 1, Len(e.path))
  <2>1. e.path \in PathsOf /\ e.file \in Files /\ IsStrictPrefix(p, e.path) /\ e = [path |-> e.path, file |-> e.file]
    BY <1>1 DEF Entries, PathsOf
  <2>2. q \in Seq(Names) /\ e.path = p \o q
    BY <2>1, Split DEF IsStrictPrefix, PathsOf
  <2>3. q # << >>
    BY <2>1, <2>2, Joined
  <2>4. Moved(e) = [path |-> q, file |-> e.file]
    <3>1. PICK a \in PathsOf, c \in Files : e = [path |-> a, file |-> c]
      BY <2>1
    <3> DEFINE x == [path |-> a, file |-> c]
               t == SubSeq(a, Len(p) + 1, Len(a))
    <3>2. [x EXCEPT !.path = SubSeq(@, Len(p) + 1, Len(@))] = [path |-> t, file |-> c]
      <4>1. x.path = a
        OBVIOUS
      <4>2. [x EXCEPT !.path = SubSeq(@, Len(p) + 1, Len(@))] = [x EXCEPT !.path = t]
        BY <4>1
      <4> HIDE DEF t
      <4> QED
        BY <4>2
    <3> QED
      BY <3>1, <3>2
  <2> HIDE DEF q, Moved
  <2> QED
    BY <2>1, <2>2, <2>3, <2>4 DEF Entries, PathsOf
<1> HIDE DEF T, b, Moved, r
<1>5. /\ r \in Seq(Entries) /\ ToSet(r) = {Moved(e) : e \in T}
  <2>1. DOMAIN b = 1..Len(b) /\ Len(b) \in Nat /\ \A i \in DOMAIN b : b[i] \in T
    BY <1>2 DEF ToSet
  <2>2. DOMAIN r = 1..Len(b) /\ \A i \in 1..Len(b) : r[i] = Moved(b[i]) /\ r[i] \in Entries
    BY <1>3, <1>4, <2>1
  <2>3. r \in [1..Len(b) -> Entries]
    BY <1>3, <2>1, <2>2
  <2>4. \A e \in T : \E i \in DOMAIN b : b[i] = e
    BY <1>2 DEF ToSet
  <2>5. ToSet(r) = {Moved(e) : e \in T}
    BY <2>1, <2>2, <2>4 DEF ToSet
  <2> QED
    BY <2>1, <2>3, <2>5
<1>6. r \in Snaps
  <2>1. ASSUME NEW d \in ToSet(r), NEW e \in ToSet(r), d.path = e.path
        PROVE  d = e
    <3>1. PICK x \in T : d = Moved(x)
      BY <1>5, <2>1
    <3>2. PICK y \in T : e = Moved(y)
      BY <1>5, <2>1
    <3>3. x.path = y.path
      BY <1>4, <2>1, <3>1, <3>2
    <3> QED
      BY <1>1, <1>2, <3>1, <3>2, <3>3
  <2> QED
    BY <1>5, <2>1 DEF Snaps
<1>7. ASSUME NEW q \in Keys(r)
      PROVE  q \in PathsOf /\ p \o q \in Keys(s) /\ Get(r, q) = Get(s, p \o q)
  <2>1. [path |-> q, file |-> Get(r, q)] \in ToSet(r)
    BY <1>6, <1>7, SnapIs
  <2>2. PICK e \in T : [path |-> q, file |-> Get(r, q)] = Moved(e)
    BY <1>5, <2>1
  <2>3. Moved(e).path = q /\ Moved(e).file = Get(r, q)
    BY <2>2
  <2>4. e.path = p \o q /\ e.file = Get(r, q) /\ q \in PathsOf
    BY <1>4, <2>3
  <2> QED
    BY <1>1, <1>2, <2>4
<1>8. ASSUME NEW q \in PathsOf, p \o q \in Keys(s)
      PROVE  q \in Keys(r)
  <2> DEFINE e == [path |-> p \o q, file |-> Get(s, p \o q)]
  <2>1. e \in ToSet(s) /\ e.path = p \o q
    BY <1>1, <1>8
  <2>2. IsStrictPrefix(p, p \o q)
    BY Joined DEF PathsOf
  <2>3. e \in T
    BY <2>1, <2>2 DEF T
  <2>4. p \o q = p \o Moved(e).path /\ Moved(e).path \in PathsOf
    BY <1>4, <2>1, <2>3
  <2>5. Moved(e).path = q
    BY <2>4, Cancel DEF PathsOf
  <2>6. Moved(e) \in ToSet(r)
    BY <1>5, <2>3
  <2> QED
    BY <1>6, <2>5, <2>6, SnapIs
<1> QED
  BY <1>6, <1>7, <1>8 DEF r

\* Files put below a directory are found there, and all else is as before.
LEMMA AssignsBelow ==
  ASSUME NEW s \in Snaps, NEW d \in Seq(Names), NEW from \in Snaps
  PROVE  LET r == AssignBelow(s, d, from)
         IN  /\ r \in Snaps
             /\ \A q \in Keys(from) : Get(r, d \o q) = Get(from, q)
             /\ \A q : (\A t \in Keys(from) : q # d \o t) => Get(r, q) = Get(s, q)
<1> DEFINE A == Snaps
           r == AssignBelow(s, d, from)
<1>1. PICK n \in Nat : n = Len(from)
  BY SnapIs
<1>2. /\ \A k \in 1..n : from[k] \in ToSet(from) /\ from[k].path \in PathsOf /\ from[k].file \in Files
      /\ \A i, j \in 1..n : from[i].path = from[j].path => from[i] = from[j]
      /\ ToSet(from) = {from[k] : k \in 1..n}
  <2>1. from \in Seq(Entries) /\ DOMAIN from = 1..n
    BY <1>1, SnapIs
  <2>2. \A k \in 1..n : from[k] \in ToSet(from)
    BY <2>1 DEF ToSet
  <2>3. ToSet(from) = {from[k] : k \in 1..n}
    BY <2>1 DEF ToSet
  <2>4. \A e \in ToSet(from) : e.path \in PathsOf /\ e.file \in Files
    BY SnapIs DEF Entries, PathsOf
  <2> QED
    BY <2>2, <2>3, <2>4 DEF Snaps
<1>3. \A k \in 1..n : d \o from[k].path \in PathsOf
  BY <1>2, Joined DEF PathsOf
<1>4. \A a \in A : \A k \in 1..n : Put(a, d, from[k]) \in A
  BY <1>2, <1>3, AssignSnap DEF PathsOf, Put
<1>5. PICK f \in [0..n -> A] :
         /\ f[0] = s
         /\ \A k \in 1..n : f[k] = Put(f[k - 1], d, from[k])
         /\ f[n] = r
  <2>1. s \in A /\ n \in Nat /\ n = Len(from) /\ \A a \in A : \A k \in 1..n : Put(a, d, from[k]) \in A
    BY <1>1, <1>4
  <2> HIDE DEF A, r
  <2>2. PICK f : AssignLoopIs(f, s, d, from, n, A)
    BY <2>1, AssignLoop
  <2> QED
    BY <2>2 DEF r, AssignLoopIs
<1> DEFINE Done(k) == /\ \A i \in 1..k : Get(f[k], d \o from[i].path) = from[i].file
                      /\ \A q : (\A i \in 1..k : q # d \o from[i].path) => Get(f[k], q) = Get(s, q)
           S == {k \in 0..n : Done(k)}
<1> HIDE DEF A
<1>6. 0 \in S
  BY <1>5
<1>7. ASSUME NEW k \in 1..n, k - 1 \in S
      PROVE  k \in S
  <2>a. k \in 0..n /\ k - 1 \in 0..n /\ Done(k - 1) /\ k \in 1..k /\ k \in Nat
    <3>1. Done(k - 1)
      BY <1>7
    <3> HIDE DEF Done
    <3> QED
      BY <3>1
  <2>b. f[k - 1] \in Snaps
    <3> HIDE DEF Done
    <3> QED
      BY <1>5, <2>a DEF A
  <2>1. k \in 0..n /\ Done(k - 1) /\ f[k - 1] \in Snaps /\ k \in 1..k /\ k \in Nat
    BY <2>a, <2>b
  <2> DEFINE here == d \o from[k].path
  <2>2. \A q : Get(f[k], q) = IF q = here THEN from[k].file ELSE Get(f[k - 1], q)
    <3>1. here \in PathsOf /\ from[k].file \in Files /\ f[k - 1] \in Snaps
      BY <1>2, <1>3, <2>b
    <3>2. f[k] = Assign(f[k - 1], here, from[k].file)
      BY <1>5 DEF Put
    <3> HIDE DEF here
    <3> QED
      BY <3>1, <3>2, AssignSnap DEF PathsOf
  <2>3. ASSUME NEW i \in 1..k
        PROVE  Get(f[k], d \o from[i].path) = from[i].file
    <3>1. CASE d \o from[i].path = here
      <4>0. i \in 1..n /\ from[i].path \in Seq(Names) /\ from[k].path \in Seq(Names)
        BY <1>2, <2>a DEF PathsOf
      <4>1. from[i].path = from[k].path
        BY <3>1, <4>0, Cancel
      <4>2. from[i] = from[k]
        BY <1>2, <4>0, <4>1
      <4> QED
        BY <2>2, <3>1, <4>2
    <3>2. CASE d \o from[i].path # here
      <4>1. i \in 1..k - 1
        <5>1. i # k
          BY <3>2
        <5> QED
          BY <2>a, <5>1
      <4> QED
        BY <2>1, <2>2, <3>2, <4>1
    <3> QED
      BY <3>1, <3>2
  <2>4. ASSUME NEW q, \A i \in 1..k : q # d \o from[i].path
        PROVE  Get(f[k], q) = Get(s, q)
    <3>1. q # here /\ \A i \in 1..k - 1 : q # d \o from[i].path
      <4>1. \A i \in 1..k - 1 : i \in 1..k
        BY <2>a
      <4> QED
        BY <2>a, <2>4, <4>1
    <3> QED
      BY <2>1, <2>2, <3>1
  <2> QED
    BY <2>1, <2>3, <2>4
<1>8. n \in S
  <2> HIDE DEF S
  <2>1. 0..n \subseteq S
    BY <1>6, <1>7, UpTo
  <2>2. n \in 0..n
    OBVIOUS
  <2> QED
    BY <2>1, <2>2
<1>9. r \in Snaps
  BY <1>5 DEF A
<1>10. ASSUME NEW q \in Keys(from)
       PROVE  Get(r, d \o q) = Get(from, q)
  <2>1. [path |-> q, file |-> Get(from, q)] \in ToSet(from)
    BY SnapIs
  <2>2. PICK i \in 1..n : from[i] = [path |-> q, file |-> Get(from, q)]
    BY <1>2, <2>1
  <2> QED
    BY <1>5, <1>8, <2>2
<1>11. ASSUME NEW q, \A t \in Keys(from) : q # d \o t
       PROVE  Get(r, q) = Get(s, q)
  <2>1. \A i \in 1..n : from[i].path \in Keys(from)
    BY <1>2, SnapIs
  <2> QED
    BY <1>5, <1>8, <1>11, <2>1
<1> QED
  BY <1>9, <1>10, <1>11

-----------------------------------------------------------------------------
(* Operations *)

\* What an operation that speaks of p leaves there.
Said(base, op, p) ==
  CASE op.kind = "add" -> op.file
    [] op.kind \in {"delete", "delete folder"} -> Missing
    [] op.kind = "copy" -> Get(base, CopySource(base, op, p))

Orders ==
  [kind : {"add"}, path : PathsOf, file : Files]
    \union [kind : {"delete", "delete folder"}, path : PathsOf]
    \union [kind : {"copy"}, src : PathsOf, path : PathsOf, src_revision : {"none", "tag"}]

\* What copies are taken from.
Sources == [none : Snaps, tag : Snaps]

\* The operations that the runs use are orders.
LEMMA OperationsAreOrders == Operations \subseteq Orders
<1>1. AddPaths \subseteq PathsOf /\ Folders \subseteq PathsOf /\ CopyPaths \subseteq PathsOf
  BY OperationsAssumption DEF PathsOf
<1>2. Adds \subseteq Orders
  BY <1>1 DEF Adds, Orders
<1>3. Deletes \subseteq Orders
  BY <1>1 DEF Deletes, Orders
<1>4. FolderDeletes \subseteq Orders
  BY <1>1 DEF FolderDeletes, Orders
<1>5. Copies \subseteq Orders
  BY <1>1 DEF Copies, Orders
<1> QED
  BY <1>2, <1>3, <1>4, <1>5 DEF Operations

\* What each kind of order has.
LEMMA OrderTypes ==
  ASSUME NEW op \in Orders
  PROVE  /\ op.kind \in {"add", "delete", "delete folder", "copy"} /\ op.path \in PathsOf
         /\ op.kind = "add" => op.file \in Files
         /\ op.kind = "copy" => op.src \in PathsOf /\ op.src_revision \in {"none", "tag"}
  BY DEF Orders

\* An order has a source.
LEMMA SourceIs ==
  ASSUME NEW sources \in Sources, NEW op \in Orders
  PROVE  SourceOf(sources, op) \in Snaps
<1>1. CASE op.kind = "copy"
  <2>1. op.src_revision = "none" \/ op.src_revision = "tag"
    BY <1>1, OrderTypes
  <2> QED
    BY <1>1, <2>1 DEF SourceOf, Sources
<1>2. CASE op.kind # "copy"
  BY <1>2 DEF SourceOf, Sources
<1> QED
  BY <1>1, <1>2

\* s becomes r, and of the paths that op speaks of, r has what op says.
Does(r, s, base, op) ==
  /\ r \in Snaps
  /\ \A p \in PathsOf : Get(r, p) = IF Speaks(base, op, p) THEN Said(base, op, p) ELSE Get(s, p)

\* An addition does what it says.
LEMMA AddDoes ==
  ASSUME NEW s \in Snaps, NEW base \in Snaps, NEW op \in Orders, op.kind = "add"
  PROVE  Does(Assign(s, op.path, op.file), s, base, op)
<1>1. op.path \in PathsOf /\ op.file \in Files
  BY OrderTypes
<1>2. \A p : Speaks(base, op, p) <=> op.path = p
  BY DEF Speaks
<1>3. \A p : Said(base, op, p) = op.file
  BY DEF Said
<1> QED
  BY <1>1, <1>2, <1>3, AssignSnap DEF Does, PathsOf

\* So does a deletion, of a file or of a folder,
LEMMA DeleteDoes ==
  ASSUME NEW s \in Snaps, NEW base \in Snaps, NEW op \in Orders,
         op.kind \in {"delete", "delete folder"}, Deleted(s, op) # Failed
  PROVE  Does(Deleted(s, op), s, base, op)
<1> DEFINE gone(e) == IF op.kind = "delete" THEN e.path = op.path
                      ELSE IsStrictPrefix(op.path, e.path)
           T == {e \in ToSet(s) : ~gone(e)}
           r == Only(s, T)
<1>1. r = Deleted(s, op)
  BY DEF Deleted
<1>2. \A e : Speaks(base, op, e.path) <=> gone(e)
  BY DEF Speaks
<1>3. \A p : Said(base, op, p) = Missing
  BY DEF Said
<1>4. ASSUME NEW p \in PathsOf
      PROVE  Get(r, p) = IF Speaks(base, op, p) THEN Said(base, op, p) ELSE Get(s, p)
  <2> DEFINE e == [path |-> p, file |-> Get(s, p)]
  <2>1. Get(r, p) = IF p \in Keys(s) /\ e \in T THEN Get(s, p) ELSE Missing
    <3> HIDE DEF T
    <3> QED
      BY OnlySnap
  <2>2. p \in Keys(s) => e \in ToSet(s)
    BY SnapIs
  <2>3. p \in Keys(s) => (e \in T <=> ~Speaks(base, op, e.path))
    <3> HIDE DEF gone, e
    <3> QED
      BY <1>2, <2>2
  <2>4. e.path = p
    OBVIOUS
  <2>5. p \notin Keys(s) => Get(s, p) = Missing
    BY SnapIs
  <2> HIDE DEF e, T, r
  <2> QED
    BY <1>3, <2>1, <2>3, <2>4, <2>5
<1>5. r \in Snaps
  <2> HIDE DEF T
  <2> QED
    BY OnlySnap
<1> HIDE DEF r
<1> QED
  BY <1>1, <1>4, <1>5 DEF Does

\* and a copy of a file or of a folder.
LEMMA CopyDoes ==
  ASSUME NEW s \in Snaps, NEW base \in Snaps, NEW op \in Orders, op.kind = "copy",
         Copied(s, base, op) # Failed
  PROVE  Does(Copied(s, base, op), s, base, op)
<1>1. op.path \in PathsOf /\ op.src \in PathsOf /\ op.path \in Seq(Names) /\ op.src \in Seq(Names)
  BY OrderTypes DEF PathsOf
<1>2. \A p : Speaks(base, op, p) <=> CopySource(base, op, p) # Missing
  BY DEF Speaks
<1>3. \A p : Said(base, op, p) = Get(base, CopySource(base, op, p))
  BY DEF Said
<1>4. CASE op.src \in Keys(base)
  <2>1. Copied(s, base, op) = Assign(s, op.path, Get(base, op.src))
    BY <1>4 DEF Copied
  <2>2. Get(base, op.src) \in Files
    BY <1>4, SnapIs
  <2>3. \A p : CopySource(base, op, p) = IF p = op.path THEN op.src ELSE Missing
    BY <1>4 DEF CopySource
  <2>4. op.src # Missing
    BY <1>1, OperationsAssumption
  <2>5. \A p : Speaks(base, op, p) <=> p = op.path
    BY <1>2, <2>3, <2>4
  <2> QED
    BY <1>1, <1>3, <2>1, <2>2, <2>3, <2>5, AssignSnap DEF Does, PathsOf
<1>5. CASE op.src \notin Keys(base)
  <2> DEFINE from == Below(base, op.src)
             r == AssignBelow(s, op.path, from)
             Rest(p) == SubSeq(p, Len(op.path) + 1, Len(p))
  <2>1. Copied(s, base, op) = r
    BY <1>5 DEF Copied
  <2>2. /\ from \in Snaps /\ Keys(from) = {q \in PathsOf : op.src \o q \in Keys(base)}
        /\ \A q \in Keys(from) : Get(from, q) = Get(base, op.src \o q)
    BY <1>1, BelowSnap
  <2>3. \A p : CopySource(base, op, p) =
                 IF IsStrictPrefix(op.path, p) /\ op.src \o Rest(p) \in Keys(base)
                 THEN op.src \o Rest(p) ELSE Missing
    BY <1>5 DEF CopySource
  <2> HIDE DEF from
  <2>4. /\ r \in Snaps
        /\ \A q \in Keys(from) : Get(r, op.path \o q) = Get(from, q)
        /\ \A q : (\A t \in Keys(from) : q # op.path \o t) => Get(r, q) = Get(s, q)
    BY <1>1, <2>2, AssignsBelow
  <2> HIDE DEF r
  <2>5. ASSUME NEW p \in PathsOf
        PROVE  Get(r, p) = IF Speaks(base, op, p) THEN Said(base, op, p) ELSE Get(s, p)
    <3>1. CASE \E q \in Keys(from) : p = op.path \o q
      <4>1. PICK q \in Keys(from) : p = op.path \o q
        BY <3>1
      <4>2. q \in PathsOf /\ q \in Seq(Names) /\ q # << >> /\ op.src \o q \in Keys(base)
        BY <2>2 DEF PathsOf
      <4>3. IsStrictPrefix(op.path, p) /\ Rest(p) = q
        BY <1>1, <4>1, <4>2, Joined
      <4>4. op.src \o q # Missing
        <5>1. op.src \o q \in Seq(Names)
          BY <1>1, <4>2, Joined
        <5> QED
          BY <5>1, OperationsAssumption
      <4>5. CopySource(base, op, p) = op.src \o q
        BY <2>3, <4>2, <4>3
      <4>6. Speaks(base, op, p) /\ Said(base, op, p) = Get(base, op.src \o q)
        BY <1>2, <1>3, <4>4, <4>5
      <4>7. Get(r, p) = Get(from, q) /\ Get(from, q) = Get(base, op.src \o q)
        BY <2>2, <2>4, <4>1
      <4> QED
        BY <4>6, <4>7
    <3>2. CASE ~ \E q \in Keys(from) : p = op.path \o q
      <4>1. ~(IsStrictPrefix(op.path, p) /\ op.src \o Rest(p) \in Keys(base))
        <5>1. ASSUME IsStrictPrefix(op.path, p), op.src \o Rest(p) \in Keys(base)
              PROVE  FALSE
          <6>1. Rest(p) \in Seq(Names) /\ p = op.path \o Rest(p)
            BY <1>1, <5>1, Split DEF IsStrictPrefix, PathsOf
          <6> HIDE DEF Rest
          <6>2. Rest(p) # << >>
            <7>1. op.path \in Seq(Names) /\ IsStrictPrefix(op.path, op.path \o Rest(p))
              BY <1>1, <5>1, <6>1 DEF PathsOf
            <7> QED
              BY <6>1, <7>1, Joined
          <6>3. Rest(p) \in Keys(from)
            BY <2>2, <5>1, <6>1, <6>2 DEF PathsOf
          <6> QED
            BY <3>2, <6>1, <6>3
        <5> QED
          BY <5>1
      <4>2. ~ Speaks(base, op, p)
        <5> HIDE DEF Rest
        <5> QED
          BY <1>2, <2>3, <4>1
      <4>3. Get(r, p) = Get(s, p)
        BY <2>4, <3>2
      <4> QED
        BY <4>2, <4>3
    <3> QED
      BY <3>1, <3>2
  <2> QED
    BY <2>1, <2>4, <2>5 DEF Does
<1> QED
  BY <1>4, <1>5

\* An operation does what it says, or fails.
LEMMA AppliedDoes ==
  ASSUME NEW s \in Snaps, NEW base \in Snaps, NEW op \in Orders, s # Failed,
         Applied(s, base, op) # Failed
  PROVE  Does(Applied(s, base, op), s, base, op)
<1>1. op.kind \in {"add", "delete", "delete folder", "copy"}
  BY OrderTypes
<1>2. CASE op.kind = "add"
  BY <1>2, AddDoes DEF Applied
<1>3. CASE op.kind \in {"delete", "delete folder"}
  <2>1. Applied(s, base, op) = Deleted(s, op)
    BY <1>3 DEF Applied
  <2> QED
    BY <1>3, <2>1, DeleteDoes
<1>4. CASE op.kind = "copy"
  <2>1. Applied(s, base, op) = Copied(s, base, op)
    BY <1>4 DEF Applied
  <2> QED
    BY <1>4, <2>1, CopyDoes
<1> QED
  BY <1>1, <1>2, <1>3, <1>4

\* The maximum of a set with a greatest number.
LEMMA MaxIs ==
  ASSUME NEW S, S \subseteq Int, NEW m \in S, \A x \in S : x <= m
  PROVE  Max(S) = m
<1>1. \A y \in S : m >= y
  OBVIOUS
<1>2. Max(S) \in S /\ \A y \in S : Max(S) >= y
  BY <1>1 DEF Max
<1>3. Max(S) >= m /\ Max(S) <= m /\ Max(S) \in Int /\ m \in Int
  BY <1>2
<1> QED
  BY <1>3

\* Of the first k operations, the last that speaks of p decides.
Decided(sources, ops, k, p) ==
  LET spoken == {i \in 1..k : Speaks(SourceOf(sources, ops[i]), ops[i], p)}
  IN  IF spoken = {} THEN Get(sources.none, p) ELSE Said(SourceOf(sources, ops[Max(spoken)]), ops[Max(spoken)], p)

\* The next operation decides if it speaks of the path.
LEMMA DecidedNext ==
  ASSUME NEW sources, NEW ops, NEW k \in Nat \ {0}, NEW p
  PROVE  Decided(sources, ops, k, p) =
           IF Speaks(SourceOf(sources, ops[k]), ops[k], p) THEN Said(SourceOf(sources, ops[k]), ops[k], p)
           ELSE Decided(sources, ops, k - 1, p)
<1> DEFINE S(n) == {i \in 1..n : Speaks(SourceOf(sources, ops[i]), ops[i], p)}
<1>1. k - 1 \in Nat /\ 1..k = (1..k - 1) \union {k} /\ \A i \in 1..k : i <= k
  OBVIOUS
<1>2. CASE Speaks(SourceOf(sources, ops[k]), ops[k], p)
  <2>1. k \in S(k) /\ S(k) \subseteq Int /\ \A x \in S(k) : x <= k
    BY <1>1, <1>2
  <2>2. Max(S(k)) = k /\ S(k) # {}
    <3> HIDE DEF S
    <3> QED
      BY <2>1, MaxIs
  <2> QED
    BY <1>2, <2>2 DEF Decided
<1>3. CASE ~Speaks(SourceOf(sources, ops[k]), ops[k], p)
  <2>1. S(k) = S(k - 1)
    BY <1>1, <1>3
  <2> QED
    BY <1>3, <2>1 DEF Decided
<1> QED
  BY <1>2, <1>3

\* What a list means is what its last operation on the path decides.
LEMMA MeaningIsDecided ==
  ASSUME NEW sources, NEW ops \in Seq(Orders), NEW p
  PROVE  Meaning(sources, ops, p) = Decided(sources, ops, Len(ops), p)
<1> DEFINE S == {i \in 1..Len(ops) : Speaks(SourceOf(sources, ops[i]), ops[i], p)}
           op == ops[Max(S)]
<1>1. DOMAIN ops = 1..Len(ops)
  OBVIOUS
<1>2. Meaning(sources, ops, p) =
        IF S = {} THEN Get(sources.none, p)
        ELSE CASE op.kind = "add" -> op.file
               [] op.kind \in {"delete", "delete folder"} -> Missing
               [] op.kind = "copy" -> Get(SourceOf(sources, op), CopySource(SourceOf(sources, op), op, p))
  BY <1>1 DEF Meaning
<1>3. Decided(sources, ops, Len(ops), p) = IF S = {} THEN Get(sources.none, p) ELSE Said(SourceOf(sources, op), op, p)
  BY DEF Decided
<1>4. ASSUME S # {}
      PROVE  op.kind \in {"add", "delete", "delete folder", "copy"}
  <2>1. Max(S) \in S
    <3>1. S \in SUBSET (1..Len(ops)) /\ Len(ops) \in Nat
      OBVIOUS
    <3> HIDE DEF S
    <3> QED
      BY <1>4, <3>1, MaxOfNumbers
  <2>2. ops[Max(S)] \in Orders
    BY <2>1
  <2> QED
    BY <2>2, OrderTypes
<1> HIDE DEF S, op
<1>5. CASE S = {}
  BY <1>2, <1>3, <1>5
<1>6. CASE S # {}
  BY <1>2, <1>3, <1>4, <1>6 DEF Said
<1> QED
  BY <1>5, <1>6

\* The files after all the operations are what the operations mean.
LEMMA OperationsMean ==
  ASSUME NEW sources \in Sources, NEW ops \in Seq(Orders), AllApplied(sources, ops) # Failed
  PROVE  /\ AllApplied(sources, ops) \in Snaps
         /\ \A p \in PathsOf : Get(AllApplied(sources, ops), p) = Meaning(sources, ops, p)
<1> DEFINE A == Snaps \union {Failed}
<1>1. PICK n \in Nat : n = Len(ops)
  OBVIOUS
<1>2. \A k \in 1..n : ops[k] \in Orders
  BY <1>1
<1>3. ASSUME NEW a \in A, NEW k \in 1..n
      PROVE  Applied(a, SourceOf(sources, ops[k]), ops[k]) \in A
  <2>1. CASE a = Failed \/ Applied(a, SourceOf(sources, ops[k]), ops[k]) = Failed
    BY <2>1 DEF Applied
  <2>2. CASE a # Failed /\ Applied(a, SourceOf(sources, ops[k]), ops[k]) # Failed
    BY <1>2, <2>2, SourceIs, AppliedDoes DEF Does
  <2> QED
    BY <2>1, <2>2
<1>4. PICK f : StagedLoopIs(f, sources, ops, n, A)
  <2>1. sources.none \in A
    BY DEF Sources
  <2> HIDE DEF A
  <2> QED
    BY <1>1, <1>3, <2>1, StagedLoop
<1>5. /\ f \in [0..n -> A] /\ f[0] = sources.none /\ f[n] = AllApplied(sources, ops)
      /\ \A k \in 1..n : f[k] = Applied(f[k - 1], SourceOf(sources, ops[k]), ops[k])
  BY <1>4 DEF StagedLoopIs
<1> DEFINE Done(k) == f[k] # Failed => f[k] \in Snaps /\ \A p \in PathsOf : Get(f[k], p) = Decided(sources, ops, k, p)
           S == {k \in 0..n : Done(k)}
<1>6. 0 \in S
  <2>1. \A p : Decided(sources, ops, 0, p) = Get(sources.none, p)
    <3>1. 1..0 = {}
      OBVIOUS
    <3> QED
      BY <3>1 DEF Decided
  <2> QED
    BY <1>5, <2>1 DEF Sources
<1>7. ASSUME NEW k \in 1..n, k - 1 \in S
      PROVE  k \in S
  <2>1. k \in 0..n /\ k \in Nat \ {0}
    OBVIOUS
  <2>2. Done(k - 1)
    BY <1>7
  <2>3. Done(k)
    <3>1. SUFFICES ASSUME f[k] # Failed
                   PROVE  f[k] \in Snaps /\ \A p \in PathsOf : Get(f[k], p) = Decided(sources, ops, k, p)
      OBVIOUS
    <3>2. f[k] = Applied(f[k - 1], SourceOf(sources, ops[k]), ops[k])
      BY <1>5
    <3>3. f[k - 1] # Failed
      BY <3>1, <3>2 DEF Applied
    <3>4. f[k - 1] \in Snaps /\ \A p \in PathsOf : Get(f[k - 1], p) = Decided(sources, ops, k - 1, p)
      BY <2>2, <3>3
    <3>5. Does(f[k], f[k - 1], SourceOf(sources, ops[k]), ops[k])
      BY <1>2, <3>1, <3>2, <3>3, <3>4, SourceIs, AppliedDoes
    <3> QED
      BY <2>1, <3>4, <3>5, DecidedNext DEF Does
  <2> HIDE DEF Done
  <2> QED
    BY <2>1, <2>3
<1>8. n \in S
  <2> HIDE DEF S
  <2>1. 0..n \subseteq S
    BY <1>6, <1>7, UpTo
  <2>2. n \in 0..n
    OBVIOUS
  <2> QED
    BY <2>1, <2>2
<1>9. \A p : Meaning(sources, ops, p) = Decided(sources, ops, n, p)
  BY <1>1, MeaningIsDecided
<1> QED
  BY <1>5, <1>8, <1>9

-----------------------------------------------------------------------------
(* Places *)

\* Places are the short paths,
LEMMA PlaceIs ==
  ASSUME NEW d
  PROVE  d \in Places <=> d \in Seq(Names) /\ Len(d) <= MaxDepth
<1>1. MaxDepth \in Nat
  BY NamesAssumption
<1>2. ASSUME d \in Places
      PROVE  d \in Seq(Names) /\ Len(d) <= MaxDepth
  <2>1. PICK n \in 0..MaxDepth : d \in [1..n -> Names]
    BY <1>2 DEF Places
  <2>2. n \in Nat
    BY <1>1
  <2> QED
    BY <1>1, <2>1, <2>2
<1>3. ASSUME d \in Seq(Names), Len(d) <= MaxDepth
      PROVE  d \in Places
  <2>1. Len(d) \in 0..MaxDepth /\ d \in [1..Len(d) -> Names]
    BY <1>1, <1>3
  <2> QED
    BY <2>1 DEF Places
<1> QED
  BY <1>2, <1>3

\* the root is one,
LEMMA RootPlace == << >> \in Places
<1>1. << >> \in Seq(Names) /\ Len(<< >>) = 0 /\ 0 <= MaxDepth
  BY NamesAssumption
<1> QED
  BY <1>1, PlaceIs

\* and a name leads from a place to one below it,
LEMMA Deeper ==
  ASSUME NEW d \in Seq(Names), NEW n \in Names
  PROVE  /\ Append(d, n) \in PathsOf /\ Append(d, n) = d \o <<n>>
         /\ Len(Append(d, n)) = Len(d) + 1 /\ Append(d, n) # << >>
         /\ Front(Append(d, n)) = d /\ Last(Append(d, n)) = n
         /\ IsStrictPrefix(d, Append(d, n))
<1> DEFINE q == Append(d, n)
<1>1. /\ q \in Seq(Names) /\ Len(q) = Len(d) + 1 /\ q # << >> /\ q[Len(d) + 1] = n
      /\ \A i \in 1..Len(d) : q[i] = d[i]
      /\ Len(d) \in Nat /\ q = d \o <<n>> /\ <<n>> \in Seq(Names) /\ <<n>> # << >>
  OBVIOUS
<1>2. IsStrictPrefix(d, q)
  BY <1>1, Joined
<1> HIDE DEF q
<1>3. SubSeq(q, 1, Len(q) - 1) = d
  <2>1. SubSeq(q, 1, Len(d)) \in Seq(Names) /\ Len(SubSeq(q, 1, Len(d))) = Len(d)
    BY <1>1
  <2>2. \A i \in 1..Len(d) : SubSeq(q, 1, Len(d))[i] = d[i]
    BY <1>1
  <2>3. SubSeq(q, 1, Len(d)) = d
    BY <2>1, <2>2, SeqEqual
  <2> QED
    BY <1>1, <2>3
<1> QED
  BY <1>1, <1>2, <1>3 DEF q, PathsOf, Front, Last

\* as every place but the root is reached.
LEMMA FrontAndLast ==
  ASSUME NEW d \in Seq(Names), d # << >>
  PROVE  /\ Front(d) \in Seq(Names) /\ Last(d) \in Names /\ Append(Front(d), Last(d)) = d
         /\ Len(Front(d)) = Len(d) - 1
<1> DEFINE p == SubSeq(d, 1, Len(d) - 1)
           n == d[Len(d)]
<1>1. Len(d) \in Nat \ {0} /\ n \in Names
  OBVIOUS
<1>a. PICK l \in Nat : l = Len(d)
  BY <1>1
<1>2. p \in Seq(Names) /\ Len(p) = Len(d) - 1 /\ \A i \in 1..Len(d) - 1 : p[i] = d[i]
  <2>1. \A i \in 1..Len(d) - 1 : d[i] \in Names
    BY <1>1
  <2>2. 1 \in Int /\ Len(d) - 1 \in Int /\ (1 <= Len(d) - 1 \/ Len(d) - 1 = 0)
    <3>1. l # 0
      BY <1>1, <1>a
    <3>2. l - 1 \in Int /\ (1 <= l - 1 \/ l - 1 = 0)
      BY <3>1
    <3> QED
      BY <1>a, <3>2
  <2>3. p \in Seq(Names) /\ Len(p) = (IF 1 <= Len(d) - 1 THEN (Len(d) - 1) - 1 + 1 ELSE 0)
    BY <2>1, <2>2, SubSeqProperties
  <2> QED
    BY <1>1, <2>1, <2>2, <2>3
<1> DEFINE q == Append(p, n)
<1> HIDE DEF p
<1>3. q \in Seq(Names) /\ Len(q) = Len(d)
  BY <1>1, <1>2
<1>4. ASSUME NEW i \in 1..Len(q)
      PROVE  q[i] = d[i]
  BY <1>1, <1>2
<1> HIDE DEF q
<1>5. q = d
  BY <1>3, <1>4, SeqEqual
<1> QED
  BY <1>1, <1>2, <1>5 DEF p, q, Front, Last

\* A path below d goes through one name of d.
LEMMA FirstName ==
  ASSUME NEW d \in Seq(Names), NEW p \in Seq(Names), IsStrictPrefix(d, p)
  PROVE  \E n \in Names : IsPrefix(Append(d, n), p)
<1> DEFINE r == SubSeq(p, Len(d) + 1, Len(p))
<1>1. r \in Seq(Names) /\ p = d \o r
  BY Split DEF IsStrictPrefix
<1> HIDE DEF r
<1>2. r # << >>
  BY <1>1, Joined
<1>3. Head(r) \in Names /\ Tail(r) \in Seq(Names) /\ r = <<Head(r)>> \o Tail(r) /\ <<Head(r)>> \in Seq(Names)
  BY <1>1, <1>2
<1>4. p = (d \o <<Head(r)>>) \o Tail(r)
  <2>1. (d \o <<Head(r)>>) \o Tail(r) = d \o (<<Head(r)>> \o Tail(r))
    BY <1>3, ConcatAssociative
  <2> QED
    BY <1>1, <1>3, <2>1
<1>5. Append(d, Head(r)) = d \o <<Head(r)>> /\ Append(d, Head(r)) \in Seq(Names)
  BY <1>3, Deeper DEF PathsOf
<1> QED
  BY <1>3, <1>4, <1>5, Joined

\* A prefix is shorter or the same,
LEMMA PrefixOf ==
  ASSUME NEW p \in Seq(Names), NEW q \in Seq(Names), IsPrefix(p, q)
  PROVE  /\ Len(p) <= Len(q) /\ (p = q \/ IsStrictPrefix(p, q))
         /\ \A i \in 1..Len(p) : p[i] = q[i]
<1>1. \A i \in 1..Len(p) : p[i] = q[i]
  <2> DEFINE r == SubSeq(q, Len(p) + 1, Len(q))
  <2>1. r \in Seq(Names) /\ q = p \o r
    BY Split
  <2> HIDE DEF r
  <2> QED
    BY <2>1
<1> QED
  BY <1>1 DEF IsPrefix, IsStrictPrefix

\* prefixes of prefixes are prefixes,
LEMMA PrefixTransitive ==
  ASSUME NEW p \in Seq(Names), NEW q \in Seq(Names), NEW r \in Seq(Names),
         IsPrefix(p, q), IsPrefix(q, r)
  PROVE  IsPrefix(p, r) /\ (IsStrictPrefix(p, q) \/ IsStrictPrefix(q, r) => IsStrictPrefix(p, r))
<1> DEFINE a == SubSeq(q, Len(p) + 1, Len(q))
           b == SubSeq(r, Len(q) + 1, Len(r))
<1>1. a \in Seq(Names) /\ q = p \o a /\ b \in Seq(Names) /\ r = q \o b
  BY Split
<1> HIDE DEF a, b
<1>2. r = p \o (a \o b) /\ a \o b \in Seq(Names)
  BY <1>1, ConcatAssociative
<1>3. (a # << >> \/ b # << >>) => a \o b # << >>
  BY <1>1
<1>4. IsStrictPrefix(p, q) => a # << >>
  BY <1>1, Joined
<1>5. IsStrictPrefix(q, r) => b # << >>
  BY <1>1, Joined
<1> QED
  BY <1>2, <1>3, <1>4, <1>5, Joined

\* and one more name gives one more prefix.
LEMMA PrefixOfLonger ==
  ASSUME NEW p \in Seq(Names), NEW n \in Names, NEW r \in Seq(Names), IsPrefix(r, Append(p, n)),
         r # Append(p, n)
  PROVE  IsPrefix(r, p)
<1> DEFINE q == Append(p, n)
<1>1. /\ q \in Seq(Names) /\ Len(q) = Len(p) + 1 /\ Len(p) \in Nat /\ Len(r) \in Nat
      /\ \A i \in 1..Len(p) : q[i] = p[i]
  OBVIOUS
<1> HIDE DEF q
<1>2. IsPrefix(r, q) /\ r # q
  BY DEF q
<1>3. Len(r) <= Len(q) /\ \A i \in 1..Len(r) : r[i] = q[i]
  BY <1>1, <1>2, PrefixOf
<1>4. Len(r) # Len(q)
  BY <1>1, <1>2, <1>3, SeqEqual
<1>5. Len(r) <= Len(p) /\ \A i \in 1..Len(r) : r[i] = p[i]
  BY <1>1, <1>3, <1>4
<1>6. SubSeq(p, 1, Len(r)) = SubSeq(r, 1, Len(r))
  <2>1. SubSeq(p, 1, Len(r)) \in Seq(Names) /\ Len(SubSeq(p, 1, Len(r))) = Len(r)
    BY <1>1, <1>5
  <2>2. \A i \in 1..Len(r) : SubSeq(p, 1, Len(r))[i] = r[i]
    BY <1>1, <1>5
  <2>3. SubSeq(p, 1, Len(r)) = r
    BY <2>1, <2>2, SeqEqual
  <2>4. SubSeq(r, 1, Len(r)) = r
    BY SubSeqFull
  <2> QED
    BY <2>3, <2>4
<1> QED
  BY <1>5, <1>6 DEF IsPrefix

-----------------------------------------------------------------------------
(* What is in a directory *)

Fits(s) == \A p \in Keys(s) : Len(p) <= MaxDepth

IsDir(s, d) == d = << >> \/ \E p \in Keys(s) : IsStrictPrefix(d, p)

\* The sorted names are the names of the directory.
LEMMA NamesOrdered ==
  ASSUME NEW s, NEW d
  PROVE  Ordered(s, d) \in Seq(Names) /\ ToSet(Ordered(s, d)) = NamesIn(s, d)
  BY NamesAssumption, OnlyIs DEF Ordered, NamesIn

-----------------------------------------------------------------------------
(* Trees *)

EntryFor(node, s, d, n) ==
  IF Append(d, n) \in Keys(s)
  THEN [name |-> n, kind |-> "file", object |-> Get(s, Append(d, n))]
  ELSE [name |-> n, kind |-> "tree", object |-> node[Append(d, n)]]

EntriesFor(node, s, d) ==
  [i \in DOMAIN Ordered(s, d) |-> EntryFor(node, s, d, Ordered(s, d)[i])]

TreeFor(node, s, d) ==
  [entries |-> EntriesFor(node, s, d), git |-> GitOid(EntriesFor(node, s, d))]

\* node[d] is the tree of directory d.
IsTreeOf(node, s) == node = [d \in Places |-> TreeFor(node, s, d)]

\* What is named in a directory is at a place.
LEMMA NamedPlace ==
  ASSUME NEW s, Fits(s), Keys(s) \subseteq PathsOf, NEW d \in Places, NEW n \in NamesIn(s, d)
  PROVE  /\ Append(d, n) \in Places /\ Len(Append(d, n)) = Len(d) + 1
         /\ Append(d, n) \in Keys(s) \/ IsDir(s, Append(d, n))
<1> DEFINE q == Append(d, n)
<1>1. PICK p \in Keys(s) : IsPrefix(q, p)
  BY DEF NamesIn
<1>2. d \in Seq(Names) /\ n \in Names
  BY PlaceIs DEF NamesIn
<1>3. q \in Seq(Names) /\ Len(q) = Len(d) + 1 /\ Len(d) \in Nat /\ p \in Seq(Names)
  BY <1>2, Deeper DEF PathsOf
<1> HIDE DEF q
<1>4. Len(q) <= Len(p) /\ (q = p \/ IsStrictPrefix(q, p))
  BY <1>1, <1>3, PrefixOf
<1>5. Len(p) <= MaxDepth /\ Len(p) \in Nat /\ MaxDepth \in Nat
  BY <1>3, NamesAssumption DEF Fits
<1>6. q \in Places
  BY <1>3, <1>4, <1>5, PlaceIs
<1> QED
  BY <1>3, <1>4, <1>6 DEF q, IsDir

\* The tree of a directory needs the trees one place deeper only.
LEMMA EntriesDeeper ==
  ASSUME NEW s, NEW d \in Places, NEW f, NEW g, Fits(s),
         Keys(s) \subseteq PathsOf,
         \A e \in Places : Len(e) = Len(d) + 1 => f[e] = g[e]
  PROVE  TreeFor(f, s, d) = TreeFor(g, s, d)
<1> DEFINE o == Ordered(s, d)
<1>1. o \in Seq(Names) /\ ToSet(o) = NamesIn(s, d)
  BY NamesOrdered
<1>2. ASSUME NEW i \in DOMAIN o
      PROVE  EntryFor(f, s, d, o[i]) = EntryFor(g, s, d, o[i])
  <2> DEFINE n == o[i]
  <2>1. n \in Names /\ n \in NamesIn(s, d)
    BY <1>1 DEF ToSet
  <2>2. Append(d, n) \in Places /\ Len(Append(d, n)) = Len(d) + 1
    BY <2>1, NamedPlace
  <2>6. f[Append(d, n)] = g[Append(d, n)]
    BY <2>2
  <2> HIDE DEF n
  <2>7. EntryFor(f, s, d, n) = EntryFor(g, s, d, n)
    BY <2>6 DEF EntryFor
  <2> QED
    BY <2>7 DEF n
<1>3. EntriesFor(f, s, d) = EntriesFor(g, s, d)
  BY <1>2 DEF EntriesFor
<1> QED
  BY <1>3 DEF TreeFor

\* There are trees for a snapshot, written from the deepest places up.
LEMMA TreesExist ==
  ASSUME NEW s, Fits(s), Keys(s) \subseteq PathsOf
  PROVE  \E node : IsTreeOf(node, s)
<1>0. MaxDepth \in Nat
  BY NamesAssumption
<1>1. PICK m \in Nat : m = MaxDepth
  BY <1>0
<1>2. \A d \in Places : Len(d) \in 0..m
  BY <1>1, PlaceIs
<1> DEFINE UpFrom(f, k) == f = [d \in Places |-> f[d]] /\ \A d \in Places : Len(d) > m - k => f[d] = TreeFor(f, s, d)
           S == {k \in 0..m + 1 : \E f : UpFrom(f, k)}
<1>3. 0 \in S
  <2> DEFINE f == [d \in Places |-> 0]
  <2>1. f = [d \in Places |-> f[d]]
    OBVIOUS
  <2>2. \A d \in Places : ~(Len(d) > m - 0)
    BY <1>2
  <2>3. UpFrom(f, 0)
    <3> HIDE DEF f
    <3> QED
      BY <2>1, <2>2
  <2>4. 0 \in 0..m + 1
    OBVIOUS
  <2> HIDE DEF UpFrom
  <2> QED
    BY <2>3, <2>4
<1>4. ASSUME NEW k \in 1..m + 1, k - 1 \in S
      PROVE  k \in S
  <2>1. PICK f : UpFrom(f, k - 1)
    BY <1>4
  <2> DEFINE g == [d \in Places |-> IF Len(d) > m - k THEN TreeFor(f, s, d) ELSE f[d]]
  <2>2. g = [d \in Places |-> g[d]] /\ \A d \in Places : g[d] = IF Len(d) > m - k THEN TreeFor(f, s, d) ELSE f[d]
    OBVIOUS
  <2> HIDE DEF g
  <2>3. ASSUME NEW d \in Places, Len(d) > m - k
        PROVE  g[d] = TreeFor(g, s, d)
    <3>1. ASSUME NEW e \in Places, Len(e) = Len(d) + 1
          PROVE  f[e] = g[e]
      <4>1. Len(e) > m - k /\ Len(e) > m - (k - 1)
        BY <1>2, <2>3, <3>1
      <4>2. f[e] = TreeFor(f, s, e)
        BY <2>1, <4>1
      <4>3. g[e] = TreeFor(f, s, e)
        BY <2>2, <4>1
      <4> QED
        BY <4>2, <4>3
    <3>2. TreeFor(f, s, d) = TreeFor(g, s, d)
      BY <3>1, EntriesDeeper
    <3>3. g[d] = TreeFor(f, s, d)
      BY <2>2, <2>3
    <3> QED
      BY <3>2, <3>3
  <2>4. UpFrom(g, k)
    BY <2>2, <2>3
  <2>5. k \in 0..m + 1
    OBVIOUS
  <2> HIDE DEF UpFrom
  <2> QED
    BY <2>4, <2>5
<1>5. m + 1 \in S
  <2>1. m + 1 \in Nat
    OBVIOUS
  <2> HIDE DEF S
  <2>2. 0..m + 1 \subseteq S
    BY <1>3, <1>4, <2>1, UpTo
  <2> QED
    BY <2>1, <2>2
<1>6. PICK f : UpFrom(f, m + 1)
  BY <1>5
<1>7. \A d \in Places : f[d] = TreeFor(f, s, d)
  <2>1. \A d \in Places : Len(d) > m - (m + 1)
    BY <1>2
  <2> QED
    BY <1>6, <2>1
<1> QED
  BY <1>6, <1>7 DEF IsTreeOf

\* What is staged is such a tree.
LEMMA StagedTree ==
  ASSUME NEW s, Fits(s), Keys(s) \subseteq PathsOf
  PROVE  \E node : IsTreeOf(node, s) /\ StageTree(s) = node[<< >>]
<1> DEFINE node == CHOOSE h : IsTreeOf(h, s)
<1>1. IsTreeOf(node, s)
  <2>1. \E h : IsTreeOf(h, s)
    BY TreesExist
  <2> QED
    BY <2>1
<1>2. StageTree(s) = node[<< >>]
  BY DEF StageTree, IsTreeOf, TreeFor, EntriesFor, EntryFor
<1> QED
  BY <1>1, <1>2

SameFiles(r, s) == Keys(r) = Keys(s) /\ \A p : Get(r, p) = Get(s, p)

\* The tree of a directory depends on the files, not on their order.
LEMMA TreesAgree ==
  ASSUME NEW r, NEW s, Fits(s), Keys(s) \subseteq PathsOf, SameFiles(r, s),
         NEW f, IsTreeOf(f, r), NEW g, IsTreeOf(g, s)
  PROVE  \A d \in Places : f[d] = g[d]
<1>1. PICK m \in Nat : m = MaxDepth
  BY NamesAssumption
<1>2. \A d \in Places : Len(d) \in 0..m
  BY <1>1, PlaceIs
<1>3. \A d : Ordered(r, d) = Ordered(s, d)
  BY DEF Ordered, NamesIn, SameFiles
<1>4. \A d : TreeFor(f, r, d) = TreeFor(f, s, d)
  <2>1. \A d, n : EntryFor(f, r, d, n) = EntryFor(f, s, d, n)
    BY DEF EntryFor, SameFiles
  <2>2. \A d : EntriesFor(f, r, d) = EntriesFor(f, s, d)
    BY <1>3, <2>1 DEF EntriesFor
  <2> QED
    BY <2>2 DEF TreeFor
<1>5. \A d \in Places : f[d] = TreeFor(f, s, d) /\ g[d] = TreeFor(g, s, d)
  BY <1>4 DEF IsTreeOf
<1> DEFINE S == {k \in 0..m + 1 : \A d \in Places : Len(d) > m - k => f[d] = g[d]}
<1>6. 0 \in S
  BY <1>2
<1>7. ASSUME NEW k \in 1..m + 1, k - 1 \in S
      PROVE  k \in S
  <2>1. ASSUME NEW d \in Places, Len(d) > m - k
        PROVE  f[d] = g[d]
    <3>1. ASSUME NEW e \in Places, Len(e) = Len(d) + 1
          PROVE  f[e] = g[e]
      <4>1. Len(e) > m - (k - 1)
        BY <1>2, <2>1, <3>1
      <4> QED
        BY <1>7, <4>1
    <3>2. TreeFor(f, s, d) = TreeFor(g, s, d)
      BY <3>1, EntriesDeeper
    <3> QED
      BY <1>5, <3>2
  <2> QED
    BY <2>1
<1>8. 0..m + 1 \subseteq S
  <2>1. m + 1 \in Nat
    OBVIOUS
  <2> HIDE DEF S
  <2> QED
    BY <1>6, <1>7, <2>1, UpTo
<1>9. m + 1 \in S
  <2>1. m + 1 \in 0..m + 1
    OBVIOUS
  <2> HIDE DEF S
  <2> QED
    BY <1>8, <2>1
<1> QED
  BY <1>2, <1>9

\* Whatever order the files are in, their tree is the same.
LEMMA StagedAlike ==
  ASSUME NEW r, NEW s, Fits(s), Keys(s) \subseteq PathsOf, SameFiles(r, s)
  PROVE  StageTree(r) = StageTree(s)
<1>1. PICK g : IsTreeOf(g, s) /\ StageTree(s) = g[<< >>]
  BY StagedTree
<1>2. Fits(r) /\ Keys(r) \subseteq PathsOf
  BY DEF Fits, SameFiles
<1>3. PICK f : IsTreeOf(f, r) /\ StageTree(r) = f[<< >>]
  BY <1>2, StagedTree
<1> QED
  BY <1>1, <1>3, RootPlace, TreesAgree

-----------------------------------------------------------------------------
(* Finding something in a tree *)

FoundRun(f, t, p) ==
  /\ DOMAIN f = 0..Len(p)
  /\ f[0] = [kind |-> "tree", object |-> t]
  /\ \A k \in 1..Len(p) : f[k] = Into(f[k - 1], p[k])

\* What is found is the end of a run along the path;
LEMMA FoundIs ==
  ASSUME NEW t, NEW p \in Seq(Names)
  PROVE  \E f : FoundRun(f, t, p) /\ Found(t, p) = f[Len(p)]
<1> DEFINE root == [kind |-> "tree", object |-> t]
<1>1. PICK n \in Nat : n = Len(p)
  OBVIOUS
<1> HIDE DEF root
<1> DEFINE Runs(f, k) == /\ f = [i \in 0..k |-> f[i]] /\ f[0] = root
                         /\ \A i \in 1..k : f[i] = Into(f[i - 1], p[i])
           S == {k \in 0..n : \E f : Runs(f, k)}
<1>2. 0 \in S
  <2> DEFINE f == [i \in 0..0 |-> root]
  <2>1. f = [i \in 0..0 |-> f[i]] /\ f[0] = root /\ 1..0 = {}
    OBVIOUS
  <2>2. Runs(f, 0)
    <3> HIDE DEF f
    <3> QED
      BY <2>1
  <2> HIDE DEF Runs
  <2> QED
    BY <2>2
<1>3. ASSUME NEW k \in 1..n, k - 1 \in S
      PROVE  k \in S
  <2>1. PICK f : Runs(f, k - 1)
    BY <1>3
  <2> DEFINE g == [i \in 0..k |-> IF i = k THEN Into(f[k - 1], p[k]) ELSE f[i]]
  <2>2. /\ g = [i \in 0..k |-> g[i]] /\ g[k] = Into(f[k - 1], p[k])
        /\ \A i \in 0..k - 1 : g[i] = f[i]
    OBVIOUS
  <2> HIDE DEF g
  <2>3. ASSUME NEW i \in 1..k
        PROVE  g[i] = Into(g[i - 1], p[i])
    <3>1. g[i - 1] = f[i - 1]
      <4>1. i - 1 \in 0..k - 1
        OBVIOUS
      <4> QED
        BY <2>2, <4>1
    <3>2. CASE i = k
      BY <2>2, <3>1, <3>2
    <3>3. CASE i # k
      <4>1. i \in 1..k - 1 /\ i \in 0..k - 1
        BY <3>3
      <4> QED
        BY <2>1, <2>2, <3>1, <4>1
    <3> QED
      BY <3>2, <3>3
  <2>4. Runs(g, k)
    <3>1. g[0] = root
      <4>1. 0 \in 0..k - 1
        OBVIOUS
      <4> QED
        BY <2>1, <2>2, <4>1
    <3> QED
      BY <2>2, <2>3, <3>1
  <2>5. k \in 0..n
    OBVIOUS
  <2> HIDE DEF Runs
  <2> QED
    BY <2>4, <2>5
<1>4. n \in S
  <2> HIDE DEF S
  <2>1. 0..n \subseteq S
    BY <1>2, <1>3, UpTo
  <2> QED
    BY <2>1
<1>5. PICK g : Runs(g, n)
  BY <1>4
<1> DEFINE Rest(x, k) == Into(x, p[k])
           IsIt(f) == f = [k \in 0..Len(p) |-> IF k = 0 THEN root ELSE Rest(f[k - 1], k)]
           f == CHOOSE h : IsIt(h)
<1>6. IsIt(g)
  <2>1. \A k \in 0..n : g[k] = IF k = 0 THEN root ELSE Rest(g[k - 1], k)
    BY <1>5
  <2> HIDE DEF Rest
  <2> QED
    BY <1>1, <1>5, <2>1
<1>7. IsIt(f)
  <2> HIDE DEF IsIt
  <2> QED
    BY <1>6
<1>8. Found(t, p) = f[n]
  BY <1>1 DEF Found, Into, root
<1>9. FoundRun(f, t, p)
  <2>1. DOMAIN f = 0..n /\ f[0] = root /\ \A k \in 1..n : f[k] = Rest(f[k - 1], k)
    <3> HIDE DEF f, Rest
    <3> QED
      BY <1>1, <1>7
  <2> HIDE DEF f
  <2> QED
    BY <1>1, <2>1 DEF FoundRun, root
<1> QED
  BY <1>1, <1>8, <1>9

\* at the root it is the tree,
LEMMA FoundAtRoot ==
  ASSUME NEW t
  PROVE  Found(t, << >>) = [kind |-> "tree", object |-> t]
<1>1. << >> \in Seq(Names) /\ Len(<< >>) = 0
  OBVIOUS
<1>2. PICK f : FoundRun(f, t, << >>) /\ Found(t, << >>) = f[Len(<< >>)]
  BY <1>1, FoundIs
<1> QED
  BY <1>1, <1>2 DEF FoundRun

\* and one name further what that name leads to.
LEMMA FoundNext ==
  ASSUME NEW t, NEW p \in Seq(Names), NEW n \in Names
  PROVE  Found(t, Append(p, n)) = Into(Found(t, p), n)
<1> DEFINE q == Append(p, n)
<1>1. PICK m \in Nat : m = Len(p)
  OBVIOUS
<1>2. q \in Seq(Names) /\ Len(q) = m + 1 /\ q[m + 1] = n /\ \A i \in 1..m : q[i] = p[i]
  BY <1>1
<1> HIDE DEF q
<1>3. PICK f : FoundRun(f, t, p) /\ Found(t, p) = f[m]
  BY <1>1, FoundIs
<1>4. PICK g : FoundRun(g, t, q) /\ Found(t, q) = g[m + 1]
  BY <1>2, FoundIs
<1> DEFINE S == {k \in 0..m : f[k] = g[k]}
<1>5. 0 \in S
  BY <1>3, <1>4 DEF FoundRun
<1>6. ASSUME NEW k \in 1..m, k - 1 \in S
      PROVE  k \in S
  <2>1. f[k] = Into(f[k - 1], p[k])
    BY <1>1, <1>3 DEF FoundRun
  <2>2. k \in 1..Len(q) /\ k \in 0..m
    BY <1>2
  <2>3. g[k] = Into(g[k - 1], q[k]) /\ q[k] = p[k] /\ f[k - 1] = g[k - 1]
    BY <1>2, <1>4, <1>6, <2>2 DEF FoundRun
  <2> QED
    BY <2>1, <2>2, <2>3
<1>7. m \in S
  <2> HIDE DEF S
  <2>1. 0..m \subseteq S
    BY <1>5, <1>6, UpTo
  <2> QED
    BY <2>1
<1>8. g[m + 1] = Into(g[(m + 1) - 1], n)
  <2>1. m + 1 \in 1..Len(q)
    BY <1>2
  <2> QED
    BY <1>2, <1>4, <2>1 DEF FoundRun
<1>9. (m + 1) - 1 = m
  OBVIOUS
<1> QED
  BY <1>3, <1>4, <1>7, <1>8, <1>9 DEF q

\* A nonempty set of numbers has its minimum.
LEMMA MinIs ==
  ASSUME NEW n \in Nat, NEW S \in SUBSET (1..n), S # {}
  PROVE  Min(S) \in S
<1>1. S \subseteq Nat
  OBVIOUS
<1>2. \E x \in S : \A y \in S : x <= y
  BY <1>1, LeastNumber
<1> QED
  BY <1>2 DEF Min

\* What a version's tree has under a name.
LEMMA EntryIs ==
  ASSUME NEW s, NEW node, IsTreeOf(node, s), NEW d \in Places, NEW n
  PROVE  EntryAt(node[d], n) = IF n \in NamesIn(s, d) THEN EntryFor(node, s, d, n) ELSE Nothing
<1> DEFINE o == Ordered(s, d)
           entries == EntriesFor(node, s, d)
           S == {i \in DOMAIN entries : entries[i].name = n}
<1>1. o \in Seq(Names) /\ ToSet(o) = NamesIn(s, d)
  BY NamesOrdered
<1>2. node[d].entries = entries
  BY DEF IsTreeOf, TreeFor
<1>3. EntryAt(node[d], n) = IF S = {} THEN Nothing ELSE entries[Min(S)]
  BY <1>2 DEF EntryAt
<1>4. DOMAIN entries = DOMAIN o /\ \A i \in DOMAIN o : entries[i] = EntryFor(node, s, d, o[i])
  BY DEF EntriesFor
<1>5. \A m : EntryFor(node, s, d, m).name = m
  BY DEF EntryFor
<1>6. S = {i \in DOMAIN o : o[i] = n}
  BY <1>4, <1>5
<1> HIDE DEF o, entries, S
<1>7. CASE n \in NamesIn(s, d)
  <2>1. S # {}
    BY <1>1, <1>6, <1>7 DEF ToSet
  <2>2. S \in SUBSET (1..Len(o)) /\ Len(o) \in Nat
    BY <1>1, <1>6
  <2>3. Min(S) \in S
    BY <2>1, <2>2, MinIs
  <2> QED
    BY <1>3, <1>4, <1>6, <1>7, <2>1, <2>3
<1>8. CASE n \notin NamesIn(s, d)
  <2>1. S = {}
    BY <1>1, <1>6, <1>8 DEF ToSet
  <2> QED
    BY <1>3, <1>8, <2>1
<1> QED
  BY <1>7, <1>8

\* A path in a version is a directory, a file, below a file, or nothing.
Blocked(s, p) == \E q \in Keys(s) : IsPrefix(q, p)

FoundRight(node, s, p) ==
  LET e == Found(node[<< >>], p) IN
  /\ IsDir(s, p) => e.kind = "tree" /\ e.object = node[p]
  /\ p \in Keys(s) => e.kind = "file" /\ e.object = Get(s, p)
  /\ ~IsDir(s, p) => IF Blocked(s, p) THEN e.kind = "file" ELSE e = Nothing

Plain(s) == Fits(s) /\ Keys(s) \subseteq PathsOf /\ \A p, q \in Keys(s) : ~IsStrictPrefix(p, q)

\* What is found is right at the root,
LEMMA RootIsFound ==
  ASSUME NEW s, NEW node, Plain(s)
  PROVE  FoundRight(node, s, << >>)
<1>1. Found(node[<< >>], << >>) = [kind |-> "tree", object |-> node[<< >>]]
  BY FoundAtRoot
<1>2. IsDir(s, << >>)
  BY DEF IsDir
<1>3. << >> \notin Keys(s)
  BY DEF Plain, PathsOf
<1> QED
  BY <1>1, <1>2, <1>3 DEF FoundRight

\* and right below a place where it is right,
LEMMA NextIsFound ==
  ASSUME NEW s, NEW node, Plain(s), IsTreeOf(node, s), NEW p \in Places, NEW n \in Names,
         Append(p, n) \in Places, FoundRight(node, s, p)
  PROVE  FoundRight(node, s, Append(p, n))
<1> DEFINE q == Append(p, n)
           e == Found(node[<< >>], p)
           x == Found(node[<< >>], q)
<1>1. p \in Seq(Names)
  BY PlaceIs
<1>2. q \in PathsOf /\ q \in Seq(Names) /\ q # << >> /\ IsStrictPrefix(p, q) /\ IsPrefix(p, q)
  BY <1>1, Deeper DEF PathsOf, IsStrictPrefix
<1>3. x = Into(e, n)
  BY <1>1, FoundNext
<1>4. \A r \in Keys(s) : r \in Seq(Names)
  BY DEF Plain, PathsOf
<1>5. CASE IsDir(s, p)
  <2>1. e.kind = "tree" /\ e.object = node[p]
    BY <1>5 DEF FoundRight
  <2>2. x = IF n \in NamesIn(s, p) THEN EntryFor(node, s, p, n) ELSE Nothing
    BY <1>3, <2>1, EntryIs DEF Into
  <2>3. n \in NamesIn(s, p) <=> \E r \in Keys(s) : IsPrefix(q, r)
    BY DEF NamesIn
  <2>4. ~Blocked(s, p)
    <3>1. ASSUME NEW r \in Keys(s), IsPrefix(r, p)
          PROVE  FALSE
      <4>1. p # << >>
        <5>1. r # << >> /\ Len(r) \in Nat /\ r \in Seq(Names)
          BY <1>4 DEF Plain, PathsOf
        <5>2. Len(r) <= Len(p)
          BY <3>1, <1>1, <5>1, PrefixOf
        <5> QED
          BY <5>1, <5>2
      <4>2. PICK t \in Keys(s) : IsStrictPrefix(p, t)
        BY <1>5, <4>1 DEF IsDir
      <4>3. IsStrictPrefix(r, t)
        BY <1>1, <1>4, <3>1, <4>2, PrefixTransitive DEF IsStrictPrefix
      <4> QED
        BY <4>3 DEF Plain
    <3> QED
      BY <3>1 DEF Blocked
  <2>5. Blocked(s, q) <=> q \in Keys(s)
    <3>1. ASSUME NEW r \in Keys(s), IsPrefix(r, q), r # q
          PROVE  FALSE
      <4>1. IsPrefix(r, p)
        BY <1>1, <1>4, <3>1, PrefixOfLonger
      <4> QED
        BY <2>4, <4>1 DEF Blocked
    <3>2. IsPrefix(q, q)
      BY DEF IsPrefix
    <3> QED
      BY <3>1, <3>2 DEF Blocked
  <2>6. CASE q \in Keys(s)
    <3>1. IsPrefix(q, q)
      BY DEF IsPrefix
    <3>2. x = [name |-> n, kind |-> "file", object |-> Get(s, q)]
      BY <2>2, <2>3, <2>6, <3>1 DEF EntryFor
    <3>3. ~IsDir(s, q)
      BY <1>2, <2>6 DEF IsDir, Plain
    <3> QED
      BY <2>5, <2>6, <3>2, <3>3 DEF FoundRight
  <2>7. CASE q \notin Keys(s) /\ n \in NamesIn(s, p)
    <3>1. x = [name |-> n, kind |-> "tree", object |-> node[q]]
      BY <2>2, <2>7 DEF EntryFor
    <3>2. PICK r \in Keys(s) : IsPrefix(q, r)
      BY <2>3, <2>7
    <3>3. IsDir(s, q)
      BY <2>7, <3>2 DEF IsDir, IsStrictPrefix
    <3> QED
      BY <2>7, <3>1, <3>3 DEF FoundRight
  <2>8. CASE n \notin NamesIn(s, p)
    <3>1. x = Nothing
      BY <2>2, <2>8
    <3>2. ~IsDir(s, q)
      BY <1>2, <2>3, <2>8 DEF IsDir, IsStrictPrefix
    <3>3. q \notin Keys(s)
      <4>1. IsPrefix(q, q)
        BY DEF IsPrefix
      <4> QED
        BY <2>3, <2>8, <4>1
    <3> QED
      BY <2>5, <3>1, <3>2, <3>3 DEF FoundRight
  <2> HIDE DEF q, x
  <2> QED
    BY <2>6, <2>7, <2>8
<1>6. CASE ~IsDir(s, p)
  <2>1. ~IsDir(s, q)
    <3>1. ASSUME NEW r \in Keys(s), IsStrictPrefix(q, r)
          PROVE  FALSE
      <4>1. IsStrictPrefix(p, r)
        BY <1>1, <1>2, <1>4, <3>1, PrefixTransitive DEF IsStrictPrefix
      <4> QED
        BY <1>6, <4>1 DEF IsDir
    <3> QED
      BY <1>2, <3>1 DEF IsDir
  <2>2. q \notin Keys(s)
    BY <1>2, <1>6 DEF IsDir
  <2>3. Blocked(s, q) <=> Blocked(s, p)
    <3>1. ASSUME NEW r \in Keys(s), IsPrefix(r, q)
          PROVE  IsPrefix(r, p)
      BY <1>1, <1>4, <2>2, <3>1, PrefixOfLonger
    <3>2. ASSUME NEW r \in Keys(s), IsPrefix(r, p)
          PROVE  IsPrefix(r, q)
      BY <1>1, <1>2, <1>4, <3>2, PrefixTransitive
    <3> QED
      BY <3>1, <3>2 DEF Blocked
  <2>4. e.kind # "tree" => x = e
    BY <1>3 DEF Into
  <2>5. e.kind # "tree"
    BY <1>6 DEF FoundRight, Nothing
  <2>6. IF Blocked(s, q) THEN x.kind = "file" ELSE x = Nothing
    BY <1>6, <2>3, <2>4, <2>5 DEF FoundRight
  <2> QED
    BY <2>1, <2>2, <2>6 DEF FoundRight
<1> QED
  BY <1>5, <1>6

\* so that it is right everywhere.
LEMMA EverythingIsFound ==
  ASSUME NEW s, NEW node, Plain(s), IsTreeOf(node, s)
  PROVE  \A p \in Places : FoundRight(node, s, p)
<1>1. PICK m \in Nat : m = MaxDepth
  BY NamesAssumption
<1>2. \A d \in Places : Len(d) \in 0..m /\ d \in Seq(Names)
  BY <1>1, PlaceIs
<1> DEFINE S == {k \in 0..m : \A d \in Places : Len(d) = k => FoundRight(node, s, d)}
<1>3. 0 \in S
  <2>1. \A d \in Places : Len(d) = 0 => d = << >>
    BY <1>2
  <2> QED
    BY <2>1, RootIsFound
<1>4. ASSUME NEW k \in 1..m, k - 1 \in S
      PROVE  k \in S
  <2>1. ASSUME NEW d \in Places, Len(d) = k
        PROVE  FoundRight(node, s, d)
    <3> DEFINE p == Front(d)
               n == Last(d)
    <3>1. d \in Seq(Names) /\ d # << >> /\ Len(d) = k
      BY <1>2, <2>1
    <3>2. p \in Seq(Names) /\ n \in Names /\ Append(p, n) = d /\ Len(p) = k - 1
      BY <3>1, FrontAndLast
    <3> HIDE DEF p, n
    <3>3. p \in Places
      BY <1>1, <3>2, PlaceIs
    <3>4. FoundRight(node, s, p)
      BY <1>4, <3>2, <3>3
    <3> QED
      BY <2>1, <3>2, <3>3, <3>4, NextIsFound
  <2> QED
    BY <2>1
<1>5. 0..m \subseteq S
  <2> HIDE DEF S
  <2> QED
    BY <1>3, <1>4, UpTo
<1> QED
  BY <1>2, <1>5

-----------------------------------------------------------------------------
(* Concatenation *)

\* A concatenation has the elements of both sequences.
LEMMA JoinedSet ==
  ASSUME NEW V, NEW s \in Seq(V), NEW t \in Seq(V)
  PROVE  s \o t \in Seq(V) /\ ToSet(s \o t) = ToSet(s) \union ToSet(t)
<1> DEFINE r == s \o t
<1>1. /\ r \in Seq(V) /\ Len(r) = Len(s) + Len(t) /\ Len(s) \in Nat /\ Len(t) \in Nat
      /\ \A i \in 1..Len(s) : r[i] = s[i]
      /\ \A i \in 1..Len(t) : r[Len(s) + i] = t[i]
      /\ DOMAIN r = 1..Len(r) /\ DOMAIN s = 1..Len(s) /\ DOMAIN t = 1..Len(t)
  OBVIOUS
<1> HIDE DEF r
<1>2. ASSUME NEW i \in 1..Len(r)
      PROVE  r[i] \in ToSet(s) \union ToSet(t)
  <2>1. CASE i \in 1..Len(s)
    BY <1>1, <2>1 DEF ToSet
  <2>2. CASE i \notin 1..Len(s)
    <3>1. i - Len(s) \in 1..Len(t) /\ Len(s) + (i - Len(s)) = i
      BY <1>1, <2>2
    <3> QED
      BY <1>1, <3>1 DEF ToSet
  <2> QED
    BY <2>1, <2>2
<1>3. ASSUME NEW i \in 1..Len(s)
      PROVE  s[i] \in ToSet(r)
  <2>1. i \in DOMAIN r /\ r[i] = s[i]
    BY <1>1
  <2> QED
    BY <2>1 DEF ToSet
<1>4. ASSUME NEW i \in 1..Len(t)
      PROVE  t[i] \in ToSet(r)
  <2>1. Len(s) + i \in 1..Len(r)
    BY <1>1
  <2> QED
    BY <1>1, <2>1 DEF ToSet
<1>5. ToSet(r) = ToSet(s) \union ToSet(t)
  <2>1. ToSet(r) \subseteq ToSet(s) \union ToSet(t)
    BY <1>1, <1>2 DEF ToSet
  <2>2. ToSet(s) \subseteq ToSet(r)
    BY <1>1, <1>3 DEF ToSet
  <2>3. ToSet(t) \subseteq ToSet(r)
    BY <1>1, <1>4 DEF ToSet
  <2> QED
    BY <2>1, <2>2, <2>3
<1> QED
  BY <1>1, <1>5 DEF r

\* A flattened sequence has the elements of all its parts.
LEMMA FlatSet ==
  ASSUME NEW V, NEW s \in Seq(Seq(V))
  PROVE  FlattenSeq(s) \in Seq(V) /\ ToSet(FlattenSeq(s)) = UNION {ToSet(s[i]) : i \in DOMAIN s}
<1>1. PICK n \in Nat : n = Len(s)
  OBVIOUS
<1>2. DOMAIN s = 1..n /\ \A k \in 1..n : s[k] \in Seq(V)
  BY <1>1
<1>3. PICK f : IsFlat(f, V, s) /\ FlattenSeq(s) = f[Len(s)]
  BY FlatOfPrefixes
<1>4. /\ f \in [0..n -> Seq(V)] /\ f[0] = << >> /\ FlattenSeq(s) = f[n]
      /\ \A k \in 1..n : f[k] = f[k - 1] \o s[k]
  BY <1>1, <1>3 DEF IsFlat
<1> DEFINE S == {k \in 0..n : ToSet(f[k]) = UNION {ToSet(s[i]) : i \in 1..k}}
<1>5. 0 \in S
  <2>1. ToSet(<< >>) = {} /\ 1..0 = {}
    BY DEF ToSet
  <2> QED
    BY <1>4, <2>1
<1>6. ASSUME NEW k \in 1..n, k - 1 \in S
      PROVE  k \in S
  <2>1. f[k - 1] \in Seq(V) /\ s[k] \in Seq(V) /\ f[k] = f[k - 1] \o s[k] /\ k \in 0..n
    <3>1. k - 1 \in 0..n /\ k \in 0..n
      OBVIOUS
    <3> QED
      BY <1>2, <1>4, <3>1
  <2>2. ToSet(f[k]) = ToSet(f[k - 1]) \union ToSet(s[k])
    BY <2>1, JoinedSet
  <2>3. ToSet(f[k - 1]) = UNION {ToSet(s[i]) : i \in 1..k - 1}
    BY <1>6
  <2>4. 1..k = (1..k - 1) \union {k}
    OBVIOUS
  <2>5. UNION {ToSet(s[i]) : i \in 1..k} = (UNION {ToSet(s[i]) : i \in 1..k - 1}) \union ToSet(s[k])
    BY <2>4
  <2> QED
    BY <2>1, <2>2, <2>3, <2>5
<1>7. n \in S
  <2> HIDE DEF S
  <2>1. 0..n \subseteq S
    BY <1>5, <1>6, UpTo
  <2> QED
    BY <2>1
<1>8. f[n] \in Seq(V)
  BY <1>4
<1> QED
  BY <1>2, <1>4, <1>7, <1>8

-----------------------------------------------------------------------------
(* Reading a version *)

\* The files in directory d, and below it: part[d] lists them.
PartFor(part, t, d) ==
  LET entries == Found(t, d).object.entries
      found(e) == IF e.kind = "file"
                  THEN <<[path |-> Append(d, e.name), file |-> e.object]>>
                  ELSE part[Append(d, e.name)]
  IN  FlattenSeq([i \in DOMAIN entries |-> found(entries[i])])

IsPartOf(part, t) == part = [d \in Dirs(t) |-> PartFor(part, t, d)]

\* The directories that reading visits are those of the snapshot.
LEMMA DirsAre ==
  ASSUME NEW s, NEW node, Plain(s), IsTreeOf(node, s)
  PROVE  /\ Dirs(node[<< >>]) = {d \in Places : IsDir(s, d)}
         /\ \A d \in Dirs(node[<< >>]) : Found(node[<< >>], d).object.entries = EntriesFor(node, s, d)
<1>1. \A d \in Places : FoundRight(node, s, d)
  BY EverythingIsFound
<1>2. \A d \in Places : Found(node[<< >>], d).kind = "tree" <=> IsDir(s, d)
  BY <1>1 DEF FoundRight, Nothing
<1>3. \A d \in Places : IsDir(s, d) => Found(node[<< >>], d).object = node[d]
  BY <1>1 DEF FoundRight
<1>4. \A d \in Places : node[d].entries = EntriesFor(node, s, d)
  BY DEF IsTreeOf, TreeFor
<1> QED
  BY <1>2, <1>3, <1>4 DEF Dirs

\* An entry of a directory is a file or a directory again.
LEMMA EntriesAre ==
  ASSUME NEW s, NEW node, Plain(s), IsTreeOf(node, s), NEW d \in Dirs(node[<< >>])
  PROVE  LET entries == EntriesFor(node, s, d)
         IN  /\ DOMAIN entries = 1..Len(entries) /\ Len(entries) \in Nat
             /\ {entries[i].name : i \in DOMAIN entries} = NamesIn(s, d)
             /\ \A i \in DOMAIN entries :
                   LET q == Append(d, entries[i].name)
                   IN  /\ entries[i] = EntryFor(node, s, d, entries[i].name)
                       /\ q \in Places /\ Len(q) = Len(d) + 1
                       /\ q \in Keys(s) => entries[i].kind = "file" /\ entries[i].object = Get(s, q)
                       /\ q \notin Keys(s) => entries[i].kind = "tree" /\ q \in Dirs(node[<< >>])
<1> DEFINE o == Ordered(s, d)
           entries == EntriesFor(node, s, d)
<1>1. o \in Seq(Names) /\ ToSet(o) = NamesIn(s, d)
  BY NamesOrdered
<1>2. d \in Places /\ Fits(s) /\ Keys(s) \subseteq PathsOf
  BY DirsAre DEF Plain
<1>3. entries = [i \in DOMAIN o |-> EntryFor(node, s, d, o[i])]
  BY DEF EntriesFor
<1> HIDE DEF o, entries
<1>4. DOMAIN o = 1..Len(o) /\ Len(o) \in Nat
  BY <1>1
<1>5. DOMAIN entries = 1..Len(entries) /\ Len(entries) \in Nat /\ DOMAIN entries = DOMAIN o
  BY <1>3, <1>4
<1>6. \A i \in DOMAIN o : entries[i] = EntryFor(node, s, d, o[i]) /\ entries[i].name = o[i]
  <2>1. \A n : EntryFor(node, s, d, n).name = n
    BY DEF EntryFor
  <2> QED
    BY <1>3, <2>1
<1>7. {entries[i].name : i \in DOMAIN entries} = NamesIn(s, d)
  BY <1>1, <1>5, <1>6 DEF ToSet
<1>8. ASSUME NEW i \in DOMAIN entries
      PROVE  LET q == Append(d, entries[i].name)
             IN  /\ entries[i] = EntryFor(node, s, d, entries[i].name)
                 /\ q \in Places /\ Len(q) = Len(d) + 1
                 /\ q \in Keys(s) => entries[i].kind = "file" /\ entries[i].object = Get(s, q)
                 /\ q \notin Keys(s) => entries[i].kind = "tree" /\ q \in Dirs(node[<< >>])
  <2> DEFINE n == o[i]
             q == Append(d, n)
  <2>1. n \in NamesIn(s, d) /\ entries[i].name = n /\ entries[i] = EntryFor(node, s, d, n)
    BY <1>1, <1>5, <1>6 DEF ToSet
  <2> HIDE DEF n
  <2>2. q \in Places /\ Len(q) = Len(d) + 1 /\ (q \in Keys(s) \/ IsDir(s, q))
    BY <1>2, <2>1, NamedPlace
  <2> HIDE DEF q
  <2>3. q \notin Keys(s) => q \in Dirs(node[<< >>])
    BY <2>2, DirsAre
  <2>4. q \in Keys(s) => entries[i].kind = "file" /\ entries[i].object = Get(s, q)
    BY <2>1 DEF EntryFor, q
  <2>5. q \notin Keys(s) => entries[i].kind = "tree"
    BY <2>1 DEF EntryFor, q
  <2> QED
    BY <2>1, <2>2, <2>3, <2>4, <2>5 DEF q
<1> QED
  BY <1>5, <1>7, <1>8 DEF entries

\* What is read of a directory needs what is read one place deeper only.
LEMMA PartsDeeper ==
  ASSUME NEW s, NEW node, Plain(s), IsTreeOf(node, s), NEW d \in Dirs(node[<< >>]), NEW f, NEW g,
         \A e \in Dirs(node[<< >>]) : Len(e) = Len(d) + 1 => f[e] = g[e]
  PROVE  PartFor(f, node[<< >>], d) = PartFor(g, node[<< >>], d)
<1> DEFINE entries == EntriesFor(node, s, d)
           found(part, e) == IF e.kind = "file"
                             THEN <<[path |-> Append(d, e.name), file |-> e.object]>>
                             ELSE part[Append(d, e.name)]
           all(part) == [i \in DOMAIN entries |-> found(part, entries[i])]
<1>1. Found(node[<< >>], d).object.entries = entries
  BY DirsAre
<1>2. \A part : PartFor(part, node[<< >>], d) = FlattenSeq(all(part))
  BY <1>1 DEF PartFor
<1>3. ASSUME NEW i \in DOMAIN entries
      PROVE  found(f, entries[i]) = found(g, entries[i])
  <2> DEFINE q == Append(d, entries[i].name)
  <2>1. Len(q) = Len(d) + 1 /\ (entries[i].kind = "file" \/ q \in Dirs(node[<< >>]))
    BY EntriesAre
  <2>2. entries[i].kind # "file" => f[q] = g[q]
    <3> HIDE DEF entries, q
    <3> QED
      BY <2>1
  <2> HIDE DEF entries
  <2> QED
    BY <2>2
<1>4. all(f) = all(g)
  <2> HIDE DEF entries, found
  <2> QED
    BY <1>3
<1> HIDE DEF all
<1> QED
  BY <1>2, <1>4

\* There is a way to read all directories, from the deepest ones up.
LEMMA PartsExist ==
  ASSUME NEW s, NEW node, Plain(s), IsTreeOf(node, s)
  PROVE  \E part : IsPartOf(part, node[<< >>])
<1> DEFINE t == node[<< >>]
<1>1. PICK m \in Nat : m = MaxDepth
  BY NamesAssumption
<1>2. \A d \in Dirs(t) : Len(d) \in 0..m
  BY <1>1, DirsAre, PlaceIs
<1> DEFINE UpFrom(f, k) == f = [d \in Dirs(t) |-> f[d]] /\ \A d \in Dirs(t) : Len(d) > m - k => f[d] = PartFor(f, t, d)
           S == {k \in 0..m + 1 : \E f : UpFrom(f, k)}
<1>3. 0 \in S
  <2> DEFINE f == [d \in Dirs(t) |-> 0]
  <2>1. f = [d \in Dirs(t) |-> f[d]]
    OBVIOUS
  <2>2. \A d \in Dirs(t) : ~(Len(d) > m - 0)
    BY <1>2
  <2>3. UpFrom(f, 0)
    <3> HIDE DEF f, t
    <3> QED
      BY <2>1, <2>2
  <2>4. 0 \in 0..m + 1
    OBVIOUS
  <2> HIDE DEF UpFrom
  <2> QED
    BY <2>3, <2>4
<1>4. ASSUME NEW k \in 1..m + 1, k - 1 \in S
      PROVE  k \in S
  <2>1. PICK f : UpFrom(f, k - 1)
    BY <1>4
  <2> DEFINE g == [d \in Dirs(t) |-> IF Len(d) > m - k THEN PartFor(f, t, d) ELSE f[d]]
  <2>2. g = [d \in Dirs(t) |-> g[d]] /\ \A d \in Dirs(t) : g[d] = IF Len(d) > m - k THEN PartFor(f, t, d) ELSE f[d]
    OBVIOUS
  <2> HIDE DEF g
  <2>3. ASSUME NEW d \in Dirs(t), Len(d) > m - k
        PROVE  g[d] = PartFor(g, t, d)
    <3>1. ASSUME NEW e \in Dirs(t), Len(e) = Len(d) + 1
          PROVE  f[e] = g[e]
      <4>1. Len(e) > m - k /\ Len(e) > m - (k - 1)
        BY <1>2, <2>3, <3>1
      <4>2. f[e] = PartFor(f, t, e)
        BY <2>1, <4>1
      <4>3. g[e] = PartFor(f, t, e)
        BY <2>2, <4>1
      <4> QED
        BY <4>2, <4>3
    <3>2. PartFor(f, t, d) = PartFor(g, t, d)
      BY <3>1, PartsDeeper
    <3>3. g[d] = PartFor(f, t, d)
      BY <2>2, <2>3
    <3> QED
      BY <3>2, <3>3
  <2>4. UpFrom(g, k)
    BY <2>2, <2>3
  <2>5. k \in 0..m + 1
    OBVIOUS
  <2> HIDE DEF UpFrom
  <2> QED
    BY <2>4, <2>5
<1>5. m + 1 \in S
  <2>1. m + 1 \in Nat /\ m + 1 \in 0..m + 1
    OBVIOUS
  <2> HIDE DEF S
  <2>2. 0..m + 1 \subseteq S
    BY <1>3, <1>4, <2>1, UpTo
  <2> QED
    BY <2>1, <2>2
<1>6. PICK f : UpFrom(f, m + 1)
  BY <1>5
<1>7. \A d \in Dirs(t) : f[d] = PartFor(f, t, d)
  <2>1. \A d \in Dirs(t) : Len(d) > m - (m + 1)
    BY <1>2
  <2> QED
    BY <1>6, <2>1
<1> HIDE DEF t
<1>8. IsPartOf(f, t)
  BY <1>6, <1>7 DEF IsPartOf
<1> QED
  BY <1>8 DEF t

Inside(s, d) == {e \in ToSet(s) : IsStrictPrefix(d, e.path)}

\* What comes from one entry of directory d: the file, or what is inside.
LEMMA OfEntry ==
  ASSUME NEW s \in Snaps, Plain(s), NEW d \in Seq(Names), NEW n \in Names
  PROVE  /\ Append(d, n) \in Keys(s) =>
              {e \in ToSet(s) : IsPrefix(Append(d, n), e.path)} =
                 {[path |-> Append(d, n), file |-> Get(s, Append(d, n))]}
         /\ Append(d, n) \notin Keys(s) =>
              {e \in ToSet(s) : IsPrefix(Append(d, n), e.path)} = Inside(s, Append(d, n))
<1> DEFINE q == Append(d, n)
<1>1. \A e \in ToSet(s) : e.path \in Keys(s) /\ e = [path |-> e.path, file |-> Get(s, e.path)]
  <2>1. ToSet(s) \subseteq Entries
    BY SnapIs
  <2>2. \A e \in Entries : e = [path |-> e.path, file |-> e.file]
    BY DEF Entries
  <2> QED
    BY <2>1, <2>2, SnapIs
<1> HIDE DEF q
<1>2. CASE q \in Keys(s)
  <2>1. [path |-> q, file |-> Get(s, q)] \in ToSet(s)
    BY <1>2, SnapIs
  <2>2. IsPrefix(q, q)
    BY DEF IsPrefix
  <2>3. ASSUME NEW e \in ToSet(s), IsPrefix(q, e.path)
        PROVE  e = [path |-> q, file |-> Get(s, q)]
    <3>1. e.path = q
      BY <1>1, <1>2, <2>3 DEF Plain, IsStrictPrefix
    <3> QED
      BY <1>1, <3>1
  <2>4. {e \in ToSet(s) : IsPrefix(q, e.path)} = {[path |-> q, file |-> Get(s, q)]}
    BY <2>1, <2>2, <2>3
  <2> QED
    BY <1>2, <2>4 DEF q
<1>3. CASE q \notin Keys(s)
  <2>1. \A e \in ToSet(s) : e.path # q
    BY <1>1, <1>3
  <2>2. {e \in ToSet(s) : IsPrefix(q, e.path)} = Inside(s, q)
    BY <2>1 DEF Inside, IsStrictPrefix
  <2> QED
    BY <1>3, <2>2 DEF q
<1> QED
  BY <1>2, <1>3 DEF q

\* What is inside a directory is what its names lead to.
LEMMA InsideIs ==
  ASSUME NEW s \in Snaps, NEW d \in Seq(Names)
  PROVE  Inside(s, d) = UNION {{e \in ToSet(s) : IsPrefix(Append(d, n), e.path)} : n \in NamesIn(s, d)}
<1>1. \A e \in ToSet(s) : e.path \in Keys(s) /\ e.path \in Seq(Names)
  BY SnapIs DEF Entries
<1>2. ASSUME NEW e \in Inside(s, d)
      PROVE  \E n \in NamesIn(s, d) : e \in ToSet(s) /\ IsPrefix(Append(d, n), e.path)
  <2>1. e \in ToSet(s) /\ IsStrictPrefix(d, e.path) /\ e.path \in Keys(s) /\ e.path \in Seq(Names)
    BY <1>1 DEF Inside
  <2>2. PICK n \in Names : IsPrefix(Append(d, n), e.path)
    BY <2>1, FirstName
  <2> QED
    BY <2>1, <2>2 DEF NamesIn
<1>3. ASSUME NEW n \in NamesIn(s, d), NEW e \in ToSet(s), IsPrefix(Append(d, n), e.path)
      PROVE  e \in Inside(s, d)
  <2> DEFINE q == Append(d, n)
  <2>1. q \in Seq(Names) /\ IsStrictPrefix(d, q) /\ IsPrefix(d, q)
    BY Deeper DEF NamesIn, PathsOf, IsStrictPrefix
  <2>2. IsPrefix(q, e.path) /\ e.path \in Seq(Names)
    BY <1>1, <1>3
  <2> HIDE DEF q
  <2>3. IsStrictPrefix(d, e.path)
    BY <2>1, <2>2, PrefixTransitive
  <2> QED
    BY <2>3 DEF Inside
<1> QED
  BY <1>2, <1>3

\* What is read of a directory is right if it is right one place deeper.
LEMMA PartIs ==
  ASSUME NEW s \in Snaps, NEW node, Plain(s), IsTreeOf(node, s), NEW d \in Dirs(node[<< >>]), NEW part,
         \A e \in Dirs(node[<< >>]) :
            Len(e) = Len(d) + 1 => part[e] \in Seq(Entries) /\ ToSet(part[e]) = Inside(s, e)
  PROVE  /\ PartFor(part, node[<< >>], d) \in Seq(Entries)
         /\ ToSet(PartFor(part, node[<< >>], d)) = Inside(s, d)
<1> DEFINE entries == EntriesFor(node, s, d)
           found(e) == IF e.kind = "file"
                       THEN <<[path |-> Append(d, e.name), file |-> e.object]>>
                       ELSE part[Append(d, e.name)]
           all == [i \in DOMAIN entries |-> found(entries[i])]
           In(n) == {e \in ToSet(s) : IsPrefix(Append(d, n), e.path)}
<1>1. Found(node[<< >>], d).object.entries = entries
  BY DirsAre
<1>2. PartFor(part, node[<< >>], d) = FlattenSeq(all)
  BY <1>1 DEF PartFor
<1>3. d \in Seq(Names)
  BY DirsAre, PlaceIs
<1>4. DOMAIN entries = 1..Len(entries) /\ Len(entries) \in Nat
      /\ {entries[i].name : i \in DOMAIN entries} = NamesIn(s, d)
  BY EntriesAre
<1>5. ASSUME NEW i \in DOMAIN entries
      PROVE  found(entries[i]) \in Seq(Entries) /\ ToSet(found(entries[i])) = In(entries[i].name)
  <2> DEFINE e == entries[i]
             n == e.name
             q == Append(d, n)
  <2>1. /\ Len(q) = Len(d) + 1
        /\ q \in Keys(s) => e.kind = "file" /\ e.object = Get(s, q)
        /\ q \notin Keys(s) => e.kind = "tree" /\ q \in Dirs(node[<< >>])
    BY EntriesAre
  <2>2. n \in Names
    <3>1. n \in NamesIn(s, d)
      <4> HIDE DEF entries
      <4> QED
        BY <1>4
    <3> QED
      BY <3>1 DEF NamesIn
  <2>3. /\ q \in Keys(s) => In(n) = {[path |-> q, file |-> Get(s, q)]}
        /\ q \notin Keys(s) => In(n) = Inside(s, q)
    BY <1>3, <2>2, OfEntry
  <2> HIDE DEF entries, e, q, In
  <2>4. CASE q \in Keys(s)
    <3> DEFINE x == [path |-> q, file |-> Get(s, q)]
    <3>1. found(e) = <<x>>
      BY <2>1, <2>4 DEF q
    <3>2. x \in Entries
      BY <2>4, SnapIs
    <3> HIDE DEF x
    <3>3. <<x>> \in Seq(Entries) /\ ToSet(<<x>>) = {x}
      BY <3>2 DEF ToSet
    <3>4. In(n) = {x}
      BY <2>3, <2>4 DEF x
    <3> QED
      BY <3>1, <3>3, <3>4 DEF e
  <2>5. CASE q \notin Keys(s)
    <3>1. found(e) = part[q]
      BY <2>1, <2>5 DEF q
    <3>2. part[q] \in Seq(Entries) /\ ToSet(part[q]) = Inside(s, q)
      BY <2>1, <2>5
    <3> QED
      BY <2>3, <2>5, <3>1, <3>2 DEF e
  <2> QED
    BY <2>4, <2>5
<1> HIDE DEF entries, found, In
<1>6. all \in Seq(Seq(Entries)) /\ DOMAIN all = DOMAIN entries /\ \A i \in DOMAIN entries : all[i] = found(entries[i])
  <2>1. all \in [1..Len(entries) -> Seq(Entries)]
    BY <1>4, <1>5
  <2> QED
    BY <1>4, <2>1
<1> HIDE DEF all
<1>7. FlattenSeq(all) \in Seq(Entries) /\ ToSet(FlattenSeq(all)) = UNION {ToSet(all[i]) : i \in DOMAIN all}
  BY <1>6, FlatSet
<1>8. UNION {ToSet(all[i]) : i \in DOMAIN all} = UNION {In(n) : n \in NamesIn(s, d)}
  <2>1. \A i \in DOMAIN entries : ToSet(all[i]) = In(entries[i].name) /\ entries[i].name \in NamesIn(s, d)
    BY <1>4, <1>5, <1>6
  <2>2. \A n \in NamesIn(s, d) : \E i \in DOMAIN entries : entries[i].name = n
    BY <1>4
  <2>3. \A i \in DOMAIN all : ToSet(all[i]) \subseteq UNION {In(n) : n \in NamesIn(s, d)}
    BY <1>6, <2>1
  <2>4. \A n \in NamesIn(s, d) : In(n) \subseteq UNION {ToSet(all[i]) : i \in DOMAIN all}
    <3>1. ASSUME NEW n \in NamesIn(s, d)
          PROVE  In(n) \subseteq UNION {ToSet(all[i]) : i \in DOMAIN all}
      <4>1. PICK i \in DOMAIN entries : entries[i].name = n
        BY <2>2
      <4>2. i \in DOMAIN all /\ ToSet(all[i]) = In(n)
        BY <1>6, <2>1, <4>1
      <4> QED
        BY <4>2
    <3> QED
      BY <3>1
  <2> QED
    BY <2>3, <2>4
<1>9. Inside(s, d) = UNION {In(n) : n \in NamesIn(s, d)}
  BY <1>3, InsideIs DEF In
<1> QED
  BY <1>2, <1>7, <1>8, <1>9

\* What is read is what was written.
LEMMA ReadBack ==
  ASSUME NEW s \in Snaps, Plain(s)
  PROVE  SnapshotOf(StageTree(s)) \in Snaps /\ ToSet(SnapshotOf(StageTree(s))) = ToSet(s)
<1>1. PICK node : IsTreeOf(node, s) /\ StageTree(s) = node[<< >>]
  BY StagedTree DEF Plain
<1> DEFINE t == node[<< >>]
           part == CHOOSE h : IsPartOf(h, t)
<1>2. IsPartOf(part, t)
  <2>1. \E h : IsPartOf(h, t)
    BY <1>1, PartsExist
  <2> QED
    BY <2>1
<1>3. SnapshotOf(t) = part[<< >>]
  BY DEF SnapshotOf, IsPartOf, PartFor
<1> HIDE DEF part
<1>4. \A d \in Dirs(t) : part[d] = PartFor(part, t, d)
  BY <1>2 DEF IsPartOf
<1>5. PICK m \in Nat : m = MaxDepth
  BY NamesAssumption
<1>6. \A d \in Dirs(t) : Len(d) \in 0..m
  BY <1>1, <1>5, DirsAre, PlaceIs
<1> DEFINE Right(d) == part[d] \in Seq(Entries) /\ ToSet(part[d]) = Inside(s, d)
           S == {k \in 0..m + 1 : \A d \in Dirs(t) : Len(d) > m - k => Right(d)}
<1>7. 0 \in S
  BY <1>6
<1>8. ASSUME NEW k \in 1..m + 1, k - 1 \in S
      PROVE  k \in S
  <2>1. ASSUME NEW d \in Dirs(t), Len(d) > m - k
        PROVE  Right(d)
    <3>1. ASSUME NEW e \in Dirs(t), Len(e) = Len(d) + 1
          PROVE  part[e] \in Seq(Entries) /\ ToSet(part[e]) = Inside(s, e)
      <4>1. Len(e) > m - (k - 1)
        BY <1>6, <2>1, <3>1
      <4> QED
        BY <1>8, <4>1
    <3>2. /\ PartFor(part, t, d) \in Seq(Entries)
          /\ ToSet(PartFor(part, t, d)) = Inside(s, d)
      BY <1>1, <3>1, PartIs
    <3> QED
      BY <1>4, <3>2
  <2> HIDE DEF Right
  <2> QED
    BY <2>1
<1>9. m + 1 \in S
  <2>1. m + 1 \in Nat /\ m + 1 \in 0..m + 1
    OBVIOUS
  <2> HIDE DEF S
  <2>2. 0..m + 1 \subseteq S
    BY <1>7, <1>8, <2>1, UpTo
  <2> QED
    BY <2>1, <2>2
<1>10. << >> \in Dirs(t) /\ Len(<< >>) > m - (m + 1)
  <2>1. IsDir(s, << >>)
    BY DEF IsDir
  <2> QED
    BY <1>1, <2>1, DirsAre, RootPlace
<1>11. Right(<< >>)
  BY <1>9, <1>10
<1>12. Inside(s, << >>) = ToSet(s)
  <2>1. \A p \in PathsOf : IsStrictPrefix(<< >>, p)
    <3>1. ASSUME NEW p \in PathsOf
          PROVE  IsStrictPrefix(<< >>, p)
      <4>1. p \in Seq(Names) /\ p # << >> /\ << >> \in Seq(Names) /\ << >> \o p = p
        BY ConcatEmptySeq DEF PathsOf
      <4> QED
        BY <4>1, Joined
    <3> QED
      BY <3>1
  <2> QED
    BY <2>1, SnapIs DEF Inside, Entries, PathsOf
<1>13. SnapshotOf(t) \in Seq(Entries) /\ ToSet(SnapshotOf(t)) = ToSet(s)
  BY <1>3, <1>11, <1>12
<1>14. \A d, e \in ToSet(s) : d.path = e.path => d = e
  BY DEF Snaps
<1> HIDE DEF t
<1>15. SnapshotOf(t) \in Snaps
  BY <1>13, <1>14 DEF Snaps
<1> QED
  BY <1>1, <1>13, <1>15 DEF t

-----------------------------------------------------------------------------
(* Versions *)

IsVersion(t) == \E s \in Snaps : Fits(s) /\ IsLegal(s) /\ t = StageTree(s)

\* Snapshots with the same entries have the same files.
LEMMA SameSets ==
  ASSUME NEW r \in Snaps, NEW s \in Snaps, ToSet(r) = ToSet(s)
  PROVE  SameFiles(r, s)
<1>1. Keys(r) = Keys(s)
  BY SnapIs
<1>2. ASSUME NEW p
      PROVE  Get(r, p) = Get(s, p)
  <2>1. CASE p \in Keys(s)
    <3> DEFINE e == [path |-> p, file |-> Get(s, p)]
    <3>1. e \in ToSet(s) /\ e.path = p /\ e.file = Get(s, p)
      BY <2>1, SnapIs
    <3>2. Get(r, e.path) = e.file
      BY <3>1, SnapIs
    <3> QED
      BY <3>1, <3>2
  <2>2. CASE p \notin Keys(s)
    BY <1>1, <2>2 DEF Get
  <2> QED
    BY <2>1, <2>2
<1> QED
  BY <1>1, <1>2 DEF SameFiles

\* In a legal snapshot no file is in the way of another.
LEMMA LegalIsPlain ==
  ASSUME NEW s \in Snaps, Fits(s), IsLegal(s)
  PROVE  Plain(s)
  BY SnapIs DEF Plain, IsLegal, PathsOf

\* What is read of a version has the files that it was made of.
LEMMA VersionReads ==
  ASSUME NEW s \in Snaps, Fits(s), IsLegal(s)
  PROVE  LET r == SnapshotOf(StageTree(s))
         IN  /\ r \in Snaps /\ SameFiles(r, s) /\ Fits(r) /\ IsLegal(r)
             /\ StageTree(r) = StageTree(s)
<1> DEFINE r == SnapshotOf(StageTree(s))
<1>1. r \in Snaps /\ ToSet(r) = ToSet(s)
  BY LegalIsPlain, ReadBack
<1> HIDE DEF r
<1>2. SameFiles(r, s)
  BY <1>1, SameSets
<1>3. Fits(r) /\ IsLegal(r)
  BY <1>2 DEF Fits, IsLegal, SameFiles
<1>4. StageTree(r) = StageTree(s)
  BY <1>2, LegalIsPlain, StagedAlike DEF Plain
<1> QED
  BY <1>1, <1>2, <1>3, <1>4 DEF r

\* A version is the tree of the files that are read from it.
LEMMA VersionIs ==
  ASSUME NEW t, IsVersion(t)
  PROVE  SnapshotOf(t) \in Snaps /\ Fits(SnapshotOf(t)) /\ IsLegal(SnapshotOf(t)) /\ StageTree(SnapshotOf(t)) = t
  BY VersionReads DEF IsVersion

\* The empty tree is a version,
LEMMA EmptyIsVersion == IsVersion(EmptyTree)
<1>1. << >> \in Snaps /\ Keys(<< >>) = {}
  BY DEF Snaps, ToSet, Keys
<1>2. Fits(<< >>) /\ IsLegal(<< >>)
  BY <1>1 DEF Fits, IsLegal
<1> QED
  BY <1>1, <1>2 DEF IsVersion, EmptyTree

\* What the tag names is a version, the head's if it is the same commit.
TagInv ==
  tag # NoTag =>
    /\ tag.id \in Commits /\ IsVersion(tag.tree)
    /\ tag.id = id => tag.tree = head

\* Both versions that copies may be from are there.
LEMMA SourcesAre ==
  ASSUME NEW t, IsVersion(t), TagInv
  PROVE  SourceSnapshots(t) \in Sources /\ SourceSnapshots(t).none = SnapshotOf(t)
<1>1. SnapshotOf(t) \in Snaps /\ << >> \in Snaps
  BY VersionIs DEF Snaps, ToSet
<1>2. tag # NoTag => SnapshotOf(tag.tree) \in Snaps
  BY VersionIs DEF TagInv
<1> QED
  BY <1>1, <1>2 DEF SourceSnapshots, Sources

\* What operations make of a version.
LEMMA StagedMeans ==
  ASSUME NEW t, IsVersion(t), TagInv, NEW ops \in Seq(Orders), Staged(t, ops) # Failed
  PROVE  /\ Staged(t, ops) \in Snaps /\ IsLegal(Staged(t, ops))
         /\ \A p \in PathsOf : Get(Staged(t, ops), p) = Meaning(SourceSnapshots(t), ops, p)
<1> DEFINE sources == SourceSnapshots(t)
           s == AllApplied(sources, ops)
<1>1. sources \in Sources
  BY SourcesAre
<1>2. Staged(t, ops) = IF s = Failed THEN Failed ELSE IF IsLegal(s) THEN s ELSE Failed
  BY DEF Staged
<1> HIDE DEF s, sources
<1>3. s # Failed /\ IsLegal(s) /\ Staged(t, ops) = s
  BY <1>2
<1>4. s \in Snaps /\ \A p \in PathsOf : Get(s, p) = Meaning(sources, ops, p)
  BY <1>1, <1>3, OperationsMean DEF s
<1> QED
  BY <1>3, <1>4 DEF sources

\* and so is what a commit writes.
LEMMA StagedIsVersion ==
  ASSUME NEW t, IsVersion(t), TagInv, NEW ops \in Seq(Orders), Staged(t, ops) # Failed,
         Small(Staged(t, ops))
  PROVE  IsVersion(StageTree(Staged(t, ops)))
  BY StagedMeans DEF IsVersion, Small, Fits

\* The lists of the runs are lists of orders.
LEMMA ListsAreOrders == OpLists \subseteq Seq(Orders)
<1>1. ASSUME NEW ops \in OpLists
      PROVE  ops \in Seq(Orders)
  <2>1. PICK n \in 1..MaxOps : ops \in [1..n -> Operations]
    BY <1>1 DEF OpLists
  <2>2. n \in Nat /\ ops \in [1..n -> Orders]
    BY <2>1, OperationsAreOrders, OperationsAssumption
  <2> QED
    BY <2>2
<1> QED
  BY <1>1

-----------------------------------------------------------------------------
(* Commits *)

\* On any version, every accepted list does what it says.
LEMMA CommitsMean == IsVersion(head) /\ TagInv => CommitsMeanTheirOperations
<1> SUFFICES ASSUME IsVersion(head), TagInv, NEW ops \in OpLists, Staged(head, ops) # Failed
             PROVE  LET s == Staged(head, ops)
                        meant(p) == Meaning(SourceSnapshots(head), ops, p)
                    IN  /\ \A p \in Keys(s) \union Keys(HeadFiles) : Get(s, p) = meant(p)
                        /\ {c.path : c \in Changes(HeadFiles, s)} =
                              {p \in Keys(s) \union Keys(HeadFiles) : meant(p) # Get(HeadFiles, p)}
  BY DEF CommitsMeanTheirOperations
<1> DEFINE s == Staged(head, ops)
           Both == Keys(s) \union Keys(HeadFiles)
           Differ == {q \in Keys(HeadFiles) \union Keys(s) : Get(HeadFiles, q) # Get(s, q)}
<1>1. ops \in Seq(Orders)
  BY ListsAreOrders
<1>2. s \in Snaps /\ \A p \in PathsOf : Get(s, p) = Meaning(SourceSnapshots(head), ops, p)
  BY <1>1, StagedMeans
<1>3. Both \subseteq PathsOf
  <2>1. HeadFiles \in Snaps
    BY VersionIs DEF HeadFiles
  <2> HIDE DEF s
  <2> QED
    BY <1>2, <2>1, SnapIs DEF PathsOf
<1>4. {c.path : c \in Changes(HeadFiles, s)} = Differ
  <2> DEFINE Change(p) == [path |-> p, type |-> ChangeOf(Get(HeadFiles, p), Get(s, p))]
  <2>1. Changes(HeadFiles, s) = {Change(p) : p \in Differ}
    BY DEF Changes
  <2>2. \A p : Change(p).path = p
    OBVIOUS
  <2> HIDE DEF Differ, s, Change
  <2>3. ASSUME NEW c \in Changes(HeadFiles, s)
        PROVE  c.path \in Differ
    <3>1. PICK p \in Differ : c = Change(p)
      BY <2>1
    <3> QED
      BY <2>2, <3>1
  <2>4. ASSUME NEW p \in Differ
        PROVE  \E c \in Changes(HeadFiles, s) : c.path = p
    <3>1. Change(p) \in Changes(HeadFiles, s)
      BY <2>1
    <3> QED
      BY <2>2, <3>1
  <2> QED
    BY <2>3, <2>4
<1> HIDE DEF s
<1>5. Differ = {p \in Both : Meaning(SourceSnapshots(head), ops, p) # Get(HeadFiles, p)}
  BY <1>2, <1>3
<1> QED
  BY <1>2, <1>3, <1>4, <1>5 DEF s

-----------------------------------------------------------------------------
(* Folder uploads *)

\* A planned upload: what it deletes is what it saw in some version; if it is
\* bound, in that of the commit given, whatever has this commit now.
Saw(s) ==
  /\ plan.given = id => s = HeadFiles
  /\ tag # NoTag /\ plan.given = tag.id => s = SnapshotOf(tag.tree)

PlanInv ==
  plan # NoPlan =>
    /\ plan.upload \in Uploads /\ plan.bound \in BOOLEAN /\ plan.given \in Commits
    /\ plan.bound => plan.upload.parent = "commit"
    /\ \E s \in Snaps : /\ plan.deletes = DeleteOps(plan.upload, s)
                        /\ plan.bound => Saw(s)

\* What an upload has found is a version.
SentInv == sent # NoPlan => IsVersion(sent.met)

OpsInv == IsVersion(head) /\ id \in Commits /\ TagInv /\ PlanInv /\ SentInv /\ FolderUploadsMirror

\* What an upload has.
LEMMA UploadTypes ==
  ASSUME NEW u \in Uploads
  PROVE  /\ u.base \in Seq(Names)
         /\ u.adds \in Seq(Entries) /\ DOMAIN u.adds = 1..Len(u.adds) /\ Len(u.adds) \in Nat
         /\ \A i, j \in DOMAIN u.adds : u.adds[i].path = u.adds[j].path => i = j
         /\ \A i \in DOMAIN u.adds : u.adds[i].path \in PathsOf /\ u.adds[i].file \in Files
         /\ InFolder(u) \subseteq PathsOf
<1>1. /\ u.base \in Seq(Names) /\ u.adds \in Seq(Entries)
      /\ IsInjective([i \in DOMAIN u.adds |-> u.adds[i].path])
  BY OperationsAssumption DEF Entries
<1>2. DOMAIN u.adds = 1..Len(u.adds) /\ Len(u.adds) \in Nat
  BY <1>1
<1>3. \A i \in DOMAIN u.adds : u.adds[i].path \in PathsOf /\ u.adds[i].file \in Files
  <2>1. \A i \in DOMAIN u.adds : u.adds[i] \in Entries
    BY <1>1
  <2>2. \A e \in Entries : e.path \in PathsOf /\ e.file \in Files
    BY DEF Entries, PathsOf
  <2> QED
    BY <2>1, <2>2
<1>4. \A i, j \in DOMAIN u.adds : u.adds[i].path = u.adds[j].path => i = j
  <2> DEFINE g == [i \in DOMAIN u.adds |-> u.adds[i].path]
  <2>1. DOMAIN g = DOMAIN u.adds /\ \A i \in DOMAIN u.adds : g[i] = u.adds[i].path
    OBVIOUS
  <2>2. IsInjective(g)
    BY <1>1
  <2> HIDE DEF g
  <2> QED
    BY <2>1, <2>2 DEF IsInjective
<1>5. InFolder(u) \subseteq PathsOf
  <2>1. ASSUME NEW i \in DOMAIN u.adds
        PROVE  u.base \o u.adds[i].path \in PathsOf
    <3>1. u.adds[i].path \in Seq(Names) /\ u.adds[i].path # << >>
      BY <1>3 DEF PathsOf
    <3> QED
      BY <1>1, <3>1, Joined DEF PathsOf
  <2> QED
    BY <2>1 DEF InFolder
<1> QED
  BY <1>1, <1>2, <1>3, <1>4, <1>5

\* The deletions of an upload are those of the selected paths,
LEMMA DeletesAre ==
  ASSUME NEW u \in Uploads, NEW s \in Snaps
  PROVE  LET ds == DeleteOps(u, s)
         IN  /\ ds \in Seq(Orders) /\ DOMAIN ds = 1..Len(ds) /\ Len(ds) \in Nat
             /\ \A i \in DOMAIN ds : ds[i].kind = "delete" /\ ds[i].path \in Doomed(u, s)
             /\ {ds[i].path : i \in DOMAIN ds} = Doomed(u, s)
<1> DEFINE T == {e \in ToSet(s) : e.path \in Doomed(u, s)}
           o == Only(s, T)
           ds == DeleteOps(u, s)
<1>1. o \in Snaps /\ ToSet(o) = ToSet(s) \intersect T
  <2> HIDE DEF T
  <2> QED
    BY OnlySnap
<1>2. ds = [i \in DOMAIN o |-> [kind |-> "delete", path |-> o[i].path]]
  BY DEF DeleteOps
<1> HIDE DEF o, ds
<1>3. o \in Seq(Entries) /\ DOMAIN o = 1..Len(o) /\ Len(o) \in Nat /\ ToSet(o) = T
  BY <1>1, SnapIs
<1>4. \A i \in DOMAIN o : o[i].path \in Doomed(u, s) /\ o[i].path \in PathsOf
  <2>1. \A i \in DOMAIN o : o[i] \in ToSet(o)
    BY DEF ToSet
  <2>2. \A e \in T : e.path \in PathsOf
    BY SnapIs DEF Entries, PathsOf
  <2> QED
    BY <1>3, <2>1, <2>2
<1>5. DOMAIN ds = 1..Len(o) /\ \A i \in 1..Len(o) : ds[i] = [kind |-> "delete", path |-> o[i].path]
  BY <1>2, <1>3
<1>6. ds \in Seq(Orders)
  <2>0. \A p \in PathsOf : [kind |-> "delete", path |-> p] \in Orders
    BY DEF Orders
  <2>1. \A i \in 1..Len(o) : ds[i] \in Orders
    BY <1>3, <1>4, <1>5, <2>0
  <2>2. ds \in [1..Len(o) -> Orders]
    BY <1>2, <1>3, <1>5, <2>1
  <2> QED
    BY <1>3, <2>2
<1>7. ASSUME NEW p \in Doomed(u, s)
      PROVE  \E i \in DOMAIN ds : ds[i].path = p
  <2>1. p \in Keys(s)
    BY DEF Doomed
  <2>2. PICK e \in ToSet(s) : e.path = p
    BY <2>1, SnapIs
  <2>3. e \in ToSet(o)
    BY <1>3, <2>2
  <2>4. PICK i \in DOMAIN o : o[i] = e
    BY <2>3 DEF ToSet
  <2> QED
    BY <1>3, <1>5, <2>2, <2>4
<1>8. \A i \in DOMAIN ds : ds[i].kind = "delete" /\ ds[i].path \in Doomed(u, s)
  BY <1>3, <1>4, <1>5
<1>9. DOMAIN ds = 1..Len(ds) /\ Len(ds) \in Nat
  BY <1>6
<1>10. {ds[i].path : i \in DOMAIN ds} = Doomed(u, s)
  BY <1>7, <1>8
<1> QED
  BY <1>6, <1>8, <1>9, <1>10 DEF ds

\* and its additions those of the files of the folder.
LEMMA AddsAre ==
  ASSUME NEW u \in Uploads
  PROVE  /\ AddOps(u) \in Seq(Orders) /\ Len(AddOps(u)) = Len(u.adds)
         /\ \A i \in DOMAIN u.adds : /\ AddOps(u)[i].kind = "add"
                                     /\ AddOps(u)[i].path = u.base \o u.adds[i].path
                                     /\ AddOps(u)[i].file = u.adds[i].file
<1>1. /\ DOMAIN u.adds = 1..Len(u.adds) /\ Len(u.adds) \in Nat
      /\ \A i \in DOMAIN u.adds : u.adds[i].file \in Files
      /\ InFolder(u) \subseteq PathsOf
  BY UploadTypes
<1> DEFINE new(i) == [kind |-> "add", path |-> u.base \o u.adds[i].path, file |-> u.adds[i].file]
<1>2. AddOps(u) = [i \in DOMAIN u.adds |-> new(i)]
  BY DEF AddOps
<1>3. ASSUME NEW i \in DOMAIN u.adds
      PROVE  new(i) \in Orders
  <2>1. u.base \o u.adds[i].path \in PathsOf
    BY <1>1 DEF InFolder
  <2> QED
    BY <1>1, <2>1 DEF Orders
<1>4. AddOps(u) \in [1..Len(u.adds) -> Orders]
  <2> HIDE DEF new
  <2> QED
    BY <1>1, <1>2, <1>3
<1>5. \A i : new(i).kind = "add" /\ new(i).path = u.base \o u.adds[i].path /\ new(i).file = u.adds[i].file
  OBVIOUS
<1> DEFINE as == AddOps(u)
<1> HIDE DEF new
<1>6. \A i \in DOMAIN u.adds : as[i] = new(i)
  BY <1>2
<1> HIDE DEF as
<1>7. as \in Seq(Orders) /\ Len(as) = Len(u.adds)
  <2>1. PICK n \in Nat : n = Len(u.adds)
    BY <1>1
  <2>2. as \in [1..n -> Orders]
    BY <1>4, <2>1 DEF as
  <2>3. as \in Seq(Orders)
    BY <2>2, SeqDef
  <2>4. Len(as) = n
    <3>1. DOMAIN as = 1..n /\ DOMAIN as = 1..Len(as) /\ Len(as) \in Nat
      BY <2>2, <2>3, LenProperties
    <3> QED
      BY <3>1
  <2> QED
    BY <2>1, <2>3, <2>4
<1> QED
  BY <1>5, <1>6, <1>7 DEF as

\* What the operations of upload u, planned on s, mean for path p.
UploadOn(u, s, sources, ops, p) ==
    /\ \A i \in DOMAIN u.adds : p = u.base \o u.adds[i].path => Meaning(sources, ops, p) = u.adds[i].file
    /\ p \in Doomed(u, s) => Meaning(sources, ops, p) = Missing
    /\ p \notin Doomed(u, s) \union InFolder(u) => Meaning(sources, ops, p) = Get(sources.none, p)

\* An addition decides if the folder has the path, else a deletion.
LEMMA UploadMeans ==
  ASSUME NEW u \in Uploads, NEW s \in Snaps, NEW sources, NEW ops,
         ops = DeleteOps(u, s) \o AddOps(u)
  PROVE  \A q : UploadOn(u, s, sources, ops, q)
<1>1. ASSUME NEW q
      PROVE  /\ \A i \in DOMAIN u.adds : q = u.base \o u.adds[i].path => Meaning(sources, ops, q) = u.adds[i].file
             /\ q \in Doomed(u, s) => Meaning(sources, ops, q) = Missing
             /\ q \notin Doomed(u, s) \union InFolder(u) => Meaning(sources, ops, q) = Get(sources.none, q)
  <2> DEFINE ds == DeleteOps(u, s)
             as == AddOps(u)
             spoken == {i \in DOMAIN ops : Speaks(SourceOf(sources, ops[i]), ops[i], q)}
             op == ops[Max(spoken)]
  <2>1. /\ ds \in Seq(Orders) /\ DOMAIN ds = 1..Len(ds) /\ Len(ds) \in Nat
        /\ \A i \in DOMAIN ds : ds[i].kind = "delete" /\ ds[i].path \in Doomed(u, s)
        /\ {ds[i].path : i \in DOMAIN ds} = Doomed(u, s)
    BY DeletesAre
  <2>2. /\ as \in Seq(Orders) /\ Len(as) = Len(u.adds) /\ DOMAIN u.adds = 1..Len(u.adds)
        /\ Len(u.adds) \in Nat
        /\ \A i \in DOMAIN u.adds : /\ as[i].kind = "add" /\ as[i].path = u.base \o u.adds[i].path
                                    /\ as[i].file = u.adds[i].file
    BY AddsAre, UploadTypes
  <2>3. Meaning(sources, ops, q) =
          IF spoken = {} THEN Get(sources.none, q)
          ELSE CASE op.kind = "add" -> op.file
                 [] op.kind \in {"delete", "delete folder"} -> Missing
                 [] op.kind = "copy" -> Get(SourceOf(sources, op), CopySource(SourceOf(sources, op), op, q))
    BY DEF Meaning
  <2>0. ops = ds \o as
    OBVIOUS
  <2> HIDE DEF ds, as
  <2>4. /\ DOMAIN ops = 1..Len(ds) + Len(u.adds)
        /\ \A i \in DOMAIN ds : ops[i] = ds[i]
        /\ \A i \in DOMAIN u.adds : ops[Len(ds) + i] = as[i]
    <3>1. /\ ops \in Seq(Orders) /\ Len(ops) = Len(ds) + Len(as)
          /\ \A i \in 1..Len(ds) + Len(as) : ops[i] = IF i <= Len(ds) THEN ds[i] ELSE as[i - Len(ds)]
      <4>1. ds \in Seq(Orders) /\ as \in Seq(Orders)
        BY <2>1, <2>2
      <4>2. /\ ds \o as \in Seq(Orders) /\ Len(ds \o as) = Len(ds) + Len(as)
            /\ \A i \in 1..Len(ds) + Len(as) :
                  (ds \o as)[i] = IF i <= Len(ds) THEN ds[i] ELSE as[i - Len(ds)]
        BY <4>1, ConcatProperties
      <4> QED
        BY <2>0, <4>2, Zenon
    <3>2. DOMAIN ops = 1..Len(ds) + Len(u.adds)
      BY <2>2, <3>1
    <3>3. ASSUME NEW i \in DOMAIN ds
          PROVE  ops[i] = ds[i]
      <4>1. i \in 1..Len(ds) + Len(as) /\ i <= Len(ds)
        BY <2>1, <2>2
      <4> QED
        BY <3>1, <4>1
    <3>4. ASSUME NEW i \in DOMAIN u.adds
          PROVE  ops[Len(ds) + i] = as[i]
      <4>1. Len(ds) + i \in 1..Len(ds) + Len(as) /\ ~(Len(ds) + i <= Len(ds)) /\ (Len(ds) + i) - Len(ds) = i
        BY <2>1, <2>2
      <4> QED
        BY <3>1, <4>1
    <3> QED
      BY <3>2, <3>3, <3>4
  <2>5. ASSUME NEW i \in DOMAIN ops
        PROVE  \/ i \in DOMAIN ds /\ ops[i] = ds[i]
               \/ i - Len(ds) \in DOMAIN u.adds /\ ops[i] = as[i - Len(ds)]
    <3>1. CASE i \in 1..Len(ds)
      BY <2>1, <2>4, <3>1
    <3>2. CASE i \notin 1..Len(ds)
      <4>1. i - Len(ds) \in 1..Len(u.adds) /\ Len(ds) + (i - Len(ds)) = i
        BY <2>1, <2>2, <2>4, <3>2
      <4> QED
        BY <2>2, <2>4, <4>1
    <3> QED
      BY <3>1, <3>2
  <2>6. \A i \in DOMAIN ops : Speaks(SourceOf(sources, ops[i]), ops[i], q) <=> ops[i].path = q
    <3>1. ASSUME NEW i \in DOMAIN ops
          PROVE  ops[i].kind \in {"add", "delete"}
      <4>1. CASE i \in DOMAIN ds /\ ops[i] = ds[i]
        BY <2>1, <4>1
      <4>2. CASE i - Len(ds) \in DOMAIN u.adds /\ ops[i] = as[i - Len(ds)]
        BY <2>2, <4>2
      <4> QED
        BY <2>5, <4>1, <4>2
    <3> QED
      BY <3>1 DEF Speaks
  <2>7. spoken \subseteq Int /\ spoken = {i \in DOMAIN ops : ops[i].path = q}
    BY <2>1, <2>2, <2>4, <2>6
  <2>8. ASSUME NEW i \in DOMAIN u.adds, q = u.base \o u.adds[i].path
        PROVE  Meaning(sources, ops, q) = u.adds[i].file
    <3>1. Len(ds) + i \in spoken
      <4>1. Len(ds) + i \in DOMAIN ops
        <5>1. PICK m \in Nat : m = Len(u.adds)
          BY <2>2
        <5>2. i \in 1..m
          BY <2>2, <5>1
        <5>3. Len(ds) + i \in 1..Len(ds) + m
          BY <2>1, <5>2
        <5> QED
          BY <2>4, <5>1, <5>3
      <4>2. ops[Len(ds) + i] = as[i]
        BY <2>4
      <4> QED
        BY <2>2, <2>7, <2>8, <4>1, <4>2
    <3>2. ASSUME NEW j \in spoken
          PROVE  j <= Len(ds) + i
      <4>1. CASE j \in DOMAIN ds
        BY <2>1, <2>2, <4>1
      <4>2. CASE j - Len(ds) \in DOMAIN u.adds /\ ops[j] = as[j - Len(ds)]
        <5>1. u.base \o u.adds[j - Len(ds)].path = u.base \o u.adds[i].path
          BY <2>2, <2>7, <2>8, <4>2
        <5>2. u.adds[j - Len(ds)].path = u.adds[i].path
          <6>1. u.base \in Seq(Names) /\ u.adds[j - Len(ds)].path \in Seq(Names) /\ u.adds[i].path \in Seq(Names)
            BY <4>2, UploadTypes DEF PathsOf
          <6> QED
            BY <5>1, <6>1, Cancel
        <5>3. j - Len(ds) = i
          BY <4>2, <5>2, UploadTypes
        <5> QED
          BY <2>1, <2>7, <5>3
      <4> QED
        BY <2>5, <4>1, <4>2
    <3> HIDE DEF spoken
    <3>3. Max(spoken) = Len(ds) + i
      BY <2>7, <3>1, <3>2, MaxIs
    <3>4. op = as[i] /\ spoken # {}
      BY <2>4, <3>1, <3>3
    <3> HIDE DEF op
    <3> QED
      BY <2>2, <2>3, <3>4
  <2>9. ASSUME q \in Doomed(u, s)
        PROVE  Meaning(sources, ops, q) = Missing
    <3>1. PICK i \in DOMAIN ds : ds[i].path = q
      BY <2>1, <2>9
    <3>2. i \in spoken
      BY <2>1, <2>2, <2>4, <2>7, <3>1
    <3>3. spoken \in SUBSET (1..Len(ds) + Len(u.adds)) /\ Len(ds) + Len(u.adds) \in Nat
      BY <2>1, <2>2, <2>4
    <3>4. q \notin InFolder(u)
      BY <2>9 DEF Doomed
    <3> HIDE DEF spoken
    <3>5. Max(spoken) \in spoken
      BY <3>2, <3>3, MaxOfNumbers
    <3>6. op.path = q /\ Max(spoken) \in DOMAIN ops
      BY <2>7, <3>5
    <3>7. op.kind = "delete"
      <4>1. ASSUME Max(spoken) - Len(ds) \in DOMAIN u.adds, op = as[Max(spoken) - Len(ds)]
            PROVE  FALSE
        BY <2>2, <3>4, <3>6, <4>1 DEF InFolder
      <4> QED
        BY <2>1, <2>5, <3>6, <4>1
    <3> HIDE DEF op
    <3> QED
      BY <2>3, <3>2, <3>7
  <2>10. ASSUME q \notin Doomed(u, s) \union InFolder(u)
         PROVE  Meaning(sources, ops, q) = Get(sources.none, q)
    <3>1. ASSUME NEW i \in DOMAIN ops
          PROVE  ops[i].path # q
      <4>1. CASE i \in DOMAIN ds /\ ops[i] = ds[i]
        BY <2>1, <2>10, <4>1
      <4>2. CASE i - Len(ds) \in DOMAIN u.adds /\ ops[i] = as[i - Len(ds)]
        BY <2>2, <2>10, <4>2 DEF InFolder
      <4> QED
        BY <2>5, <4>1, <4>2
    <3>2. spoken = {}
      BY <2>7, <3>1
    <3> QED
      BY <2>3, <3>2
  <2> QED
    BY <2>8, <2>9, <2>10
<1> QED
  BY <1>1 DEF UploadOn

\* The invariant holds at first,
LEMMA OpsInit == Init => OpsInv
<1> SUFFICES ASSUME Init PROVE OpsInv
  OBVIOUS
<1>1. IsVersion(head)
  BY EmptyIsVersion DEF Init
<1>2. id \in Commits /\ TagInv /\ PlanInv /\ SentInv /\ FolderUploadsMirror
  BY DEF Init, TagInv, PlanInv, SentInv, FolderUploadsMirror
<1> QED
  BY <1>1, <1>2 DEF OpsInv

\* it is kept by a new commit, which is neither the tag's nor the plan's,
LEMMA PublishKeeps ==
  ASSUME OpsInv, NEW s, Publish(s)
  PROVE  /\ id' \in Commits /\ TagInv'
         /\ UNCHANGED plan => PlanInv'
<1>1. /\ id' \in Commits /\ tag' = tag
      /\ tag # NoTag => id' # tag.id
      /\ plan # NoPlan => id' # plan.given
  BY DEF Publish, InUse
<1>2. TagInv'
  BY <1>1 DEF OpsInv, TagInv
<1>3. ASSUME plan' = plan
      PROVE  PlanInv'
  <2> SUFFICES ASSUME plan # NoPlan
               PROVE  PlanInv'
    BY <1>3 DEF PlanInv
  <2>1. PICK r \in Snaps : plan.deletes = DeleteOps(plan.upload, r) /\ (plan.bound => Saw(r))
    BY DEF OpsInv, PlanInv
  <2>2. plan.bound => Saw(r)'
    BY <1>1, <1>3, <2>1 DEF Saw
  <2> QED
    BY <1>3, <2>1, <2>2 DEF OpsInv, PlanInv
<1> QED
  BY <1>1, <1>2, <1>3

\* as create_commit() makes one,
LEMMA CommitKeeps ==
  ASSUME OpsInv, NEW ops \in OpLists, CreateCommit(ops)
  PROVE  OpsInv'
<1> DEFINE s == Staged(head, ops)
<1>1. /\ s # Failed /\ Small(s) /\ head' = StageTree(s) /\ sent' = NoPlan
      /\ Publish(s) /\ plan' = plan
  BY DEF CreateCommit, Publish
<1>2. IsVersion(head')
  <2>1. ops \in Seq(Orders)
    BY ListsAreOrders
  <2>2. IsVersion(StageTree(s))
    BY <1>1, <2>1, StagedIsVersion DEF OpsInv
  <2> QED
    BY <1>1, <2>2
<1>3. id' \in Commits /\ TagInv' /\ PlanInv'
  <2> HIDE DEF s
  <2> QED
    BY <1>1, PublishKeeps
<1>4. SentInv' /\ FolderUploadsMirror'
  BY <1>1 DEF SentInv, FolderUploadsMirror
<1> QED
  BY <1>2, <1>3, <1>4 DEF OpsInv

\* by a tag that comes or goes, and by a reset to it,
LEMMA RefsKeep ==
  ASSUME OpsInv, CreateTag \/ DeleteTag \/ ResetRef
  PROVE  OpsInv'
<1>1. sent' = NoPlan /\ plan' = plan
  BY DEF CreateTag, DeleteTag, ResetRef
<1>2. SentInv' /\ FolderUploadsMirror'
  BY <1>1 DEF SentInv, FolderUploadsMirror
<1>3. IsVersion(head') /\ id' \in Commits /\ TagInv'
  BY DEF OpsInv, TagInv, CreateTag, DeleteTag, ResetRef
<1>4. PlanInv'
  <2> SUFFICES ASSUME plan # NoPlan
               PROVE  PlanInv'
    BY <1>1 DEF PlanInv
  <2>1. PICK r \in Snaps : plan.deletes = DeleteOps(plan.upload, r) /\ (plan.bound => Saw(r))
    BY DEF OpsInv, PlanInv
  <2>2. Saw(r) => Saw(r)'
    <3>1. CASE CreateTag
      <4>1. head' = head /\ id' = id /\ tag' = [id |-> id, tree |-> head]
        BY <3>1 DEF CreateTag
      <4> QED
        BY <1>1, <4>1 DEF Saw, HeadFiles
    <3>2. CASE DeleteTag
      BY <1>1, <3>2 DEF DeleteTag, Saw, HeadFiles
    <3>3. CASE ResetRef
      BY <1>1, <3>3 DEF ResetRef, Saw, HeadFiles
    <3> QED
      BY <3>1, <3>2, <3>3
  <2> QED
    BY <1>1, <2>1, <2>2 DEF OpsInv, PlanInv
<1> QED
  BY <1>2, <1>3, <1>4 DEF OpsInv

\* by a plan,
LEMMA PlanKeeps ==
  ASSUME OpsInv, NEW u \in Uploads, PlanFolder(u)
  PROVE  OpsInv'
<1>1. PICK c \in {id} \union (IF tag = NoTag THEN {} ELSE {tag.id}) :
        /\ plan' = [upload |-> u, deletes |-> DeleteOps(u, HeadFiles),
                    given |-> c, bound |-> u.parent = "commit" /\ c = id]
        /\ sent' = NoPlan /\ head' = head /\ id' = id /\ tag' = tag
  BY DEF PlanFolder, HeadFiles
<1>2. IsVersion(head') /\ HeadFiles' = HeadFiles /\ HeadFiles \in Snaps
  BY <1>1, VersionIs DEF OpsInv, HeadFiles
<1>3. id' \in Commits /\ TagInv' /\ c \in Commits
  BY <1>1 DEF OpsInv, TagInv
<1>4. PlanInv'
  <2>1. /\ plan'.upload = u /\ plan'.deletes = DeleteOps(u, HeadFiles) /\ plan'.given = c
        /\ plan'.bound = (u.parent = "commit" /\ c = id)
    BY <1>1
  <2>2. ASSUME plan'.bound
        PROVE  Saw(HeadFiles)'
    <3>1. plan'.given = id
      BY <2>1, <2>2
    <3>2. tag # NoTag /\ tag.id = id => SnapshotOf(tag.tree) = HeadFiles
      BY DEF OpsInv, TagInv, HeadFiles
    <3> QED
      BY <1>1, <1>2, <3>1, <3>2 DEF Saw
  <2>3. plan'.bound \in BOOLEAN /\ (plan'.bound => u.parent = "commit")
    BY <2>1
  <2> QED
    BY <1>2, <1>3, <2>1, <2>2, <2>3 DEF PlanInv
<1>5. SentInv' /\ FolderUploadsMirror'
  BY <1>1 DEF SentInv, FolderUploadsMirror
<1> QED
  BY <1>2, <1>3, <1>4, <1>5 DEF OpsInv

\* and by the commit of a plan, stale or not.
LEMMA SendKeeps ==
  ASSUME OpsInv, SendFolder
  PROVE  OpsInv'
<1> DEFINE u == plan.upload
           ops == plan.deletes \o AddOps(u)
           s == Staged(head, ops)
           doomed == {plan.deletes[i].path : i \in DOMAIN plan.deletes}
           Accepted == ops # << >> /\ SameParent(plan) /\ s # Failed
<1>1. plan # NoPlan /\ plan' = NoPlan
  BY DEF SendFolder
<1>2. PlanInv'
  BY <1>1 DEF PlanInv
<1>3. CASE ~Accepted
  <2>1. head' = head /\ sent' = sent /\ id' = id /\ tag' = tag
    BY <1>3 DEF SendFolder
  <2>2. IsVersion(head') /\ id' \in Commits /\ TagInv'
    BY <2>1 DEF OpsInv, TagInv
  <2>3. SentInv' /\ FolderUploadsMirror'
    BY <2>1 DEF OpsInv, SentInv, FolderUploadsMirror, HeadFiles
  <2> QED
    BY <1>2, <2>2, <2>3 DEF OpsInv
<1>4. CASE Accepted
  <2>1. /\ Small(s) /\ s # Failed /\ head' = StageTree(s) /\ SameParent(plan) /\ Publish(s)
        /\ sent' = [upload |-> u, met |-> head, bound |-> plan.bound, doomed |-> doomed]
    BY <1>4 DEF SendFolder, Publish
  <2>2. u \in Uploads /\ IsVersion(head) /\ TagInv
    BY <1>1 DEF OpsInv, PlanInv
  <2>3. PICK seen \in Snaps : plan.deletes = DeleteOps(u, seen) /\ (plan.bound => Saw(seen))
    BY <1>1 DEF OpsInv, PlanInv
  <2>4. /\ DeleteOps(u, seen) \in Seq(Orders) /\ doomed = Doomed(u, seen)
    BY <2>2, <2>3, DeletesAre
  <2>5. ops \in Seq(Orders)
    <3>1. AddOps(u) \in Seq(Orders) /\ plan.deletes \in Seq(Orders)
      BY <2>2, <2>3, <2>4, AddsAre
    <3> HIDE DEF u
    <3> QED
      BY <3>1
  <2>6. /\ s \in Snaps /\ IsLegal(s)
        /\ \A p \in PathsOf : Get(s, p) = Meaning(SourceSnapshots(head), ops, p)
    BY <2>1, <2>2, <2>5, StagedMeans
  <2>7. IsVersion(StageTree(s))
    BY <2>1, <2>2, <2>5, StagedIsVersion
  <2> DEFINE made == SnapshotOf(StageTree(s))
             met == HeadFiles
             sources == SourceSnapshots(head)
  <2>23. sources.none = met
    BY <2>2, SourcesAre DEF HeadFiles
  <2>24. id' \in Commits /\ TagInv'
    <3> HIDE DEF s
    <3> QED
      BY <2>1, PublishKeeps
  <2>8. made \in Snaps /\ SameFiles(made, s)
    <3>1. Fits(s)
      BY <2>1 DEF Small, Fits
    <3> HIDE DEF s
    <3> QED
      BY <2>6, <3>1, VersionReads
  <2>9. /\ met \in Snaps /\ Keys(met) \subseteq PathsOf /\ Keys(made) \subseteq PathsOf
        /\ \A p \in Keys(made) : Get(made, p) # Missing
        /\ \A p : p \notin Keys(met) => Get(met, p) = Missing
    <3>1. met \in Snaps
      BY <2>2, VersionIs DEF HeadFiles
    <3> HIDE DEF made, met
    <3> QED
      BY <2>8, <3>1, SnapIs DEF PathsOf
  <2>10. InFolder(u) \subseteq PathsOf /\ Doomed(u, seen) \subseteq PathsOf
    BY <2>2, <2>3, UploadTypes, SnapIs DEF Doomed, PathsOf
  <2> HIDE DEF s, made, met, ops, sources
  <2>11. \A p \in PathsOf : Get(made, p) = Meaning(sources, ops, p)
    BY <2>6, <2>8 DEF SameFiles, sources
  <2>12. ops = DeleteOps(u, seen) \o AddOps(u)
    BY <2>3 DEF ops
  <2>19. /\ \A i \in DOMAIN u.adds : Meaning(sources, ops, u.base \o u.adds[i].path) = u.adds[i].file
         /\ \A p \in Doomed(u, seen) : Meaning(sources, ops, p) = Missing
         /\ \A p : p \notin Doomed(u, seen) \union InFolder(u) => Meaning(sources, ops, p) = Get(met, p)
    <3>1. u \in Uploads
      BY <2>2
    <3>2. ops = DeleteOps(u, seen) \o AddOps(u)
      BY <2>12
    <3> HIDE DEF u
    <3>3. \A p : UploadOn(u, seen, sources, ops, p)
      BY <3>1, <3>2, UploadMeans
    <3> QED
      BY <2>23, <3>3 DEF UploadOn
  <2>13. \A i \in DOMAIN u.adds : Get(made, u.base \o u.adds[i].path) = u.adds[i].file
    <3>1. ASSUME NEW i \in DOMAIN u.adds
          PROVE  Get(made, u.base \o u.adds[i].path) = u.adds[i].file
      <4> DEFINE p == u.base \o u.adds[i].path
      <4>1. p \in PathsOf
        BY <2>10 DEF InFolder
      <4>2. Meaning(sources, ops, p) = u.adds[i].file
        BY <2>19
      <4> QED
        BY <2>11, <4>1, <4>2
    <3> QED
      BY <3>1
  <2>14. \A p \in doomed : Get(made, p) = Missing
    BY <2>4, <2>10, <2>11, <2>19
  <2>15. \A p \in Keys(met) \union Keys(made) : p \notin doomed \union InFolder(u) => Get(made, p) = Get(met, p)
    BY <2>4, <2>9, <2>11, <2>19
  <2>16. ASSUME plan.bound
         PROVE  Doomed(u, made) = {}
    <3>1. seen = met
      <4>1. plan.upload.parent = "commit"
        BY <1>1, <2>16 DEF OpsInv, PlanInv
      <4>2. plan.given = id
        BY <2>1, <4>1 DEF SameParent
      <4> QED
        BY <2>3, <2>16, <4>2 DEF Saw, met
    <3>2. ASSUME NEW p \in Doomed(u, made)
          PROVE  FALSE
      <4>1. p \in Keys(made) /\ p \notin InFolder(u) /\ \E q \in u.doomed : p = u.base \o q
        BY <3>2 DEF Doomed
      <4>2. p \notin doomed
        BY <2>9, <2>14, <4>1
      <4>3. Get(made, p) = Get(met, p) /\ Get(made, p) # Missing
        BY <2>9, <2>15, <4>1, <4>2
      <4>4. p \in Keys(met)
        BY <2>9, <4>3
      <4>5. p \in Doomed(u, met)
        BY <4>1, <4>4 DEF Doomed
      <4> QED
        BY <2>4, <3>1, <4>2, <4>5
    <3> QED
      BY <3>2
  <2>17. HeadFiles' = made
    BY <2>1 DEF HeadFiles, made
  <2>18. sent'.upload = u /\ sent'.bound = plan.bound /\ sent'.doomed = doomed /\ SnapshotOf(sent'.met) = met
    BY <2>1 DEF met, HeadFiles
  <2> HIDE DEF doomed, u
  <2>21. FolderUploadsMirror'
    BY <2>13, <2>14, <2>15, <2>16, <2>17, <2>18 DEF FolderUploadsMirror
  <2>20. IsVersion(head')
    BY <2>1, <2>7
  <2>22. SentInv'
    BY <2>1, <2>2 DEF SentInv
  <2> QED
    BY <1>2, <2>20, <2>21, <2>22, <2>24 DEF OpsInv
<1> HIDE DEF Accepted
<1> QED
  BY <1>3, <1>4

\* No other step matters to it,
LEMMA OpsNext == OpsInv /\ [Next]_vars => OpsInv'
<1> SUFFICES ASSUME OpsInv, [Next]_vars PROVE OpsInv'
  OBVIOUS
<1>1. ASSUME NEW ops \in OpLists, CreateCommit(ops) PROVE OpsInv'
  BY <1>1, CommitKeeps
<1>2. ASSUME NEW u \in Uploads, PlanFolder(u) PROVE OpsInv'
  BY <1>2, PlanKeeps
<1>3. CASE SendFolder
  BY <1>3, SendKeeps
<1>4. CASE UNCHANGED vars
  BY <1>4 DEF vars, OpsInv, TagInv, PlanInv, Saw, SentInv, FolderUploadsMirror, HeadFiles
<1>5. CASE CreateTag \/ DeleteTag \/ ResetRef
  BY <1>5, RefsKeep
<1> QED
  BY <1>1, <1>2, <1>3, <1>4, <1>5 DEF Next

\* so that it always holds.
LEMMA OpsInvHolds == Spec => []OpsInv
  BY OpsInit, OpsNext, PTL DEF Spec

\* Each list of operations that a commit accepts does what it says, for any
\* files, names, paths and lists, with copies from the head or from another
\* revision (create_commit, _apply_delete, _apply_copy).
THEOREM OperationsAreMeant == Spec => []CommitsMeanTheirOperations
<1>1. OpsInv => CommitsMeanTheirOperations
  BY CommitsMean DEF OpsInv
<1> QED
  BY <1>1, OpsInvHolds, PTL

\* A folder upload puts the folder in place, deletes what was selected and
\* leaves the rest as it met it; and if its parent_commit was the identifier
\* of the head it looked at, nothing selected is left (upload_folder).
THEOREM FoldersAreMirrored == Spec => []FolderUploadsMirror
<1>1. OpsInv => FolderUploadsMirror
  BY DEF OpsInv
<1> QED
  BY <1>1, OpsInvHolds, PTL

-----------------------------------------------------------------------------
(* Identifiers *)

\* The identifier of a tree depends on those of the trees in it only.
LEMMA GitOidAlike ==
  ASSUME NEW a, NEW b, DOMAIN a = DOMAIN b,
         \A i, j \in DOMAIN a : a[i].name = a[j].name => a[i] = a[j] /\ b[i] = b[j],
         \A i \in DOMAIN a : /\ b[i].name = a[i].name /\ b[i].kind = a[i].kind
                             /\ a[i].kind = "tree" => b[i].object.git = a[i].object.git
                             /\ a[i].kind # "tree" => b[i].object = a[i].object
  PROVE  GitOid(a) = GitOid(b)
<1> DEFINE kinds(s) == {[name |-> e.name, kind |-> e.kind] : e \in ToSet(s)}
           present(s) == Only(GitSorted, kinds(s))
           entry(s, g) == CHOOSE e \in ToSet(s) : e.name = g.name /\ e.kind = g.kind
           oid(e) == IF e.kind = "tree" THEN e.object.git ELSE e.object
           line(s, g) == <<g.name, g.kind, oid(entry(s, g))>>
<1>1. \A s : GitOid(s) = [i \in DOMAIN present(s) |-> line(s, present(s)[i])]
  BY DEF GitOid
<1>2. kinds(a) = kinds(b)
  BY DEF ToSet
<1>3. ASSUME NEW g \in kinds(a)
      PROVE  line(a, g) = line(b, g)
  <2>1. PICK i \in DOMAIN a : g = [name |-> a[i].name, kind |-> a[i].kind]
    BY DEF ToSet
  <2>2. g.name = a[i].name /\ g.kind = a[i].kind
    BY <2>1
  <2>3. entry(a, g) = a[i]
    BY <2>2 DEF ToSet
  <2>4. entry(b, g) = b[i]
    BY <2>2 DEF ToSet
  <2>5. oid(a[i]) = oid(b[i])
    OBVIOUS
  <2> HIDE DEF oid, entry
  <2> QED
    BY <2>3, <2>4, <2>5
<1> HIDE DEF kinds, line
<1>4. \A i \in DOMAIN present(a) : present(a)[i] \in kinds(a)
  <2>1. ToSet(present(a)) \subseteq kinds(a)
    BY OnlyIs, NamesAssumption
  <2> QED
    BY <2>1 DEF ToSet
<1>5. present(b) = present(a)
  BY <1>2
<1> HIDE DEF present
<1> QED
  BY <1>1, <1>3, <1>4, <1>5

OidFor(oid, t, d) ==
  LET entries == Found(t, d).object.entries
  IN  GitOid([i \in DOMAIN entries |->
          IF entries[i].kind = "tree"
          THEN [entries[i] EXCEPT !.object = [git |-> oid[Append(d, entries[i].name)]]]
          ELSE entries[i]])

IsOidOf(oid, t) == oid = [d \in Dirs(t) |-> OidFor(oid, t, d)]

\* The identifier found for a directory is the one stored in its tree if the
\* same holds of the directories in it.
LEMMA OidIs ==
  ASSUME NEW s, NEW node, Plain(s), IsTreeOf(node, s), NEW d \in Dirs(node[<< >>]), NEW oid,
         \A e \in Dirs(node[<< >>]) : Len(e) = Len(d) + 1 => oid[e] = node[e].git
  PROVE  OidFor(oid, node[<< >>], d) = node[d].git
<1> DEFINE a == EntriesFor(node, s, d)
           told(e) == IF e.kind = "tree"
                      THEN [e EXCEPT !.object = [git |-> oid[Append(d, e.name)]]]
                      ELSE e
           b == [i \in DOMAIN a |-> told(a[i])]
<1>1. node[d].git = GitOid(a)
  <2>1. d \in Places
    BY DirsAre
  <2>2. node[d] = TreeFor(node, s, d)
    BY <2>1 DEF IsTreeOf
  <2> QED
    BY <2>2 DEF TreeFor
<1>2. OidFor(oid, node[<< >>], d) = GitOid(b)
  <2>1. Found(node[<< >>], d).object.entries = a
    BY DirsAre
  <2> QED
    BY <2>1 DEF OidFor
<1>3. \A i \in DOMAIN a : a[i] = EntryFor(node, s, d, a[i].name)
  BY EntriesAre
<1>4. ASSUME NEW i \in DOMAIN a
      PROVE  /\ b[i].name = a[i].name /\ b[i].kind = a[i].kind
             /\ a[i].kind = "tree" => b[i].object.git = a[i].object.git
             /\ a[i].kind # "tree" => b[i].object = a[i].object
  <2> DEFINE n == a[i].name
             q == Append(d, n)
  <2>1. b[i] = told(a[i])
    OBVIOUS
  <2>2. /\ a[i] = EntryFor(node, s, d, n) /\ Len(q) = Len(d) + 1
        /\ q \in Keys(s) => a[i].kind = "file"
        /\ q \notin Keys(s) => a[i].kind = "tree" /\ q \in Dirs(node[<< >>])
    BY EntriesAre
  <2> HIDE DEF a, b
  <2>3. CASE q \in Keys(s)
    BY <2>1, <2>2, <2>3
  <2>4. CASE q \notin Keys(s)
    <3>1. a[i] = [name |-> n, kind |-> "tree", object |-> node[q]]
      BY <2>2, <2>4 DEF EntryFor
    <3>2. oid[q] = node[q].git
      BY <2>2, <2>4
    <3> HIDE DEF q, n
    <3>3. b[i] = [name |-> n, kind |-> "tree", object |-> [git |-> oid[q]]]
      BY <2>1, <3>1 DEF q, n
    <3> QED
      BY <3>1, <3>2, <3>3
  <2> QED
    BY <2>3, <2>4
<1>5. \A i, j \in DOMAIN a : a[i].name = a[j].name => a[i] = a[j] /\ b[i] = b[j]
  <2>1. DOMAIN b = DOMAIN a /\ \A i \in DOMAIN a : b[i] = told(a[i])
    OBVIOUS
  <2> HIDE DEF a, b, told
  <2> QED
    BY <1>3, <2>1
<1>6. DOMAIN b = DOMAIN a
  OBVIOUS
<1> HIDE DEF a, b
<1>7. GitOid(a) = GitOid(b)
  BY <1>4, <1>5, <1>6, GitOidAlike
<1> QED
  BY <1>1, <1>2, <1>7

\* The identifier that is computed for a version whose tree has none recorded
\* is the one that was recorded when the tree was written.
LEMMA OidIsRecorded ==
  ASSUME NEW s \in Snaps, Plain(s)
  PROVE  PublicOid(StageTree(s)) = StageTree(s).git
<1>1. PICK node : IsTreeOf(node, s) /\ StageTree(s) = node[<< >>]
  BY StagedTree DEF Plain
<1> DEFINE t == node[<< >>]
           kept == [d \in Dirs(t) |-> node[d].git]
           oid == CHOOSE h : IsOidOf(h, t)
<1>2. IsOidOf(kept, t)
  <2>1. \A d \in Dirs(t) : kept[d] = node[d].git
    OBVIOUS
  <2>2. kept = [d \in Dirs(t) |-> kept[d]]
    OBVIOUS
  <2> HIDE DEF kept
  <2>3. \A d \in Dirs(t) : OidFor(kept, t, d) = kept[d]
    BY <1>1, <2>1, OidIs
  <2> HIDE DEF t
  <2> QED
    BY <2>2, <2>3 DEF IsOidOf
<1>3. IsOidOf(oid, t)
  BY <1>2
<1>4. PublicOid(t) = oid[<< >>]
  BY DEF PublicOid, IsOidOf, OidFor
<1> HIDE DEF oid
<1>5. \A d \in Dirs(t) : oid[d] = OidFor(oid, t, d)
  BY <1>3 DEF IsOidOf
<1>6. PICK m \in Nat : m = MaxDepth
  BY NamesAssumption
<1>7. \A d \in Dirs(t) : Len(d) \in 0..m
  BY <1>1, <1>6, DirsAre, PlaceIs
<1> DEFINE S == {k \in 0..m + 1 : \A d \in Dirs(t) : Len(d) > m - k => oid[d] = node[d].git}
<1>8. 0 \in S
  BY <1>7
<1>9. ASSUME NEW k \in 1..m + 1, k - 1 \in S
      PROVE  k \in S
  <2>1. ASSUME NEW d \in Dirs(t), Len(d) > m - k
        PROVE  oid[d] = node[d].git
    <3>1. ASSUME NEW e \in Dirs(t), Len(e) = Len(d) + 1
          PROVE  oid[e] = node[e].git
      <4>1. Len(e) > m - (k - 1)
        BY <1>7, <2>1, <3>1
      <4> QED
        BY <1>9, <4>1
    <3>2. OidFor(oid, t, d) = node[d].git
      BY <1>1, <3>1, OidIs
    <3> QED
      BY <1>5, <3>2
  <2> QED
    BY <2>1
<1>10. m + 1 \in S
  <2>1. m + 1 \in Nat /\ m + 1 \in 0..m + 1
    OBVIOUS
  <2> HIDE DEF S
  <2>2. 0..m + 1 \subseteq S
    BY <1>8, <1>9, <2>1, UpTo
  <2> QED
    BY <2>1, <2>2
<1>11. << >> \in Dirs(t) /\ Len(<< >>) > m - (m + 1)
  <2>1. IsDir(s, << >>)
    BY DEF IsDir
  <2> QED
    BY <1>1, <2>1, DirsAre, RootPlace
<1>12. oid[<< >>] = t.git
  BY <1>10, <1>11
<1> HIDE DEF t
<1> QED
  BY <1>1, <1>4, <1>12 DEF t

\* Each order of the files of a snapshot is a snapshot of the same files.
LEMMA OrdersAre ==
  ASSUME NEW s \in Snaps, NEW order \in SetToSeqs(ToSet(s))
  PROVE  order \in Snaps /\ ToSet(order) = ToSet(s)
<1> DEFINE T == ToSet(s)
           n == Cardinality(T)
<1>1. s \in Seq(Entries) /\ T \subseteq Entries
  BY SnapIs
<1>2. IsFiniteSet(T) /\ n \in Nat
  <2>1. PICK m \in Nat : m = Len(s) /\ DOMAIN s = 1..m
    BY <1>1
  <2>2. IsFiniteSet(1..m)
    BY FS_Interval
  <2>3. s \in Surjection(1..m, T)
    <3>1. s \in [1..m -> T]
      BY <1>1, <2>1 DEF ToSet
    <3> QED
      BY <2>1, <3>1, Fun_SurjectionProperties DEF Surjection, ToSet
  <2>4. IsFiniteSet(T)
    BY <2>2, <2>3, FS_Surjection
  <2> QED
    BY <2>4, FS_CardinalityType
<1>3. order \in [1..n -> T] /\ \A i, j \in 1..n : i # j => order[i] # order[j]
  BY DEF SetToSeqs
<1> HIDE DEF T, n
<1>4. order \in Injection(1..n, T)
  BY <1>3 DEF Injection, IsInjective
<1>5. Cardinality(1..n) = n
  BY <1>2, FS_Interval
<1>6. order \in Surjection(1..n, T)
  BY <1>2, <1>4, <1>5, FS_Injection DEF n
<1>7. ToSet(order) = T
  <2>1. \A e \in T : \E i \in 1..n : order[i] = e
    BY <1>6 DEF Surjection
  <2> QED
    BY <1>3, <2>1 DEF ToSet
<1>8. order \in Seq(Entries)
  BY <1>1, <1>2, <1>3
<1> QED
  BY <1>7, <1>8 DEF Snaps, T

\* Each order of the files of a version is staged to the same tree.
LEMMA SameTree == IsVersion(head) => SameFilesSameTree
<1> SUFFICES ASSUME IsVersion(head) PROVE SameFilesSameTree
  OBVIOUS
<1> DEFINE s == HeadFiles
<1>1. s \in Snaps /\ Fits(s) /\ IsLegal(s) /\ StageTree(s) = head
  BY VersionIs DEF HeadFiles
<1> HIDE DEF s
<1>2. ASSUME NEW order \in SetToSeqs(ToSet(s))
      PROVE  StageTree(order) = head
  <2>1. order \in Snaps /\ SameFiles(order, s)
    BY <1>1, OrdersAre, SameSets
  <2>2. Keys(s) \subseteq PathsOf
    BY <1>1, SnapIs DEF PathsOf
  <2> QED
    BY <1>1, <2>1, <2>2, StagedAlike
<1>3. head.git = PublicOid(head)
  <2>1. Plain(s)
    BY <1>1, LegalIsPlain
  <2> QED
    BY <1>1, <2>1, OidIsRecorded
<1> QED
  BY <1>1, <1>2, <1>3 DEF SameFilesSameTree, s

\* The same files are one tree with one Git identifier, whatever the order in
\* which operations have listed them, and read back they are the same files
\* (_stage_tree_objects, _snapshot_for_tree, _public_tree_oid).
THEOREM FilesHaveOneTree == Spec => []SameFilesSameTree
<1>1. OpsInv => SameFilesSameTree
  BY SameTree DEF OpsInv
<1> QED
  BY <1>1, OpsInvHolds, PTL

-----------------------------------------------------------------------------
(* What is kept of a sequence *)

\* Whatever goes through the prefixes as Only() does ends with what it keeps.
LEMMA OnlyRun ==
  ASSUME NEW V, NEW s \in Seq(V), NEW T, NEW g, g[0] = << >>,
         \A k \in 1..Len(s) : g[k] = Kept(g[k - 1], s[k], T)
  PROVE  Only(s, T) = g[Len(s)]
<1> DEFINE n == Len(s)
           A == Seq(V)
<1>1. n \in Nat /\ \A k \in 1..n : s[k] \in V
  OBVIOUS
<1>2. << >> \in A /\ \A a \in A : \A k \in 1..n : Kept(a, s[k], T) \in A
  BY <1>1 DEF Kept
<1> HIDE DEF A
<1>3. PICK f : OnlyLoopIs(f, s, T, n, A)
  BY <1>1, <1>2, OnlyLoop
<1> DEFINE S == {k \in 0..n : f[k] = g[k]}
<1>4. 0 \in S
  BY <1>1, <1>3 DEF OnlyLoopIs
<1>5. ASSUME NEW k \in 1..n, k - 1 \in S
      PROVE  k \in S
  <2>1. f[k] = Kept(f[k - 1], s[k], T) /\ g[k] = Kept(g[k - 1], s[k], T)
    BY <1>3 DEF OnlyLoopIs
  <2> QED
    BY <1>5, <2>1
<1>6. n \in S
  <2> HIDE DEF S
  <2>1. 0..n \subseteq S
    BY <1>1, <1>4, <1>5, UpTo
  <2>2. n \in 0..n
    BY <1>1
  <2> QED
    BY <2>1, <2>2
<1> QED
  BY <1>3, <1>6 DEF OnlyLoopIs

\* How Only() goes through the prefixes.
OnlyPrefixes(f, s, T, V) ==
  /\ f \in [0..Len(s) -> Seq(V)]
  /\ f[0] = << >>
  /\ \A k \in 1..Len(s) : f[k] = Kept(f[k - 1], s[k], T)
  /\ f[Len(s)] = Only(s, T)

LEMMA OnlyHasPrefixes ==
  ASSUME NEW V, NEW s \in Seq(V), NEW T
  PROVE  \E f : OnlyPrefixes(f, s, T, V)
<1> DEFINE n == Len(s)
           A == Seq(V)
<1>1. n \in Nat /\ \A k \in 1..n : s[k] \in V
  OBVIOUS
<1>2. << >> \in A /\ \A a \in A : \A k \in 1..n : Kept(a, s[k], T) \in A
  BY <1>1 DEF Kept
<1> HIDE DEF A
<1>3. PICK f : OnlyLoopIs(f, s, T, n, A)
  BY <1>1, <1>2, OnlyLoop
<1>4. OnlyPrefixes(f, s, T, V)
  BY <1>3 DEF OnlyLoopIs, OnlyPrefixes, A
<1> QED
  BY <1>4

\* Nothing is kept if nothing is asked for.
LEMMA OnlyNone ==
  ASSUME NEW V, NEW s \in Seq(V), NEW T, ToSet(s) \intersect T = {}
  PROVE  Only(s, T) = << >>
<1> DEFINE g == [k \in 0..Len(s) |-> << >>]
<1>1. Len(s) \in Nat /\ g[0] = << >>
  OBVIOUS
<1>2. ASSUME NEW k \in 1..Len(s)
      PROVE  g[k] = Kept(g[k - 1], s[k], T)
  <2>1. s[k] \in ToSet(s)
    BY DEF ToSet
  <2>2. g[k] = << >> /\ g[k - 1] = << >>
    OBVIOUS
  <2> QED
    BY <2>1, <2>2 DEF Kept
<1>3. g[Len(s)] = << >>
  BY <1>1
<1> HIDE DEF g
<1> QED
  BY <1>1, <1>2, <1>3, OnlyRun

\* All is kept if all is asked for.
LEMMA OnlyOne ==
  ASSUME NEW v, NEW T, v \in T
  PROVE  Only(<<v>>, T) = <<v>>
<1> DEFINE g == [k \in 0..1 |-> IF k = 0 THEN << >> ELSE <<v>>]
           s == <<v>>
<1>1. s \in Seq({v}) /\ Len(s) = 1 /\ s[1] = v /\ g[0] = << >> /\ g[1] = <<v>>
  OBVIOUS
<1>2. Append(<< >>, v) = <<v>>
  OBVIOUS
<1> HIDE DEF g, s
<1>3. ASSUME NEW k \in 1..Len(s)
      PROVE  g[k] = Kept(g[k - 1], s[k], T)
  <2>1. k = 1 /\ k - 1 = 0
    BY <1>1
  <2>2. Kept(<< >>, v, T) = <<v>>
    BY <1>2 DEF Kept
  <2> QED
    BY <1>1, <2>1, <2>2
<1>4. Only(s, T) = g[Len(s)]
  BY <1>1, <1>3, OnlyRun
<1> QED
  BY <1>1, <1>4 DEF s

\* An element is put at the end of what comes before it.
LEMMA AppendLast ==
  ASSUME NEW V, NEW a \in Seq(V), NEW b \in Seq(V), NEW v \in V
  PROVE  a \o Append(b, v) = Append(a \o b, v)
<1>1. <<v>> \in Seq(V) /\ Append(b, v) = b \o <<v>> /\ a \o b \in Seq(V)
  BY AppendIsConcat
<1>2. Append(a \o b, v) = (a \o b) \o <<v>>
  BY <1>1, AppendIsConcat
<1> QED
  BY <1>1, <1>2, ConcatAssociative

\* What is kept of two sequences, one after the other.
LEMMA OnlyJoined ==
  ASSUME NEW V, NEW s \in Seq(V), NEW t \in Seq(V), NEW T
  PROVE  Only(s \o t, T) = Only(s, T) \o Only(t, T)
<1> DEFINE n == Len(s)
           m == Len(t)
           r == s \o t
<1>1. /\ n \in Nat /\ m \in Nat /\ r \in Seq(V) /\ Len(r) = n + m
      /\ \A k \in 1..n : r[k] = s[k]
      /\ \A k \in 1..m : r[n + k] = t[k]
  OBVIOUS
<1>2. PICK f : OnlyPrefixes(f, s, T, V)
  BY OnlyHasPrefixes
<1>3. PICK h : OnlyPrefixes(h, t, T, V)
  BY OnlyHasPrefixes
<1> HIDE DEF r
<1>4. /\ f \in [0..n -> Seq(V)] /\ f[0] = << >> /\ f[n] = Only(s, T)
      /\ \A k \in 1..n : f[k] = Kept(f[k - 1], s[k], T)
  BY <1>2 DEF OnlyPrefixes
<1>5. /\ h \in [0..m -> Seq(V)] /\ h[0] = << >> /\ h[m] = Only(t, T)
      /\ \A k \in 1..m : h[k] = Kept(h[k - 1], t[k], T)
  BY <1>3 DEF OnlyPrefixes
<1>6. \A k \in 1..n : s[k] \in V
  OBVIOUS
<1>7. \A k \in 1..m : t[k] \in V
  OBVIOUS
<1> HIDE DEF n, m
<1> DEFINE g == [k \in 0..n + m |-> IF k <= n THEN f[k] ELSE f[n] \o h[k - n]]
<1>8. /\ \A k \in 0..n : g[k] = f[k]
      /\ \A k \in 1..m : g[n + k] = f[n] \o h[k]
  <2>1. \A k \in 0..n : k \in 0..n + m /\ k <= n
    BY <1>1
  <2>2. \A k \in 1..m : n + k \in 0..n + m /\ ~(n + k <= n) /\ (n + k) - n = k
    BY <1>1
  <2>3. \A k \in 0..n + m : g[k] = IF k <= n THEN f[k] ELSE f[n] \o h[k - n]
    OBVIOUS
  <2> HIDE DEF g
  <2> QED
    BY <2>1, <2>2, <2>3
<1> HIDE DEF g
<1>9. f[n] \in Seq(V) /\ f[n] \o << >> = f[n]
  <2>1. n \in 0..n
    BY <1>1
  <2>2. f[n] \in Seq(V)
    BY <1>4, <2>1
  <2> QED
    BY <2>2, ConcatEmptySeq
<1>10. g[n] = f[n] \o h[0]
  <2>1. n \in 0..n
    BY <1>1
  <2> QED
    BY <1>5, <1>8, <1>9, <2>1
<1>11. ASSUME NEW k \in 1..Len(r)
       PROVE  g[k] = Kept(g[k - 1], r[k], T)
  <2>1. CASE k \in 1..n
    <3>1. k \in 0..n /\ k - 1 \in 0..n
      BY <1>1, <2>1
    <3> QED
      BY <1>1, <1>4, <1>8, <2>1, <3>1
  <2>2. CASE k \notin 1..n
    <3> DEFINE j == k - n
    <3>1. j \in 1..m /\ k = n + j /\ k - 1 = n + (j - 1) /\ (j - 1 = 0 \/ j - 1 \in 1..m) /\ j - 1 \in 0..m
      BY <1>1, <2>2
    <3> HIDE DEF j
    <3>2. g[k - 1] = f[n] \o h[j - 1]
      <4>1. CASE j - 1 = 0
        <5>1. k - 1 = n
          BY <1>1, <3>1, <4>1
        <5> QED
          BY <1>10, <4>1, <5>1
      <4>2. CASE j - 1 \in 1..m
        BY <1>8, <3>1, <4>2
      <4> QED
        BY <3>1, <4>1, <4>2
    <3>3. g[k] = f[n] \o h[j] /\ h[j] = Kept(h[j - 1], t[j], T) /\ r[k] = t[j] /\ t[j] \in V
      BY <1>1, <1>5, <1>7, <1>8, <3>1
    <3>4. f[n] \o Append(h[j - 1], t[j]) = Append(f[n] \o h[j - 1], t[j])
      <4>1. f[n] \in Seq(V) /\ h[j - 1] \in Seq(V) /\ t[j] \in V
        BY <1>5, <1>9, <3>1, <3>3
      <4> DEFINE a == f[n]
                 b == h[j - 1]
                 v == t[j]
      <4>2. a \in Seq(V) /\ b \in Seq(V) /\ v \in V
        BY <4>1
      <4> HIDE DEF a, b, v
      <4>3. a \o Append(b, v) = Append(a \o b, v)
        BY <4>2, AppendLast
      <4> QED
        BY <4>3 DEF a, b, v
    <3> QED
      BY <3>2, <3>3, <3>4 DEF Kept
  <2> QED
    BY <2>1, <2>2
<1>12. g[0] = << >>
  <2>1. 0 \in 0..n
    BY <1>1
  <2> QED
    BY <1>4, <1>8, <2>1
<1>13. Only(r, T) = g[Len(r)]
  BY <1>1, <1>11, <1>12, OnlyRun
<1>14. g[n + m] = f[n] \o h[m]
  <2>1. CASE m = 0
    <3>1. n + m = n
      BY <1>1, <2>1
    <3> QED
      BY <1>10, <2>1, <3>1
  <2>2. CASE m # 0
    <3>1. m \in 1..m
      BY <1>1, <2>2
    <3> QED
      BY <1>8, <3>1
  <2> QED
    BY <2>1, <2>2
<1> QED
  BY <1>1, <1>4, <1>5, <1>13, <1>14 DEF r

\* What is kept of a flattened sequence is what is kept of its parts.
LEMMA OnlyFlat ==
  ASSUME NEW V, NEW s \in Seq(Seq(V)), NEW T
  PROVE  /\ [i \in DOMAIN s |-> Only(s[i], T)] \in Seq(Seq(V))
         /\ Only(FlattenSeq(s), T) = FlattenSeq([i \in DOMAIN s |-> Only(s[i], T)])
<1>1. PICK n \in Nat : n = Len(s)
  OBVIOUS
<1>2. DOMAIN s = 1..n /\ \A k \in 1..n : s[k] \in Seq(V)
  BY <1>1
<1>3. PICK f : IsFlat(f, V, s) /\ FlattenSeq(s) = f[Len(s)]
  BY FlatOfPrefixes
<1>4. /\ f \in [0..n -> Seq(V)] /\ f[0] = << >> /\ FlattenSeq(s) = f[n]
      /\ \A k \in 1..n : f[k] = f[k - 1] \o s[k]
  BY <1>1, <1>3 DEF IsFlat
<1> DEFINE r == [i \in 1..n |-> Only(s[i], T)]
           g == [k \in 0..n |-> Only(f[k], T)]
<1>5. \A i \in 1..n : Only(s[i], T) \in Seq(V)
  BY <1>2, OnlyIs
<1>6. r \in Seq(Seq(V)) /\ Len(r) = n /\ \A i \in 1..n : r[i] = Only(s[i], T)
  <2>1. r \in [1..n -> Seq(V)]
    BY <1>5
  <2> QED
    BY <2>1
<1>7. g \in [0..n -> Seq(V)] /\ \A k \in 0..n : g[k] = Only(f[k], T)
  <2>1. \A k \in 0..n : Only(f[k], T) \in Seq(V)
    BY <1>4, OnlyIs
  <2> QED
    BY <2>1
<1> HIDE DEF r, g
<1>8. g[0] = << >>
  <2>1. Only(<< >>, T) = << >>
    <3>1. << >> \in Seq(V) /\ ToSet(<< >>) = {}
      BY DEF ToSet
    <3> QED
      BY <3>1, OnlyNone
  <2> QED
    BY <1>4, <1>7, <2>1
<1>9. ASSUME NEW k \in 1..n
      PROVE  g[k] = g[k - 1] \o r[k]
  <2>1. k \in 0..n /\ k - 1 \in 0..n
    OBVIOUS
  <2> DEFINE a == f[k - 1]
             b == s[k]
  <2>2. a \in Seq(V) /\ b \in Seq(V) /\ f[k] = a \o b
    BY <1>2, <1>4, <2>1
  <2>3. g[k] = Only(f[k], T) /\ g[k - 1] = Only(a, T) /\ r[k] = Only(b, T)
    BY <1>6, <1>7, <2>1
  <2> HIDE DEF a, b
  <2>4. Only(a \o b, T) = Only(a, T) \o Only(b, T)
    BY <2>2, OnlyJoined
  <2> QED
    BY <2>2, <2>3, <2>4
<1>10. IsFlat(g, V, r)
  BY <1>6, <1>7, <1>8, <1>9 DEF IsFlat
<1>11. FlattenSeq(r) = g[n]
  BY <1>6, <1>10, FlatIs
<1>12. n \in 0..n
  OBVIOUS
<1>13. r = [i \in DOMAIN s |-> Only(s[i], T)]
  BY <1>2 DEF r
<1> QED
  BY <1>4, <1>6, <1>7, <1>11, <1>12, <1>13

\* Of parts that are empty but for one, that one is left.
LEMMA FlatOne ==
  ASSUME NEW V, NEW s \in Seq(Seq(V)), NEW k \in 1..Len(s),
         \A i \in 1..Len(s) : i # k => s[i] = << >>
  PROVE  FlattenSeq(s) = s[k]
<1>1. PICK n \in Nat : n = Len(s)
  OBVIOUS
<1>2. k \in 1..n /\ s[k] \in Seq(V) /\ << >> \in Seq(V)
  BY <1>1
<1> DEFINE g == [i \in 0..n |-> IF i < k THEN << >> ELSE s[k]]
<1>3. /\ g \in [0..n -> Seq(V)] /\ g[0] = << >> /\ g[n] = s[k]
      /\ \A i \in 0..n : g[i] = IF i < k THEN << >> ELSE s[k]
  BY <1>2
<1> HIDE DEF g
<1>4. ASSUME NEW i \in 1..n
      PROVE  g[i] = g[i - 1] \o s[i]
  <2>1. i \in 0..n /\ i - 1 \in 0..n
    OBVIOUS
  <2>2. CASE i < k
    <3>1. g[i] = << >> /\ g[i - 1] = << >> /\ s[i] = << >>
      BY <1>1, <1>2, <1>3, <2>1, <2>2
    <3> QED
      BY <1>2, <3>1, ConcatEmptySeq
  <2>3. CASE i = k
    <3>1. g[i] = s[k] /\ g[i - 1] = << >>
      BY <1>2, <1>3, <2>1, <2>3
    <3> QED
      BY <1>2, <2>3, <3>1, ConcatEmptySeq
  <2>4. CASE i > k
    <3>1. g[i] = s[k] /\ g[i - 1] = s[k] /\ s[i] = << >>
      BY <1>1, <1>2, <1>3, <2>1, <2>4
    <3> QED
      BY <1>2, <3>1, ConcatEmptySeq
  <2>5. i < k \/ i = k \/ i > k
    BY <1>2
  <2> HIDE DEF g
  <2> QED
    BY <2>2, <2>3, <2>4, <2>5
<1>5. IsFlat(g, V, s)
  BY <1>1, <1>3, <1>4 DEF IsFlat
<1> QED
  BY <1>1, <1>3, <1>5, FlatIs

\* Entries of which no two have the same path.
Distinct(s) == \A i, j \in DOMAIN s : s[i].path = s[j].path => i = j

Apart(s, t) == \A d \in ToSet(s), e \in ToSet(t) : d.path # e.path

\* They stay so in a concatenation of sequences that share no path,
LEMMA JoinedDistinct ==
  ASSUME NEW V, NEW s \in Seq(V), NEW t \in Seq(V), Distinct(s), Distinct(t), Apart(s, t)
  PROVE  Distinct(s \o t)
<1> DEFINE r == s \o t
<1>1. PICK n \in Nat : n = Len(s)
  OBVIOUS
<1>2. PICK m \in Nat : m = Len(t)
  OBVIOUS
<1>3. /\ DOMAIN r = 1..n + m /\ DOMAIN s = 1..n /\ DOMAIN t = 1..m
      /\ \A i \in 1..n : r[i] = s[i]
      /\ \A i \in 1..m : r[n + i] = t[i]
  BY <1>1, <1>2
<1> HIDE DEF r
<1>4. \A i \in 1..n + m : i \in 1..n \/ (i - n \in 1..m /\ r[i] = t[i - n])
  <2>1. ASSUME NEW i \in 1..n + m, i \notin 1..n
        PROVE  i - n \in 1..m /\ r[i] = t[i - n]
    <3>1. i - n \in 1..m /\ n + (i - n) = i
      BY <2>1
    <3> QED
      BY <1>3, <3>1
  <2> QED
    BY <2>1
<1>5. \A i \in 1..n, j \in 1..m : s[i].path # t[j].path
  BY <1>3 DEF Apart, ToSet
<1>6. ASSUME NEW i \in 1..n + m, NEW j \in 1..n + m, r[i].path = r[j].path
      PROVE  i = j
  <2>1. CASE i \in 1..n /\ j \in 1..n
    BY <1>3, <1>6, <2>1 DEF Distinct
  <2>2. CASE i \in 1..n /\ j \notin 1..n
    <3>1. r[i] = s[i] /\ j - n \in 1..m /\ r[j] = t[j - n]
      BY <1>3, <1>4, <2>2
    <3> QED
      BY <1>5, <1>6, <2>2, <3>1
  <2>3. CASE i \notin 1..n /\ j \in 1..n
    <3>1. r[j] = s[j] /\ i - n \in 1..m /\ r[i] = t[i - n]
      BY <1>3, <1>4, <2>3
    <3> QED
      BY <1>5, <1>6, <2>3, <3>1
  <2>4. CASE i \notin 1..n /\ j \notin 1..n
    <3>1. i - n \in 1..m /\ j - n \in 1..m /\ t[i - n].path = t[j - n].path
      BY <1>4, <1>6, <2>4
    <3>2. i - n = j - n
      BY <1>3, <3>1 DEF Distinct
    <3> QED
      BY <3>2
  <2> QED
    BY <2>1, <2>2, <2>3, <2>4
<1> QED
  BY <1>3, <1>6 DEF Distinct, r

\* of two or of many.
LEMMA FlatDistinct ==
  ASSUME NEW V, NEW s \in Seq(Seq(V)), \A i \in 1..Len(s) : Distinct(s[i]),
         \A i, j \in 1..Len(s) : i # j => Apart(s[i], s[j])
  PROVE  Distinct(FlattenSeq(s))
<1>1. PICK n \in Nat : n = Len(s)
  OBVIOUS
<1>2. \A k \in 1..n : s[k] \in Seq(V)
  BY <1>1
<1>3. PICK f : IsFlat(f, V, s) /\ FlattenSeq(s) = f[Len(s)]
  BY FlatOfPrefixes
<1>4. /\ f \in [0..n -> Seq(V)] /\ f[0] = << >> /\ FlattenSeq(s) = f[n]
      /\ \A k \in 1..n : f[k] = f[k - 1] \o s[k]
  BY <1>1, <1>3 DEF IsFlat
<1> DEFINE S == {k \in 0..n : /\ Distinct(f[k])
                              /\ \A e \in ToSet(f[k]) : \E i \in 1..k : e \in ToSet(s[i])}
<1>5. 0 \in S
  <2>1. Distinct(<< >>) /\ ToSet(<< >>) = {}
    BY DEF Distinct, ToSet
  <2> QED
    BY <1>4, <2>1
<1>6. ASSUME NEW k \in 1..n, k - 1 \in S
      PROVE  k \in S
  <2> DEFINE a == f[k - 1]
             b == s[k]
  <2>1. k - 1 \in 0..n /\ k \in 0..n
    OBVIOUS
  <2>2. a \in Seq(V) /\ b \in Seq(V) /\ f[k] = a \o b
    BY <1>2, <1>4, <2>1
  <2>3. Distinct(a) /\ \A e \in ToSet(a) : \E i \in 1..k - 1 : e \in ToSet(s[i])
    BY <1>6
  <2>4. Distinct(b)
    BY <1>1
  <2> HIDE DEF a, b
  <2>5. Apart(a, b)
    <3>1. ASSUME NEW d \in ToSet(a), NEW e \in ToSet(b)
          PROVE  d.path # e.path
      <4>1. PICK i \in 1..k - 1 : d \in ToSet(s[i])
        BY <2>3
      <4>2. i \in 1..n /\ i # k
        OBVIOUS
      <4>3. Apart(s[i], s[k])
        BY <1>1, <4>2
      <4> QED
        BY <4>1, <4>3 DEF Apart, b
    <3> QED
      BY <3>1 DEF Apart
  <2>6. Distinct(a \o b) /\ ToSet(a \o b) = ToSet(a) \union ToSet(b)
    BY <2>2, <2>3, <2>4, <2>5, JoinedDistinct, JoinedSet
  <2>7. \A e \in ToSet(a \o b) : \E i \in 1..k : e \in ToSet(s[i])
    <3>1. ASSUME NEW e \in ToSet(a)
          PROVE  \E i \in 1..k : e \in ToSet(s[i])
      <4>1. PICK i \in 1..k - 1 : e \in ToSet(s[i])
        BY <2>3
      <4>2. i \in 1..k
        OBVIOUS
      <4> QED
        BY <4>1, <4>2
    <3>2. k \in 1..k
      OBVIOUS
    <3> QED
      BY <2>6, <3>1, <3>2 DEF b
  <2> QED
    BY <2>1, <2>2, <2>6, <2>7
<1>7. n \in S
  <2> HIDE DEF S
  <2>1. 0..n \subseteq S
    BY <1>5, <1>6, UpTo
  <2> QED
    BY <2>1
<1> QED
  BY <1>4, <1>7

\* What is kept of different elements is different.
LEMMA OnlyInjective ==
  ASSUME NEW V, NEW s \in Seq(V), IsInjective(s), NEW T
  PROVE  IsInjective(Only(s, T))
<1>1. PICK n \in Nat : n = Len(s)
  OBVIOUS
<1>2. DOMAIN s = 1..n /\ \A k \in 1..n : s[k] \in V
  BY <1>1
<1>3. PICK f : OnlyPrefixes(f, s, T, V)
  BY OnlyHasPrefixes
<1>4. /\ f \in [0..n -> Seq(V)] /\ f[0] = << >> /\ f[n] = Only(s, T)
      /\ \A k \in 1..n : f[k] = Kept(f[k - 1], s[k], T)
  BY <1>1, <1>3 DEF OnlyPrefixes
<1> DEFINE S == {k \in 0..n : /\ IsInjective(f[k])
                              /\ \A e \in ToSet(f[k]) : \E i \in 1..k : e = s[i]}
<1>5. 0 \in S
  <2>1. IsInjective(<< >>) /\ ToSet(<< >>) = {}
    BY DEF IsInjective, ToSet
  <2> QED
    BY <1>4, <2>1
<1>6. ASSUME NEW k \in 1..n, k - 1 \in S
      PROVE  k \in S
  <2> DEFINE a == f[k - 1]
             v == s[k]
  <2>1. k - 1 \in 0..n /\ k \in 0..n
    OBVIOUS
  <2>2. a \in Seq(V) /\ v \in V /\ f[k] = Kept(a, v, T)
    BY <1>2, <1>4, <2>1
  <2>3. IsInjective(a) /\ \A e \in ToSet(a) : \E i \in 1..k - 1 : e = s[i]
    BY <1>6
  <2>4. v \notin ToSet(a)
    BY <1>2, <2>3 DEF IsInjective
  <2>5. \A e \in ToSet(a) \union {v} : \E i \in 1..k : e = s[i]
    <3>1. ASSUME NEW e \in ToSet(a)
          PROVE  \E i \in 1..k : e = s[i]
      <4>1. PICK i \in 1..k - 1 : e = s[i]
        BY <2>3
      <4>2. i \in 1..k
        OBVIOUS
      <4> QED
        BY <4>1, <4>2
    <3>2. k \in 1..k
      OBVIOUS
    <3> QED
      BY <3>1, <3>2
  <2> HIDE DEF a, v
  <2>6. IsInjective(Append(a, v)) /\ ToSet(Append(a, v)) = ToSet(a) \union {v}
    <3> DEFINE r == Append(a, v)
    <3>1. PICK m \in Nat : m = Len(a)
      BY <2>2
    <3>2. /\ DOMAIN r = 1..m + 1 /\ DOMAIN a = 1..m /\ r[m + 1] = v
          /\ \A i \in 1..m : r[i] = a[i]
      BY <2>2, <3>1
    <3> HIDE DEF r
    <3>3. \A i \in 1..m : a[i] # v
      BY <2>4, <3>2 DEF ToSet
    <3>4. ASSUME NEW i \in 1..m + 1, NEW j \in 1..m + 1, r[i] = r[j]
          PROVE  i = j
      <4>1. (i \in 1..m \/ i = m + 1) /\ (j \in 1..m \/ j = m + 1)
        OBVIOUS
      <4>2. CASE i \in 1..m /\ j \in 1..m
        BY <2>3, <3>2, <3>4, <4>2 DEF IsInjective
      <4> QED
        BY <3>2, <3>3, <3>4, <4>1, <4>2
    <3> QED
      BY <2>2, <3>2, <3>4, Appended DEF IsInjective, r
  <2> QED
    BY <2>1, <2>2, <2>3, <2>5, <2>6 DEF Kept
<1>7. n \in S
  <2> HIDE DEF S
  <2>1. 0..n \subseteq S
    BY <1>5, <1>6, UpTo
  <2> QED
    BY <2>1
<1> QED
  BY <1>4, <1>7

\* What passes from the places one name deeper to a place holds of all places.
LEMMA Upwards ==
  ASSUME NEW D, D \subseteq Places, NEW S,
         \A d \in D : (\A e \in D : Len(e) = Len(d) + 1 => e \in S) => d \in S
  PROVE  D \subseteq S
<1>1. PICK m \in Nat : m = MaxDepth
  BY NamesAssumption
<1>2. \A d \in D : Len(d) \in 0..m
  BY <1>1, PlaceIs
<1> DEFINE K == {k \in 0..m + 1 : \A d \in D : Len(d) > m - k => d \in S}
<1>3. 0 \in K
  BY <1>2
<1>4. ASSUME NEW k \in 1..m + 1, k - 1 \in K
      PROVE  k \in K
  <2>1. ASSUME NEW d \in D, Len(d) > m - k
        PROVE  d \in S
    <3>1. \A e \in D : Len(e) = Len(d) + 1 => Len(e) > m - (k - 1)
      BY <1>2, <2>1
    <3> QED
      BY <1>4, <3>1
  <2> QED
    BY <2>1
<1>5. m + 1 \in K
  <2>1. m + 1 \in Nat /\ m + 1 \in 0..m + 1
    OBVIOUS
  <2> HIDE DEF K
  <2>2. 0..m + 1 \subseteq K
    BY <1>3, <1>4, <2>1, UpTo
  <2> QED
    BY <2>1, <2>2
<1> QED
  BY <1>2, <1>5

-----------------------------------------------------------------------------
(* Listings *)

\* The paths of a version, and the line that a listing has for one.
Known(s) == Keys(s) \union {d \in PathsOf : IsDir(s, d)}

LineOf(node, s, q) ==
  IF q \in Keys(s)
  THEN [path |-> q, kind |-> "file", oid |-> Get(s, q)]
  ELSE [path |-> q, kind |-> "tree", oid |-> node[q].git]

Lines(node, s) == {LineOf(node, s, q) : q \in Known(s)}

\* list[d] is the listing of directory d.
ListFor(list, t, d, recursive) ==
  LET entries == Found(t, d).object.entries
      line(e) == [path |-> Append(d, e.name), kind |-> e.kind,
                  oid |-> IF e.kind = "tree" THEN e.object.git ELSE e.object]
      deeper(e) == IF recursive /\ e.kind = "tree" THEN list[Append(d, e.name)] ELSE << >>
  IN  FlattenSeq([i \in DOMAIN entries |-> <<line(entries[i])>> \o deeper(entries[i])])

IsListOf(list, t, recursive) == list = [d \in Dirs(t) |-> ListFor(list, t, d, recursive)]

\* What a listing has from one path: its line, and what is listed below it.
Piece(list, node, s, q, recursive) ==
  <<LineOf(node, s, q)>> \o (IF recursive /\ q \notin Keys(s) THEN list[q] ELSE << >>)

Pieces(list, node, s, d, recursive) ==
  [i \in DOMAIN Ordered(s, d) |-> Piece(list, node, s, Append(d, Ordered(s, d)[i]), recursive)]

\* A listing is made of the pieces of its names.
LEMMA ListedAs ==
  ASSUME NEW s, NEW node, Plain(s), IsTreeOf(node, s), NEW d \in Dirs(node[<< >>]), NEW list,
         NEW recursive \in BOOLEAN
  PROVE  ListFor(list, node[<< >>], d, recursive) = FlattenSeq(Pieces(list, node, s, d, recursive))
<1> DEFINE o == Ordered(s, d)
           entries == EntriesFor(node, s, d)
           line(e) == [path |-> Append(d, e.name), kind |-> e.kind,
                       oid |-> IF e.kind = "tree" THEN e.object.git ELSE e.object]
           deeper(e) == IF recursive /\ e.kind = "tree" THEN list[Append(d, e.name)] ELSE << >>
           all == [i \in DOMAIN entries |-> <<line(entries[i])>> \o deeper(entries[i])]
<1>1. Found(node[<< >>], d).object.entries = entries
  BY DirsAre
<1>2. ListFor(list, node[<< >>], d, recursive) = FlattenSeq(all)
  BY <1>1 DEF ListFor
<1>3. DOMAIN entries = DOMAIN o /\ \A i \in DOMAIN o : entries[i] = EntryFor(node, s, d, o[i])
  BY DEF EntriesFor
<1>4. ASSUME NEW n
      PROVE  LET e == EntryFor(node, s, d, n)
             IN  <<line(e)>> \o deeper(e) = Piece(list, node, s, Append(d, n), recursive)
  <2> DEFINE q == Append(d, n)
             e == EntryFor(node, s, d, n)
  <2>1. CASE q \in Keys(s)
    <3>1. e = [name |-> n, kind |-> "file", object |-> Get(s, q)]
      BY <2>1 DEF EntryFor
    <3> HIDE DEF e
    <3>2. line(e) = LineOf(node, s, q) /\ deeper(e) = << >>
      BY <2>1, <3>1 DEF LineOf
    <3> QED
      BY <2>1, <3>2 DEF Piece, e
  <2>2. CASE q \notin Keys(s)
    <3>1. e = [name |-> n, kind |-> "tree", object |-> node[q]]
      BY <2>2 DEF EntryFor
    <3> HIDE DEF e
    <3>2. line(e) = LineOf(node, s, q)
      BY <2>2, <3>1 DEF LineOf
    <3>3. deeper(e) = IF recursive /\ q \notin Keys(s) THEN list[q] ELSE << >>
      BY <2>2, <3>1
    <3> QED
      BY <3>2, <3>3 DEF Piece, e
  <2> QED
    BY <2>1, <2>2
<1> HIDE DEF entries, line, deeper
<1>5. all = Pieces(list, node, s, d, recursive)
  BY <1>3, <1>4 DEF Pieces
<1> QED
  BY <1>2, <1>5

\* The names of a directory lead to paths of the version,
LEMMA NamesLead ==
  ASSUME NEW s, NEW node, Plain(s), IsTreeOf(node, s), NEW d \in Dirs(node[<< >>])
  PROVE  LET o == Ordered(s, d)
         IN  /\ o \in Seq(Names) /\ DOMAIN o = 1..Len(o) /\ Len(o) \in Nat
             /\ \A i \in 1..Len(o) :
                   LET q == Append(d, o[i])
                   IN  /\ q \in PathsOf /\ q \in Known(s) /\ q \in Places
                       /\ Len(q) = Len(d) + 1 /\ IsStrictPrefix(d, q)
                       /\ q \notin Keys(s) => q \in Dirs(node[<< >>])
<1> DEFINE o == Ordered(s, d)
<1>1. o \in Seq(Names) /\ ToSet(o) = NamesIn(s, d)
  BY NamesOrdered
<1>2. d \in Places /\ Fits(s) /\ Keys(s) \subseteq PathsOf /\ d \in Seq(Names)
  BY DirsAre, PlaceIs DEF Plain
<1> HIDE DEF o
<1>3. ASSUME NEW i \in 1..Len(o)
      PROVE  LET q == Append(d, o[i])
             IN  /\ q \in PathsOf /\ q \in Known(s) /\ q \in Places
                 /\ Len(q) = Len(d) + 1 /\ IsStrictPrefix(d, q)
                 /\ q \notin Keys(s) => q \in Dirs(node[<< >>])
  <2> DEFINE n == o[i]
             q == Append(d, n)
  <2>1. n \in NamesIn(s, d) /\ n \in Names
    BY <1>1 DEF ToSet
  <2> HIDE DEF n
  <2>2. q \in Places /\ (q \in Keys(s) \/ IsDir(s, q))
    BY <1>2, <2>1, NamedPlace
  <2>3. q \in PathsOf /\ Len(q) = Len(d) + 1 /\ IsStrictPrefix(d, q)
    BY <1>2, <2>1, Deeper
  <2> HIDE DEF q
  <2>4. q \in Known(s) /\ (q \notin Keys(s) => q \in Dirs(node[<< >>]))
    BY <2>2, <2>3, DirsAre DEF Known
  <2> QED
    BY <2>2, <2>3, <2>4 DEF q, n
<1>4. DOMAIN o = 1..Len(o) /\ Len(o) \in Nat
  BY <1>1
<1> QED
  BY <1>1, <1>3, <1>4 DEF o

\* and each path below the directory is below one of its names, or is it.
LEMMA NameOf ==
  ASSUME NEW s, NEW node, Plain(s), IsTreeOf(node, s), NEW d \in Dirs(node[<< >>]),
         NEW p \in Known(s), IsStrictPrefix(d, p)
  PROVE  /\ p \in Seq(Names)
         /\ \E i \in 1..Len(Ordered(s, d)) :
              /\ IsPrefix(Append(d, Ordered(s, d)[i]), p)
              /\ \A j \in 1..Len(Ordered(s, d)) : IsPrefix(Append(d, Ordered(s, d)[j]), p) => j = i
<1> DEFINE o == Ordered(s, d)
<1>1. /\ o \in Seq(Names) /\ DOMAIN o = 1..Len(o) /\ ToSet(o) = NamesIn(s, d)
      /\ \A i \in 1..Len(o) : o[i] \in Names
  <2>1. o \in Seq(Names) /\ ToSet(o) = NamesIn(s, d)
    BY NamesOrdered
  <2> HIDE DEF o
  <2> QED
    BY <2>1
<1>2. IsInjective(o)
  BY NamesAssumption, OnlyInjective DEF Ordered
<1>3. d \in Seq(Names) /\ Keys(s) \subseteq Seq(Names)
  BY DirsAre, PlaceIs DEF Plain, PathsOf
<1> HIDE DEF o
<1>4. p \in Seq(Names) /\ \E r \in Keys(s) : IsPrefix(p, r)
  <2>1. CASE p \in Keys(s)
    BY <1>3, <2>1 DEF IsPrefix
  <2>2. CASE p \notin Keys(s)
    BY <2>2 DEF Known, IsDir, PathsOf, IsStrictPrefix
  <2> QED
    BY <2>1, <2>2
<1>5. PICK n \in Names : IsPrefix(Append(d, n), p)
  BY <1>3, <1>4, FirstName
<1>6. n \in NamesIn(s, d)
  <2>1. PICK r \in Keys(s) : IsPrefix(p, r)
    BY <1>4
  <2>2. Append(d, n) \in Seq(Names) /\ r \in Seq(Names)
    BY <1>3, <2>1, Deeper DEF PathsOf
  <2>3. IsPrefix(Append(d, n), r)
    BY <1>4, <1>5, <2>1, <2>2, PrefixTransitive
  <2> QED
    BY <2>3 DEF NamesIn
<1>7. PICK i \in 1..Len(o) : o[i] = n
  BY <1>1, <1>6 DEF ToSet
<1>8. ASSUME NEW j \in 1..Len(o), IsPrefix(Append(d, o[j]), p)
      PROVE  j = i
  <2> DEFINE k == Len(d) + 1
  <2>1. \A m \in Names : Append(d, m) \in Seq(Names) /\ Len(Append(d, m)) = k /\ Append(d, m)[k] = m
                         /\ k \in 1..k
    BY <1>3
  <2> HIDE DEF k
  <2>2. o[j] \in Names
    BY <1>1
  <2>3. Append(d, n)[k] = p[k]
    BY <1>4, <1>5, <2>1, PrefixOf
  <2>4. Append(d, o[j])[k] = p[k]
    <3> DEFINE q == Append(d, o[j])
    <3>1. q \in Seq(Names) /\ Len(q) = k /\ k \in 1..k /\ IsPrefix(q, p)
      BY <1>8, <2>1, <2>2
    <3> HIDE DEF q
    <3>2. \A l \in 1..Len(q) : q[l] = p[l]
      BY <1>4, <3>1, PrefixOf
    <3>3. q[k] = p[k]
      BY <3>1, <3>2
    <3> QED
      BY <3>3 DEF q
  <2>5. o[j] = o[i]
    BY <1>7, <2>1, <2>2, <2>3, <2>4
  <2> QED
    BY <1>1, <1>2, <2>5 DEF IsInjective
<1> QED
  BY <1>4, <1>5, <1>7, <1>8 DEF o

\* What is listed of a directory needs what is listed one place deeper only.
LEMMA ListsDeeper ==
  ASSUME NEW s, NEW node, Plain(s), IsTreeOf(node, s), NEW d \in Dirs(node[<< >>]), NEW f, NEW g,
         NEW recursive \in BOOLEAN, \A e \in Dirs(node[<< >>]) : Len(e) = Len(d) + 1 => f[e] = g[e]
  PROVE  ListFor(f, node[<< >>], d, recursive) = ListFor(g, node[<< >>], d, recursive)
<1> DEFINE o == Ordered(s, d)
<1>1. ASSUME NEW i \in DOMAIN o
      PROVE  Piece(f, node, s, Append(d, o[i]), recursive) = Piece(g, node, s, Append(d, o[i]), recursive)
  <2> DEFINE q == Append(d, o[i])
  <2>1. Len(q) = Len(d) + 1 /\ (q \notin Keys(s) => q \in Dirs(node[<< >>]))
    BY NamesLead
  <2> HIDE DEF q
  <2>2. q \notin Keys(s) => f[q] = g[q]
    BY <2>1
  <2>3. Piece(f, node, s, q, recursive) = Piece(g, node, s, q, recursive)
    BY <2>2 DEF Piece
  <2> QED
    BY <2>3 DEF q
<1>2. Pieces(f, node, s, d, recursive) = Pieces(g, node, s, d, recursive)
  BY <1>1 DEF Pieces
<1> QED
  BY <1>2, ListedAs

\* There is a way to list all directories, from the deepest ones up.
LEMMA ListsExist ==
  ASSUME NEW s, NEW node, Plain(s), IsTreeOf(node, s), NEW recursive \in BOOLEAN
  PROVE  \E list : IsListOf(list, node[<< >>], recursive)
<1> DEFINE t == node[<< >>]
<1>1. PICK m \in Nat : m = MaxDepth
  BY NamesAssumption
<1>2. \A d \in Dirs(t) : Len(d) \in 0..m
  BY <1>1, DirsAre, PlaceIs
<1> DEFINE UpFrom(f, k) == f = [d \in Dirs(t) |-> f[d]] /\ \A d \in Dirs(t) : Len(d) > m - k => f[d] = ListFor(f, t, d, recursive)
           S == {k \in 0..m + 1 : \E f : UpFrom(f, k)}
<1>3. 0 \in S
  <2> DEFINE f == [d \in Dirs(t) |-> 0]
  <2>1. f = [d \in Dirs(t) |-> f[d]]
    OBVIOUS
  <2>2. \A d \in Dirs(t) : ~(Len(d) > m - 0)
    BY <1>2
  <2>3. UpFrom(f, 0)
    <3> HIDE DEF f, t
    <3> QED
      BY <2>1, <2>2
  <2>4. 0 \in 0..m + 1
    OBVIOUS
  <2> HIDE DEF UpFrom
  <2> QED
    BY <2>3, <2>4
<1>4. ASSUME NEW k \in 1..m + 1, k - 1 \in S
      PROVE  k \in S
  <2>1. PICK f : UpFrom(f, k - 1)
    BY <1>4
  <2> DEFINE g == [d \in Dirs(t) |-> IF Len(d) > m - k THEN ListFor(f, t, d, recursive) ELSE f[d]]
  <2>2. g = [d \in Dirs(t) |-> g[d]] /\ \A d \in Dirs(t) : g[d] = IF Len(d) > m - k THEN ListFor(f, t, d, recursive) ELSE f[d]
    OBVIOUS
  <2> HIDE DEF g
  <2>3. ASSUME NEW d \in Dirs(t), Len(d) > m - k
        PROVE  g[d] = ListFor(g, t, d, recursive)
    <3>1. ASSUME NEW e \in Dirs(t), Len(e) = Len(d) + 1
          PROVE  f[e] = g[e]
      <4>1. Len(e) > m - k /\ Len(e) > m - (k - 1)
        BY <1>2, <2>3, <3>1
      <4>2. f[e] = ListFor(f, t, e, recursive)
        BY <2>1, <4>1
      <4>3. g[e] = ListFor(f, t, e, recursive)
        BY <2>2, <4>1
      <4> QED
        BY <4>2, <4>3
    <3>2. ListFor(f, t, d, recursive) = ListFor(g, t, d, recursive)
      BY <3>1, ListsDeeper
    <3>3. g[d] = ListFor(f, t, d, recursive)
      BY <2>2, <2>3
    <3> QED
      BY <3>2, <3>3
  <2>4. UpFrom(g, k)
    BY <2>2, <2>3
  <2>5. k \in 0..m + 1
    OBVIOUS
  <2> HIDE DEF UpFrom
  <2> QED
    BY <2>4, <2>5
<1>5. m + 1 \in S
  <2>1. m + 1 \in Nat /\ m + 1 \in 0..m + 1
    OBVIOUS
  <2> HIDE DEF S
  <2>2. 0..m + 1 \subseteq S
    BY <1>3, <1>4, <2>1, UpTo
  <2> QED
    BY <2>1, <2>2
<1>6. PICK f : UpFrom(f, m + 1)
  BY <1>5
<1>7. \A d \in Dirs(t) : f[d] = ListFor(f, t, d, recursive)
  <2>1. \A d \in Dirs(t) : Len(d) > m - (m + 1)
    BY <1>2
  <2> QED
    BY <1>6, <2>1
<1> HIDE DEF t
<1>8. IsListOf(f, t, recursive)
  BY <1>6, <1>7 DEF IsListOf
<1> QED
  BY <1>8 DEF t

\* ListTree() lists directory p so.
LEMMA ListTreeIs ==
  ASSUME NEW s, NEW node, Plain(s), IsTreeOf(node, s), NEW recursive \in BOOLEAN
  PROVE  \E list : /\ \A p : ListTree(node[<< >>], p, recursive) = list[p]
                   /\ \A d \in Dirs(node[<< >>]) :
                         list[d] = FlattenSeq(Pieces(list, node, s, d, recursive))
<1> DEFINE t == node[<< >>]
           list == CHOOSE h : IsListOf(h, t, recursive)
<1>1. IsListOf(list, t, recursive)
  <2>1. \E h : IsListOf(h, t, recursive)
    BY ListsExist
  <2> QED
    BY <2>1
<1>2. \A p : ListTree(t, p, recursive) = list[p]
  BY DEF ListTree, IsListOf, ListFor
<1> HIDE DEF list
<1>3. \A d \in Dirs(t) : list[d] = ListFor(list, t, d, recursive)
  BY <1>1 DEF IsListOf
<1>4. \A d \in Dirs(t) : ListFor(list, t, d, recursive) = FlattenSeq(Pieces(list, node, s, d, recursive))
  BY ListedAs
<1> QED
  BY <1>2, <1>3, <1>4

\* A path of a version is not below a file.
LEMMA KnownIs ==
  ASSUME NEW s, Plain(s), NEW r \in Known(s)
  PROVE  r \in PathsOf /\ r \in Seq(Names) /\ \A q \in Keys(s) : ~IsStrictPrefix(q, r)
<1>1. Keys(s) \subseteq PathsOf /\ Keys(s) \subseteq Seq(Names) /\ PathsOf \subseteq Seq(Names)
      /\ \A p, q \in Keys(s) : ~IsStrictPrefix(p, q)
  BY DEF Plain, PathsOf
<1>2. r \in PathsOf /\ r \in Seq(Names)
  BY <1>1 DEF Known
<1>3. ASSUME NEW q \in Keys(s), IsStrictPrefix(q, r)
      PROVE  FALSE
  <2>1. r \notin Keys(s)
    BY <1>1, <1>3
  <2>2. PICK x \in Keys(s) : IsStrictPrefix(r, x)
    BY <1>2, <2>1 DEF Known, IsDir, PathsOf
  <2>3. q \in Seq(Names) /\ x \in Seq(Names) /\ IsPrefix(q, r) /\ IsPrefix(r, x)
    BY <1>1, <1>3, <2>2 DEF IsStrictPrefix
  <2>4. IsStrictPrefix(q, x)
    BY <1>2, <1>3, <2>3, PrefixTransitive
  <2> QED
    BY <1>1, <2>4
<1> QED
  BY <1>2, <1>3

LEMMA LinePath ==
  ASSUME NEW node, NEW s, NEW q
  PROVE  LineOf(node, s, q).path = q
  BY DEF LineOf

\* The lines of what is below a directory, and those from a path on.
LinesBelow(node, s, d) == {LineOf(node, s, r) : r \in {q \in Known(s) : IsStrictPrefix(d, q)}}
LinesFrom(node, s, d) == {LineOf(node, s, r) : r \in {q \in Known(s) : IsPrefix(d, q)}}

\* A listing of directory d, in which each path is there once.
Listed(l, node, s, d) ==
  l \in Seq(Lines(node, s)) /\ ToSet(l) = LinesBelow(node, s, d) /\ Distinct(l)

\* What one path adds to a listing, if what is below it is listed right.
LEMMA PieceIs ==
  ASSUME NEW s, NEW node, Plain(s), NEW q \in Known(s), NEW list,
         q \notin Keys(s) => Listed(list[q], node, s, q)
  PROVE  LET l == Piece(list, node, s, q, TRUE)
         IN  l \in Seq(Lines(node, s)) /\ ToSet(l) = LinesFrom(node, s, q) /\ Distinct(l)
<1> DEFINE l == Piece(list, node, s, q, TRUE)
           V == Lines(node, s)
           v == LineOf(node, s, q)
<1>1. v \in V /\ v.path = q /\ q \in PathsOf /\ IsPrefix(q, q)
  BY LinePath, KnownIs DEF Lines, IsPrefix
<1>2. v \in LinesFrom(node, s, q) /\ LinesFrom(node, s, q) = {v} \union LinesBelow(node, s, q)
  <2>1. \A r \in Known(s) : IsPrefix(q, r) <=> r = q \/ IsStrictPrefix(q, r)
    BY <1>1 DEF IsStrictPrefix
  <2> QED
    BY <2>1 DEF LinesFrom, LinesBelow
<1> DEFINE rest == IF q \notin Keys(s) THEN list[q] ELSE << >>
<1>3. l = <<v>> \o rest
  BY DEF Piece
<1>4. rest \in Seq(V) /\ ToSet(rest) = LinesBelow(node, s, q) /\ Distinct(rest)
  <2>1. CASE q \notin Keys(s)
    BY <2>1 DEF Listed
  <2>2. CASE q \in Keys(s)
    <3>1. rest = << >> /\ << >> \in Seq(V) /\ ToSet(<< >>) = {} /\ Distinct(<< >>)
      BY <2>2 DEF ToSet, Distinct
    <3>2. LinesBelow(node, s, q) = {}
      BY <2>2, KnownIs DEF LinesBelow
    <3> QED
      BY <3>1, <3>2
  <2> QED
    BY <2>1, <2>2
<1> HIDE DEF l, V, v, rest
<1>5. <<v>> \in Seq(V) /\ ToSet(<<v>>) = {v} /\ Distinct(<<v>>)
  BY <1>1 DEF ToSet, Distinct
<1>6. Apart(<<v>>, rest)
  <2>1. ASSUME NEW e \in LinesBelow(node, s, q)
        PROVE  e.path # q
    <3>1. PICK r \in Known(s) : IsStrictPrefix(q, r) /\ e = LineOf(node, s, r)
      BY DEF LinesBelow
    <3>2. e.path = r /\ r # q
      BY <3>1, LinePath DEF IsStrictPrefix
    <3> QED
      BY <3>2
  <2> QED
    BY <1>1, <1>4, <1>5, <2>1 DEF Apart
<1> DEFINE w == <<v>>
<1>7. w \in Seq(V) /\ ToSet(w) = {v} /\ Distinct(w) /\ Apart(w, rest)
  BY <1>5, <1>6
<1> HIDE DEF w
<1>8. w \o rest \in Seq(V) /\ ToSet(w \o rest) = {v} \union ToSet(rest) /\ Distinct(w \o rest)
  BY <1>4, <1>7, JoinedSet, JoinedDistinct
<1> QED
  BY <1>2, <1>3, <1>4, <1>8 DEF l, V, w

\* The pieces of a directory are listings,
LEMMA PiecesAre ==
  ASSUME NEW s, NEW node, Plain(s), IsTreeOf(node, s), NEW d \in Dirs(node[<< >>]), NEW list,
         \A e \in Dirs(node[<< >>]) : Len(e) = Len(d) + 1 => Listed(list[e], node, s, e)
  PROVE  LET all == Pieces(list, node, s, d, TRUE)
             o == Ordered(s, d)
         IN  /\ all \in Seq(Seq(Lines(node, s))) /\ Len(all) = Len(o)
             /\ \A i \in 1..Len(o) : /\ ToSet(all[i]) = LinesFrom(node, s, Append(d, o[i]))
                                     /\ Distinct(all[i])
<1> DEFINE o == Ordered(s, d)
           all == Pieces(list, node, s, d, TRUE)
<1>1. /\ DOMAIN o = 1..Len(o) /\ Len(o) \in Nat
      /\ all = [i \in DOMAIN o |-> Piece(list, node, s, Append(d, o[i]), TRUE)]
  BY NamesLead DEF Pieces
<1>2. ASSUME NEW i \in 1..Len(o)
      PROVE  LET l == Piece(list, node, s, Append(d, o[i]), TRUE)
             IN  /\ l \in Seq(Lines(node, s)) /\ ToSet(l) = LinesFrom(node, s, Append(d, o[i]))
                 /\ Distinct(l)
  <2> DEFINE q == Append(d, o[i])
  <2>1. q \in Known(s) /\ Len(q) = Len(d) + 1 /\ (q \notin Keys(s) => q \in Dirs(node[<< >>]))
    BY NamesLead
  <2> HIDE DEF q
  <2>2. q \notin Keys(s) => Listed(list[q], node, s, q)
    BY <2>1
  <2>3. LET l == Piece(list, node, s, q, TRUE)
        IN  l \in Seq(Lines(node, s)) /\ ToSet(l) = LinesFrom(node, s, q) /\ Distinct(l)
    BY <2>1, <2>2, PieceIs
  <2> QED
    BY <2>3 DEF q
<1> DEFINE V == Lines(node, s)
<1> HIDE DEF o, all
<1>3. all \in [1..Len(o) -> Seq(V)] /\ \A i \in 1..Len(o) : all[i] = Piece(list, node, s, Append(d, o[i]), TRUE)
  BY <1>1, <1>2
<1>4. all \in Seq(Seq(V)) /\ Len(all) = Len(o)
  <2> DEFINE W == Seq(V)
  <2>1. Len(o) \in Nat /\ all \in [1..Len(o) -> W]
    BY <1>1, <1>3
  <2> HIDE DEF W
  <2>2. all \in Seq(W) /\ Len(all) = Len(o)
    BY <2>1
  <2> QED
    BY <2>2 DEF W
<1> QED
  BY <1>2, <1>3, <1>4 DEF o, all

\* and so is what they make together.
LEMMA ListIs ==
  ASSUME NEW s, NEW node, Plain(s), IsTreeOf(node, s), NEW d \in Dirs(node[<< >>]), NEW list,
         \A e \in Dirs(node[<< >>]) : Len(e) = Len(d) + 1 => Listed(list[e], node, s, e)
  PROVE  Listed(FlattenSeq(Pieces(list, node, s, d, TRUE)), node, s, d)
<1> DEFINE o == Ordered(s, d)
           all == Pieces(list, node, s, d, TRUE)
           V == Lines(node, s)
           From(i) == LinesFrom(node, s, Append(d, o[i]))
<1>1. /\ all \in Seq(Seq(V)) /\ Len(all) = Len(o)
      /\ \A i \in 1..Len(o) : ToSet(all[i]) = From(i) /\ Distinct(all[i])
  BY PiecesAre
<1>2. \A i \in 1..Len(o) : Append(d, o[i]) \in Seq(Names) /\ IsStrictPrefix(d, Append(d, o[i]))
                           /\ IsPrefix(d, Append(d, o[i]))
  BY NamesLead DEF PathsOf, IsStrictPrefix
<1>3. d \in Seq(Names) /\ DOMAIN all = 1..Len(o)
  <2>1. d \in Seq(Names)
    BY DirsAre, PlaceIs
  <2> HIDE DEF V, all
  <2> QED
    BY <1>1, <2>1
<1>4. \A i \in 1..Len(o) : \A r \in Known(s) : IsPrefix(Append(d, o[i]), r) => IsStrictPrefix(d, r)
  BY <1>2, <1>3, KnownIs, PrefixTransitive
<1>5. \A e \in V : e.path \in Known(s) /\ e = LineOf(node, s, e.path)
  BY LinePath DEF Lines
<1>6. \A i \in 1..Len(o) : From(i) = {e \in V : IsPrefix(Append(d, o[i]), e.path)}
  BY LinePath DEF LinesFrom, Lines
<1>7. LinesBelow(node, s, d) = {e \in V : IsStrictPrefix(d, e.path)}
  BY LinePath DEF LinesBelow, Lines
<1>8. \A r \in Known(s) : IsStrictPrefix(d, r) =>
        \E i \in 1..Len(o) : /\ IsPrefix(Append(d, o[i]), r)
                             /\ \A j \in 1..Len(o) : IsPrefix(Append(d, o[j]), r) => j = i
  BY NameOf
<1> HIDE DEF o, all, V, From
<1>9. FlattenSeq(all) \in Seq(V) /\ ToSet(FlattenSeq(all)) = UNION {From(i) : i \in 1..Len(o)}
  <2>1. FlattenSeq(all) \in Seq(V) /\ ToSet(FlattenSeq(all)) = UNION {ToSet(all[i]) : i \in DOMAIN all}
    BY <1>1, FlatSet
  <2> QED
    BY <1>1, <1>3, <2>1
<1>10. UNION {From(i) : i \in 1..Len(o)} = LinesBelow(node, s, d)
  <2>1. ASSUME NEW i \in 1..Len(o), NEW e \in From(i)
        PROVE  e \in LinesBelow(node, s, d)
    BY <1>4, <1>5, <1>6, <1>7
  <2>2. ASSUME NEW e \in LinesBelow(node, s, d)
        PROVE  \E i \in 1..Len(o) : e \in From(i)
    <3>1. e \in V /\ IsStrictPrefix(d, e.path) /\ e.path \in Known(s)
      BY <1>5, <1>7
    <3>2. PICK i \in 1..Len(o) : IsPrefix(Append(d, o[i]), e.path)
      BY <1>8, <3>1
    <3> QED
      BY <1>6, <3>1, <3>2
  <2> QED
    BY <2>1, <2>2
<1>11. \A i, j \in 1..Len(o) : i # j => Apart(all[i], all[j])
  <2>1. ASSUME NEW i \in 1..Len(o), NEW j \in 1..Len(o), NEW a \in From(i), NEW b \in From(j), a.path = b.path
        PROVE  i = j
    <3> DEFINE r == a.path
    <3>1. r \in Known(s) /\ IsPrefix(Append(d, o[i]), r) /\ IsPrefix(Append(d, o[j]), r)
      BY <1>5, <1>6, <2>1
    <3> HIDE DEF r
    <3>2. IsStrictPrefix(d, r)
      BY <1>4, <3>1
    <3> QED
      BY <1>8, <3>1, <3>2
  <2> QED
    BY <1>1, <2>1 DEF Apart
<1>12. Distinct(FlattenSeq(all))
  BY <1>1, <1>11, FlatDistinct
<1> QED
  BY <1>9, <1>10, <1>12 DEF Listed, all, V

\* The recursive listing of each directory has exactly what is below it.
LEMMA ListsAre ==
  ASSUME NEW s, NEW node, Plain(s), IsTreeOf(node, s), NEW list,
         \A d \in Dirs(node[<< >>]) : list[d] = FlattenSeq(Pieces(list, node, s, d, TRUE))
  PROVE  \A d \in Dirs(node[<< >>]) : Listed(list[d], node, s, d)
<1> DEFINE D == Dirs(node[<< >>])
           S == {d \in D : Listed(list[d], node, s, d)}
<1>1. D \subseteq Places
  BY DirsAre
<1>2. ASSUME NEW d \in D, \A e \in D : Len(e) = Len(d) + 1 => e \in S
      PROVE  d \in S
  <2>1. \A e \in D : Len(e) = Len(d) + 1 => Listed(list[e], node, s, e)
    BY <1>2
  <2>2. Listed(FlattenSeq(Pieces(list, node, s, d, TRUE)), node, s, d)
    BY <2>1, ListIs
  <2> QED
    BY <2>2
<1>3. D \subseteq S
  <2> HIDE DEF D, S
  <2> QED
    BY <1>1, <1>2, Upwards
<1> QED
  BY <1>3

-----------------------------------------------------------------------------
(* Listings of one directory in the recursive one *)

\* Strict prefixes are shorter,
LEMMA StrictIsShorter ==
  ASSUME NEW p \in Seq(Names), NEW q \in Seq(Names), IsStrictPrefix(p, q)
  PROVE  Len(p) < Len(q)
<1>1. IsPrefix(p, q) /\ p # q
  BY DEF IsStrictPrefix
<1>2. Len(p) <= Len(q) /\ \A i \in 1..Len(p) : p[i] = q[i]
  BY <1>1, PrefixOf
<1>3. Len(p) # Len(q)
  BY <1>1, <1>2, SeqEqual
<1>4. Len(p) \in Nat /\ Len(q) \in Nat
  OBVIOUS
<1> QED
  BY <1>2, <1>3, <1>4

\* and of two prefixes the shorter is one of the longer.
LEMMA PrefixesNest ==
  ASSUME NEW p \in Seq(Names), NEW q \in Seq(Names), NEW r \in Seq(Names),
         IsPrefix(p, r), IsPrefix(q, r), Len(p) <= Len(q)
  PROVE  IsPrefix(p, q)
<1>1. /\ \A i \in 1..Len(p) : p[i] = r[i]
      /\ \A i \in 1..Len(q) : q[i] = r[i]
      /\ Len(p) \in Nat /\ Len(q) \in Nat
  BY PrefixOf
<1>2. \A i \in 1..Len(p) : q[i] = p[i]
  BY <1>1
<1>3. SubSeq(q, 1, Len(p)) \in Seq(Names) /\ Len(SubSeq(q, 1, Len(p))) = Len(p)
  BY <1>1
<1>4. \A i \in 1..Len(p) : SubSeq(q, 1, Len(p))[i] = p[i]
  BY <1>1, <1>2
<1>5. SubSeq(q, 1, Len(p)) = p
  BY <1>3, <1>4, SeqEqual
<1>6. SubSeq(p, 1, Len(p)) = p
  BY SubSeqFull
<1> QED
  BY <1>5, <1>6 DEF IsPrefix

\* A directory other than the root is a path of the version and no file.
LEMMA DirIsKnown ==
  ASSUME NEW s, NEW node, Plain(s), IsTreeOf(node, s), NEW d \in Dirs(node[<< >>])
  PROVE  d \in Seq(Names) /\ d \notin Keys(s) /\ (d # << >> => d \in Known(s))
<1>1. d \in Places /\ IsDir(s, d) /\ d \in Seq(Names)
  BY DirsAre, PlaceIs
<1>2. d \notin Keys(s)
  BY <1>1 DEF IsDir, Plain, PathsOf
<1>3. d # << >> => d \in Known(s)
  BY <1>1 DEF Known, PathsOf
<1> QED
  BY <1>1, <1>2, <1>3

\* The lines of what is in directory p.
Children(node, s, p) == {e \in Lines(node, s) : Len(e.path) = Len(p) + 1 /\ IsPrefix(p, e.path)}

One(v) == <<v>>
Rest(list, s, q) == IF q \notin Keys(s) THEN list[q] ELSE << >>

\* A path in directory p adds its line,
LEMMA ChildPiece ==
  ASSUME NEW s, NEW node, Plain(s), NEW p \in Seq(Names), NEW q \in Known(s), NEW list,
         Len(q) = Len(p) + 1, IsStrictPrefix(p, q), q \notin Keys(s) => Listed(list[q], node, s, q)
  PROVE  Only(Piece(list, node, s, q, TRUE), Children(node, s, p)) = One(LineOf(node, s, q)) \o << >>
<1> DEFINE C == Children(node, s, p)
           v == LineOf(node, s, q)
<1>1. q \in Seq(Names) /\ Len(p) \in Nat
  BY KnownIs
<1>2. v \in C
  BY LinePath DEF Children, Lines, IsStrictPrefix
<1>3. Only(<<v>>, C) = <<v>>
  <2> HIDE DEF v, C
  <2> QED
    BY <1>2, OnlyOne
<1> DEFINE rest == Rest(list, s, q)
<1>4. rest \in Seq(Lines(node, s)) /\ Only(rest, C) = << >>
  <2>1. rest \in Seq(Lines(node, s)) /\ ToSet(rest) \subseteq LinesBelow(node, s, q)
    BY DEF Listed, Rest, ToSet
  <2>2. ASSUME NEW e \in LinesBelow(node, s, q)
        PROVE  e \notin C
    <3>1. PICK r \in Known(s) : IsStrictPrefix(q, r) /\ e = LineOf(node, s, r)
      BY DEF LinesBelow
    <3>2. e.path = r /\ r \in Seq(Names)
      BY <3>1, LinePath, KnownIs
    <3>3. Len(q) < Len(r)
      BY <1>1, <3>1, <3>2, StrictIsShorter
    <3> QED
      BY <3>2, <3>3 DEF Children
  <2>3. ToSet(rest) \intersect C = {}
    BY <2>1, <2>2
  <2> HIDE DEF C, rest
  <2> QED
    BY <2>1, <2>3, OnlyNone
<1>5. Only(Piece(list, node, s, q, TRUE), C) = Only(One(v), C) \o Only(rest, C)
  <2> DEFINE V == Lines(node, s)
             w == One(v)
  <2>1. Piece(list, node, s, q, TRUE) = w \o rest
    BY DEF Piece, One, Rest
  <2>2. w \in Seq(V) /\ rest \in Seq(V)
    <3>1. v \in V
      BY DEF Lines
    <3> HIDE DEF V, v, rest
    <3> QED
      BY <1>4, <3>1 DEF One, V
  <2> HIDE DEF C, V, w, rest
  <2>3. Only(w \o rest, C) = Only(w, C) \o Only(rest, C)
    BY <2>2, OnlyJoined
  <2> QED
    BY <2>1, <2>3 DEF w
<1> HIDE DEF C, v, rest
<1> QED
  BY <1>3, <1>4, <1>5 DEF One, C, v, rest

\* and one on the way to p adds what is below it, the others nothing.
LEMMA WayPiece ==
  ASSUME NEW s, NEW node, Plain(s), IsTreeOf(node, s), NEW p \in Dirs(node[<< >>]), p # << >>,
         NEW q \in Known(s), NEW list, Len(q) <= Len(p), q \notin Keys(s) => Listed(list[q], node, s, q)
  PROVE  Only(Piece(list, node, s, q, TRUE), Children(node, s, p)) =
            IF IsPrefix(q, p) THEN Only(list[q], Children(node, s, p)) ELSE << >>
<1> DEFINE C == Children(node, s, p)
           v == LineOf(node, s, q)
           V == Lines(node, s)
<1>1. q \in Seq(Names) /\ p \in Seq(Names) /\ p \in Known(s) /\ p \notin Keys(s)
      /\ Len(p) \in Nat /\ Len(q) \in Nat
  BY KnownIs, DirIsKnown
<1>2. v \in V /\ v \notin C
  <2>1. v \in V /\ v.path = q
    BY LinePath DEF Lines
  <2>2. Len(q) # Len(p) + 1
    BY <1>1
  <2> QED
    BY <2>1, <2>2 DEF Children
<1>3. Only(<<v>>, C) = << >>
  <2> DEFINE w == <<v>>
  <2>1. w \in Seq(V) /\ ToSet(w) = {v}
    BY <1>2 DEF ToSet
  <2>2. ToSet(w) \intersect C = {}
    BY <1>2, <2>1
  <2> HIDE DEF V, C, w
  <2>3. Only(w, C) = << >>
    BY <2>1, <2>2, OnlyNone
  <2> QED
    BY <2>3 DEF w
<1> DEFINE rest == Rest(list, s, q)
           x == Only(rest, C)
<1>4. rest \in Seq(V) /\ ToSet(rest) \subseteq LinesBelow(node, s, q)
  BY DEF Listed, Rest, ToSet
<1>5. x \in Seq(V)
  <2> HIDE DEF V, C, rest
  <2> QED
    BY <1>4, OnlyIs
<1>6. Only(Piece(list, node, s, q, TRUE), C) = x
  <2>1. Only(Piece(list, node, s, q, TRUE), C) = Only(One(v), C) \o x
    <3> DEFINE w == One(v)
    <3>1. Piece(list, node, s, q, TRUE) = w \o rest
      BY DEF Piece, One, Rest
    <3>2. w \in Seq(V) /\ rest \in Seq(V)
      <4> HIDE DEF V, v, rest
      <4> QED
        BY <1>2, <1>4 DEF One
    <3> HIDE DEF C, V, w, rest
    <3>3. Only(w \o rest, C) = Only(w, C) \o Only(rest, C)
      BY <3>2, OnlyJoined
    <3> QED
      BY <3>1, <3>3 DEF w
  <2>2. << >> \o x = x
    <3> HIDE DEF x, V
    <3> QED
      BY <1>5, ConcatEmptySeq
  <2> HIDE DEF x, C, v
  <2> QED
    BY <1>3, <2>1, <2>2 DEF One
<1>7. CASE IsPrefix(q, p)
  <2>1. q \notin Keys(s)
    BY <1>1, <1>7, KnownIs DEF IsStrictPrefix
  <2>2. rest = list[q]
    BY <2>1 DEF Rest
  <2> HIDE DEF rest
  <2> QED
    BY <1>6, <1>7, <2>2
<1>8. CASE ~IsPrefix(q, p)
  <2>1. ASSUME NEW e \in LinesBelow(node, s, q)
        PROVE  e \notin C
    <3>1. PICK r \in Known(s) : IsStrictPrefix(q, r) /\ e = LineOf(node, s, r)
      BY DEF LinesBelow
    <3>2. e.path = r /\ r \in Seq(Names) /\ IsPrefix(q, r)
      BY <3>1, LinePath, KnownIs DEF IsStrictPrefix
    <3>3. ~IsPrefix(p, r)
      BY <1>1, <1>8, <3>2, PrefixesNest
    <3> QED
      BY <3>2, <3>3 DEF Children
  <2>2. ToSet(rest) \intersect C = {}
    BY <1>4, <2>1
  <2>3. x = << >>
    <3> HIDE DEF V, C, rest
    <3> QED
      BY <1>4, <2>2, OnlyNone
  <2> HIDE DEF x
  <2> QED
    BY <1>6, <1>8, <2>3
<1> QED
  BY <1>7, <1>8

\* The listing of directory p is what the recursive listing has of it.
LEMMA ChildrenListed ==
  ASSUME NEW s, NEW node, Plain(s), IsTreeOf(node, s), NEW list, NEW other,
         \A d \in Dirs(node[<< >>]) : list[d] = FlattenSeq(Pieces(list, node, s, d, TRUE)),
         NEW p \in Dirs(node[<< >>])
  PROVE  \A d \in Dirs(node[<< >>]) :
            IsPrefix(d, p) =>
              Only(list[d], Children(node, s, p)) = FlattenSeq(Pieces(other, node, s, p, FALSE))
<1> DEFINE D == Dirs(node[<< >>])
           C == Children(node, s, p)
           direct == FlattenSeq(Pieces(other, node, s, p, FALSE))
           S == {d \in D : IsPrefix(d, p) => Only(list[d], C) = direct}
           V == Lines(node, s)
<1>1. D \subseteq Places /\ \A d \in D : d \in Seq(Names)
  BY DirsAre, PlaceIs
<1>2. \A d \in D : Listed(list[d], node, s, d)
  BY ListsAre
<1>3. p \in D /\ p \in Seq(Names) /\ p \notin Keys(s) /\ (p # << >> => p \in Known(s))
  BY DirIsKnown
<1>4. ASSUME NEW d \in D, \A e \in D : Len(e) = Len(d) + 1 => e \in S
      PROVE  d \in S
  <2> DEFINE o == Ordered(s, d)
             all == Pieces(list, node, s, d, TRUE)
             kept == [i \in DOMAIN all |-> Only(all[i], C)]
             q(i) == Append(d, o[i])
  <2> SUFFICES ASSUME IsPrefix(d, p)
               PROVE  Only(list[d], C) = direct
    OBVIOUS
  <2>1. all \in Seq(Seq(V)) /\ Len(all) = Len(o)
    BY <1>2, PiecesAre
  <2>2. /\ DOMAIN o = 1..Len(o) /\ Len(o) \in Nat
        /\ \A i \in 1..Len(o) : /\ q(i) \in Seq(Names) /\ q(i) \in Known(s) /\ Len(q(i)) = Len(d) + 1
                                /\ IsStrictPrefix(d, q(i)) /\ (q(i) \notin Keys(s) => q(i) \in D)
    BY NamesLead DEF PathsOf
  <2>3. \A i \in 1..Len(o) : all[i] = Piece(list, node, s, q(i), TRUE)
    BY <2>2 DEF Pieces
  <2>4. list[d] = FlattenSeq(all) /\ d \in Seq(Names) /\ Len(d) \in Nat /\ Len(p) \in Nat
    <3>1. list[d] = FlattenSeq(all)
      OBVIOUS
    <3>2. d \in Seq(Names) /\ Len(d) \in Nat /\ Len(p) \in Nat
      <4> HIDE DEF D
      <4> QED
        BY <1>1, <1>3
    <3> QED
      BY <3>1, <3>2
  <2> HIDE DEF o, all, C, V, direct, q
  <2>5. DOMAIN all = 1..Len(o)
    <3> DEFINE W == Seq(V)
    <3> HIDE DEF W
    <3>1. all \in Seq(W)
      BY <2>1 DEF W
    <3> QED
      BY <2>1, <3>1
  <2>6. kept \in Seq(Seq(V)) /\ Only(list[d], C) = FlattenSeq(kept)
    BY <2>1, <2>4, OnlyFlat
  <2>7. kept = [i \in 1..Len(o) |-> Only(Piece(list, node, s, q(i), TRUE), C)]
    BY <2>3, <2>5
  <2>8. CASE d = p
    <3>1. ASSUME NEW i \in 1..Len(o)
          PROVE  Only(Piece(list, node, s, q(i), TRUE), C) = Piece(other, node, s, q(i), FALSE)
      <4> DEFINE x == q(i)
      <4>1. x \in Known(s) /\ Len(x) = Len(p) + 1 /\ IsStrictPrefix(p, x)
        BY <2>2, <2>8
      <4>2. x \notin Keys(s) => Listed(list[x], node, s, x)
        BY <1>2, <2>2
      <4> HIDE DEF x
      <4>3. Only(Piece(list, node, s, x, TRUE), Children(node, s, p)) = One(LineOf(node, s, x)) \o << >>
        BY <1>3, <4>1, <4>2, ChildPiece
      <4>4. Piece(other, node, s, x, FALSE) = One(LineOf(node, s, x)) \o << >>
        BY DEF Piece, One
      <4> QED
        BY <4>3, <4>4 DEF x, C
    <3>2. Pieces(other, node, s, p, FALSE) = [i \in 1..Len(o) |-> Piece(other, node, s, q(i), FALSE)]
      BY <2>2, <2>8 DEF Pieces, q, o
    <3>3. kept = Pieces(other, node, s, p, FALSE)
      BY <2>7, <3>1, <3>2
    <3> QED
      BY <2>6, <3>3 DEF direct
  <2>9. CASE d # p
    <3>1. IsStrictPrefix(d, p) /\ Len(d) < Len(p)
      BY <1>3, <2>4, <2>9, StrictIsShorter DEF IsStrictPrefix
    <3>2. p # << >> /\ p \in Known(s)
      BY <1>3, <2>4, <3>1
    <3>3. ASSUME NEW i \in 1..Len(o)
          PROVE  Only(Piece(list, node, s, q(i), TRUE), C) =
                    IF IsPrefix(q(i), p) THEN Only(list[q(i)], C) ELSE << >>
      <4>1. q(i) \in Known(s) /\ Len(q(i)) <= Len(p)
        BY <2>2, <2>4, <3>1
      <4>2. q(i) \notin Keys(s) => Listed(list[q(i)], node, s, q(i))
        BY <1>2, <2>2
      <4> QED
        BY <1>3, <3>2, <4>1, <4>2, WayPiece DEF C
    <3>4. PICK k \in 1..Len(o) : IsPrefix(q(k), p) /\ \A j \in 1..Len(o) : IsPrefix(q(j), p) => j = k
      BY <3>1, <3>2, NameOf DEF q, o
    <3>5. \A i \in 1..Len(o) : kept[i] = IF IsPrefix(q(i), p) THEN Only(list[q(i)], C) ELSE << >>
      <4> HIDE DEF kept
      <4> QED
        BY <2>7, <3>3
    <3>6. Only(list[q(k)], C) = direct
      <4>1. q(k) \notin Keys(s)
        BY <1>3, <3>2, <3>4, KnownIs DEF IsStrictPrefix
      <4>2. q(k) \in D /\ Len(q(k)) = Len(d) + 1
        BY <2>2, <4>1
      <4>3. q(k) \in S
        BY <1>4, <4>2
      <4> QED
        BY <3>4, <4>3
    <3>7. Len(kept) = Len(o)
      <4> HIDE DEF kept
      <4> DEFINE W == Seq(V)
      <4>1. kept \in Seq(W) /\ DOMAIN kept = 1..Len(o)
        BY <2>6, <2>7
      <4> HIDE DEF W
      <4> QED
        BY <2>2, <4>1
    <3>8. FlattenSeq(kept) = kept[k]
      <4>1. k \in 1..Len(kept) /\ \A i \in 1..Len(kept) : i # k => kept[i] = << >>
        BY <3>4, <3>5, <3>7
      <4> HIDE DEF kept
      <4> QED
        BY <2>6, <4>1, FlatOne
    <3> HIDE DEF kept
    <3> QED
      BY <2>6, <3>4, <3>5, <3>6, <3>8
  <2> QED
    BY <2>8, <2>9
<1>5. D \subseteq S
  <2> HIDE DEF D, S
  <2> QED
    BY <1>1, <1>4, Upwards
<1> QED
  BY <1>5

-----------------------------------------------------------------------------
(* The views of a version *)

\* The directories are the proper beginnings of the paths of files.
LEMMA DirectoriesAre ==
  ASSUME NEW s, Keys(s) \subseteq PathsOf
  PROVE  UNION {{SubSeq(p, 1, n) : n \in 1..Len(p) - 1} : p \in Keys(s)} = {d \in PathsOf : IsDir(s, d)}
<1>1. ASSUME NEW p \in Keys(s), NEW n \in 1..Len(p) - 1
      PROVE  SubSeq(p, 1, n) \in PathsOf /\ IsDir(s, SubSeq(p, 1, n))
  <2> DEFINE d == SubSeq(p, 1, n)
  <2>1. p \in Seq(Names) /\ Len(p) \in Nat
    BY DEF PathsOf
  <2>2. d \in Seq(Names) /\ Len(d) = n
    BY <2>1
  <2> HIDE DEF d
  <2>3. SubSeq(d, 1, Len(d)) = d
    BY <2>2, SubSeqFull
  <2>4. IsPrefix(d, p)
    BY <2>1, <2>2, <2>3 DEF IsPrefix, d
  <2>5. d # << >> /\ d # p
    BY <2>1, <2>2
  <2> QED
    BY <2>2, <2>4, <2>5 DEF d, PathsOf, IsDir, IsStrictPrefix
<1>2. ASSUME NEW d \in PathsOf, IsDir(s, d)
      PROVE  \E p \in Keys(s) : \E n \in 1..Len(p) - 1 : d = SubSeq(p, 1, n)
  <2>1. d \in Seq(Names) /\ d # << >>
    BY DEF PathsOf
  <2>2. PICK p \in Keys(s) : IsStrictPrefix(d, p)
    BY <1>2, <2>1 DEF IsDir
  <2>3. p \in Seq(Names) /\ Len(p) \in Nat /\ Len(d) \in Nat /\ Len(d) # 0
    BY <2>1 DEF PathsOf
  <2>4. Len(d) < Len(p)
    BY <2>1, <2>2, <2>3, StrictIsShorter
  <2>5. d = SubSeq(p, 1, Len(d))
    BY <2>1, <2>2, SubSeqFull DEF IsStrictPrefix, IsPrefix
  <2>6. Len(d) \in 1..Len(p) - 1
    BY <2>3, <2>4
  <2> QED
    BY <2>5, <2>6
<1> DEFINE L == UNION {{SubSeq(p, 1, n) : n \in 1..Len(p) - 1} : p \in Keys(s)}
           R == {d \in PathsOf : IsDir(s, d)}
<1>3. ASSUME NEW x \in L
      PROVE  x \in R
  <2>1. PICK p \in Keys(s) : \E n \in 1..Len(p) - 1 : x = SubSeq(p, 1, n)
    OBVIOUS
  <2> QED
    BY <1>1, <2>1
<1>4. R \subseteq L
  BY <1>2
<1> QED
  BY <1>3, <1>4

\* Nothing below a file is a directory.
LEMMA DirNotBlocked ==
  ASSUME NEW s, Plain(s), NEW p \in Seq(Names), IsDir(s, p)
  PROVE  ~Blocked(s, p)
<1>1. ASSUME NEW q \in Keys(s), IsPrefix(q, p)
      PROVE  FALSE
  <2>1. q \in Seq(Names) /\ q # << >> /\ Len(q) \in Nat /\ Len(q) # 0
    BY DEF Plain, PathsOf
  <2>2. Len(q) <= Len(p) /\ (q = p \/ IsStrictPrefix(q, p))
    BY <1>1, <2>1, PrefixOf
  <2>3. p # << >>
    BY <2>1, <2>2
  <2>4. p \in Known(s)
    BY <2>3 DEF Known, PathsOf
  <2>5. q = p
    BY <2>2, <2>4, KnownIs
  <2> QED
    BY <2>3, <2>5 DEF IsDir, Plain
<1> QED
  BY <1>1 DEF Blocked

\* A directory is what has something below it.
LEMMA BelowIs ==
  ASSUME NEW s \in Snaps, Keys(s) \subseteq PathsOf, NEW p \in PathsOf
  PROVE  Below(s, p) # << >> <=> IsDir(s, p)
<1>0. p \in Seq(Names) /\ p # << >>
  BY DEF PathsOf
<1>1. Below(s, p) # << >> <=> Keys(Below(s, p)) # {}
  BY <1>0, BelowSnap, SnapIs
<1>2. Keys(Below(s, p)) = {q \in PathsOf : p \o q \in Keys(s)}
  BY <1>0, BelowSnap
<1>3. \A q \in PathsOf : p \o q \in Keys(s) => IsStrictPrefix(p, p \o q)
  BY <1>0, Joined DEF PathsOf
<1>4. ASSUME NEW r \in Keys(s), IsStrictPrefix(p, r)
      PROVE  \E q \in PathsOf : p \o q \in Keys(s)
  <2> DEFINE q == SubSeq(r, Len(p) + 1, Len(r))
  <2>1. r \in Seq(Names) /\ IsPrefix(p, r)
    BY <1>4 DEF PathsOf, IsStrictPrefix
  <2>2. q \in Seq(Names) /\ r = p \o q
    BY <1>0, <2>1, Split
  <2> HIDE DEF q
  <2>3. q # << >>
    BY <1>0, <1>4, <2>2, Joined
  <2> QED
    BY <2>2, <2>3 DEF PathsOf
<1> QED
  BY <1>0, <1>1, <1>2, <1>3, <1>4 DEF IsDir

\* A path looked up tree by tree is what the snapshot has there,
LEMMA FileAtIs ==
  ASSUME NEW s \in Snaps, NEW node, Plain(s), IsTreeOf(node, s), NEW p \in Places, p # << >>
  PROVE  FileAt(node[<< >>], p) = Get(s, p)
<1> DEFINE t == node[<< >>]
           d == Front(p)
           n == Last(p)
           above == Found(t, d)
           e == EntryAt(above.object, n)
<1>1. p \in Seq(Names) /\ Len(p) <= MaxDepth
  BY PlaceIs
<1>2. d \in Seq(Names) /\ n \in Names /\ Append(d, n) = p /\ Len(d) = Len(p) - 1
  BY <1>1, FrontAndLast
<1>3. d \in Places
  <2>1. Len(d) <= MaxDepth
    <3> HIDE DEF d
    <3> QED
      BY <1>1, <1>2, NamesAssumption
  <2> HIDE DEF d
  <2> QED
    BY <1>2, <2>1, PlaceIs
<1>4. FoundRight(node, s, d) /\ FoundRight(node, s, p)
  BY <1>3, EverythingIsFound
<1>5. FileAt(t, p) = IF above.kind = "tree" /\ e.kind = "file" THEN e.object ELSE Missing
  BY DEF FileAt
<1>6. Found(t, p) = Into(above, n)
  <2> HIDE DEF t, d, n
  <2> QED
    BY <1>2, FoundNext DEF t
<1>7. IsStrictPrefix(d, p)
  BY <1>2, Deeper
<1>8. \A q \in Keys(s) : q \in Seq(Names)
  BY DEF Plain, PathsOf
<1> HIDE DEF t, d, n, e, above
<1>9. CASE p \in Keys(s)
  <2>1. IsDir(s, d)
    BY <1>7, <1>9 DEF IsDir
  <2>2. above.kind = "tree"
    BY <1>4, <2>1 DEF FoundRight, above, t
  <2>3. Found(t, p) = e
    BY <1>6, <2>2 DEF Into, e
  <2>4. e.kind = "file" /\ e.object = Get(s, p)
    BY <1>4, <1>9, <2>3 DEF FoundRight, t
  <2> QED
    BY <1>5, <2>2, <2>4 DEF t
<1>10. CASE p \notin Keys(s)
  <2>1. ASSUME above.kind = "tree", e.kind = "file"
        PROVE  FALSE
    <3>1. Found(t, p) = e
      BY <1>6, <2>1 DEF Into, e
    <3>2. ~IsDir(s, p) /\ Blocked(s, p)
      BY <1>4, <2>1, <3>1 DEF FoundRight, t, Nothing
    <3>3. PICK q \in Keys(s) : IsPrefix(q, p)
      BY <3>2 DEF Blocked
    <3>4. IsPrefix(q, d)
      BY <1>2, <1>8, <1>10, <3>3, PrefixOfLonger
    <3>5. Blocked(s, d)
      BY <3>4 DEF Blocked
    <3>6. ~IsDir(s, d)
      BY <1>2, <3>5, DirNotBlocked
    <3>7. above.kind = "file"
      BY <1>4, <3>5, <3>6 DEF FoundRight, above, t
    <3> QED
      BY <2>1, <3>7
  <2>2. Get(s, p) = Missing
    BY <1>10, SnapIs
  <2> QED
    BY <1>5, <2>1, <2>2 DEF t
<1> QED
  BY <1>9, <1>10

\* and so is what is said about it.
LEMMA PathInfoIs ==
  ASSUME NEW t, NEW s \in Snaps, s = SnapshotOf(t), NEW node, Plain(s), IsTreeOf(node, s),
         t = node[<< >>], NEW p \in Places, p # << >>
  PROVE  PathInfo(t, p) = IF p \in Known(s) THEN LineOf(node, s, p) ELSE Missing
<1>1. p \in Seq(Names) /\ p \in PathsOf
  BY PlaceIs DEF PathsOf
<1>2. PathInfo(t, p) = IF p \in Keys(s) THEN [path |-> p, kind |-> "file", oid |-> Get(s, p)]
                       ELSE IF Below(s, p) # << >>
                       THEN [path |-> p, kind |-> "tree", oid |-> Found(t, p).object.git]
                       ELSE Missing
  BY DEF PathInfo
<1>3. Below(s, p) # << >> <=> IsDir(s, p)
  BY <1>1, BelowIs DEF Plain
<1>4. IsDir(s, p) => Found(t, p).object = node[p]
  BY EverythingIsFound DEF FoundRight
<1>5. p \in Known(s) <=> p \in Keys(s) \/ IsDir(s, p)
  BY <1>1 DEF Known
<1> QED
  BY <1>2, <1>3, <1>4, <1>5 DEF LineOf

\* Files below p are the same in both snapshots.
Alike(r, s, p) == \A x \in PathsOf : IsStrictPrefix(p, x) => Get(r, x) = Get(s, x)

\* Then the keys are, too,
LEMMA AlikeKeys ==
  ASSUME NEW r \in Snaps, NEW s \in Snaps, NEW p, Alike(r, s, p), NEW x \in PathsOf,
         IsStrictPrefix(p, x)
  PROVE  Get(r, x) = Get(s, x) /\ (x \in Keys(r) <=> x \in Keys(s))
  BY SnapIs DEF Alike

\* and so is what is below p, and the other way round.
LEMMA BelowAlike ==
  ASSUME NEW r \in Snaps, NEW s \in Snaps, NEW p \in Seq(Names)
  PROVE  ToSet(Below(r, p)) = ToSet(Below(s, p)) <=> Alike(r, s, p)
<1> DEFINE a == Below(r, p)
           b == Below(s, p)
<1>1. /\ a \in Snaps /\ Keys(a) = {q \in PathsOf : p \o q \in Keys(r)}
      /\ \A q \in Keys(a) : Get(a, q) = Get(r, p \o q)
  BY BelowSnap
<1>2. /\ b \in Snaps /\ Keys(b) = {q \in PathsOf : p \o q \in Keys(s)}
      /\ \A q \in Keys(b) : Get(b, q) = Get(s, p \o q)
  BY BelowSnap
<1>3. \A q \in PathsOf : p \o q \in PathsOf /\ IsStrictPrefix(p, p \o q)
  BY Joined DEF PathsOf
<1> HIDE DEF a, b
<1>4. ASSUME ToSet(a) = ToSet(b)
      PROVE  Alike(r, s, p)
  <2>1. Keys(a) = Keys(b) /\ \A q : Get(a, q) = Get(b, q)
    BY <1>1, <1>2, <1>4, SameSets DEF SameFiles
  <2>2. ASSUME NEW x \in PathsOf, IsStrictPrefix(p, x)
        PROVE  Get(r, x) = Get(s, x)
    <3> DEFINE q == SubSeq(x, Len(p) + 1, Len(x))
    <3>1. x \in Seq(Names) /\ IsPrefix(p, x)
      BY <2>2 DEF PathsOf, IsStrictPrefix
    <3>2. q \in Seq(Names) /\ x = p \o q
      BY <3>1, Split
    <3> HIDE DEF q
    <3>3. q \in PathsOf
      BY <2>2, <3>2, Joined DEF PathsOf
    <3>4. CASE q \in Keys(a)
      BY <1>1, <1>2, <2>1, <3>2, <3>4
    <3>5. CASE q \notin Keys(a)
      <4>1. x \notin Keys(r) /\ x \notin Keys(s)
        BY <1>1, <1>2, <2>1, <3>2, <3>3, <3>5
      <4> QED
        BY <4>1, SnapIs
    <3> QED
      BY <3>4, <3>5
  <2> QED
    BY <2>2 DEF Alike
<1>5. ASSUME Alike(r, s, p)
      PROVE  ToSet(a) = ToSet(b)
  <2>1. \A q \in PathsOf : Get(r, p \o q) = Get(s, p \o q) /\ (p \o q \in Keys(r) <=> p \o q \in Keys(s))
    BY <1>3, <1>5, AlikeKeys
  <2>2. Keys(a) = Keys(b) /\ \A q \in Keys(a) : Get(a, q) = Get(b, q)
    BY <1>1, <1>2, <2>1
  <2>3. \A c \in Snaps : \A e : e \in ToSet(c) <=> \E q \in Keys(c) : e = [path |-> q, file |-> Get(c, q)]
    <3>1. ASSUME NEW c \in Snaps, NEW e \in ToSet(c)
          PROVE  e.path \in Keys(c) /\ e = [path |-> e.path, file |-> Get(c, e.path)]
      <4>1. e \in Entries /\ e.path \in Keys(c) /\ Get(c, e.path) = e.file
        BY SnapIs
      <4> QED
        BY <4>1 DEF Entries
    <3>2. \A c \in Snaps : \A q \in Keys(c) : [path |-> q, file |-> Get(c, q)] \in ToSet(c)
      BY SnapIs
    <3> QED
      BY <3>1, <3>2
  <2>4. \A e : e \in ToSet(a) <=> e \in ToSet(b)
    BY <1>1, <1>2, <2>2, <2>3
  <2> QED
    BY <2>4
<1> QED
  BY <1>4, <1>5 DEF a, b

\* The same files below a directory are the same tree,
LEMMA AlikeTrees ==
  ASSUME NEW r \in Snaps, NEW s \in Snaps, Plain(r), Plain(s), NEW f, IsTreeOf(f, r),
         NEW g, IsTreeOf(g, s), NEW p \in Places, Alike(r, s, p)
  PROVE  f[p] = g[p]
<1> DEFINE S == {d \in Places : IsPrefix(p, d) => f[d] = g[d]}
<1>1. p \in Seq(Names) /\ Keys(r) \subseteq PathsOf /\ Keys(s) \subseteq PathsOf /\ Fits(r)
  BY PlaceIs DEF Plain
<1>2. ASSUME NEW d \in Places, IsPrefix(p, d), \A e \in Places : Len(e) = Len(d) + 1 => e \in S
      PROVE  f[d] = g[d]
  <2>1. d \in Seq(Names)
    BY PlaceIs
  <2>2. \A n \in Names : Append(d, n) \in PathsOf /\ Append(d, n) \in Seq(Names)
                         /\ IsStrictPrefix(p, Append(d, n)) /\ IsPrefix(p, Append(d, n))
    <3>1. ASSUME NEW n \in Names
          PROVE  Append(d, n) \in PathsOf /\ Append(d, n) \in Seq(Names) /\ IsStrictPrefix(p, Append(d, n))
      <4> DEFINE q == Append(d, n)
      <4>1. q \in PathsOf /\ q \in Seq(Names) /\ IsStrictPrefix(d, q) /\ IsPrefix(d, q)
        BY <2>1, Deeper DEF PathsOf, IsStrictPrefix
      <4> HIDE DEF q
      <4>2. IsStrictPrefix(p, q)
        BY <1>1, <1>2, <2>1, <4>1, PrefixTransitive
      <4> QED
        BY <4>1, <4>2 DEF q
    <3> QED
      BY <3>1 DEF IsStrictPrefix
  <2>3. \A n \in Names : \A x \in PathsOf : IsPrefix(Append(d, n), x) => (x \in Keys(r) <=> x \in Keys(s))
    <3>1. ASSUME NEW n \in Names, NEW x \in PathsOf, IsPrefix(Append(d, n), x)
          PROVE  x \in Keys(r) <=> x \in Keys(s)
      <4> DEFINE q == Append(d, n)
      <4>1. q \in Seq(Names) /\ IsStrictPrefix(p, q) /\ IsPrefix(p, q) /\ IsPrefix(q, x) /\ x \in Seq(Names)
        BY <2>2, <3>1 DEF PathsOf
      <4> HIDE DEF q
      <4>2. IsStrictPrefix(p, x)
        BY <1>1, <4>1, PrefixTransitive
      <4> QED
        BY <4>2, AlikeKeys
    <3> QED
      BY <3>1
  <2>4. NamesIn(r, d) = NamesIn(s, d)
    BY <1>1, <2>3 DEF NamesIn
  <2>5. Ordered(r, d) = Ordered(s, d)
    BY <2>4 DEF Ordered
  <2>6. ASSUME NEW n \in NamesIn(r, d)
        PROVE  EntryFor(f, r, d, n) = EntryFor(g, s, d, n)
    <3> DEFINE q == Append(d, n)
    <3>1. n \in Names
      BY DEF NamesIn
    <3>2. q \in PathsOf /\ IsStrictPrefix(p, q) /\ IsPrefix(p, q)
      BY <2>2, <3>1
    <3>3. q \in Places /\ Len(q) = Len(d) + 1
      BY <1>1, NamedPlace
    <3> HIDE DEF q
    <3>4. Get(r, q) = Get(s, q) /\ (q \in Keys(r) <=> q \in Keys(s))
      BY <3>2, AlikeKeys
    <3>5. f[q] = g[q]
      BY <1>2, <3>2, <3>3
    <3> QED
      BY <3>4, <3>5 DEF EntryFor, q
  <2>7. \A i \in DOMAIN Ordered(r, d) : Ordered(r, d)[i] \in NamesIn(r, d)
    BY NamesOrdered DEF ToSet
  <2>8. EntriesFor(f, r, d) = EntriesFor(g, s, d)
    BY <2>5, <2>6, <2>7 DEF EntriesFor
  <2>9. TreeFor(f, r, d) = TreeFor(g, s, d)
    BY <2>8 DEF TreeFor
  <2> QED
    BY <2>9 DEF IsTreeOf
<1>3. \A d \in Places : (\A e \in Places : Len(e) = Len(d) + 1 => e \in S) => d \in S
  BY <1>2
<1>4. Places \subseteq S
  <2> HIDE DEF S
  <2> QED
    BY <1>3, Upwards
<1>5. IsPrefix(p, p)
  BY DEF IsPrefix
<1> QED
  BY <1>4, <1>5

\* and the same tree is the same files.
LEMMA TreesAlike ==
  ASSUME NEW r \in Snaps, NEW s \in Snaps, Plain(r), Plain(s), NEW f, IsTreeOf(f, r),
         NEW g, IsTreeOf(g, s), NEW p \in Places, Found(f[<< >>], p) = Found(g[<< >>], p)
  PROVE  Alike(r, s, p)
<1> DEFINE t == f[<< >>]
           u == g[<< >>]
<1>1. PICK m \in Nat : m = MaxDepth
  BY NamesAssumption
<1>2. \A d \in Places : Len(d) \in 0..m /\ d \in Seq(Names)
  BY <1>1, PlaceIs
<1> DEFINE Same(d) == Found(t, d) = Found(u, d)
           S == {k \in 0..m : \A d \in Places : Len(d) = k /\ IsPrefix(p, d) => Same(d)}
<1>3. ASSUME NEW d \in Seq(Names), d # << >>, Len(d) <= m
      PROVE  /\ Front(d) \in Places /\ Len(Front(d)) = Len(d) - 1
             /\ \A x : Found(x, d) = Into(Found(x, Front(d)), Last(d))
             /\ IsPrefix(p, d) /\ p # d => IsPrefix(p, Front(d))
  <2> DEFINE e == Front(d)
             n == Last(d)
  <2>1. e \in Seq(Names) /\ n \in Names /\ Append(e, n) = d /\ Len(e) = Len(d) - 1
    BY <1>3, FrontAndLast
  <2> HIDE DEF e, n
  <2>2. e \in Places
    <3>1. Len(e) <= MaxDepth
      BY <1>1, <1>3, <2>1
    <3> QED
      BY <2>1, <3>1, PlaceIs
  <2>3. \A x : Found(x, d) = Into(Found(x, e), n)
    BY <2>1, FoundNext
  <2>4. IsPrefix(p, d) /\ p # d => IsPrefix(p, e)
    BY <1>2, <2>1, PrefixOfLonger
  <2> QED
    BY <2>1, <2>2, <2>3, <2>4 DEF e, n
<1> HIDE DEF t, u
<1>4. Same(p)
  BY DEF t, u
<1>5. 0 \in S
  <2>1. ASSUME NEW d \in Places, Len(d) = 0, IsPrefix(p, d)
        PROVE  Same(d)
    <3>1. Len(p) <= 0 /\ Len(p) \in Nat /\ p \in Seq(Names) /\ d \in Seq(Names)
      BY <1>2, <2>1, PrefixOf
    <3>2. p = << >> /\ d = << >>
      BY <2>1, <3>1
    <3> QED
      BY <1>4, <3>2
  <2> QED
    BY <2>1
<1>6. ASSUME NEW k \in 1..m, k - 1 \in S
      PROVE  k \in S
  <2>1. ASSUME NEW d \in Places, Len(d) = k, IsPrefix(p, d)
        PROVE  Same(d)
    <3>1. d \in Seq(Names) /\ d # << >> /\ Len(d) <= m
      BY <1>2, <2>1
    <3>2. CASE d = p
      BY <1>4, <3>2
    <3>3. CASE d # p
      <4>1. Front(d) \in Places /\ Len(Front(d)) = k - 1 /\ IsPrefix(p, Front(d))
        BY <1>3, <2>1, <3>1, <3>3
      <4>2. Same(Front(d))
        BY <1>6, <4>1
      <4> QED
        BY <1>3, <3>1, <4>2
    <3> QED
      BY <3>2, <3>3
  <2> QED
    BY <2>1
<1>7. 0..m \subseteq S
  <2> HIDE DEF S
  <2> QED
    BY <1>5, <1>6, UpTo
<1>8. \A d \in Places : IsPrefix(p, d) => Same(d)
  BY <1>2, <1>7
<1>9. ASSUME NEW x \in PathsOf, IsStrictPrefix(p, x)
      PROVE  Get(r, x) = Get(s, x)
  <2>1. x \in Seq(Names) /\ x # << >> /\ IsPrefix(p, x) /\ x # p
    BY <1>9 DEF PathsOf, IsStrictPrefix
  <2>2. CASE x \in Places
    <3>1. Front(x) \in Places /\ IsPrefix(p, Front(x))
      BY <1>2, <1>3, <2>1, <2>2
    <3>2. Found(t, Front(x)) = Found(u, Front(x))
      BY <1>8, <3>1
    <3>3. FileAt(t, x) = FileAt(u, x)
      BY <3>2 DEF FileAt
    <3> QED
      BY <2>1, <2>2, <3>3, FileAtIs DEF t, u
  <2>3. CASE x \notin Places
    <3>1. x \notin Keys(r) /\ x \notin Keys(s)
      BY <2>1, <2>3, PlaceIs DEF Plain, Fits
    <3> QED
      BY <3>1, SnapIs
  <2> QED
    BY <2>2, <2>3
<1> QED
  BY <1>9 DEF Alike

\* What is found at a directory.
LEMMA FoundDir ==
  ASSUME NEW s, NEW node, Plain(s), IsTreeOf(node, s), NEW p \in Places, p # << >>, IsDir(s, p)
  PROVE  Found(node[<< >>], p) = [name |-> Last(p), kind |-> "tree", object |-> node[p]]
<1> DEFINE t == node[<< >>]
           d == Front(p)
           n == Last(p)
<1>1. p \in Seq(Names) /\ Len(p) <= MaxDepth
  BY PlaceIs
<1>2. d \in Seq(Names) /\ n \in Names /\ Append(d, n) = p /\ Len(d) = Len(p) - 1
  BY <1>1, FrontAndLast
<1> HIDE DEF t, d, n
<1>3. d \in Places
  <2>1. Len(d) <= MaxDepth
    BY <1>1, <1>2, NamesAssumption
  <2> QED
    BY <1>2, <2>1, PlaceIs
<1>4. PICK x \in Keys(s) : IsStrictPrefix(p, x)
  BY DEF IsDir
<1>5. x \in Seq(Names) /\ IsPrefix(p, x) /\ IsPrefix(d, p) /\ p \notin Keys(s)
  BY <1>2, <1>4, Deeper DEF Plain, PathsOf, IsStrictPrefix
<1>6. n \in NamesIn(s, d)
  BY <1>2, <1>5 DEF NamesIn
<1>7. IsDir(s, d)
  <2>1. IsStrictPrefix(d, x)
    BY <1>1, <1>2, <1>4, <1>5, PrefixTransitive
  <2> QED
    BY <2>1 DEF IsDir
<1>8. Found(t, d).kind = "tree" /\ Found(t, d).object = node[d]
  BY <1>3, <1>7, EverythingIsFound DEF FoundRight, t
<1>9. Found(t, p) = EntryAt(node[d], n)
  BY <1>2, <1>8, FoundNext DEF Into
<1>10. EntryAt(node[d], n) = EntryFor(node, s, d, n)
  BY <1>3, <1>6, EntryIs
<1> QED
  BY <1>2, <1>5, <1>9, <1>10 DEF EntryFor, t, n

\* A directory counts as unchanged exactly if it is the same tree.
LEMMA SameState ==
  ASSUME NEW r \in Snaps, NEW s \in Snaps, Plain(r), Plain(s), NEW f, IsTreeOf(f, r),
         NEW g, IsTreeOf(g, s), NEW p \in Places, p # << >>, IsDir(r, p), IsDir(s, p)
  PROVE  PathState(r, p) = PathState(s, p) <=> Found(f[<< >>], p) = Found(g[<< >>], p)
<1>1. p \in Seq(Names) /\ p \in PathsOf /\ p \notin Keys(r) /\ p \notin Keys(s)
  BY PlaceIs DEF PathsOf, IsDir, Plain
<1>2. Below(r, p) # << >> /\ Below(s, p) # << >>
  BY <1>1, BelowIs DEF Plain
<1>3. PathState(r, p) = <<"tree", ToSet(Below(r, p))>> /\ PathState(s, p) = <<"tree", ToSet(Below(s, p))>>
  BY <1>1, <1>2 DEF PathState
<1>4. PathState(r, p) = PathState(s, p) <=> ToSet(Below(r, p)) = ToSet(Below(s, p))
  BY <1>3
<1>5. PathState(r, p) = PathState(s, p) <=> Alike(r, s, p)
  BY <1>1, <1>4, BelowAlike
<1>6. Alike(r, s, p) => Found(f[<< >>], p) = Found(g[<< >>], p)
  <2>1. Alike(r, s, p) => f[p] = g[p]
    BY AlikeTrees
  <2> DEFINE There(o) == [name |-> Last(p), kind |-> "tree", object |-> o]
  <2>2. Found(f[<< >>], p) = There(f[p])
    BY FoundDir
  <2>3. Found(g[<< >>], p) = There(g[p])
    BY FoundDir
  <2> HIDE DEF There
  <2> QED
    BY <2>1, <2>2, <2>3
<1>7. Found(f[<< >>], p) = Found(g[<< >>], p) => Alike(r, s, p)
  BY TreesAlike
<1> QED
  BY <1>5, <1>6, <1>7

\* The empty path is a prefix of every path.
LEMMA EmptyPrefix == \A p \in Seq(Names) : IsPrefix(<< >>, p)
<1> SUFFICES ASSUME NEW p \in Seq(Names) PROVE IsPrefix(<< >>, p)
  OBVIOUS
<1>1. << >> \in Seq(Names) /\ Len(<< >>) = 0 /\ Len(p) \in Nat
  OBVIOUS
<1>2. SubSeq(p, 1, 0) = << >>
  OBVIOUS
<1>3. SubSeq(<< >>, 1, 0) = << >>
  OBVIOUS
<1> QED
  BY <1>1, <1>2, <1>3 DEF IsPrefix

\* The paths of the property are places below the root.
LEMMA PathPlace ==
  ASSUME NEW p \in Paths
  PROVE  p \in Places /\ p # << >> /\ p \in PathsOf
<1>1. MaxDepth \in Nat
  BY NamesAssumption
<1>2. PICK n \in 1..MaxDepth : p \in [1..n -> Names]
  BY DEF Paths
<1>3. n \in 0..MaxDepth /\ n \in Nat
  BY <1>1
<1>4. p \in Places
  BY <1>2, <1>3 DEF Places
<1>5. p \in Seq(Names) /\ Len(p) = n
  BY <1>2, <1>3
<1>6. p # << >>
  BY <1>5
<1> QED
  BY <1>4, <1>5, <1>6 DEF PathsOf

\* The recursive listing of the root has each line once, and what it has of a
\* directory is the listing of that directory.
LEMMA WholeListing ==
  ASSUME NEW s, NEW node, Plain(s), IsTreeOf(node, s)
  PROVE  LET all == ListRepoTree(node[<< >>], << >>, TRUE)
         IN  /\ Listed(all, node, s, << >>)
             /\ \A p \in Dirs(node[<< >>]) :
                   ListTree(node[<< >>], p, FALSE) = Only(all, Children(node, s, p))
<1> DEFINE t == node[<< >>]
           D == Dirs(t)
           all == ListRepoTree(t, << >>, TRUE)
           Lists(list, r) == /\ \A p : ListTree(t, p, r) = list[p]
                             /\ \A d \in D : list[d] = FlattenSeq(Pieces(list, node, s, d, r))
<1>1. \A r \in BOOLEAN : \E list : Lists(list, r)
  <2> SUFFICES ASSUME NEW r \in BOOLEAN PROVE \E list : Lists(list, r)
    OBVIOUS
  <2> QED
    BY ListTreeIs
<1> HIDE DEF Lists
<1>2. PICK list : Lists(list, TRUE)
  BY <1>1
<1>3. PICK other : Lists(other, FALSE)
  BY <1>1
<1>4. /\ \A p : ListTree(t, p, TRUE) = list[p]
      /\ \A d \in D : list[d] = FlattenSeq(Pieces(list, node, s, d, TRUE))
  BY <1>2 DEF Lists
<1>5. /\ \A p : ListTree(t, p, FALSE) = other[p]
      /\ \A d \in D : other[d] = FlattenSeq(Pieces(other, node, s, d, FALSE))
  BY <1>3 DEF Lists
<1>6. << >> \in D
  <2>1. IsDir(s, << >>)
    BY DEF IsDir
  <2> QED
    BY <2>1, DirsAre, RootPlace
<1>7. all = list[<< >>]
  <2>1. Found(t, << >>).kind = "tree"
    BY FoundAtRoot
  <2>2. all = ListTree(t, << >>, TRUE)
    BY <2>1 DEF ListRepoTree
  <2> QED
    BY <1>4, <2>2
<1>8. Listed(all, node, s, << >>)
  <2>1. \A d \in D : Listed(list[d], node, s, d)
    BY <1>4, ListsAre
  <2> QED
    BY <1>6, <1>7, <2>1
<1>9. ASSUME NEW p \in D
      PROVE  ListTree(t, p, FALSE) = Only(all, Children(node, s, p))
  <2>1. IsPrefix(<< >>, p)
    BY DirIsKnown, EmptyPrefix
  <2>2. Only(list[<< >>], Children(node, s, p)) = FlattenSeq(Pieces(other, node, s, p, FALSE))
    BY <1>4, <1>6, <2>1, ChildrenListed
  <2> QED
    BY <1>5, <1>7, <2>2
<1> QED
  BY <1>8, <1>9

\* A directory is listed, a path that is not there is told from one below a
\* file.
LEMMA ListedOne ==
  ASSUME NEW s, NEW node, Plain(s), IsTreeOf(node, s), NEW p \in Places
  PROVE  ListRepoTree(node[<< >>], p, FALSE) =
            IF IsDir(s, p) THEN ListTree(node[<< >>], p, FALSE)
            ELSE IF \E q \in Keys(s) : IsPrefix(q, p) THEN Failed ELSE Missing
<1> DEFINE e == Found(node[<< >>], p)
<1>1. FoundRight(node, s, p)
  BY EverythingIsFound
<1>2. /\ IsDir(s, p) => e.kind = "tree"
      /\ ~IsDir(s, p) => IF Blocked(s, p) THEN e.kind = "file" ELSE e.kind = "nothing"
  BY <1>1 DEF FoundRight, Nothing
<1> HIDE DEF e
<1>3. ListRepoTree(node[<< >>], p, FALSE) =
         CASE e.kind = "tree" -> ListTree(node[<< >>], p, FALSE)
           [] e.kind = "file" -> Failed
           [] e.kind = "nothing" -> Missing
  BY DEF ListRepoTree, e
<1> QED
  BY <1>2, <1>3 DEF Blocked

\* So the views of a version agree.
LEMMA VersionViewsAgree == IsVersion(head) /\ SentInv => ViewsAgree
<1> SUFFICES ASSUME IsVersion(head), SentInv PROVE ViewsAgree
  OBVIOUS
<1> DEFINE s == HeadFiles
           all == ListRepoTree(head, << >>, TRUE)
<1>1. s \in Snaps /\ Plain(s) /\ Fits(s) /\ Keys(s) \subseteq PathsOf /\ StageTree(s) = head /\ s = SnapshotOf(head)
  BY VersionIs, LegalIsPlain DEF HeadFiles, Plain
<1>2. PICK node : IsTreeOf(node, s) /\ head = node[<< >>]
  <2> HIDE DEF s
  <2> QED
    BY <1>1, StagedTree
<1>3. Known(s) = Keys(s) \union Directories
  <2>1. Directories = UNION {{SubSeq(p, 1, n) : n \in 1..Len(p) - 1} : p \in Keys(s)}
    BY DEF Directories
  <2> HIDE DEF s
  <2> QED
    BY <1>1, <2>1, DirectoriesAre DEF Known
<1> HIDE DEF s
<1>4. /\ Listed(all, node, s, << >>)
      /\ \A p \in Dirs(head) : ListTree(head, p, FALSE) = Only(all, Children(node, s, p))
  BY <1>1, <1>2, WholeListing
<1> HIDE DEF all
<1>5. all \in Seq(Lines(node, s)) /\ ToSet(all) = Lines(node, s)
      /\ IsInjective([i \in DOMAIN all |-> all[i].path])
  <2>1. \A q \in Known(s) : IsStrictPrefix(<< >>, q)
    BY <1>1, KnownIs, EmptyPrefix DEF IsStrictPrefix, PathsOf
  <2>2. LinesBelow(node, s, << >>) = Lines(node, s)
    BY <2>1 DEF LinesBelow, Lines
  <2>3. all \in Seq(Lines(node, s)) /\ ToSet(all) = Lines(node, s) /\ Distinct(all)
    BY <1>4, <2>2 DEF Listed
  <2> DEFINE paths == [i \in DOMAIN all |-> all[i].path]
  <2>4. DOMAIN paths = DOMAIN all /\ \A i \in DOMAIN all : paths[i] = all[i].path
    OBVIOUS
  <2> HIDE DEF paths
  <2>5. IsInjective(paths)
    BY <2>3, <2>4 DEF Distinct, IsInjective
  <2> QED
    BY <2>3, <2>5 DEF paths
<1>6. \A q \in Known(s) : LineOf(node, s, q) \in ToSet(all) /\ LineOf(node, s, q).path = q
  BY <1>5, LinePath DEF Lines
<1>7. \A e \in ToSet(all) : e.path \in Known(s) /\ e = LineOf(node, s, e.path)
  BY <1>5, LinePath DEF Lines
<1>8. {e.path : e \in ToSet(all)} = Keys(s) \union Directories
  BY <1>3, <1>6, <1>7
<1>9. ASSUME NEW p \in Paths
      PROVE  /\ FileAt(head, p) = Get(s, p)
             /\ PathInfo(head, p) = (IF p \in Keys(s) \union Directories
                                     THEN CHOOSE e \in ToSet(all) : e.path = p ELSE Missing)
             /\ ListRepoTree(head, p, FALSE) =
                   IF p \in Directories
                   THEN Only(all, {e \in ToSet(all) : Len(e.path) = Len(p) + 1 /\ IsPrefix(p, e.path)})
                   ELSE IF \E q \in Keys(s) : IsPrefix(q, p) THEN Failed ELSE Missing
             /\ sent # NoPlan /\ Found(sent.met, p).kind = "tree" /\ p \in Directories =>
                   (PathState(s, p) = PathState(SnapshotOf(sent.met), p)
                       <=> Found(head, p) = Found(sent.met, p))
  <2>1. p \in Places /\ p # << >> /\ p \in PathsOf
    BY PathPlace
  <2>2. p \in Directories <=> IsDir(s, p)
    <3>1. IsDir(s, p) => p \in Known(s) /\ p \notin Keys(s)
      BY <1>1, <2>1 DEF Known, IsDir, Plain
    <3>2. p \in Directories => IsDir(s, p)
      BY <1>1, DirectoriesAre DEF Directories, s
    <3> QED
      BY <1>3, <3>1, <3>2
  <2>3. FileAt(head, p) = Get(s, p)
    BY <1>1, <1>2, <2>1, FileAtIs
  <2>4. PathInfo(head, p) = IF p \in Known(s) THEN LineOf(node, s, p) ELSE Missing
    BY <1>1, <1>2, <2>1, PathInfoIs
  <2>5. p \in Known(s) => (CHOOSE e \in ToSet(all) : e.path = p) = LineOf(node, s, p)
    <3>1. ASSUME p \in Known(s)
          PROVE  \A e \in ToSet(all) : e.path = p <=> e = LineOf(node, s, p)
      BY <1>6, <1>7, <3>1
    <3> QED
      BY <1>6, <3>1
  <2>6. {e \in ToSet(all) : Len(e.path) = Len(p) + 1 /\ IsPrefix(p, e.path)} = Children(node, s, p)
    BY <1>5 DEF Children
  <2>7. ListRepoTree(head, p, FALSE) =
            IF IsDir(s, p) THEN ListTree(head, p, FALSE)
            ELSE IF \E q \in Keys(s) : IsPrefix(q, p) THEN Failed ELSE Missing
    BY <1>1, <1>2, <2>1, ListedOne
  <2>8. IsDir(s, p) => ListTree(head, p, FALSE) = Only(all, Children(node, s, p))
    BY <1>1, <1>2, <1>4, <2>1, DirsAre
  <2>9. ASSUME sent # NoPlan, Found(sent.met, p).kind = "tree", p \in Directories
        PROVE  PathState(s, p) = PathState(SnapshotOf(sent.met), p)
                  <=> Found(head, p) = Found(sent.met, p)
    <3> DEFINE r == SnapshotOf(sent.met)
    <3>1. r \in Snaps /\ Plain(r) /\ Fits(r) /\ Keys(r) \subseteq PathsOf /\ StageTree(r) = sent.met
      BY <2>9, VersionIs, LegalIsPlain DEF SentInv, Plain
    <3> HIDE DEF r
    <3>2. PICK f : IsTreeOf(f, r) /\ sent.met = f[<< >>]
      BY <3>1, StagedTree
    <3>3. IsDir(r, p)
      <4>1. FoundRight(f, r, p)
        BY <2>1, <3>1, <3>2, EverythingIsFound
      <4> QED
        BY <2>9, <3>2, <4>1 DEF FoundRight, Nothing
    <3>4. IsDir(s, p)
      BY <2>2, <2>9
    <3>5. PathState(s, p) = PathState(r, p) <=> Found(node[<< >>], p) = Found(f[<< >>], p)
      BY <1>1, <1>2, <2>1, <3>1, <3>2, <3>3, <3>4, SameState
    <3> QED
      BY <1>2, <3>2, <3>5 DEF r
  <2>10. PathInfo(head, p) = (IF p \in Keys(s) \union Directories
                              THEN CHOOSE e \in ToSet(all) : e.path = p ELSE Missing)
    BY <1>3, <2>4, <2>5
  <2>11. ListRepoTree(head, p, FALSE) =
            IF p \in Directories
            THEN Only(all, {e \in ToSet(all) : Len(e.path) = Len(p) + 1 /\ IsPrefix(p, e.path)})
            ELSE IF \E q \in Keys(s) : IsPrefix(q, p) THEN Failed ELSE Missing
    BY <2>2, <2>6, <2>7, <2>8
  <2> QED
    BY <2>3, <2>9, <2>10, <2>11
<1> QED
  BY <1>5, <1>8, <1>9 DEF ViewsAgree, s, all

\* The ways to look at a version agree on every path, and two versions of a
\* directory count as the same state exactly if they are the same tree
\* (_file_object_id_for_tree, get_paths_info, list_repo_tree,
\* _path_state_from_snapshot).
THEOREM ViewsAreOfOneVersion == Spec => []ViewsAgree
<1>1. OpsInv => ViewsAgree
  BY VersionViewsAgree DEF OpsInv
<1> QED
  BY <1>1, OpsInvHolds, PTL
=============================================================================
