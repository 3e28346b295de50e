---------------------------- MODULE InductionLemmas ----------------------------
(***************************************************************************)
(* Induction over numbers, as the proofs of the other modules use it: a    *)
(* claim that fails for some number fails for a least one.  Said of sets,  *)
(* it needs no schema; it follows from the fact that finite sets have no   *)
(* infinite descent.  Concatenations are taken apart with it.              *)
(***************************************************************************)
EXTENDS Integers, SequencesExt, FiniteSetsExt, FiniteSetTheorems, SequenceTheorems, TLAPS

\* A nonempty set of numbers has a least one.
LEMMA LeastNumber ==
    ASSUME NEW T, T \subseteq Nat, T # {}
    PROVE  \E n \in T : \A m \in T : n <= m
<1> DEFINE R == StrictSubsetOrdering(Nat)
           F == FiniteSubsetsOf(Nat)
           U == {0..n : n \in T}
<1>1. IsWellFoundedOn(R, F)
  BY FS_StrictSubsetOrderingWellFounded
<1>2. U \subseteq F /\ U # {}
  <2>1. ASSUME NEW n \in T
        PROVE  0..n \in F
    <3>1. n \in Int /\ 0 \in Int /\ 0..n \in SUBSET Nat
      OBVIOUS
    <3>2. IsFiniteSet(0..n)
      BY <3>1, FS_Interval
    <3>3. QED
      BY <3>1, <3>2 DEF FiniteSubsetsOf
  <2>2. QED
    BY <2>1
<1>3. PICK u \in U : \A v \in U : ~ <<v, u>> \in R
  <2> HIDE DEF R, F, U
  <2>1. QED
    BY <1>1, <1>2, WFMin
<1>4. PICK n \in T : u = 0..n
  OBVIOUS
<1>5. ASSUME NEW m \in T, ~ n <= m
      PROVE  FALSE
  <2>1. 0..m \subseteq 0..n /\ n \in 0..n /\ n \notin 0..m
    BY <1>5
  <2>2. <<0..m, 0..n>> \in R
    BY <2>1 DEF StrictSubsetOrdering
  <2>3. QED
    BY <1>3, <1>4, <2>2
<1>6. QED
  BY <1>5

\* What holds of 0 and passes from each number to the next holds up to n.
LEMMA UpTo ==
    ASSUME NEW n \in Nat, NEW T, 0 \in T, \A k \in 1..n : k - 1 \in T => k \in T
    PROVE  0..n \subseteq T
<1> DEFINE B == {k \in 0..n : k \notin T}
<1>1. ASSUME B # {}
      PROVE  FALSE
  <2>1. B \subseteq Nat
    OBVIOUS
  <2>2. PICK k \in B : \A m \in B : k <= m
    <3> HIDE DEF B
    <3> QED
      BY <1>1, <2>1, LeastNumber
  <2>3. k \in 1..n /\ k - 1 \in 0..n /\ ~ k <= k - 1
    BY <2>2
  <2>4. k - 1 \in T
    BY <2>2, <2>3
  <2>5. QED
    BY <2>2, <2>3, <2>4
<1>2. QED
  BY <1>1

\* G[k] takes the value at k - 1 to the value at k.
IsStep(n, A, base, G) == n \in Nat /\ base \in A /\ G \in [1..n -> [A -> A]]

Follows(f, n, A, base, G) ==
    /\ f \in [0..n -> A]
    /\ f[0] = base
    /\ \A k \in 1..n : f[k] = G[k][f[k - 1]]

\* A function can be defined by what it is at 0 and how it goes on.
LEMMA Recursion ==
    ASSUME NEW n, NEW A, NEW base, NEW G, IsStep(n, A, base, G)
    PROVE  \E f : Follows(f, n, A, base, G)
<1> n \in Nat /\ base \in A /\ G \in [1..n -> [A -> A]]
  BY DEF IsStep
<1> DEFINE IsSolved(m) ==
             \E f \in [0..m -> A] : f[0] = base /\ \A k \in 1..m : f[k] = G[k][f[k - 1]]
           T == {m \in 0..n : IsSolved(m)}
<1>1. 0 \in T
  <2>1. [k \in 0..0 |-> base] \in [0..0 -> A]
    OBVIOUS
  <2>2. IsSolved(0)
    <3>1. [k \in 0..0 |-> base][0] = base /\ 1..0 = {}
      OBVIOUS
    <3>2. QED
      BY <2>1, <3>1
  <2>3. QED
    <3> HIDE DEF IsSolved
    <3> QED
      BY <2>2
<1>2. ASSUME NEW m \in 1..n, m - 1 \in T
      PROVE  m \in T
  <2>1. PICK f \in [0..m - 1 -> A] :
          f[0] = base /\ \A k \in 1..m - 1 : f[k] = G[k][f[k - 1]]
    BY <1>2
  <2> DEFINE g == [k \in 0..m |-> IF k = m THEN G[m][f[m - 1]] ELSE f[k]]
  <2>2. f[m - 1] \in A /\ G[m][f[m - 1]] \in A
    BY <2>1
  <2>3. g \in [0..m -> A]
    BY <2>1, <2>2
  <2>4. g[0] = base
    BY <2>1
  <2>5. ASSUME NEW k \in 1..m
        PROVE  g[k] = G[k][g[k - 1]]
    BY <2>1
  <2>6. IsSolved(m)
    <3> HIDE DEF g
    <3> QED
      BY <2>3, <2>4, <2>5
  <2>7. QED
    <3> HIDE DEF IsSolved
    <3> QED
      BY <2>6
<1>3. n \in T
  <2> HIDE DEF T
  <2>1. 0..n \subseteq T
    BY <1>1, <1>2, UpTo
  <2>2. QED
    BY <2>1
<1>4. QED
  BY <1>3 DEF Follows

\* A nonempty set of the numbers up to n has a greatest one.
LEMMA MaxOfNumbers ==
    ASSUME NEW n \in Nat, NEW S \in SUBSET (1..n), S # {}
    PROVE  Max(S) \in S /\ \A y \in S : Max(S) >= y
<1> DEFINE T == {n - y : y \in S}
<1>1. T \subseteq Nat /\ T # {}
  <2>1. \A y \in S : y \in 1..n
    OBVIOUS
  <2>2. \A y \in S : n - y \in Nat
    BY <2>1
  <2>3. QED
    BY <2>2
<1>2. PICK a \in T : \A b \in T : a <= b
  <2> HIDE DEF T
  <2> QED
    BY <1>1, LeastNumber
<1>3. PICK x \in S : a = n - x
  BY <1>2
<1>4. ASSUME NEW y \in S
      PROVE  x >= y
  <2>1. n - x <= n - y
    BY <1>2, <1>3
  <2>2. QED
    BY <2>1
<1>5. QED
  BY <1>4 DEF Max

-----------------------------------------------------------------------------
(* Concatenation *)

\* f[k] is the concatenation of the first k elements of s.
IsFlat(f, V, s) ==
    /\ f \in [0..Len(s) -> Seq(V)]
    /\ f[0] = << >>
    /\ \A k \in 1..Len(s) : f[k] = f[k - 1] \o s[k]

LEMMA FlatOfPrefixes ==
    ASSUME NEW V, NEW s \in Seq(Seq(V))
    PROVE  \E f : IsFlat(f, V, s) /\ FlattenSeq(s) = f[Len(s)]
<1> DEFINE n == Len(s)
           A == Seq(V)
           G == [k \in 1..n |-> [a \in A |-> a \o s[k]]]
           Rule(g) == g = [i \in 1..n |-> IF i = 1 THEN s[i] ELSE g[i - 1] \o s[i]]
           flatten == CHOOSE g : Rule(g)
<1>1. n \in Nat /\ \A k \in 1..n : s[k] \in Seq(V)
  OBVIOUS
<1>2. G \in [1..n -> [A -> A]] /\ << >> \in A
  BY <1>1
<1>3. PICK f : Follows(f, n, A, << >>, G)
  <2>1. IsStep(n, A, << >>, G)
    BY <1>1, <1>2 DEF IsStep
  <2> HIDE DEF n, A, G
  <2> QED
    BY <2>1, Recursion
<1>a. f \in [0..n -> A] /\ f[0] = << >> /\ \A k \in 1..n : f[k] = G[k][f[k - 1]]
  BY <1>3 DEF Follows
<1>4. \A k \in 1..n : f[k] = f[k - 1] \o s[k]
  <2>1. ASSUME NEW k \in 1..n
        PROVE  f[k] = f[k - 1] \o s[k]
    <3>1. k - 1 \in 0..n
      BY <1>1
    <3>2. f[k - 1] \in A
      BY <1>a, <3>1
    <3> HIDE DEF A
    <3>3. G[k][f[k - 1]] = f[k - 1] \o s[k]
      BY <3>2
    <3>4. QED
      BY <1>a, <3>3
  <2>2. QED
    BY <2>1
<1>5. IsFlat(f, V, s)
  BY <1>a, <1>4 DEF IsFlat
<1> HIDE DEF G, A
<1>b. ASSUME n # 0
      PROVE  f[1] = s[1]
  <2>1. 1 \in 1..n /\ 1 - 1 = 0
    BY <1>1, <1>b
  <2>2. f[1] = f[1 - 1] \o s[1] /\ s[1] \in Seq(V)
    BY <1>1, <1>4, <2>1
  <2>3. f[1] = << >> \o s[1]
    BY <1>a, <2>1, <2>2
  <2>4. QED
    BY <2>2, <2>3, ConcatEmptySeq
<1>6. CASE n = 0
  <2>1. s = << >>
    BY <1>6
  <2>2. FlattenSeq(s) = s
    BY <1>6 DEF FlattenSeq
  <2>3. QED
    BY <1>a, <1>5, <1>6, <2>1, <2>2
<1>7. CASE n # 0
  <2>1. FlattenSeq(s) = flatten[n]
    BY <1>7 DEF FlattenSeq
  <2> DEFINE g == [i \in 1..n |-> f[i]]
  <2>2. Rule(g)
    <3>1. ASSUME NEW i \in 1..n
          PROVE  f[i] = IF i = 1 THEN s[i] ELSE g[i - 1] \o s[i]
      <4>1. CASE i = 1
        BY <1>7, <1>b, <4>1
      <4>2. CASE i # 1
        <5>1. i - 1 \in 1..n
          BY <1>1, <4>2
        <5>2. QED
          BY <1>4, <4>2, <5>1
      <4>3. QED
        BY <4>1, <4>2
    <3>2. QED
      BY <3>1
  <2>3. Rule(flatten)
    <3> HIDE DEF Rule, g
    <3> QED
      BY <2>2
  <2>4. \A i \in 1..n : flatten[i] = IF i = 1 THEN s[i] ELSE flatten[i - 1] \o s[i]
    <3> HIDE DEF flatten
    <3> QED
      BY <2>3
  <2> HIDE DEF flatten
  <2> DEFINE T == {k \in 0..n : k > 0 => flatten[k] = f[k]}
  <2>5. 0 \in T
    BY <1>1
  <2>6. ASSUME NEW k \in 1..n, k - 1 \in T
        PROVE  k \in T
    <3>1. CASE k = 1
      <4>1. flatten[1] = s[1] /\ f[1] = s[1] /\ k \in 0..n
        BY <1>7, <1>b, <2>4, <3>1
      <4>2. QED
        BY <3>1, <4>1
    <3>2. CASE k # 1
      <4>1. flatten[k - 1] = f[k - 1]
        BY <1>1, <2>6, <3>2
      <4>2. flatten[k] = f[k] /\ k \in 0..n
        <5>1. flatten[k] = flatten[k - 1] \o s[k] /\ f[k] = f[k - 1] \o s[k]
          BY <1>4, <2>4, <3>2
        <5>2. QED
          BY <4>1, <5>1
      <4>3. QED
        BY <4>2
    <3>3. QED
      BY <3>1, <3>2
  <2>7. 0..n \subseteq T
    <3> HIDE DEF T, n
    <3> QED
      BY <1>1, <2>5, <2>6, UpTo
  <2>8. n > 0 /\ flatten[n] = f[n]
    <3>1. n \in 0..n /\ n > 0
      BY <1>1, <1>7
    <3>2. QED
      BY <2>7, <3>1
  <2>9. QED
    BY <1>5, <2>1, <2>8
<1>8. QED
  BY <1>6, <1>7

LEMMA FlatIsUnique ==
    ASSUME NEW V, NEW s \in Seq(Seq(V)), NEW f, IsFlat(f, V, s), NEW g, IsFlat(g, V, s)
    PROVE  \A k \in 0..Len(s) : f[k] = g[k]
<1> DEFINE n == Len(s)
           T == {k \in 0..n : f[k] = g[k]}
<1>0. n \in Nat
  OBVIOUS
<1>1. 0 \in T
  BY DEF IsFlat
<1>2. ASSUME NEW k \in 1..n, k - 1 \in T
      PROVE  k \in T
  <2>1. f[k - 1] = g[k - 1] /\ k \in 0..n
    BY <1>2
  <2>2. f[k] = f[k - 1] \o s[k] /\ g[k] = g[k - 1] \o s[k]
    BY DEF IsFlat
  <2>3. QED
    BY <2>1, <2>2
<1>3. 0..n \subseteq T
  <2> HIDE DEF T, n
  <2> QED
    BY <1>0, <1>1, <1>2, UpTo
<1>4. QED
  BY <1>3

\* What is known of the prefixes of a concatenation is known of the whole.
LEMMA FlatIs ==
    ASSUME NEW V, NEW s \in Seq(Seq(V)), NEW f, IsFlat(f, V, s)
    PROVE  FlattenSeq(s) = f[Len(s)] /\ FlattenSeq(s) \in Seq(V)
<1>1. PICK g : IsFlat(g, V, s) /\ FlattenSeq(s) = g[Len(s)]
  BY FlatOfPrefixes
<1>2. \A k \in 0..Len(s) : f[k] = g[k]
  BY <1>1, FlatIsUnique
<1>3. Len(s) \in 0..Len(s)
  OBVIOUS
<1>4. g[Len(s)] \in Seq(V)
  BY <1>1, <1>3 DEF IsFlat
<1>5. QED
  BY <1>1, <1>2, <1>3, <1>4

================================================================================
