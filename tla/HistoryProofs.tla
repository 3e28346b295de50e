---------------------------- MODULE HistoryProofs ----------------------------
(***************************************************************************)
(* What holds of merges and histories for any paths, versions and trees.   *)
(* The invariant is small; the work is in the walks.  That commits are     *)
(* older than their children gives the recursions of Ancestors and         *)
(* Distance their solutions, and a least commit at which a claim fails.    *)
(* The loops of HistoryWalks have an invariant each, and a weight that     *)
(* every round reduces.                                                    *)
(***************************************************************************)
EXTENDS HistoryWalks, InductionLemmas

-----------------------------------------------------------------------------
(***************************************************************************)
(* A merge without a dispute applies the changes of both sides, all of     *)
(* them and no others, to what the sides have in common.                   *)
(***************************************************************************)
THEOREM MergeAppliesBothSides ==
  ASSUME NEW base \in Snapshots, NEW target \in Snapshots,
         NEW source \in Snapshots, Disputed(base, target, source) = {}
  PROVE  Changes(base, Merged(base, target, source))
           = Changes(base, target) \union Changes(base, source)
<1> DEFINE merged == Merged(base, target, source)
<1>1. \A p \in Paths : \/ target[p] = source[p]
                       \/ base[p] = target[p]
                       \/ base[p] = source[p]
  BY DEF Disputed
<1>2. \A p \in Paths : merged[p] = IF base[p] = target[p] THEN source[p] ELSE target[p]
  BY DEF Merged
<1> HIDE DEF merged
<1>3. Changes(base, merged) \subseteq Changes(base, target) \union Changes(base, source)
  BY <1>2 DEF Changes
<1>4. Changes(base, target) \subseteq Changes(base, merged)
  <2> SUFFICES ASSUME NEW p \in Paths, target[p] # base[p]
               PROVE  merged[p] # base[p] /\ merged[p] = target[p]
    BY DEF Changes
  <2> QED
    BY <1>2
<1>5. Changes(base, source) \subseteq Changes(base, merged)
  <2> SUFFICES ASSUME NEW p \in Paths, source[p] # base[p]
               PROVE  merged[p] # base[p] /\ merged[p] = source[p]
    BY DEF Changes
  <2> QED
    BY <1>1, <1>2
<1> QED
  BY <1>3, <1>4, <1>5 DEF merged

(***************************************************************************)
(* The merge disputes paths exactly if the changes cannot be applied       *)
(* together.                                                               *)
(***************************************************************************)
THEOREM DisputesAreReal ==
  ASSUME NEW base \in Snapshots, NEW target \in Snapshots, NEW source \in Snapshots
  PROVE  Disputed(base, target, source) = {}
           <=> Compatible(Changes(base, target) \union Changes(base, source))
<1> DEFINE changes == Changes(base, target) \union Changes(base, source)
<1>1. ASSUME Disputed(base, target, source) = {}
      PROVE  Compatible(changes)
  <2>1. \A p \in Paths : \/ target[p] = source[p]
                         \/ base[p] = target[p]
                         \/ base[p] = source[p]
    BY <1>1 DEF Disputed
  <2> SUFFICES ASSUME NEW c \in changes, NEW d \in changes, c[1] = d[1]
               PROVE  c[2] = d[2]
    BY DEF Compatible
  <2>2. \A e \in changes :
           /\ e[1] \in Paths
           /\ e[2] # base[e[1]]
           /\ e[2] = target[e[1]] \/ e[2] = source[e[1]]
    BY DEF Changes
  <2> QED
    BY <2>1, <2>2
<1>2. ASSUME Compatible(changes), NEW p \in Disputed(base, target, source)
      PROVE  FALSE
  <2>1. /\ p \in Paths /\ target[p] # source[p]
        /\ target[p] # base[p] /\ source[p] # base[p]
    BY DEF Disputed
  <2>2. <<p, target[p]>> \in changes /\ <<p, source[p]>> \in changes
    BY <2>1 DEF Changes
  <2> QED
    BY <1>2, <2>1, <2>2 DEF Compatible
<1> QED
  BY <1>1, <1>2

(***************************************************************************)
(* Which branch is merged into which makes no difference.                  *)
(***************************************************************************)
THEOREM MergeCommutes ==
  ASSUME NEW base \in Snapshots, NEW target \in Snapshots, NEW source \in Snapshots
  PROVE  /\ MergesCleanly(base, target, source) <=> MergesCleanly(base, source, target)
         /\ MergesCleanly(base, target, source) =>
              Merged(base, target, source) = Merged(base, source, target)
<1>1. Disputed(base, target, source) = Disputed(base, source, target)
  BY DEF Disputed
<1>2. ASSUME Disputed(base, target, source) = {}
      PROVE  Merged(base, target, source) = Merged(base, source, target)
  BY <1>2 DEF Disputed, Merged
<1> QED
  BY <1>1, <1>2 DEF MergesCleanly

-----------------------------------------------------------------------------
IInv == TypeOK /\ TreesStayLegal

LEMMA EmptyIsValid == Empty \in Snapshots /\ IsValid(Empty)
<1>1. Empty \in Snapshots
  BY DEF Empty, Snapshots
<1>2. Present(Empty) = {}
  BY DEF Empty, Present
<1> QED
  BY <1>1, <1>2 DEF IsValid, StructuralConflicts

(***************************************************************************)
(* New commits that are legal, and refer to older ones or to those before  *)
(* them, can be appended.                                                  *)
(***************************************************************************)
LEMMA GrowKeepsInvariant ==
  ASSUME IInv, NEW commits \in Seq(Commit), Grow(commits),
         \A i \in 1..Len(commits) :
            /\ IsValid(commits[i].files)
            /\ Len(commits[i].parents) <= 2
            /\ \A j \in DOMAIN commits[i].parents :
                  commits[i].parents[j] < Len(log) + i
  PROVE  IInv'
<1>1. log \in Seq(Commit) /\ Len(log) \in Nat /\ Len(commits) \in Nat
  BY DEF IInv, TypeOK
<1>2. /\ log' = log \o commits
      /\ Len(log) + Len(commits) <= MaxCommits
  BY DEF Grow
<1>3. /\ log' \in Seq(Commit)
      /\ Len(log') = Len(log) + Len(commits)
      /\ \A i \in 1..(Len(log) + Len(commits)) :
            log'[i] = IF i <= Len(log) THEN log[i] ELSE commits[i - Len(log)]
  BY <1>1, <1>2, ConcatProperties
<1>4. ASSUME NEW c \in 1..Len(log')
      PROVE  /\ IsValid(log'[c].files)
             /\ Len(log'[c].parents) <= 2
             /\ \A j \in DOMAIN log'[c].parents : log'[c].parents[j] < c
  <2>1. CASE c <= Len(log)
    <3>1. c \in CommitsMade /\ log'[c] = log[c]
      BY <2>1, <1>1, <1>3 DEF CommitsMade
    <3> QED
      BY <3>1 DEF IInv, TypeOK, TreesStayLegal, Parents
  <2>2. CASE ~(c <= Len(log))
    <3>1. /\ c - Len(log) \in 1..Len(commits)
          /\ log'[c] = commits[c - Len(log)]
          /\ Len(log) + (c - Len(log)) = c
      BY <2>2, <1>1, <1>3
    <3> QED
      BY <3>1
  <2> QED
    BY <2>1, <2>2
<1>5. TypeOK'
  BY <1>1, <1>2, <1>3, <1>4 DEF TypeOK, CommitsMade, Parents
<1>6. TreesStayLegal'
  BY <1>3, <1>4 DEF TreesStayLegal, CommitsMade
<1> QED
  BY <1>5, <1>6 DEF IInv

(***************************************************************************)
(* The same for one commit.                                                *)
(***************************************************************************)
LEMMA GrowByOne ==
  ASSUME IInv, NEW commit \in Commit, Grow(<<commit>>),
         IsValid(commit.files), Len(commit.parents) <= 2,
         \A j \in DOMAIN commit.parents : commit.parents[j] \in CommitsMade
  PROVE  IInv'
<1> DEFINE commits == <<commit>>
<1>1. commits \in Seq(Commit) /\ Len(commits) = 1 /\ commits[1] = commit
  OBVIOUS
<1>2. \A j \in DOMAIN commit.parents : commit.parents[j] < Len(log) + 1
  BY DEF CommitsMade, IInv, TypeOK
<1>3. Grow(commits)
  OBVIOUS
<1> HIDE DEF commits
<1>4. \A i \in 1..Len(commits) :
         /\ IsValid(commits[i].files)
         /\ Len(commits[i].parents) <= 2
         /\ \A j \in DOMAIN commits[i].parents :
               commits[i].parents[j] < Len(log) + i
  BY <1>1, <1>2
<1> QED
  BY <1>1, <1>3, <1>4, GrowKeepsInvariant

LEMMA CommitType ==
  ASSUME IInv, NEW c \in CommitsMade
  PROVE  /\ c \in 1..MaxCommits
         /\ log[c] \in Commit
         /\ Files(c) \in Snapshots
         /\ IsValid(Files(c))
<1>1. log \in Seq(Commit) /\ Len(log) <= MaxCommits /\ c \in 1..Len(log)
  BY DEF IInv, TypeOK, CommitsMade
<1>2. c \in 1..MaxCommits /\ log[c] \in Commit
  BY <1>1, BoundAssumption
<1> QED
  BY <1>2 DEF IInv, TreesStayLegal, Files, Commit

LEMMA InitHolds == Init => IInv
<1> SUFFICES ASSUME Init PROVE IInv
  OBVIOUS
<1>1. [parents |-> << >>, files |-> Empty] \in Commit
  BY EmptyIsValid DEF Commit
<1>2. /\ log \in Seq(Commit) /\ Len(log) = 1 /\ CommitsMade = {1}
      /\ log[1].parents = << >> /\ log[1].files = Empty
  BY <1>1 DEF Init, CommitsMade
<1> QED
  BY <1>2, EmptyIsValid, BoundAssumption DEF IInv, TypeOK, TreesStayLegal, Parents

LEMMA CreateCommitStep ==
  ASSUME IInv, NEW head \in CommitsMade, NEW files \in Snapshots,
         CreateCommit(head, files)
  PROVE  IInv'
<1> DEFINE commit == [parents |-> <<head>>, files |-> files]
<1>1. head \in 1..MaxCommits
  BY CommitType
<1>2. commit \in Commit
  BY <1>1 DEF Commit
<1>3. IsValid(commit.files) /\ Grow(<<commit>>)
  BY DEF CreateCommit
<1>4. Len(commit.parents) <= 2
      /\ \A j \in DOMAIN commit.parents : commit.parents[j] \in CommitsMade
  OBVIOUS
<1> HIDE DEF commit
<1> QED
  BY <1>2, <1>3, <1>4, GrowByOne

LEMMA MergeStep ==
  ASSUME IInv, NEW target \in CommitsMade, NEW source \in CommitsMade,
         Merge(target, source)
  PROVE  IInv'
<1>1. PICK base \in MergeBases(target, source) :
         /\ MergesCleanly(Files(base), Files(target), Files(source))
         /\ Grow(<<[parents |-> <<target, source>>,
                    files |-> Merged(Files(base), Files(target), Files(source))]>>)
  BY DEF Merge
<1> DEFINE files == Merged(Files(base), Files(target), Files(source))
           commit == [parents |-> <<target, source>>, files |-> files]
<1>2. files \in Snapshots
  <2>1. Files(target) \in Snapshots /\ Files(source) \in Snapshots
    BY CommitType
  <2> QED
    BY <2>1 DEF Merged, Snapshots
<1>3. commit \in Commit
  <2>1. target \in 1..MaxCommits /\ source \in 1..MaxCommits
    BY CommitType
  <2> HIDE DEF files
  <2> QED
    BY <2>1, <1>2 DEF Commit
<1>4. IsValid(commit.files) /\ Grow(<<commit>>)
  BY <1>1 DEF MergesCleanly
<1>5. Len(commit.parents) <= 2
      /\ \A j \in DOMAIN commit.parents : commit.parents[j] \in CommitsMade
  OBVIOUS
<1> HIDE DEF commit, files
<1> QED
  BY <1>3, <1>4, <1>5, GrowByOne

LEMMA SquashHistoryStep ==
  ASSUME IInv, NEW lineage \in Lineages, SquashHistory(lineage)
  PROVE  IInv'
<1> DEFINE commits == Rewritten(lineage)
<1>1. PICK n \in 1..Len(log) : lineage \in [1..n -> CommitsMade]
  BY DEF Lineages
<1>2. n \in Nat /\ n >= 1 /\ Len(log) \in Nat /\ log \in Seq(Commit)
  BY DEF IInv, TypeOK
<1>3. Len(lineage) = n
  BY <1>1, <1>2
<1>4. commits = [i \in 1..n |->
                   [parents |-> IF i = 1 THEN << >> ELSE <<Len(log) + i - 1>>,
                    files |-> Files(lineage[n + 1 - i])]]
  BY <1>3 DEF Rewritten
<1>5. Grow(commits)
  BY DEF SquashHistory
<1> HIDE DEF commits
<1>6. Len(commits) = n
  BY <1>2, <1>4
<1>7. Len(log) + n <= MaxCommits
  BY <1>5, <1>6 DEF Grow
<1>8. ASSUME NEW i \in 1..n
      PROVE  /\ commits[i] \in Commit
             /\ IsValid(commits[i].files)
             /\ Len(commits[i].parents) <= 2
             /\ \A j \in DOMAIN commits[i].parents :
                   commits[i].parents[j] < Len(log) + i
  <2>1. n + 1 - i \in 1..n
    BY <1>2
  <2>2. lineage[n + 1 - i] \in CommitsMade
    BY <1>1, <2>1
  <2>3. Files(lineage[n + 1 - i]) \in Snapshots /\ IsValid(Files(lineage[n + 1 - i]))
    BY <2>2, CommitType
  <2>4. commits[i].files = Files(lineage[n + 1 - i])
    BY <1>4
  <2>5. commits[i].parents = IF i = 1 THEN << >> ELSE <<Len(log) + i - 1>>
    BY <1>4
  <2>6. i # 1 => Len(log) + i - 1 \in 1..MaxCommits /\ Len(log) + i - 1 < Len(log) + i
    BY <1>2, <1>7, BoundAssumption
  <2>7. /\ commits[i].parents \in Seq(1..MaxCommits)
        /\ Len(commits[i].parents) <= 2
        /\ \A j \in DOMAIN commits[i].parents :
              commits[i].parents[j] < Len(log) + i
    <3>1. CASE i = 1
      BY <2>5, <3>1
    <3>2. CASE i # 1
      <4>1. commits[i].parents = <<Len(log) + i - 1>>
        BY <2>5, <3>2
      <4>2. Len(log) + i - 1 \in 1..MaxCommits /\ Len(log) + i - 1 < Len(log) + i
        BY <2>6, <3>2
      <4> QED
        BY <4>1, <4>2
    <3> QED
      BY <3>1, <3>2
  <2>8. commits[i] \in Commit
    <3>1. commits[i] = [parents |-> commits[i].parents, files |-> commits[i].files]
      BY <1>4
    <3> QED
      BY <3>1, <2>3, <2>4, <2>7 DEF Commit
  <2> QED
    BY <2>3, <2>4, <2>7, <2>8
<1>9. commits \in Seq(Commit)
  <2>1. commits \in [1..n -> Commit]
    BY <1>4, <1>8
  <2> QED
    BY <1>2, <2>1, SeqDef
<1> QED
  BY <1>5, <1>6, <1>8, <1>9, GrowKeepsInvariant

LEMMA StepKeepsInvariant ==
  ASSUME IInv, [Next]_log
  PROVE  IInv'
<1>1. CASE UNCHANGED log
  BY <1>1 DEF IInv, TypeOK, TreesStayLegal, CommitsMade, Parents
<1>2. ASSUME NEW head \in CommitsMade, NEW files \in Snapshots, CreateCommit(head, files)
      PROVE  IInv'
  BY <1>2, CreateCommitStep
<1>3. ASSUME NEW target \in CommitsMade, NEW source \in CommitsMade, Merge(target, source)
      PROVE  IInv'
  BY <1>3, MergeStep
<1>4. ASSUME NEW lineage \in Lineages, SquashHistory(lineage)
      PROVE  IInv'
  BY <1>4, SquashHistoryStep
<1> QED
  BY <1>1, <1>2, <1>3, <1>4 DEF Next

(***************************************************************************)
(* Every commit that create_commit(), merge() or squash_history() makes    *)
(* has a legal tree, and refers to older commits only.                     *)
(***************************************************************************)
THEOREM HistoryIsLegal == Spec => [](TypeOK /\ TreesStayLegal)
<1>1. IInv /\ [Next]_log => IInv'
  BY StepKeepsInvariant
<1>2. IInv => TypeOK /\ TreesStayLegal
  BY DEF IInv
<1> QED
  BY <1>1, <1>2, InitHolds, PTL DEF Spec

-----------------------------------------------------------------------------
(***************************************************************************)
(* The recursions of Ancestors and Distance have solutions: one on the     *)
(* commits up to a number gives one on those up to the next.               *)
(***************************************************************************)
LEMMA MembersOfSeq ==
  ASSUME NEW S, NEW s \in Seq(S), NEW i \in DOMAIN s
  PROVE  s[i] \in S
  OBVIOUS

LEMMA ParentsAreOlder ==
  ASSUME TypeOK, NEW c \in CommitsMade
  PROVE  /\ CommitsMade = 1..Len(log) /\ Len(log) \in Nat
         /\ Parents(c) \subseteq CommitsMade
         /\ \A p \in Parents(c) : p < c
<1>1. CommitsMade = 1..Len(log) /\ Len(log) \in Nat
  BY DEF TypeOK, CommitsMade
<1>2. log[c] \in Commit
  BY <1>1 DEF TypeOK
<1>3. log[c].parents \in Seq(1..MaxCommits)
  BY <1>2 DEF Commit
<1>4. \A p \in Parents(c) : p \in 1..MaxCommits
  BY <1>3, MembersOfSeq DEF Parents
<1>5. \A p \in Parents(c) : p < c
  BY DEF TypeOK
<1> QED
  BY <1>1, <1>4, <1>5, BoundAssumption

LEMMA AncestorsUnfold ==
  ASSUME TypeOK
  PROVE  Ancestors = [c \in CommitsMade |-> {c} \union UNION {Ancestors[p] : p \in Parents(c)}]
<1> DEFINE Body(f, c) == {c} \union UNION {f[p] : p \in Parents(c)}
           Gaps == {n \in 0..Len(log) : ~ \E f : f = [c \in 1..n |-> Body(f, c)]}
<1>1. CommitsMade = 1..Len(log) /\ Len(log) \in Nat
  BY DEF TypeOK, CommitsMade
<1>2. ASSUME Gaps # {}
      PROVE  FALSE
  <2>1. Gaps \subseteq Nat
    BY <1>1
  <2>2. PICK n \in Gaps : \A m \in Gaps : n <= m
    <3> HIDE DEF Gaps
    <3> QED
      BY <1>2, <2>1, LeastNumber
  <2>3. n # 0
    <3> DEFINE f == [c \in 1..0 |-> {}]
    <3>1. f = [c \in 1..0 |-> Body(f, c)]
      OBVIOUS
    <3> QED
      BY <2>2, <3>1
  <2>4. n - 1 \in 0..Len(log) /\ n - 1 \notin Gaps
    <3>1. n \in 0..Len(log)
      BY <2>2
    <3> HIDE DEF Gaps
    <3> QED
      BY <1>1, <2>2, <2>3, <3>1
  <2>5. PICK f : f = [c \in 1..(n - 1) |-> Body(f, c)]
    BY <2>4
  <2> DEFINE g == [c \in 1..n |-> Body(f, c)]
  <2>6. \A c \in 1..(n - 1) : g[c] = f[c]
    <3> HIDE DEF Body
    <3> QED
      BY <1>1, <2>2, <2>5
  <2>7. ASSUME NEW c \in 1..n
        PROVE  Body(g, c) = Body(f, c)
    <3>1. c \in CommitsMade /\ \A p \in Parents(c) : p \in 1..(n - 1)
      BY <1>1, <2>2, ParentsAreOlder
    <3> HIDE DEF g
    <3> QED
      BY <2>6, <3>1
  <2>8. g = [c \in 1..n |-> Body(g, c)]
    <3> HIDE DEF Body
    <3> QED
      BY <2>7
  <2> QED
    BY <2>2, <2>8
<1>3. \E f : f = [c \in CommitsMade |-> Body(f, c)]
  <2>1. Len(log) \in 0..Len(log) /\ Len(log) \notin Gaps
    <3> HIDE DEF Gaps
    <3> QED
      BY <1>1, <1>2
  <2> HIDE DEF Body
  <2> QED
    BY <1>1, <2>1
<1> QED
  BY <1>3 DEF Ancestors

LEMMA AncestorsAreOlder ==
  ASSUME TypeOK, NEW c \in CommitsMade
  PROVE  c \in Ancestors[c] /\ Ancestors[c] \subseteq 1..c
<1>1. CommitsMade = 1..Len(log) /\ Len(log) \in Nat
  BY DEF TypeOK, CommitsMade
<1> DEFINE Strays == {d \in CommitsMade : ~ Ancestors[d] \subseteq 1..d}
<1>2. ASSUME Strays # {}
      PROVE  FALSE
  <2>1. Strays \subseteq Nat
    BY <1>1
  <2>2. PICK d \in Strays : \A b \in Strays : d <= b
    <3> HIDE DEF Strays
    <3> QED
      BY <1>2, <2>1, LeastNumber
  <2>3. ASSUME NEW p \in Parents(d)
        PROVE  Ancestors[p] \subseteq 1..d
    <3>1. p \in CommitsMade /\ p < d
      BY <2>2, ParentsAreOlder
    <3>2. Ancestors[p] \subseteq 1..p
      BY <1>1, <2>2, <3>1
    <3> QED
      BY <1>1, <2>2, <3>1, <3>2
  <2>4. Ancestors[d] = {d} \union UNION {Ancestors[p] : p \in Parents(d)}
    BY <2>2, AncestorsUnfold
  <2> QED
    BY <1>1, <2>2, <2>3, <2>4
<1>3. c \in Ancestors[c]
  BY AncestorsUnfold
<1> QED
  BY <1>2, <1>3

LEMMA AncestorsTransitive ==
  ASSUME TypeOK, NEW c \in CommitsMade, NEW a \in Ancestors[c]
  PROVE  a \in CommitsMade /\ Ancestors[a] \subseteq Ancestors[c]
<1>1. CommitsMade = 1..Len(log) /\ Len(log) \in Nat
  BY DEF TypeOK, CommitsMade
<1> DEFINE Strays == {d \in CommitsMade : \E b \in Ancestors[d] : ~ Ancestors[b] \subseteq Ancestors[d]}
<1>2. ASSUME Strays # {}
      PROVE  FALSE
  <2>1. Strays \subseteq Nat
    BY <1>1
  <2>2. PICK d \in Strays : \A b \in Strays : d <= b
    <3> HIDE DEF Strays
    <3> QED
      BY <1>2, <2>1, LeastNumber
  <2>3. PICK b \in Ancestors[d] : ~ Ancestors[b] \subseteq Ancestors[d]
    BY <2>2
  <2>4. Ancestors[d] = {d} \union UNION {Ancestors[p] : p \in Parents(d)}
    BY <2>2, AncestorsUnfold
  <2>5. PICK p \in Parents(d) : b \in Ancestors[p]
    BY <2>3, <2>4
  <2>6. p \in CommitsMade /\ p < d
    BY <2>2, ParentsAreOlder
  <2>7. p \notin Strays
    BY <1>1, <2>2, <2>6
  <2>8. Ancestors[b] \subseteq Ancestors[p] /\ Ancestors[p] \subseteq Ancestors[d]
    BY <2>4, <2>5, <2>6, <2>7
  <2> QED
    BY <2>3, <2>8
<1>3. Ancestors[c] \subseteq 1..c
  BY AncestorsAreOlder
<1> QED
  BY <1>1, <1>2, <1>3

(***************************************************************************)
(* Least is what its name says.                                            *)
(***************************************************************************)
LEMMA LeastIsLeast ==
  ASSUME NEW S, S \subseteq Nat, S # {}
  PROVE  Least(S) \in S /\ \A m \in S : Least(S) <= m
  BY LeastNumber DEF Least

LEMMA DistanceUnfold ==
  ASSUME TypeOK
  PROVE  Distance = [c \in CommitsMade |-> [a \in Ancestors[c] |->
             IF a = c THEN 0
             ELSE 1 + Least({Distance[p][a] : p \in {q \in Parents(c) : a \in Ancestors[q]}})]]
<1> DEFINE Body(f, c) == [a \in Ancestors[c] |->
             IF a = c THEN 0
             ELSE 1 + Least({f[p][a] : p \in {q \in Parents(c) : a \in Ancestors[q]}})]
           Gaps == {n \in 0..Len(log) : ~ \E f : f = [c \in 1..n |-> Body(f, c)]}
<1>1. CommitsMade = 1..Len(log) /\ Len(log) \in Nat
  BY DEF TypeOK, CommitsMade
<1>2. ASSUME Gaps # {}
      PROVE  FALSE
  <2>1. Gaps \subseteq Nat
    BY <1>1
  <2>2. PICK n \in Gaps : \A m \in Gaps : n <= m
    <3> HIDE DEF Gaps
    <3> QED
      BY <1>2, <2>1, LeastNumber
  <2>3. n # 0
    <3> DEFINE f == [c \in 1..0 |-> {}]
    <3>1. f = [c \in 1..0 |-> Body(f, c)]
      <4> HIDE DEF Body
      <4> QED
        OBVIOUS
    <3> QED
      BY <2>2, <3>1
  <2>4. n - 1 \in 0..Len(log) /\ n - 1 \notin Gaps
    <3>1. n \in 0..Len(log)
      BY <2>2
    <3> HIDE DEF Gaps
    <3> QED
      BY <1>1, <2>2, <2>3, <3>1
  <2>5. PICK f : f = [c \in 1..(n - 1) |-> Body(f, c)]
    BY <2>4
  <2> DEFINE g == [c \in 1..n |-> Body(f, c)]
  <2>6. \A c \in 1..(n - 1) : g[c] = f[c]
    <3> HIDE DEF Body
    <3> QED
      BY <1>1, <2>2, <2>5
  <2>7. ASSUME NEW c \in 1..n
        PROVE  Body(g, c) = Body(f, c)
    <3>1. c \in CommitsMade /\ \A p \in Parents(c) : p \in 1..(n - 1)
      BY <1>1, <2>2, ParentsAreOlder
    <3> HIDE DEF g
    <3>2. ASSUME NEW a
          PROVE  {g[p][a] : p \in {q \in Parents(c) : a \in Ancestors[q]}}
                   = {f[p][a] : p \in {q \in Parents(c) : a \in Ancestors[q]}}
      BY <2>6, <3>1
    <3> QED
      BY <3>2
  <2>8. g = [c \in 1..n |-> Body(g, c)]
    <3> HIDE DEF Body
    <3> QED
      BY <2>7
  <2> QED
    BY <2>2, <2>8
<1>3. \E f : f = [c \in CommitsMade |-> Body(f, c)]
  <2>1. Len(log) \in 0..Len(log) /\ Len(log) \notin Gaps
    <3> HIDE DEF Gaps
    <3> QED
      BY <1>1, <1>2
  <2> HIDE DEF Body
  <2> QED
    BY <1>1, <2>1
<1> QED
  BY <1>3 DEF Distance

LEMMA DistanceTo ==
  ASSUME TypeOK, NEW c \in CommitsMade, NEW a \in Ancestors[c]
  PROVE  Distance[c][a] =
            IF a = c THEN 0
            ELSE 1 + Least({Distance[p][a] : p \in {q \in Parents(c) : a \in Ancestors[q]}})
<1>1. Distance[c] = [b \in Ancestors[c] |->
            IF b = c THEN 0
            ELSE 1 + Least({Distance[p][b] : p \in {q \in Parents(c) : b \in Ancestors[q]}})]
  BY DistanceUnfold, Zenon
<1> QED
  BY <1>1, Zenon

(***************************************************************************)
(* Each ancestor is at some distance.                                      *)
(***************************************************************************)
LEMMA DistanceType ==
  ASSUME TypeOK, NEW c \in CommitsMade, NEW a \in Ancestors[c]
  PROVE  Distance[c][a] \in Nat
<1>1. CommitsMade = 1..Len(log) /\ Len(log) \in Nat
  BY DEF TypeOK, CommitsMade
<1> DEFINE Strays == {d \in CommitsMade : \E b \in Ancestors[d] : Distance[d][b] \notin Nat}
<1>2. ASSUME Strays # {}
      PROVE  FALSE
  <2>1. Strays \subseteq Nat
    BY <1>1
  <2>2. PICK d \in Strays : \A b \in Strays : d <= b
    <3> HIDE DEF Strays
    <3> QED
      BY <1>2, <2>1, LeastNumber
  <2>3. PICK b \in Ancestors[d] : Distance[d][b] \notin Nat
    BY <2>2
  <2> DEFINE S == {Distance[p][b] : p \in {q \in Parents(d) : b \in Ancestors[q]}}
  <2>4. Distance[d][b] = IF b = d THEN 0 ELSE 1 + Least(S)
    <3>1. d \in CommitsMade
      BY <2>2
    <3> QED
      BY <2>3, <3>1, DistanceTo
  <2>5. b # d
    BY <2>3, <2>4
  <2>6. Ancestors[d] = {d} \union UNION {Ancestors[p] : p \in Parents(d)}
    BY <2>2, AncestorsUnfold
  <2>7. S # {}
    BY <2>3, <2>5, <2>6
  <2>8. S \subseteq Nat
    <3> SUFFICES ASSUME NEW p \in Parents(d), b \in Ancestors[p]
                 PROVE  Distance[p][b] \in Nat
      OBVIOUS
    <3>1. p \in CommitsMade /\ p < d
      BY <2>2, ParentsAreOlder
    <3>2. p \notin Strays
      BY <1>1, <2>2, <3>1
    <3> QED
      BY <3>1, <3>2
  <2> HIDE DEF S
  <2>9. Least(S) \in Nat
    BY <2>7, <2>8, LeastIsLeast
  <2> QED
    BY <2>3, <2>4, <2>5, <2>9
<1> QED
  BY <1>2

(***************************************************************************)
(* The criteria of the merge base do not tell the sides apart.             *)
(***************************************************************************)
LEMMA BasesAreSymmetric ==
  ASSUME TypeOK, NEW t \in CommitsMade, NEW s \in CommitsMade
  PROVE  MergeBases(t, s) = MergeBases(s, t)
<1>1. Common(t, s) = Common(s, t)
  BY DEF Common
<1>2. ASSUME NEW a \in Common(t, s), NEW b \in Common(t, s)
      PROVE  Nearer(t, s, a, b) <=> Nearer(s, t, a, b)
  <2>1. /\ Distance[t][a] \in Nat /\ Distance[t][b] \in Nat
        /\ Distance[s][a] \in Nat /\ Distance[s][b] \in Nat
    BY DistanceType DEF Common
  <2>2. \A m, n \in Nat : Larger(m, n) = Larger(n, m) /\ m + n = n + m
    BY DEF Larger
  <2> QED
    BY <2>1, <2>2 DEF Nearer
<1> QED
  BY <1>1, <1>2 DEF MergeBases

LEMMA OutcomesAreSymmetric ==
  ASSUME IInv, NEW t \in CommitsMade, NEW s \in CommitsMade
  PROVE  Outcomes(t, s) = Outcomes(s, t)
<1>1. MergeBases(t, s) = MergeBases(s, t)
  BY BasesAreSymmetric DEF IInv
<1>2. ASSUME NEW b \in MergeBases(t, s)
      PROVE  /\ MergesCleanly(Files(b), Files(t), Files(s))
                  <=> MergesCleanly(Files(b), Files(s), Files(t))
             /\ MergesCleanly(Files(b), Files(t), Files(s)) =>
                  Merged(Files(b), Files(t), Files(s)) = Merged(Files(b), Files(s), Files(t))
  <2>1. b \in CommitsMade
    BY AncestorsTransitive DEF IInv, MergeBases, Common
  <2>2. Files(b) \in Snapshots /\ Files(t) \in Snapshots /\ Files(s) \in Snapshots
    BY <2>1, CommitType
  <2> QED
    BY <2>2, MergeCommutes
<1> QED
  BY <1>1, <1>2 DEF Outcomes

-----------------------------------------------------------------------------
(***************************************************************************)
(* A history without a merge is a line.                                    *)
(***************************************************************************)
LEMMA LineHasOneParent ==
  ASSUME TypeOK, NEW c \in CommitsMade, ~ HasMerges(c)
  PROVE  \A p, q \in Parents(c) : p = q /\ ~ HasMerges(p)
<1>1. /\ Ancestors[c] = {c} \union UNION {Ancestors[p] : p \in Parents(c)}
      /\ Parents(c) \subseteq CommitsMade
  BY AncestorsUnfold, ParentsAreOlder
<1>2. ~ IsMerge(c) /\ log[c].parents \in Seq(1..MaxCommits)
  <2>1. log[c] \in Commit
    BY DEF TypeOK, CommitsMade
  <2> QED
    BY <1>1, <2>1 DEF HasMerges, Commit
<1>3. Len(log[c].parents) <= 1 /\ Len(log[c].parents) \in Nat
  BY <1>2 DEF IsMerge
<1>4. \A p, q \in Parents(c) : p = q
  <2> DEFINE parents == log[c].parents
  <2> HIDE DEF parents
  <2>1. parents \in Seq(1..MaxCommits) /\ Len(parents) <= 1 /\ Len(parents) \in Nat
    BY <1>2, <1>3 DEF parents
  <2>2. \A i, j \in DOMAIN parents : i = j
    BY <2>1
  <2> QED
    BY <2>2 DEF Parents, parents
<1> QED
  BY <1>1, <1>4 DEF HasMerges

LEMMA LineIsOrdered ==
  ASSUME TypeOK, NEW c \in CommitsMade, ~ HasMerges(c),
         NEW a \in Ancestors[c], NEW b \in Ancestors[c]
  PROVE  a \in Ancestors[b] \/ b \in Ancestors[a]
<1>1. CommitsMade = 1..Len(log) /\ Len(log) \in Nat
  BY DEF TypeOK, CommitsMade
<1> DEFINE Ordered(d) == \A x, y \in Ancestors[d] : x \in Ancestors[y] \/ y \in Ancestors[x]
           Strays == {d \in CommitsMade : ~ HasMerges(d) /\ ~ Ordered(d)}
<1>2. ASSUME Strays # {}
      PROVE  FALSE
  <2>1. Strays \subseteq Nat
    BY <1>1
  <2>2. PICK d \in Strays : \A e \in Strays : d <= e
    <3> HIDE DEF Strays
    <3> QED
      BY <1>2, <2>1, LeastNumber
  <2>3. d \in CommitsMade /\ ~ HasMerges(d) /\ ~ Ordered(d)
    BY <2>2
  <2>4. PICK x, y \in Ancestors[d] : ~ (x \in Ancestors[y] \/ y \in Ancestors[x])
    BY <2>3
  <2>5. x # d /\ y # d
    BY <2>4
  <2>6. Ancestors[d] = {d} \union UNION {Ancestors[p] : p \in Parents(d)}
    BY <2>3, AncestorsUnfold
  <2>7. PICK p \in Parents(d) : x \in Ancestors[p]
    BY <2>4, <2>5, <2>6
  <2>8. y \in Ancestors[p] /\ ~ HasMerges(p)
    BY <2>3, <2>4, <2>5, <2>6, LineHasOneParent
  <2>9. p \in CommitsMade /\ p < d
    BY <2>3, ParentsAreOlder
  <2>10. p \notin Strays
    BY <1>1, <2>2, <2>3, <2>9
  <2> QED
    BY <2>4, <2>7, <2>8, <2>9, <2>10
<1> QED
  BY <1>2

(***************************************************************************)
(* On a line, what came before an ancestor is farther away.                *)
(***************************************************************************)
LEMMA LineIsMeasured ==
  ASSUME TypeOK, NEW c \in CommitsMade, ~ HasMerges(c),
         NEW b \in Ancestors[c], NEW a \in Ancestors[b], a # b
  PROVE  Distance[c][b] < Distance[c][a]
<1>1. CommitsMade = 1..Len(log) /\ Len(log) \in Nat
  BY DEF TypeOK, CommitsMade
<1> DEFINE Measured(d) == \A y \in Ancestors[d] : \A x \in Ancestors[y] :
                             x # y => Distance[d][y] < Distance[d][x]
           Strays == {d \in CommitsMade : ~ HasMerges(d) /\ ~ Measured(d)}
<1>2. ASSUME Strays # {}
      PROVE  FALSE
  <2>1. Strays \subseteq Nat
    BY <1>1
  <2>2. PICK d \in Strays : \A e \in Strays : d <= e
    <3> HIDE DEF Strays
    <3> QED
      BY <1>2, <2>1, LeastNumber
  <2>3. d \in CommitsMade /\ ~ HasMerges(d) /\ ~ Measured(d)
    BY <2>2
  <2>4. PICK y \in Ancestors[d] : \E x \in Ancestors[y] :
                  x # y /\ ~ Distance[d][y] < Distance[d][x]
    BY <2>3
  <2>5. PICK x \in Ancestors[y] : x # y /\ ~ Distance[d][y] < Distance[d][x]
    BY <2>4
  <2>6. /\ Ancestors[d] = {d} \union UNION {Ancestors[p] : p \in Parents(d)}
        /\ Ancestors[y] \subseteq Ancestors[d] /\ y \in CommitsMade
    BY <2>3, AncestorsUnfold, AncestorsTransitive
  <2>7. x \in 1..y /\ y \in 1..d /\ x # d /\ x \in Ancestors[d]
    BY <1>1, <2>3, <2>5, <2>6, AncestorsAreOlder
  <2>8. PICK p \in Parents(d) : x \in Ancestors[p]
    BY <2>6, <2>7
  <2>9. p \in CommitsMade /\ p < d /\ ~ HasMerges(p) /\ \A q \in Parents(d) : q = p
    BY <2>3, ParentsAreOlder, LineHasOneParent
  <2>10. ASSUME NEW z \in Ancestors[p], z # d, z \in Ancestors[d]
         PROVE  Distance[d][z] = 1 + Distance[p][z] /\ Distance[p][z] \in Nat
    <3>1. {q \in Parents(d) : z \in Ancestors[q]} = {p}
      BY <2>9, <2>10
    <3> DEFINE S == {Distance[q][z] : q \in {q \in Parents(d) : z \in Ancestors[q]}}
    <3>2. S = {Distance[p][z]}
      BY <3>1
    <3>3. Distance[d][z] = 1 + Least(S)
      BY <2>3, <2>10, DistanceTo, Zenon
    <3>4. Distance[p][z] \in Nat
      BY <2>9, <2>10, DistanceType
    <3> HIDE DEF S
    <3>5. Least(S) = Distance[p][z]
      BY <3>2, <3>4, LeastIsLeast
    <3> QED
      BY <3>3, <3>4, <3>5
  <2>11. Distance[d][x] = 1 + Distance[p][x] /\ Distance[p][x] \in Nat
    BY <2>7, <2>8, <2>10
  <2>12. CASE y = d
    <3>1. Distance[d][y] = 0
      BY <2>3, <2>4, <2>12, DistanceTo, Zenon
    <3> QED
      BY <2>5, <2>11, <3>1
  <2>13. CASE y # d
    <3>1. y \in Ancestors[p]
      BY <2>4, <2>6, <2>9, <2>13
    <3>2. Distance[d][y] = 1 + Distance[p][y] /\ Distance[p][y] \in Nat
      BY <2>4, <2>10, <2>13, <3>1
    <3>3. p \notin Strays
      BY <1>1, <2>2, <2>3, <2>9
    <3>4. Distance[p][y] < Distance[p][x]
      BY <2>5, <2>9, <3>1, <3>3
    <3> QED
      BY <2>5, <2>11, <3>2, <3>4
  <2> QED
    BY <2>12, <2>13
<1> QED
  BY <1>2

LEMMA LinesHaveBestBase ==
  ASSUME TypeOK, NEW t \in CommitsMade, NEW s \in CommitsMade,
         ~ HasMerges(t), ~ HasMerges(s), NEW base \in MergeBases(t, s)
  PROVE  Common(t, s) \subseteq Ancestors[base]
<1> SUFFICES ASSUME NEW a \in Common(t, s), a \notin Ancestors[base] PROVE FALSE
  OBVIOUS
<1>1. /\ base \in Ancestors[t] /\ base \in Ancestors[s]
      /\ a \in Ancestors[t] /\ a \in Ancestors[s]
      /\ ~ Nearer(t, s, a, base)
  BY DEF MergeBases, Common
<1>2. base \in CommitsMade /\ base \in Ancestors[base]
  BY <1>1, AncestorsTransitive, AncestorsAreOlder
<1>3. base \in Ancestors[a] /\ a # base
  BY <1>1, <1>2, LineIsOrdered
<1>4. Distance[t][a] < Distance[t][base] /\ Distance[s][a] < Distance[s][base]
  BY <1>1, <1>3, LineIsMeasured
<1>5. /\ Distance[t][a] \in Nat /\ Distance[t][base] \in Nat
      /\ Distance[s][a] \in Nat /\ Distance[s][base] \in Nat
  BY <1>1, DistanceType
<1>6. Distance[t][a] + Distance[s][a] < Distance[t][base] + Distance[s][base]
  BY <1>4, <1>5
<1> QED
  BY <1>1, <1>6 DEF Nearer

-----------------------------------------------------------------------------
(***************************************************************************)
(* It makes no difference to the files which of two branches is merged     *)
(* into the other, in any history: the same merge bases are chosen, and    *)
(* from each of them the same files come out.                              *)
(***************************************************************************)
THEOREM MergesAreSymmetric == Spec => []MergesConverge
<1>1. IInv => MergesConverge
  BY OutcomesAreSymmetric DEF MergesConverge
<1>2. IInv /\ [Next]_log => IInv'
  BY StepKeepsInvariant
<1> QED
  BY <1>1, <1>2, InitHolds, PTL DEF Spec

(***************************************************************************)
(* Between histories without merges, the base is the youngest commit that  *)
(* they have in common: all others are among its ancestors.                *)
(***************************************************************************)
THEOREM BasesAreBest == Spec => []BaseIsBestOnLines
<1>1. IInv => BaseIsBestOnLines
  BY LinesHaveBestBase DEF BaseIsBestOnLines, IInv
<1>2. IInv /\ [Next]_log => IInv'
  BY StepKeepsInvariant
<1> QED
  BY <1>1, <1>2, InitHolds, PTL DEF Spec

-----------------------------------------------------------------------------
(***************************************************************************)
(* A loop ends if each of its steps, while it goes on, takes away from a   *)
(* weight that is no more than the number of rounds.                       *)
(***************************************************************************)
IsLoop(f, n, S, start) ==
    f = [k \in 0..n |-> IF k = 0 THEN start ELSE S[f[k - 1]]]

Shrinks(S, A, weight) ==
    \A w \in A : /\ weight[S[w]] <= weight[w]
                 /\ weight[w] # 0 => weight[S[w]] < weight[w]

LEMMA LoopExists ==
  ASSUME NEW n \in Nat, NEW A, NEW S \in [A -> A], NEW start \in A
  PROVE  \E f : IsLoop(f, n, S, start) /\ f \in [0..n -> A]
<1> DEFINE G == [k \in 1..n |-> S]
<1>1. IsStep(n, A, start, G)
  BY DEF IsStep
<1>2. PICK f : Follows(f, n, A, start, G)
  BY <1>1, Recursion
<1>3. /\ f \in [0..n -> A] /\ f[0] = start
      /\ \A k \in 1..n : f[k] = S[f[k - 1]]
  <2>1. \A k \in 1..n : G[k] = S
    OBVIOUS
  <2> HIDE DEF G
  <2> QED
    BY <1>2, <2>1 DEF Follows
<1>4. f = [k \in 0..n |-> IF k = 0 THEN start ELSE S[f[k - 1]]]
  <2>1. \A k \in 0..n : k # 0 => k \in 1..n
    OBVIOUS
  <2>2. ASSUME NEW k \in 0..n
        PROVE  f[k] = IF k = 0 THEN start ELSE S[f[k - 1]]
    BY <1>3, <2>1
  <2> QED
    BY <1>3, <2>2
<1> QED
  BY <1>3, <1>4 DEF IsLoop

Ends(n, A, S, start, weight) ==
    /\ n \in Nat /\ S \in [A -> A] /\ start \in A
    /\ weight \in [A -> Nat] /\ weight[start] <= n
    /\ Shrinks(S, A, weight)

LEMMA LoopEnds ==
  ASSUME NEW n, NEW A, NEW S, NEW start, NEW weight, Ends(n, A, S, start, weight),
         NEW f, IsLoop(f, n, S, start)
  PROVE  f[n] \in A /\ weight[f[n]] = 0
<1> USE DEF Ends
<1> DEFINE T == {k \in 0..n : f[k] \in A /\ (weight[f[k]] = 0 \/ weight[f[k]] + k <= n)}
<1>1. \A k \in 0..n : f[k] = IF k = 0 THEN start ELSE S[f[k - 1]]
  <2> DEFINE F(k) == IF k = 0 THEN start ELSE S[f[k - 1]]
  <2>1. f = [k \in 0..n |-> F(k)]
    BY DEF IsLoop
  <2> QED
    BY <2>1, Zenon
<1>2. 0 \in T
  <2>1. 0 \in 0..n /\ f[0] = start
    BY <1>1
  <2> QED
    BY <2>1
<1>3. ASSUME NEW k \in 1..n, k - 1 \in T
      PROVE  k \in T
  <2>1. k \in 0..n /\ k # 0 /\ k - 1 \in 0..n
    OBVIOUS
  <2>2. f[k] = S[f[k - 1]]
    BY <1>1, <2>1
  <2> DEFINE w == f[k - 1]
  <2>3. w \in A /\ (weight[w] = 0 \/ weight[w] + (k - 1) <= n)
    BY <1>3
  <2>4. /\ S[w] \in A /\ weight[S[w]] \in Nat /\ weight[w] \in Nat
        /\ weight[S[w]] <= weight[w]
        /\ weight[w] # 0 => weight[S[w]] < weight[w]
    BY <2>3 DEF Shrinks
  <2> HIDE DEF w
  <2>5. weight[S[w]] = 0 \/ weight[S[w]] + k <= n
    BY <2>1, <2>3, <2>4
  <2>6. f[k] = S[w]
    BY <2>2 DEF w
  <2> QED
    BY <2>1, <2>4, <2>5, <2>6
<1>4. n \in T
  <2> HIDE DEF T
  <2> QED
    BY <1>2, <1>3, UpTo
<1>5. f[n] \in A /\ (weight[f[n]] = 0 \/ weight[f[n]] + n <= n) /\ weight[f[n]] \in Nat
  BY <1>4
<1> QED
  BY <1>5

LEMMA RoundsType ==
  ASSUME TypeOK
  PROVE  Rounds \in Nat /\ Len(log) \in Nat /\ Rounds = 2 * Len(log) + 1
  BY ParentsAreOlder DEF TypeOK, Rounds

LEMMA MeasureLoop ==
  ASSUME TypeOK, NEW A, NEW start, NEW weight,
         \A w \in A : Measure(w) \in A,
         Ends(Rounds, A, [w \in A |-> Measure(w)], start, weight)
  PROVE  Loop(Measure, start) \in A /\ weight[Loop(Measure, start)] = 0
<1> DEFINE S == [w \in A |-> Measure(w)]
           IsIt(f) == f = [k \in 0..Rounds |-> IF k = 0 THEN start ELSE Measure(f[k - 1])]
<1>1. S \in [A -> A] /\ Rounds \in Nat /\ start \in A /\ Ends(Rounds, A, S, start, weight)
  BY RoundsType DEF Ends
<1>2. PICK g : IsLoop(g, Rounds, S, start) /\ g \in [0..Rounds -> A]
  BY <1>1, LoopExists
<1>3. IsIt(g)
  <2>1. \A k \in 0..Rounds : k # 0 => S[g[k - 1]] = Measure(g[k - 1])
    BY <1>1, <1>2
  <2>2. g = [k \in 0..Rounds |-> IF k = 0 THEN start ELSE S[g[k - 1]]]
    BY <1>2 DEF IsLoop
  <2> HIDE DEF S
  <2> QED
    BY <2>1, <2>2
<1> DEFINE f == CHOOSE h : IsIt(h)
<1>4. IsIt(f)
  <2> HIDE DEF IsIt
  <2> QED
    BY <1>3
<1>5. Loop(Measure, start) = f[Rounds]
  BY DEF Loop
<1> HIDE DEF f
<1>6. f \in [0..Rounds -> A]
  <2> DEFINE T == {k \in 0..Rounds : f[k] \in A}
  <2>1. 0 \in T
    BY <1>1, <1>4
  <2>2. ASSUME NEW k \in 1..Rounds, k - 1 \in T
        PROVE  k \in T
    <3>1. k \in 0..Rounds /\ k # 0 /\ f[k - 1] \in A
      BY <1>1, <2>2
    <3>2. f[k] = Measure(f[k - 1])
      BY <1>4, <3>1
    <3> QED
      BY <1>1, <3>1, <3>2
  <2>3. 0..Rounds \subseteq T
    <3> HIDE DEF T
    <3> QED
      BY <1>1, <2>1, <2>2, UpTo
  <2> QED
    BY <1>4, <2>3
<1>7. IsLoop(f, Rounds, S, start)
  <2>1. \A k \in 0..Rounds : k # 0 => S[f[k - 1]] = Measure(f[k - 1])
    BY <1>1, <1>6
  <2> HIDE DEF S
  <2> QED
    BY <1>4, <2>1 DEF IsLoop
<1> HIDE DEF IsIt, S
<1>8. f[Rounds] \in A /\ weight[f[Rounds]] = 0
  BY <1>1, <1>7, LoopEnds
<1> QED
  BY <1>5, <1>8

LEMMA VisitLoop ==
  ASSUME TypeOK, NEW A, NEW start, NEW weight,
         \A w \in A : Visit(w) \in A,
         Ends(Rounds, A, [w \in A |-> Visit(w)], start, weight)
  PROVE  Loop(Visit, start) \in A /\ weight[Loop(Visit, start)] = 0
<1> DEFINE S == [w \in A |-> Visit(w)]
           IsIt(f) == f = [k \in 0..Rounds |-> IF k = 0 THEN start ELSE Visit(f[k - 1])]
<1>1. S \in [A -> A] /\ Rounds \in Nat /\ start \in A /\ Ends(Rounds, A, S, start, weight)
  BY RoundsType DEF Ends
<1>2. PICK g : IsLoop(g, Rounds, S, start) /\ g \in [0..Rounds -> A]
  BY <1>1, LoopExists
<1>3. IsIt(g)
  <2>1. \A k \in 0..Rounds : k # 0 => S[g[k - 1]] = Visit(g[k - 1])
    BY <1>1, <1>2
  <2>2. g = [k \in 0..Rounds |-> IF k = 0 THEN start ELSE S[g[k - 1]]]
    BY <1>2 DEF IsLoop
  <2> HIDE DEF S
  <2> QED
    BY <2>1, <2>2
<1> DEFINE f == CHOOSE h : IsIt(h)
<1>4. IsIt(f)
  <2> HIDE DEF IsIt
  <2> QED
    BY <1>3
<1>5. Loop(Visit, start) = f[Rounds]
  BY DEF Loop
<1> HIDE DEF f
<1>6. f \in [0..Rounds -> A]
  <2> DEFINE T == {k \in 0..Rounds : f[k] \in A}
  <2>1. 0 \in T
    BY <1>1, <1>4
  <2>2. ASSUME NEW k \in 1..Rounds, k - 1 \in T
        PROVE  k \in T
    <3>1. k \in 0..Rounds /\ k # 0 /\ f[k - 1] \in A
      BY <1>1, <2>2
    <3>2. f[k] = Visit(f[k - 1])
      BY <1>4, <3>1
    <3> QED
      BY <1>1, <3>1, <3>2
  <2>3. 0..Rounds \subseteq T
    <3> HIDE DEF T
    <3> QED
      BY <1>1, <2>1, <2>2, UpTo
  <2> QED
    BY <1>4, <2>3
<1>7. IsLoop(f, Rounds, S, start)
  <2>1. \A k \in 0..Rounds : k # 0 => S[f[k - 1]] = Visit(f[k - 1])
    BY <1>1, <1>6
  <2> HIDE DEF S
  <2> QED
    BY <1>4, <2>1 DEF IsLoop
<1> HIDE DEF IsIt, S
<1>8. f[Rounds] \in A /\ weight[f[Rounds]] = 0
  BY <1>1, <1>7, LoopEnds
<1> QED
  BY <1>5, <1>8

LEMMA SearchLoop ==
  ASSUME TypeOK, NEW head, NEW p, NEW A, NEW start, NEW weight,
         \A w \in A : Search(w, p, Files(head)[p]) \in A,
         Ends(Rounds, A, [w \in A |-> Search(w, p, Files(head)[p])], start, weight),
         start = [pending |-> <<head>>, visited |-> {}, last |-> None]
  PROVE  \E w \in A : weight[w] = 0 /\ LastCommit(head, p) = w.last
<1> DEFINE S == [w \in A |-> Search(w, p, Files(head)[p])]
           IsIt(f) == f = [k \in 0..Rounds |-> IF k = 0 THEN start ELSE Search(f[k - 1], p, Files(head)[p])]
<1>1. S \in [A -> A] /\ Rounds \in Nat /\ start \in A /\ Ends(Rounds, A, S, start, weight)
  BY RoundsType DEF Ends
<1>2. PICK g : IsLoop(g, Rounds, S, start) /\ g \in [0..Rounds -> A]
  BY <1>1, LoopExists
<1>3. IsIt(g)
  <2>1. \A k \in 0..Rounds : k # 0 => S[g[k - 1]] = Search(g[k - 1], p, Files(head)[p])
    BY <1>1, <1>2
  <2>2. g = [k \in 0..Rounds |-> IF k = 0 THEN start ELSE S[g[k - 1]]]
    BY <1>2 DEF IsLoop
  <2> HIDE DEF S
  <2> QED
    BY <2>1, <2>2
<1> DEFINE f == CHOOSE h : IsIt(h)
<1>4. IsIt(f)
  <2> HIDE DEF IsIt
  <2> QED
    BY <1>3
<1>5. LastCommit(head, p) = f[Rounds].last
  BY DEF Loop, LastCommit
<1> HIDE DEF f
<1>6. f \in [0..Rounds -> A]
  <2> DEFINE T == {k \in 0..Rounds : f[k] \in A}
  <2>1. 0 \in T
    BY <1>1, <1>4
  <2>2. ASSUME NEW k \in 1..Rounds, k - 1 \in T
        PROVE  k \in T
    <3>1. k \in 0..Rounds /\ k # 0 /\ f[k - 1] \in A
      BY <1>1, <2>2
    <3>2. f[k] = Search(f[k - 1], p, Files(head)[p])
      BY <1>4, <3>1
    <3> QED
      BY <1>1, <3>1, <3>2
  <2>3. 0..Rounds \subseteq T
    <3> HIDE DEF T
    <3> QED
      BY <1>1, <2>1, <2>2, UpTo
  <2> QED
    BY <1>4, <2>3
<1>7. IsLoop(f, Rounds, S, start)
  <2>1. \A k \in 0..Rounds : k # 0 => S[f[k - 1]] = Search(f[k - 1], p, Files(head)[p])
    BY <1>1, <1>6
  <2> HIDE DEF S
  <2> QED
    BY <1>4, <2>1 DEF IsLoop
<1> HIDE DEF IsIt, S
<1>8. f[Rounds] \in A /\ weight[f[Rounds]] = 0
  BY <1>1, <1>7, LoopEnds
<1> QED
  BY <1>5, <1>8

LEMMA LineageLoop ==
  ASSUME TypeOK, NEW A, NEW start, NEW weight,
         \A w \in A : GoBack(w) \in A,
         Ends(Rounds, A, [w \in A |-> GoBack(w)], start, weight)
  PROVE  Loop(GoBack, start) \in A /\ weight[Loop(GoBack, start)] = 0
<1> DEFINE S == [w \in A |-> GoBack(w)]
           IsIt(f) == f = [k \in 0..Rounds |-> IF k = 0 THEN start ELSE GoBack(f[k - 1])]
<1>1. S \in [A -> A] /\ Rounds \in Nat /\ start \in A /\ Ends(Rounds, A, S, start, weight)
  BY RoundsType DEF Ends
<1>2. PICK g : IsLoop(g, Rounds, S, start) /\ g \in [0..Rounds -> A]
  BY <1>1, LoopExists
<1>3. IsIt(g)
  <2>1. \A k \in 0..Rounds : k # 0 => S[g[k - 1]] = GoBack(g[k - 1])
    BY <1>1, <1>2
  <2>2. g = [k \in 0..Rounds |-> IF k = 0 THEN start ELSE S[g[k - 1]]]
    BY <1>2 DEF IsLoop
  <2> HIDE DEF S
  <2> QED
    BY <2>1, <2>2
<1> DEFINE f == CHOOSE h : IsIt(h)
<1>4. IsIt(f)
  <2> HIDE DEF IsIt
  <2> QED
    BY <1>3
<1>5. Loop(GoBack, start) = f[Rounds]
  BY DEF Loop
<1> HIDE DEF f
<1>6. f \in [0..Rounds -> A]
  <2> DEFINE T == {k \in 0..Rounds : f[k] \in A}
  <2>1. 0 \in T
    BY <1>1, <1>4
  <2>2. ASSUME NEW k \in 1..Rounds, k - 1 \in T
        PROVE  k \in T
    <3>1. k \in 0..Rounds /\ k # 0 /\ f[k - 1] \in A
      BY <1>1, <2>2
    <3>2. f[k] = GoBack(f[k - 1])
      BY <1>4, <3>1
    <3> QED
      BY <1>1, <3>1, <3>2
  <2>3. 0..Rounds \subseteq T
    <3> HIDE DEF T
    <3> QED
      BY <1>1, <2>1, <2>2, UpTo
  <2> QED
    BY <1>4, <2>3
<1>7. IsLoop(f, Rounds, S, start)
  <2>1. \A k \in 0..Rounds : k # 0 => S[f[k - 1]] = GoBack(f[k - 1])
    BY <1>1, <1>6
  <2> HIDE DEF S
  <2> QED
    BY <1>4, <2>1 DEF IsLoop
<1> HIDE DEF IsIt, S
<1>8. f[Rounds] \in A /\ weight[f[Rounds]] = 0
  BY <1>1, <1>7, LoopEnds
<1> QED
  BY <1>5, <1>8

LEMMA BlockLoop ==
  ASSUME TypeOK, NEW head, NEW lineage, NEW A, NEW start, NEW weight,
         \A w \in A : Seek(w, lineage) \in A,
         Ends(Rounds, A, [w \in A |-> Seek(w, lineage)], start, weight),
         start = [at |-> head, seen |-> {}]
  PROVE  \E w \in A : weight[w] = 0 /\ (Blocks(head, lineage) <=> w.at \in lineage)
<1> DEFINE S == [w \in A |-> Seek(w, lineage)]
           IsIt(f) == f = [k \in 0..Rounds |-> IF k = 0 THEN start ELSE Seek(f[k - 1], lineage)]
<1>1. S \in [A -> A] /\ Rounds \in Nat /\ start \in A /\ Ends(Rounds, A, S, start, weight)
  BY RoundsType DEF Ends
<1>2. PICK g : IsLoop(g, Rounds, S, start) /\ g \in [0..Rounds -> A]
  BY <1>1, LoopExists
<1>3. IsIt(g)
  <2>1. \A k \in 0..Rounds : k # 0 => S[g[k - 1]] = Seek(g[k - 1], lineage)
    BY <1>1, <1>2
  <2>2. g = [k \in 0..Rounds |-> IF k = 0 THEN start ELSE S[g[k - 1]]]
    BY <1>2 DEF IsLoop
  <2> HIDE DEF S
  <2> QED
    BY <2>1, <2>2
<1> DEFINE f == CHOOSE h : IsIt(h)
<1>4. IsIt(f)
  <2> HIDE DEF IsIt
  <2> QED
    BY <1>3
<1>5. (Blocks(head, lineage) <=> f[Rounds].at \in lineage)
  BY DEF Loop, Blocks
<1> HIDE DEF f
<1>6. f \in [0..Rounds -> A]
  <2> DEFINE T == {k \in 0..Rounds : f[k] \in A}
  <2>1. 0 \in T
    BY <1>1, <1>4
  <2>2. ASSUME NEW k \in 1..Rounds, k - 1 \in T
        PROVE  k \in T
    <3>1. k \in 0..Rounds /\ k # 0 /\ f[k - 1] \in A
      BY <1>1, <2>2
    <3>2. f[k] = Seek(f[k - 1], lineage)
      BY <1>4, <3>1
    <3> QED
      BY <1>1, <3>1, <3>2
  <2>3. 0..Rounds \subseteq T
    <3> HIDE DEF T
    <3> QED
      BY <1>1, <2>1, <2>2, UpTo
  <2> QED
    BY <1>4, <2>3
<1>7. IsLoop(f, Rounds, S, start)
  <2>1. \A k \in 0..Rounds : k # 0 => S[f[k - 1]] = Seek(f[k - 1], lineage)
    BY <1>1, <1>6
  <2> HIDE DEF S
  <2> QED
    BY <1>4, <2>1 DEF IsLoop
<1> HIDE DEF IsIt, S
<1>8. f[Rounds] \in A /\ weight[f[Rounds]] = 0
  BY <1>1, <1>7, LoopEnds
<1> QED
  BY <1>5, <1>8

-----------------------------------------------------------------------------
(***************************************************************************)
(* What is in a queue or on a stack after an operation on it.              *)
(***************************************************************************)

LEMMA ToSetOfSeq ==
  ASSUME NEW S, NEW s \in Seq(S)
  PROVE  ToSet(s) \subseteq S /\ ToSet(<< >>) = {}
  BY DEF ToSet

LEMMA ToSetOfJoined ==
  ASSUME NEW S, NEW s \in Seq(S), NEW t \in Seq(S)
  PROVE  /\ s \o t \in Seq(S) /\ Len(s \o t) = Len(s) + Len(t)
         /\ ToSet(s \o t) = ToSet(s) \union ToSet(t)
<1> DEFINE u == s \o t
<1>1. /\ u \in Seq(S) /\ Len(u) = Len(s) + Len(t) /\ Len(s) \in Nat /\ Len(t) \in Nat
      /\ \A i \in 1..Len(s) + Len(t) : u[i] = IF i <= Len(s) THEN s[i] ELSE t[i - Len(s)]
  BY ConcatProperties
<1> HIDE DEF u
<1>2. DOMAIN u = 1..Len(u) /\ DOMAIN s = 1..Len(s) /\ DOMAIN t = 1..Len(t)
  BY <1>1
<1>3. ASSUME NEW x \in ToSet(u)
      PROVE  x \in ToSet(s) \union ToSet(t)
  <2>1. PICK i \in 1..Len(s) + Len(t) : x = u[i]
    BY <1>1, <1>2 DEF ToSet
  <2>2. CASE i <= Len(s)
    BY <1>1, <1>2, <2>1, <2>2 DEF ToSet
  <2>3. CASE ~ i <= Len(s)
    <3>1. i - Len(s) \in 1..Len(t) /\ x = t[i - Len(s)]
      BY <1>1, <2>1, <2>3
    <3> QED
      BY <1>2, <3>1 DEF ToSet
  <2> QED
    BY <2>2, <2>3
<1>4. ASSUME NEW i \in 1..Len(s)
      PROVE  s[i] \in ToSet(u)
  BY <1>1, <1>2 DEF ToSet
<1>5. ASSUME NEW i \in 1..Len(t)
      PROVE  t[i] \in ToSet(u)
  <2>1. /\ Len(s) + i \in 1..Len(s) + Len(t) /\ ~ Len(s) + i <= Len(s)
        /\ (Len(s) + i) - Len(s) = i
    BY <1>1
  <2>2. u[Len(s) + i] = t[i]
    BY <1>1, <2>1
  <2> QED
    BY <1>1, <1>2, <2>1, <2>2 DEF ToSet
<1>6. ToSet(s) \union ToSet(t) \subseteq ToSet(u)
  BY <1>2, <1>4, <1>5 DEF ToSet
<1> QED
  BY <1>1, <1>3, <1>6 DEF u

LEMMA ToSetOfAppend ==
  ASSUME NEW S, NEW s \in Seq(S), NEW x \in S
  PROVE  /\ Append(s, x) \in Seq(S) /\ Len(Append(s, x)) = Len(s) + 1
         /\ ToSet(Append(s, x)) = ToSet(s) \union {x}
<1>1. <<x>> \in Seq(S) /\ Len(<<x>>) = 1 /\ ToSet(<<x>>) = {x}
  BY DEF ToSet
<1>2. Append(s, x) = s \o <<x>>
  OBVIOUS
<1> DEFINE t == <<x>>
<1>3. t \in Seq(S) /\ Len(t) = 1 /\ ToSet(t) = {x} /\ Append(s, x) = s \o t
  BY <1>1, <1>2
<1> HIDE DEF t
<1>4. s \o t \in Seq(S) /\ Len(s \o t) = Len(s) + Len(t) /\ ToSet(s \o t) = ToSet(s) \union ToSet(t)
  BY <1>3, ToSetOfJoined
<1> QED
  BY <1>3, <1>4

LEMMA ToSetOfTail ==
  ASSUME NEW S, NEW s \in Seq(S), s # << >>
  PROVE  /\ Head(s) \in ToSet(s) /\ Tail(s) \in Seq(S) /\ Len(Tail(s)) = Len(s) - 1
         /\ ToSet(s) = {Head(s)} \union ToSet(Tail(s))
<1>1. s = <<Head(s)>> \o Tail(s) /\ Head(s) \in S /\ Tail(s) \in Seq(S) /\ Len(Tail(s)) = Len(s) - 1
  OBVIOUS
<1>2. <<Head(s)>> \in Seq(S) /\ ToSet(<<Head(s)>>) = {Head(s)}
  BY <1>1 DEF ToSet
<1>3. ToSet(<<Head(s)>> \o Tail(s)) = ToSet(<<Head(s)>>) \union ToSet(Tail(s))
  BY <1>1, <1>2, ToSetOfJoined
<1> QED
  BY <1>1, <1>2, <1>3

LEMMA ToSetOfFront ==
  ASSUME NEW S, NEW s \in Seq(S), s # << >>
  PROVE  /\ Last(s) \in ToSet(s) /\ Front(s) \in Seq(S) /\ Len(Front(s)) = Len(s) - 1
         /\ ToSet(s) = ToSet(Front(s)) \union {Last(s)}
<1> DEFINE n == Len(s)
           t == SubSeq(s, 1, n - 1)
<1>1. n \in Nat /\ n > 0 /\ 1 \in Int /\ n - 1 \in Int /\ \A i \in 1..n : s[i] \in S
  BY EmptySeq
<1>2. \A i \in 1..n - 1 : s[i] \in S
  BY <1>1
<1>3. /\ t \in Seq(S) /\ Len(t) = IF 1 <= n - 1 THEN (n - 1) - 1 + 1 ELSE 0
      /\ \A i \in 1..(n - 1) - 1 + 1 : t[i] = s[1 + i - 1]
  <2> HIDE DEF n
  <2> QED
    BY <1>1, <1>2, SubSeqProperties
<1>4. Len(t) = n - 1 /\ DOMAIN t = 1..n - 1 /\ \A i \in 1..n - 1 : t[i] = s[i]
  <2>1. Len(t) = n - 1
    <3> HIDE DEF t, n
    <3> QED
      BY <1>1, <1>3
  <2>2. DOMAIN t = 1..n - 1
    BY <1>3, <2>1
  <2> HIDE DEF t
  <2>3. ASSUME NEW i \in 1..n - 1
        PROVE  t[i] = s[i]
    <3>1. i \in 1..(n - 1) - 1 + 1 /\ 1 + i - 1 = i
      BY <1>1
    <3> QED
      BY <1>3, <3>1
  <2> QED
    BY <2>1, <2>2, <2>3
<1>5. Front(s) = t /\ Last(s) = s[n]
  BY DEF Front, Last
<1> HIDE DEF t
<1>6. DOMAIN s = 1..n
  OBVIOUS
<1> HIDE DEF n
<1>7. \A i \in 1..n : i \in 1..n - 1 \/ i = n
  BY <1>1
<1> QED
  BY <1>1, <1>3, <1>4, <1>5, <1>6, <1>7 DEF ToSet, n

LEMMA ToSetOfReverse ==
  ASSUME NEW S, NEW s \in Seq(S)
  PROVE  /\ Reverse(s) \in Seq(S) /\ Len(Reverse(s)) = Len(s)
         /\ ToSet(Reverse(s)) = ToSet(s)
<1> DEFINE n == Len(s)
           r == [i \in 1..n |-> s[(n - i) + 1]]
<1>1. Reverse(s) = r /\ n \in Nat /\ DOMAIN s = 1..n
  BY DEF Reverse
<1> HIDE DEF n
<1>2. \A i \in 1..n : (n - i) + 1 \in 1..n /\ (n - ((n - i) + 1)) + 1 = i
  BY <1>1
<1>3. \A i \in 1..n : s[i] \in S
  BY <1>1
<1>4. r \in [1..n -> S] /\ DOMAIN r = 1..n /\ \A i \in 1..n : r[i] = s[(n - i) + 1]
  BY <1>2, <1>3
<1> HIDE DEF r
<1>5. r \in Seq(S) /\ Len(r) = n
  BY <1>1, <1>4
<1>6. \A i \in 1..n : s[i] = r[(n - i) + 1]
  BY <1>2, <1>4
<1>7. ToSet(r) = ToSet(s)
  BY <1>1, <1>2, <1>4, <1>6 DEF ToSet
<1> QED
  BY <1>1, <1>5, <1>7 DEF n

-----------------------------------------------------------------------------
(***************************************************************************)
(* What a walk along the parents can reach.                                *)
(***************************************************************************)

LEMMA ParentsOf ==
  ASSUME TypeOK, NEW c \in CommitsMade
  PROVE  /\ log[c].parents \in Seq(CommitsMade) /\ Len(log[c].parents) \in 0..2
         /\ Parents(c) = ToSet(log[c].parents)
<1> DEFINE s == log[c].parents
<1>1. s \in Seq(1..MaxCommits) /\ Len(s) <= 2
  <2>1. log[c] \in Commit
    BY DEF TypeOK, CommitsMade
  <2> QED
    BY <2>1 DEF Commit, TypeOK
<1>2. Parents(c) = ToSet(s)
  BY DEF Parents, ToSet
<1>3. ToSet(s) \subseteq CommitsMade
  BY <1>2, ParentsAreOlder
<1> HIDE DEF s
<1>4. Len(s) \in Nat /\ DOMAIN s = 1..Len(s) /\ s \in [1..Len(s) -> CommitsMade]
  BY <1>1, <1>3 DEF ToSet
<1>5. s \in Seq(CommitsMade)
  BY <1>4
<1>6. Len(s) \in 0..2
  BY <1>1, <1>4
<1> QED
  BY <1>2, <1>5, <1>6 DEF s

\* The ancestors of a commit are the least closed set around it.
LEMMA AncestorsAreLeast ==
  ASSUME TypeOK, NEW c \in CommitsMade, NEW S, c \in S,
         \A x \in S \intersect Ancestors[c] : Parents(x) \subseteq S
  PROVE  Ancestors[c] \subseteq S
<1>1. CommitsMade = 1..Len(log) /\ Len(log) \in Nat
  BY ParentsAreOlder
<1> DEFINE Strays == {d \in CommitsMade : d \in Ancestors[c] /\ d \in S /\ ~ Ancestors[d] \subseteq S}
<1>2. ASSUME Strays # {}
      PROVE  FALSE
  <2>1. Strays \subseteq Nat
    BY <1>1
  <2>2. PICK d \in Strays : \A b \in Strays : d <= b
    <3> HIDE DEF Strays
    <3> QED
      BY <1>2, <2>1, LeastNumber
  <2>3. ASSUME NEW p \in Parents(d)
        PROVE  Ancestors[p] \subseteq S
    <3>1. p \in CommitsMade /\ p < d
      BY <2>2, ParentsAreOlder
    <3>2. p \in S
      BY <2>2
    <3>3. p \in Ancestors[c]
      <4>1. Ancestors[d] = {d} \union UNION {Ancestors[q] : q \in Parents(d)}
        BY <2>2, AncestorsUnfold
      <4>2. p \in Ancestors[d]
        BY <3>1, <4>1, AncestorsAreOlder
      <4> QED
        BY <2>2, <4>2, AncestorsTransitive
    <3>4. p \notin Strays
      BY <1>1, <2>2, <3>1
    <3> QED
      BY <3>1, <3>2, <3>3, <3>4
  <2>4. Ancestors[d] = {d} \union UNION {Ancestors[p] : p \in Parents(d)}
    BY <2>2, AncestorsUnfold
  <2> QED
    BY <2>2, <2>3, <2>4
<1>3. c \in Ancestors[c]
  BY AncestorsAreOlder
<1> QED
  BY <1>2, <1>3

LEMMA AncestorsAreClosed ==
  ASSUME TypeOK, NEW c \in CommitsMade, NEW a \in Ancestors[c], NEW p \in Parents(a)
  PROVE  p \in Ancestors[c]
<1>1. a \in CommitsMade
  BY AncestorsTransitive
<1>2. Ancestors[a] = {a} \union UNION {Ancestors[q] : q \in Parents(a)}
  BY <1>1, AncestorsUnfold
<1>3. p \in CommitsMade
  BY <1>1, ParentsAreOlder
<1>4. p \in Ancestors[a]
  BY <1>2, <1>3, AncestorsAreOlder
<1> QED
  BY <1>4, AncestorsTransitive

\* The commits that a walk has not looked behind yet.
Left(V) == Cardinality(CommitsMade \ V)

LEMMA LeftLess ==
  ASSUME TypeOK, NEW V
  PROVE  /\ Left(V) \in Nat /\ Left({}) = Len(log)
         /\ \A c \in CommitsMade : c \notin V => Left(V \union {c}) = Left(V) - 1
<1>1. CommitsMade = 1..Len(log) /\ Len(log) \in Nat
  BY DEF TypeOK, CommitsMade
<1>2. IsFiniteSet(CommitsMade) /\ Cardinality(CommitsMade) = Len(log)
  <2>1. 1 \in Int /\ Len(log) \in Int
    BY <1>1
  <2>2. IsFiniteSet(1..Len(log)) /\ Cardinality(1..Len(log)) = IF 1 > Len(log) THEN 0 ELSE Len(log) - 1 + 1
    BY <2>1, FS_Interval
  <2> QED
    BY <1>1, <2>2
<1> DEFINE T == CommitsMade \ V
<1>3. IsFiniteSet(T) /\ Cardinality(T) \in Nat
  BY <1>2, FS_Subset, FS_CardinalityType
<1>4. ASSUME NEW c \in CommitsMade, c \notin V
      PROVE  Left(V \union {c}) = Left(V) - 1
  <2>1. CommitsMade \ (V \union {c}) = T \ {c} /\ c \in T
    BY <1>4
  <2>2. Cardinality(T \ {c}) = Cardinality(T) - 1
    <3> HIDE DEF T
    <3> QED
      BY <1>3, <2>1, FS_RemoveElement
  <2> QED
    BY <2>1, <2>2 DEF Left
<1>5. CommitsMade \ {} = CommitsMade
  OBVIOUS
<1> QED
  BY <1>2, <1>3, <1>4, <1>5 DEF Left

-----------------------------------------------------------------------------
(***************************************************************************)
(* The listing: whatever is not listed yet is behind the stack.            *)
(***************************************************************************)

VisitOK(h, w) ==
    /\ IsInjective(w.ordered)
    /\ ToSet(w.stack) \subseteq Ancestors[h] /\ ToSet(w.ordered) \subseteq Ancestors[h]
    /\ w.ordered = << >> => w.stack = <<h>>
    /\ w.ordered # << >> =>
          /\ w.ordered[1] = h
          /\ \A x \in ToSet(w.stack) : \E j \in DOMAIN w.ordered : x \in Parents(w.ordered[j])
    /\ \A i \in 2..Len(w.ordered) : \E j \in 1..(i - 1) : w.ordered[i] \in Parents(w.ordered[j])
    /\ \A x \in ToSet(w.ordered) : Parents(x) \subseteq ToSet(w.ordered) \union ToSet(w.stack)

\* What else holds where nothing was merged.
VisitInLine(w) ==
    /\ Len(w.stack) <= 1
    /\ \A x \in ToSet(w.stack), y \in ToSet(w.ordered) : x < y
    /\ \A i \in 2..Len(w.ordered) : w.ordered[i] < w.ordered[i - 1]

Visits(h) ==
    {w \in [stack : Seq(CommitsMade), ordered : Seq(CommitsMade)] :
        VisitOK(h, w) /\ (HasMerges(h) \/ VisitInLine(w))}

ToVisit(h) ==
    [w \in Visits(h) |-> IF w.stack = << >> THEN 0 ELSE Len(w.stack) + 2 * Left(ToSet(w.ordered))]

LEMMA VisitKeeps ==
  ASSUME TypeOK, NEW h \in CommitsMade, NEW w \in Visits(h)
  PROVE  /\ Visit(w) \in Visits(h)
         /\ ToVisit(h)[Visit(w)] <= ToVisit(h)[w]
         /\ ToVisit(h)[w] # 0 => ToVisit(h)[Visit(w)] < ToVisit(h)[w]
<1> DEFINE stack == w.stack
           o == w.ordered
           c == Last(stack)
           rest == Front(stack)
           older == Reverse(log[c].parents)
           V == ToVisit(h)
<1>1. /\ stack \in Seq(CommitsMade) /\ o \in Seq(CommitsMade)
      /\ VisitOK(h, w) /\ (HasMerges(h) \/ VisitInLine(w))
      /\ w = [stack |-> stack, ordered |-> o]
  BY DEF Visits
<1>2. CASE stack = << >>
  <2>1. Visit(w) = w /\ V[w] = 0
    BY <1>2 DEF Visit, ToVisit
  <2> QED
    BY <2>1
<1>3. CASE stack # << >>
  <2>1. /\ c \in ToSet(stack) /\ rest \in Seq(CommitsMade) /\ Len(rest) = Len(stack) - 1
        /\ ToSet(stack) = ToSet(rest) \union {c} /\ c \in CommitsMade /\ Len(stack) \in Nat
    BY <1>1, <1>3, ToSetOfFront, ToSetOfSeq
  <2>2. V[w] = Len(stack) + 2 * Left(ToSet(o)) /\ Left(ToSet(o)) \in Nat
    BY <1>3, LeftLess DEF ToVisit
  <2> HIDE DEF V
  <2>3. CASE c \in ToSet(o)
    <3> DEFINE u == [stack |-> rest, ordered |-> o]
    <3>1. Visit(w) = u
      BY <1>1, <1>3, <2>3 DEF Visit
    <3>2. o # << >>
      <4>1. ToSet(<< >>) = {}
        BY DEF ToSet
      <4> HIDE DEF c
      <4> QED
        BY <2>3, <4>1
    <3>3. VisitOK(h, u)
      BY <1>1, <2>1, <2>3, <3>2 DEF VisitOK
    <3>4. HasMerges(h) \/ VisitInLine(u)
      <4>1. ASSUME VisitInLine(w)
            PROVE  VisitInLine(u)
        BY <2>1, <4>1 DEF VisitInLine
      <4> QED
        BY <1>1, <4>1
    <3>5. u \in Visits(h)
      BY <1>1, <2>1, <3>3, <3>4 DEF Visits
    <3>6. V[u] = (IF rest = << >> THEN 0 ELSE Len(rest) + 2 * Left(ToSet(o)))
      BY <3>5 DEF ToVisit, V
    <3> HIDE DEF u
    <3>7. V[u] < V[w] /\ V[u] <= V[w]
      BY <2>1, <2>2, <3>6, EmptySeq
    <3> QED
      BY <3>1, <3>5, <3>7 DEF V
  <2>4. CASE c \notin ToSet(o)
    <3> DEFINE new == rest \o older
               p == Append(o, c)
               u == [stack |-> new, ordered |-> p]
               n == Len(o)
    <3>1. Visit(w) = u
      BY <1>1, <1>3, <2>4 DEF Visit
    <3>2. /\ older \in Seq(CommitsMade) /\ Len(older) = Len(log[c].parents) /\ Len(older) \in 0..2
          /\ ToSet(older) = Parents(c)
      BY <2>1, ParentsOf, ToSetOfReverse
    <3> HIDE DEF older
    <3>3. /\ new \in Seq(CommitsMade) /\ Len(new) = Len(rest) + Len(older)
          /\ ToSet(new) = ToSet(rest) \union Parents(c)
      <4> HIDE DEF rest, c
      <4>1. rest \in Seq(CommitsMade) /\ older \in Seq(CommitsMade)
        BY <2>1, <3>2
      <4>2. /\ rest \o older \in Seq(CommitsMade) /\ Len(rest \o older) = Len(rest) + Len(older)
            /\ ToSet(rest \o older) = ToSet(rest) \union ToSet(older)
        BY <4>1, ToSetOfJoined
      <4> QED
        BY <3>2, <4>2
    <3> HIDE DEF new
    <3>4. /\ p \in Seq(CommitsMade) /\ Len(p) = n + 1 /\ ToSet(p) = ToSet(o) \union {c}
          /\ n \in Nat /\ DOMAIN p = 1..n + 1 /\ DOMAIN o = 1..n
          /\ p[n + 1] = c /\ \A i \in 1..n : p[i] = o[i]
      BY <1>1, <2>1, ToSetOfAppend
    <3> HIDE DEF p, rest, c
    <3>5. VisitOK(h, u)
      <4>1. IsInjective(p)
        <5>1. \A i \in 1..n : o[i] # c
          BY <2>4, <3>4 DEF ToSet
        <5>2. ASSUME NEW i \in 1..n + 1, NEW j \in 1..n + 1, p[i] = p[j]
              PROVE  i = j
          <6>1. CASE i = n + 1 \/ j = n + 1
            BY <3>4, <5>1, <5>2, <6>1
          <6>2. CASE i \in 1..n /\ j \in 1..n
            <7>1. o[i] = o[j] /\ i \in DOMAIN o /\ j \in DOMAIN o
              BY <3>4, <5>2, <6>2
            <7> QED
              BY <1>1, <7>1 DEF VisitOK, IsInjective
          <6> QED
            BY <3>4, <6>1, <6>2
        <5> QED
          BY <3>4, <5>2 DEF IsInjective
      <4>2. c \in Ancestors[h] /\ Parents(c) \subseteq Ancestors[h]
        BY <1>1, <2>1, AncestorsAreClosed DEF VisitOK
      <4>3. ToSet(new) \subseteq Ancestors[h] /\ ToSet(p) \subseteq Ancestors[h]
        BY <1>1, <2>1, <3>3, <3>4, <4>2 DEF VisitOK
      <4>4. CASE o = << >>
        <5>1. stack = <<h>> /\ n = 0
          BY <1>1, <4>4 DEF VisitOK
        <5>2. c = h
          BY <5>1 DEF c, Last
        <5>3. ToSet(rest) = {}
          <6>1. Len(rest) = 0
            BY <2>1, <5>1
          <6> QED
            BY <2>1, <6>1 DEF ToSet
        <5>4. p # << >> /\ p[1] = h /\ Len(p) = 1 /\ 1 \in DOMAIN p /\ p[1] = c
          BY <3>4, <5>1, <5>2
        <5>5. ToSet(p) = {c} /\ ToSet(new) = Parents(c)
          BY <3>3, <3>4, <4>4, <5>3, ToSetOfSeq
        <5> QED
          BY <4>1, <4>3, <5>4, <5>5 DEF VisitOK
      <4>5. CASE o # << >>
        <5>1. n > 0 /\ 1 \in 1..n /\ p # << >>
          BY <1>1, <3>4, <4>5
        <5>2. p[1] = h
          BY <1>1, <3>4, <4>5, <5>1 DEF VisitOK
        <5>3. ASSUME NEW x \in ToSet(new)
              PROVE  \E j \in DOMAIN p : x \in Parents(p[j])
          <6>1. CASE x \in Parents(c)
            <7>1. n + 1 \in DOMAIN p /\ x \in Parents(p[n + 1])
              BY <3>4, <6>1
            <7> QED
              BY <7>1
          <6>2. CASE x \in ToSet(rest)
            <7>1. PICK j \in DOMAIN o : x \in Parents(o[j])
              BY <1>1, <2>1, <4>5, <6>2 DEF VisitOK
            <7>2. j \in DOMAIN p /\ p[j] = o[j]
              BY <3>4, <7>1
            <7> QED
              BY <7>1, <7>2
          <6> QED
            BY <3>3, <6>1, <6>2
        <5>4. ASSUME NEW i \in 2..Len(p)
              PROVE  \E j \in 1..(i - 1) : p[i] \in Parents(p[j])
          <6>1. CASE i <= n
            <7>1. i \in 2..n
              BY <3>4, <5>4, <6>1
            <7>2. PICK j \in 1..(i - 1) : o[i] \in Parents(o[j])
              BY <1>1, <7>1 DEF VisitOK
            <7>3. i \in 1..n /\ j \in 1..n
              BY <7>1, <3>4
            <7>4. p[i] = o[i] /\ p[j] = o[j]
              BY <3>4, <7>3
            <7> QED
              BY <7>2, <7>4
          <6>2. CASE i = n + 1
            <7>1. PICK j \in DOMAIN o : c \in Parents(o[j])
              BY <1>1, <2>1, <4>5 DEF VisitOK
            <7>2. j \in 1..n /\ p[j] = o[j] /\ p[i] = c /\ 1..(i - 1) = 1..n
              BY <3>4, <6>2, <7>1
            <7> QED
              BY <7>1, <7>2
          <6> QED
            BY <3>4, <6>1, <6>2
        <5>5. ASSUME NEW x \in ToSet(p)
              PROVE  Parents(x) \subseteq ToSet(p) \union ToSet(new)
          BY <1>1, <2>1, <3>3, <3>4, <5>5 DEF VisitOK
        <5> QED
          BY <4>1, <4>3, <5>1, <5>2, <5>3, <5>4, <5>5 DEF VisitOK
      <4> QED
        BY <4>4, <4>5
    <3>6. HasMerges(h) \/ VisitInLine(u)
      <4>1. ASSUME ~ HasMerges(h)
            PROVE  VisitInLine(u)
        <5>1. VisitInLine(w)
          BY <1>1, <4>1
        <5>2. Len(rest) = 0 /\ ToSet(rest) = {}
          <6>1. Len(rest) = 0
            <7>1. Len(stack) <= 1
              BY <5>1 DEF VisitInLine
            <7>2. Len(rest) \in Nat
              BY <2>1
            <7> HIDE DEF stack
            <7> QED
              BY <2>1, <7>1, <7>2
          <6> QED
            BY <2>1, <6>1 DEF ToSet
        <5>3. Len(older) <= 1
          <6>1. c \in Ancestors[h]
            BY <1>1, <2>1 DEF VisitOK
          <6> QED
            BY <3>2, <4>1, <6>1 DEF HasMerges, IsMerge
        <5>4. \A y \in ToSet(o) : c < y /\ y \in Nat
          <6>1. \A y \in ToSet(o) : y \in Nat
            BY <1>1, <2>1, ToSetOfSeq, ParentsAreOlder
          <6> QED
            BY <2>1, <5>1, <6>1 DEF VisitInLine
        <5>5. \A x \in Parents(c) : x < c /\ x \in Nat /\ c \in Nat
          BY <2>1, ParentsAreOlder
        <5>6. \A x \in ToSet(new), y \in ToSet(p) : x < y
          BY <3>3, <3>4, <5>2, <5>4, <5>5
        <5>7. ASSUME NEW i \in 2..Len(p)
              PROVE  p[i] < p[i - 1]
          <6>1. CASE i <= n
            <7>1. i \in 2..n /\ i \in 1..n /\ i - 1 \in 1..n
              BY <3>4, <5>7, <6>1
            <7>2. p[i] = o[i] /\ p[i - 1] = o[i - 1]
              BY <3>4, <7>1
            <7> QED
              BY <5>1, <7>1, <7>2 DEF VisitInLine
          <6>2. CASE i = n + 1
            <7>1. i - 1 = n /\ n \in 1..n
              BY <3>4, <5>7, <6>2
            <7>2. p[i] = c /\ p[i - 1] = o[n] /\ o[n] \in ToSet(o)
              BY <3>4, <6>2, <7>1 DEF ToSet
            <7> QED
              BY <5>4, <7>2
          <6> QED
            BY <3>4, <6>1, <6>2
        <5>8. Len(new) <= 1
          BY <3>2, <3>3, <5>2, <5>3
        <5> QED
          BY <5>6, <5>7, <5>8 DEF VisitInLine
      <4> QED
        BY <4>1
    <3>7. u \in Visits(h)
      BY <3>3, <3>4, <3>5, <3>6 DEF Visits
    <3>8. V[u] = (IF new = << >> THEN 0 ELSE Len(new) + 2 * Left(ToSet(p)))
      BY <3>7 DEF ToVisit, V
    <3>9. Left(ToSet(p)) = Left(ToSet(o)) - 1 /\ Left(ToSet(p)) \in Nat
      BY <2>1, <2>4, <3>4, LeftLess
    <3> HIDE DEF u
    <3>10. V[u] < V[w] /\ V[u] <= V[w]
      <4> DEFINE a == Len(stack)
                 b == Left(ToSet(o))
                 d == Len(older)
      <4>1. a \in Nat /\ b \in Nat /\ d \in 0..2 /\ b - 1 \in Nat /\ a - 1 \in Nat
        BY <2>1, <2>2, <3>2, <3>9, <1>1, <1>3
      <4>2. V[w] = a + 2 * b /\ (V[u] = 0 \/ V[u] = ((a - 1) + d) + 2 * (b - 1))
        BY <2>1, <2>2, <3>3, <3>8, <3>9
      <4> HIDE DEF a, b, d
      <4> QED
        BY <4>1, <4>2
    <3> QED
      BY <3>1, <3>7, <3>10 DEF V
  <2> QED
    BY <2>3, <2>4
<1> QED
  BY <1>2, <1>3

LEMMA VisitsEnd ==
  ASSUME TypeOK, NEW h \in CommitsMade
  PROVE  \E w \in Visits(h) : w.stack = << >> /\ w.ordered = Listing(h)
<1> DEFINE start == [stack |-> <<h>>, ordered |-> << >>]
           A == Visits(h)
           V == ToVisit(h)
           S == [w \in A |-> Visit(w)]
<1>1. <<h>> \in Seq(CommitsMade) /\ << >> \in Seq(CommitsMade) /\ Len(<<h>>) = 1
  OBVIOUS
<1>2. ToSet(<<h>>) = {h} /\ ToSet(<< >>) = {}
  BY DEF ToSet
<1>3. start \in A
  <2>1. VisitOK(h, start)
    <3>1. IsInjective(<< >>)
      BY DEF IsInjective
    <3>2. h \in Ancestors[h]
      BY AncestorsAreOlder
    <3> QED
      BY <1>2, <3>1, <3>2 DEF VisitOK
  <2>2. VisitInLine(start)
    BY <1>1, <1>2 DEF VisitInLine
  <2> QED
    BY <1>1, <2>1, <2>2 DEF Visits
<1>4. V \in [A -> Nat]
  <2>1. ASSUME NEW w \in A
        PROVE  Len(w.stack) + 2 * Left(ToSet(w.ordered)) \in Nat
    <3>1. Len(w.stack) \in Nat /\ Left(ToSet(w.ordered)) \in Nat
      BY LeftLess DEF Visits
    <3> QED
      BY <3>1
  <2> QED
    BY <2>1 DEF ToVisit
<1>5. V[start] <= Rounds /\ Rounds \in Nat
  <2>1. V[start] = Len(<<h>>) + 2 * Left(ToSet(<< >>))
    BY <1>3 DEF ToVisit
  <2>2. Left({}) = Len(log) /\ Rounds = 2 * Len(log) + 1 /\ Len(log) \in Nat /\ Rounds \in Nat
    BY LeftLess, RoundsType
  <2>3. Len(<<h>>) + 2 * Left({}) = Rounds
    BY <1>1, <2>2
  <2> HIDE DEF start, V
  <2>4. V[start] = Rounds
    BY <1>2, <2>1, <2>3
  <2> QED
    BY <2>2, <2>4
<1> HIDE DEF start, A, V
<1>6. \A w \in A : Visit(w) \in A
  BY VisitKeeps DEF A
<1>7. Shrinks(S, A, V)
  BY VisitKeeps DEF Shrinks, A, V
<1>8. Ends(Rounds, A, S, start, V)
  BY <1>3, <1>4, <1>5, <1>6, <1>7 DEF Ends
<1>9. Loop(Visit, start) \in A /\ V[Loop(Visit, start)] = 0
  BY <1>6, <1>8, VisitLoop
<1> DEFINE w == Loop(Visit, start)
<1>10. Listing(h) = w.ordered
  BY DEF Listing, start
<1> HIDE DEF w
<1>11. w \in Visits(h) /\ V[w] = 0
  BY <1>9 DEF w, A
<1>12. w.stack = << >>
  <2>1. V[w] = (IF w.stack = << >> THEN 0 ELSE Len(w.stack) + 2 * Left(ToSet(w.ordered)))
    BY <1>11 DEF V, ToVisit
  <2>2. w.stack \in Seq(CommitsMade) /\ Left(ToSet(w.ordered)) \in Nat
    BY <1>11, LeftLess DEF Visits
  <2>3. Len(w.stack) \in Nat /\ (w.stack # << >> => Len(w.stack) > 0)
    BY <2>2, EmptySeq
  <2> QED
    BY <1>11, <2>1, <2>2, <2>3
<1> QED
  BY <1>10, <1>11, <1>12

LEMMA ListingIsComplete ==
  ASSUME TypeOK, NEW h \in CommitsMade
  PROVE  LET listing == Listing(h)
         IN  /\ ToSet(listing) = Ancestors[h]
             /\ IsInjective(listing)
             /\ listing[1] = h
             /\ \A i \in 2..Len(listing) :
                   \E j \in 1..(i - 1) : listing[i] \in Parents(listing[j])
             /\ HasMerges(h) \/ \A i \in 2..Len(listing) : listing[i] < listing[i - 1]
<1>1. PICK w \in Visits(h) : w.stack = << >> /\ w.ordered = Listing(h)
  BY VisitsEnd
<1>2. VisitOK(h, w) /\ (HasMerges(h) \/ VisitInLine(w)) /\ w.ordered \in Seq(CommitsMade)
  BY DEF Visits
<1>3. w.ordered # << >>
  <2>1. << >> # <<h>>
    OBVIOUS
  <2> QED
    BY <1>1, <1>2, <2>1 DEF VisitOK
<1>4. h \in ToSet(w.ordered)
  <2>1. w.ordered[1] = h
    BY <1>2, <1>3 DEF VisitOK
  <2>2. 1 \in DOMAIN w.ordered
    BY <1>2, <1>3
  <2> QED
    BY <2>1, <2>2 DEF ToSet
<1>5. \A x \in ToSet(w.ordered) : Parents(x) \subseteq ToSet(w.ordered)
  <2>1. ToSet(<< >>) = {}
    BY DEF ToSet
  <2> QED
    BY <1>1, <1>2, <2>1 DEF VisitOK
<1>6. Ancestors[h] \subseteq ToSet(w.ordered)
  BY <1>4, <1>5, AncestorsAreLeast
<1> QED
  BY <1>1, <1>2, <1>3, <1>6 DEF VisitOK, VisitInLine

(***************************************************************************)
(* list_repo_commits() shows each commit of the history exactly once, the  *)
(* head first and every other one after a child of it, on any history:     *)
(* _reachable_commit_order_unlocked() finds what is reachable whichever    *)
(* way merges join the branches.                                           *)
(***************************************************************************)
THEOREM ListingsAreComplete == Spec => []ListingCoversHistory
<1>1. TypeOK => ListingCoversHistory
  BY ListingIsComplete DEF ListingCoversHistory
<1> QED
  BY <1>1, HistoryIsLegal, PTL

-----------------------------------------------------------------------------
(***************************************************************************)
(* The commit beside a file. The least commit that has the version of the  *)
(* head brought it, so that the search cannot miss one.                    *)
(***************************************************************************)

SearchOK(h, p, w) ==
    /\ ToSet(w.pending) \subseteq Ancestors[h] /\ w.visited \subseteq Ancestors[h]
    /\ h \in w.visited \union ToSet(w.pending)
    /\ \A x \in w.visited : Parents(x) \subseteq w.visited \union ToSet(w.pending)
    /\ w.last = None =>
          \A x \in w.visited : ~ (Files(x)[p] = Files(h)[p] /\ Introduces(x, p))
    /\ w.last # None =>
          w.last \in w.visited /\ Files(w.last)[p] = Files(h)[p] /\ Introduces(w.last, p)

\* What else holds where nothing was merged.
SearchInLine(h, p, w) ==
    /\ Len(w.pending) <= 1
    /\ \A x \in w.visited : Files(x)[p] = Files(h)[p]
    /\ w.last = None => \A x \in ToSet(w.pending) : Files(x)[p] = Files(h)[p]
    /\ w.last # None => \A x \in ToSet(w.pending) : x < w.last

Searches(h, p) ==
    {w \in [pending : Seq(CommitsMade), visited : SUBSET CommitsMade, last : CommitsMade \union {None}] :
        SearchOK(h, p, w) /\ (HasMerges(h) \/ SearchInLine(h, p, w))}

HasEnded(w) == w.pending = << >> \/ w.last # None

ToSearch(h, p) ==
    [w \in Searches(h, p) |-> IF HasEnded(w) THEN 0 ELSE Len(w.pending) + 2 * Left(w.visited)]

LEMMA SearchKeeps ==
  ASSUME TypeOK, NEW h \in CommitsMade, NEW p, NEW w \in Searches(h, p)
  PROVE  LET V == ToSearch(h, p)
             u == Search(w, p, Files(h)[p])
         IN  u \in Searches(h, p) /\ V[u] <= V[w] /\ (V[w] # 0 => V[u] < V[w])
<1> DEFINE pending == w.pending
           seen == w.visited
           c == Head(pending)
           rest == Tail(pending)
           older == log[c].parents
           V == ToSearch(h, p)
           version == Files(h)[p]
<1>1. /\ pending \in Seq(CommitsMade) /\ seen \subseteq CommitsMade /\ w.last \in CommitsMade \union {None}
      /\ SearchOK(h, p, w) /\ (HasMerges(h) \/ SearchInLine(h, p, w))
      /\ w = [pending |-> pending, visited |-> seen, last |-> w.last]
  BY DEF Searches
<1>2. CASE HasEnded(w)
  <2>1. Search(w, p, version) = w /\ V[w] = 0
    BY <1>2 DEF Search, ToSearch, HasEnded
  <2> QED
    BY <2>1
<1>3. CASE ~ HasEnded(w)
  <2>1. pending # << >> /\ w.last = None
    BY <1>3 DEF HasEnded
  <2>2. /\ c \in ToSet(pending) /\ rest \in Seq(CommitsMade) /\ Len(rest) = Len(pending) - 1
        /\ ToSet(pending) = {c} \union ToSet(rest) /\ c \in CommitsMade
        /\ Len(pending) \in Nat /\ Len(rest) \in Nat
    BY <1>1, <2>1, ToSetOfTail, ToSetOfSeq
  <2>3. V[w] = Len(pending) + 2 * Left(seen) /\ Left(seen) \in Nat
    BY <1>3, LeftLess DEF ToSearch
  <2>4. c \in Ancestors[h] /\ Parents(c) \subseteq Ancestors[h]
    BY <1>1, <2>2, AncestorsAreClosed DEF SearchOK
  <2>5. /\ older \in Seq(CommitsMade) /\ Len(older) \in 0..2 /\ ToSet(older) = Parents(c)
        /\ \A q \in Parents(c) : q < c
    BY <2>2, ParentsOf, ParentsAreOlder
  <2> HIDE DEF V
  <2>6. CASE c \in seen
    <3> DEFINE u == [pending |-> rest, visited |-> seen, last |-> w.last]
    <3>1. Search(w, p, version) = u
      BY <1>1, <2>1, <2>6 DEF Search
    <3> HIDE DEF rest, c
    <3>2. SearchOK(h, p, u)
      BY <1>1, <2>1, <2>2, <2>6 DEF SearchOK
    <3>3. HasMerges(h) \/ SearchInLine(h, p, u)
      <4>1. ASSUME SearchInLine(h, p, w)
            PROVE  SearchInLine(h, p, u)
        BY <2>1, <2>2, <4>1 DEF SearchInLine
      <4> QED
        BY <1>1, <4>1
    <3>4. u \in Searches(h, p)
      BY <1>1, <2>2, <3>2, <3>3 DEF Searches
    <3>5. V[u] = (IF HasEnded(u) THEN 0 ELSE Len(rest) + 2 * Left(seen))
      BY <3>4 DEF ToSearch, V
    <3> HIDE DEF u
    <3>6. V[u] < V[w] /\ V[u] <= V[w]
      <4> DEFINE a == Len(pending)
                 b == Left(seen)
      <4>1. a \in Nat /\ b \in Nat /\ a - 1 \in Nat /\ V[w] = a + 2 * b
        BY <2>2, <2>3
      <4>2. V[u] = 0 \/ V[u] = (a - 1) + 2 * b
        BY <2>2, <3>5
      <4> HIDE DEF a, b
      <4> QED
        BY <4>1, <4>2
    <3> QED
      BY <3>1, <3>4, <3>6 DEF V
  <2>7. CASE c \notin seen
    <3> DEFINE new == rest \o older
               found == Files(c)[p] = version /\ Introduces(c, p)
               last == IF found THEN c ELSE None
               more == seen \union {c}
               u == [pending |-> new, visited |-> more, last |-> last]
    <3>1. Search(w, p, version) = u
      BY <1>1, <2>1, <2>7 DEF Search
    <3>2. c # None
      BY <2>2, ParentsAreOlder DEF None
    <3> HIDE DEF older, rest, c
    <3>3. /\ new \in Seq(CommitsMade) /\ Len(new) = Len(rest) + Len(older)
          /\ ToSet(new) = ToSet(rest) \union Parents(c)
      <4>1. rest \in Seq(CommitsMade) /\ older \in Seq(CommitsMade)
        BY <2>2, <2>5
      <4>2. /\ rest \o older \in Seq(CommitsMade) /\ Len(rest \o older) = Len(rest) + Len(older)
            /\ ToSet(rest \o older) = ToSet(rest) \union ToSet(older)
        BY <4>1, ToSetOfJoined
      <4> QED
        BY <2>5, <4>2
    <3> HIDE DEF new
    <3>4. SearchOK(h, p, u)
      <4>1. ToSet(new) \subseteq Ancestors[h] /\ more \subseteq Ancestors[h]
        BY <1>1, <2>2, <2>4, <3>3 DEF SearchOK
      <4>2. h \in more \union ToSet(new)
        BY <1>1, <2>2 , <3>3 DEF SearchOK
      <4>3. \A x \in more : Parents(x) \subseteq more \union ToSet(new)
        BY <1>1, <2>2, <3>3 DEF SearchOK
      <4>4. CASE found
        BY <3>2, <4>1, <4>2, <4>3, <4>4 DEF SearchOK
      <4>5. CASE ~ found
        <5>1. last = None
          BY <4>5
        <5>2. \A x \in more : ~ (Files(x)[p] = version /\ Introduces(x, p))
          BY <1>1, <2>1, <4>5 DEF SearchOK
        <5> HIDE DEF last, found, more
        <5> QED
          BY <4>1, <4>2, <4>3, <5>1, <5>2 DEF SearchOK
      <4> QED
        BY <4>4, <4>5
    <3>5. HasMerges(h) \/ SearchInLine(h, p, u)
      <4>1. ASSUME ~ HasMerges(h)
            PROVE  SearchInLine(h, p, u)
        <5>1. SearchInLine(h, p, w)
          BY <1>1, <4>1
        <5>2. Len(rest) = 0 /\ ToSet(rest) = {}
          <6>1. Len(pending) <= 1
            BY <5>1 DEF SearchInLine
          <6> HIDE DEF pending
          <6>2. Len(rest) = 0
            BY <2>2, <6>1
          <6> QED
            BY <2>2, <6>2 DEF ToSet
        <5>3. c \in CommitsMade /\ ~ HasMerges(c)
          <6>1. Ancestors[c] \subseteq Ancestors[h]
            BY <2>4, AncestorsTransitive
          <6> QED
            BY <2>2, <4>1, <6>1 DEF HasMerges
        <5>4. Len(older) <= 1
          BY <2>2, <2>4, <4>1 DEF HasMerges, IsMerge, older
        <5>5. Len(new) <= 1 /\ ToSet(new) = Parents(c)
          BY <2>5, <3>3, <5>2, <5>4
        <5>6. Files(c)[p] = version
          BY <2>1, <2>2, <5>1 DEF SearchInLine
        <5>7. \A x \in more : Files(x)[p] = version
          BY <5>1, <5>6 DEF SearchInLine
        <5>8. CASE found
          BY <2>5, <3>2, <5>5, <5>7, <5>8 DEF SearchInLine
        <5>9. CASE ~ found
          <6>1. ~ Introduces(c, p)
            BY <5>6, <5>9
          <6>2. PICK q \in Parents(c) : Files(q)[p] = Files(c)[p]
            BY <6>1 DEF Introduces
          <6>3. \A x \in Parents(c) : x = q
            BY <5>3, LineHasOneParent
          <6>4. \A x \in ToSet(new) : Files(x)[p] = version
            BY <5>5, <5>6, <6>2, <6>3
          <6>5. last = None
            BY <5>9
          <6> HIDE DEF last, found, more
          <6> QED
            BY <5>5, <5>7, <6>4, <6>5 DEF SearchInLine
        <5> QED
          BY <5>8, <5>9
      <4> QED
        BY <4>1
    <3>6. u \in Searches(h, p)
      <4>1. more \subseteq CommitsMade /\ last \in CommitsMade \union {None}
        BY <1>1, <2>2
      <4> HIDE DEF last, more
      <4> QED
        BY <3>3, <3>4, <3>5, <4>1 DEF Searches
    <3>7. V[u] = (IF HasEnded(u) THEN 0 ELSE Len(new) + 2 * Left(more))
      BY <3>6 DEF ToSearch, V
    <3>8. Left(more) = Left(seen) - 1 /\ Left(more) \in Nat
      BY <2>2, <2>7, LeftLess
    <3> HIDE DEF u
    <3>9. V[u] < V[w] /\ V[u] <= V[w]
      <4> DEFINE a == Len(pending)
                 b == Left(seen)
                 d == Len(older)
      <4>1. a \in Nat /\ b \in Nat /\ d \in 0..2 /\ b - 1 \in Nat /\ a - 1 \in Nat
        BY <2>2, <2>3, <2>5, <3>8
      <4>2. V[w] = a + 2 * b /\ (V[u] = 0 \/ V[u] = ((a - 1) + d) + 2 * (b - 1))
        BY <2>2, <2>3, <3>3, <3>7, <3>8
      <4> HIDE DEF a, b, d
      <4> QED
        BY <4>1, <4>2
    <3> QED
      BY <3>1, <3>6, <3>9 DEF V
  <2> QED
    BY <2>6, <2>7
<1> QED
  BY <1>2, <1>3

LEMMA SearchesEnd ==
  ASSUME TypeOK, NEW h \in CommitsMade, NEW p
  PROVE  \E w \in Searches(h, p) : HasEnded(w) /\ w.last = LastCommit(h, p)
<1> DEFINE start == [pending |-> <<h>>, visited |-> {}, last |-> None]
           A == Searches(h, p)
           V == ToSearch(h, p)
           S == [w \in A |-> Search(w, p, Files(h)[p])]
<1>1. <<h>> \in Seq(CommitsMade) /\ Len(<<h>>) = 1 /\ ToSet(<<h>>) = {h} /\ <<h>> # << >>
  BY DEF ToSet
<1>2. start \in A
  <2>1. h \in Ancestors[h]
    BY AncestorsAreOlder
  <2>2. SearchOK(h, p, start)
    BY <1>1, <2>1 DEF SearchOK
  <2>3. SearchInLine(h, p, start)
    BY <1>1 DEF SearchInLine
  <2> QED
    BY <1>1, <2>2, <2>3 DEF Searches
<1>3. V \in [A -> Nat]
  <2>1. ASSUME NEW w \in A
        PROVE  Len(w.pending) + 2 * Left(w.visited) \in Nat
    <3>1. Len(w.pending) \in Nat /\ Left(w.visited) \in Nat
      BY LeftLess DEF Searches
    <3> QED
      BY <3>1
  <2> QED
    BY <2>1 DEF ToSearch
<1>4. V[start] <= Rounds
  <2>1. V[start] = Len(<<h>>) + 2 * Left({})
    BY <1>1, <1>2 DEF ToSearch, HasEnded
  <2>2. Left({}) = Len(log) /\ Rounds = 2 * Len(log) + 1 /\ Len(log) \in Nat /\ Rounds \in Nat
    BY LeftLess, RoundsType
  <2>3. Len(<<h>>) + 2 * Left({}) = Rounds
    BY <1>1, <2>2
  <2> HIDE DEF start, V
  <2> QED
    BY <2>1, <2>2, <2>3
<1> HIDE DEF start, A, V
<1>5. \A w \in A : Search(w, p, Files(h)[p]) \in A
  BY SearchKeeps DEF A
<1>6. Shrinks(S, A, V)
  <2>1. \A w \in A : S[w] = Search(w, p, Files(h)[p])
    OBVIOUS
  <2>2. \A w \in A : /\ V[Search(w, p, Files(h)[p])] <= V[w]
                     /\ V[w] # 0 => V[Search(w, p, Files(h)[p])] < V[w]
    BY SearchKeeps DEF A, V
  <2> HIDE DEF S
  <2> QED
    BY <2>1, <2>2 DEF Shrinks
<1>7. Ends(Rounds, A, S, start, V)
  BY <1>2, <1>3, <1>4, <1>5, <1>6, RoundsType DEF Ends
<1>8. PICK w \in A : V[w] = 0 /\ LastCommit(h, p) = w.last
  <2>1. start = [pending |-> <<h>>, visited |-> {}, last |-> None]
    BY DEF start
  <2> QED
    BY <1>5, <1>7, <2>1, SearchLoop
<1>9. HasEnded(w)
  <2>1. V[w] = (IF HasEnded(w) THEN 0 ELSE Len(w.pending) + 2 * Left(w.visited))
    BY <1>8 DEF V, ToSearch, A
  <2>2. w.pending \in Seq(CommitsMade) /\ Left(w.visited) \in Nat
    BY <1>8, LeftLess DEF Searches, A
  <2>3. Len(w.pending) \in Nat /\ (w.pending # << >> => Len(w.pending) > 0)
    BY <2>2, EmptySeq
  <2> QED
    BY <1>8, <2>1, <2>2, <2>3 DEF HasEnded
<1> QED
  BY <1>8, <1>9 DEF A

LEMMA LastCommitIsRight ==
  ASSUME TypeOK, NEW h \in CommitsMade, NEW p
  PROVE  LET c == LastCommit(h, p)
         IN  /\ c \in Ancestors[h]
             /\ Files(c)[p] = Files(h)[p]
             /\ \A parent \in Parents(c) : Files(parent)[p] # Files(c)[p]
             /\ HasMerges(h) \/ \A d \in Ancestors[h] : d > c => Files(d)[p] = Files(c)[p]
<1>1. PICK w \in Searches(h, p) : HasEnded(w) /\ w.last = LastCommit(h, p)
  BY SearchesEnd
<1>2. /\ w.pending \in Seq(CommitsMade) /\ w.visited \subseteq CommitsMade
      /\ SearchOK(h, p, w) /\ (HasMerges(h) \/ SearchInLine(h, p, w))
  BY DEF Searches
<1>3. CommitsMade = 1..Len(log) /\ Len(log) \in Nat
  BY ParentsAreOlder
<1>4. ASSUME w.last = None
      PROVE  FALSE
  <2>1. ToSet(w.pending) = {}
    BY <1>1, <1>4 DEF HasEnded, ToSet
  <2>2. Ancestors[h] \subseteq w.visited
    <3>1. h \in w.visited /\ \A x \in w.visited : Parents(x) \subseteq w.visited
      BY <1>2, <2>1 DEF SearchOK
    <3> QED
      BY <3>1, AncestorsAreLeast
  <2> DEFINE T == {x \in Ancestors[h] : Files(x)[p] = Files(h)[p]}
  <2>3. T \subseteq Nat /\ h \in T
    BY <1>2, <1>3, AncestorsAreOlder
  <2>4. PICK x \in T : \A y \in T : x <= y
    <3> HIDE DEF T
    <3> QED
      BY <2>3, LeastNumber
  <2>5. ASSUME NEW q \in Parents(x)
        PROVE  Files(q)[p] # Files(x)[p]
    <3>1. x \in CommitsMade /\ q \in Ancestors[h]
      BY <2>4, AncestorsAreClosed, AncestorsTransitive
    <3>2. q < x /\ q \in Nat /\ x \in Nat
      BY <1>3, <3>1, ParentsAreOlder
    <3>3. q \notin T
      BY <2>4, <3>2
    <3> QED
      BY <2>4, <3>1, <3>3
  <2>6. Introduces(x, p) /\ x \in w.visited /\ Files(x)[p] = Files(h)[p]
    BY <2>2, <2>4, <2>5 DEF Introduces
  <2> QED
    BY <1>2, <1>4, <2>6 DEF SearchOK
<1> DEFINE c == w.last
<1>5. /\ c \in w.visited /\ c \in Ancestors[h] /\ Files(c)[p] = Files(h)[p] /\ Introduces(c, p)
  BY <1>2, <1>4 DEF SearchOK
<1>6. ASSUME ~ HasMerges(h), NEW d \in Ancestors[h], d > c
      PROVE  Files(d)[p] = Files(c)[p]
  <2> DEFINE T == w.visited \union UNION {Ancestors[q] : q \in ToSet(w.pending)}
  <2>1. SearchInLine(h, p, w)
    BY <1>2, <1>6
  <2>2. ToSet(w.pending) \subseteq CommitsMade
    BY <1>2, ToSetOfSeq
  <2>3. \A q \in ToSet(w.pending) : q \in Ancestors[q]
    BY <2>2, AncestorsAreOlder
  <2>4. h \in T
    BY <1>2, <2>3 DEF SearchOK
  <2>5. ASSUME NEW x \in T
        PROVE  Parents(x) \subseteq T
    <3>1. CASE x \in w.visited
      BY <1>2, <2>3, <3>1 DEF SearchOK
    <3>2. CASE x \notin w.visited
      <4>1. PICK q \in ToSet(w.pending) : x \in Ancestors[q]
        BY <3>2
      <4>2. Parents(x) \subseteq Ancestors[q]
        BY <2>2, <4>1, AncestorsAreClosed
      <4> QED
        BY <4>1, <4>2
    <3> QED
      BY <3>1, <3>2
  <2>6. d \in T
    <3> HIDE DEF T
    <3> QED
      BY <1>6, <2>4, <2>5, AncestorsAreLeast
  <2>7. d \in w.visited
    <3>1. ASSUME NEW q \in ToSet(w.pending), d \in Ancestors[q]
          PROVE  FALSE
      <4>1. q < c
        BY <1>4, <2>1 DEF SearchInLine
      <4>2. d <= q /\ q \in Nat /\ d \in Nat /\ c \in Nat
        <5>1. Ancestors[q] \subseteq 1..q /\ q \in Nat
          BY <1>3, <2>2, AncestorsAreOlder
        <5> QED
          BY <1>2, <1>3, <1>5, <3>1, <5>1
      <4> QED
        BY <1>6, <4>1, <4>2
    <3> QED
      BY <2>6, <3>1
  <2> QED
    BY <1>5, <2>1, <2>7 DEF SearchInLine
<1> QED
  BY <1>1, <1>5, <1>6 DEF Introduces

(***************************************************************************)
(* The commit that _last_commit_info_by_path_unlocked() finds for a file   *)
(* is in the history, has the file as the head has it, and no parent of it *)
(* does; the search never ends without one, because whichever commits have *)
(* the version, the first of them brought it.                              *)
(***************************************************************************)
THEOREM FilesHaveTheirCommit == Spec => []FilesAreAttributed
<1>1. TypeOK => FilesAreAttributed
  BY LastCommitIsRight DEF FilesAreAttributed
<1> QED
  BY <1>1, HistoryIsLegal, PTL

-----------------------------------------------------------------------------
(***************************************************************************)
(* A history has one root: r gives it for each commit. Neither a merge nor *)
(* a squash changes the root of what exists, and histories with different  *)
(* roots are never merged.                                                 *)
(***************************************************************************)

\* r[c] is where every path through parents from c ends.
IsRooting(r) ==
    /\ r \in [CommitsMade -> CommitsMade]
    /\ \A c \in CommitsMade : /\ log[c].parents = << >> => r[c] = c
                            /\ \A p \in Parents(c) : r[p] = r[c]

Rooted == \E r : IsRooting(r)

LEMMA AncestorsShareRoot ==
  ASSUME TypeOK, NEW r, IsRooting(r), NEW c \in CommitsMade, NEW a \in Ancestors[c]
  PROVE  r[a] = r[c]
<1> DEFINE S == {d \in CommitsMade : r[d] = r[c]}
<1>1. \A d \in S : Parents(d) \subseteq S
  BY ParentsAreOlder DEF IsRooting
<1>2. Ancestors[c] \subseteq S
  <2>1. c \in S
    OBVIOUS
  <2> HIDE DEF S
  <2> QED
    BY <1>1, <2>1, AncestorsAreLeast
<1> QED
  BY <1>2

LEMMA InitIsRooted == Init => Rooted
<1> SUFFICES ASSUME Init PROVE Rooted
  OBVIOUS
<1> DEFINE r == [c \in {1} |-> 1]
<1>1. CommitsMade = {1} /\ log[1].parents = << >> /\ Parents(1) = {}
  BY DEF Init, CommitsMade, Parents
<1>2. IsRooting(r)
  BY <1>1 DEF IsRooting
<1> QED
  BY <1>2 DEF Rooted

\* q gives roots to new commits as well.
Roots(q, r, commits) ==
    /\ q \in [1..Len(log) + Len(commits) -> 1..Len(log) + Len(commits)]
    /\ \A c \in CommitsMade : q[c] = r[c]
    /\ \A i \in 1..Len(commits) :
          /\ commits[i].parents = << >> => q[Len(log) + i] = Len(log) + i
          /\ \A j \in DOMAIN commits[i].parents : q[commits[i].parents[j]] = q[Len(log) + i]

LEMMA GrowKeepsRoots ==
  ASSUME TypeOK, NEW commits \in Seq(Commit), Grow(commits), NEW r, IsRooting(r),
         NEW q, Roots(q, r, commits)
  PROVE  Rooted'
<1> USE DEF Roots
<1>1. log \in Seq(Commit) /\ Len(log) \in Nat /\ Len(commits) \in Nat /\ CommitsMade = 1..Len(log)
  BY DEF TypeOK, CommitsMade
<1>2. /\ log' \in Seq(Commit)
      /\ Len(log') = Len(log) + Len(commits)
      /\ \A i \in 1..(Len(log) + Len(commits)) :
            log'[i] = IF i <= Len(log) THEN log[i] ELSE commits[i - Len(log)]
  BY <1>1, ConcatProperties DEF Grow
<1>3. CommitsMade' = 1..Len(log) + Len(commits)
  BY <1>2 DEF CommitsMade
<1>4. ASSUME NEW c \in 1..Len(log) + Len(commits)
      PROVE  /\ log'[c].parents = << >> => q[c] = c
             /\ \A j \in DOMAIN log'[c].parents : q[log'[c].parents[j]] = q[c]
  <2>1. CASE c <= Len(log)
    <3>1. c \in CommitsMade /\ log'[c] = log[c]
      BY <1>1, <1>2, <2>1
    <3>2. \A j \in DOMAIN log[c].parents : log[c].parents[j] \in Parents(c)
      BY DEF Parents
    <3>3. \A j \in DOMAIN log[c].parents : log[c].parents[j] \in CommitsMade
      BY <3>1, <3>2, ParentsAreOlder
    <3> QED
      BY <3>1, <3>2, <3>3 DEF IsRooting
  <2>2. CASE ~ c <= Len(log)
    <3>1. /\ c - Len(log) \in 1..Len(commits) /\ Len(log) + (c - Len(log)) = c
          /\ log'[c] = commits[c - Len(log)]
      BY <1>1, <1>2, <2>2
    <3> QED
      BY <3>1
  <2> QED
    BY <2>1, <2>2
<1>5. IsRooting(q)'
  BY <1>3, <1>4 DEF IsRooting, Parents
<1> QED
  BY <1>5 DEF Rooted

LEMMA GrowByOneKeepsRoots ==
  ASSUME TypeOK, NEW commit \in Commit, Grow(<<commit>>), NEW r, IsRooting(r),
         NEW root \in CommitsMade, commit.parents # << >>,
         \A j \in DOMAIN commit.parents :
            commit.parents[j] \in CommitsMade /\ r[commit.parents[j]] = root
  PROVE  Rooted'
<1> DEFINE commits == <<commit>>
           n == Len(log)
           q == [c \in 1..n + 1 |-> IF c = n + 1 THEN root ELSE r[c]]
<1>1. commits \in Seq(Commit) /\ Len(commits) = 1 /\ commits[1] = commit /\ Grow(commits)
  OBVIOUS
<1>2. CommitsMade = 1..n /\ n \in Nat
  BY DEF TypeOK, CommitsMade
<1> HIDE DEF commits, n
<1>3. \A c \in 1..n : c \in 1..n + 1 /\ c # n + 1 /\ r[c] \in 1..n
  BY <1>2 DEF IsRooting
<1>4. /\ q \in [1..n + 1 -> 1..n + 1]
      /\ q[n + 1] = root
      /\ \A c \in CommitsMade : q[c] = r[c]
  <2>1. \A c \in 1..n + 1 : (IF c = n + 1 THEN root ELSE r[c]) \in 1..n + 1
    BY <1>2, <1>3
  <2> QED
    BY <1>2, <1>3, <2>1
<1> HIDE DEF q
<1>5. \A i \in 1..Len(commits) :
         /\ commits[i].parents = << >> => q[n + i] = n + i
         /\ \A j \in DOMAIN commits[i].parents : q[commits[i].parents[j]] = q[n + i]
  BY <1>1, <1>4
<1> QED
  <2>1. q \in [1..Len(log) + Len(commits) -> 1..Len(log) + Len(commits)]
    BY <1>1, <1>4 DEF n
  <2>2. \A i \in 1..Len(commits) :
         /\ commits[i].parents = << >> => q[Len(log) + i] = Len(log) + i
         /\ \A j \in DOMAIN commits[i].parents : q[commits[i].parents[j]] = q[Len(log) + i]
    BY <1>5 DEF n
  <2>3. Roots(q, r, commits)
    BY <1>4, <2>1, <2>2 DEF Roots
  <2> QED
    BY <1>1, <2>3, GrowKeepsRoots

LEMMA StepKeepsRoots ==
  ASSUME IInv, Rooted, [Next]_log
  PROVE  Rooted'
<1>1. PICK r : IsRooting(r)
  BY DEF Rooted
<1>2. TypeOK /\ CommitsMade = 1..Len(log) /\ Len(log) \in Nat
  BY DEF IInv, TypeOK, CommitsMade
<1>3. r \in [CommitsMade -> CommitsMade]
  BY <1>1 DEF IsRooting
<1>4. CASE UNCHANGED log
  BY <1>1, <1>4 DEF Rooted, IsRooting, CommitsMade, Parents
<1>5. ASSUME NEW head \in CommitsMade, NEW files \in Snapshots, CreateCommit(head, files)
      PROVE  Rooted'
  <2> DEFINE commit == [parents |-> <<head>>, files |-> files]
  <2>1. commit \in Commit /\ Grow(<<commit>>)
    <3>1. head \in 1..MaxCommits
      BY CommitType
    <3> QED
      BY <1>5, <3>1 DEF Commit, CreateCommit
  <2>2. /\ commit.parents # << >> /\ r[head] \in CommitsMade
        /\ \A j \in DOMAIN commit.parents :
              commit.parents[j] \in CommitsMade /\ r[commit.parents[j]] = r[head]
    BY <1>3
  <2> HIDE DEF commit
  <2> QED
    BY <1>1, <1>2, <2>1, <2>2, GrowByOneKeepsRoots
<1>6. ASSUME NEW target \in CommitsMade, NEW source \in CommitsMade, Merge(target, source)
      PROVE  Rooted'
  <2>1. PICK base \in MergeBases(target, source) :
           Grow(<<[parents |-> <<target, source>>,
                   files |-> Merged(Files(base), Files(target), Files(source))]>>)
    BY <1>6 DEF Merge
  <2> DEFINE files == Merged(Files(base), Files(target), Files(source))
             commit == [parents |-> <<target, source>>, files |-> files]
  <2>2. commit \in Commit /\ Grow(<<commit>>)
    <3>1. target \in 1..MaxCommits /\ source \in 1..MaxCommits
      BY CommitType
    <3>2. Files(target) \in Snapshots /\ Files(source) \in Snapshots
      BY CommitType
    <3>3. files \in Snapshots
      BY <3>2 DEF Merged, Snapshots
    <3>4. Grow(<<commit>>)
      BY <2>1
    <3> HIDE DEF files
    <3> QED
      BY <3>1, <3>3, <3>4 DEF Commit
  <2>3. r[base] = r[target] /\ r[base] = r[source]
    <3>1. base \in Ancestors[target] /\ base \in Ancestors[source]
      BY DEF MergeBases, Common
    <3> QED
      BY <1>1, <1>2, <3>1, AncestorsShareRoot
  <2>4. /\ commit.parents # << >> /\ r[target] \in CommitsMade
        /\ \A j \in DOMAIN commit.parents :
              commit.parents[j] \in CommitsMade /\ r[commit.parents[j]] = r[target]
    <3>1. commit.parents = <<target, source>>
      OBVIOUS
    <3>2. r[target] \in CommitsMade /\ r[source] = r[target]
      BY <1>3, <2>3
    <3> HIDE DEF commit
    <3> QED
      BY <3>1, <3>2
  <2> HIDE DEF commit
  <2> QED
    BY <1>1, <1>2, <2>2, <2>4, GrowByOneKeepsRoots
<1>7. ASSUME NEW lineage \in Lineages, SquashHistory(lineage)
      PROVE  Rooted'
  <2> DEFINE commits == Rewritten(lineage)
             m == Len(log)
  <2>1. PICK n \in 1..m : lineage \in [1..n -> CommitsMade]
    BY DEF Lineages
  <2>2. n \in Nat /\ n >= 1 /\ Len(lineage) = n
    BY <1>2, <2>1
  <2>3. commits = [i \in 1..n |->
                     [parents |-> IF i = 1 THEN << >> ELSE <<m + i - 1>>,
                      files |-> Files(lineage[n + 1 - i])]]
    BY <2>2 DEF Rewritten
  <2>4. Grow(commits) /\ m + n <= MaxCommits
    BY <1>7, <2>2 DEF SquashHistory, Grow, Rewritten
  <2> HIDE DEF commits, m
  <2>5. ASSUME NEW i \in 1..n
        PROVE  /\ commits[i] \in Commit
               /\ commits[i].parents = IF i = 1 THEN << >> ELSE <<m + i - 1>>
    <3>1. n + 1 - i \in 1..n
      BY <2>2
    <3>2. Files(lineage[n + 1 - i]) \in Snapshots
      BY <2>1, <3>1, CommitType
    <3>3. i # 1 => m + i - 1 \in 1..MaxCommits
      BY <1>2, <2>2, <2>4, BoundAssumption DEF m
    <3>4. (IF i = 1 THEN << >> ELSE <<m + i - 1>>) \in Seq(1..MaxCommits)
      <4>1. CASE i = 1
        BY <4>1, EmptySeq
      <4>2. CASE i # 1
        <5> DEFINE p == m + i - 1
        <5>1. p \in 1..MaxCommits
          BY <3>3, <4>2
        <5> HIDE DEF p
        <5>2. <<p>> \in Seq(1..MaxCommits)
          BY <5>1
        <5> QED
          BY <4>2, <5>2 DEF p
      <4> QED
        BY <4>1, <4>2
    <3> QED
      BY <2>3, <3>2, <3>4 DEF Commit
  <2>6. commits \in Seq(Commit) /\ Len(commits) = n
    <3>1. commits \in [1..n -> Commit]
      BY <2>3, <2>5
    <3> QED
      BY <2>2, <3>1, SeqDef
  <2> DEFINE q == [c \in 1..m + n |-> IF c <= m THEN r[c] ELSE m + 1]
  <2>7. /\ q \in [1..m + n -> 1..m + n]
        /\ \A c \in CommitsMade : q[c] = r[c]
        /\ \A i \in 1..n : q[m + i] = m + 1
    <3>1. \A c \in 1..m : r[c] \in 1..m /\ c \in 1..m + n /\ c <= m
      BY <1>2, <1>3, <2>2 DEF m
    <3>2. m \in Nat /\ CommitsMade = 1..m
      BY <1>2 DEF m
    <3>3. \A c \in 1..m + n : (IF c <= m THEN r[c] ELSE m + 1) \in 1..m + n
      BY <2>2, <3>1, <3>2
    <3>4. \A i \in 1..n : m + i \in 1..m + n /\ ~ m + i <= m
      BY <2>2, <3>2
    <3> QED
      BY <3>1, <3>2, <3>3, <3>4
  <2> HIDE DEF q
  <2>8. ASSUME NEW i \in 1..Len(commits)
        PROVE  /\ commits[i].parents = << >> => q[m + i] = m + i
               /\ \A j \in DOMAIN commits[i].parents : q[commits[i].parents[j]] = q[m + i]
    <3>1. i \in 1..n
      BY <2>6
    <3>2. CASE i = 1
      <4>1. commits[i].parents = << >> /\ q[m + i] = m + i
        BY <2>5, <2>7, <3>1, <3>2
      <4> QED
        BY <4>1
    <3>3. CASE i # 1
      <4>1. commits[i].parents = <<m + i - 1>>
        BY <2>5, <3>1, <3>3
      <4>2. i - 1 \in 1..n /\ m + (i - 1) = m + i - 1
        BY <1>2, <2>2, <3>1, <3>3 DEF m
      <4>3. q[m + i - 1] = m + 1 /\ q[m + i] = m + 1
        BY <2>7, <3>1, <4>2
      <4> QED
        BY <4>1, <4>3
    <3> QED
      BY <3>2, <3>3
  <2>9. Roots(q, r, commits)
    BY <2>6, <2>7, <2>8 DEF Roots, m
  <2> QED
    BY <1>1, <1>2, <2>4, <2>6, <2>9, GrowKeepsRoots
<1> QED
  BY <1>4, <1>5, <1>6, <1>7 DEF Next

LEMMA HistoryIsRooted == Spec => []Rooted
<1>1. IInv /\ Rooted /\ [Next]_log => Rooted'
  BY StepKeepsRoots
<1>2. Spec => []IInv
  <2>1. IInv /\ [Next]_log => IInv'
    BY StepKeepsInvariant
  <2> QED
    BY <2>1, InitHolds, PTL DEF Spec
<1> QED
  BY <1>1, <1>2, InitIsRooted, PTL DEF Spec

-----------------------------------------------------------------------------
(***************************************************************************)
(* Walks along first parents end at the root, and two of them meet exactly *)
(* if their roots are the same.                                            *)
(***************************************************************************)

LEMMA FirstParentIsOlder ==
  ASSUME TypeOK, NEW c \in CommitsMade
  PROVE  /\ log[c].parents = << >> => FirstParent(c) = None
         /\ log[c].parents # << >> => FirstParent(c) \in Parents(c) /\ FirstParent(c) \in CommitsMade
         /\ \A p \in Parents(c) : p < c
<1>1. /\ log[c].parents \in Seq(CommitsMade) /\ Parents(c) = ToSet(log[c].parents)
      /\ Parents(c) \subseteq CommitsMade /\ \A p \in Parents(c) : p < c
  BY ParentsOf, ParentsAreOlder
<1>2. ASSUME log[c].parents # << >>
      PROVE  Head(log[c].parents) \in Parents(c)
  BY <1>1, <1>2, ToSetOfTail
<1> QED
  BY <1>1, <1>2 DEF FirstParent

LineWalk == [at : CommitsMade \union {None}, seen : SUBSET CommitsMade]

\* On its way from c the walk has seen commits of which the next is older.
IsOnLine(c, w) ==
    /\ w.seen \subseteq Ancestors[c]
    /\ w.at # None => w.at \in Ancestors[c] /\ \A x \in w.seen : w.at < x

LEMMA GoBackKeeps ==
  ASSUME TypeOK, NEW c \in CommitsMade, NEW w \in LineWalk, IsOnLine(c, w), w.at # None
  PROVE  LET u == GoBack(w)
         IN  /\ u \in LineWalk /\ IsOnLine(c, u)
             /\ u.at < w.at
             /\ w.at \in u.seen
             /\ u.at = None => log[w.at].parents = << >>
<1> DEFINE a == w.at
           u == [at |-> FirstParent(a), seen |-> w.seen \union {a}]
<1>1. a \in CommitsMade /\ a \in Ancestors[c] /\ a \in Nat /\ a > 0 /\ w.seen \subseteq CommitsMade
  BY ParentsAreOlder DEF LineWalk, IsOnLine
<1>2. a \notin w.seen
  BY <1>1 DEF IsOnLine
<1>3. GoBack(w) = u
  BY <1>2 DEF GoBack
<1>4. /\ log[a].parents = << >> => FirstParent(a) = None
      /\ log[a].parents # << >> => FirstParent(a) \in Parents(a) /\ FirstParent(a) \in CommitsMade
      /\ \A p \in Parents(a) : p < a
  BY <1>1, FirstParentIsOlder
<1>5. u \in LineWalk
  BY <1>1, <1>4 DEF LineWalk
<1>6. \A x \in w.seen : a < x /\ x \in Nat
  BY <1>1, ParentsAreOlder DEF IsOnLine
<1>7. IsOnLine(c, u)
  <2>1. w.seen \union {a} \subseteq Ancestors[c]
    BY <1>1 DEF IsOnLine
  <2>2. CASE log[a].parents = << >>
    BY <1>4, <2>1, <2>2 DEF IsOnLine
  <2>3. CASE log[a].parents # << >>
    <3> DEFINE p == FirstParent(a)
    <3>1. p \in Parents(a) /\ p \in CommitsMade /\ p \in Nat /\ p < a
      BY <1>4, <2>3, ParentsAreOlder
    <3>2. p \in Ancestors[c]
      BY <1>1, <3>1, AncestorsAreClosed
    <3>3. \A x \in w.seen \union {a} : p < x
      BY <1>1, <1>6, <3>1
    <3> HIDE DEF p, a
    <3>4. IsOnLine(c, [at |-> p, seen |-> w.seen \union {a}])
      BY <2>1, <3>2, <3>3 DEF IsOnLine
    <3> QED
      BY <3>4 DEF p
  <2> QED
    BY <2>2, <2>3
<1>8. u.at < a
  BY <1>1, <1>4 DEF None
<1>9. u.at = None => log[a].parents = << >>
  BY <1>1, <1>4, ParentsAreOlder DEF None
<1> HIDE DEF u
<1>10. a \in u.seen
  BY DEF u
<1> QED
  BY <1>3, <1>5, <1>7, <1>8, <1>9, <1>10

LEMMA LineageIsRooted ==
  ASSUME TypeOK, NEW r, IsRooting(r), NEW c \in CommitsMade
  PROVE  Lineage(c) \subseteq Ancestors[c] /\ r[c] \in Lineage(c)
<1> DEFINE start == [at |-> c, seen |-> {}]
           A == {w \in LineWalk : IsOnLine(c, w) /\ (w.at = None => r[c] \in w.seen)}
           V == [w \in A |-> w.at]
           S == [w \in A |-> GoBack(w)]
<1>1. CommitsMade = 1..Len(log) /\ Len(log) \in Nat /\ Rounds = 2 * Len(log) + 1 /\ Rounds \in Nat
  BY ParentsAreOlder, RoundsType
<1>2. start \in A
  <2>1. c \in Ancestors[c] /\ c # None
    BY <1>1, AncestorsAreOlder DEF None
  <2> QED
    BY <2>1 DEF LineWalk, IsOnLine
<1>3. V \in [A -> Nat]
  BY <1>1 DEF LineWalk, None
<1>4. V[start] <= Rounds
  <2>1. V[start] = c
    BY <1>2
  <2> HIDE DEF V, start
  <2> QED
    BY <1>1, <2>1
<1>5. ASSUME NEW w \in A, w.at # None
      PROVE  GoBack(w) \in A /\ GoBack(w).at < w.at
  <2> DEFINE u == GoBack(w)
  <2>1. /\ u \in LineWalk /\ IsOnLine(c, u) /\ u.at < w.at /\ w.at \in u.seen
        /\ u.at = None => log[w.at].parents = << >>
    BY <1>5, GoBackKeeps
  <2>2. r[w.at] = r[c] /\ w.at \in CommitsMade
    <3>1. w.at \in Ancestors[c] /\ w.at \in CommitsMade
      BY <1>5 DEF IsOnLine, LineWalk
    <3> QED
      BY <3>1, AncestorsShareRoot
  <2> HIDE DEF u
  <2>3. u.at = None => r[c] \in u.seen
    BY <2>1, <2>2 DEF IsRooting
  <2> QED
    BY <2>1, <2>3 DEF u
<1>6. ASSUME NEW w \in A, w.at = None
      PROVE  GoBack(w) = w
  BY <1>6 DEF GoBack
<1>7. \A w \in A : GoBack(w) \in A
  <2> HIDE DEF A
  <2> QED
    BY <1>5, <1>6
<1>8. Shrinks(S, A, V)
  <2>1. \A w \in A : V[w] = w.at /\ S[w] = GoBack(w) /\ V[S[w]] = GoBack(w).at /\ w.at \in Nat
    BY <1>1, <1>7 DEF LineWalk, None
  <2> HIDE DEF A, V, S
  <2>2. ASSUME NEW w \in A
        PROVE  V[S[w]] <= V[w] /\ (V[w] # 0 => V[S[w]] < V[w])
    <3>1. CASE w.at = None
      BY <1>6, <2>1, <3>1 DEF None
    <3>2. CASE w.at # None
      <4>1. GoBack(w).at < w.at /\ w.at \in Nat
        BY <1>5, <2>1, <3>2
      <4>2. GoBack(w).at \in Nat
        BY <1>7, <2>1
      <4> QED
        BY <2>1, <4>1, <4>2
    <3> QED
      BY <3>1, <3>2
  <2> QED
    BY <2>2 DEF Shrinks
<1> HIDE DEF start, A, V
<1>9. Ends(Rounds, A, S, start, V)
  BY <1>1, <1>2, <1>3, <1>4, <1>7, <1>8 DEF Ends
<1> DEFINE w == Loop(GoBack, start)
<1>10. w \in A /\ V[w] = 0
  BY <1>7, <1>9, LineageLoop
<1>11. Lineage(c) = w.seen
  BY DEF Lineage, start
<1> HIDE DEF w
<1>12. w.at = None
  BY <1>10 DEF V, None
<1> QED
  BY <1>10, <1>11, <1>12 DEF A, IsOnLine

LEMMA BlocksAtRoot ==
  ASSUME TypeOK, NEW r, IsRooting(r), NEW h \in CommitsMade, NEW lineage \in SUBSET CommitsMade
  PROVE  /\ Blocks(h, lineage) => lineage \intersect Ancestors[h] # {}
         /\ r[h] \in lineage => Blocks(h, lineage)
<1> DEFINE start == [at |-> h, seen |-> {}]
           A == {w \in LineWalk : IsOnLine(h, w) /\ (w.at = None => r[h] \notin lineage)}
           V == [w \in A |-> IF w.at \in lineage THEN 0 ELSE w.at]
           S == [w \in A |-> Seek(w, lineage)]
<1>1. /\ CommitsMade = 1..Len(log) /\ Len(log) \in Nat /\ Rounds = 2 * Len(log) + 1 /\ Rounds \in Nat
      /\ None \notin lineage
  BY ParentsAreOlder, RoundsType DEF None
<1>2. start \in A
  <2>1. h \in Ancestors[h] /\ h # None
    BY <1>1, AncestorsAreOlder DEF None
  <2> QED
    BY <2>1 DEF LineWalk, IsOnLine
<1>3. V \in [A -> Nat]
  BY <1>1 DEF LineWalk, None
<1>4. V[start] <= Rounds
  <2>1. V[start] = 0 \/ V[start] = h
    BY <1>2
  <2> HIDE DEF V, start
  <2> QED
    BY <1>1, <2>1
<1>5. ASSUME NEW w \in A, w.at # None, w.at \notin lineage
      PROVE  Seek(w, lineage) \in A /\ Seek(w, lineage).at < w.at
  <2> DEFINE u == GoBack(w)
  <2>1. /\ u \in LineWalk /\ IsOnLine(h, u) /\ u.at < w.at /\ w.at \in u.seen
        /\ u.at = None => log[w.at].parents = << >>
    BY <1>5, GoBackKeeps
  <2>2. r[w.at] = r[h] /\ w.at \in CommitsMade
    <3>1. w.at \in Ancestors[h] /\ w.at \in CommitsMade
      BY <1>5 DEF IsOnLine, LineWalk
    <3> QED
      BY <3>1, AncestorsShareRoot
  <2>3. Seek(w, lineage) = u
    BY <1>5 DEF Seek
  <2> HIDE DEF u
  <2>4. u.at = None => r[h] \notin lineage
    BY <1>5, <2>1, <2>2 DEF IsRooting
  <2> QED
    BY <2>1, <2>3, <2>4
<1>6. ASSUME NEW w \in A, w.at = None \/ w.at \in lineage
      PROVE  Seek(w, lineage) = w
  BY <1>6 DEF Seek, GoBack
<1>7. \A w \in A : Seek(w, lineage) \in A
  <2> HIDE DEF A
  <2> QED
    BY <1>5, <1>6
<1>8. Shrinks(S, A, V)
  <2>1. \A w \in A : /\ V[w] = (IF w.at \in lineage THEN 0 ELSE w.at)
                     /\ S[w] = Seek(w, lineage) /\ S[w] \in A /\ w.at \in Nat
    BY <1>1, <1>7 DEF LineWalk, None
  <2> HIDE DEF A, V, S
  <2>2. ASSUME NEW w \in A
        PROVE  V[S[w]] <= V[w] /\ (V[w] # 0 => V[S[w]] < V[w])
    <3>1. CASE w.at = None \/ w.at \in lineage
      BY <1>1, <1>6, <2>1, <3>1 DEF None
    <3>2. CASE w.at # None /\ w.at \notin lineage
      <4>1. S[w].at < w.at /\ w.at \in Nat /\ S[w] \in A /\ S[w].at \in Nat
        BY <1>5, <2>1, <3>2
      <4>2. V[S[w]] = 0 \/ V[S[w]] = S[w].at
        BY <2>1
      <4>3. V[w] = w.at /\ w.at > 0
        BY <2>1, <3>2 DEF None
      <4> QED
        BY <4>1, <4>2, <4>3
    <3> QED
      BY <3>1, <3>2
  <2> QED
    BY <2>2 DEF Shrinks
<1> HIDE DEF start, A, V
<1>9. Ends(Rounds, A, S, start, V)
  BY <1>1, <1>2, <1>3, <1>4, <1>7, <1>8 DEF Ends
<1>10. PICK w \in A : V[w] = 0 /\ (Blocks(h, lineage) <=> w.at \in lineage)
  <2>1. start = [at |-> h, seen |-> {}]
    BY DEF start
  <2> QED
    BY <1>7, <1>9, <2>1, BlockLoop
<1>11. w.at = None \/ w.at \in lineage
  BY <1>10 DEF V, None
<1> QED
  BY <1>1, <1>10, <1>11 DEF A, IsOnLine

(***************************************************************************)
(* _blocking_refs_for_lineage_unlocked() names a ref exactly if its        *)
(* history shares a commit with that of the squashed branch, although it   *)
(* and _commit_lineage_unlocked() only follow first parents.               *)
(***************************************************************************)
THEOREM BlockersAreFound == Spec => []BlockersAreComplete
<1>1. ASSUME TypeOK, Rooted
      PROVE  BlockersAreComplete
  <2>1. PICK r : IsRooting(r)
    BY <1>1 DEF Rooted
  <2>2. ASSUME NEW squashed \in CommitsMade, NEW head \in CommitsMade
        PROVE  Blocks(head, Lineage(squashed)) <=> Common(squashed, head) # {}
    <3>1. /\ Lineage(squashed) \subseteq Ancestors[squashed] /\ r[squashed] \in Lineage(squashed)
          /\ Ancestors[squashed] \subseteq CommitsMade
      BY <1>1, <2>1, LineageIsRooted, AncestorsTransitive
    <3>2. /\ Blocks(head, Lineage(squashed)) => Lineage(squashed) \intersect Ancestors[head] # {}
          /\ r[head] \in Lineage(squashed) => Blocks(head, Lineage(squashed))
      BY <1>1, <2>1, <3>1, BlocksAtRoot
    <3>3. ASSUME NEW x \in Common(squashed, head)
          PROVE  r[head] = r[squashed]
      <4>1. x \in Ancestors[squashed] /\ x \in Ancestors[head]
        BY DEF Common
      <4> QED
        BY <1>1, <2>1, <4>1, AncestorsShareRoot
    <3> QED
      BY <3>1, <3>2, <3>3 DEF Common
  <2> QED
    BY <2>2 DEF BlockersAreComplete
<1> QED
  BY <1>1, HistoryIsLegal, HistoryIsRooted, PTL

-----------------------------------------------------------------------------
(***************************************************************************)
(* Merge bases.  Among common ancestors there is a nearest one; and there  *)
(* are common ancestors if the heads have the same root.                   *)
(***************************************************************************)
LEMMA BasesExist ==
  ASSUME TypeOK, NEW t \in CommitsMade, NEW s \in CommitsMade, Common(t, s) # {}
  PROVE  MergeBases(t, s) # {}
<1> DEFINE C == Common(t, s)
           sum(c) == Distance[t][c] + Distance[s][c]
           max(c) == Larger(Distance[t][c], Distance[s][c])
           sums == {sum(c) : c \in C}
<1>1. \A c \in C : sum(c) \in Nat /\ max(c) \in Nat
  <2>1. \A c \in C : Distance[t][c] \in Nat /\ Distance[s][c] \in Nat
    BY DistanceType DEF Common
  <2> QED
    BY <2>1 DEF Larger
<1>2. \A a, b \in C : Nearer(t, s, a, b) => sum(a) < sum(b) \/ (sum(a) = sum(b) /\ max(a) < max(b))
  BY DEF Nearer
<1>3. C # {}
  OBVIOUS
<1> HIDE DEF C, sum, max
<1>4. PICK n \in sums : \A m \in sums : n <= m
  <2>1. sums \subseteq Nat /\ sums # {}
    BY <1>1, <1>3
  <2> HIDE DEF sums
  <2> QED
    BY <2>1, LeastNumber
<1> DEFINE maxima == {max(c) : c \in {d \in C : sum(d) = n}}
<1>5. PICK k \in maxima : \A m \in maxima : k <= m
  <2>1. maxima \subseteq Nat /\ maxima # {}
    BY <1>1, <1>4
  <2> HIDE DEF maxima
  <2> QED
    BY <2>1, LeastNumber
<1>6. PICK c \in C : sum(c) = n /\ max(c) = k
  BY <1>5
<1>7. ASSUME NEW d \in C, Nearer(t, s, d, c)
      PROVE  FALSE
  <2>1. sum(d) \in Nat /\ max(d) \in Nat /\ n \in Nat /\ k \in Nat
    BY <1>1, <1>6
  <2>2. n <= sum(d) /\ (sum(d) = n => k <= max(d))
    BY <1>4, <1>5
  <2>3. sum(d) < n \/ (sum(d) = n /\ max(d) < k)
    BY <1>2, <1>6, <1>7
  <2> QED
    BY <2>1, <2>2, <2>3
<1> QED
  BY <1>6, <1>7 DEF MergeBases, C

\* The root of a commit is the only beginning that it goes back to.
LEMMA OneOrigin ==
  ASSUME TypeOK, NEW r, IsRooting(r), NEW c \in CommitsMade
  PROVE  Origins(c) = {r[c]} /\ r[c] \in Ancestors[c]
<1>1. \A d \in CommitsMade : r[d] \in Ancestors[d] /\ r[d] \in CommitsMade
  BY LineageIsRooted DEF IsRooting
<1>2. r[r[c]] = r[c]
  BY <1>1, AncestorsShareRoot
<1>3. log[r[c]].parents = << >>
  <2> DEFINE d == r[c]
  <2>1. ASSUME NEW p \in Parents(d)
        PROVE  FALSE
    <3>1. p \in CommitsMade /\ p < d /\ d \in Nat /\ p \in Nat
      BY <1>1, ParentsAreOlder
    <3>2. r[p] = d
      BY <1>1, <1>2 DEF IsRooting
    <3>3. d \in Ancestors[p]
      BY <1>1, <3>1, <3>2
    <3>4. d <= p
      BY <3>1, <3>3, AncestorsAreOlder
    <3> QED
      BY <3>1, <3>4
  <2>2. Parents(d) = {}
    BY <2>1
  <2>3. d \in CommitsMade
    BY <1>1
  <2> HIDE DEF d
  <2>4. log[d].parents \in Seq(1..MaxCommits)
    <3>1. log[d] \in Commit
      BY <2>3, MembersOfSeq DEF TypeOK, CommitsMade
    <3> QED
      BY <3>1 DEF Commit
  <2> DEFINE q == log[d].parents
  <2>5. q \in Seq(1..MaxCommits) /\ \A i \in DOMAIN q : FALSE
    BY <2>2, <2>4 DEF Parents
  <2> HIDE DEF q
  <2>6. Len(q) = 0
    <3>1. Len(q) \in Nat /\ DOMAIN q = 1..Len(q)
      BY <2>5
    <3>2. ~ (1 <= Len(q))
      BY <2>5, <3>1
    <3> QED
      BY <3>1, <3>2
  <2>7. log[d].parents = << >>
    BY <2>5, <2>6, EmptySeq DEF q
  <2> QED
    BY <2>7 DEF d
<1>4. ASSUME NEW a \in Origins(c)
      PROVE  a = r[c]
  <2>1. a \in Ancestors[c] /\ log[a].parents = << >> /\ a \in CommitsMade
    BY AncestorsTransitive DEF Origins
  <2> QED
    BY <2>1, AncestorsShareRoot DEF IsRooting
<1> QED
  BY <1>1, <1>3, <1>4 DEF Origins

(***************************************************************************)
(* merge() finds a base exactly if both heads go back to the same          *)
(* beginning; it is only after a squash that they may not.                 *)
(***************************************************************************)
THEOREM RelatedHeadsHaveBases == Spec => []RelatedMergesAreAnswered
<1>1. ASSUME TypeOK, Rooted
      PROVE  RelatedMergesAreAnswered
  <2>1. PICK r : IsRooting(r)
    BY <1>1 DEF Rooted
  <2>2. ASSUME NEW t \in CommitsMade, NEW s \in CommitsMade
        PROVE  AnsweredBases(t, s) # {} <=> Origins(t) = Origins(s)
    <3>1. /\ Origins(t) = {r[t]} /\ r[t] \in Ancestors[t]
          /\ Origins(s) = {r[s]} /\ r[s] \in Ancestors[s]
      BY <1>1, <2>1, OneOrigin
    <3>2. \A a \in Ancestors[t] : r[a] = r[t]
      BY <1>1, <2>1, AncestorsShareRoot
    <3>3. \A a \in Ancestors[s] : r[a] = r[s]
      BY <1>1, <2>1, AncestorsShareRoot
    <3>4. CASE s \in Ancestors[t]
      BY <3>1, <3>2, <3>4 DEF AnsweredBases
    <3>5. CASE t \in Ancestors[s]
      BY <3>1, <3>3, <3>5 DEF AnsweredBases
    <3>6. CASE s \notin Ancestors[t] /\ t \notin Ancestors[s]
      <4>1. AnsweredBases(t, s) = MergeBases(t, s)
        BY <3>6 DEF AnsweredBases
      <4>2. r[t] = r[s] => MergeBases(t, s) # {}
        BY <1>1, <3>1, BasesExist DEF Common
      <4>3. MergeBases(t, s) # {} => r[t] = r[s]
        BY <3>2, <3>3 DEF MergeBases, Common
      <4> QED
        BY <3>1, <4>1, <4>2, <4>3
    <3> QED
      BY <3>4, <3>5, <3>6
  <2> QED
    BY <2>2 DEF RelatedMergesAreAnswered
<1> QED
  BY <1>1, HistoryIsLegal, HistoryIsRooted, PTL

-----------------------------------------------------------------------------
(***************************************************************************)
(* The distances. The queue never holds more than two of them, in their    *)
(* order, and the least is that of the next ancestor to be found.          *)
(***************************************************************************)

\* From a commit to an ancestor it is one step more than from the best parent.
LEMMA DistanceVia ==
  ASSUME TypeOK, NEW c \in CommitsMade, NEW a \in Ancestors[c], a # c
  PROVE  /\ \E q \in Parents(c) : a \in Ancestors[q] /\ Distance[c][a] = 1 + Distance[q][a]
         /\ \A q \in Parents(c) : a \in Ancestors[q] => Distance[c][a] <= 1 + Distance[q][a]
<1> DEFINE S == {Distance[p][a] : p \in {q \in Parents(c) : a \in Ancestors[q]}}
<1>1. Distance[c][a] = 1 + Least(S)
  <2>1. Distance[c][a] = IF a = c THEN 0 ELSE 1 + Least(S)
    BY DistanceTo
  <2> HIDE DEF S
  <2> QED
    BY <2>1
<1>2. Ancestors[c] = {c} \union UNION {Ancestors[p] : p \in Parents(c)} /\ Parents(c) \subseteq CommitsMade
  BY AncestorsUnfold, ParentsAreOlder
<1>3. S # {}
  BY <1>2
<1>4. S \subseteq Nat
  BY <1>2, DistanceType
<1>5. \A q \in Parents(c) : a \in Ancestors[q] => Distance[q][a] \in S
  OBVIOUS
<1>6. \A m \in S : \E q \in Parents(c) : a \in Ancestors[q] /\ m = Distance[q][a]
  OBVIOUS
<1> HIDE DEF S
<1>7. Least(S) \in S /\ \A m \in S : Least(S) <= m
  BY <1>3, <1>4, LeastIsLeast
<1>8. PICK q \in Parents(c) : a \in Ancestors[q] /\ Least(S) = Distance[q][a]
  BY <1>6, <1>7
<1>9. \A p \in Parents(c) : a \in Ancestors[p] => 1 + Least(S) <= 1 + Distance[p][a]
  <2>1. ASSUME NEW n \in Nat, NEW m \in Nat, n <= m
        PROVE  1 + n <= 1 + m
    BY <2>1
  <2> QED
    BY <1>4, <1>5, <1>7, <2>1
<1> QED
  BY <1>1, <1>8, <1>9

\* A parent of an ancestor is at most one step further.
LEMMA NextIsNear ==
  ASSUME TypeOK, NEW c \in CommitsMade, NEW a \in Ancestors[c], NEW p \in Parents(a)
  PROVE  Distance[c][p] <= Distance[c][a] + 1
<1> DEFINE IsStray(d) == \E b \in Ancestors[d] : \E q \in Parents(b) : ~ Distance[d][q] <= Distance[d][b] + 1
           Strays == {d \in CommitsMade : IsStray(d)}
<1>1. CommitsMade = 1..Len(log) /\ Len(log) \in Nat
  BY ParentsAreOlder
<1>2. ASSUME Strays # {}
      PROVE  FALSE
  <2>1. Strays \subseteq Nat
    BY <1>1
  <2>2. PICK d \in Strays : \A b \in Strays : d <= b
    <3> HIDE DEF Strays
    <3> QED
      BY <1>2, <2>1, LeastNumber
  <2>a. PICK b \in Ancestors[d] : \E q \in Parents(b) : ~ Distance[d][q] <= Distance[d][b] + 1
    BY <2>2
  <2>3. PICK q \in Parents(b) : ~ Distance[d][q] <= Distance[d][b] + 1
    BY <2>a
  <2>4. d \in CommitsMade /\ q \in Ancestors[d] /\ b \in CommitsMade
    BY <2>2, AncestorsAreClosed, AncestorsTransitive
  <2>5. q \in CommitsMade /\ q < b /\ b <= d
    BY <1>1, <2>4, ParentsAreOlder, AncestorsAreOlder
  <2>6. q # d
    BY <1>1, <2>4, <2>5
  <2>7. Distance[d][q] \in Nat /\ Distance[d][b] \in Nat
    BY <2>4, DistanceType
  <2>8. CASE b = d
    <3>1. q \in Ancestors[q] /\ Distance[q][q] = 0 /\ Distance[d][d] = 0
      BY <2>4, <2>5, AncestorsAreOlder, DistanceTo
    <3>2. Distance[d][q] <= 1 + Distance[q][q]
      BY <2>4, <2>6, <2>8, <3>1, DistanceVia
    <3> QED
      BY <2>3, <2>7, <2>8, <3>1, <3>2
  <2>9. CASE b # d
    <3>1. PICK e \in Parents(d) : b \in Ancestors[e] /\ Distance[d][b] = 1 + Distance[e][b]
      BY <2>4, <2>9, DistanceVia
    <3>2. e \in CommitsMade /\ e < d
      BY <2>4, ParentsAreOlder
    <3>3. e \notin Strays
      BY <1>1, <2>2, <2>4, <3>2
    <3>4. Distance[e][q] <= Distance[e][b] + 1
      BY <3>1, <3>2, <3>3
    <3>5. q \in Ancestors[e]
      BY <3>1, <3>2, AncestorsAreClosed
    <3>6. Distance[d][q] <= 1 + Distance[e][q]
      BY <2>4, <2>6, <3>5, DistanceVia
    <3>7. Distance[e][q] \in Nat /\ Distance[e][b] \in Nat
      BY <3>1, <3>2, <3>5, DistanceType
    <3> QED
      BY <2>3, <2>7, <3>1, <3>4, <3>6, <3>7
  <2> QED
    BY <2>8, <2>9
<1> QED
  BY <1>2

\* Each ancestor is one step further than a child of it.
LEMMA LastStep ==
  ASSUME TypeOK, NEW c \in CommitsMade, NEW a \in Ancestors[c], a # c
  PROVE  \E b \in Ancestors[c] : a \in Parents(b) /\ Distance[c][a] = Distance[c][b] + 1
<1> DEFINE IsStray(d) == \E b \in Ancestors[d] : b # d /\
              ~ \E q \in Ancestors[d] : b \in Parents(q) /\ Distance[d][b] = Distance[d][q] + 1
           Strays == {d \in CommitsMade : IsStray(d)}
<1>1. CommitsMade = 1..Len(log) /\ Len(log) \in Nat
  BY ParentsAreOlder
<1>2. ASSUME Strays # {}
      PROVE  FALSE
  <2>1. Strays \subseteq Nat
    BY <1>1
  <2>2. PICK d \in Strays : \A b \in Strays : d <= b
    <3> HIDE DEF Strays
    <3> QED
      BY <1>2, <2>1, LeastNumber
  <2>3. PICK b \in Ancestors[d] : b # d /\
           ~ \E q \in Ancestors[d] : b \in Parents(q) /\ Distance[d][b] = Distance[d][q] + 1
    BY <2>2
  <2>4. d \in CommitsMade /\ d \in Ancestors[d] /\ Distance[d][d] = 0
    <3>1. d \in CommitsMade /\ d \in Ancestors[d]
      BY <2>2, AncestorsAreOlder
    <3> QED
      BY <3>1, DistanceTo
  <2>5. PICK e \in Parents(d) : b \in Ancestors[e] /\ Distance[d][b] = 1 + Distance[e][b]
    BY <2>3, <2>4, DistanceVia
  <2>6. e \in CommitsMade /\ e < d /\ e \in Ancestors[d]
    BY <2>4, ParentsAreOlder, AncestorsAreClosed
  <2>7. CASE b = e
    <3>1. Distance[e][e] = 0
      BY <2>6, AncestorsAreOlder, DistanceTo
    <3>2. Distance[d][b] = Distance[d][d] + 1
      BY <2>4, <2>5, <2>7, <3>1
    <3> QED
      BY <2>3, <2>4, <2>5, <2>7, <3>2
  <2>8. CASE b # e
    <3>1. e \notin Strays
      BY <1>1, <2>2, <2>4, <2>6
    <3>2. PICK q \in Ancestors[e] : b \in Parents(q) /\ Distance[e][b] = Distance[e][q] + 1
      BY <2>5, <2>6, <2>8, <3>1
    <3>3. q \in Ancestors[d] /\ q # d
      <4>1. Ancestors[e] \subseteq Ancestors[d] /\ Ancestors[e] \subseteq 1..e /\ e \in Nat /\ d \in Nat
        BY <1>1, <2>4, <2>6, AncestorsTransitive, AncestorsAreOlder
      <4> QED
        BY <2>6, <3>2, <4>1
    <3>4. Distance[d][q] <= 1 + Distance[e][q]
      BY <2>4, <3>2, <3>3, DistanceVia
    <3>5. Distance[d][b] <= Distance[d][q] + 1
      BY <2>4, <3>2, <3>3, NextIsNear
    <3>6. Distance[d][q] \in Nat /\ Distance[e][q] \in Nat /\ Distance[e][b] \in Nat /\ Distance[d][b] \in Nat
      BY <2>3, <2>4, <2>5, <2>6, <3>2, <3>3, DistanceType
    <3>7. Distance[d][b] = Distance[d][q] + 1
      BY <2>5, <3>2, <3>4, <3>5, <3>6
    <3> QED
      BY <2>3, <3>2, <3>3, <3>7
  <2> QED
    BY <2>7, <2>8
<1> QED
  BY <1>2

\* A queue in the order of the distances, of which there are at most two.
Level(s) ==
    \A i, j \in 1..Len(s) : i <= j => s[i][2] <= s[j][2] /\ s[j][2] <= s[i][2] + 1

LEMMA LevelTail ==
  ASSUME NEW X, NEW s \in Seq(X \X Nat), s # << >>, Level(s)
  PROVE  /\ Level(Tail(s))
         /\ \A e \in ToSet(s) : Head(s)[2] <= e[2] /\ e[2] <= Head(s)[2] + 1
<1> DEFINE t == Tail(s)
<1>1. Len(s) \in Nat /\ Len(s) # 0 /\ DOMAIN s = 1..Len(s) /\ Head(s) = s[1]
  BY EmptySeq
<1>2. Len(t) = Len(s) - 1 /\ \A i \in 1..Len(t) : t[i] = s[i + 1]
  BY <1>1
<1>3. Level(t)
  <2> HIDE DEF t
  <2>1. ASSUME NEW i \in 1..Len(t), NEW j \in 1..Len(t), i <= j
        PROVE  t[i][2] <= t[j][2] /\ t[j][2] <= t[i][2] + 1
    <3>1. i + 1 \in 1..Len(s) /\ j + 1 \in 1..Len(s) /\ i + 1 <= j + 1
      BY <1>1, <1>2, <2>1
    <3>2. s[i + 1][2] <= s[j + 1][2] /\ s[j + 1][2] <= s[i + 1][2] + 1
      BY <3>1 DEF Level
    <3> QED
      BY <1>2, <3>2
  <2> QED
    BY <2>1 DEF Level
<1>4. ASSUME NEW e \in ToSet(s)
      PROVE  Head(s)[2] <= e[2] /\ e[2] <= Head(s)[2] + 1
  <2>1. PICK j \in 1..Len(s) : e = s[j]
    BY <1>1 DEF ToSet
  <2>2. 1 \in 1..Len(s) /\ 1 <= j
    BY <1>1
  <2> QED
    BY <1>1, <2>1, <2>2 DEF Level
<1> QED
  BY <1>3, <1>4

LEMMA LevelJoined ==
  ASSUME NEW X, NEW s \in Seq(X \X Nat), NEW t \in Seq(X \X Nat), NEW d \in Nat, Level(s),
         \A e \in ToSet(s) : d <= e[2] /\ e[2] <= d + 1,
         \A e \in ToSet(t) : e[2] = d + 1
  PROVE  Level(s \o t)
<1> DEFINE u == s \o t
<1>1. /\ Len(u) = Len(s) + Len(t) /\ Len(s) \in Nat /\ Len(t) \in Nat
      /\ \A i \in 1..Len(s) + Len(t) : u[i] = IF i <= Len(s) THEN s[i] ELSE t[i - Len(s)]
  BY ConcatProperties
<1> HIDE DEF u
<1>2. \A i \in 1..Len(s) : s[i] \in ToSet(s) /\ s[i][2] \in Nat
  BY DEF ToSet
<1>3. \A i \in 1..Len(t) : t[i] \in ToSet(t)
  BY DEF ToSet
<1>4. ASSUME NEW i \in 1..Len(u), i > Len(s)
      PROVE  u[i][2] = d + 1
  <2>1. i - Len(s) \in 1..Len(t) /\ u[i] = t[i - Len(s)]
    BY <1>1, <1>4
  <2> QED
    BY <1>3, <2>1
<1>5. ASSUME NEW i \in 1..Len(u), i <= Len(s)
      PROVE  i \in 1..Len(s) /\ u[i] = s[i] /\ u[i][2] \in Nat /\ d <= u[i][2] /\ u[i][2] <= d + 1
  <2>1. i \in 1..Len(s) /\ u[i] = s[i]
    BY <1>1, <1>5
  <2> QED
    BY <1>2, <2>1
<1>6. ASSUME NEW i \in 1..Len(u), NEW j \in 1..Len(u), i <= j
      PROVE  u[i][2] <= u[j][2] /\ u[j][2] <= u[i][2] + 1
  <2>1. CASE j <= Len(s)
    <3>1. i <= Len(s)
      BY <1>1, <1>6, <2>1
    <3>2. i \in 1..Len(s) /\ j \in 1..Len(s) /\ u[i] = s[i] /\ u[j] = s[j]
      BY <1>5, <2>1, <3>1
    <3> QED
      BY <1>6, <3>2 DEF Level
  <2>2. CASE j > Len(s) /\ i <= Len(s)
    <3>1. u[j][2] = d + 1 /\ u[i][2] \in Nat /\ d <= u[i][2] /\ u[i][2] <= d + 1
      BY <1>4, <1>5, <2>2
    <3> DEFINE a == u[i][2]
    <3>2. a \in Nat /\ d <= a /\ a <= d + 1 /\ u[j][2] = d + 1
      BY <3>1
    <3> HIDE DEF a
    <3>3. a <= d + 1 /\ d + 1 <= a + 1
      BY <3>2
    <3> QED
      BY <3>2, <3>3 DEF a
  <2>3. CASE j > Len(s) /\ i > Len(s)
    <3>1. u[j][2] = d + 1 /\ u[i][2] = d + 1
      BY <1>4, <2>3
    <3> QED
      BY <3>1
  <2> QED
    BY <1>1, <2>1, <2>2, <2>3
<1> QED
  BY <1>6 DEF Level, u

LEMMA FurtherType ==
  ASSUME TypeOK, NEW c \in CommitsMade, NEW d \in Nat
  PROVE  /\ Further(c, d) \in Seq(CommitsMade \X Nat) /\ Len(Further(c, d)) \in 0..2
         /\ ToSet(Further(c, d)) = {<<q, d + 1>> : q \in Parents(c)}
<1> DEFINE s == log[c].parents
           t == Further(c, d)
<1>1. s \in Seq(CommitsMade) /\ Len(s) \in 0..2 /\ Parents(c) = ToSet(s)
  BY ParentsOf
<1>2. t = [i \in DOMAIN s |-> <<s[i], d + 1>>]
  BY DEF Further
<1> HIDE DEF s, t
<1>3. DOMAIN s = 1..Len(s) /\ Len(s) \in Nat /\ \A i \in 1..Len(s) : s[i] \in CommitsMade
  BY <1>1
<1>4. t \in [1..Len(s) -> CommitsMade \X Nat] /\ d + 1 \in Nat
  BY <1>2, <1>3
<1>5. t \in Seq(CommitsMade \X Nat) /\ Len(t) = Len(s) /\ DOMAIN t = DOMAIN s
  BY <1>3, <1>4
<1>6. ToSet(t) = {<<q, d + 1>> : q \in ToSet(s)}
  BY <1>2, <1>5 DEF ToSet
<1> QED
  BY <1>1, <1>5, <1>6 DEF t

\* What is noted is right, and each ancestor that is not noted yet will be met.
MeasureOK(h, w) ==
    /\ DOMAIN w.found \subseteq Ancestors[h]
    /\ w.found = [x \in DOMAIN w.found |-> Distance[h][x]]
    /\ \A e \in ToSet(w.pending) : e[1] \in Ancestors[h] /\ Distance[h][e[1]] <= e[2]
    /\ Level(w.pending)
    /\ \A x \in DOMAIN w.found, e \in ToSet(w.pending) : Distance[h][x] <= e[2]
    /\ h \in DOMAIN w.found \/ <<h, 0>> \in ToSet(w.pending)
    /\ \A x \in DOMAIN w.found : \A q \in Parents(x) :
          q \in DOMAIN w.found \/ <<q, Distance[h][x] + 1>> \in ToSet(w.pending)

Measures(h) ==
    {w \in [pending : Seq(CommitsMade \X Nat), found : UNION {[V -> Nat] : V \in SUBSET CommitsMade}] :
        MeasureOK(h, w)}

ToMeasure(h) ==
    [w \in Measures(h) |-> IF w.pending = << >> THEN 0
                           ELSE Len(w.pending) + 2 * Left(DOMAIN w.found)]

\* An ancestor that is not noted is behind an entry that is as near or nearer.
LEMMA NotedInOrder ==
  ASSUME TypeOK, NEW h \in CommitsMade, NEW w \in Measures(h),
         NEW y \in Ancestors[h], y \notin DOMAIN w.found
  PROVE  \E e \in ToSet(w.pending) : e[2] <= Distance[h][y]
<1> DEFINE Q == ToSet(w.pending)
           IsFar(n) == \E z \in Ancestors[h] :
                          z \notin DOMAIN w.found /\ Distance[h][z] = n /\ ~ \E e \in Q : e[2] <= n
           Far == {n \in Nat : IsFar(n)}
<1>0. MeasureOK(h, w) /\ \A e \in Q : e[2] \in Nat
  <2>1. w.pending \in Seq(CommitsMade \X Nat) /\ MeasureOK(h, w)
    BY DEF Measures
  <2>2. Q \subseteq CommitsMade \X Nat
    BY <2>1, ToSetOfSeq
  <2> QED
    BY <2>1, <2>2
<1>1. ASSUME Far # {}
      PROVE  FALSE
  <2>1. Far \subseteq Nat
    OBVIOUS
  <2>2. PICK n \in Far : \A m \in Far : n <= m
    <3> HIDE DEF Far
    <3> QED
      BY <1>1, <2>1, LeastNumber
  <2>3. PICK z \in Ancestors[h] : z \notin DOMAIN w.found /\ Distance[h][z] = n /\ ~ \E e \in Q : e[2] <= n
    BY <2>2
  <2>4. CASE z = h
    <3>1. Distance[h][h] = 0
      BY <2>4, DistanceTo
    <3>2. <<h, 0>> \in Q
      BY <1>0, <2>3, <2>4 DEF MeasureOK
    <3>3. <<h, 0>>[2] <= n
      BY <2>3, <2>4, <3>1
    <3> QED
      BY <2>3, <3>2, <3>3
  <2>5. CASE z # h
    <3>1. PICK b \in Ancestors[h] : z \in Parents(b) /\ Distance[h][z] = Distance[h][b] + 1
      BY <2>5, LastStep
    <3>2. Distance[h][b] \in Nat /\ n \in Nat /\ n = Distance[h][b] + 1
      BY <2>2, <2>3, <3>1, DistanceType
    <3>3. CASE b \in DOMAIN w.found
      <4>1. <<z, n>> \in Q
        BY <1>0, <2>3, <3>1, <3>2, <3>3 DEF MeasureOK
      <4>2. <<z, n>>[2] <= n
        BY <3>2
      <4> QED
        BY <2>3, <4>1, <4>2
    <3>4. CASE b \notin DOMAIN w.found
      <4>1. Distance[h][b] \notin Far
        BY <2>2, <3>2
      <4>2. PICK e \in Q : e[2] <= Distance[h][b]
        BY <3>2, <3>4, <4>1
      <4>3. e[2] \in Nat
        BY <1>0
      <4>4. e[2] <= n
        BY <3>2, <4>2, <4>3
      <4> QED
        BY <2>3, <4>4
    <3> QED
      BY <3>3, <3>4
  <2> QED
    BY <2>4, <2>5
<1>2. Distance[h][y] \in Nat
  BY DistanceType
<1> QED
  BY <1>1, <1>2

LEMMA MeasureKeeps ==
  ASSUME TypeOK, NEW h \in CommitsMade, NEW w \in Measures(h)
  PROVE  /\ Measure(w) \in Measures(h)
         /\ ToMeasure(h)[Measure(w)] <= ToMeasure(h)[w]
         /\ ToMeasure(h)[w] # 0 => ToMeasure(h)[Measure(w)] < ToMeasure(h)[w]
<1> DEFINE pending == w.pending
           found == w.found
           c == Head(pending)[1]
           d == Head(pending)[2]
           rest == Tail(pending)
           next == Further(c, d)
           V == ToMeasure(h)
<1>1. /\ pending \in Seq(CommitsMade \X Nat) /\ found \in UNION {[W -> Nat] : W \in SUBSET CommitsMade}
      /\ MeasureOK(h, w) /\ w = [pending |-> pending, found |-> found]
  BY DEF Measures
<1>2. CASE pending = << >>
  <2>1. Measure(w) = w /\ V[w] = 0
    BY <1>2 DEF Measure, ToMeasure
  <2> QED
    BY <2>1
<1>3. CASE pending # << >>
  <2>1. /\ Head(pending) \in ToSet(pending) /\ rest \in Seq(CommitsMade \X Nat)
        /\ Len(rest) = Len(pending) - 1 /\ ToSet(pending) = {Head(pending)} \union ToSet(rest)
        /\ ToSet(pending) \subseteq CommitsMade \X Nat /\ Len(pending) \in Nat /\ Len(rest) \in Nat
    BY <1>1, <1>3, ToSetOfTail, ToSetOfSeq
  <2>2. Head(pending) = <<c, d>> /\ c \in CommitsMade /\ d \in Nat
    BY <2>1
  <2>3. V[w] = Len(pending) + 2 * Left(DOMAIN found) /\ Left(DOMAIN found) \in Nat
    BY <1>3, LeftLess DEF ToMeasure
  <2>4. c \in Ancestors[h] /\ Distance[h][c] <= d /\ Parents(c) \subseteq Ancestors[h]
    BY <1>1, <2>1, <2>2, AncestorsAreClosed DEF MeasureOK
  <2>5. Level(rest) /\ \A e \in ToSet(pending) : d <= e[2] /\ e[2] <= d + 1
    BY <1>1, <1>3, <2>2, LevelTail DEF MeasureOK
  <2> HIDE DEF V
  <2>6. CASE c \in DOMAIN found
    <3> DEFINE u == [pending |-> rest, found |-> found]
    <3>1. found[c] <= d
      <4>1. found = [x \in DOMAIN found |-> Distance[h][x]]
        BY <1>1 DEF MeasureOK
      <4>2. found[c] = Distance[h][c]
        BY <2>6, <4>1
      <4> QED
        BY <2>4, <4>2
    <3>2. Measure(w) = u
      BY <1>1, <1>3, <2>6, <3>1 DEF Measure
    <3> HIDE DEF rest, c, d
    <3>3. MeasureOK(h, u)
      <4>1. \A x : <<x, 0>> \in ToSet(pending) => x \in DOMAIN found \/ <<x, 0>> \in ToSet(rest)
        BY <2>1, <2>2, <2>6
      <4>2. \A q, n : <<q, n>> \in ToSet(pending) => q \in DOMAIN found \/ <<q, n>> \in ToSet(rest)
        BY <2>1, <2>2, <2>6
      <4> QED
        BY <1>1, <2>1, <2>5, <4>1, <4>2 DEF MeasureOK
    <3>4. u \in Measures(h)
      BY <1>1, <2>1, <3>3 DEF Measures
    <3>5. V[u] = (IF rest = << >> THEN 0 ELSE Len(rest) + 2 * Left(DOMAIN found))
      BY <3>4 DEF ToMeasure, V
    <3> HIDE DEF u
    <3>6. V[u] < V[w] /\ V[u] <= V[w]
      <4> DEFINE a == Len(pending)
                 b == Left(DOMAIN found)
      <4>1. a \in Nat /\ b \in Nat /\ a - 1 \in Nat /\ V[w] = a + 2 * b
        BY <2>1, <2>3
      <4>2. V[u] = 0 \/ V[u] = (a - 1) + 2 * b
        BY <2>1, <3>5
      <4> HIDE DEF a, b
      <4> QED
        BY <4>1, <4>2
    <3> QED
      BY <3>2, <3>4, <3>6 DEF V
  <2>7. CASE c \notin DOMAIN found
    <3> DEFINE new == rest \o next
               more == Noted(found, c, d)
               u == [pending |-> new, found |-> more]
    <3>1. Measure(w) = u
      BY <1>1, <1>3, <2>7 DEF Measure
    <3>2. Distance[h][c] = d
      <4>1. PICK e \in ToSet(pending) : e[2] <= Distance[h][c]
        BY <2>4, <2>7, NotedInOrder
      <4>2. d <= e[2] /\ e[2] \in Nat /\ Distance[h][c] \in Nat
        BY <2>1, <2>4, <2>5, DistanceType
      <4> DEFINE a == e[2]
                 b == Distance[h][c]
      <4>3. a \in Nat /\ b \in Nat /\ d <= a /\ a <= b /\ b <= d
        BY <2>4, <4>1, <4>2
      <4> HIDE DEF a, b, c, d
      <4>4. b = d
        BY <2>2, <4>3
      <4> QED
        BY <4>4 DEF b
    <3>3. /\ next \in Seq(CommitsMade \X Nat) /\ Len(next) \in 0..2
          /\ ToSet(next) = {<<q, d + 1>> : q \in Parents(c)}
      BY <2>2, FurtherType
    <3> HIDE DEF next, rest, c, d
    <3>4. /\ new \in Seq(CommitsMade \X Nat) /\ Len(new) = Len(rest) + Len(next)
          /\ ToSet(new) = ToSet(rest) \union ToSet(next)
      <4> DEFINE X == CommitsMade \X Nat
      <4>1. rest \in Seq(X) /\ next \in Seq(X)
        BY <2>1, <3>3
      <4> HIDE DEF X
      <4>2. /\ rest \o next \in Seq(X) /\ Len(rest \o next) = Len(rest) + Len(next)
            /\ ToSet(rest \o next) = ToSet(rest) \union ToSet(next)
        BY <4>1, ToSetOfJoined
      <4> QED
        BY <4>2 DEF X
    <3>5. Level(new)
      <4>1. \A e \in ToSet(rest) : d <= e[2] /\ e[2] <= d + 1
        BY <2>1, <2>5
      <4>2. \A e \in ToSet(next) : e[2] = d + 1
        BY <3>3
      <4> QED
        BY <2>1, <2>2, <2>5, <3>3, <4>1, <4>2, LevelJoined
    <3>6. /\ DOMAIN more = DOMAIN found \union {c}
          /\ more = [x \in DOMAIN more |-> Distance[h][x]]
      <4>1. found = [x \in DOMAIN found |-> Distance[h][x]]
        BY <1>1 DEF MeasureOK
      <4>2. more = [b \in DOMAIN found \union {c} |-> IF b = c THEN d ELSE found[b]]
        BY DEF Noted
      <4>3. \A b \in DOMAIN found : found[b] = Distance[h][b]
        BY <4>1
      <4> HIDE DEF more, found
      <4>4. more = [b \in DOMAIN found \union {c} |-> Distance[h][b]]
        BY <3>2, <4>2, <4>3
      <4>5. DOMAIN more = DOMAIN found \union {c}
        BY <4>4
      <4> QED
        BY <4>4, <4>5
    <3> HIDE DEF more, new
    <3>7. DOMAIN more \subseteq Ancestors[h]
      BY <1>1, <2>4, <3>6 DEF MeasureOK
    <3>8. \A e \in ToSet(new) : e[1] \in Ancestors[h] /\ Distance[h][e[1]] <= e[2]
      <4>1. \A e \in ToSet(rest) : e[1] \in Ancestors[h] /\ Distance[h][e[1]] <= e[2]
        BY <1>1, <2>1 DEF MeasureOK
      <4>2. ASSUME NEW q \in Parents(c)
            PROVE  q \in Ancestors[h] /\ Distance[h][q] <= d + 1
        BY <2>4, <3>2, NextIsNear
      <4>3. \A e \in ToSet(next) : e[1] \in Ancestors[h] /\ Distance[h][e[1]] <= e[2]
        BY <3>3, <4>2
      <4> QED
        BY <3>4, <4>1, <4>3
    <3>9. \A x \in DOMAIN more, e \in ToSet(new) : Distance[h][x] <= e[2]
      <4>1. ASSUME NEW x \in DOMAIN more
            PROVE  Distance[h][x] <= d /\ Distance[h][x] \in Nat
        <5>1. x \in DOMAIN found => Distance[h][x] <= d
          <6>1. \A y \in DOMAIN found, e \in ToSet(pending) : Distance[h][y] <= e[2]
            BY <1>1 DEF MeasureOK
          <6>2. <<c, d>> \in ToSet(pending) /\ <<c, d>>[2] = d
            BY <2>1, <2>2
          <6> QED
            BY <6>1, <6>2
        <5>2. Distance[h][x] \in Nat
          BY <3>7, DistanceType
        <5> QED
          BY <2>2, <3>2, <3>6, <5>1, <5>2
      <4>2. ASSUME NEW e \in ToSet(new)
            PROVE  d <= e[2] /\ e[2] \in Nat
        <5>1. e \in ToSet(rest) => d <= e[2] /\ e[2] \in Nat
          BY <2>1, <2>5
        <5>2. e \in ToSet(next) => e[2] = d + 1
          BY <3>3
        <5>3. d <= d + 1 /\ d + 1 \in Nat
          BY <2>2
        <5> QED
          BY <3>4, <5>1, <5>2, <5>3
      <4>3. ASSUME NEW a \in Nat, NEW b \in Nat, a <= d, d <= b
            PROVE  a <= b
        BY <2>2, <4>3
      <4> QED
        BY <4>1, <4>2, <4>3
    <3>10. \A q, n : <<q, n>> \in ToSet(pending) => q \in DOMAIN more \/ <<q, n>> \in ToSet(new)
      BY <2>1, <2>2, <3>4, <3>6
    <3>11. h \in DOMAIN more \/ <<h, 0>> \in ToSet(new)
      BY <1>1, <3>6, <3>10 DEF MeasureOK
    <3>12. ASSUME NEW x \in DOMAIN more, NEW q \in Parents(x)
           PROVE  q \in DOMAIN more \/ <<q, Distance[h][x] + 1>> \in ToSet(new)
      <4>1. CASE x = c
        BY <3>2, <3>3, <3>4, <3>12, <4>1
      <4>2. CASE x \in DOMAIN found
        BY <1>1, <3>6, <3>10, <3>12, <4>2 DEF MeasureOK
      <4> QED
        BY <3>6, <4>1, <4>2
    <3>13. MeasureOK(h, u)
      BY <3>5, <3>6, <3>7, <3>8, <3>9, <3>11, <3>12 DEF MeasureOK
    <3>14. more \in UNION {[W -> Nat] : W \in SUBSET CommitsMade}
      <4>1. DOMAIN more \subseteq CommitsMade /\ \A x \in DOMAIN more : Distance[h][x] \in Nat
        BY <3>7, AncestorsAreOlder, AncestorsTransitive, DistanceType
      <4>2. more \in [DOMAIN more -> Nat]
        BY <3>6, <4>1
      <4> QED
        BY <4>1, <4>2
    <3>15. u \in Measures(h)
      BY <3>4, <3>13, <3>14 DEF Measures
    <3>16. V[u] = (IF new = << >> THEN 0 ELSE Len(new) + 2 * Left(DOMAIN more))
      BY <3>15 DEF ToMeasure, V
    <3>17. Left(DOMAIN more) = Left(DOMAIN found) - 1 /\ Left(DOMAIN more) \in Nat
      BY <2>2, <2>7, <3>6, LeftLess
    <3> HIDE DEF u
    <3>18. V[u] < V[w] /\ V[u] <= V[w]
      <4> DEFINE a == Len(pending)
                 b == Left(DOMAIN found)
                 k == Len(next)
      <4>1. a \in Nat /\ b \in Nat /\ a - 1 \in Nat /\ b - 1 \in Nat /\ k \in 0..2 /\ V[w] = a + 2 * b
        BY <2>1, <2>3, <3>3, <3>17
      <4>2. V[u] = 0 \/ V[u] = ((a - 1) + k) + 2 * (b - 1)
        BY <2>1, <3>4, <3>16, <3>17
      <4> HIDE DEF a, b, k
      <4> QED
        BY <4>1, <4>2
    <3> QED
      BY <3>1, <3>15, <3>18 DEF V
  <2> QED
    BY <2>6, <2>7
<1> QED
  BY <1>2, <1>3

LEMMA MeasuresEnd ==
  ASSUME TypeOK, NEW h \in CommitsMade
  PROVE  \E w \in Measures(h) : w.pending = << >> /\ w.found = Distances(h)
<1> DEFINE start == [pending |-> <<<<h, 0>>>>, found |-> << >>]
           A == Measures(h)
           V == ToMeasure(h)
           S == [w \in A |-> Measure(w)]
<1>1. /\ <<<<h, 0>>>> \in Seq(CommitsMade \X Nat) /\ Len(<<<<h, 0>>>>) = 1
      /\ ToSet(<<<<h, 0>>>>) = {<<h, 0>>}
  BY DEF ToSet
<1>2. << >> = [x \in {} |-> Distance[h][x]] /\ DOMAIN << >> = {}
  OBVIOUS
<1>3. start \in A
  <2>1. h \in Ancestors[h] /\ Distance[h][h] = 0
    <3>1. h \in Ancestors[h]
      BY AncestorsAreOlder
    <3> QED
      BY <3>1, DistanceTo
  <2>2. Level(<<<<h, 0>>>>)
    BY DEF Level
  <2>3. << >> \in UNION {[W -> Nat] : W \in SUBSET CommitsMade}
    <3>1. << >> \in [{} -> Nat] /\ {} \subseteq CommitsMade
      OBVIOUS
    <3> QED
      BY <3>1
  <2>4. MeasureOK(h, start)
    BY <1>1, <1>2, <2>1, <2>2 DEF MeasureOK
  <2> QED
    BY <1>1, <2>3, <2>4 DEF Measures
<1>4. V \in [A -> Nat]
  <2>1. ASSUME NEW w \in A
        PROVE  Len(w.pending) + 2 * Left(DOMAIN w.found) \in Nat
    <3>1. Len(w.pending) \in Nat /\ Left(DOMAIN w.found) \in Nat
      BY LeftLess DEF Measures
    <3> QED
      BY <3>1
  <2> QED
    BY <2>1 DEF ToMeasure
<1>5. V[start] <= Rounds /\ Rounds \in Nat
  <2>1. V[start] = Len(<<<<h, 0>>>>) + 2 * Left(DOMAIN << >>)
    BY <1>3 DEF ToMeasure
  <2>2. Left({}) = Len(log) /\ Rounds = 2 * Len(log) + 1 /\ Len(log) \in Nat /\ Rounds \in Nat
    BY LeftLess, RoundsType
  <2>3. Len(<<<<h, 0>>>>) + 2 * Left({}) = Rounds
    BY <1>1, <2>2
  <2> HIDE DEF start, V
  <2>4. V[start] = Rounds
    BY <1>2, <2>1, <2>3
  <2> QED
    BY <2>2, <2>4
<1> HIDE DEF start, A, V
<1>6. \A w \in A : Measure(w) \in A
  BY MeasureKeeps DEF A
<1>7. Shrinks(S, A, V)
  BY MeasureKeeps DEF Shrinks, A, V
<1>8. Ends(Rounds, A, S, start, V)
  BY <1>3, <1>4, <1>5, <1>6, <1>7 DEF Ends
<1>9. Loop(Measure, start) \in A /\ V[Loop(Measure, start)] = 0
  BY <1>6, <1>8, MeasureLoop
<1> DEFINE w == Loop(Measure, start)
<1>10. Distances(h) = w.found
  BY DEF Distances, start
<1> HIDE DEF w
<1>11. w \in Measures(h) /\ V[w] = 0
  BY <1>9 DEF w, A
<1>12. w.pending = << >>
  <2>1. V[w] = (IF w.pending = << >> THEN 0 ELSE Len(w.pending) + 2 * Left(DOMAIN w.found))
    BY <1>11 DEF V, ToMeasure
  <2>2. w.pending \in Seq(CommitsMade \X Nat) /\ Left(DOMAIN w.found) \in Nat
    BY <1>11, LeftLess DEF Measures
  <2>3. Len(w.pending) \in Nat /\ (w.pending # << >> => Len(w.pending) > 0)
    BY <2>2, EmptySeq
  <2> QED
    BY <1>11, <2>1, <2>2, <2>3
<1> QED
  BY <1>10, <1>11, <1>12

LEMMA DistancesAreRight ==
  ASSUME TypeOK, NEW h \in CommitsMade
  PROVE  Distances(h) = Distance[h]
<1>1. PICK w \in Measures(h) : w.pending = << >> /\ w.found = Distances(h)
  BY MeasuresEnd
<1>2. MeasureOK(h, w)
  BY DEF Measures
<1>3. ToSet(w.pending) = {}
  BY <1>1 DEF ToSet
<1>4. h \in DOMAIN w.found /\ \A x \in DOMAIN w.found : Parents(x) \subseteq DOMAIN w.found
  BY <1>2, <1>3 DEF MeasureOK
<1>5. Ancestors[h] \subseteq DOMAIN w.found
  BY <1>4, AncestorsAreLeast
<1>6. DOMAIN w.found = Ancestors[h] /\ w.found = [x \in DOMAIN w.found |-> Distance[h][x]]
  BY <1>2, <1>5 DEF MeasureOK
<1>7. w.found = [x \in Ancestors[h] |-> Distance[h][x]]
  BY <1>6
<1>8. Distance[h] = [x \in Ancestors[h] |-> Distance[h][x]]
  <2>1. Distance[h] = [a \in Ancestors[h] |->
            IF a = h THEN 0
            ELSE 1 + Least({Distance[p][a] : p \in {q \in Parents(h) : a \in Ancestors[q]}})]
    BY DistanceUnfold, Zenon
  <2> DEFINE F(a) == IF a = h THEN 0
                     ELSE 1 + Least({Distance[p][a] : p \in {q \in Parents(h) : a \in Ancestors[q]}})
  <2>2. Distance[h] = [a \in Ancestors[h] |-> F(a)]
    BY <2>1
  <2> HIDE DEF F
  <2> QED
    BY <2>2
<1> QED
  BY <1>1, <1>7, <1>8

(***************************************************************************)
(* _ancestor_distances_unlocked() finds each ancestor at its least         *)
(* distance, on any history: the queue keeps the commits in the order of   *)
(* their distances, so that the first visit of each of them counts and     *)
(* none is visited again.                                                  *)
(***************************************************************************)
THEOREM DistancesAreLeast == Spec => []DistancesAreShortest
<1>1. TypeOK => DistancesAreShortest
  BY DistancesAreRight DEF DistancesAreShortest
<1> QED
  BY <1>1, HistoryIsLegal, PTL
=============================================================================
