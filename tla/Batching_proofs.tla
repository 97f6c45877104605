--------------------------- MODULE Batching_proofs ---------------------------
(***************************************************************************)
(* Lemmas about Batching, for any events, sizes, limits and reports.  The  *)
(* code's two loops, over the events and over the lines of a report, are   *)
(* folds; first come what folds, sums and flattened sequences compute,     *)
(* then the loops themselves.  Induction is by the least counterexample.   *)
(***************************************************************************)
EXTENDS Batching, FiniteSetTheorems, SequenceTheorems, WellFoundedInduction, TLAPS

-----------------------------------------------------------------------------
(* Numbers *)

LEMMA LeastNumber ==
    ASSUME NEW S \in SUBSET Nat, S # {}
    PROVE  \E x \in S : \A y \in S : x <= y
<1>1. \E x \in S : \A y \in S : ~ (<<y, x>> \in OpToRel(<, Nat))
  BY NatLessThanWellFounded, WFMin, Zenon
<1>2. PICK x \in S : \A y \in S : ~ (y < x)
  BY <1>1 DEF OpToRel
<1> QED
  BY <1>2

\* A set of numbers that holds 0, and k + 1 with every k below n, holds 0 .. n.
LEMMA UpTo ==
    ASSUME NEW n \in Nat, NEW S \in SUBSET (0 .. n), 0 \in S,
           \A k \in 0 .. n - 1 : k \in S => k + 1 \in S
    PROVE  S = 0 .. n
<1>1. SUFFICES ASSUME (0 .. n) \ S # {} PROVE FALSE
  OBVIOUS
<1>2. PICK x \in (0 .. n) \ S : \A y \in (0 .. n) \ S : x <= y
  <2>1. (0 .. n) \ S \in SUBSET Nat
    OBVIOUS
  <2> QED
    BY <1>1, <2>1, LeastNumber
<1>3. x - 1 \in 0 .. n - 1 /\ x - 1 \in S
  BY <1>2
<1>4. (x - 1) + 1 \in S
  BY <1>3
<1> QED
  BY <1>2, <1>4

\* Every non-empty set of numbers up to n has its largest.
LEMMA LargestNumber ==
    ASSUME NEW n \in Nat, NEW S \in SUBSET (0 .. n), S # {}
    PROVE  Max(S) \in S /\ \A y \in S : y <= Max(S)
<1> DEFINE B == {b \in 0 .. n : \A y \in S : y <= b}
<1>1. n \in B /\ B \in SUBSET Nat
  OBVIOUS
<1>2. PICK b \in B : \A c \in B : b <= c
  BY <1>1, LeastNumber
<1>3. b \in S
  <2>1. SUFFICES ASSUME b \notin S PROVE FALSE
    OBVIOUS
  <2>2. \A y \in S : y <= b - 1
    BY <1>2, <2>1
  <2>3. b - 1 \in 0 .. n
    <3>1. PICK y \in S : y <= b - 1
      BY <2>2
    <3> QED
      BY <3>1
  <2>4. b - 1 \in B
    BY <2>2, <2>3
  <2> QED
    BY <1>2, <2>4
<1>4. \A y \in S : b >= y
  BY <1>2
<1> QED
  BY <1>3, <1>4 DEF Max

LEMMA LargestIs ==
    ASSUME NEW S \in SUBSET Nat, NEW m \in S, \A y \in S : y <= m
    PROVE  Max(S) = m
<1>1. \A y \in S : m >= y
  OBVIOUS
<1>2. Max(S) \in S /\ \A y \in S : Max(S) >= y
  BY <1>1 DEF Max
<1>3. Max(S) \in Nat /\ m \in Nat /\ Max(S) >= m /\ Max(S) <= m
  BY <1>2
<1> QED
  BY <1>3

-----------------------------------------------------------------------------
(* Recursion and folds *)

\* f is defined on the subsets of A by taking the element c[S] from S, b for none.
DefinedBy(f, A, T, b, F, c) ==
    /\ f \in [SUBSET A -> T]
    /\ \A S \in SUBSET A :
          f[S] = IF S = {} THEN b ELSE F[<<f[S \ {c[S]}], c[S]>>]

\* A function on the subsets of a finite set may be defined by taking one
\* element at a time.
LEMMA RecursionOverSubsets ==
    ASSUME NEW A, IsFiniteSet(A), NEW T, NEW b \in T, NEW F \in [T \X A -> T],
           NEW c \in [(SUBSET A) \ {{}} -> A], \A S \in (SUBSET A) \ {{}} : c[S] \in S
    PROVE  \E f : DefinedBy(f, A, T, b, F, c)
<1> DEFINE Sub(k) == {S \in SUBSET A : Cardinality(S) <= k}
           Rec(f, k) == /\ f \in [Sub(k) -> T]
                        /\ \A S \in Sub(k) :
                              f[S] = IF S = {} THEN b ELSE F[<<f[S \ {c[S]}], c[S]>>]
           N == Cardinality(A)
           Good == {k \in 0 .. N : \E f : Rec(f, k)}
<1>1. N \in Nat
  BY FS_CardinalityType
<1>2. \A S \in SUBSET A : IsFiniteSet(S) /\ Cardinality(S) \in Nat /\ Cardinality(S) <= N
  BY FS_Subset, FS_CardinalityType
<1>3. 0 \in Good
  <2>1. Sub(0) = {{}}
    BY <1>2, FS_EmptySet
  <2>2. Rec([S \in Sub(0) |-> b], 0)
    BY <2>1
  <2>3. 0 \in 0 .. N
    BY <1>1
  <2> HIDE DEF Rec, N
  <2> QED
    BY <2>2, <2>3
<1>4. ASSUME NEW k \in 0 .. N - 1, k \in Good PROVE k + 1 \in Good
  <2>1. PICK f : Rec(f, k)
    BY <1>4
  <2> DEFINE g == [S \in Sub(k + 1) |-> IF S = {} THEN b ELSE F[<<f[S \ {c[S]}], c[S]>>]]
  <2>2. ASSUME NEW S \in Sub(k + 1), S # {} PROVE S \ {c[S]} \in Sub(k)
    <3>1. c[S] \in S /\ S \in SUBSET A
      BY <2>2
    <3>2. Cardinality(S \ {c[S]}) = Cardinality(S) - 1
      BY <3>1, <1>2, FS_RemoveElement
    <3> QED
      BY <3>1, <3>2, <1>1, <1>2
  <2>3. \A S \in Sub(k) : S \in Sub(k + 1) /\ g[S] = f[S]
    BY <2>1, <1>1, <1>2
  <2>4. ASSUME NEW S \in Sub(k + 1)
        PROVE  g[S] \in T /\ g[S] = IF S = {} THEN b ELSE F[<<g[S \ {c[S]}], c[S]>>]
    <3>1. CASE S = {}
      BY <3>1
    <3>2. CASE S # {}
      <4>1. S \ {c[S]} \in Sub(k) /\ c[S] \in A
        BY <2>2, <3>2
      <4>2. f[S \ {c[S]}] \in T /\ g[S \ {c[S]}] = f[S \ {c[S]}]
        BY <4>1, <2>1, <2>3
      <4>3. F[<<f[S \ {c[S]}], c[S]>>] \in T
        BY <4>1, <4>2
      <4>4. g[S] = F[<<f[S \ {c[S]}], c[S]>>]
        BY <3>2
      <4> QED
        BY <3>2, <4>2, <4>3, <4>4
    <3> QED
      BY <3>1, <3>2
  <2>5. Rec(g, k + 1)
    BY <2>4
  <2>6. k + 1 \in 0 .. N
    BY <1>1
  <2> HIDE DEF Rec, N, g
  <2> QED
    BY <2>5, <2>6
<1> HIDE DEF Good
<1>5. Good = 0 .. N
  BY <1>1, <1>3, <1>4, UpTo DEF Good
<1>6. PICK f : Rec(f, N)
  <2>1. N \in Good
    BY <1>1, <1>5
  <2> HIDE DEF Rec, N
  <2> QED
    BY <2>1 DEF Good
<1>7. Sub(N) = SUBSET A
  BY <1>2
<1>8. DefinedBy(f, A, T, b, F, c)
  BY <1>6, <1>7 DEF DefinedBy
<1> QED
  BY <1>8
\* f is the function of a fold over 1 .. n that starts with b and goes on by F.
FoldsTo(f, n, T, b, F) ==
    /\ f \in [SUBSET (1 .. n) -> T]
    /\ f = [S \in SUBSET (1 .. n) |->
               IF S = {} THEN b ELSE F[<<f[S \ {Max(S)}], Max(S)>>]]

LEMMA FoldExists ==
    ASSUME NEW n \in Nat, NEW T, NEW b \in T, NEW F \in [T \X (1 .. n) -> T]
    PROVE  \E f : FoldsTo(f, n, T, b, F)
<1> DEFINE A == 1 .. n
           c == [S \in (SUBSET A) \ {{}} |-> Max(S)]
<1>1. IsFiniteSet(A)
  BY FS_Interval
<1>2. ASSUME NEW S \in (SUBSET A) \ {{}} PROVE Max(S) \in S
  <2>1. S \subseteq 1 .. n /\ S # {} /\ 1 .. n \subseteq 0 .. n
    OBVIOUS
  <2> QED
    BY <2>1, LargestNumber
<1>3. /\ c \in [(SUBSET A) \ {{}} -> A]
      /\ \A S \in (SUBSET A) \ {{}} : c[S] \in S
      /\ \A S \in (SUBSET A) \ {{}} : c[S] = Max(S)
  BY <1>2
<1>4. F \in [T \X A -> T]
  OBVIOUS
<1> HIDE DEF A, c
<1>5. PICK f : DefinedBy(f, A, T, b, F, c)
  BY <1>1, <1>3, <1>4, RecursionOverSubsets
<1>6. \A S \in SUBSET A : f[S] = IF S = {} THEN b ELSE F[<<f[S \ {Max(S)}], Max(S)>>]
  BY <1>3, <1>5 DEF DefinedBy
<1>7. FoldsTo(f, n, T, b, F)
  BY <1>5, <1>6 DEF A, DefinedBy, FoldsTo
<1> QED
  BY <1>7

LEMMA FoldSteps ==
    ASSUME NEW n \in Nat, NEW k \in 0 .. n - 1
    PROVE  /\ 1 .. k + 1 \in (SUBSET (1 .. n)) \ {{}}
           /\ Max(1 .. k + 1) = k + 1
           /\ (1 .. k + 1) \ {Max(1 .. k + 1)} = 1 .. k
<1>1. 1 .. k + 1 \in SUBSET Nat /\ k + 1 \in 1 .. k + 1 /\ \A y \in 1 .. k + 1 : y <= k + 1
  OBVIOUS
<1>2. Max(1 .. k + 1) = k + 1
  BY <1>1, LargestIs
<1>3. (1 .. k + 1) \ {k + 1} = 1 .. k
  OBVIOUS
<1>4. 1 .. k + 1 \in (SUBSET (1 .. n)) \ {{}}
  <2>1. 1 \in 1 .. k + 1 /\ 1 .. k + 1 \subseteq 1 .. n
    OBVIOUS
  <2> QED
    BY <2>1, Zenon
<1> QED
  BY <1>2, <1>3, <1>4

-----------------------------------------------------------------------------
(* The size of a batch: its events' weights, summed in order *)

\* f is the function of the fold that sums the weights of a sequence.
WeighsBy(f, s, w) ==
    f = [S \in SUBSET (1 .. Len(s)) |->
            IF S = {} THEN 0 ELSE f[S \ {Max(S)}] + w[s[Max(S)]]]

\* g[k] is the weight of the first k.
RunningSum(g, s, w) ==
    /\ g \in [0 .. Len(s) -> Nat]
    /\ g[0] = 0
    /\ \A k \in 0 .. Len(s) - 1 : g[k + 1] = g[k] + w[s[k + 1]]

LEMMA WeightsOfSequence ==
    ASSUME NEW s \in Seq(Events), NEW w \in [Events -> Nat]
    PROVE  Len(s) \in Nat /\ DOMAIN s = 1 .. Len(s) /\ \A i \in 1 .. Len(s) : w[s[i]] \in Nat
<1>1. s \in [1 .. Len(s) -> Events]
  BY LenProperties
<1> QED
  BY <1>1, LenProperties

LEMMA WeightsExist ==
    ASSUME NEW s \in Seq(Events), NEW w \in [Events -> Nat]
    PROVE  \E f : WeighsBy(f, s, w)
<1> DEFINE n == Len(s)
           F == [p \in Nat \X (1 .. n) |-> p[1] + w[s[p[2]]]]
<1>1. n \in Nat /\ F \in [Nat \X (1 .. n) -> Nat]
  BY WeightsOfSequence
<1>2. PICK f : FoldsTo(f, n, Nat, 0, F)
  <2> HIDE DEF F, n
  <2> QED
    BY <1>1, FoldExists
<1>3. ASSUME NEW S \in SUBSET (1 .. n), S # {}
      PROVE  F[<<f[S \ {Max(S)}], Max(S)>>] = f[S \ {Max(S)}] + w[s[Max(S)]]
  <2>1. S \in SUBSET (0 .. n)
    OBVIOUS
  <2>2. Max(S) \in 1 .. n
    BY <1>1, <1>3, <2>1, LargestNumber
  <2>3. f[S \ {Max(S)}] \in Nat
    BY <1>2 DEF FoldsTo
  <2> QED
    BY <2>2, <2>3
<1>4. WeighsBy(f, s, w)
  BY <1>2, <1>3 DEF FoldsTo, WeighsBy
<1> QED
  BY <1>4

LEMMA WeightsAreSums ==
    ASSUME NEW s \in Seq(Events), NEW w \in [Events -> Nat], NEW h, WeighsBy(h, s, w)
    PROVE  RunningSum([k \in 0 .. Len(s) |-> h[1 .. k]], s, w)
<1> DEFINE n == Len(s)
           g == [k \in 0 .. n |-> h[1 .. k]]
           K == {k \in 0 .. n : h[1 .. k] \in Nat}
<1>1. n \in Nat /\ \A i \in 1 .. n : w[s[i]] \in Nat
  BY WeightsOfSequence
<1>2. h[1 .. 0] = 0
  BY DEF WeighsBy
<1>3. ASSUME NEW k \in 0 .. n - 1 PROVE h[1 .. k + 1] = h[1 .. k] + w[s[k + 1]]
  <2>1. /\ 1 .. k + 1 \in (SUBSET (1 .. n)) \ {{}}
        /\ Max(1 .. k + 1) = k + 1
        /\ (1 .. k + 1) \ {Max(1 .. k + 1)} = 1 .. k
    BY <1>1, FoldSteps
  <2> QED
    BY <2>1 DEF WeighsBy
<1>4. K = 0 .. n
  <2>1. K \in SUBSET (0 .. n) /\ 0 \in K
    BY <1>1, <1>2
  <2>2. ASSUME NEW k \in 0 .. n - 1, k \in K PROVE k + 1 \in K
    <3>1. k + 1 \in 0 .. n /\ w[s[k + 1]] \in Nat /\ h[1 .. k] \in Nat
      BY <1>1, <2>2
    <3> QED
      BY <1>3, <3>1
  <2> HIDE DEF K
  <2> QED
    BY <1>1, <2>1, <2>2, UpTo
<1>5. g \in [0 .. n -> Nat] /\ \A k \in 0 .. n : g[k] = h[1 .. k]
  BY <1>4
<1> HIDE DEF g, K
<1>6. g[0] = 0 /\ \A k \in 0 .. n - 1 : g[k + 1] = g[k] + w[s[k + 1]]
  BY <1>1, <1>2, <1>3, <1>5
<1> QED
  BY <1>5, <1>6 DEF RunningSum, g

LEMMA ByteSizeIsSum ==
    ASSUME NEW batch \in Seq(Events)
    PROVE  \E g : RunningSum(g, batch, Bytes) /\ ByteSize(batch) = g[Len(batch)]
<1> DEFINE h == CHOOSE f : f = [S \in SUBSET (1 .. Len(batch)) |->
                                   IF S = {} THEN 0
                                   ELSE f[S \ {Max(S)}] + Bytes[batch[Max(S)]]]
           g == [k \in 0 .. Len(batch) |-> h[1 .. k]]
<1>1. Len(batch) \in Nat /\ DOMAIN batch = 1 .. Len(batch) /\ Bytes \in [Events -> Nat]
  BY EventAssumption, LenProperties
<1>2. ByteSize(batch) = h[1 .. Len(batch)]
  BY <1>1 DEF ByteSize, FoldLeft, MapThenFoldSet
<1>3. WeighsBy(h, batch, Bytes)
  BY <1>1, WeightsExist DEF WeighsBy
<1> HIDE DEF h
<1>4. RunningSum(g, batch, Bytes) /\ g[Len(batch)] = h[1 .. Len(batch)]
  BY <1>1, <1>3, WeightsAreSums
<1> QED
  BY <1>2, <1>4

TokenWeights == [e \in Events |-> Bytes[e] \div 4]

LEMMA TokenWeightsType == TokenWeights \in [Events -> Nat]
<1>1. \A n \in Nat : n \div 4 \in Nat
  OBVIOUS
<1>2. \A e \in Events : Bytes[e] \div 4 \in Nat
  BY <1>1, EventAssumption
<1> QED
  BY <1>2 DEF TokenWeights

LEMMA TokenEstIsSum ==
    ASSUME NEW batch \in Seq(Events)
    PROVE  \E g : RunningSum(g, batch, TokenWeights) /\ TokenEst(batch) = g[Len(batch)]
<1> DEFINE n == Len(batch)
           Rec(f) == f = [S \in SUBSET (1 .. n) |->
                             IF S = {} THEN 0
                             ELSE f[S \ {Max(S)}] + Bytes[batch[Max(S)]] \div 4]
           h == CHOOSE f : Rec(f)
           g == [k \in 0 .. Len(batch) |-> h[1 .. k]]
<1>1. n \in Nat /\ DOMAIN batch = 1 .. n /\ batch \in [1 .. n -> Events]
  BY LenProperties
<1>2. TokenEst(batch) = h[1 .. n]
  BY <1>1 DEF TokenEst, FoldLeft, MapThenFoldSet
<1>3. ASSUME NEW S \in SUBSET (1 .. n), S # {}
      PROVE  TokenWeights[batch[Max(S)]] = Bytes[batch[Max(S)]] \div 4
  <2>1. S \in SUBSET (0 .. n)
    OBVIOUS
  <2>2. Max(S) \in 1 .. n
    BY <1>1, <1>3, <2>1, LargestNumber
  <2> QED
    BY <1>1, <2>2 DEF TokenWeights
<1>4. \A f : Rec(f) <=> WeighsBy(f, batch, TokenWeights)
  BY <1>3 DEF WeighsBy
<1>5. \E f : WeighsBy(f, batch, TokenWeights)
  BY TokenWeightsType, WeightsExist
<1> HIDE DEF Rec
<1>6. WeighsBy(h, batch, TokenWeights)
  BY <1>4, <1>5
<1> HIDE DEF h
<1>7. RunningSum(g, batch, TokenWeights) /\ g[n] = h[1 .. n]
  BY <1>1, <1>6, TokenWeightsType, WeightsAreSums
<1> QED
  BY <1>2, <1>7
-----------------------------------------------------------------------------
(* Sums over sets of events, whatever the order *)

\* G[S] is the weight of the set S.
SumsUp(G, w) ==
    /\ G \in [SUBSET Events -> Nat]
    /\ G[{}] = 0
    /\ \A S \in SUBSET Events : \A x \in S : G[S] = G[S \ {x}] + w[x]

LEMMA EventSets ==
    ASSUME NEW S \in SUBSET Events
    PROVE  /\ IsFiniteSet(S) /\ Cardinality(S) \in Nat
           /\ Cardinality(S) <= Cardinality(Events) /\ Cardinality(Events) \in Nat
           /\ Cardinality(S) = 0 <=> S = {}
           /\ \A x \in S : Cardinality(S \ {x}) = Cardinality(S) - 1
<1>1. IsFiniteSet(S) /\ Cardinality(S) <= Cardinality(Events)
  BY EventAssumption, FS_Subset
<1>2. Cardinality(S) \in Nat /\ Cardinality(Events) \in Nat
  BY <1>1, EventAssumption, FS_CardinalityType
<1>3. \A x \in S : Cardinality(S \ {x}) = Cardinality(S) - 1
  BY <1>1, FS_RemoveElement
<1> QED
  BY <1>1, <1>2, <1>3, FS_EmptySet

\* What is taken one element at a time may be taken in any order.
LEMMA SumsInAnyOrder ==
    ASSUME NEW w \in [Events -> Nat], NEW G \in [SUBSET Events -> Nat], G[{}] = 0,
           NEW c, \A S \in (SUBSET Events) \ {{}} : c[S] \in S /\ G[S] = G[S \ {c[S]}] + w[c[S]]
    PROVE  SumsUp(G, w)
<1> DEFINE N == Cardinality(Events)
           Good(S) == \A x \in S : G[S] = G[S \ {x}] + w[x]
           K == {k \in 0 .. N : \A S \in SUBSET Events : Cardinality(S) = k => Good(S)}
<1>1. N \in Nat
  BY EventSets
<1>2. 0 \in K
  BY <1>1, EventSets
<1>3. ASSUME NEW k \in 0 .. N - 1, k \in K,
             NEW S \in SUBSET Events, Cardinality(S) = k + 1, NEW x \in S
      PROVE  G[S] = G[S \ {x}] + w[x]
  <2> DEFINE y == c[S]
  <2>1. y \in S /\ G[S] = G[S \ {y}] + w[y]
    BY <1>3
  <2> HIDE DEF y
  <2>2. CASE x = y
    BY <2>1, <2>2
  <2>3. CASE x # y
    <3>0. \A z \in S : Cardinality(S \ {z}) = k
      <4>1. k \in Nat /\ Cardinality(S) = k + 1
        BY <1>3
      <4> QED
        BY <4>1, EventSets
    <3>1. /\ S \ {y} \in SUBSET Events /\ Cardinality(S \ {y}) = k /\ x \in S \ {y}
          /\ S \ {x} \in SUBSET Events /\ Cardinality(S \ {x}) = k /\ y \in S \ {x}
      BY <1>3, <2>1, <2>3, <3>0
    <3>2. (S \ {y}) \ {x} = (S \ {x}) \ {y} /\ (S \ {y}) \ {x} \in SUBSET Events
      OBVIOUS
    <3>3. G[S \ {y}] = G[(S \ {y}) \ {x}] + w[x] /\ G[S \ {x}] = G[(S \ {x}) \ {y}] + w[y]
      BY <1>3, <3>1
    <3>4. w[x] \in Nat /\ w[y] \in Nat /\ G[(S \ {y}) \ {x}] \in Nat
      BY <2>1, <3>2
    <3>5. \A g, wx, wy \in Nat : (g + wx) + wy = (g + wy) + wx
      OBVIOUS
    <3>6. G[S] = (G[(S \ {y}) \ {x}] + w[x]) + w[y]
      BY <2>1, <3>3
    <3>7. G[S \ {x}] + w[x] = (G[(S \ {y}) \ {x}] + w[y]) + w[x]
      BY <3>2, <3>3
    <3> QED
      BY <3>4, <3>5, <3>6, <3>7
  <2> QED
    BY <2>2, <2>3
<1>4. ASSUME NEW k \in 0 .. N - 1, k \in K PROVE k + 1 \in K
  <2>1. k + 1 \in 0 .. N
    BY <1>1
  <2>2. \A S \in SUBSET Events : Cardinality(S) = k + 1 => Good(S)
    BY <1>3, <1>4
  <2> HIDE DEF Good
  <2> QED
    BY <2>1, <2>2
<1>5. K \in SUBSET (0 .. N)
  OBVIOUS
<1>6. ASSUME NEW S \in SUBSET Events PROVE Good(S)
  <2>1. Cardinality(S) \in 0 .. N
    BY EventSets
  <2>2. K = 0 .. N
    <3> HIDE DEF K, N
    <3> QED
      BY <1>1, <1>2, <1>4, <1>5, UpTo
  <2>3. Cardinality(S) \in K
    BY <2>1, <2>2
  <2> QED
    BY <2>3
<1> QED
  BY <1>6 DEF SumsUp

\* There is such a sum, and it is what a fold over a set computes.
LEMMA SumsExist ==
    ASSUME NEW w \in [Events -> Nat]
    PROVE  \E G : SumsUp(G, w)
<1> DEFINE c == [S \in (SUBSET Events) \ {{}} |-> CHOOSE x \in S : TRUE]
           F == [p \in Nat \X Events |-> p[1] + w[p[2]]]
<1>1. /\ c \in [(SUBSET Events) \ {{}} -> Events]
      /\ \A S \in (SUBSET Events) \ {{}} : c[S] \in S
  OBVIOUS
<1>2. F \in [Nat \X Events -> Nat] /\ \A n \in Nat, e \in Events : F[<<n, e>>] = n + w[e]
  OBVIOUS
<1> HIDE DEF c, F
<1>3. PICK G : DefinedBy(G, Events, Nat, 0, F, c)
  BY <1>1, <1>2, EventAssumption, RecursionOverSubsets
<1>4. G \in [SUBSET Events -> Nat] /\ G[{}] = 0
  BY <1>3 DEF DefinedBy
<1>5. ASSUME NEW S \in (SUBSET Events) \ {{}} PROVE c[S] \in S /\ G[S] = G[S \ {c[S]}] + w[c[S]]
  <2>1. c[S] \in S /\ c[S] \in Events /\ S \ {c[S]} \in SUBSET Events
    BY <1>1
  <2> QED
    BY <1>2, <1>3, <1>4, <2>1 DEF DefinedBy
<1>6. SumsUp(G, w)
  BY <1>4, <1>5, SumsInAnyOrder
<1> QED
  BY <1>6

\* f is the function of the fold that sums the weights of a set.
SumsSet(f, T, w) ==
    f = [S \in SUBSET T |->
            IF S = {} THEN 0
            ELSE w[CHOOSE x \in S : TRUE] + f[S \ {CHOOSE x \in S : TRUE}]]

LEMMA SumOfFold ==
    ASSUME NEW w \in [Events -> Nat], NEW G, SumsUp(G, w), NEW T \in SUBSET Events,
           NEW f, SumsSet(f, T, w)
    PROVE  f[T] = G[T]
<1> DEFINE N == Cardinality(Events)
           K == {k \in 0 .. N : \A S \in SUBSET T : Cardinality(S) = k => f[S] = G[S]}
<1>1. N \in Nat
  BY EventSets
<1>2. 0 \in K
  <2>1. f[{}] = 0 /\ G[{}] = 0
    BY DEF SumsUp, SumsSet
  <2>2. \A S \in SUBSET T : Cardinality(S) = 0 => S = {}
    BY EventSets
  <2> QED
    BY <1>1, <2>1, <2>2
<1>3. ASSUME NEW k \in 0 .. N - 1, k \in K,
             NEW S \in SUBSET T, Cardinality(S) = k + 1
      PROVE  f[S] = G[S]
  <2> DEFINE x == CHOOSE x \in S : TRUE
  <2>1. S \in SUBSET Events /\ S # {} /\ k \in Nat
    <3>1. S \in SUBSET Events /\ k \in Nat /\ k + 1 # 0
      OBVIOUS
    <3> QED
      BY <1>3, <3>1, EventSets
  <2>2. x \in S
    BY <2>1
  <2>3. f[S] = w[x] + f[S \ {x}]
    BY <2>1 DEF SumsSet
  <2> HIDE DEF x
  <2>4. S \ {x} \in SUBSET T /\ Cardinality(S \ {x}) = k
    <3>1. Cardinality(S \ {x}) = Cardinality(S) - 1
      BY <2>1, <2>2, EventSets
    <3> QED
      BY <1>3, <2>1, <3>1
  <2>5. f[S \ {x}] = G[S \ {x}]
    BY <1>3, <2>4
  <2>6. G[S] = G[S \ {x}] + w[x] /\ G[S \ {x}] \in Nat /\ w[x] \in Nat
    BY <2>1, <2>2 DEF SumsUp
  <2> QED
    BY <2>3, <2>5, <2>6
<1>4. ASSUME NEW k \in 0 .. N - 1, k \in K PROVE k + 1 \in K
  <2>1. k + 1 \in 0 .. N
    BY <1>1
  <2> QED
    BY <1>3, <1>4, <2>1
<1>5. K = 0 .. N
  <2>1. K \in SUBSET (0 .. N)
    OBVIOUS
  <2> HIDE DEF K, N
  <2> QED
    BY <1>1, <1>2, <1>4, <2>1, UpTo
<1>6. Cardinality(T) \in K
  <2>1. Cardinality(T) \in 0 .. N
    BY EventSets
  <2> QED
    BY <1>5, <2>1
<1> QED
  BY <1>6

LEMMA BytesOfIsSum ==
    ASSUME NEW T \in SUBSET Events, NEW G, SumsUp(G, Bytes)
    PROVE  BytesOf(T) = G[T]
<1> DEFINE Rec(f) == f = [S \in SUBSET T |->
                             IF S = {} THEN 0
                             ELSE Bytes[CHOOSE x \in S : TRUE] + f[S \ {CHOOSE x \in S : TRUE}]]
           g == [S \in SUBSET T |-> G[S]]
           h == CHOOSE f : Rec(f)
<1>1. Bytes \in [Events -> Nat]
  BY EventAssumption
<1>2. Rec(g)
  <2>1. ASSUME NEW S \in SUBSET T, S # {}
        PROVE  LET x == CHOOSE x \in S : TRUE IN g[S] = Bytes[x] + g[S \ {x}]
    <3> DEFINE x == CHOOSE x \in S : TRUE
    <3>1. x \in S
      BY <2>1
    <3> HIDE DEF x
    <3>2. /\ g[S] = G[S] /\ g[S \ {x}] = G[S \ {x}]
          /\ G[S] = G[S \ {x}] + Bytes[x]
          /\ G[S \ {x}] \in Nat /\ Bytes[x] \in Nat
      BY <1>1, <3>1 DEF SumsUp
    <3>3. g[S] = Bytes[x] + g[S \ {x}]
      BY <3>2
    <3> QED
      BY <3>3 DEF x
  <2>2. g[{}] = 0
    BY DEF SumsUp
  <2> QED
    BY <2>1, <2>2
<1>3. Rec(h)
  BY <1>2
<1>4. BytesOf(T) = h[T]
  BY DEF BytesOf, MapThenSumSet, MapThenFoldSet
<1>5. SumsSet(h, T, Bytes)
  BY <1>3 DEF SumsSet
<1> HIDE DEF h
<1>6. h[T] = G[T]
  BY <1>1, <1>5, SumOfFold
<1> QED
  BY <1>4, <1>6

LEMMA TokensOfIsSum ==
    ASSUME NEW T \in SUBSET Events, NEW G, SumsUp(G, TokenWeights)
    PROVE  TokensOf(T) = G[T]
<1> DEFINE Rec(f) == f = [S \in SUBSET T |->
                             IF S = {} THEN 0
                             ELSE Bytes[CHOOSE x \in S : TRUE] \div 4
                                    + f[S \ {CHOOSE x \in S : TRUE}]]
           g == [S \in SUBSET T |-> G[S]]
           h == CHOOSE f : Rec(f)
<1>1. \A S \in SUBSET T : S # {} =>
          TokenWeights[CHOOSE x \in S : TRUE] = Bytes[CHOOSE x \in S : TRUE] \div 4
  BY DEF TokenWeights
<1>2. Rec(g)
  <2>1. ASSUME NEW S \in SUBSET T, S # {}
        PROVE  LET x == CHOOSE x \in S : TRUE IN g[S] = Bytes[x] \div 4 + g[S \ {x}]
    <3> DEFINE x == CHOOSE x \in S : TRUE
    <3>1. x \in S
      BY <2>1
    <3>2. TokenWeights[x] = Bytes[x] \div 4
      BY <1>1, <2>1
    <3> HIDE DEF x
    <3>3. /\ g[S] = G[S] /\ g[S \ {x}] = G[S \ {x}]
          /\ G[S] = G[S \ {x}] + TokenWeights[x]
          /\ G[S \ {x}] \in Nat /\ TokenWeights[x] \in Nat
      BY <3>1, TokenWeightsType DEF SumsUp
    <3>4. g[S] = Bytes[x] \div 4 + g[S \ {x}]
      BY <3>2, <3>3
    <3> QED
      BY <3>4 DEF x
  <2>2. g[{}] = 0
    BY DEF SumsUp
  <2> QED
    BY <2>1, <2>2
<1>3. Rec(h)
  BY <1>2
<1>4. TokensOf(T) = h[T]
  BY DEF TokensOf, MapThenSumSet, MapThenFoldSet
<1> HIDE DEF h
<1>5. SumsSet(h, T, TokenWeights)
  BY <1>1, <1>3 DEF SumsSet
<1>6. h[T] = G[T]
  BY <1>5, SumOfFold, TokenWeightsType
<1> QED
  BY <1>4, <1>6

\* No event twice.
Distinct(s) == \A i, j \in DOMAIN s : s[i] = s[j] => i = j

\* Summed in the order of a sequence or as a set, the weight is the same.
LEMMA SequenceSum ==
    ASSUME NEW s \in Seq(Events), Distinct(s), NEW w \in [Events -> Nat],
           NEW g, RunningSum(g, s, w), NEW G, SumsUp(G, w)
    PROVE  g[Len(s)] = G[Range(s)]
<1> DEFINE n == Len(s)
           First(k) == {s[i] : i \in 1 .. k}
           K == {k \in 0 .. n : g[k] = G[First(k)]}
<1>1. n \in Nat /\ DOMAIN s = 1 .. n /\ s \in [1 .. n -> Events]
  BY LenProperties
<1>2. 0 \in K
  <2>1. First(0) = {}
    OBVIOUS
  <2>2. g[0] = 0 /\ G[{}] = 0 /\ 0 \in 0 .. n
    BY <1>1 DEF RunningSum, SumsUp
  <2> HIDE DEF First, n
  <2> QED
    BY <2>1, <2>2
<1>3. ASSUME NEW k \in 0 .. n - 1, k \in K PROVE k + 1 \in K
  <2>1. k + 1 \in 1 .. n /\ k \in Nat
    BY <1>1
  <2>2. First(k + 1) \in SUBSET Events /\ s[k + 1] \in First(k + 1)
    BY <1>1, <2>1
  <2>3. First(k + 1) \ {s[k + 1]} = First(k)
    <3>1. ASSUME NEW i \in 1 .. k PROVE s[i] # s[k + 1] /\ i \in 1 .. k + 1
      BY <1>1, <2>1, <3>1 DEF Distinct
    <3>2. \A i \in 1 .. k + 1 : i = k + 1 \/ i \in 1 .. k
      BY <2>1
    <3> QED
      BY <3>1, <3>2
  <2> HIDE DEF First
  <2>4. G[First(k + 1)] = G[First(k)] + w[s[k + 1]]
    <3>1. \A S \in SUBSET Events : \A x \in S : G[S] = G[S \ {x}] + w[x]
      BY DEF SumsUp
    <3>2. G[First(k + 1)] = G[First(k + 1) \ {s[k + 1]}] + w[s[k + 1]]
      BY <2>2, <3>1
    <3> QED
      BY <2>3, <3>2
  <2>5. g[k + 1] = g[k] + w[s[k + 1]]
    BY <1>1, <1>3 DEF RunningSum
  <2>6. g[k] = G[First(k)]
    BY <1>3
  <2> QED
    BY <1>1, <2>1, <2>4, <2>5, <2>6
<1>4. K = 0 .. n
  <2>1. K \in SUBSET (0 .. n)
    OBVIOUS
  <2> HIDE DEF K, n
  <2> QED
    BY <1>1, <1>2, <1>3, <2>1, UpTo
<1>5. g[n] = G[First(n)]
  <2> HIDE DEF First, K, n
  <2>1. n \in K
    BY <1>1, <1>4
  <2> QED
    BY <2>1 DEF K
<1>6. First(n) = Range(s)
  BY <1>1 DEF Range
<1> QED
  BY <1>5, <1>6

\* The code's limits on a batch and a correct cut's are the same.
LEMMA LimitsFit ==
    ASSUME NEW s \in Seq(Events), Distinct(s)
    PROVE  WithinLimits(s) <=> Fits(Range(s))
<1>1. Range(s) \in SUBSET Events /\ Len(s) \in Nat /\ DOMAIN s = 1 .. Len(s)
  BY RangeOfSeq, LenProperties
<1>2. Cardinality(Range(s)) = Len(s)
  <2>1. s \in Bijection(1 .. Len(s), Range(s))
    BY <1>1 DEF Distinct, Range, Bijection, Injection, Surjection, IsInjective
  <2>2. IsFiniteSet(1 .. Len(s)) /\ Cardinality(1 .. Len(s)) = Len(s)
    <3>1. 1 \in Int /\ Len(s) \in Int
      BY <1>1
    <3>2. /\ IsFiniteSet(1 .. Len(s))
          /\ Cardinality(1 .. Len(s)) = IF 1 > Len(s) THEN 0 ELSE Len(s) - 1 + 1
      BY <3>1, FS_Interval, Zenon
    <3> QED
      BY <1>1, <3>2
  <2> QED
    BY <2>1, <2>2, FS_Bijection DEF ExistsBijection
<1>3. ByteSize(s) = BytesOf(Range(s))
  <2>1. PICK g : RunningSum(g, s, Bytes) /\ ByteSize(s) = g[Len(s)]
    BY ByteSizeIsSum
  <2>2. Bytes \in [Events -> Nat]
    BY EventAssumption
  <2>3. PICK G : SumsUp(G, Bytes)
    BY <2>2, SumsExist
  <2> QED
    BY <1>1, <2>1, <2>2, <2>3, SequenceSum, BytesOfIsSum
<1>4. TokenEst(s) = TokensOf(Range(s))
  <2>1. PICK g : RunningSum(g, s, TokenWeights) /\ TokenEst(s) = g[Len(s)]
    BY TokenEstIsSum
  <2>2. PICK G : SumsUp(G, TokenWeights)
    BY TokenWeightsType, SumsExist
  <2> QED
    BY <1>1, <2>1, <2>2, TokenWeightsType, SequenceSum, TokensOfIsSum
<1> QED
  BY <1>2, <1>3, <1>4 DEF WithinLimits, Fits

-----------------------------------------------------------------------------
(* The order of the events *)

\* line is the events of S in order.
Sorted(line, S) ==
    /\ line \in [1 .. Cardinality(S) -> S]
    /\ \A i, j \in DOMAIN line : i < j => Before(line[i], line[j])

LEMMA BeforeIsStrict ==
    ASSUME NEW e \in Events, NEW f \in Events
    PROVE  /\ ~Before(e, e)
           /\ Before(e, f) \/ Before(f, e) \/ e = f
<1>1. Created[e] \in Nat /\ Created[f] \in Nat /\ e \in Nat /\ f \in Nat
  BY EventAssumption
<1> QED
  BY <1>1 DEF Before

LEMMA FirstEvent ==
    ASSUME NEW S \in SUBSET Events, S # {}
    PROVE  \E x \in S : \A f \in S \ {x} : Before(x, f)
<1>1. Created \in [Events -> Nat] /\ Events \in SUBSET Nat
  BY EventAssumption
<1> DEFINE Times == {Created[e] : e \in S}
<1>2. Times \in SUBSET Nat /\ Times # {}
  BY <1>1
<1>3. PICK t \in Times : \A u \in Times : t <= u
  BY <1>2, LeastNumber
<1> DEFINE Oldest == {e \in S : Created[e] = t}
<1>4. Oldest \in SUBSET Nat /\ Oldest # {}
  BY <1>1
<1>5. PICK x \in Oldest : \A f \in Oldest : x <= f
  BY <1>4, LeastNumber
<1>6. ASSUME NEW f \in S \ {x} PROVE Before(x, f)
  <2>1. Created[x] = t /\ t <= Created[f] /\ t \in Nat /\ Created[f] \in Nat /\ x \in Nat /\ f \in Nat
    BY <1>1, <1>2, <1>3
  <2>2. Created[f] = t => x <= f /\ x # f
    BY <1>5
  <2> QED
    BY <2>1, <2>2 DEF Before
<1> QED
  BY <1>6

LEMMA SortedExists ==
    ASSUME NEW T \in SUBSET Events
    PROVE  \E line : Sorted(line, T)
<1> DEFINE N == Cardinality(Events)
           K == {k \in 0 .. N : \A S \in SUBSET Events :
                                   Cardinality(S) = k => \E line : Sorted(line, S)}
<1>1. N \in Nat
  BY EventSets
<1>2. 0 \in K
  <2>1. ASSUME NEW S \in SUBSET Events, Cardinality(S) = 0 PROVE Sorted(<<>>, S)
    <3>1. S = {}
      BY <2>1, EventSets
    <3> QED
      BY <2>1, <3>1 DEF Sorted
  <2> QED
    BY <1>1, <2>1
<1>3. ASSUME NEW k \in 0 .. N - 1, k \in K,
             NEW S \in SUBSET Events, Cardinality(S) = k + 1
      PROVE  \E line : Sorted(line, S)
  <2>1. S # {} /\ k \in Nat
    <3>1. k \in Nat /\ k + 1 # 0
      OBVIOUS
    <3> QED
      BY <1>3, <3>1, EventSets
  <2>2. PICK x \in S : \A f \in S \ {x} : Before(x, f)
    BY <2>1, FirstEvent
  <2>3. S \ {x} \in SUBSET Events /\ Cardinality(S \ {x}) = k
    BY <1>3, <2>1, EventSets
  <2>4. PICK line : Sorted(line, S \ {x})
    BY <1>3, <2>3
  <2>5. line \in [1 .. k -> S \ {x}] /\ \A i, j \in 1 .. k : i < j => Before(line[i], line[j])
    BY <2>3, <2>4 DEF Sorted
  <2> DEFINE longer == [i \in 1 .. k + 1 |-> IF i = 1 THEN x ELSE line[i - 1]]
  <2>6. \A i \in 1 .. k + 1 : i # 1 => i - 1 \in 1 .. k /\ longer[i] = line[i - 1]
    BY <2>1
  <2>7. longer \in [1 .. k + 1 -> S]
    BY <2>5, <2>6
  <2>8. ASSUME NEW i \in 1 .. k + 1, NEW j \in 1 .. k + 1, i < j
        PROVE  Before(longer[i], longer[j])
    <3>1. j # 1 /\ longer[j] = line[j - 1] /\ j - 1 \in 1 .. k /\ longer[j] \in S \ {x}
      BY <2>5, <2>6, <2>8
    <3>2. CASE i = 1
      <4>1. longer[i] = x
        BY <3>2
      <4> QED
        BY <2>2, <3>1, <4>1
    <3>3. CASE i # 1
      <4>1. longer[i] = line[i - 1] /\ i - 1 \in 1 .. k /\ i - 1 < j - 1
        BY <2>6, <2>8, <3>3
      <4> QED
        BY <2>5, <3>1, <4>1
    <3> QED
      BY <3>2, <3>3
  <2> HIDE DEF longer
  <2>9. Sorted(longer, S)
    BY <1>3, <2>7, <2>8 DEF Sorted
  <2> QED
    BY <2>9
<1>4. ASSUME NEW k \in 0 .. N - 1, k \in K PROVE k + 1 \in K
  <2>1. k + 1 \in 0 .. N
    BY <1>1
  <2> QED
    BY <1>3, <1>4, <2>1
<1>5. K = 0 .. N
  <2>1. K \in SUBSET (0 .. N)
    OBVIOUS
  <2> HIDE DEF K, N
  <2> QED
    BY <1>1, <1>2, <1>4, <2>1, UpTo
<1>6. Cardinality(T) \in K
  <2>1. Cardinality(T) \in 0 .. N
    BY EventSets
  <2> QED
    BY <1>5, <2>1
<1> QED
  BY <1>6

\* The order in which the batches are formed: every event, once, by time and id.
LEMMA OrderedIsSorted ==
    ASSUME NEW T \in SUBSET Events
    PROVE  LET line == Ordered(T)
           IN  /\ line \in Seq(Events) /\ Len(line) = Cardinality(T)
               /\ Range(line) = T /\ Distinct(line)
               /\ \A i, j \in 1 .. Len(line) : i < j => Before(line[i], line[j])
<1> DEFINE n == Cardinality(T)
           line == Ordered(T)
<1>1. n \in Nat /\ IsFiniteSet(T)
  BY EventSets
<1>2. Sorted(line, T)
  BY SortedExists DEF Sorted, Ordered
<1> HIDE DEF line
<1>3. line \in [1 .. n -> T] /\ line \in Seq(Events) /\ Len(line) = n /\ DOMAIN line = 1 .. n
  BY <1>1, <1>2 DEF Sorted
<1>4. \A i, j \in 1 .. n : i < j => Before(line[i], line[j])
  BY <1>2, <1>3 DEF Sorted
<1>5. ASSUME NEW i \in 1 .. n, NEW j \in 1 .. n, line[i] = line[j] PROVE i = j
  <2>1. line[i] \in Events /\ ~Before(line[i], line[i])
    BY <1>3, BeforeIsStrict
  <2>2. ~(i < j) /\ ~(j < i)
    BY <1>4, <1>5, <2>1
  <2> QED
    BY <2>2
<1>6. line \in Injection(1 .. n, T)
  BY <1>3, <1>5 DEF Injection, IsInjective
<1>7. line \in Surjection(1 .. n, T)
  <2>1. Cardinality(1 .. n) = n
    BY <1>1, FS_Interval
  <2> QED
    BY <1>1, <1>6, <2>1, FS_Injection
<1>8. Range(line) = T
  BY <1>3, <1>7 DEF Surjection, Range
<1> QED
  BY <1>3, <1>4, <1>5, <1>8 DEF Distinct, line

-----------------------------------------------------------------------------
(* A sequence of sequences in a row *)

\* f is the function of FlattenSeq.
Flattens(f, ss, k) ==
    f = [i \in 1 .. k |-> IF i = 1 THEN ss[i] ELSE f[i - 1] \o ss[i]]

\* g[k] is the first k of ss in a row.
InARow(g, ss, S) ==
    /\ g \in [0 .. Len(ss) -> Seq(S)]
    /\ g[0] = <<>>
    /\ \A k \in 0 .. Len(ss) - 1 : g[k + 1] = g[k] \o ss[k + 1]

LEMMA FlattenExists ==
    ASSUME NEW n \in Nat, NEW ss
    PROVE  \E f : Flattens(f, ss, n)
<1> DEFINE K == {k \in 0 .. n : \E f : Flattens(f, ss, k)}
<1>1. 0 \in K
  <2>1. Flattens([i \in 1 .. 0 |-> IF i = 1 THEN ss[i] ELSE <<>>], ss, 0)
    BY DEF Flattens
  <2> QED
    BY <2>1
<1>2. ASSUME NEW k \in 0 .. n - 1, k \in K PROVE k + 1 \in K
  <2>1. PICK f : Flattens(f, ss, k)
    BY <1>2
  <2> DEFINE g == [i \in 1 .. k + 1 |->
                      IF i \in 1 .. k THEN f[i]
                      ELSE IF i = 1 THEN ss[i] ELSE f[i - 1] \o ss[i]]
  <2>2. ASSUME NEW i \in 1 .. k + 1
        PROVE  g[i] = IF i = 1 THEN ss[i] ELSE g[i - 1] \o ss[i]
    <3>1. i # 1 => i - 1 \in 1 .. k /\ g[i - 1] = f[i - 1]
      OBVIOUS
    <3>2. i \in 1 .. k => f[i] = IF i = 1 THEN ss[i] ELSE f[i - 1] \o ss[i]
      BY <2>1 DEF Flattens
    <3> QED
      BY <3>1, <3>2
  <2>3. g = [i \in 1 .. k + 1 |-> g[i]]
    OBVIOUS
  <2> HIDE DEF g
  <2>4. Flattens(g, ss, k + 1)
    BY <2>2, <2>3 DEF Flattens
  <2>5. k + 1 \in 0 .. n
    OBVIOUS
  <2> QED
    BY <2>4, <2>5
<1>3. K \in SUBSET (0 .. n)
  OBVIOUS
<1> HIDE DEF K
<1>4. K = 0 .. n
  BY <1>1, <1>2, <1>3, UpTo
<1> QED
  BY <1>4 DEF K

LEMMA FlattenInARow ==
    ASSUME NEW S, NEW ss \in Seq(Seq(S))
    PROVE  \E g : InARow(g, ss, S) /\ FlattenSeq(ss) = g[Len(ss)]
<1> DEFINE n == Len(ss)
           h == CHOOSE f : Flattens(f, ss, n)
           g == [k \in 0 .. n |-> IF k = 0 THEN <<>> ELSE h[k]]
           K == {k \in 0 .. n : g[k] \in Seq(S)}
<1>1. n \in Nat /\ ss \in [1 .. n -> Seq(S)]
  BY LenProperties
<1>2. Flattens(h, ss, n)
  BY <1>1, FlattenExists
<1>3. FlattenSeq(ss) = IF n = 0 THEN ss ELSE h[n]
  BY DEF FlattenSeq, Flattens
<1> HIDE DEF h
<1>4. g[0] = <<>> /\ (n = 0 => ss = <<>>)
  BY <1>1, EmptySeq
<1>5. FlattenSeq(ss) = g[n]
  BY <1>1, <1>3, <1>4
<1>6. 0 \in K /\ <<>> \in Seq(S)
  BY <1>1, EmptySeq
<1>7. ASSUME NEW k \in 0 .. n - 1, k \in K
      PROVE  k + 1 \in K /\ g[k + 1] = g[k] \o ss[k + 1]
  <2>1. k + 1 \in 1 .. n /\ k + 1 \in 0 .. n /\ g[k + 1] = h[k + 1] /\ ss[k + 1] \in Seq(S)
    BY <1>1
  <2>2. h[k + 1] = IF k + 1 = 1 THEN ss[k + 1] ELSE h[(k + 1) - 1] \o ss[k + 1]
    BY <1>2, <2>1 DEF Flattens
  <2>3. g[k + 1] = g[k] \o ss[k + 1]
    <3>1. CASE k = 0
      <4>1. g[k + 1] = ss[k + 1] /\ g[k] = <<>>
        BY <2>1, <2>2, <3>1, <1>4
      <4>2. <<>> \o ss[k + 1] = ss[k + 1]
        BY <2>1, ConcatEmptySeq
      <4> QED
        BY <4>1, <4>2
    <3>2. CASE k # 0
      <4>1. (k + 1) - 1 = k /\ k + 1 # 1 /\ g[k] = h[k]
        BY <3>2
      <4> QED
        BY <2>1, <2>2, <4>1
    <3> QED
      BY <3>1, <3>2
  <2>4. g[k] \in Seq(S)
    BY <1>7
  <2>5. g[k + 1] \in Seq(S)
    BY <2>1, <2>3, <2>4, ConcatProperties
  <2> QED
    BY <2>1, <2>3, <2>5
<1>8. K = 0 .. n
  <2>1. K \in SUBSET (0 .. n)
    OBVIOUS
  <2> HIDE DEF K, n
  <2> QED
    BY <1>1, <1>6, <1>7, <2>1, UpTo
<1>9. g \in [0 .. n -> Seq(S)]
  BY <1>8
<1>10. InARow(g, ss, S)
  <2>1. ASSUME NEW k \in 0 .. n - 1 PROVE g[k + 1] = g[k] \o ss[k + 1]
    <3>1. k \in 0 .. n
      BY <1>1
    <3> HIDE DEF K, g, n
    <3> QED
      BY <1>7, <1>8, <3>1
  <2> QED
    BY <1>4, <1>9, <2>1 DEF InARow
<1> QED
  BY <1>5, <1>10

LEMMA FlattenType ==
    ASSUME NEW S, NEW ss \in Seq(Seq(S))
    PROVE  FlattenSeq(ss) \in Seq(S)
<1>1. PICK g : InARow(g, ss, S) /\ FlattenSeq(ss) = g[Len(ss)]
  BY FlattenInARow
<1>2. Len(ss) \in 0 .. Len(ss)
  BY LenProperties
<1> QED
  BY <1>1, <1>2 DEF InARow

\* A sequence more makes the row longer by that sequence.
LEMMA FlattenAppend ==
    ASSUME NEW S, NEW ss \in Seq(Seq(S)), NEW s \in Seq(S)
    PROVE  FlattenSeq(Append(ss, s)) = FlattenSeq(ss) \o s
<1> DEFINE n == Len(ss)
           longer == Append(ss, s)
<1>1. /\ longer \in Seq(Seq(S)) /\ Len(longer) = n + 1 /\ n \in Nat
      /\ \A i \in 1 .. n : longer[i] = ss[i]
      /\ longer[n + 1] = s
  BY AppendProperties, LenProperties
<1> HIDE DEF n, longer
<1>2. PICK g : InARow(g, ss, S) /\ FlattenSeq(ss) = g[n]
  BY FlattenInARow DEF n
<1>3. PICK h : InARow(h, longer, S) /\ FlattenSeq(longer) = h[n + 1]
  BY <1>1, FlattenInARow
<1> DEFINE K == {k \in 0 .. n : h[k] = g[k]}
<1>4. 0 \in K
  BY <1>1, <1>2, <1>3 DEF InARow
<1>5. ASSUME NEW k \in 0 .. n - 1, k \in K PROVE k + 1 \in K
  <2>1. k \in 0 .. (n + 1) - 1 /\ k + 1 \in 0 .. n /\ k + 1 \in 1 .. n
    BY <1>1
  <2>2. h[k + 1] = h[k] \o longer[k + 1]
    BY <1>1, <1>3, <2>1 DEF InARow
  <2>3. g[k + 1] = g[k] \o ss[k + 1]
    BY <1>2 DEF InARow, n
  <2> QED
    BY <1>1, <1>5, <2>1, <2>2, <2>3
<1>6. K \in SUBSET (0 .. n)
  OBVIOUS
<1> HIDE DEF K
<1>7. n \in K
  <2>1. n \in Nat /\ n \in 0 .. n
    BY <1>1
  <2>2. K = 0 .. n
    BY <2>1, <1>4, <1>5, <1>6, UpTo
  <2> QED
    BY <2>1, <2>2
<1>8. n \in 0 .. (n + 1) - 1
  BY <1>1
<1>9. h[n + 1] = h[n] \o longer[n + 1]
  BY <1>1, <1>3, <1>8 DEF InARow
<1> QED
  BY <1>1, <1>2, <1>3, <1>7, <1>9 DEF K, longer

LEMMA FlattenEmpty == FlattenSeq(<<>>) = <<>>
BY DEF FlattenSeq

-----------------------------------------------------------------------------
(* FormBatches *)

Batches == Seq(Seq(Events)) \ {<<>>}

\* Either the batch in the making takes the event or the event opens the next.
LEMMA AddEventCases ==
    ASSUME NEW bs \in Batches, NEW e \in Events
    PROVE  \E front \in Seq(Seq(Events)), last \in Seq(Events) :
               /\ bs = Append(front, last)
               /\ AddEvent(bs, e) =
                    IF WithinLimits(Append(last, e)) \/ last = <<>>
                    THEN Append(front, Append(last, e))
                    ELSE Append(bs, <<e>>)
<1>1. bs \in Seq(Seq(Events)) /\ bs # <<>>
  BY DEF Batches
<1>2. PICK front \in Seq(Seq(Events)), last \in Seq(Events) : bs = Append(front, last)
  BY <1>1, SequenceEmptyOrAppend
<1> DEFINE n == Len(front) + 1
<1>3. /\ Len(bs) = n /\ bs[n] = last /\ n \in 1 .. Len(bs) /\ n \in Nat
      /\ \A i \in 1 .. Len(front) : bs[i] = front[i]
  BY <1>2, AppendProperties, LenProperties
<1>4. Append(last, e) \in Seq(Events)
  BY AppendProperties
<1>5. [bs EXCEPT ![n] = Append(bs[n], e)] = Append(front, Append(last, e))
  <2> DEFINE t == [bs EXCEPT ![n] = Append(last, e)]
             u == Append(front, Append(last, e))
  <2>1. /\ t \in Seq(Seq(Events)) /\ Len(t) = n
        /\ \A j \in 1 .. n : t[j] = IF j = n THEN Append(last, e) ELSE bs[j]
    BY <1>1, <1>3, <1>4, ExceptSeq
  <2>2. /\ u \in Seq(Seq(Events)) /\ Len(u) = n
        /\ \A j \in 1 .. Len(front) : u[j] = front[j]
        /\ u[n] = Append(last, e)
    BY <1>4, AppendProperties
  <2>3. \A j \in 1 .. n : j # n => j \in 1 .. Len(front)
    BY LenProperties
  <2> HIDE DEF t, u, n
  <2>4. \A j \in 1 .. n : t[j] = u[j]
    BY <1>3, <2>1, <2>2, <2>3
  <2>5. t = u
    BY <2>1, <2>2, <2>4, SeqEqual
  <2> QED
    BY <1>3, <2>5 DEF t, u
<1>6. AddEvent(bs, e) = IF WithinLimits(Append(last, e)) \/ last = <<>>
                       THEN Append(front, Append(last, e))
                       ELSE Append(bs, <<e>>)
  BY <1>3, <1>5 DEF AddEvent, Last
<1> QED
  BY <1>2, <1>6

LEMMA AddEventType ==
    ASSUME NEW bs \in Batches, NEW e \in Events
    PROVE  AddEvent(bs, e) \in Batches
<1>1. PICK front \in Seq(Seq(Events)), last \in Seq(Events) :
          /\ bs = Append(front, last)
          /\ AddEvent(bs, e) =
               IF WithinLimits(Append(last, e)) \/ last = <<>>
               THEN Append(front, Append(last, e))
               ELSE Append(bs, <<e>>)
  BY AddEventCases
<1>2. Append(last, e) \in Seq(Events) /\ <<e>> \in Seq(Events)
  BY AppendProperties
<1>3. ASSUME NEW t \in Seq(Seq(Events)), NEW s \in Seq(Events) PROVE Append(t, s) \in Batches
  <2> DEFINE Batch == Seq(Events)
  <2>1. t \in Seq(Batch) /\ s \in Batch
    OBVIOUS
  <2> HIDE DEF Batch
  <2>2. Append(t, s) \in Seq(Batch)
    BY <2>1
  <2>3. Append(t, s) # <<>>
    <3>1. Len(Append(t, s)) = Len(t) + 1 /\ Len(t) \in Nat
      BY <2>1
    <3>2. Len(Append(t, s)) # Len(<<>>)
      BY <3>1
    <3> QED
      BY <3>2
  <2> QED
    BY <2>2, <2>3 DEF Batch, Batches
<1> QED
  BY <1>1, <1>2, <1>3 DEF Batches

\* The batches after each event.
LEMMA FormBatchesSteps ==
    ASSUME NEW T \in SUBSET Events, T # {}
    PROVE  LET line == Ordered(T)
               n == Len(line)
           IN  \E g \in [0 .. n -> Batches] :
                   /\ g[0] = << <<>> >>
                   /\ \A k \in 0 .. n - 1 : g[k + 1] = AddEvent(g[k], line[k + 1])
                   /\ FormBatches(T) = g[n]
<1> DEFINE line == Ordered(T)
           n == Len(line)
           F == [p \in Batches \X (1 .. n) |-> AddEvent(p[1], line[p[2]])]
           Rec(f) == f = [S \in SUBSET (1 .. n) |->
                             IF S = {} THEN << <<>> >>
                             ELSE AddEvent(f[S \ {Max(S)}], line[Max(S)])]
           h == CHOOSE f : Rec(f)
           g == [k \in 0 .. n |-> h[1 .. k]]
           K == {k \in 0 .. n : h[1 .. k] \in Batches}
<1>1. n \in Nat /\ DOMAIN line = 1 .. n /\ line \in [1 .. n -> Events]
  BY OrderedIsSorted, LenProperties
<1>2. FormBatches(T) = h[1 .. n]
  BY <1>1 DEF FormBatches, FoldLeft, MapThenFoldSet
<1> HIDE DEF line
<1>3. F \in [Batches \X (1 .. n) -> Batches]
  BY <1>1, AddEventType
<1>4. << <<>> >> \in Batches
  BY EmptySeq DEF Batches
<1>5. PICK f : FoldsTo(f, n, Batches, << <<>> >>, F)
  <2> HIDE DEF F, n
  <2> QED
    BY <1>1, <1>3, <1>4, FoldExists
<1>6. ASSUME NEW S \in SUBSET (1 .. n), S # {}
      PROVE  F[<<f[S \ {Max(S)}], Max(S)>>] = AddEvent(f[S \ {Max(S)}], line[Max(S)])
  <2>1. S \in SUBSET (0 .. n)
    OBVIOUS
  <2>2. Max(S) \in 1 .. n
    BY <1>1, <1>6, <2>1, LargestNumber
  <2>3. f[S \ {Max(S)}] \in Batches
    BY <1>5 DEF FoldsTo
  <2> QED
    BY <2>2, <2>3
<1>7. Rec(f)
  BY <1>5, <1>6 DEF FoldsTo
<1>8. Rec(h)
  BY <1>7
<1> HIDE DEF h
<1>9. h[1 .. 0] = << <<>> >>
  BY <1>8
<1>10. ASSUME NEW k \in 0 .. n - 1 PROVE h[1 .. k + 1] = AddEvent(h[1 .. k], line[k + 1])
  <2>1. /\ 1 .. k + 1 \in (SUBSET (1 .. n)) \ {{}}
        /\ Max(1 .. k + 1) = k + 1
        /\ (1 .. k + 1) \ {Max(1 .. k + 1)} = 1 .. k
    BY <1>1, FoldSteps
  <2> QED
    BY <1>8, <2>1
<1>11. K = 0 .. n
  <2>1. K \in SUBSET (0 .. n) /\ 0 \in K
    BY <1>1, <1>4, <1>9
  <2>2. ASSUME NEW k \in 0 .. n - 1, k \in K PROVE k + 1 \in K
    <3>1. k + 1 \in 0 .. n /\ line[k + 1] \in Events /\ h[1 .. k] \in Batches
      BY <1>1, <2>2
    <3> QED
      BY <1>10, <3>1, AddEventType
  <2> HIDE DEF K
  <2> QED
    BY <1>1, <2>1, <2>2, UpTo
<1>12. g \in [0 .. n -> Batches] /\ \A k \in 0 .. n : g[k] = h[1 .. k]
  BY <1>11
<1> HIDE DEF g, K
<1>13. /\ g[0] = << <<>> >>
       /\ \A k \in 0 .. n - 1 : g[k + 1] = AddEvent(g[k], line[k + 1])
       /\ FormBatches(T) = g[n]
  BY <1>1, <1>2, <1>9, <1>10, <1>12
<1> QED
  BY <1>12, <1>13 DEF line

\* What holds of the batches when the first k events of line are in them.
CutSoFar(bs, line, k) ==
    /\ FlattenSeq(bs) = SubSeq(line, 1, k)
    /\ k > 0 => \A i \in 1 .. Len(bs) : bs[i] # <<>>
    /\ k = 0 => Len(bs) = 1
    /\ \A i \in 1 .. Len(bs) :
          /\ Distinct(bs[i])
          /\ Range(bs[i]) \in SUBSET {line[m] : m \in 1 .. k}
          /\ Len(bs[i]) = 1 \/ WithinLimits(bs[i]) \/ bs[i] = <<>>
    /\ \A i \in 2 .. Len(bs) :
          /\ Distinct(Append(bs[i - 1], Head(bs[i])))
          /\ ~WithinLimits(Append(bs[i - 1], Head(bs[i])))

LEMMA RangeAppend ==
    ASSUME NEW s \in Seq(Events), NEW e \in Events
    PROVE  Range(Append(s, e)) = Range(s) \union {e}
<1> DEFINE n == Len(s)
           longer == Append(s, e)
<1>1. /\ n \in Nat /\ DOMAIN s = 1 .. n
      /\ DOMAIN longer = 1 .. n + 1 /\ longer[n + 1] = e
      /\ \A i \in 1 .. n : longer[i] = s[i]
  BY AppendProperties, LenProperties
<1> HIDE DEF n, longer
<1>2. /\ n + 1 \in 1 .. n + 1 /\ \A i \in 1 .. n : i \in 1 .. n + 1
      /\ \A i \in 1 .. n + 1 : i = n + 1 \/ i \in 1 .. n
  BY <1>1
<1>3. Range(longer) = Range(s) \union {e}
  BY <1>1, <1>2 DEF Range
<1> QED
  BY <1>3 DEF longer

LEMMA DistinctAppend ==
    ASSUME NEW s \in Seq(Events), NEW e \in Events, Distinct(s), e \notin Range(s)
    PROVE  Distinct(Append(s, e))
<1> DEFINE n == Len(s)
           t == Append(s, e)
<1>1. /\ n \in Nat /\ DOMAIN s = 1 .. n /\ DOMAIN t = 1 .. n + 1
      /\ \A i \in 1 .. n : t[i] = s[i] /\ s[i] \in Range(s)
      /\ t[n + 1] = e
  BY AppendProperties, LenProperties DEF Range
<1> HIDE DEF n, t
<1>2. \A i \in 1 .. n + 1 : i = n + 1 \/ i \in 1 .. n
  BY <1>1
<1>3. Distinct(t)
  BY <1>1, <1>2 DEF Distinct
<1> QED
  BY <1>3 DEF t

LEMMA CutStep ==
    ASSUME NEW line \in Seq(Events), Distinct(line), NEW k \in 0 .. Len(line) - 1,
           NEW bs \in Batches, CutSoFar(bs, line, k)
    PROVE  CutSoFar(AddEvent(bs, line[k + 1]), line, k + 1)
<1> DEFINE e == line[k + 1]
           bs2 == AddEvent(bs, e)
           Seen(m) == {line[i] : i \in 1 .. m}
<1>1. /\ k \in Nat /\ k + 1 \in 1 .. Len(line) /\ e \in Events /\ e \notin Seen(k)
      /\ Seen(k + 1) = Seen(k) \union {e}
  <2>1. Len(line) \in Nat /\ DOMAIN line = 1 .. Len(line) /\ line \in [1 .. Len(line) -> Events]
    BY LenProperties
  <2>2. k \in Nat /\ k + 1 \in 1 .. Len(line) /\ \A i \in 1 .. k : i \in 1 .. Len(line) /\ i # k + 1
    BY <2>1
  <2>3. \A i \in 1 .. k + 1 : i = k + 1 \/ i \in 1 .. k
    BY <2>2
  <2>4. 1 .. k \in SUBSET (1 .. k + 1) /\ k + 1 \in 1 .. k + 1
    BY <2>2
  <2>5. e \notin Seen(k)
    BY <2>1, <2>2 DEF Distinct
  <2>6. Seen(k + 1) = Seen(k) \union {e}
    BY <2>3, <2>4
  <2> QED
    BY <2>1, <2>2, <2>5, <2>6
<1>2. PICK front \in Seq(Seq(Events)), last \in Seq(Events) :
          /\ bs = Append(front, last)
          /\ bs2 = IF WithinLimits(Append(last, e)) \/ last = <<>>
                   THEN Append(front, Append(last, e))
                   ELSE Append(bs, <<e>>)
  BY <1>1, AddEventCases
<1> DEFINE n == Len(front)
<1>3. /\ n \in Nat /\ Len(bs) = n + 1 /\ bs[n + 1] = last
      /\ \A i \in 1 .. n : bs[i] = front[i]
      /\ bs \in Seq(Seq(Events)) /\ n + 1 \in 1 .. n + 1
  BY <1>2, AppendProperties, LenProperties
<1>4. SubSeq(line, 1, k + 1) = SubSeq(line, 1, k) \o <<e>>
  <2>1. 1 \in 1 .. Len(line) /\ k + 1 \in 1 .. Len(line) /\ (k + 1) - 1 = k
    BY <1>1
  <2>2. SubSeq(line, 1, k + 1) = SubSeq(line, 1, (k + 1) - 1) \o <<line[k + 1]>>
    BY <2>1, SubSeqRecursiveSecond
  <2> QED
    BY <2>1, <2>2
<1> HIDE DEF e, bs2, Seen, n
<1>5. /\ Distinct(last) /\ Range(last) \in SUBSET Seen(k) /\ e \notin Range(last)
  BY <1>1, <1>3 DEF CutSoFar, Seen
<1>6. /\ Distinct(Append(last, e)) /\ Range(Append(last, e)) \in SUBSET Seen(k + 1)
      /\ Append(last, e) \in Seq(Events) /\ Append(last, e) # <<>>
      /\ Len(Append(last, e)) = Len(last) + 1
  <2>1. /\ Append(last, e) \in Seq(Events) /\ Append(last, e) # <<>>
        /\ Len(Append(last, e)) = Len(last) + 1
    BY <1>1, AppendProperties
  <2>2. Distinct(Append(last, e)) /\ Range(Append(last, e)) = Range(last) \union {e}
    BY <1>1, <1>5, DistinctAppend, RangeAppend
  <2> QED
    BY <1>1, <1>5, <2>1, <2>2
<1>7. <<e>> \in Seq(Events) /\ Distinct(<<e>>) /\ Range(<<e>>) = {e} /\ Len(<<e>>) = 1 /\ <<e>> # <<>>
      /\ Head(<<e>>) = e
  BY <1>1 DEF Distinct, Range
<1>8. CASE WithinLimits(Append(last, e)) \/ last = <<>>
  <2>1. bs2 = Append(front, Append(last, e))
    BY <1>2, <1>8
  <2>2. /\ Len(bs2) = n + 1 /\ bs2[n + 1] = Append(last, e)
        /\ \A i \in 1 .. n : bs2[i] = bs[i] /\ i \in 1 .. n + 1
    BY <2>1, <1>3, <1>6, AppendProperties DEF n
  <2>3. FlattenSeq(bs2) = SubSeq(line, 1, k + 1)
    <3>1. FlattenSeq(bs2) = FlattenSeq(front) \o Append(last, e)
      BY <2>1, <1>6, FlattenAppend
    <3>2. Append(last, e) = last \o <<e>>
      BY <1>1, AppendIsConcat
    <3>3. FlattenSeq(front) \o (last \o <<e>>) = (FlattenSeq(front) \o last) \o <<e>>
      <4>1. FlattenSeq(front) \in Seq(Events) /\ last \in Seq(Events)
        BY FlattenType
      <4> QED
        BY <1>7, <4>1, ConcatAssociative, SMTT(30)
    <3>4. FlattenSeq(bs) = FlattenSeq(front) \o last
      BY <1>2, FlattenAppend
    <3>5. FlattenSeq(bs) = SubSeq(line, 1, k)
      BY DEF CutSoFar
    <3> QED
      BY <1>4, <3>1, <3>2, <3>3, <3>4, <3>5
  <2>4. k = 0 => n = 0
    BY <1>3 DEF CutSoFar
  <2>5. \A i \in 1 .. n + 1 : i = n + 1 \/ i \in 1 .. n
    BY <1>3
  <2>6. ASSUME NEW i \in 1 .. n PROVE bs2[i] # <<>>
    <3>1. k > 0 /\ i \in 1 .. Len(bs)
      BY <1>1, <1>3, <2>4
    <3> QED
      BY <2>2, <3>1 DEF CutSoFar
  <2>7. ASSUME NEW i \in 1 .. n + 1
        PROVE  /\ bs2[i] # <<>> /\ Distinct(bs2[i]) /\ Range(bs2[i]) \in SUBSET Seen(k + 1)
               /\ Len(bs2[i]) = 1 \/ WithinLimits(bs2[i])
    <3>1. CASE i = n + 1
      <4>1. last = <<>> => Len(Append(last, e)) = 1
        BY <1>6
      <4> QED
        BY <1>6, <1>8, <2>2, <3>1, <4>1
    <3>2. CASE i \in 1 .. n
      <4>1. bs2[i] = bs[i] /\ i \in 1 .. Len(bs)
        BY <1>3, <2>2, <3>2
      <4>2. Range(bs[i]) \in SUBSET Seen(k)
        BY <4>1 DEF CutSoFar, Seen
      <4> QED
        BY <1>1, <2>6, <3>2, <4>1, <4>2 DEF CutSoFar
    <3> QED
      BY <2>5, <3>1, <3>2
  <2>8. ASSUME NEW i \in 2 .. n + 1
        PROVE  bs2[i - 1] = bs[i - 1] /\ Head(bs2[i]) = Head(bs[i])
    <3>1. i - 1 \in 1 .. n /\ i \in 1 .. n + 1 /\ n # 0
      BY <1>3
    <3>2. CASE i \in 1 .. n
      BY <2>2, <3>1, <3>2
    <3>3. CASE i = n + 1
      <4>1. k > 0
        BY <1>1, <2>4, <3>1
      <4>2. last # <<>>
        BY <1>3, <4>1 DEF CutSoFar
      <4>3. Head(Append(last, e)) = Head(last)
        BY <4>2, HeadTailAppend
      <4> QED
        BY <1>3, <2>2, <3>1, <3>3, <4>3
    <3> QED
      BY <2>5, <3>1, <3>2, <3>3
  <2>9. \A i \in 2 .. n + 1 : /\ Distinct(Append(bs2[i - 1], Head(bs2[i])))
                             /\ ~WithinLimits(Append(bs2[i - 1], Head(bs2[i])))
    BY <1>3, <2>8 DEF CutSoFar
  <2>10. k + 1 # 0
    BY <1>1
  <2> QED
    BY <2>2, <2>3, <2>7, <2>9, <2>10 DEF CutSoFar, Seen, bs2, e
<1>9. CASE ~(WithinLimits(Append(last, e)) \/ last = <<>>)
  <2>1. bs2 = Append(bs, <<e>>)
    BY <1>2, <1>9
  <2>2. /\ Len(bs2) = n + 2 /\ bs2[n + 2] = <<e>>
        /\ \A i \in 1 .. n + 1 : bs2[i] = bs[i] /\ i \in 1 .. n + 2
    <3>1. /\ (n + 1) + 1 = n + 2
          /\ \A i \in 1 .. n + 1 : i \in 1 .. n + 2
      BY <1>3
    <3>2. bs \in Seq(Seq(Events)) /\ Len(bs) = n + 1 /\ <<e>> \in Seq(Events)
      BY <1>3, <1>7
    <3>3. /\ Len(bs2) = Len(bs) + 1 /\ bs2[Len(bs) + 1] = <<e>>
          /\ \A i \in 1 .. Len(bs) : bs2[i] = bs[i]
      BY <2>1, <3>2, AppendProperties
    <3> QED
      BY <3>1, <3>2, <3>3
  <2>3. FlattenSeq(bs2) = SubSeq(line, 1, k + 1)
    <3>1. FlattenSeq(bs2) = FlattenSeq(bs) \o <<e>>
      BY <2>1, <1>3, <1>7, FlattenAppend
    <3> QED
      BY <1>4, <3>1 DEF CutSoFar
  <2>4. \A i \in 1 .. n + 2 : i = n + 2 \/ i \in 1 .. n + 1
    BY <1>3
  <2>5. k > 0
    <3>1. CASE k = 0
      <4>1. n = 0 /\ FlattenSeq(bs) = SubSeq(line, 1, 0)
        BY <1>3, <3>1 DEF CutSoFar
      <4>2. Range(last) \in SUBSET {}
        BY <1>5, <3>1 DEF Seen
      <4>3. last = <<>>
        <5>1. last # <<>> => Len(last) \in Nat \ {0} /\ DOMAIN last = 1 .. Len(last)
          BY EmptySeq, LenProperties
        <5>2. last # <<>> => 1 \in DOMAIN last
          BY <5>1
        <5> QED
          BY <4>2, <5>2 DEF Range
      <4> QED
        BY <1>9, <4>3
    <3> QED
      BY <1>1, <3>1
  <2>6. ASSUME NEW i \in 1 .. n + 2
        PROVE  /\ bs2[i] # <<>> /\ Distinct(bs2[i]) /\ Range(bs2[i]) \in SUBSET Seen(k + 1)
               /\ Len(bs2[i]) = 1 \/ WithinLimits(bs2[i])
    <3>1. CASE i = n + 2
      BY <1>1, <1>7, <2>2, <3>1
    <3>2. CASE i \in 1 .. n + 1
      <4>1. bs2[i] = bs[i] /\ i \in 1 .. Len(bs)
        BY <1>3, <2>2, <3>2
      <4>2. Range(bs[i]) \in SUBSET Seen(k)
        BY <4>1 DEF CutSoFar, Seen
      <4> QED
        BY <1>1, <2>5, <4>1, <4>2 DEF CutSoFar
    <3> QED
      BY <2>4, <3>1, <3>2
  <2>7. ASSUME NEW i \in 2 .. n + 2
        PROVE  /\ Distinct(Append(bs2[i - 1], Head(bs2[i])))
               /\ ~WithinLimits(Append(bs2[i - 1], Head(bs2[i])))
    <3>1. i - 1 \in 1 .. n + 1 /\ bs2[i - 1] = bs[i - 1]
      BY <1>3, <2>2
    <3>2. CASE i \in 2 .. n + 1
      <4>1. i \in 1 .. n + 1 /\ bs2[i] = bs[i]
        BY <1>3, <2>2, <3>2
      <4> QED
        BY <1>3, <3>1, <3>2, <4>1 DEF CutSoFar
    <3>3. CASE i = n + 2
      <4>1. i - 1 = n + 1 /\ bs2[i - 1] = last /\ Head(bs2[i]) = e
        BY <1>3, <1>7, <2>2, <3>1, <3>3
      <4> QED
        BY <1>6, <1>9, <4>1
    <3>4. i = n + 2 \/ i \in 2 .. n + 1
      BY <1>3
    <3> QED
      BY <3>2, <3>3, <3>4
  <2>8. k + 1 # 0
    BY <1>1
  <2> QED
    BY <2>2, <2>3, <2>6, <2>7, <2>8 DEF CutSoFar, Seen, bs2, e
<1> QED
  BY <1>8, <1>9

\* What FormBatches makes of any events is a correct cut of them.
LEMMA FormBatchesCutsRight ==
    ASSUME NEW T \in SUBSET Events
    PROVE  FormBatches(T) \in Seq(Seq(Events)) /\ CutRight(FormBatches(T), T)
<1>1. CASE T = {}
  <2>1. FormBatches(T) = <<>> /\ Cardinality(T) = 0
    BY <1>1, FS_EmptySet DEF FormBatches
  <2>2. Range(<<>>) = {} /\ Len(<<>>) = 0 /\ DOMAIN <<>> = {}
    BY DEF Range
  <2>3. \A i \in 1 .. 0 - 1 : FALSE
    OBVIOUS
  <2>4. Len(FlattenSeq(<<>>)) = 0 /\ Range(FlattenSeq(<<>>)) = {}
    BY <2>2, FlattenEmpty
  <2>5. CutRight(<<>>, {})
    BY <1>1, <2>1, <2>2, <2>3, <2>4 DEF CutRight
  <2> QED
    BY <1>1, <2>1, <2>5, EmptySeq
<1>2. CASE T # {}
  <2> DEFINE line == Ordered(T)
             n == Len(line)
  <2>1. PICK g \in [0 .. n -> Batches] :
            /\ g[0] = << <<>> >>
            /\ \A k \in 0 .. n - 1 : g[k + 1] = AddEvent(g[k], line[k + 1])
            /\ FormBatches(T) = g[n]
    BY <1>2, FormBatchesSteps
  <2>2. /\ line \in Seq(Events) /\ n = Cardinality(T) /\ Range(line) = T /\ Distinct(line)
        /\ \A i, j \in 1 .. n : i < j => Before(line[i], line[j])
    BY OrderedIsSorted
  <2>3. n \in Nat /\ n > 0
    <3>1. n \in Nat /\ n # 0
      BY <1>2, <2>2, EventSets
    <3> QED
      BY <3>1
  <2> HIDE DEF line
  <2> DEFINE K == {k \in 0 .. n : CutSoFar(g[k], line, k)}
  <2>4. 0 \in K
    <3>1. FlattenSeq(<< <<>> >>) = <<>>
      <4>1. <<>> \in Seq(Seq(Events)) /\ <<>> \in Seq(Events)
        BY EmptySeq
      <4>2. Append(<<>>, <<>>) = << <<>> >>
        OBVIOUS
      <4>3. <<>> \o <<>> = <<>>
        BY <4>1, ConcatEmptySeq
      <4> QED
        BY <4>1, <4>2, <4>3, FlattenAppend, FlattenEmpty
    <3>2. SubSeq(line, 1, 0) = <<>>
      BY SubSeqEmpty
    <3>3. Distinct(<<>>) /\ Range(<<>>) = {}
      BY DEF Distinct, Range
    <3>4. CutSoFar(<< <<>> >>, line, 0)
      BY <3>1, <3>2, <3>3 DEF CutSoFar
    <3> QED
      BY <2>1, <2>3, <3>4
  <2>5. ASSUME NEW k \in 0 .. n - 1, k \in K PROVE k + 1 \in K
    <3>1. g[k] \in Batches /\ k + 1 \in 0 .. n
      BY <2>3
    <3>2. CutSoFar(AddEvent(g[k], line[k + 1]), line, k + 1)
      BY <2>2, <2>5, <3>1, CutStep
    <3> QED
      BY <2>1, <3>1, <3>2
  <2>6. CutSoFar(g[n], line, n)
    <3>1. K \in SUBSET (0 .. n)
      OBVIOUS
    <3> HIDE DEF K, n
    <3>2. n \in K
      BY <2>3, <2>4, <2>5, <3>1, UpTo
    <3> QED
      BY <3>2 DEF K
  <2> DEFINE bs == g[n]
  <2>7. bs \in Seq(Seq(Events)) /\ Len(bs) \in Nat /\ DOMAIN bs = 1 .. Len(bs)
        /\ \A i \in 1 .. Len(bs) : bs[i] \in Seq(Events)
    <3>1. bs \in Seq(Seq(Events))
      BY <2>3 DEF Batches
    <3> HIDE DEF bs
    <3> QED
      BY <3>1, LenProperties
  <2> HIDE DEF bs, K
  <2>8. FlattenSeq(bs) = line
    BY <2>2, <2>6, SubSeqFull DEF CutSoFar, bs
  <2>9. \A i \in 1 .. n - 1 : Before(line[i], line[i + 1])
    <3>1. \A i \in 1 .. n - 1 : i \in 1 .. n /\ i + 1 \in 1 .. n /\ i < i + 1
      BY <2>3
    <3> QED
      BY <2>2, <3>1
  <2>10. ASSUME NEW i \in 1 .. Len(bs)
         PROVE  Len(bs[i]) = 1 \/ (bs[i] # <<>> /\ Fits(Range(bs[i])))
    <3>1. /\ bs[i] # <<>> /\ Distinct(bs[i]) /\ bs[i] \in Seq(Events)
          /\ Len(bs[i]) = 1 \/ WithinLimits(bs[i])
      BY <2>3, <2>6, <2>7 DEF CutSoFar, bs
    <3> QED
      BY <3>1, LimitsFit
  <2>11. ASSUME NEW i \in 1 .. Len(bs), i > 1
         PROVE  ~Fits(Range(bs[i - 1]) \union {Head(bs[i])})
    <3> DEFINE s == bs[i - 1]
               e == Head(bs[i])
    <3>1. i \in 2 .. Len(bs) /\ i - 1 \in 1 .. Len(bs)
      BY <2>7, <2>11
    <3>2. Distinct(Append(s, e)) /\ ~WithinLimits(Append(s, e))
      BY <2>6, <3>1 DEF CutSoFar, bs
    <3>3. s \in Seq(Events) /\ bs[i] \in Seq(Events) /\ bs[i] # <<>>
      BY <2>3, <2>6, <2>7, <3>1 DEF CutSoFar, bs
    <3>4. e \in Events
      BY <3>3, HeadTailProperties
    <3> HIDE DEF s, e
    <3>5. Append(s, e) \in Seq(Events) /\ Range(Append(s, e)) = Range(s) \union {e}
      BY <3>3, <3>4, AppendProperties, RangeAppend
    <3>6. ~Fits(Range(s) \union {e})
      BY <3>2, <3>5, LimitsFit
    <3> QED
      BY <3>6 DEF s, e
  <2>12. FormBatches(T) = bs
    BY <2>1 DEF bs
  <2> QED
    BY <2>2, <2>7, <2>8, <2>9, <2>10, <2>11, <2>12 DEF CutRight
<1> QED
  BY <1>1, <1>2

-----------------------------------------------------------------------------
(* ParseEventResults *)

Verdict(line) == [status |-> StatusOf(line), reason |-> "agent"]

\* The results an event may have after some lines of the report.
Verdicts(summary, batch) ==
    {Unknown(summary, batch)}
    \union {Verdict(line) : line \in Line}

\* What the results are after one more line.
Updates(parsed, line, e) ==
    ReadLine(parsed, line)[e] = IF Counts(line) /\ line.event = e THEN Verdict(line)
                                ELSE parsed[e]

LEMMA ReadLineStep ==
    ASSUME NEW R, NEW V, NEW parsed \in [R -> V], NEW line \in Line,
           Verdict(line) \in V
    PROVE  /\ ReadLine(parsed, line) \in [R -> V]
           /\ \A e \in R : Updates(parsed, line, e)
<1> DEFINE v == Verdict(line)
<1>1. v \in V /\ DOMAIN parsed = R
  OBVIOUS
<1>2. ReadLine(parsed, line) = IF Counts(line) /\ line.event \in R
                              THEN [parsed EXCEPT ![line.event] = v] ELSE parsed
  BY <1>1 DEF ReadLine, Verdict
<1> HIDE DEF v
<1>3. ReadLine(parsed, line) \in [R -> V]
  BY <1>1, <1>2
<1>4. \A e \in R : ReadLine(parsed, line)[e] =
                      IF Counts(line) /\ line.event = e THEN v ELSE parsed[e]
  BY <1>1, <1>2
<1> QED
  BY <1>3, <1>4 DEF v, Updates

\* The results after each line.
LEMMA ParseSteps ==
    ASSUME NEW batch \in Seq(Events), NEW summary \in Seq(Line)
    PROVE  LET n == Len(summary)
           IN  \E g \in [0 .. n -> [Range(batch) -> Verdicts(summary, batch)]] :
                   /\ g[0] = [e \in Range(batch) |-> Unknown(summary, batch)]
                   /\ \A k \in 0 .. n - 1 : g[k + 1] = ReadLine(g[k], summary[k + 1])
                   /\ ParseEventResults(batch, summary) = g[n]
<1> DEFINE n == Len(summary)
           T == [Range(batch) -> Verdicts(summary, batch)]
           b == [e \in Range(batch) |-> Unknown(summary, batch)]
           F == [p \in T \X (1 .. n) |-> ReadLine(p[1], summary[p[2]])]
           Rec(f) == f = [S \in SUBSET (1 .. n) |->
                             IF S = {} THEN b
                             ELSE ReadLine(f[S \ {Max(S)}], summary[Max(S)])]
           h == CHOOSE f : Rec(f)
           g == [k \in 0 .. n |-> h[1 .. k]]
           K == {k \in 0 .. n : h[1 .. k] \in T}
<1>1. n \in Nat /\ DOMAIN summary = 1 .. n /\ summary \in [1 .. n -> Line]
  BY LenProperties
<1>2. ParseEventResults(batch, summary) = h[1 .. n]
  BY <1>1 DEF ParseEventResults, FoldLeft, MapThenFoldSet
<1>3. b \in T
  BY DEF Verdicts
<1>4. \A t \in T, line \in Line : ReadLine(t, line) \in T
  <2>1. \A line \in Line : Verdict(line) \in Verdicts(summary, batch)
    BY DEF Verdicts
  <2> QED
    BY <2>1, ReadLineStep
<1> HIDE DEF b, T
<1>5. F \in [T \X (1 .. n) -> T]
  BY <1>1, <1>4
<1>6. PICK f : FoldsTo(f, n, T, b, F)
  <2> HIDE DEF F, n
  <2> QED
    BY <1>1, <1>3, <1>5, FoldExists
<1>7. ASSUME NEW S \in SUBSET (1 .. n), S # {}
      PROVE  F[<<f[S \ {Max(S)}], Max(S)>>] = ReadLine(f[S \ {Max(S)}], summary[Max(S)])
  <2>1. S \in SUBSET (0 .. n)
    OBVIOUS
  <2>2. Max(S) \in 1 .. n
    BY <1>1, <1>7, <2>1, LargestNumber
  <2>3. f[S \ {Max(S)}] \in T
    BY <1>6 DEF FoldsTo
  <2> QED
    BY <2>2, <2>3
<1>8. Rec(f)
  BY <1>6, <1>7 DEF FoldsTo
<1>9. Rec(h)
  BY <1>8
<1> HIDE DEF h
<1>10. h[1 .. 0] = b
  BY <1>9
<1>11. ASSUME NEW k \in 0 .. n - 1 PROVE h[1 .. k + 1] = ReadLine(h[1 .. k], summary[k + 1])
  <2>1. /\ 1 .. k + 1 \in (SUBSET (1 .. n)) \ {{}}
        /\ Max(1 .. k + 1) = k + 1
        /\ (1 .. k + 1) \ {Max(1 .. k + 1)} = 1 .. k
    BY <1>1, FoldSteps
  <2> QED
    BY <1>9, <2>1
<1>12. K = 0 .. n
  <2>1. K \in SUBSET (0 .. n) /\ 0 \in K
    BY <1>1, <1>3, <1>10
  <2>2. ASSUME NEW k \in 0 .. n - 1, k \in K PROVE k + 1 \in K
    <3>1. k + 1 \in 0 .. n /\ summary[k + 1] \in Line /\ h[1 .. k] \in T
      BY <1>1, <2>2
    <3> QED
      BY <1>4, <1>11, <3>1
  <2> HIDE DEF K
  <2> QED
    BY <1>1, <2>1, <2>2, UpTo
<1>13. g \in [0 .. n -> T] /\ \A k \in 0 .. n : g[k] = h[1 .. k]
  BY <1>12
<1> HIDE DEF g, K
<1>14. /\ g[0] = b
       /\ \A k \in 0 .. n - 1 : g[k + 1] = ReadLine(g[k], summary[k + 1])
       /\ ParseEventResults(batch, summary) = g[n]
  <2>1. /\ 0 \in 0 .. n /\ n \in 0 .. n
        /\ \A k \in 0 .. n - 1 : k \in 0 .. n /\ k + 1 \in 0 .. n
    BY <1>1
  <2> HIDE DEF n
  <2>2. g[0] = b /\ ParseEventResults(batch, summary) = g[n]
    BY <1>2, <1>10, <1>13, <2>1
  <2>3. \A k \in 0 .. n - 1 : g[k + 1] = ReadLine(g[k], summary[k + 1])
    BY <1>11, <1>13, <2>1
  <2> QED
    BY <2>2, <2>3
<1> QED
  BY <1>13, <1>14 DEF b, T

\* An event has the last verdict that the report gives it, or none.
LEMMA LastVerdictCounts ==
    ASSUME NEW batch \in Seq(Events), NEW summary \in Seq(Line), NEW e \in Range(batch)
    PROVE  LET results == ParseEventResults(batch, summary)
               own == {i \in 1 .. Len(summary) : Counts(summary[i]) /\ summary[i].event = e}
           IN  results[e] = IF own = {} THEN Unknown(summary, batch)
                            ELSE Verdict(summary[Max(own)])
<1> DEFINE n == Len(summary)
           Own(k) == {i \in 1 .. k : Counts(summary[i]) /\ summary[i].event = e}
           Result(k) == IF Own(k) = {} THEN Unknown(summary, batch)
                        ELSE Verdict(summary[Max(Own(k))])
<1>1. n \in Nat /\ summary \in [1 .. n -> Line]
  BY LenProperties
<1>2. PICK g \in [0 .. n -> [Range(batch) -> Verdicts(summary, batch)]] :
          /\ g[0] = [x \in Range(batch) |-> Unknown(summary, batch)]
          /\ \A k \in 0 .. n - 1 : g[k + 1] = ReadLine(g[k], summary[k + 1])
          /\ ParseEventResults(batch, summary) = g[n]
  BY ParseSteps
<1> DEFINE K == {k \in 0 .. n : g[k][e] = Result(k)}
<1>3. 0 \in K
  <2>1. Own(0) = {}
    OBVIOUS
  <2> QED
    BY <1>1, <1>2, <2>1
<1>4. ASSUME NEW k \in 0 .. n - 1, k \in K PROVE k + 1 \in K
  <2> DEFINE line == summary[k + 1]
  <2>1. k + 1 \in 1 .. n /\ k \in Nat /\ line \in Line /\ g[k + 1] = ReadLine(g[k], line)
        /\ g[k] \in [Range(batch) -> Verdicts(summary, batch)]
    BY <1>1, <1>2
  <2>2. Verdict(line) \in Verdicts(summary, batch)
    BY <2>1 DEF Verdicts
  <2>3. g[k + 1][e] = IF Counts(line) /\ line.event = e
                     THEN Verdict(line) ELSE g[k][e]
    <3>1. Updates(g[k], line, e)
      BY <2>1, <2>2, ReadLineStep, SMTT(30)
    <3> HIDE DEF line
    <3> QED
      BY <2>1, <3>1 DEF Updates
  <2>4. \A i \in 1 .. k + 1 : i = k + 1 \/ i \in 1 .. k
    BY <2>1
  <2>5. k + 1 \in 1 .. k + 1 /\ \A i \in 1 .. k : i \in 1 .. k + 1
    BY <2>1
  <2>6. g[k][e] = Result(k)
    BY <1>4
  <2>7. CASE Counts(line) /\ line.event = e
    <3>1. k + 1 \in Own(k + 1) /\ Own(k + 1) \in SUBSET Nat /\ \A i \in Own(k + 1) : i <= k + 1
      BY <2>1, <2>5, <2>7
    <3> HIDE DEF Own
    <3>2. Max(Own(k + 1)) = k + 1
      BY <3>1, LargestIs
    <3>3. g[k + 1][e] = Result(k + 1)
      BY <2>3, <2>7, <3>1, <3>2
    <3> QED
      BY <2>1, <3>3
  <2>8. CASE ~(Counts(line) /\ line.event = e)
    <3>1. Own(k + 1) = Own(k)
      BY <2>4, <2>5, <2>8
    <3> HIDE DEF Own
    <3>2. g[k + 1][e] = Result(k + 1)
      BY <2>3, <2>6, <2>8, <3>1
    <3> QED
      BY <2>1, <3>2
  <2> QED
    BY <2>7, <2>8
<1>5. K \in SUBSET (0 .. n)
  OBVIOUS
<1>6. g[n][e] = Result(n)
  <2> HIDE DEF K, n, Result
  <2>1. n \in K
    BY <1>1, <1>3, <1>4, <1>5, UpTo
  <2> QED
    BY <2>1 DEF K
<1> QED
  BY <1>2, <1>6

LEMMA ResultsType ==
    ASSUME NEW batch \in Seq(Events), NEW summary \in Seq(Line)
    PROVE  DOMAIN ParseEventResults(batch, summary) = Range(batch)
<1> DEFINE n == Len(summary)
<1>1. PICK g \in [0 .. n -> [Range(batch) -> Verdicts(summary, batch)]] :
          ParseEventResults(batch, summary) = g[n]
  BY ParseSteps
<1>2. n \in 0 .. n
  BY LenProperties
<1> QED
  BY <1>1, <1>2

LEMMA UnknownReason ==
    ASSUME NEW batch, NEW summary
    PROVE  /\ Unknown(summary, batch).status = "unknown"
           /\ Unknown(summary, batch).reason = "turn_ended_no_output" <=> summary = <<>>
<1> DEFINE named == {line.event : line \in {l \in Range(summary) : Counts(l)}}
<1>1. summary = <<>> => named = {}
  BY DEF Range
<1> HIDE DEF named
<1>2. Unknown(summary, batch) =
        [status |-> "unknown",
         reason |-> CASE summary = <<>> -> "turn_ended_no_output"
                      [] named # {} /\ named \intersect Range(batch) = {} -> "malformed_verdict"
                      [] OTHER -> "no_per_event_verdict"]
  BY DEF Unknown, named
<1> QED
  BY <1>1, <1>2
=============================================================================
