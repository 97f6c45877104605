------------------------ MODULE Coordinator_proofs ------------------------
(***************************************************************************)
(* Proofs about Coordinator, for any finite set of events and any limits.  *)
(* First the lemmas about batches: a flush cuts its events into non-empty  *)
(* runs, and a split divides a batch properly.  Then, part by part, the    *)
(* inductive invariant.                                                    *)
(***************************************************************************)
EXTENDS Coordinator, FiniteSetTheorems, SequenceTheorems, TLAPS

Batch == [events : (SUBSET Events) \ {{}}, depth : 0 .. MaxDepth]

-----------------------------------------------------------------------------
(* Counting: in a finite set of numbers every rank is taken.               *)

Below(S, e) == {x \in S : x < e}

UpTo(S, e) == {x \in S : x <= e}

LEMMA BelowIsFinite ==
    ASSUME NEW S, IsFiniteSet(S), S \subseteq Nat, NEW e \in S
    PROVE  /\ IsFiniteSet(Below(S, e))
           /\ Cardinality(Below(S, e)) \in 0 .. Cardinality(S) - 1
<1>1. Below(S, e) \in SUBSET (S \ {e}) /\ IsFiniteSet(S \ {e})
  BY FS_RemoveElement DEF Below
<1>2. IsFiniteSet(Below(S, e)) /\ Cardinality(Below(S, e)) <= Cardinality(S \ {e})
  BY <1>1, FS_Subset
<1>3. Cardinality(S \ {e}) = Cardinality(S) - 1
  BY FS_RemoveElement
<1> QED
  BY <1>2, <1>3, FS_CardinalityType

LEMMA RanksDiffer ==
    ASSUME NEW S, IsFiniteSet(S), S \subseteq Nat, NEW d \in S, NEW e \in S, d < e
    PROVE  Cardinality(Below(S, d)) < Cardinality(Below(S, e))
<1>1. Below(S, d) \cup {d} \in SUBSET Below(S, e) /\ d \notin Below(S, d)
  <2>1. \A x \in S : x \in Nat /\ (x < d => x < e) /\ ~(d < d)
    OBVIOUS
  <2> QED
    BY <2>1 DEF Below
<1>2. IsFiniteSet(Below(S, d)) /\ IsFiniteSet(Below(S, e))
  BY BelowIsFinite
<1>3. Cardinality(Below(S, d) \cup {d}) = Cardinality(Below(S, d)) + 1
  BY <1>1, <1>2, FS_AddElement
<1>4. Cardinality(Below(S, d) \cup {d}) <= Cardinality(Below(S, e))
  BY <1>1, <1>2, FS_Subset
<1> QED
  BY <1>2, <1>3, <1>4, FS_CardinalityType

LEMMA RanksAreTaken ==
    ASSUME NEW S, IsFiniteSet(S), S \subseteq Nat, NEW k \in 0 .. Cardinality(S) - 1
    PROVE  \E e \in S : Cardinality(Below(S, e)) = k
<1> DEFINE n == Cardinality(S)
           rank == [e \in S |-> Cardinality(Below(S, e))]
<1>1. n \in Nat
  BY FS_CardinalityType
<1>2. rank \in [S -> 0 .. n - 1]
  BY BelowIsFinite
<1>3. ASSUME NEW d \in S, NEW e \in S, rank[d] = rank[e] PROVE d = e
  <2>1. d \in Nat /\ e \in Nat /\ rank[d] \in Nat /\ ~(rank[d] < rank[e]) /\ ~(rank[e] < rank[d])
    BY <1>1, <1>2, <1>3
  <2>2. ~(d < e) /\ ~(e < d)
    BY <2>1, RanksDiffer
  <2> QED
    BY <2>1, <2>2
<1>4. rank \in Injection(S, 0 .. n - 1)
  BY <1>2, <1>3 DEF Injection, IsInjective
<1>5. IsFiniteSet(0 .. n - 1) /\ Cardinality(0 .. n - 1) = n
  BY <1>1, FS_Interval
<1>6. rank \in Surjection(S, 0 .. n - 1)
  BY <1>4, <1>5, FS_Injection
<1> QED
  BY <1>6 DEF Surjection

-----------------------------------------------------------------------------
(* Batches.                                                                *)

\* No two batches share an event.
Apart(q) == \A i, j \in DOMAIN q : i # j => q[i].events \cap q[j].events = {}

\* Events with i - 1 cuts up to them.
Part(events, cuts, i) == {e \in events : Cardinality(UpTo(cuts, e)) = i - 1}

\* The flush cuts what it listed into non-empty runs and leaves nothing out
\* (batch.go, FormBatches).
LEMMA FormedBatches ==
    ASSUME NEW evs \in SUBSET Events, evs # {}, NEW cuts, LegalCuts(evs, cuts),
           NEW q, q = FormBatches(evs, cuts)
    PROVE  q \in Seq(Batch) /\ Apart(q) /\ EventsIn(q) = evs /\ q # <<>> /\ q[1].depth = 0
<1> DEFINE n == Cardinality(cuts)
<1>1. cuts \in SUBSET evs /\ IsFiniteSet(cuts) /\ cuts \subseteq Nat /\ evs \subseteq Nat
  BY EventsAssumption, FS_Subset DEF LegalCuts
<1>2. n \in Nat
  BY <1>1, FS_CardinalityType
<1>3. \A e \in evs : Cardinality(UpTo(cuts, e)) \in 0 .. n
  <2> TAKE e \in evs
  <2>1. UpTo(cuts, e) \in SUBSET cuts
    BY DEF UpTo
  <2>2. IsFiniteSet(UpTo(cuts, e)) /\ Cardinality(UpTo(cuts, e)) <= n
    BY <1>1, <2>1, FS_Subset
  <2> QED
    BY <1>2, <2>2, FS_CardinalityType
<1>4. \A i \in 1 .. n + 1 : \E e \in evs : Cardinality(UpTo(cuts, e)) = i - 1
  <2> TAKE i \in 1 .. n + 1
  <2>1. CASE n = 0
    <3>1. cuts = {} /\ i = 1
      BY <1>1, <2>1, FS_EmptySet
    <3>2. \A e \in evs : UpTo(cuts, e) = {}
      BY <3>1 DEF UpTo
    <3> QED
      BY <3>1, <3>2, FS_EmptySet
  <2>2. CASE n # 0 /\ i = 1
    <3>1. PICK c \in cuts : Cardinality(Below(cuts, c)) = 0
      <4>1. 0 \in 0 .. n - 1
        BY <1>2, <2>2
      <4> QED
        BY <1>1, <4>1, RanksAreTaken
    <3>2. Below(cuts, c) = {}
      BY <1>1, <3>1, BelowIsFinite, FS_EmptySet
    <3>3. PICK e \in evs : e < c
      BY <3>1 DEF LegalCuts
    <3>4. UpTo(cuts, e) = {}
      <4>1. \A x \in cuts : ~(x < c)
        BY <3>2 DEF Below
      <4>2. e \in Nat /\ c \in Nat /\ \A x \in cuts : x \in Nat
        BY <1>1
      <4> QED
        <5>1. \A x \in cuts : ~(x <= e)
          BY <3>3, <4>1, <4>2
        <5> QED
          BY <5>1 DEF UpTo
    <3> QED
      BY <2>2, <3>4, FS_EmptySet
  <2>3. CASE i # 1
    <3>1. i - 2 \in 0 .. n - 1
      BY <1>2, <2>3
    <3>2. PICK c \in cuts : Cardinality(Below(cuts, c)) = i - 2
      BY <1>1, <3>1, RanksAreTaken
    <3>3. UpTo(cuts, c) = Below(cuts, c) \cup {c} /\ c \notin Below(cuts, c) /\ c \in evs
      <4>1. \A x \in cuts : x \in Nat /\ (x <= c <=> x < c \/ x = c) /\ ~(c < c)
        BY <1>1
      <4> QED
        BY <1>1, <3>2, <4>1 DEF Below, UpTo
    <3>4. IsFiniteSet(Below(cuts, c))
      BY <1>1, BelowIsFinite
    <3>5. Cardinality(Below(cuts, c) \cup {c}) = Cardinality(Below(cuts, c)) + 1
      BY <3>3, <3>4, FS_AddElement
    <3>6. Cardinality(UpTo(cuts, c)) = i - 1
      BY <1>2, <3>2, <3>3, <3>5
    <3> QED
      BY <3>3, <3>6
  <2> QED
    BY <2>1, <2>2, <2>3
<1>5. DOMAIN q = 1 .. n + 1 /\ q = [i \in 1 .. n + 1 |-> q[i]]
  BY DEF FormBatches
<1>6. \A i \in 1 .. n + 1 : q[i] = [events |-> Part(evs, cuts, i), depth |-> 0]
  BY DEF FormBatches, UpTo, Part
<1>7. \A i \in 1 .. n + 1 : q[i].events = Part(evs, cuts, i) /\ q[i].depth = 0
  <2> TAKE i \in 1 .. n + 1
  <2>1. q[i] = [events |-> Part(evs, cuts, i), depth |-> 0]
    BY <1>6
  <2> QED
    BY ONLY <2>1
<1>8. \A i \in 1 .. n + 1 : q[i] \in Batch
  <2> TAKE i \in 1 .. n + 1
  <2>1. Part(evs, cuts, i) \in (SUBSET Events) \ {{}}
    <3>1. PICK e \in evs : Cardinality(UpTo(cuts, e)) = i - 1
      BY <1>4
    <3> QED
      BY <3>1 DEF Part
  <2>2. 0 \in 0 .. MaxDepth
    BY LimitsAssumption
  <2>3. q[i] = [events |-> Part(evs, cuts, i), depth |-> 0]
    BY <1>6
  <2> QED
    BY <2>1, <2>2, <2>3 DEF Batch
<1>9. q \in Seq(Batch) /\ Len(q) = n + 1
  BY <1>2, <1>5, <1>8
<1>10. Apart(q)
  <2>1. ASSUME NEW i \in 1 .. n + 1, NEW j \in 1 .. n + 1, NEW e \in q[i].events \cap q[j].events
        PROVE  i = j
    <3>1. e \in Part(evs, cuts, i) /\ e \in Part(evs, cuts, j)
      BY <1>7, <2>1
    <3>2. Cardinality(UpTo(cuts, e)) = i - 1 /\ Cardinality(UpTo(cuts, e)) = j - 1
      BY <3>1 DEF Part
    <3> QED
      BY <1>2, <3>2
  <2> QED
    BY <1>5, <2>1 DEF Apart
<1>11. EventsIn(q) = evs
  <2>1. ASSUME NEW e \in evs PROVE e \in EventsIn(q)
    <3>1. Cardinality(UpTo(cuts, e)) + 1 \in 1 .. n + 1
      BY <1>2, <1>3
    <3> QED
      BY <1>2, <1>3, <1>5, <1>7, <3>1 DEF EventsIn, Part
  <2>2. ASSUME NEW e \in EventsIn(q) PROVE e \in evs
    <3>1. PICK i \in 1 .. n + 1 : e \in q[i].events
      BY <1>5, <2>2 DEF EventsIn
    <3> QED
      BY <1>7, <3>1 DEF Part
  <2> QED
    BY <2>1, <2>2
<1>12. 1 \in 1 .. n + 1 /\ q # <<>>
  BY <1>2, <1>9
<1> QED
  BY <1>7, <1>9, <1>10, <1>11, <1>12

\* Halving gives two parts, neither of them empty (coordinator.go, blindBisect).
LEMMA HalvesAreProper ==
    ASSUME NEW batch \in Batch, Cardinality(batch.events) > 1
    PROVE  EarlierHalf(batch.events) \in (SUBSET batch.events) \ {{}, batch.events}
<1> DEFINE S == batch.events
           n == Cardinality(S)
<1>1. IsFiniteSet(S) /\ S \subseteq Nat
  BY EventsAssumption, FS_Subset DEF Batch
<1> HIDE DEF S
<1>2. n \in Nat /\ n > 1
  BY <1>1, FS_CardinalityType DEF S
<1>3. 0 \in 0 .. n - 1 /\ 0 < n \div 2 /\ n - 1 \in 0 .. n - 1 /\ ~(n - 1 < n \div 2)
  BY <1>2
<1>4. PICK first \in S : Cardinality(Below(S, first)) = 0
  BY <1>1, <1>3, RanksAreTaken
<1>5. PICK last \in S : Cardinality(Below(S, last)) = n - 1
  BY <1>1, <1>3, RanksAreTaken
<1>6. EarlierHalf(S) = {e \in S : Cardinality(Below(S, e)) < n \div 2}
  BY DEF EarlierHalf, Below
<1> HIDE DEF n
<1>7. first \in EarlierHalf(S) /\ last \notin EarlierHalf(S)
  BY <1>3, <1>4, <1>5, <1>6
<1> QED
  BY <1>4, <1>5, <1>6, <1>7 DEF S

LEMMA PartsAreProper ==
    ASSUME NEW batch \in Batch, Splittable(batch),
           NEW violations \in BOOLEAN, NEW first \in FirstParts(batch, violations)
    PROVE  /\ first \in (SUBSET batch.events) \ {{}, batch.events}
           /\ batch.depth + 1 \in 0 .. MaxDepth
<1>1. Cardinality(batch.events) > 1
  <2>1. batch.events \in SUBSET Events
    BY DEF Batch
  <2>2. Cardinality(batch.events) \in Nat
    BY <2>1, EventsAssumption, FS_Subset, FS_CardinalityType
  <2> QED
    BY <2>2, LimitsAssumption DEF Splittable
<1>2. first \in (SUBSET batch.events) \ {{}, batch.events}
  BY <1>1, HalvesAreProper DEF FirstParts
<1>3. batch.depth + 1 \in 0 .. MaxDepth
  BY LimitsAssumption DEF Splittable, Batch
<1> QED
  BY <1>2, <1>3

\* Taking the first batch off the queue.
LEMMA TailOfQueue ==
    ASSUME NEW q \in Seq(Batch), q # <<>>, Apart(q)
    PROVE  /\ Head(q) \in Batch /\ Tail(q) \in Seq(Batch) /\ Apart(Tail(q))
           /\ EventsIn(q) = Head(q).events \cup EventsIn(Tail(q))
           /\ Head(q).events \cap EventsIn(Tail(q)) = {}
<1>1. /\ Len(q) \in Nat \ {0} /\ DOMAIN q = 1 .. Len(q) /\ Head(q) = q[1]
      /\ \A i \in 1 .. Len(q) : q[i] \in Batch
  BY EmptySeq
<1>2. /\ Tail(q) \in Seq(Batch) /\ DOMAIN Tail(q) = 1 .. Len(q) - 1
      /\ \A i \in 1 .. Len(q) - 1 : Tail(q)[i] = q[i + 1]
  BY HeadTailProperties
<1>3. Apart(Tail(q))
  <2>1. ASSUME NEW i \in 1 .. Len(q) - 1, NEW j \in 1 .. Len(q) - 1, i # j
        PROVE  Tail(q)[i].events \cap Tail(q)[j].events = {}
    <3>1. i + 1 \in DOMAIN q /\ j + 1 \in DOMAIN q /\ i + 1 # j + 1
      BY <1>1, <2>1
    <3> QED
      BY <1>2, <3>1 DEF Apart
  <2> QED
    BY <1>2, <2>1 DEF Apart
<1>4. ASSUME NEW e \in EventsIn(Tail(q)) PROVE e \in EventsIn(q) /\ e \notin Head(q).events
  <2>1. PICK i \in 1 .. Len(q) - 1 : e \in q[i + 1].events
    BY <1>2, <1>4 DEF EventsIn
  <2>2. i + 1 \in DOMAIN q /\ 1 \in DOMAIN q /\ i + 1 # 1
    BY <1>1, <2>1
  <2> QED
    BY <1>1, <2>1, <2>2 DEF Apart, EventsIn
<1>5. ASSUME NEW e \in EventsIn(q) PROVE e \in Head(q).events \cup EventsIn(Tail(q))
  <2>1. PICK i \in 1 .. Len(q) : e \in q[i].events
    BY <1>1, <1>5 DEF EventsIn
  <2>2. CASE i = 1
    BY <1>1, <2>1, <2>2
  <2>3. CASE i # 1
    <3>1. i - 1 \in 1 .. Len(q) - 1 /\ i - 1 + 1 = i
      BY <1>1, <2>3
    <3>2. e \in Tail(q)[i - 1].events /\ i - 1 \in DOMAIN Tail(q)
      BY <1>2, <2>1, <3>1
    <3> QED
      BY <3>2 DEF EventsIn
  <2> QED
    BY <2>2, <2>3
<1>6. Head(q).events \subseteq EventsIn(q)
  BY <1>1 DEF EventsIn
<1> QED
  BY <1>1, <1>2, <1>3, <1>4, <1>5, <1>6

\* Putting two batches before others.
LEMMA AfterTwo ==
    ASSUME NEW s \in Seq(Batch), NEW t \in Seq(Batch), Len(s) = 2
    PROVE  /\ s \o t \in Seq(Batch) /\ Len(s \o t) = 2 + Len(t)
           /\ \A i \in 1 .. 2 + Len(t) : (s \o t)[i] = IF i <= 2 THEN s[i] ELSE t[i - 2]
<1>1. /\ s \o t \in Seq(Batch) /\ Len(s \o t) = Len(s) + Len(t)
      /\ \A i \in 1 .. Len(s) + Len(t) :
             (s \o t)[i] = IF i <= Len(s) THEN s[i] ELSE t[i - Len(s)]
  BY ConcatProperties, Zenon
<1>2. PICK u : u = s \o t
  OBVIOUS
<1>3. \A i \in 1 .. Len(s) + Len(t) : u[i] = IF i <= Len(s) THEN s[i] ELSE t[i - Len(s)]
  BY <1>1, <1>2, Zenon
<1>4. \A i \in 1 .. 2 + Len(t) : u[i] = IF i <= 2 THEN s[i] ELSE t[i - 2]
  BY <1>3
<1> QED
  BY <1>1, <1>2, <1>4

\* Replacing the first batch by two that share its events (coordinator.go, insertBatches).
LEMMA SplitQueue ==
    ASSUME NEW q \in Seq(Batch), q # <<>>, Apart(q),
           NEW first \in (SUBSET Head(q).events) \ {{}, Head(q).events},
           Head(q).depth + 1 \in 0 .. MaxDepth,
           NEW r, r = RetryBatches(Head(q), first) \o Tail(q)
    PROVE  /\ r \in Seq(Batch) /\ r # <<>> /\ Apart(r) /\ EventsIn(r) = EventsIn(q)
           /\ Head(r).depth = Head(q).depth + 1
<1> DEFINE h == RetryBatches(Head(q), first)
           t == Tail(q)
<1>1. /\ Head(q) \in Batch /\ t \in Seq(Batch) /\ Apart(t)
      /\ EventsIn(q) = Head(q).events \cup EventsIn(t)
      /\ Head(q).events \cap EventsIn(t) = {}
  BY TailOfQueue
<1>2. PICK one \in Batch, two \in Batch :
          /\ h = <<one, two>>
          /\ one.events = first /\ two.events = Head(q).events \ first
          /\ one.depth = Head(q).depth + 1
  <2> DEFINE a == [events |-> first, depth |-> Head(q).depth + 1]
             b == [events |-> Head(q).events \ first, depth |-> Head(q).depth + 1]
  <2>1. first \in (SUBSET Events) \ {{}} /\ Head(q).events \ first \in (SUBSET Events) \ {{}}
    BY <1>1 DEF Batch
  <2>2. a \in Batch /\ b \in Batch
    BY <2>1 DEF Batch
  <2>3. h = <<a, b>>
    BY DEF RetryBatches
  <2>4. /\ a.events = first /\ b.events = Head(q).events \ first
        /\ a.depth = Head(q).depth + 1
    OBVIOUS
  <2> HIDE DEF a, b, h
  <2> QED
    BY <2>2, <2>3, <2>4
<1>3. <<one, two>> \in Seq(Batch) /\ Len(<<one, two>>) = 2
  OBVIOUS
<1>4. r = <<one, two>> \o t
  BY <1>2
<1> HIDE DEF h, t
<1>5. /\ r \in Seq(Batch) /\ Len(r) = 2 + Len(t)
      /\ \A i \in 1 .. Len(r) : r[i] = IF i <= 2 THEN <<one, two>>[i] ELSE t[i - 2]
  <2> DEFINE s == <<one, two>>
  <2>1. s \in Seq(Batch) /\ Len(s) = 2
    BY <1>3
  <2> HIDE DEF s
  <2>2. /\ s \o t \in Seq(Batch) /\ Len(s \o t) = 2 + Len(t)
        /\ \A i \in 1 .. 2 + Len(t) : (s \o t)[i] = IF i <= 2 THEN s[i] ELSE t[i - 2]
    BY <1>1, <2>1, AfterTwo
  <2> QED
    BY <1>4, <2>2 DEF s
<1>6. Len(t) \in Nat /\ DOMAIN t = 1 .. Len(t) /\ DOMAIN r = 1 .. Len(r)
  BY <1>1, <1>5
<1>7. 1 \in DOMAIN r /\ 2 \in DOMAIN r /\ r[1] = one /\ r[2] = two
  BY <1>5, <1>6
<1>8. /\ \A i \in DOMAIN r : i # 1 /\ i # 2 => /\ i - 2 \in DOMAIN t
                                               /\ r[i] = t[i - 2] /\ i \in Nat
      /\ \A i \in DOMAIN t : i + 2 \in DOMAIN r /\ r[i + 2] = t[i]
  <2>1. ASSUME NEW i \in DOMAIN r, i # 1, i # 2
        PROVE  i - 2 \in DOMAIN t /\ r[i] = t[i - 2] /\ i \in Nat
    <3>1. i \in 1 .. Len(r) /\ i - 2 \in 1 .. Len(t) /\ ~(i <= 2) /\ i \in Nat
      BY <1>5, <1>6, <2>1
    <3> QED
      BY <1>5, <1>6, <3>1
  <2>2. ASSUME NEW i \in DOMAIN t
        PROVE  i + 2 \in DOMAIN r /\ r[i + 2] = t[i]
    <3>1. PICK k : k = i + 2
      OBVIOUS
    <3>2. k \in 1 .. Len(r) /\ ~(k <= 2) /\ k - 2 = i
      BY <1>5, <1>6, <3>1
    <3>3. r[k] = t[k - 2]
      BY <1>5, <3>2
    <3> QED
      BY <1>6, <3>1, <3>2, <3>3
  <2> QED
    BY <2>1, <2>2
<1>9. \A i \in DOMAIN t : t[i].events \subseteq EventsIn(t)
  BY DEF EventsIn
<1>10. one.events \cup two.events = Head(q).events /\ one.events \cap two.events = {}
  BY <1>2
<1>11. ASSUME NEW i \in DOMAIN r, NEW j \in DOMAIN r, i # j
       PROVE  r[i].events \cap r[j].events = {}
  <2>1. CASE i \in {1, 2} /\ j \in {1, 2}
    <3>1. (i = 1 /\ j = 2) \/ (i = 2 /\ j = 1)
      BY <1>11, <2>1
    <3> QED
      BY <1>7, <1>10, <3>1
  <2>2. CASE i \in {1, 2} /\ j \notin {1, 2}
    <3>1. r[j].events \subseteq EventsIn(t) /\ r[i].events \subseteq Head(q).events
      BY <1>7, <1>8, <1>9, <1>10, <2>2
    <3> QED
      BY <1>1, <3>1
  <2>3. CASE i \notin {1, 2} /\ j \in {1, 2}
    <3>1. r[i].events \subseteq EventsIn(t) /\ r[j].events \subseteq Head(q).events
      BY <1>7, <1>8, <1>9, <1>10, <2>3
    <3> QED
      BY <1>1, <3>1
  <2>4. CASE i \notin {1, 2} /\ j \notin {1, 2}
    <3>1. /\ i - 2 \in DOMAIN t /\ j - 2 \in DOMAIN t /\ i \in Nat /\ j \in Nat
          /\ r[i] = t[i - 2] /\ r[j] = t[j - 2]
      BY <1>8, <2>4
    <3>2. i - 2 # j - 2
      BY <1>11, <3>1
    <3> QED
      BY <1>1, <3>1, <3>2 DEF Apart
  <2> QED
    BY <2>1, <2>2, <2>3, <2>4
<1>12. ASSUME NEW e \in EventsIn(r) PROVE e \in EventsIn(q)
  <2>1. PICK i \in DOMAIN r : e \in r[i].events
    BY <1>12 DEF EventsIn
  <2>2. CASE i \in {1, 2}
    BY <1>1, <1>7, <1>10, <2>1, <2>2
  <2>3. CASE i \notin {1, 2}
    BY <1>1, <1>8, <1>9, <2>1, <2>3
  <2> QED
    BY <2>2, <2>3
<1>13. ASSUME NEW e \in EventsIn(q) PROVE e \in EventsIn(r)
  <2>1. CASE e \in Head(q).events
    <3>1. e \in r[1].events \/ e \in r[2].events
      BY <1>7, <1>10, <2>1
    <3> QED
      BY <1>7, <3>1 DEF EventsIn
  <2>2. CASE e \in EventsIn(t)
    <3>1. PICK i \in DOMAIN t : e \in t[i].events
      BY <2>2 DEF EventsIn
    <3>2. i + 2 \in DOMAIN r /\ e \in r[i + 2].events
      BY <1>8, <3>1
    <3> QED
      BY <3>2 DEF EventsIn
  <2> QED
    BY <1>1, <1>13, <2>1, <2>2
<1>14. r # <<>> /\ Head(r) = one
  BY <1>5, <1>6, <1>7
<1> QED
  BY <1>2, <1>5, <1>11, <1>12, <1>13, <1>14 DEF Apart

-----------------------------------------------------------------------------
(* Queue and store: the invariant, part one.                               *)

Shapes ==
    /\ arrival \in [Events -> {"absent", "appended", "queued", "resumed", "announced"}]
    /\ pending \in SUBSET Events
    /\ verdict \in [Events -> Verdicts \cup {None}]
    /\ pc \in {"starting", "select", "begin", "list", "loop", "arm", "turn", "record",
               "schedule", "rearm", "stopped"}
    /\ listed \in SUBSET Events /\ dealt \in SUBSET Events
    /\ turns \in 0 .. EnvelopeTurns
    /\ reason \in Reasons
    /\ streak \in 0 .. StreakLimit
    /\ outerErrors \in 0 .. OuterErrorLimit
    /\ stopper \in {"idle", "waiting", "forcing", "returned"}
    /\ resets \in 0 .. MaxResets
    /\ burnt \in Nat /\ overtime \in Nat

\* The batches left are of pending events, none of them deferred; an event is
\* deferred once its status could not be written often enough.
Queued ==
    /\ queue \in Seq(Batch) /\ Apart(queue)
    /\ EventsIn(queue) \subseteq pending
    /\ writeFails \in [Events -> 0 .. WriteFailLimit]
    /\ DeferredNotRun
    /\ pc = "starting" => queue = <<>> /\ deferred = {}
    /\ pc \in {"arm", "turn"} => queue # <<>>

\* Every event the flush set out to run is in the queue or dealt with.
Conserved ==
    pc \in {"loop", "arm", "turn", "record"} =>
        /\ listed = EventsIn(queue) \cup dealt
        /\ EventsIn(queue) \cap dealt = {}

\* Until a batch is dealt with, every turn of the flush made a split.
Descending ==
    /\ dealt = {} /\ queue # <<>> =>
           /\ pc \in {"loop", "arm"} => turns = Head(queue).depth
           /\ pc = "turn" => turns = Head(queue).depth + 1
    /\ pc = "record" => dealt # {}
    /\ EnvelopeMakesProgress

Batched == Shapes /\ Queued /\ Conserved /\ Descending

-----------------------------------------------------------------------------
LEMMA FirstOfQueue ==
    ASSUME NEW q \in Seq(Batch), q # <<>>
    PROVE  /\ Head(q) \in Batch /\ Head(q).depth \in 0 .. MaxDepth
           /\ Head(q).events \in (SUBSET Events) \ {{}}
<1>1. Head(q) \in Batch
  BY EmptySeq
<1> QED
  BY <1>1 DEF Batch

LEMMA NoEvents == EventsIn(<<>>) = {} /\ <<>> \in Seq(Batch) /\ Apart(<<>>)
BY DEF EventsIn, Apart

LEMMA Limits ==
    /\ FlushThreshold \in Nat \ {0} /\ BatchCap \in Nat \ {0} /\ StreakLimit \in Nat \ {0}
    /\ OuterErrorLimit \in Nat \ {0} /\ WriteFailLimit \in Nat \ {0}
    /\ SplitFloor \in Nat \ {0} /\ EnvelopeTurns \in Nat \ {0}
    /\ MaxDepth \in Nat /\ MaxResets \in Nat /\ MaxDepth < EnvelopeTurns
BY LimitsAssumption, EnvelopeAssumption

LEMMA InitBatched == Init => Batched
<1> SUFFICES ASSUME Init PROVE Batched
  OBVIOUS
<1>1. Shapes
  <2>1. 0 \in 0 .. EnvelopeTurns /\ 0 \in 0 .. StreakLimit /\ 0 \in 0 .. OuterErrorLimit
        /\ 0 \in 0 .. MaxResets
    BY LimitsAssumption
  <2>2. verdict \in [Events -> Verdicts \cup {None}]
    BY DEF Init
  <2> QED
    BY EventsAssumption, <2>1, <2>2 DEF Init, Shapes, Reasons
<1>2. DeferredNotRun
  BY LimitsAssumption, NoEvents DEF Init, DeferredNotRun
<1>3. Queued
  <2>1. queue = <<>> /\ deferred = {} /\ pc = "starting"
    BY DEF Init
  <2>2. writeFails \in [Events -> 0 .. WriteFailLimit]
    <3>1. 0 \in 0 .. WriteFailLimit
      BY Limits
    <3> QED
      BY <3>1 DEF Init
  <2> QED
    BY <1>2, <2>1, <2>2, NoEvents DEF Queued
<1> QED
  BY <1>1, <1>3 DEF Init, Batched, Conserved, Descending, EnvelopeMakesProgress

\* The actions of other goroutines, and those of the run loop that leave the
\* queue and the store alone.
Outside == Client \/ Operator \/ Stop

Leaves ==
    \/ TakeStop \/ TakeSignal \/ TakeTimer \/ BeginFlush \/ RefuseFlush \/ ListFails
    \/ FlushDone \/ EnvelopeTimeout \/ SeenStop \/ NextBatch \/ StartTurn
    \/ RecordBatchOutcomes \/ TurnCancelled \/ Rearm

\* What a goroutine other than the run loop may change of the flush: it makes
\* events pending.
FlushKept ==
    /\ UNCHANGED <<pc, queue, listed, dealt, turns, reason, writeFails, deferred>>
    /\ pending \subseteq pending'

LEMMA OutsideKeepsFlush == Outside => FlushKept
BY DEF Outside, Client, Operator, Stop, AppendEvent, QueueEvent, Resume, SignalPending,
       ResetEvent, ConfirmEvent, ClearSuspension, StopCalled, StopReturns, StopForces,
       StopGivesUp, FlushKept, store, wake, batches, flush, breaker, counters, shutdown

LEMMA LeavesKeepQueue ==
    Leaves => UNCHANGED <<pending, queue, listed, dealt, writeFails, deferred>>
BY DEF Leaves, TakeStop, TakeSignal, TakeTimer, BeginFlush, RefuseFlush, ListFails,
       FlushDone, EnvelopeTimeout, SeenStop, NextBatch, StartTurn, RecordBatchOutcomes,
       TurnCancelled, Rearm, Return, ClearCancel, store, wake, batches, flush, breaker,
       counters, shutdown

\* What another goroutine does keeps every part.
LEMMA OutsideBatched == Batched /\ Outside => Queued' /\ Conserved' /\ Descending'
<1> SUFFICES ASSUME Batched, FlushKept PROVE Queued' /\ Conserved' /\ Descending'
  BY OutsideKeepsFlush
<1>1. /\ pc' = pc /\ queue' = queue /\ listed' = listed /\ dealt' = dealt
      /\ turns' = turns /\ reason' = reason /\ writeFails' = writeFails
      /\ deferred' = deferred /\ pending \subseteq pending'
  BY DEF FlushKept
<1>2. Queued'
  BY <1>1 DEF Batched, Queued, DeferredNotRun
<1>3. Conserved'
  BY <1>1 DEF Batched, Conserved
<1>4. Descending'
  BY <1>1 DEF Batched, Descending, EnvelopeMakesProgress
<1> QED
  BY <1>2, <1>3, <1>4

\* A step of the run loop that leaves the queue alone.
LEMMA LeavesBatched == Batched /\ Leaves => Queued' /\ Conserved' /\ Descending'
<1> SUFFICES ASSUME Batched, Leaves PROVE Queued' /\ Conserved' /\ Descending'
  OBVIOUS
<1>1. /\ queue' = queue /\ listed' = listed /\ dealt' = dealt /\ pending' = pending
      /\ writeFails' = writeFails /\ deferred' = deferred
  BY LeavesKeepQueue
<1> USE DEF Return
<1>2. Queued'
  <2>1. pc' \in {"arm", "turn"} => queue # <<>>
    BY DEF Leaves, Batched, Queued, TakeStop, TakeSignal, TakeTimer, BeginFlush, RefuseFlush,
           ListFails, FlushDone, EnvelopeTimeout, SeenStop, NextBatch, StartTurn,
           RecordBatchOutcomes, TurnCancelled, Rearm
  <2>2. pc' # "starting"
    BY DEF Leaves, TakeStop, TakeSignal, TakeTimer, BeginFlush, RefuseFlush,
           ListFails, FlushDone, EnvelopeTimeout, SeenStop, NextBatch, StartTurn,
           RecordBatchOutcomes, TurnCancelled, Rearm
  <2> QED
    BY <1>1, <2>1, <2>2 DEF Batched, Queued, DeferredNotRun
<1>3. Conserved'
  <2>1. pc' \in {"loop", "arm", "turn", "record"} => pc \in {"loop", "arm", "turn", "record"}
    BY DEF Leaves, TakeStop, TakeSignal, TakeTimer, BeginFlush, RefuseFlush,
           ListFails, FlushDone, EnvelopeTimeout, SeenStop, NextBatch, StartTurn,
           RecordBatchOutcomes, TurnCancelled, Rearm
  <2> QED
    BY <1>1, <2>1 DEF Batched, Conserved
<1>4. Descending'
  <2>1. CASE NextBatch
    BY <1>1, <2>1 DEF Batched, Descending, EnvelopeMakesProgress, NextBatch, batches, flush
  <2>2. CASE StartTurn
    <3>1. queue # <<>> /\ queue \in Seq(Batch)
      BY <2>2 DEF StartTurn, Batched, Queued
    <3>2. Head(queue).depth \in 0 .. MaxDepth
      BY <3>1, FirstOfQueue
    <3>3. dealt = {} => turns' = Head(queue).depth + 1
      <4>1. dealt = {} => turns = Head(queue).depth
        BY <2>2, <3>1 DEF StartTurn, Batched, Descending
      <4>2. turns' = MinOf(turns + 1, EnvelopeTurns)
        BY <2>2 DEF StartTurn
      <4> QED
        BY <3>2, <4>1, <4>2, Limits DEF MinOf
    <3> QED
      BY <1>1, <2>2, <3>3 DEF StartTurn, Descending, EnvelopeMakesProgress
  <2>3. CASE EnvelopeTimeout
    <3>1. queue # <<>> /\ queue \in Seq(Batch)
      BY <2>3 DEF EnvelopeTimeout, Batched, Queued
    <3>2. Head(queue).depth \in 0 .. MaxDepth
      BY <3>1, FirstOfQueue
    <3>3. dealt # {}
      <4>1. dealt = {} => turns = Head(queue).depth
        BY <2>3, <3>1 DEF EnvelopeTimeout, Batched, Descending
      <4> QED
        BY <2>3, <3>2, <4>1, Limits DEF EnvelopeTimeout
    <3> QED
      BY <1>1, <2>3, <3>3 DEF EnvelopeTimeout, Descending, EnvelopeMakesProgress
  <2>4. CASE RecordBatchOutcomes
    BY <1>1, <2>4 DEF Batched, Descending, EnvelopeMakesProgress, RecordBatchOutcomes
  <2>5. CASE \/ TakeStop \/ TakeSignal \/ TakeTimer \/ BeginFlush \/ RefuseFlush
             \/ ListFails \/ FlushDone \/ SeenStop \/ TurnCancelled \/ Rearm
    <3>1. /\ pc' \notin {"loop", "arm", "turn", "record"}
          /\ pc' = "schedule" => reason' # "envelope_timeout"
      BY <2>5 DEF TakeStop, TakeSignal, TakeTimer, BeginFlush, RefuseFlush, ListFails,
             FlushDone, SeenStop, TurnCancelled, Rearm
    <3> QED
      BY <3>1 DEF Descending, EnvelopeMakesProgress
  <2> QED
    BY <2>1, <2>2, <2>3, <2>4, <2>5 DEF Leaves
<1> QED
  BY <1>2, <1>3, <1>4

\* Recovery judges events before there is a flush.
LEMMA StartupBatched ==
    ASSUME Batched, NEW interrupted, Startup(interrupted)
    PROVE  Queued' /\ Conserved' /\ Descending'
<1>1. queue = <<>> /\ deferred = {} /\ pc' = "select"
  BY DEF Startup, Batched, Queued
<1>2. UNCHANGED <<queue, deferred, writeFails>>
  BY DEF Startup, flush, batches, counters
<1>3. DeferredNotRun'
  BY <1>1, <1>2, NoEvents DEF Batched, Queued, DeferredNotRun
<1>4. Queued'
  BY <1>1, <1>2, <1>3, NoEvents DEF Batched, Queued
<1> QED
  BY <1>1, <1>4 DEF Conserved, Descending, EnvelopeMakesProgress

\* The flush lists what is pending and not deferred, and cuts it into batches.
LEMMA ListPendingBatched ==
    ASSUME Batched, NEW cuts, ListPending(cuts)
    PROVE  Queued' /\ Conserved' /\ Descending'
<1> DEFINE events == Listable \ deferred
<1>1. /\ pending' = Listable /\ deferred' = deferred \cap Listable
      /\ writeFails' = [e \in Events |-> IF e \in deferred \ Listable THEN 0 ELSE writeFails[e]]
      /\ LegalCuts(events, cuts) /\ listed' = events
      /\ queue' = IF events = {} THEN <<>> ELSE FormBatches(events, cuts)
      /\ dealt' = {} /\ turns' = 0 /\ pc' = "loop"
  BY DEF ListPending
<1>2. Listable \in SUBSET Events /\ deferred \subseteq Listable /\ deferred \subseteq Events
  BY DEF Batched, Shapes, Queued, DeferredNotRun, Listable
<1>3. deferred' = deferred /\ writeFails' = writeFails
  <2>1. deferred' = deferred /\ deferred \ Listable = {}
    BY <1>1, <1>2
  <2> QED
    BY <1>1, <2>1 DEF Batched, Queued
<1>4. events \in SUBSET Events
  BY <1>2
<1> HIDE DEF events
<1>5. /\ queue' \in Seq(Batch) /\ Apart(queue') /\ EventsIn(queue') = events
      /\ queue' # <<>> => Head(queue').depth = 0
  <2>1. CASE events = {}
    BY <1>1, <2>1, NoEvents
  <2>2. CASE events # {}
    <3>1. queue' = FormBatches(events, cuts)
      BY <1>1, <2>2
    <3>2. PICK q : q = FormBatches(events, cuts)
      OBVIOUS
    <3>3. /\ q \in Seq(Batch) /\ Apart(q) /\ EventsIn(q) = events /\ q # <<>>
          /\ q[1].depth = 0
      BY <1>1, <1>4, <2>2, <3>2, FormedBatches
    <3>4. Head(q).depth = 0
      BY <3>3
    <3> QED
      BY <3>1, <3>2, <3>3, <3>4, Zenon
  <2> QED
    BY <2>1, <2>2
<1>6. DeferredNotRun'
  BY <1>1, <1>2, <1>3, <1>5 DEF Batched, Queued, DeferredNotRun, events
<1>7. Queued'
  BY <1>1, <1>2, <1>3, <1>5, <1>6 DEF Batched, Queued, events
<1>8. Conserved'
  BY <1>1, <1>5 DEF Conserved
<1>9. Descending'
  BY <1>1, <1>5 DEF Descending, EnvelopeMakesProgress
<1> QED
  BY <1>7, <1>8, <1>9

\* The current batch is over, with events that stay pending.
BatchOver(kept) ==
    /\ queue' = Tail(queue)
    /\ dealt' = dealt \cup Current.events
    /\ pending' = pending \ (Current.events \ kept)
    /\ listed' = listed

LEMMA OverBatched ==
    ASSUME Batched, pc = "turn", NEW kept, BatchOver(kept)
    PROVE  /\ queue' \in Seq(Batch) /\ Apart(queue') /\ EventsIn(queue') \subseteq pending'
           /\ Conserved' /\ dealt' # {}
           /\ Current.events \in SUBSET pending /\ Current.events \cap EventsIn(queue') = {}
           /\ EventsIn(queue) = Current.events \cup EventsIn(queue')
<1>1. queue \in Seq(Batch) /\ queue # <<>> /\ Apart(queue)
  BY DEF Batched, Queued
<1>2. /\ queue' \in Seq(Batch) /\ Apart(queue')
      /\ EventsIn(queue) = Current.events \cup EventsIn(queue')
      /\ Current.events \cap EventsIn(queue') = {}
  BY <1>1, TailOfQueue DEF BatchOver, Current
<1>3. Current.events # {}
  BY <1>1, FirstOfQueue DEF Current
<1>4. Conserved'
  BY <1>2 DEF Batched, Conserved, BatchOver
<1> QED
  BY <1>2, <1>3, <1>4 DEF Batched, Queued, BatchOver

\* With results for some of its events written, the batch is over.
LEMMA WrittenBatched ==
    ASSUME Batched, pc = "turn", pc' \in {"loop", "record"}, listed' = listed,
           NEW results, DOMAIN results = Current.events,
           NEW lost \in SUBSET Current.events, WriteStatuses(results, lost)
    PROVE  Queued' /\ Conserved' /\ Descending'
<1>1. /\ pending' = pending \ (Current.events \ lost)
      /\ writeFails' = [e \in Events |-> IF e \in Current.events \ lost THEN 0
                                         ELSE IF e \in lost THEN writeFails[e] + 1
                                         ELSE writeFails[e]]
      /\ deferred' = (deferred \ (Current.events \ lost))
                         \cup {e \in lost : writeFails'[e] >= WriteFailLimit}
      /\ dealt' = dealt \cup Current.events /\ queue' = Tail(queue)
  BY DEF WriteStatuses
<1>2. PICK written : written = Current.events \ lost
  OBVIOUS
<1>3. BatchOver(lost)
  BY <1>1 DEF BatchOver
<1>4. /\ queue' \in Seq(Batch) /\ Apart(queue') /\ EventsIn(queue') \subseteq pending'
      /\ Conserved' /\ dealt' # {}
      /\ Current.events \in SUBSET pending /\ Current.events \cap EventsIn(queue') = {}
      /\ EventsIn(queue) = Current.events \cup EventsIn(queue')
  BY <1>3, OverBatched
<1>5. /\ writeFails \in [Events -> 0 .. WriteFailLimit] /\ WriteFailLimit \in Nat \ {0}
      /\ deferred = {e \in Events : writeFails[e] = WriteFailLimit}
      /\ deferred \subseteq pending /\ deferred \cap EventsIn(queue) = {}
      /\ pending \subseteq Events
  BY Limits DEF Batched, Queued, DeferredNotRun, Shapes
<1>6. /\ lost \subseteq Events /\ lost \cap deferred = {} /\ written \cap deferred = {}
      /\ written \cap lost = {} /\ written \cup lost = Current.events
  BY <1>2, <1>4, <1>5
<1>7. \A e \in Events :
          /\ e \in written => writeFails'[e] = 0
          /\ e \in lost => writeFails'[e] = writeFails[e] + 1
          /\ e \notin written /\ e \notin lost => writeFails'[e] = writeFails[e]
  BY <1>1, <1>2, <1>6
<1>8. \A e \in lost : writeFails[e] \in 0 .. WriteFailLimit - 1
  BY <1>5, <1>6
<1>9. writeFails' \in [Events -> 0 .. WriteFailLimit]
  <2>1. \A e \in Events : writeFails'[e] \in 0 .. WriteFailLimit
    BY <1>5, <1>7, <1>8
  <2>2. writeFails' = [e \in Events |-> writeFails'[e]]
    BY <1>1
  <2> QED
    BY <2>1, <2>2
<1>10. deferred' = deferred \cup {e \in lost : writeFails'[e] >= WriteFailLimit}
  BY <1>1, <1>2, <1>6
<1>11. deferred' = {e \in Events : writeFails'[e] = WriteFailLimit}
  <2>1. ASSUME NEW e \in Events
        PROVE  e \in deferred' <=> writeFails'[e] = WriteFailLimit
    <3>1. CASE e \in written
      BY <1>5, <1>6, <1>7, <1>10, <3>1
    <3>2. CASE e \in lost
      BY <1>5, <1>6, <1>7, <1>8, <1>10, <3>2
    <3>3. CASE e \notin written /\ e \notin lost
      BY <1>5, <1>7, <1>10, <3>3
    <3> QED
      BY <3>1, <3>2, <3>3
  <2>2. deferred' \subseteq Events
    BY <1>5, <1>6, <1>10
  <2> QED
    BY <2>1, <2>2
<1>12. deferred' \subseteq pending' /\ deferred' \cap EventsIn(queue') = {}
  BY <1>1, <1>2, <1>4, <1>5, <1>6, <1>10
<1>13. Queued'
  BY <1>4, <1>9, <1>11, <1>12 DEF Queued, DeferredNotRun
<1>14. Descending'
  BY <1>4 DEF Descending, EnvelopeMakesProgress
<1> QED
  BY <1>4, <1>13, <1>14

LEMMA TurnErrsBatched ==
    ASSUME Batched, TurnErrs
    PROVE  Queued' /\ Conserved' /\ Descending'
<1>1. /\ pc = "turn" /\ pc' \in {"loop", "schedule"} /\ queue' = Tail(queue)
      /\ dealt' = dealt \cup Current.events
      /\ UNCHANGED <<pending, listed, writeFails, deferred>>
  BY DEF TurnErrs, Return, store
<1>2. BatchOver(Current.events)
  BY <1>1 DEF BatchOver
<1>3. /\ queue' \in Seq(Batch) /\ Apart(queue') /\ EventsIn(queue') \subseteq pending'
      /\ Conserved' /\ dealt' # {} /\ EventsIn(queue) = Current.events \cup EventsIn(queue')
  BY <1>1, <1>2, OverBatched
<1>4. DeferredNotRun'
  BY <1>1, <1>3 DEF Batched, Queued, DeferredNotRun
<1>5. Queued'
  BY <1>1, <1>3, <1>4 DEF Batched, Queued
<1>6. Descending'
  BY <1>1, <1>3 DEF Descending, EnvelopeMakesProgress
<1> QED
  BY <1>3, <1>5, <1>6

LEMMA TurnSplitsBatched ==
    ASSUME Batched, NEW violations \in BOOLEAN, NEW first, TurnSplits(violations, first)
    PROVE  Queued' /\ Conserved' /\ Descending'
<1>1. /\ pc = "turn" /\ pc' = "loop" /\ Splittable(Current)
      /\ first \in FirstParts(Current, violations)
      /\ queue' = RetryBatches(Current, first) \o Tail(queue)
      /\ UNCHANGED <<pending, listed, dealt, turns, writeFails, deferred>>
  BY DEF TurnSplits, store
<1>2. queue \in Seq(Batch) /\ queue # <<>> /\ Apart(queue) /\ Current = Head(queue)
  BY <1>1 DEF Batched, Queued, Current
<1>3. Current \in Batch
  BY <1>2, FirstOfQueue
<1>4. /\ first \in (SUBSET Current.events) \ {{}, Current.events}
      /\ Current.depth + 1 \in 0 .. MaxDepth
  BY <1>1, <1>3, PartsAreProper
<1>5. /\ queue' \in Seq(Batch) /\ queue' # <<>> /\ Apart(queue')
      /\ EventsIn(queue') = EventsIn(queue) /\ Head(queue').depth = Current.depth + 1
  BY <1>1, <1>2, <1>4, SplitQueue
<1>6. Queued'
  BY <1>1, <1>5 DEF Batched, Queued, DeferredNotRun
<1>7. Conserved'
  BY <1>1, <1>5 DEF Batched, Conserved
<1>8. Descending'
  BY <1>1, <1>2, <1>5 DEF Batched, Descending, EnvelopeMakesProgress
<1> QED
  BY <1>6, <1>7, <1>8

LEMMA ScheduleBatched ==
    ASSUME Batched, Schedule
    PROVE  Queued' /\ Conserved' /\ Descending'
<1>1. /\ queue' = <<>> /\ pc' \in {"select", "rearm"}
      /\ UNCHANGED <<pending, writeFails, deferred>>
  BY DEF Schedule, store, counters
<1>2. Queued'
  BY <1>1, NoEvents DEF Batched, Queued, DeferredNotRun
<1> QED
  BY <1>1, <1>2 DEF Conserved, Descending, EnvelopeMakesProgress

-----------------------------------------------------------------------------
(* The shapes.                                                             *)

LEMMA OutsideShapes == Shapes /\ Outside => Shapes'
<1> SUFFICES ASSUME Shapes, Outside PROVE Shapes'
  OBVIOUS
<1> USE Limits DEF Shapes, store, wake, batches, flush, breaker, counters, shutdown
<1>1. ASSUME NEW e \in Events, AppendEvent(e) \/ Resume(e) \/ SignalPending(e) PROVE Shapes'
  BY <1>1 DEF AppendEvent, Resume, SignalPending, ClearSuspension
<1>2. ASSUME NEW e \in Events, QueueEvent(e) PROVE Shapes'
  BY <1>2 DEF QueueEvent
<1>3. ASSUME NEW e \in Events, ResetEvent(e) PROVE Shapes'
  BY <1>3 DEF ResetEvent, ClearSuspension
<1>4. ASSUME NEW e \in Events, ConfirmEvent(e) PROVE Shapes'
  BY <1>4 DEF ConfirmEvent, Verdicts, Adjudicated
<1>5. CASE Stop
  BY <1>5 DEF Stop, StopCalled, StopReturns, StopForces, StopGivesUp
<1> QED
  BY <1>1, <1>2, <1>3, <1>4, <1>5 DEF Outside, Client, Operator

LEMMA LeavesShapes == Shapes /\ Leaves => Shapes'
<1> SUFFICES ASSUME Shapes, Leaves PROVE Shapes'
  OBVIOUS
<1> USE Limits DEF Shapes, store, wake, batches, flush, breaker, counters, shutdown
<1>1. CASE TakeStop \/ TakeSignal \/ TakeTimer \/ NextBatch \/ Rearm
  BY <1>1 DEF TakeStop, TakeSignal, TakeTimer, NextBatch, Rearm
<1>2. CASE BeginFlush
  BY <1>2 DEF BeginFlush
<1>3. CASE RefuseFlush \/ ListFails \/ FlushDone \/ EnvelopeTimeout \/ SeenStop
  BY <1>3 DEF RefuseFlush, ListFails, FlushDone, EnvelopeTimeout, SeenStop, Return,
         Reasons, Suspending
<1>4. CASE StartTurn
  BY <1>4 DEF StartTurn, MinOf
<1>5. CASE TurnCancelled
  <2>1. outerErrors' \in 0 .. OuterErrorLimit /\ pc' = "schedule" /\ reason' = "stopped"
    BY <1>5 DEF TurnCancelled, Return
  <2> QED
    BY <1>5, <2>1 DEF TurnCancelled, Reasons
<1>6. CASE RecordBatchOutcomes
  <2>1. streak' \in 0 .. StreakLimit /\ burnt' \in Nat
    BY <1>6 DEF RecordBatchOutcomes, MinOf
  <2>2. \/ pc' = "schedule" /\ reason' = "unknown_streak"
        \/ pc' = "loop" /\ reason' = reason
    BY <1>6 DEF RecordBatchOutcomes, Return
  <2> QED
    BY <1>6, <2>1, <2>2 DEF RecordBatchOutcomes, Reasons, Suspending
<1> QED
  BY <1>1, <1>2, <1>3, <1>4, <1>5, <1>6 DEF Leaves

LEMMA WrittenShapes ==
    ASSUME Shapes, NEW results, DOMAIN results \in SUBSET Events,
           \A e \in DOMAIN results : results[e] \in Verdicts,
           NEW lost, WriteStatuses(results, lost)
    PROVE  /\ pending' \in SUBSET Events /\ verdict' \in [Events -> Verdicts \cup {None}]
           /\ dealt' \in SUBSET Events
<1>1. pending' \in SUBSET Events /\ dealt' \in SUBSET Events
  BY DEF Shapes, WriteStatuses
<1>2. \A e \in Events : (IF e \in DOMAIN results \ lost THEN results[e] ELSE verdict[e])
                            \in Verdicts \cup {None}
  BY DEF Shapes
<1> QED
  BY <1>1, <1>2 DEF WriteStatuses

\* The actions that change the queue.
Deals ==
    \/ \E interrupted \in SUBSET pending : Startup(interrupted)
    \/ \E cuts \in SUBSET Events : ListPending(cuts)
    \/ TurnErrs
    \/ \E lost \in SUBSET Current.events, results \in [Current.events -> Verdicts] :
           TurnSucceeds(results, lost)
    \/ \E violations \in BOOLEAN, first \in SUBSET Current.events :
           TurnSplits(violations, first)
    \/ \E violations \in BOOLEAN, lost \in SUBSET Current.events :
           TurnFails(violations, lost)
    \/ Schedule

LEMMA StepsOfNext == Next => Outside \/ Leaves \/ Deals
BY DEF Next, RunLoop, Wait, Flush, Turn, Outside, Leaves, Deals

LEMMA DealsBatched == Batched /\ Deals => Batched'
<1> SUFFICES ASSUME Batched, Deals PROVE Shapes' /\ Queued' /\ Conserved' /\ Descending'
  BY DEF Batched
<1> USE Limits
<1>1. ASSUME NEW interrupted \in SUBSET pending, Startup(interrupted)
      PROVE  Shapes' /\ Queued' /\ Conserved' /\ Descending'
  <2>1. Shapes'
    BY <1>1 DEF Batched, Shapes, Startup, flush, batches, breaker, counters, shutdown, Verdicts
  <2> QED
    BY <1>1, <2>1, StartupBatched
<1>2. ASSUME NEW cuts \in SUBSET Events, ListPending(cuts)
      PROVE  Shapes' /\ Queued' /\ Conserved' /\ Descending'
  <2>1. Listable \in SUBSET Events
    BY DEF Batched, Shapes, Listable
  <2>2. Shapes'
    BY <1>2, <2>1 DEF Batched, Shapes, ListPending, breaker, shutdown
  <2> QED
    BY <1>2, <2>2, ListPendingBatched
<1>3. CASE TurnErrs
  <2>1. Current.events \in SUBSET Events
    BY <1>3, FirstOfQueue DEF TurnErrs, Batched, Queued, Current
  <2>2. outerErrors' \in 0 .. OuterErrorLimit
    BY <1>3 DEF TurnErrs, Batched, Shapes, MinOf
  <2>3. reason' \in Reasons /\ pc' \in {"loop", "schedule"}
    BY <1>3 DEF TurnErrs, Batched, Shapes, Return, Reasons, Suspending
  <2>4. Shapes'
    BY <1>3, <2>1, <2>2, <2>3 DEF TurnErrs, Batched, Shapes, store
  <2> QED
    BY <1>3, <2>4, TurnErrsBatched
<1>4. ASSUME NEW lost \in SUBSET Current.events, NEW results \in [Current.events -> Verdicts],
             TurnSucceeds(results, lost)
      PROVE  Shapes' /\ Queued' /\ Conserved' /\ Descending'
  <2>1. /\ pc = "turn" /\ pc' = "record" /\ WriteStatuses(results, lost) /\ outerErrors' = 0
        /\ UNCHANGED <<arrival, listed, turns, reason, streak, burnt, stopper, overtime, resets>>
    BY <1>4 DEF TurnSucceeds
  <2>2. Current.events \in SUBSET Events
    BY <2>1, FirstOfQueue DEF Batched, Queued, Current
  <2>3. /\ pending' \in SUBSET Events /\ verdict' \in [Events -> Verdicts \cup {None}]
        /\ dealt' \in SUBSET Events
    BY <2>1, <2>2, WrittenShapes DEF Batched
  <2>4. Shapes'
    BY <2>1, <2>3 DEF Batched, Shapes
  <2> QED
    BY <2>1, <2>4, WrittenBatched
<1>5. ASSUME NEW violations \in BOOLEAN, NEW first \in SUBSET Current.events,
             TurnSplits(violations, first)
      PROVE  Shapes' /\ Queued' /\ Conserved' /\ Descending'
  <2>1. Shapes'
    BY <1>5 DEF Batched, Shapes, TurnSplits, store, breaker
  <2> QED
    BY <1>5, <2>1, TurnSplitsBatched
<1>6. ASSUME NEW violations \in BOOLEAN, NEW lost \in SUBSET Current.events,
             TurnFails(violations, lost)
      PROVE  Shapes' /\ Queued' /\ Conserved' /\ Descending'
  <2> DEFINE results == [e \in Current.events |-> "failed"]
  <2>1. /\ pc = "turn" /\ pc' = "loop" /\ WriteStatuses(results, lost) /\ outerErrors' = 0
        /\ UNCHANGED <<arrival, listed, turns, reason, streak, burnt, stopper, overtime, resets>>
    BY <1>6 DEF TurnFails
  <2>2. Current.events \in SUBSET Events
    BY <2>1, FirstOfQueue DEF Batched, Queued, Current
  <2>3. DOMAIN results = Current.events /\ \A e \in Current.events : results[e] \in Verdicts
    BY DEF Verdicts, Adjudicated
  <2> HIDE DEF results
  <2>4. /\ pending' \in SUBSET Events /\ verdict' \in [Events -> Verdicts \cup {None}]
        /\ dealt' \in SUBSET Events
    BY <2>1, <2>2, <2>3, WrittenShapes DEF Batched
  <2>5. Shapes'
    BY <2>1, <2>4 DEF Batched, Shapes
  <2> QED
    BY <2>1, <2>3, <2>5, WrittenBatched
<1>7. CASE Schedule
  <2>1. pc' \in {"select", "rearm"}
    <3>1. CASE suspended'
      BY <1>7, <3>1, Zenon DEF Schedule
    <3>2. CASE ~suspended'
      BY <1>7, <3>2, Zenon DEF Schedule
    <3> QED
      BY <3>1, <3>2
  <2>2. turns' \in 0 .. EnvelopeTurns /\ reason' \in Reasons
    <3>1. turns' = 0 /\ reason' = ""
      BY <1>7, Zenon DEF Schedule
    <3>2. 0 \in 0 .. EnvelopeTurns
      BY Limits
    <3> QED
      BY <3>1, <3>2 DEF Reasons
  <2>3. Shapes'
    BY <1>7, <2>1, <2>2 DEF Batched, Shapes, Schedule, store, counters, shutdown
  <2> QED
    BY <1>7, <2>3, ScheduleBatched
<1> QED
  BY <1>1, <1>2, <1>3, <1>4, <1>5, <1>6, <1>7 DEF Deals

LEMMA NextBatched == Batched /\ [Next]_vars => Batched'
<1> SUFFICES ASSUME Batched, [Next]_vars PROVE Batched'
  OBVIOUS
<1>1. CASE Outside
  BY <1>1, OutsideBatched, OutsideShapes DEF Batched
<1>2. CASE Leaves
  BY <1>2, LeavesBatched, LeavesShapes DEF Batched
<1>3. CASE Deals
  BY <1>3, DealsBatched
<1>4. CASE UNCHANGED vars
  BY <1>4 DEF Batched, Shapes, Queued, Conserved, Descending, DeferredNotRun,
         EnvelopeMakesProgress, vars, store, wake, batches, flush, breaker, counters, shutdown
<1> QED
  BY <1>1, <1>2, <1>3, <1>4, StepsOfNext

LEMMA AlwaysBatched == Spec => []Batched
BY InitBatched, NextBatched, PTL DEF Spec

-----------------------------------------------------------------------------
(* The breaker and Stop: the invariant, part two.                          *)

\* While it is not suspended, a coordinator has turns to burn.
Braked ==
    /\ pc \in {"list", "loop", "arm", "turn", "record"} => ~suspended
    /\ stopRecord => suspended
    /\ burnt <= streak
    /\ ~suspended => burnt < StreakLimit

\* A turn that starts after Stop had its batch checked before.
Stopped ==
    /\ overtime <= 1
    /\ ~stopping => overtime = 0
    /\ pc = "arm" => overtime = 0

Flags ==
    /\ signal \in BOOLEAN /\ timer \in BOOLEAN /\ explicit \in BOOLEAN
    /\ adjudicated \in BOOLEAN
    /\ suspended \in BOOLEAN /\ stopRecord \in BOOLEAN /\ recovered \in BOOLEAN
    /\ stopping \in BOOLEAN /\ cancelSet \in BOOLEAN /\ cancelled \in BOOLEAN

LEMMA StoppedNext == Batched /\ Stopped /\ [Next]_vars => Stopped'
<1> SUFFICES ASSUME Batched, Stopped, [Next]_vars PROVE Stopped'
  OBVIOUS
<1> USE DEF Stopped
<1>1. overtime \in Nat
  BY DEF Batched, Shapes
<1>2. CASE StartTurn
  BY <1>1, <1>2 DEF StartTurn
<1>3. CASE NextBatch
  BY <1>1, <1>3 DEF NextBatch, shutdown
<1>4. CASE StopCalled
  BY <1>4 DEF StopCalled
<1>5. CASE UNCHANGED <<pc, overtime, stopping>>
  BY <1>5
<1>6. CASE pc' # "arm" /\ UNCHANGED <<overtime, stopping>>
  BY <1>6
<1>7. CASE Outside
  <2>1. StopCalled \/ UNCHANGED <<pc, overtime, stopping>>
    BY <1>7 DEF Outside, Client, Operator, Stop, AppendEvent, QueueEvent, Resume, SignalPending,
           ResetEvent, ConfirmEvent, StopReturns, StopForces, StopGivesUp, shutdown
  <2> QED
    BY <1>4, <1>5, <2>1
<1>8. CASE Leaves
  <2>1. StartTurn \/ NextBatch \/ (pc' # "arm" /\ UNCHANGED <<overtime, stopping>>)
    BY <1>8 DEF Leaves, TakeStop, TakeSignal, TakeTimer, BeginFlush, RefuseFlush, ListFails,
           FlushDone, EnvelopeTimeout, SeenStop, RecordBatchOutcomes, TurnCancelled, Rearm,
           Return, shutdown
  <2> QED
    BY <1>2, <1>3, <1>6, <2>1
<1>9. CASE Deals
  <2>1. pc' # "arm" /\ UNCHANGED <<overtime, stopping>>
    BY <1>9 DEF Deals, Startup, ListPending, TurnErrs, TurnSucceeds, TurnSplits, TurnFails,
           Schedule, Return, shutdown
  <2> QED
    BY <1>6, <2>1
<1>10. CASE UNCHANGED vars
  BY <1>5, <1>10 DEF vars, shutdown
<1> QED
  BY <1>7, <1>8, <1>9, <1>10, StepsOfNext

LEMMA BrakedNext == Batched /\ Braked /\ [Next]_vars => Braked'
<1> SUFFICES ASSUME Batched, Braked, [Next]_vars PROVE Braked'
  OBVIOUS
<1> USE Limits DEF Braked
<1>1. burnt \in Nat /\ streak \in 0 .. StreakLimit
  BY DEF Batched, Shapes
<1>2. CASE UNCHANGED <<pc, breaker, streak, burnt>>
  BY <1>2 DEF breaker
<1>3. ASSUME NEW e \in Events, Resume(e) \/ ResetEvent(e) PROVE Braked'
  <2>1. ~suspended' /\ ~stopRecord' /\ pc' = pc /\ streak' = streak
    BY <1>3 DEF Resume, ResetEvent, ClearSuspension
  <2>2. burnt' = IF suspended THEN 0 ELSE burnt
    BY <1>3 DEF Resume, ResetEvent, ClearSuspension
  <2> QED
    BY <1>1, <2>1, <2>2
<1>4. CASE Outside
  <2>1. \/ UNCHANGED <<pc, breaker, streak, burnt>>
        \/ \E e \in Events : Resume(e) \/ ResetEvent(e)
    BY <1>4 DEF Outside, Client, Operator, Stop, AppendEvent, QueueEvent, SignalPending,
           ConfirmEvent, StopCalled, StopReturns, StopForces, StopGivesUp, counters
  <2> QED
    BY <1>2, <1>3, <2>1
<1>5. CASE BeginFlush
  <2>1. /\ ~suspended' /\ streak' = streak
        /\ burnt' = IF suspended THEN 0 ELSE burnt
    BY <1>5 DEF BeginFlush
  <2>2. ~stopRecord'
    BY <1>5 DEF BeginFlush
  <2> QED
    BY <1>1, <2>1, <2>2
<1>6. CASE RecordBatchOutcomes
  <2>1. /\ ~suspended /\ ~stopRecord /\ burnt < StreakLimit
        /\ streak' = IF adjudicated THEN 0 ELSE MinOf(streak + 1, StreakLimit)
        /\ burnt' = IF adjudicated THEN 0 ELSE burnt + 1
    BY <1>6 DEF RecordBatchOutcomes
  <2>2. burnt' <= streak'
    BY <1>1, <2>1 DEF MinOf
  <2>3. CASE streak' >= StreakLimit
    <3>1. suspended' /\ pc' = "schedule"
      BY <1>6, <2>3, Zenon DEF RecordBatchOutcomes, Return
    <3> QED
      BY <2>2, <3>1
  <2>4. CASE ~(streak' >= StreakLimit)
    <3>1. UNCHANGED <<suspended, stopRecord>>
      BY <1>6, <2>4, Zenon DEF RecordBatchOutcomes
    <3>2. burnt' < StreakLimit
      <4>1. burnt' \in Nat /\ streak' \in Nat
        BY <1>1, <2>1 DEF MinOf
      <4> QED
        BY <2>2, <2>4, <4>1
    <3> QED
      BY <2>1, <2>2, <3>1, <3>2
  <2> QED
    BY <2>3, <2>4
<1>7. CASE Schedule
  <2>1. UNCHANGED <<stopRecord, streak, burnt>> /\ (suspended => suspended')
    BY <1>7 DEF Schedule, counters
  <2>2. pc' \in {"select", "rearm"}
    <3>1. CASE suspended'
      BY <1>7, <3>1, Zenon DEF Schedule
    <3>2. CASE ~suspended'
      BY <1>7, <3>2, Zenon DEF Schedule
    <3> QED
      BY <3>1, <3>2
  <2> QED
    BY <2>1, <2>2
<1>8. CASE /\ UNCHANGED <<suspended, stopRecord, streak, burnt>>
           /\ pc' \in {"list", "loop", "arm", "turn", "record"} =>
                  pc \in {"list", "loop", "arm", "turn", "record"}
  BY <1>8
<1>9. CASE Leaves
  <2>1. \/ BeginFlush \/ RecordBatchOutcomes
        \/ /\ UNCHANGED <<suspended, stopRecord, streak, burnt>>
           /\ pc' \in {"list", "loop", "arm", "turn", "record"} =>
                  pc \in {"list", "loop", "arm", "turn", "record"}
    BY <1>9 DEF Leaves, TakeStop, TakeSignal, TakeTimer, RefuseFlush, ListFails,
           FlushDone, EnvelopeTimeout, SeenStop, NextBatch, StartTurn, TurnCancelled, Rearm,
           Return, breaker, counters
  <2> QED
    BY <1>5, <1>6, <1>8, <2>1
<1>10. CASE Deals
  <2>1. \/ Schedule
        \/ /\ UNCHANGED <<suspended, stopRecord, streak, burnt>>
           /\ pc' \in {"list", "loop", "arm", "turn", "record"} =>
                  pc \in {"list", "loop", "arm", "turn", "record"}
    BY <1>10 DEF Deals, Startup, ListPending, TurnErrs, TurnSucceeds, TurnSplits, TurnFails,
           Return, breaker, counters
  <2> QED
    BY <1>7, <1>8, <2>1
<1>11. CASE UNCHANGED vars
  BY <1>2, <1>11 DEF vars, counters
<1> QED
  BY <1>4, <1>9, <1>10, <1>11, StepsOfNext

LEMMA FlagsNext == Flags /\ [Next]_vars => Flags'
<1> SUFFICES ASSUME Flags, [Next]_vars PROVE Flags'
  OBVIOUS
<1> USE DEF Flags, store, wake, batches, flush, breaker, counters, shutdown
<1>1. ASSUME NEW e \in Events, AppendEvent(e) PROVE Flags'
  BY <1>1 DEF AppendEvent
<1>2. ASSUME NEW e \in Events, QueueEvent(e) PROVE Flags'
  BY <1>2 DEF QueueEvent
<1>3. ASSUME NEW e \in Events, Resume(e) PROVE Flags'
  BY <1>3 DEF Resume, ClearSuspension
<1>4. ASSUME NEW e \in Events, SignalPending(e) PROVE Flags'
  BY <1>4 DEF SignalPending
<1>5. ASSUME NEW e \in Events, ResetEvent(e) PROVE Flags'
  BY <1>5 DEF ResetEvent, ClearSuspension
<1>6. ASSUME NEW e \in Events, ConfirmEvent(e) PROVE Flags'
  BY <1>6 DEF ConfirmEvent
<1>7. CASE StopCalled
  BY <1>7 DEF StopCalled
<1>8. CASE StopReturns
  BY <1>8 DEF StopReturns
<1>9. CASE StopForces
  BY <1>9 DEF StopForces
<1>10. CASE StopGivesUp
  BY <1>10 DEF StopGivesUp
<1>11. CASE TakeStop
  BY <1>11 DEF TakeStop
<1>12. CASE TakeSignal
  BY <1>12 DEF TakeSignal
<1>13. CASE TakeTimer
  BY <1>13 DEF TakeTimer
<1>14. CASE BeginFlush
  BY <1>14 DEF BeginFlush
<1>15. CASE NextBatch
  BY <1>15 DEF NextBatch
<1>16. CASE StartTurn
  BY <1>16 DEF StartTurn
<1>17. CASE Rearm
  BY <1>17 DEF Rearm
<1>18. CASE RefuseFlush
  BY <1>18 DEF RefuseFlush, Return
<1>19. CASE ListFails
  BY <1>19 DEF ListFails, Return
<1>20. CASE FlushDone
  BY <1>20 DEF FlushDone, Return
<1>21. CASE EnvelopeTimeout
  BY <1>21 DEF EnvelopeTimeout, Return
<1>22. CASE SeenStop
  BY <1>22 DEF SeenStop, Return
<1>23. CASE RecordBatchOutcomes
  BY <1>23 DEF RecordBatchOutcomes, Return
<1>24. CASE TurnCancelled
  BY <1>24 DEF TurnCancelled, Return, ClearCancel
<1>25. ASSUME NEW interrupted, Startup(interrupted) PROVE Flags'
  BY <1>25 DEF Startup
<1>26. ASSUME NEW cuts, ListPending(cuts) PROVE Flags'
  BY <1>26 DEF ListPending
<1>27. CASE TurnErrs
  BY <1>27 DEF TurnErrs, Return, ClearCancel
<1>28. ASSUME NEW results, NEW lost, TurnSucceeds(results, lost) PROVE Flags'
  BY <1>28 DEF TurnSucceeds, ClearCancel
<1>29. ASSUME NEW violations, NEW first, TurnSplits(violations, first) PROVE Flags'
  BY <1>29 DEF TurnSplits, ClearCancel
<1>30. ASSUME NEW violations, NEW lost, TurnFails(violations, lost) PROVE Flags'
  BY <1>30 DEF TurnFails, ClearCancel
<1>31. CASE Schedule
  BY <1>31 DEF Schedule
<1>32. CASE UNCHANGED vars
  BY <1>32 DEF vars
<1>33. Outside => Flags'
  BY <1>1, <1>2, <1>3, <1>4, <1>5, <1>6, <1>7, <1>8, <1>9, <1>10 DEF Outside, Client, Operator, Stop
<1>34. Leaves => Flags'
  BY <1>11, <1>12, <1>13, <1>14, <1>15, <1>16, <1>17, <1>18, <1>19, <1>20, <1>21, <1>22, <1>23, <1>24 DEF Leaves
<1>35. Deals => Flags'
  BY <1>25, <1>26, <1>27, <1>28, <1>29, <1>30, <1>31 DEF Deals
<1> QED
  BY <1>32, <1>33, <1>34, <1>35, StepsOfNext

\* Only scheduleNext stops the timer, and it looks at what is pending.
LEMMA WorkNext == Batched /\ Flags /\ NoForgottenWork /\ [Next]_vars => NoForgottenWork'
<1> SUFFICES ASSUME Batched, Flags, NoForgottenWork, [Next]_vars, Asleep',
                    ~(pending' \subseteq deferred' \/ suspended')
             PROVE  FALSE
  BY DEF NoForgottenWork
<1>1. /\ pc' = "select" /\ ~signal' /\ ~timer'
      /\ \A e \in Events : arrival'[e] \in {"absent", "announced"}
  BY DEF Asleep
<1>2. CASE UNCHANGED <<arrival, pending, wake, pc, deferred, suspended>>
  BY <1>2 DEF NoForgottenWork, Asleep, wake
<1>3. CASE Outside
  <2>1. ASSUME NEW e \in Events, AppendEvent(e) \/ QueueEvent(e) \/ Resume(e) PROVE FALSE
    <3>1. arrival'[e] \in {"appended", "queued", "resumed"}
      BY <2>1 DEF AppendEvent, QueueEvent, Resume, Batched, Shapes
    <3> QED
      BY <1>1, <3>1
  <2>2. ASSUME NEW e \in Events, SignalPending(e) \/ ResetEvent(e) PROVE FALSE
    BY <1>1, <2>2 DEF SignalPending, ResetEvent
  <2>3. ASSUME NEW e \in Events, ConfirmEvent(e) PROVE FALSE
    BY <1>2, <2>3 DEF ConfirmEvent, breaker, counters
  <2>4. CASE Stop
    BY <1>2, <2>4 DEF Stop, StopCalled, StopReturns, StopForces, StopGivesUp, store, breaker,
           counters
  <2> QED
    BY <1>3, <2>1, <2>2, <2>3, <2>4 DEF Outside, Client, Operator
<1>4. CASE Rearm
  <2>1. /\ timer' = (Cardinality(pending) > Cardinality(deferred))
        /\ pending' = pending /\ deferred' = deferred
    BY <1>4 DEF Rearm, store, counters
  <2>2. IsFiniteSet(pending) /\ deferred \in SUBSET pending
    BY EventsAssumption, FS_Subset DEF Batched, Shapes, Queued, DeferredNotRun
  <2>3. Cardinality(deferred) = Cardinality(pending) => deferred = pending
    BY <2>2, FS_Subset
  <2>4. /\ Cardinality(deferred) <= Cardinality(pending)
        /\ Cardinality(deferred) \in Nat /\ Cardinality(pending) \in Nat
    BY <2>2, FS_Subset, FS_CardinalityType
  <2>5. ~(Cardinality(pending) > Cardinality(deferred))
    BY <1>1, <2>1
  <2> QED
    BY <2>1, <2>3, <2>4, <2>5
<1>5. CASE Schedule
  BY <1>1, <1>5, Zenon DEF Schedule
<1>6. CASE TakeSignal
  <2>1. CASE Cardinality(pending) >= FlushThreshold
    BY <1>1, <1>6, <2>1, Zenon DEF TakeSignal
  <2>2. CASE ~(Cardinality(pending) >= FlushThreshold)
    BY <1>1, <1>6, <2>2, Zenon DEF TakeSignal
  <2> QED
    BY <2>1, <2>2
<1>7. CASE Leaves
  <2>1. Rearm \/ TakeSignal \/ pc' # "select"
    BY <1>7 DEF Leaves, TakeStop, TakeTimer, BeginFlush, RefuseFlush, ListFails, FlushDone,
           EnvelopeTimeout, SeenStop, NextBatch, StartTurn, RecordBatchOutcomes, TurnCancelled,
           Return
  <2> QED
    BY <1>1, <1>4, <1>6, <2>1
<1>8. CASE Deals
  <2>1. Schedule \/ timer' \/ pc' # "select"
    BY <1>8 DEF Deals, Startup, ListPending, TurnErrs, TurnSucceeds, TurnSplits, TurnFails,
           Return
  <2> QED
    BY <1>1, <1>5, <2>1
<1>9. CASE UNCHANGED vars
  BY <1>2, <1>9 DEF vars, store, breaker, counters
<1> QED
  BY <1>3, <1>7, <1>8, <1>9, StepsOfNext

-----------------------------------------------------------------------------
(* The theorems.                                                           *)

IInv == Batched /\ Flags /\ Braked /\ Stopped /\ NoForgottenWork

LEMMA InitIInv == Init => IInv
<1> SUFFICES ASSUME Init PROVE IInv
  OBVIOUS
<1>1. Flags /\ Braked /\ Stopped
  <2>1. Flags /\ Stopped
    <3>1. Flags
      BY DEF Init, Flags
    <3>2. overtime = 0
      BY DEF Init
    <3> QED
      BY <3>1, <3>2 DEF Stopped
  <2>2. /\ burnt = 0 /\ streak = 0 /\ pc = "starting" /\ ~stopRecord
    BY DEF Init
  <2>3. Braked
    BY <2>2, Limits DEF Braked
  <2> QED
    BY <2>1, <2>3
<1>2. NoForgottenWork
  BY DEF Init, NoForgottenWork, Asleep
<1> QED
  BY <1>1, <1>2, InitBatched DEF IInv

LEMMA NextIInv == IInv /\ [Next]_vars => IInv'
BY NextBatched, FlagsNext, BrakedNext, StoppedNext, WorkNext DEF IInv

LEMMA AlwaysIInv == Spec => []IInv
BY InitIInv, NextIInv, PTL DEF Spec

\* Every variable keeps its type, and the evidence of a tripped breaker is shown
\* only while the coordinator is suspended (coordinator.go 276-321, 480-486).
THEOREM TypesHold == Spec => []TypeOK
<1>1. IInv => TypeOK
  <2> SUFFICES ASSUME IInv PROVE TypeOK
    OBVIOUS
  <2>1. queue \in Seq([events : (SUBSET Events) \ {{}}, depth : 0 .. MaxDepth])
    BY DEF IInv, Batched, Queued, Batch
  <2>2. /\ {signal, timer, explicit, adjudicated} \subseteq BOOLEAN
        /\ {suspended, stopRecord, recovered} \subseteq BOOLEAN
        /\ {stopping, cancelSet, cancelled} \subseteq BOOLEAN
    BY DEF IInv, Flags
  <2>3. stopRecord => suspended
    BY DEF IInv, Braked
  <2>4. writeFails \in [Events -> 0 .. WriteFailLimit] /\ deferred \in SUBSET Events
    BY DEF IInv, Batched, Queued, DeferredNotRun
  <2>5. {burnt, overtime} \subseteq Nat
    BY DEF IInv, Batched, Shapes
  <2> QED
    BY <2>1, <2>2, <2>3, <2>4, <2>5 DEF IInv, Batched, Shapes, TypeOK
<1> QED
  BY AlwaysIInv, <1>1, PTL

\* However often batches are split, while the flush runs every event it set out
\* to run is in exactly one batch of the queue, or was dealt with
\* (coordinator.go 788-856).
THEOREM FlushesConserveEvents == Spec => []FlushConservesEvents
<1>1. IInv => FlushConservesEvents
  BY DEF IInv, Batched, Queued, Conserved, Apart, FlushConservesEvents
<1> QED
  BY AlwaysIInv, <1>1, PTL

\* An event whose status could not be written is pending, and in no batch
\* (coordinator.go 498-519, 772-786).
THEOREM DeferredAreNotRun == Spec => []DeferredNotRun
<1>1. IInv => DeferredNotRun
  BY DEF IInv, Batched, Queued
<1> QED
  BY AlwaysIInv, <1>1, PTL

\* The envelope never ends a flush that finished no batch: splits are bounded
\* (coordinator.go 528-532, 788-798).
THEOREM EnvelopesMakeProgress == Spec => []EnvelopeMakesProgress
<1>1. IInv => EnvelopeMakesProgress
  BY DEF IInv, Batched, Descending
<1> QED
  BY AlwaysIInv, <1>1, PTL

\* A suspended coordinator neither lists nor runs anything (coordinator.go
\* 474-479, 583-587).
THEOREM SuspendedRunsNothing == Spec => []NoTurnWhileSuspended
<1>1. IInv => NoTurnWhileSuspended
  BY DEF IInv, Braked, NoTurnWhileSuspended
<1> QED
  BY AlwaysIInv, <1>1, PTL

\* No more than StreakLimit turns end all-unknown without an adjudicated event
\* or a recovery, across flushes (coordinator.go 650-699).
THEOREM BurnIsLimited == Spec => []BurnLimited
<1>1. IInv => BurnLimited
  <2> SUFFICES ASSUME IInv PROVE BurnLimited
    OBVIOUS
  <2>1. burnt \in Nat /\ streak \in 0 .. StreakLimit /\ burnt <= streak
    BY DEF IInv, Batched, Shapes, Braked
  <2> QED
    BY <2>1, Limits DEF BurnLimited
<1> QED
  BY AlwaysIInv, <1>1, PTL

\* After Stop at most one more turn starts (coordinator.go 533-545, 900-924).
THEOREM StopIsHonoured == Spec => []StopHonoured
<1>1. IInv => StopHonoured
  BY DEF IInv, Stopped, StopHonoured
<1> QED
  BY AlwaysIInv, <1>1, PTL

\* The run loop never sleeps for good on work that is neither deferred nor held
\* back by a suspension (coordinator.go 276-295, 430-460).
THEOREM WorkIsNotForgotten == Spec => []NoForgottenWork
<1>1. IInv => NoForgottenWork
  BY DEF IInv
<1> QED
  BY AlwaysIInv, <1>1, PTL
-----------------------------------------------------------------------------
(* The ledger.  What waits for a verdict has none, and the store has never *)
(* heard of an event before it is appended.                                *)

Truthful ==
    /\ \A e \in pending : verdict[e] = None /\ arrival[e] # "absent"
    /\ \A e \in Events : arrival[e] = "absent" => verdict[e] = None

\* The event is where it was: neither appended nor judged, nor a verdict undone.
Settled(e) ==
    /\ arrival'[e] = "absent" <=> arrival[e] = "absent"
    /\ arrival'[e] = "appended" => arrival[e] = "appended"
    /\ verdict'[e] = verdict[e]

Appended(e) == arrival[e] = "absent" /\ arrival'[e] # "absent" /\ verdict'[e] = None

Announced(e) ==
    /\ arrival[e] = "appended"
    /\ arrival'[e] \notin {"absent", "appended"}
    /\ verdict'[e] = None

\* A verdict is given where there was none, undone by an operator who found it
\* failed or unknown, or confirmed by one who found it unknown.
Revised(e) ==
    /\ arrival'[e] = arrival[e] /\ arrival[e] # "absent"
    /\ \/ verdict[e] = None /\ verdict'[e] \in Verdicts
       \/ verdict[e] \in {"failed", "unknown"} /\ verdict'[e] = None
       \/ verdict[e] = "unknown" /\ verdict'[e] = "done"

\* Every event takes one of the four ways.
Recorded == \A e \in Events : Settled(e) \/ Appended(e) \/ Announced(e) \/ Revised(e)

\* The results written are of events that waited for them.
LEMMA WrittenRecorded ==
    ASSUME Batched, Truthful, pc = "turn", arrival' = arrival,
           NEW results, DOMAIN results = Current.events,
           \A e \in Current.events : results[e] \in Verdicts,
           NEW lost, WriteStatuses(results, lost)
    PROVE  Recorded /\ Truthful'
<1>1. /\ pending' = pending \ (Current.events \ lost)
      /\ verdict' = [e \in Events |-> IF e \in Current.events \ lost THEN results[e]
                                      ELSE verdict[e]]
  BY DEF WriteStatuses
<1>2. Current.events \in SUBSET pending /\ pending \in SUBSET Events
  <2>1. queue # <<>> /\ queue \in Seq(Batch) /\ EventsIn(queue) \subseteq pending /\ Apart(queue)
    BY DEF Batched, Queued
  <2>2. Current.events \subseteq EventsIn(queue)
    BY <2>1, TailOfQueue DEF Current
  <2> QED
    BY <2>1, <2>2 DEF Batched, Shapes
<1>3. \A e \in Current.events \ lost : Revised(e)
  BY <1>1, <1>2 DEF Truthful, Revised
<1>4. \A e \in Events : e \notin Current.events \ lost => Settled(e)
  BY <1>1 DEF Settled
<1>5. Recorded
  BY <1>3, <1>4 DEF Recorded
<1>6. Truthful'
  BY <1>1, <1>2 DEF Truthful
<1> QED
  BY <1>5, <1>6

LEMMA UntouchedRecorded ==
    Truthful /\ UNCHANGED <<arrival, store>> => Recorded /\ Truthful'
BY DEF store, Recorded, Settled, Truthful

LEMMA OutsideRecorded ==
    Batched /\ Truthful /\ Outside => Recorded /\ Truthful'
<1> SUFFICES ASSUME Batched, Truthful, Outside PROVE Recorded /\ Truthful'
  OBVIOUS
<1>1. /\ arrival \in [Events -> {"absent", "appended", "queued", "resumed", "announced"}]
      /\ pending \in SUBSET Events
      /\ verdict \in [Events -> Verdicts \cup {None}]
  BY DEF Batched, Shapes
<1> USE DEF Recorded, Truthful, Settled, store
<1>2. ASSUME NEW e \in Events, AppendEvent(e) PROVE Recorded /\ Truthful'
  <2>1. Appended(e) /\ \A d \in Events : d # e => Settled(d)
    BY <1>1, <1>2 DEF AppendEvent, Appended
  <2> QED
    BY <1>1, <1>2, <2>1 DEF AppendEvent
<1>3. ASSUME NEW e \in Events, QueueEvent(e) PROVE Recorded /\ Truthful'
  <2>1. Announced(e) /\ \A d \in Events : d # e => Settled(d)
    BY <1>1, <1>3 DEF QueueEvent, Announced
  <2> QED
    BY <1>1, <1>3, <2>1 DEF QueueEvent
<1>4. ASSUME NEW e \in Events, Resume(e) \/ SignalPending(e) PROVE Recorded /\ Truthful'
  BY <1>1, <1>4 DEF Resume, SignalPending
<1>5. ASSUME NEW e \in Events, ResetEvent(e) PROVE Recorded /\ Truthful'
  <2>1. arrival[e] # "absent"
    BY <1>5 DEF ResetEvent, None
  <2>2. Revised(e) /\ \A d \in Events : d # e => Settled(d)
    BY <1>1, <1>5, <2>1 DEF ResetEvent, Revised
  <2> QED
    BY <1>1, <1>5, <2>1, <2>2 DEF ResetEvent
<1>6. ASSUME NEW e \in Events, ConfirmEvent(e) PROVE Recorded /\ Truthful'
  <2>1. arrival[e] # "absent" /\ e \notin pending
    BY <1>6 DEF ConfirmEvent, None
  <2>2. Revised(e) /\ \A d \in Events : d # e => Settled(d)
    BY <1>1, <1>6, <2>1 DEF ConfirmEvent, Revised
  <2> QED
    BY <1>1, <1>6, <2>1, <2>2 DEF ConfirmEvent
<1>7. CASE Stop
  BY <1>7 DEF Stop, StopCalled, StopReturns, StopForces, StopGivesUp
<1> QED
  BY <1>2, <1>3, <1>4, <1>5, <1>6, <1>7 DEF Outside, Client, Operator

LEMMA LeavesRecorded == Truthful /\ Leaves => Recorded /\ Truthful'
<1>1. Leaves => UNCHANGED <<arrival, store>>
  BY DEF Leaves, TakeStop, TakeSignal, TakeTimer, BeginFlush, RefuseFlush, ListFails,
       FlushDone, EnvelopeTimeout, SeenStop, NextBatch, StartTurn, RecordBatchOutcomes,
       TurnCancelled, Rearm, Return, ClearCancel, store
<1> QED
  BY <1>1, UntouchedRecorded

LEMMA DealsRecorded ==
    Batched /\ Truthful /\ Deals => Recorded /\ Truthful'
<1> SUFFICES ASSUME Batched, Truthful, Deals PROVE Recorded /\ Truthful'
  OBVIOUS
<1>1. pending \in SUBSET Events
  BY DEF Batched, Shapes
<1>2. ASSUME NEW interrupted \in SUBSET pending, Startup(interrupted)
      PROVE  Recorded /\ Truthful'
  <2>1. /\ arrival' = arrival /\ pending' = pending \ interrupted
        /\ verdict' = [e \in Events |-> IF e \in interrupted THEN "unknown" ELSE verdict[e]]
    BY <1>2 DEF Startup
  <2>2. \A e \in interrupted : Revised(e)
    BY <1>1, <2>1 DEF Truthful, Revised, Verdicts
  <2>3. \A e \in Events \ interrupted : Settled(e)
    BY <2>1 DEF Settled
  <2> QED
    BY <1>1, <2>1, <2>2, <2>3 DEF Recorded, Truthful
<1>3. ASSUME NEW cuts \in SUBSET Events, ListPending(cuts)
      PROVE  Recorded /\ Truthful'
  <2>1. arrival' = arrival /\ verdict' = verdict /\ pending' = Listable
    BY <1>3 DEF ListPending
  <2> QED
    BY <2>1 DEF Recorded, Settled, Truthful, Listable
<1>4. CASE TurnErrs
  BY <1>4, UntouchedRecorded DEF TurnErrs
<1>5. ASSUME NEW lost \in SUBSET Current.events, NEW results \in [Current.events -> Verdicts],
             TurnSucceeds(results, lost)
      PROVE  Recorded /\ Truthful'
  <2>1. pc = "turn" /\ arrival' = arrival /\ WriteStatuses(results, lost)
    BY <1>5 DEF TurnSucceeds
  <2> QED
    BY <2>1, WrittenRecorded
<1>6. ASSUME NEW violations, NEW first, TurnSplits(violations, first)
      PROVE  Recorded /\ Truthful'
  BY <1>6, UntouchedRecorded DEF TurnSplits
<1>7. ASSUME NEW violations \in BOOLEAN, NEW lost \in SUBSET Current.events,
             TurnFails(violations, lost)
      PROVE  Recorded /\ Truthful'
  <2> DEFINE results == [e \in Current.events |-> "failed"]
  <2>1. pc = "turn" /\ arrival' = arrival /\ WriteStatuses(results, lost)
    BY <1>7 DEF TurnFails
  <2>2. DOMAIN results = Current.events /\ \A e \in Current.events : results[e] \in Verdicts
    BY DEF Verdicts, Adjudicated
  <2> HIDE DEF results
  <2> QED
    BY <2>1, <2>2, WrittenRecorded
<1>8. CASE Schedule
  BY <1>8, UntouchedRecorded DEF Schedule
<1> QED
  BY <1>2, <1>3, <1>4, <1>5, <1>6, <1>7, <1>8 DEF Deals

LEMMA NextRecorded ==
    Batched /\ Truthful /\ [Next]_vars => Recorded /\ Truthful'
<1>1. UNCHANGED vars => UNCHANGED <<arrival, store>>
  BY DEF vars
<1> QED
  BY <1>1, OutsideRecorded, LeavesRecorded, DealsRecorded, UntouchedRecorded, StepsOfNext

LEMMA InitTruthful == Init => Truthful
BY EventsAssumption DEF Init, Truthful

\* What an operator believes of an event, in each of the cases.
LEMMA Statuses ==
    ASSUME NEW arrived, NEW stored \in Verdicts \cup {None}
    PROVE  /\ StatusOf(arrived, stored) \in Ledger!Verdicts \cup {"absent", "pending"}
           /\ arrived = "absent" => StatusOf(arrived, stored) = "absent"
           /\ arrived # "absent" =>
                  /\ StatusOf(arrived, stored) # "absent"
                  /\ stored = None => StatusOf(arrived, stored) = "pending"
                  /\ stored = "done" => StatusOf(arrived, stored) = "integrated"
                  /\ stored \in {"failed", "unknown"} => StatusOf(arrived, stored) = stored
                  /\ stored # None => StatusOf(arrived, stored) \in Ledger!Verdicts
BY DEF StatusOf, Verdicts, Adjudicated, None, Ledger!Verdicts, Ledger!Success

LEMMA RecordedMoves ==
    ASSUME Shapes, Shapes', Truthful, Recorded
    PROVE  Ledger!LedgerNext
<1>1. /\ \A e \in Events : verdict[e] \in Verdicts \cup {None}
      /\ \A e \in Events : verdict'[e] \in Verdicts \cup {None}
  BY DEF Shapes
<1>2. /\ LedgerStatus = [e \in Events |-> StatusOf(arrival[e], verdict[e])]
      /\ LedgerStatus' = [e \in Events |-> StatusOf(arrival'[e], verdict'[e])]
  BY DEF LedgerStatus
<1>3. LedgerStatus' \in [Events -> Ledger!Verdicts \cup {"absent", "pending"}]
  BY <1>1, <1>2, Statuses
<1>4. ASSUME NEW e \in Events
      PROVE  Ledger!Move(e) /\ (e \in Unannounced' \ Unannounced => Ledger!Recorded(e))
  <2> DEFINE old == StatusOf(arrival[e], verdict[e])
             new == StatusOf(arrival'[e], verdict'[e])
  <2>1. LedgerStatus[e] = old /\ LedgerStatus'[e] = new
    BY <1>2
  <2>2. CASE Settled(e)
    <3>1. new = old
      BY <1>1, <2>2, Statuses DEF Settled, StatusOf
    <3>2. e \notin Unannounced' \ Unannounced
      BY <2>2 DEF Settled, Unannounced
    <3> QED
      BY <2>1, <3>1, <3>2 DEF Ledger!Move
  <2>3. CASE Appended(e)
    <3>1. old = "absent" /\ new = "pending"
      BY <1>1, <2>3, Statuses DEF Appended
    <3> QED
      BY <2>1, <3>1 DEF Ledger!Move, Ledger!Recorded
  <2>4. CASE Announced(e)
    <3>1. e \in Unannounced /\ e \notin Unannounced'
      BY <2>4 DEF Announced, Unannounced
    <3>2. old # "absent" /\ new # "absent"
      BY <1>1, <2>4, Statuses DEF Announced
    <3> QED
      BY <2>1, <3>1, <3>2 DEF Ledger!Move, Ledger!Unreliable
  <2>5. CASE Revised(e)
    <3>1. e \notin Unannounced' \ Unannounced
      BY <2>5 DEF Revised, Unannounced
    <3>2. CASE verdict[e] = None /\ verdict'[e] \in Verdicts
      <4>1. old = "pending" /\ new \in Ledger!Verdicts
        BY <1>1, <2>5, <3>2, Statuses DEF Revised, Verdicts, Adjudicated, None
      <4> QED
        BY <2>1, <3>1, <4>1 DEF Ledger!Move, Ledger!Judged
    <3>3. CASE verdict[e] \in {"failed", "unknown"} /\ verdict'[e] = None
      <4>1. old = verdict[e] /\ new = "pending"
        BY <1>1, <2>5, <3>3, Statuses DEF Revised
      <4> QED
        BY <2>1, <3>1, <3>3, <4>1 DEF Ledger!Move, Ledger!ResetByOperator
    <3>4. CASE verdict[e] = "unknown" /\ verdict'[e] = "done"
      <4>1. old = "unknown" /\ new = "integrated"
        BY <1>1, <2>5, <3>4, Statuses DEF Revised
      <4> QED
        BY <2>1, <3>1, <4>1 DEF Ledger!Move, Ledger!ConfirmedByOperator
    <3> QED
      BY <2>5, <3>2, <3>3, <3>4 DEF Revised
  <2> QED
    BY <2>2, <2>3, <2>4, <2>5 DEF Recorded
<1>5. Unannounced' \in SUBSET Events
  BY DEF Unannounced
<1> QED
  BY <1>3, <1>4, <1>5 DEF Ledger!LedgerNext

\* The coordinator, with the store reduced to what it promises, keeps the ledger:
\* no verdict is written over another, no success is lost and no event forgotten
\* (coordinator.go 486-526, 563-617, 741-786; store.go 332-381).
THEOREM CoordinatorKeepsLedger == Spec => KeepsLedger
<1>1. Init => Ledger!LedgerInit
  <2> SUFFICES ASSUME Init PROVE Ledger!LedgerInit
    OBVIOUS
  <2>1. \A e \in Events : verdict[e] \in Verdicts \cup {None}
    BY DEF Init
  <2>2. LedgerStatus \in [Events -> Ledger!Verdicts \cup {"absent", "pending"}]
    BY <2>1, Statuses DEF LedgerStatus
  <2>3. Unannounced = {}
    BY DEF Init, Unannounced
  <2> QED
    BY <2>2, <2>3 DEF Ledger!LedgerInit
<1>2. /\ Batched /\ Batched' /\ Truthful /\ [Next]_vars
      => [Ledger!LedgerNext]_<<LedgerStatus, Unannounced, {}>>
  BY NextRecorded, RecordedMoves DEF Batched
<1>3. Spec => []Truthful
  BY InitTruthful, NextRecorded, AlwaysBatched, PTL DEF Spec
<1> QED
  BY <1>1, <1>2, <1>3, AlwaysBatched, PTL DEF Spec, KeepsLedger, Ledger!LedgerSpec
=============================================================================
