------------------------ MODULE CompileTurn_proofs -------------------------
(***************************************************************************)
(* Proofs about CompileTurn, for any events, backends and bounds.  First   *)
(* the sequences: what a log keeps when it grows, and positions below a    *)
(* cursor.  Then the inductive invariant: whatever a cycle has read counts *)
(* in the sequence its backend reads from, the log for the ACP backend and *)
(* the server's cache for the LLM backend.                                 *)
(***************************************************************************)
EXTENDS CompileTurn, FiniteSetTheorems, SequenceTheorems, WellFoundedInduction, TLAPS

\* No event twice.
Distinct(s) == \A i, j \in DOMAIN s : s[i] = s[j] => i = j

Extends(s, t) == Len(s) <= Len(t) /\ \A i \in 1 .. Len(s) : t[i] = s[i]

\* The events of s after position m and up to n are in S.
Covered(s, m, n, S) == n <= Len(s) /\ \A i \in 1 .. n : i > m => s[i] \in S

-----------------------------------------------------------------------------
LEMMA LengthIsPosition ==
    ASSUME NEW s \in Seq(Events), Distinct(s)
    PROVE  Len(s) \in Positions
<1>1. PICK n \in Nat : n = Len(s)
  OBVIOUS
<1> DEFINE I == {s[i] : i \in 1 .. n}
<1>2. I \in SUBSET Events
  BY <1>1
<1>3. [i \in 1 .. n |-> s[i]] \in Bijection(1 .. n, I)
  BY <1>1 DEF Distinct, Bijection, Injection, Surjection, IsInjective
<1>4. IsFiniteSet(1 .. n) /\ Cardinality(1 .. n) = n
  BY FS_Interval
<1> HIDE DEF I
<1>5. IsFiniteSet(I) /\ Cardinality(I) = n
  BY <1>3, <1>4, FS_Bijection DEF ExistsBijection
<1>6. Cardinality(I) <= Cardinality(Events) /\ Cardinality(Events) \in Nat
  BY <1>2, EventsAssumption, FS_Subset, FS_CardinalityType
<1> QED
  BY <1>1, <1>5, <1>6 DEF Positions

LEMMA Smallest ==
    ASSUME NEW S \in SUBSET Nat, S # {}
    PROVE  Min(S) \in S
<1>1. \E x \in S : \A y \in S : ~ (<<y, x>> \in OpToRel(<, Nat))
  BY NatLessThanWellFounded, WFMin, Zenon
<1>2. PICK x \in S : \A y \in S : ~ (y < x)
  BY <1>1 DEF OpToRel
<1>3. \A y \in S : x <= y
  BY <1>2
<1> QED
  BY <1>3 DEF Min

LEMMA ClampedValue ==
    ASSUME NEW n \in Nat, NEW count \in Nat, expected \in Nat
    PROVE  /\ Clamped(n, count) \in {n, expected, count}
           /\ n <= count /\ Clamped(n, count) > expected => Clamped(n, count) = n
<1>1. Max({n, expected}) = IF n >= expected THEN n ELSE expected
  BY DEF Max
<1>2. PICK m \in Nat : m = Max({n, expected})
  BY <1>1
<1>3. Min({m, count}) = IF m <= count THEN m ELSE count
  BY DEF Min
<1> QED
  BY <1>1, <1>2, <1>3 DEF Clamped

LEMMA AppendedSequence ==
    ASSUME NEW s \in Seq(Events), NEW e \in Events
    PROVE  /\ Append(s, e) \in Seq(Events) /\ Append(s, e) # <<>> /\ Extends(s, Append(s, e))
           /\ Len(Append(s, e)) = Len(s) + 1 /\ Append(s, e)[Len(s) + 1] = e
           /\ ToSet(Append(s, e)) = ToSet(s) \cup {e}
           /\ Distinct(s) /\ e \notin ToSet(s) => Distinct(Append(s, e))
<1>1. PICK t : t = Append(s, e)
  OBVIOUS
<1>2. /\ t \in Seq(Events) /\ Len(t) = Len(s) + 1 /\ t[Len(s) + 1] = e
      /\ \A i \in 1 .. Len(s) : t[i] = s[i]
  BY <1>1
<1>3. DOMAIN t = 1 .. Len(s) + 1 /\ DOMAIN s = 1 .. Len(s) /\ Len(s) \in Nat
  BY <1>2
<1>4. \A i \in DOMAIN t : i = Len(s) + 1 \/ i \in DOMAIN s
  BY <1>3
<1>5. ToSet(t) = ToSet(s) \cup {e}
  <2>1. ToSet(t) \subseteq ToSet(s) \cup {e}
    BY <1>2, <1>3, <1>4 DEF ToSet
  <2>2. Len(s) + 1 \in DOMAIN t /\ DOMAIN s \subseteq DOMAIN t
    BY <1>3
  <2> QED
    BY <1>2, <1>3, <2>1, <2>2 DEF ToSet
<1>6. Distinct(s) /\ e \notin ToSet(s) => Distinct(t)
  BY <1>2, <1>3, <1>4 DEF Distinct, ToSet
<1>7. Extends(s, t) /\ t # <<>>
  BY <1>2, <1>3 DEF Extends
<1> QED
  BY <1>1, <1>2, <1>5, <1>6, <1>7

LEMMA FrontSequence ==
    ASSUME NEW s \in Seq(Events), s # <<>>
    PROVE  /\ Front(s) \in Seq(Events) /\ ToSet(Front(s)) \subseteq ToSet(s)
           /\ Distinct(s) => Distinct(Front(s))
<1>1. PICK t : t = Front(s)
  OBVIOUS
<1>2. Len(s) \in Nat \ {0} /\ DOMAIN s = 1 .. Len(s)
  BY EmptySeq
<1>3. t \in Seq(Events) /\ DOMAIN t = 1 .. Len(s) - 1 /\ \A i \in 1 .. Len(s) - 1 : t[i] = s[i]
  BY <1>1, <1>2, SubSeqProperties DEF Front
<1>4. DOMAIN t \subseteq DOMAIN s
  BY <1>2, <1>3
<1> QED
  BY <1>1, <1>3, <1>4 DEF ToSet, Distinct

LEMMA PrefixOfSequence ==
    ASSUME NEW s \in Seq(Events), NEW m \in 0 .. Len(s)
    PROVE  /\ SubSeq(s, 1, m) \in Seq(Events) /\ Len(SubSeq(s, 1, m)) = m
           /\ \A i \in 1 .. m : SubSeq(s, 1, m)[i] = s[i]
<1>1. /\ 1 \in Int /\ m \in Int /\ \A i \in 1 .. m : s[i] \in Events
      /\ m - 1 + 1 = m /\ \A i \in 1 .. m : 1 + i - 1 = i
  OBVIOUS
<1> QED
  BY <1>1, SubSeqProperties

LEMMA CoverageIsKept ==
    ASSUME NEW s \in Seq(Events), NEW t \in Seq(Events), Extends(s, t),
           NEW m \in Nat, NEW n \in Nat, NEW S, NEW T, S \subseteq T, Covered(s, m, n, S)
    PROVE  Covered(t, m, n, T)
<1>1. n <= Len(s) /\ Len(s) <= Len(t) /\ Len(s) \in Nat /\ Len(t) \in Nat
  BY DEF Covered, Extends
<1>2. ASSUME NEW i \in 1 .. n, i > m PROVE t[i] \in T
  <2>1. i \in 1 .. Len(s)
    BY <1>1
  <2> QED
    BY <1>2, <2>1 DEF Covered, Extends
<1> QED
  BY <1>1, <1>2 DEF Covered

LEMMA CoverageAdds ==
    ASSUME NEW s \in Seq(Events), NEW m \in Nat, NEW n \in Nat, NEW S,
           Covered(s, 0, m, S), Covered(s, m, n, S)
    PROVE  Covered(s, 0, n, S)
<1>1. \A i \in 1 .. n : i > m \/ i \in 1 .. m
  OBVIOUS
<1> QED
  BY <1>1 DEF Covered

-----------------------------------------------------------------------------
(* The invariant.                                                          *)

Pcs == {"idle", "bounding", "copying", "working", "merged", "writing"}

Shapes ==
    /\ disk \in Seq(Events) /\ cache \in Seq(Events) /\ staged \in Seq(Events)
    /\ tail \in {"clean", "bare", "torn"}
    /\ tail = "bare" => disk # <<>>
    /\ cursor \in Positions /\ expected \in Positions /\ bound \in Positions
    /\ newCursor \in Positions
    /\ backend \in Backends
    /\ pc \in Pcs
    /\ reads \in Seq([cursorIn : Positions, newCursor : Positions])
    /\ spent \in SUBSET Events /\ seen \in SUBSET Events /\ compiled \in SUBSET Events
    /\ cycles \in 0 .. MaxCycles /\ crashes \in 0 .. MaxCrashes

Flags ==
    /\ up \in BOOLEAN /\ misnumbered \in BOOLEAN
    /\ ~up => pc = "idle"

\* Logs hold written events, once.
Logs ==
    /\ Distinct(disk) /\ Distinct(cache) /\ Distinct(staged)
    /\ ToSet(disk) \subseteq spent /\ ToSet(cache) \subseteq spent

\* The cursor of the file, and the one the cycle started from.
Cursors ==
    ~misnumbered =>
        /\ Covered(disk, 0, cursor, compiled)
        /\ pc # "idle" => Covered(disk, 0, expected, compiled)

\* The copy of an ACP turn reaches up to its bound, and so does what was read.
Copies ==
    /\ pc \in {"bounding", "copying"} => reads = <<>> /\ seen = {}
    /\ ~misnumbered /\ backend = "acp" =>
           /\ pc \in {"copying", "working", "merged"} => bound <= Len(disk)
           /\ pc = "working" => Extends(staged, disk) /\ bound <= Len(staged)
           /\ pc \in {"working", "merged"} =>
                  \A e \in seen : \E i \in 1 .. bound : disk[i] = e

\* What was offered by a read: the events it skipped the cursor over.
Receipts ==
    pc = "working" => \A k \in DOMAIN reads :
        /\ ~misnumbered /\ backend = "acp" =>
               Covered(disk, reads[k].cursorIn, reads[k].newCursor, seen)
        /\ backend = "acp" => reads[k].newCursor <= bound
        /\ backend = "llm" => Covered(cache, reads[k].cursorIn, reads[k].newCursor, seen)

\* What the new cursor passes over is in the wiki.
Results ==
    /\ pc = "writing" => newCursor > expected
    /\ pc \in {"merged", "writing"} /\ newCursor > expected =>
           /\ ~misnumbered /\ backend = "acp" => Covered(disk, expected, newCursor, compiled)
           /\ backend = "llm" => Covered(cache, expected, newCursor, compiled)

IInv == Shapes /\ Flags /\ Logs /\ Cursors /\ Copies /\ Receipts /\ Results

-----------------------------------------------------------------------------
LEMMA PositionsAreNatural == 0 \in Positions /\ Positions \subseteq Nat
BY EventsAssumption, FS_CardinalityType DEF Positions

LEMMA ReadsAreReceipts ==
    ASSUME Shapes
    PROVE  \A k \in DOMAIN reads :
               /\ reads[k].cursorIn \in Positions /\ reads[k].newCursor \in Positions
               /\ reads[k].cursorIn \in Nat /\ reads[k].newCursor \in Nat
<1> TAKE k \in DOMAIN reads
<1>1. reads[k] \in [cursorIn : Positions, newCursor : Positions]
  <2>1. reads \in Seq([cursorIn : Positions, newCursor : Positions])
    BY DEF Shapes
  <2>2. k \in 1 .. Len(reads)
    BY <2>1
  <2> QED
    BY <2>1, <2>2, ElementOfSeq
<1> QED
  BY <1>1, PositionsAreNatural

LEMMA BackendNames == \A b \in Backends : b = "acp" \/ b = "llm"
BY BackendsAssumption

LEMMA InitIInv == Init => IInv
<1> SUFFICES ASSUME Init PROVE IInv
  OBVIOUS
<1>1. /\ disk = <<>> /\ cache = <<>> /\ staged = <<>> /\ reads = <<>> /\ spent = {}
      /\ cursor = 0 /\ pc = "idle" /\ newCursor = 0 /\ expected = 0
  BY DEF Init
<1>2. Shapes
  <2>1. 0 \in 0 .. MaxCycles /\ 0 \in 0 .. MaxCrashes
    BY LimitsAssumption
  <2> QED
    BY <2>1, PositionsAreNatural DEF Init, Shapes, Pcs
<1>3. Flags
  BY DEF Init, Flags
<1>4. Logs
  BY <1>1 DEF Logs, Distinct, ToSet
<1>5. Cursors
  BY <1>1 DEF Cursors, Covered
<1>6. Copies /\ Receipts /\ Results
  BY <1>1 DEF Copies, Receipts, Results
<1> QED
  BY <1>2, <1>3, <1>4, <1>5, <1>6 DEF IInv

\* A write leaves the log as it was, or with the event at its end; when it takes
\* an event away, the log is misnumbered from then on.
LEMMA WrittenLog ==
    ASSUME IInv, NEW e \in Events, NEW part \in Parts, Write(e, part)
    PROVE  /\ disk' \in Seq(Events) /\ Distinct(disk') /\ ToSet(disk') \subseteq spent'
           /\ spent' \in SUBSET Events /\ spent \subseteq spent' /\ e \in spent'
           /\ e \notin spent
           /\ tail' \in {"clean", "bare", "torn"} /\ (tail' = "bare" => disk' # <<>>)
           /\ ~misnumbered' => ~misnumbered /\ Extends(disk, disk')
           /\ misnumbered' \in BOOLEAN
<1>1. /\ disk \in Seq(Events) /\ Distinct(disk) /\ ToSet(disk) \subseteq spent
      /\ spent \in SUBSET Events /\ tail \in {"clean", "bare", "torn"}
      /\ tail = "bare" => disk # <<>>
  BY DEF IInv, Shapes, Logs
<1>2. /\ e \notin spent /\ spent' = spent \cup {e} /\ disk' = Loaded(e, part)
      /\ tail' = TailAfter(part)
      /\ misnumbered' = (misnumbered \/ (tail = "bare" /\ part # "none"))
  BY DEF Write
<1>3. part \in {"whole", "bare", "torn", "none"}
  BY DEF Parts
<1>4. e \notin ToSet(disk)
  BY <1>1, <1>2
<1>5. /\ Append(disk, e) \in Seq(Events) /\ Append(disk, e) # <<>>
      /\ Extends(disk, Append(disk, e)) /\ ToSet(Append(disk, e)) = ToSet(disk) \cup {e}
      /\ Distinct(Append(disk, e))
  BY <1>1, <1>4, AppendedSequence
<1>6. Extends(disk, disk)
  BY <1>1 DEF Extends
<1>7. CASE part = "none" \/ (part = "torn" /\ tail # "bare")
           \/ (part \in {"whole", "bare"} /\ tail = "torn")
  <2>1. disk' = disk
    BY <1>2, <1>3, <1>7 DEF Loaded
  <2>2. tail' \in {"clean", "bare", "torn"} /\ (tail' = "bare" => tail = "bare")
    BY <1>1, <1>2, <1>3, <1>7 DEF TailAfter
  <2> QED
    BY <1>1, <1>2, <1>6, <2>1, <2>2
<1>8. CASE part # "none" /\ tail = "bare"
  <2>1. disk' = Front(disk)
    BY <1>2, <1>3, <1>8 DEF Loaded
  <2>2. tail' \in {"clean", "torn"}
    BY <1>2, <1>3, <1>8 DEF TailAfter
  <2>3. misnumbered'
    BY <1>2, <1>8
  <2>4. disk' \in Seq(Events) /\ ToSet(disk') \subseteq ToSet(disk) /\ Distinct(disk')
    BY <1>1, <1>8, <2>1, FrontSequence
  <2> QED
    BY <1>1, <1>2, <2>2, <2>3, <2>4
<1>9. CASE part \in {"whole", "bare"} /\ tail = "clean"
  <2>1. disk' = Append(disk, e)
    BY <1>2, <1>9 DEF Loaded
  <2>2. tail' \in {"clean", "bare", "torn"}
    BY <1>2, <1>9 DEF TailAfter
  <2> QED
    BY <1>1, <1>2, <1>5, <2>1, <2>2
<1> QED
  BY <1>1, <1>3, <1>7, <1>8, <1>9

LEMMA LogExtendsItself == ASSUME NEW s \in Seq(Events) PROVE Extends(s, s)
BY DEF Extends

LEMMA ArrivalIInv ==
    ASSUME IInv, NEW e \in Events, NEW part \in Parts, Write(e, part),
           UNCHANGED <<cursor, up, backend, pc, turn, cycles, crashes, compiled>>,
           cache' = cache \/ cache' = Append(cache, e)
    PROVE  IInv'
<1>1. /\ disk' \in Seq(Events) /\ Distinct(disk') /\ ToSet(disk') \subseteq spent'
      /\ spent' \in SUBSET Events /\ spent \subseteq spent' /\ e \in spent'
      /\ e \notin spent
      /\ tail' \in {"clean", "bare", "torn"} /\ (tail' = "bare" => disk' # <<>>)
      /\ ~misnumbered' => ~misnumbered /\ Extends(disk, disk')
      /\ misnumbered' \in BOOLEAN
  BY WrittenLog
<1>2. /\ cursor' = cursor /\ up' = up /\ backend' = backend /\ pc' = pc /\ expected' = expected
      /\ bound' = bound /\ staged' = staged /\ reads' = reads /\ seen' = seen
      /\ newCursor' = newCursor /\ cycles' = cycles /\ crashes' = crashes
      /\ compiled' = compiled
  BY DEF turn
<1>3. /\ cache' \in Seq(Events) /\ Extends(cache, cache') /\ Distinct(cache')
      /\ ToSet(cache') \subseteq spent'
  <2>1. /\ cache \in Seq(Events) /\ Distinct(cache) /\ ToSet(cache) \subseteq spent
        /\ e \notin ToSet(cache)
    BY <1>1 DEF IInv, Shapes, Logs
  <2>2. CASE cache' = cache
    BY <1>1, <2>1, <2>2, LogExtendsItself
  <2>3. CASE cache' = Append(cache, e)
    BY <1>1, <2>1, <2>3, AppendedSequence
  <2> QED
    BY <2>2, <2>3
<1>4. /\ disk \in Seq(Events) /\ cache \in Seq(Events) /\ cursor \in Nat /\ expected \in Nat
      /\ newCursor \in Nat /\ 0 \in Nat /\ bound \in Nat /\ staged \in Seq(Events)
  BY PositionsAreNatural DEF IInv, Shapes
<1>5. \A k \in DOMAIN reads : reads[k].cursorIn \in Nat /\ reads[k].newCursor \in Nat
  BY ReadsAreReceipts DEF IInv
<1>6. Shapes'
  BY <1>1, <1>2, <1>3 DEF IInv, Shapes
<1>7. Flags'
  BY <1>1, <1>2 DEF IInv, Flags
<1>8. Logs'
  BY <1>1, <1>2, <1>3 DEF IInv, Logs
<1>9. ASSUME NEW m \in Nat, NEW n \in Nat, NEW S
      PROVE  /\ ~misnumbered' /\ Covered(disk, m, n, S) => Covered(disk', m, n, S)
             /\ Covered(cache, m, n, S) => Covered(cache', m, n, S)
  BY <1>1, <1>3, <1>4, CoverageIsKept
<1>10. Cursors'
  BY <1>1, <1>2, <1>4, <1>9 DEF IInv, Cursors
<1>11. Copies'
  <2> SUFFICES ASSUME ~misnumbered', backend = "acp"
               PROVE  /\ pc \in {"copying", "working", "merged"} => bound <= Len(disk')
                      /\ pc = "working" => Extends(staged, disk') /\ bound <= Len(staged)
                      /\ pc \in {"working", "merged"} =>
                            \A x \in seen : \E i \in 1 .. bound : disk'[i] = x
    BY <1>2 DEF IInv, Copies
  <2>1. /\ ~misnumbered /\ Len(disk) <= Len(disk') /\ Len(disk) \in Nat /\ Len(disk') \in Nat
        /\ \A i \in 1 .. Len(disk) : disk'[i] = disk[i]
    BY <1>1, <1>4 DEF Extends
  <2>2. pc \in {"copying", "working", "merged"} => bound <= Len(disk)
    BY <2>1 DEF IInv, Copies
  <2>3. pc = "working" => Extends(staged, disk') /\ bound <= Len(staged)
    <3> SUFFICES ASSUME pc = "working" PROVE Extends(staged, disk') /\ bound <= Len(staged)
      OBVIOUS
    <3>1. Extends(staged, disk) /\ bound <= Len(staged)
      BY <2>1 DEF IInv, Copies
    <3>2. Len(staged) \in Nat
      BY <1>4
    <3> QED
      BY <2>1, <3>1, <3>2 DEF Extends
  <2>4. ASSUME pc \in {"working", "merged"}, NEW x \in seen
        PROVE  \E i \in 1 .. bound : disk'[i] = x
    <3>1. PICK i \in 1 .. bound : disk[i] = x
      BY <2>1, <2>4 DEF IInv, Copies
    <3>2. i \in 1 .. Len(disk)
      BY <1>4, <2>1, <2>2, <2>4
    <3> QED
      BY <2>1, <3>1, <3>2
  <2> QED
    BY <1>4, <2>1, <2>2, <2>3, <2>4
<1>12. Receipts'
  BY <1>1, <1>2, <1>5, <1>9 DEF IInv, Receipts
<1>13. Results'
  BY <1>1, <1>2, <1>4, <1>9 DEF IInv, Results
<1> QED
  BY <1>6, <1>7, <1>8, <1>10, <1>11, <1>12, <1>13 DEF IInv

LEMMA BeginCycleIInv == ASSUME IInv, BeginCycle PROVE IInv'
<1>1. /\ pc = "idle" /\ up /\ cycles' = cycles + 1 /\ cycles < MaxCycles
      /\ expected' = cursor /\ newCursor' = cursor
      /\ reads' = <<>> /\ seen' = {} /\ bound' = 0 /\ staged' = <<>>
      /\ pc' = IF backend = "acp" THEN "bounding" ELSE "working"
      /\ UNCHANGED <<disk, tail, spent, cursor, up, backend, cache, crashes, compiled, misnumbered>>
  BY DEF BeginCycle, rawLog, server
<1>2. pc' \in {"bounding", "working"} /\ (backend = "acp" => pc' = "bounding")
  BY <1>1
<1>3. Shapes'
  <2>1. cycles' \in 0 .. MaxCycles
    BY <1>1, LimitsAssumption DEF IInv, Shapes
  <2> QED
    BY <1>1, <1>2, <2>1, PositionsAreNatural DEF IInv, Shapes, Pcs
<1>4. Flags'
  BY <1>1 DEF IInv, Flags
<1>5. Logs'
  BY <1>1 DEF IInv, Logs, Distinct
<1>6. Cursors'
  BY <1>1 DEF IInv, Cursors
<1>7. Copies'
  BY <1>1, <1>2 DEF Copies
<1>8. Receipts' /\ Results'
  <2>1. DOMAIN reads' = {}
    BY <1>1
  <2> QED
    BY <1>2, <2>1 DEF Receipts, Results
<1> QED
  BY <1>3, <1>4, <1>5, <1>6, <1>7, <1>8 DEF IInv

LEMMA BoundIInv == ASSUME IInv, CaptureBound PROVE IInv'
<1>1. /\ pc = "bounding" /\ bound' = Len(disk) /\ pc' = "copying"
      /\ UNCHANGED <<disk, tail, spent, cursor, up, backend, cache, expected, staged, reads,
                     seen, newCursor, cycles, crashes, compiled, misnumbered>>
  BY DEF CaptureBound, rawLog, server
<1>2. Len(disk) \in Positions
  BY LengthIsPosition DEF IInv, Shapes, Logs
<1>3. Shapes'
  BY <1>1, <1>2 DEF IInv, Shapes, Pcs
<1>4. Flags' /\ Logs' /\ Cursors'
  BY <1>1 DEF IInv, Flags, Logs, Cursors
<1>5. Copies'
  <2>1. bound' <= Len(disk') /\ reads' = <<>> /\ seen' = {}
    BY <1>1, <1>2, PositionsAreNatural DEF IInv, Copies
  <2> QED
    BY <1>1, <2>1 DEF Copies
<1>6. Receipts' /\ Results'
  BY <1>1 DEF Receipts, Results
<1> QED
  BY <1>3, <1>4, <1>5, <1>6 DEF IInv

LEMMA CopyIInv == ASSUME IInv, CopyLog PROVE IInv'
<1>1. /\ pc = "copying" /\ staged' = disk /\ pc' = "working"
      /\ UNCHANGED <<disk, tail, spent, cursor, up, backend, cache, expected, bound, reads,
                     seen, newCursor, cycles, crashes, compiled, misnumbered>>
  BY DEF CopyLog, rawLog, server
<1>2. disk \in Seq(Events) /\ reads = <<>> /\ seen = {}
  BY <1>1 DEF IInv, Shapes, Copies
<1>3. Shapes' /\ Flags' /\ Logs' /\ Cursors'
  BY <1>1 DEF IInv, Shapes, Pcs, Flags, Logs, Cursors
<1>4. Copies'
  <2>1. Extends(disk, disk)
    BY <1>2, LogExtendsItself
  <2> QED
    BY <1>1, <1>2, <2>1 DEF IInv, Copies
<1>5. Receipts' /\ Results'
  BY <1>1, <1>2 DEF Receipts, Results
<1> QED
  BY <1>3, <1>4, <1>5 DEF IInv

\* A page of events reaches from the agent's cursor to the end of what is visible.
LEMMA PageIsCovered ==
    ASSUME NEW v \in Seq(Events), NEW k \in Nat, NEW S
    PROVE  Covered(v, k, Len(v), S \cup {v[i] : i \in {j \in DOMAIN v : j > k}})
<1>1. Len(v) \in Nat /\ DOMAIN v = 1 .. Len(v)
  OBVIOUS
<1> QED
  BY <1>1 DEF Covered

\* What an ACP turn sees is the log as far as the bound.
LEMMA VisibleCopy ==
    ASSUME IInv, pc = "working", backend = "acp"
    PROVE  /\ Visible \in Seq(Events) /\ Len(Visible) <= bound
           /\ ~misnumbered => Extends(Visible, disk)
<1>1. staged \in Seq(Events) /\ bound \in Nat /\ disk \in Seq(Events)
  BY PositionsAreNatural DEF IInv, Shapes
<1>2. PICK n \in Nat : n = Len(staged)
  BY <1>1
<1>3. Min({bound, n}) = IF bound <= n THEN bound ELSE n
  BY <1>1 DEF Min
<1>4. PICK m \in Nat : m = Min({bound, n}) /\ m <= bound /\ m <= n
  BY <1>1, <1>3
<1>5. PICK v : v = SubSeq(staged, 1, m)
  OBVIOUS
<1>6. v \in Seq(Events) /\ Len(v) = m /\ \A i \in 1 .. m : v[i] = staged[i]
  <2>1. m \in 0 .. Len(staged)
    BY <1>2, <1>4
  <2> QED
    BY <1>1, <1>5, <2>1, PrefixOfSequence
<1>7. Visible = v
  BY <1>2, <1>4, <1>5 DEF Visible
<1>8. ~misnumbered => Extends(v, disk)
  <2> SUFFICES ASSUME ~misnumbered PROVE Extends(v, disk)
    OBVIOUS
  <2>1. Extends(staged, disk)
    BY DEF IInv, Copies
  <2>2. Len(disk) \in Nat
    BY <1>1
  <2>3. ASSUME NEW i \in 1 .. m PROVE v[i] = disk[i]
    <3>1. i \in 1 .. Len(staged)
      BY <1>2, <1>4
    <3> QED
      BY <1>6, <2>1, <3>1 DEF Extends
  <2> QED
    <3>1. m <= Len(disk)
      BY <1>2, <1>4, <2>1, <2>2 DEF Extends
    <3> QED
      BY <1>6, <2>3, <3>1 DEF Extends
<1> QED
  BY <1>4, <1>6, <1>7, <1>8

LEMMA ReadIInv == ASSUME IInv, NEW k \in Positions, ReadEvents(k) PROVE IInv'
<1>1. /\ pc = "working"
      /\ seen' = seen \cup {Visible[i] : i \in {j \in DOMAIN Visible : j > k}}
      /\ reads' = Append(reads, [cursorIn |-> k, newCursor |-> Len(Visible)])
      /\ UNCHANGED <<disk, tail, spent, cursor, up, backend, cache, pc, expected, bound, staged,
                     newCursor, cycles, crashes, compiled, misnumbered>>
  BY DEF ReadEvents, rawLog, server
<1>2. /\ disk \in Seq(Events) /\ cache \in Seq(Events) /\ bound \in Nat /\ k \in Nat
      /\ bound \in Positions /\ seen \in SUBSET Events
  BY PositionsAreNatural DEF IInv, Shapes
<1>3. PICK v : v = Visible
  OBVIOUS
<1>4. /\ v \in Seq(Events) /\ Len(v) \in Positions
      /\ backend = "acp" => Len(v) <= bound /\ (~misnumbered => Extends(v, disk))
      /\ backend = "llm" => v = cache
  <2>1. CASE backend = "acp"
    <3>1. v \in Seq(Events) /\ Len(v) <= bound /\ (~misnumbered => Extends(v, disk))
      BY <1>1, <1>3, <2>1, VisibleCopy
    <3>2. Len(v) \in Positions
      BY <1>2, <3>1, PositionsAreNatural, EventsAssumption, FS_CardinalityType DEF Positions
    <3> QED
      BY <2>1, <3>1, <3>2
  <2>2. CASE backend # "acp"
    <3>1. v = cache
      BY <1>3, <2>2 DEF Visible
    <3>2. Len(cache) \in Positions
      BY <1>2, LengthIsPosition DEF IInv, Logs
    <3> QED
      BY <1>2, <2>2, <3>1, <3>2
  <2> QED
    BY <2>1, <2>2
<1>5. PICK r : r = [cursorIn |-> k, newCursor |-> Len(v)]
  OBVIOUS
<1>6. /\ r \in [cursorIn : Positions, newCursor : Positions]
      /\ r.cursorIn = k /\ r.newCursor = Len(v)
  BY <1>4, <1>5
<1>7. PICK page : page = {v[i] : i \in {j \in DOMAIN v : j > k}}
  OBVIOUS
<1>8. page \in SUBSET Events /\ seen' = seen \cup page /\ Covered(v, k, Len(v), seen')
  <2>1. page \in SUBSET Events
    BY <1>4, <1>7
  <2>2. seen' = seen \cup page
    BY <1>1, <1>3, <1>7
  <2>3. Covered(v, k, Len(v), seen \cup page)
    BY <1>2, <1>4, <1>7, PageIsCovered
  <2> QED
    BY <2>1, <2>2, <2>3
<1>9. /\ reads' \in Seq([cursorIn : Positions, newCursor : Positions])
      /\ DOMAIN reads' = DOMAIN reads \cup {Len(reads) + 1}
      /\ reads'[Len(reads) + 1] = r
      /\ \A i \in DOMAIN reads : reads'[i] = reads[i]
  <2>1. reads' = Append(reads, r)
    BY <1>1, <1>3, <1>5
  <2>2. reads \in Seq([cursorIn : Positions, newCursor : Positions])
    BY DEF IInv, Shapes
  <2> QED
    BY <1>6, <2>1, <2>2
<1>10. Shapes'
  BY <1>1, <1>2, <1>8, <1>9 DEF IInv, Shapes
<1>11. Flags' /\ Logs' /\ Cursors' /\ Results'
  BY <1>1 DEF IInv, Flags, Logs, Cursors, Results
<1>12. Copies'
  <2> SUFFICES ASSUME ~misnumbered, backend = "acp", NEW x \in page
               PROVE  \E i \in 1 .. bound : disk[i] = x
    BY <1>1, <1>8 DEF IInv, Copies
  <2>1. PICK i \in DOMAIN v : x = v[i]
    BY <1>7
  <2>2. i \in 1 .. Len(v) /\ Len(v) \in Nat /\ Len(v) <= bound /\ Extends(v, disk)
    BY <1>4, <2>1
  <2> QED
    BY <1>2, <2>1, <2>2 DEF Extends
<1>13. Receipts'
  <2>1. ASSUME NEW i \in DOMAIN reads'
        PROVE  /\ ~misnumbered /\ backend = "acp" =>
                      Covered(disk, reads'[i].cursorIn, reads'[i].newCursor, seen')
               /\ backend = "acp" => reads'[i].newCursor <= bound
               /\ backend = "llm" =>
                      Covered(cache, reads'[i].cursorIn, reads'[i].newCursor, seen')
    <3>1. CASE i \in DOMAIN reads
      <4>1. reads[i].cursorIn \in Nat /\ reads[i].newCursor \in Nat /\ reads'[i] = reads[i]
        BY <1>9, <3>1, ReadsAreReceipts DEF IInv
      <4>2. Extends(disk, disk) /\ Extends(cache, cache) /\ seen \subseteq seen'
        BY <1>2, <1>8, LogExtendsItself
      <4>3. /\ ~misnumbered /\ backend = "acp" =>
                   Covered(disk, reads[i].cursorIn, reads[i].newCursor, seen)
            /\ backend = "acp" => reads[i].newCursor <= bound
            /\ backend = "llm" => Covered(cache, reads[i].cursorIn, reads[i].newCursor, seen)
        BY <1>1, <3>1 DEF IInv, Receipts
      <4> QED
        BY <1>2, <4>1, <4>2, <4>3, CoverageIsKept
    <3>2. CASE i = Len(reads) + 1
      <4>1. reads'[i].cursorIn = k /\ reads'[i].newCursor = Len(v)
        BY <1>6, <1>9, <3>2
      <4>2. Len(v) \in Nat
        BY <1>4
      <4>3. ~misnumbered /\ backend = "acp" => Covered(disk, k, Len(v), seen')
        BY <1>2, <1>4, <1>8, <4>2, CoverageIsKept
      <4> QED
        BY <1>4, <1>8, <4>1, <4>3
    <3> QED
      BY <1>9, <2>1, <3>1, <3>2
  <2> QED
    BY <1>1, <2>1 DEF Receipts
<1> QED
  BY <1>10, <1>11, <1>12, <1>13 DEF IInv

\* A turn's edits are in the wiki, and the new cursor is that of a read from the
\* cursor of the cycle, or makes no progress.
LEMMA ResultIInv ==
    ASSUME IInv, pc = "working", pc' = "merged", compiled' = compiled \cup seen,
           NEW count \in Positions, newCursor' \in Positions,
           newCursor' > expected =>
               \E k \in DOMAIN reads : /\ reads[k].cursorIn = expected
                                       /\ reads[k].newCursor = newCursor',
           UNCHANGED <<rawLog, cursor, server, expected, bound, staged, reads, seen,
                       cycles, crashes, misnumbered>>
    PROVE  IInv'
<1>1. UNCHANGED <<disk, tail, spent, cursor, up, backend, cache, expected, bound, staged,
                  reads, seen, cycles, crashes, misnumbered>>
  BY DEF rawLog, server
<1>2. /\ disk \in Seq(Events) /\ cache \in Seq(Events) /\ cursor \in Nat /\ expected \in Nat
      /\ newCursor' \in Nat /\ seen \in SUBSET Events /\ compiled \in SUBSET Events /\ 0 \in Nat
  BY PositionsAreNatural DEF IInv, Shapes
<1>3. Extends(disk, disk) /\ Extends(cache, cache)
  BY <1>2, LogExtendsItself
<1>4. Shapes'
  BY <1>1, <1>2 DEF IInv, Shapes, Pcs
<1>5. Flags' /\ Logs'
  BY <1>1 DEF IInv, Flags, Logs
<1>6. Cursors'
  BY <1>1, <1>2, <1>3, CoverageIsKept DEF IInv, Cursors
<1>7. Copies' /\ Receipts'
  BY <1>1 DEF IInv, Copies, Receipts
<1>8. Results'
  <2> SUFFICES ASSUME newCursor' > expected
               PROVE  /\ ~misnumbered /\ backend = "acp" =>
                             Covered(disk, expected, newCursor', compiled')
                      /\ backend = "llm" => Covered(cache, expected, newCursor', compiled')
    BY <1>1 DEF Results
  <2>1. PICK k \in DOMAIN reads : reads[k].cursorIn = expected /\ reads[k].newCursor = newCursor'
    OBVIOUS
  <2>2. /\ ~misnumbered /\ backend = "acp" => Covered(disk, expected, newCursor', seen)
        /\ backend = "llm" => Covered(cache, expected, newCursor', seen)
    BY <2>1 DEF IInv, Receipts
  <2> QED
    BY <1>2, <1>3, <2>2, CoverageIsKept
<1> QED
  BY <1>4, <1>5, <1>6, <1>7, <1>8 DEF IInv

LEMMA MergeIInv == ASSUME IInv, MergeTurn PROVE IInv'
<1>1. /\ pc = "working" /\ backend = "acp" /\ ReceiptValid
      /\ newCursor' = Clamped(reads[1].newCursor, bound)
      /\ compiled' = compiled \cup seen /\ pc' = "merged"
      /\ UNCHANGED <<rawLog, cursor, server, expected, bound, staged, reads, seen,
                     cycles, crashes, misnumbered>>
  BY DEF MergeTurn
<1>2. 1 \in DOMAIN reads /\ reads[1].cursorIn = expected
  BY <1>1 DEF ReceiptValid, IInv, Shapes
<1>3. /\ reads[1].newCursor \in Positions /\ reads[1].newCursor \in Nat
      /\ bound \in Positions /\ bound \in Nat /\ expected \in Positions /\ expected \in Nat
  BY <1>2, ReadsAreReceipts, PositionsAreNatural DEF IInv, Shapes
<1>4. newCursor' \in Positions
  BY <1>1, <1>3, ClampedValue
<1>5. newCursor' > expected => newCursor' = reads[1].newCursor
  <2>1. reads[1].newCursor <= bound
    BY <1>1, <1>2 DEF IInv, Receipts
  <2> QED
    BY <1>1, <1>3, <2>1, ClampedValue
<1> QED
  BY <1>1, <1>2, <1>3, <1>4, <1>5, ResultIInv

LEMMA FinishIInv == ASSUME IInv, FinishAgent PROVE IInv'
<1>1. /\ pc = "working" /\ backend = "llm"
      /\ newCursor' = IF Matches = {}
                      THEN expected
                      ELSE Clamped(reads[Min(Matches)].newCursor, Len(cache))
      /\ compiled' = compiled \cup seen /\ pc' = "merged"
      /\ UNCHANGED <<rawLog, cursor, server, expected, bound, staged, reads, seen,
                     cycles, crashes, misnumbered>>
  BY DEF FinishAgent
<1>2. expected \in Positions /\ expected \in Nat /\ 0 \in Positions
  BY PositionsAreNatural DEF IInv, Shapes
<1>3. CASE Matches = {}
  <2>1. newCursor' = expected
    BY <1>1, <1>3
  <2>2. ~(newCursor' > expected)
    BY <1>2, <2>1
  <2> QED
    BY <1>1, <1>2, <2>1, <2>2, ResultIInv
<1>4. CASE Matches # {}
  <2>1. Matches \in SUBSET Nat
    BY DEF Matches, IInv, Shapes
  <2>2. PICK k : k = Min(Matches)
    OBVIOUS
  <2>3. k \in DOMAIN reads /\ reads[k].cursorIn = expected
    <3>1. k \in Matches
      BY <1>4, <2>1, <2>2, Smallest
    <3> QED
      BY <3>1 DEF Matches
  <2>4. reads[k].newCursor \in Positions /\ reads[k].newCursor \in Nat
    BY <2>3, ReadsAreReceipts DEF IInv
  <2>5. Len(cache) \in Positions /\ Len(cache) \in Nat
    BY LengthIsPosition DEF IInv, Shapes, Logs
  <2>6. reads[k].newCursor <= Len(cache)
    BY <1>1, <2>3 DEF IInv, Receipts, Covered
  <2>7. newCursor' = Clamped(reads[k].newCursor, Len(cache))
    BY <1>1, <1>4, <2>2
  <2>8. newCursor' \in Positions
    BY <1>2, <2>4, <2>5, <2>7, ClampedValue
  <2>9. newCursor' > expected => newCursor' = reads[k].newCursor
    BY <1>2, <2>4, <2>5, <2>6, <2>7, ClampedValue
  <2> QED
    BY <1>1, <1>2, <2>3, <2>8, <2>9, ResultIInv
<1> QED
  BY <1>3, <1>4

\* A cycle that ends without moving the cursor.
LEMMA EndIInv ==
    ASSUME IInv, pc' = "idle",
           UNCHANGED <<rawLog, cursor, server, turn, cycles, crashes, compiled, misnumbered>>
    PROVE  IInv'
<1>1. UNCHANGED <<disk, tail, spent, cursor, up, backend, cache, expected, bound, staged,
                  reads, seen, newCursor, cycles, crashes, compiled, misnumbered>>
  BY DEF rawLog, server, turn
<1>2. Shapes' /\ Flags' /\ Logs' /\ Cursors'
  BY <1>1 DEF IInv, Shapes, Pcs, Flags, Logs, Cursors
<1>3. Copies' /\ Receipts' /\ Results'
  BY DEF Copies, Receipts, Results
<1> QED
  BY <1>2, <1>3 DEF IInv

LEMMA StartWriteIInv == ASSUME IInv, StartCursorWrite PROVE IInv'
<1>1. /\ pc = "merged" /\ newCursor > expected /\ cursor' = 0 /\ pc' = "writing"
      /\ UNCHANGED <<disk, tail, spent, up, backend, cache, expected, bound, staged, reads,
                     seen, newCursor, cycles, crashes, compiled, misnumbered>>
  BY DEF StartCursorWrite, Progress, rawLog, server, turn
<1>2. Shapes'
  BY <1>1, PositionsAreNatural DEF IInv, Shapes, Pcs
<1>3. Flags' /\ Logs'
  BY <1>1 DEF IInv, Flags, Logs
<1>4. Cursors'
  <2>1. Covered(disk, 0, 0, compiled)
    BY DEF Covered, IInv, Shapes
  <2> QED
    BY <1>1, <2>1 DEF IInv, Cursors
<1>5. Copies' /\ Receipts' /\ Results'
  BY <1>1 DEF IInv, Copies, Receipts, Results
<1> QED
  BY <1>2, <1>3, <1>4, <1>5 DEF IInv

\* The cursor that is written passes over nothing that is not in the wiki: in the
\* LLM backend's case because its count agrees with the log, or else the log is
\* misnumbered.
LEMMA WriteIInv == ASSUME IInv, WriteCursor PROVE IInv'
<1>1. /\ pc = "writing" /\ cursor' = newCursor /\ pc' = "idle"
      /\ misnumbered' = (misnumbered \/ CountedElsewhere)
      /\ UNCHANGED <<disk, tail, spent, up, backend, cache, expected, bound, staged, reads,
                     seen, newCursor, cycles, crashes, compiled>>
  BY DEF WriteCursor, rawLog, server, turn
<1>2. Shapes' /\ Logs'
  BY <1>1 DEF IInv, Shapes, Pcs, Logs
<1>3. Flags'
  BY <1>1 DEF IInv, Flags
<1>4. Cursors'
  <2> SUFFICES ASSUME ~misnumbered, ~CountedElsewhere
               PROVE  Covered(disk, 0, newCursor, compiled)
    BY <1>1 DEF Cursors
  <2>1. /\ disk \in Seq(Events) /\ cache \in Seq(Events) /\ expected \in Nat
        /\ newCursor \in Nat /\ newCursor > expected
    BY <1>1, PositionsAreNatural DEF IInv, Shapes, Results
  <2>2. Covered(disk, 0, expected, compiled)
    BY <1>1 DEF IInv, Cursors
  <2>3. Covered(disk, expected, newCursor, compiled)
    <3>1. CASE backend = "acp"
      BY <1>1, <2>1, <3>1 DEF IInv, Results
    <3>2. CASE backend = "llm"
      <4>1. Covered(cache, expected, newCursor, compiled)
        BY <1>1, <2>1, <3>2 DEF IInv, Results
      <4>2. PICK p : p = SubSeq(cache, 1, newCursor)
        OBVIOUS
      <4>3. newCursor \in 0 .. Len(cache)
        BY <2>1, <4>1 DEF Covered
      <4>4. /\ p \in Seq(Events) /\ Len(p) = newCursor
            /\ \A i \in 1 .. newCursor : p[i] = cache[i]
        BY <2>1, <4>2, <4>3, PrefixOfSequence
      <4>5. newCursor <= Len(disk) /\ SubSeq(p, 1, newCursor) = SubSeq(disk, 1, newCursor)
        BY <3>2, <4>2, <4>4 DEF CountedElsewhere, IsPrefix
      <4>6. newCursor \in 0 .. Len(p) /\ newCursor \in 0 .. Len(disk)
        BY <2>1, <4>4, <4>5
      <4>7. \A i \in 1 .. newCursor : SubSeq(p, 1, newCursor)[i] = p[i]
        BY <4>4, <4>6, PrefixOfSequence
      <4>8. \A i \in 1 .. newCursor : SubSeq(disk, 1, newCursor)[i] = disk[i]
        BY <2>1, <4>6, PrefixOfSequence
      <4>9. \A i \in 1 .. newCursor : disk[i] = cache[i]
        BY <4>4, <4>5, <4>7, <4>8, Zenon
      <4> QED
        BY <4>1, <4>5, <4>9 DEF Covered
    <3> QED
      BY <3>1, <3>2, BackendNames DEF IInv, Shapes
  <2> QED
    BY <2>1, <2>2, <2>3, CoverageAdds
<1>5. Copies' /\ Receipts' /\ Results'
  BY <1>1 DEF Copies, Receipts, Results
<1> QED
  BY <1>2, <1>3, <1>4, <1>5 DEF IInv

LEMMA CrashIInv == ASSUME IInv, Crash PROVE IInv'
<1>1. /\ crashes < MaxCrashes /\ crashes' = crashes + 1 /\ ~up' /\ up' \in BOOLEAN
      /\ cache' = <<>> /\ pc' = "idle"
      /\ UNCHANGED <<disk, tail, spent, cursor, backend, expected, bound, staged, reads, seen,
                     newCursor, cycles, compiled, misnumbered>>
  BY DEF Crash, rawLog, turn
<1>2. Shapes'
  <2>1. crashes' \in 0 .. MaxCrashes
    BY <1>1, LimitsAssumption DEF IInv, Shapes
  <2> QED
    BY <1>1, <2>1 DEF IInv, Shapes, Pcs
<1>3. Flags'
  BY <1>1 DEF IInv, Flags
<1>4. Logs'
  BY <1>1 DEF IInv, Logs, Distinct, ToSet
<1>5. Cursors' /\ Copies' /\ Receipts' /\ Results'
  BY <1>1 DEF IInv, Cursors, Copies, Receipts, Results
<1> QED
  BY <1>2, <1>3, <1>4, <1>5 DEF IInv

LEMMA RestartIInv == ASSUME IInv, Restart PROVE IInv'
<1>1. /\ ~up /\ up' /\ up' \in BOOLEAN /\ cache' = disk /\ backend' \in Backends
      /\ UNCHANGED <<disk, tail, spent, cursor, pc, expected, bound, staged, reads, seen,
                     newCursor, cycles, crashes, compiled, misnumbered>>
  BY DEF Restart, rawLog, turn
<1>2. pc = "idle"
  BY <1>1 DEF IInv, Flags
<1>3. Shapes' /\ Logs' /\ Cursors'
  BY <1>1 DEF IInv, Shapes, Logs, Cursors
<1>4. Flags'
  BY <1>1 DEF IInv, Flags
<1>5. Copies' /\ Receipts' /\ Results'
  BY <1>1, <1>2 DEF Copies, Receipts, Results
<1> QED
  BY <1>3, <1>4, <1>5 DEF IInv

LEMMA NextIInv == IInv /\ [Next]_vars => IInv'
<1> SUFFICES ASSUME IInv, [Next]_vars PROVE IInv'
  OBVIOUS
<1>1. ASSUME NEW e \in Events, NEW part \in Parts, Remember(e, part) PROVE IInv'
  <2>1. /\ Write(e, part) /\ (cache' = cache \/ cache' = Append(cache, e))
        /\ UNCHANGED <<cursor, up, backend, pc, turn, cycles, crashes, compiled>>
    BY <1>1 DEF Remember
  <2> QED
    BY <2>1, ArrivalIInv
<1>2. ASSUME NEW e \in Events, NEW part \in Parts, WriteMemory(e, part) PROVE IInv'
  <2>1. /\ Write(e, part) /\ cache' = cache
        /\ UNCHANGED <<cursor, up, backend, pc, turn, cycles, crashes, compiled>>
    BY <1>2 DEF WriteMemory, server
  <2> QED
    BY <2>1, ArrivalIInv
<1>3. CASE BeginCycle \/ CaptureBound \/ CopyLog
  BY <1>3, BeginCycleIInv, BoundIInv, CopyIInv
<1>4. ASSUME NEW k \in Positions, ReadEvents(k) PROVE IInv'
  BY <1>4, ReadIInv
<1>5. CASE MergeTurn \/ FinishAgent
  BY <1>5, MergeIInv, FinishIInv
<1>6. CASE TurnFails \/ LeaveCursor \/ WriteCursorFails
  BY <1>6, EndIInv DEF TurnFails, LeaveCursor, WriteCursorFails
<1>7. CASE StartCursorWrite \/ WriteCursor
  BY <1>7, StartWriteIInv, WriteIInv
<1>8. CASE Crash \/ Restart
  BY <1>8, CrashIInv, RestartIInv
<1>9. CASE UNCHANGED vars
  <2>1. UNCHANGED <<disk, tail, spent, cursor, up, backend, cache, pc, expected, bound, staged,
                    reads, seen, newCursor, cycles, crashes, compiled, misnumbered>>
    BY <1>9 DEF vars, rawLog, server, turn
  <2>2. Shapes' /\ Flags' /\ Logs' /\ Cursors'
    BY <2>1 DEF IInv, Shapes, Flags, Logs, Cursors
  <2>3. Copies' /\ Receipts' /\ Results'
    BY <2>1 DEF IInv, Copies, Receipts, Results
  <2> QED
    BY <2>2, <2>3 DEF IInv
<1> QED
  BY <1>1, <1>2, <1>3, <1>4, <1>5, <1>6, <1>7, <1>8, <1>9 DEF Next

LEMMA AlwaysIInv == Spec => []IInv
BY InitIInv, NextIInv, PTL DEF Spec

-----------------------------------------------------------------------------
(* The theorems.                                                           *)

\* Every variable keeps its type, whatever the events and the failures; a cursor
\* never exceeds the number of events there may be.
THEOREM TypesHold == Spec => []TypeOK
<1>1. IInv => TypeOK
  <2> SUFFICES ASSUME IInv PROVE TypeOK
    OBVIOUS
  <2>1. {up, misnumbered} \subseteq BOOLEAN /\ (~up => pc = "idle")
    BY DEF IInv, Flags
  <2>2. /\ {disk, cache, staged} \subseteq Seq(Events)
        /\ {cursor, expected, bound, newCursor} \subseteq Positions
        /\ {spent, seen, compiled} \subseteq SUBSET Events
    BY DEF IInv, Shapes
  <2> QED
    BY <2>1, <2>2 DEF IInv, Shapes, Pcs, TypeOK
<1> QED
  BY AlwaysIInv, <1>1, PTL

\* No event below the cursor was left out of the wiki, and the cursor hides no
\* event still to come (backend_acp_compile.go 129-167, compile.go 117-164,
\* handler.go 441-468).
THEOREM NothingIsSkipped == Spec => []NoEventSkipped
<1>1. IInv => NoEventSkipped
  <2> SUFFICES ASSUME IInv, ~misnumbered, NEW i \in 1 .. cursor
               PROVE  i <= Len(disk) /\ disk[i] \in compiled
    BY DEF NoEventSkipped
  <2>1. Covered(disk, 0, cursor, compiled)
    BY DEF IInv, Cursors
  <2>2. cursor \in Nat /\ Len(disk) \in Nat
    BY PositionsAreNatural DEF IInv, Shapes
  <2> QED
    BY <2>1, <2>2 DEF Covered
<1> QED
  BY AlwaysIInv, <1>1, PTL

\* An ACP turn is offered nothing that came after its bound was taken
\* (mcp/compile.go 41-45).
THEOREM LateEventsAreInvisible == Spec => []LateEventsInvisible
<1>1. IInv => LateEventsInvisible
  <2> SUFFICES ASSUME IInv, ~misnumbered, backend = "acp", pc \in {"working", "merged"},
                      NEW e \in seen
               PROVE  e \in ToSet(SubSeq(disk, 1, bound))
    BY DEF LateEventsInvisible
  <2>1. disk \in Seq(Events) /\ bound \in Nat /\ bound <= Len(disk)
    BY PositionsAreNatural DEF IInv, Shapes, Copies
  <2>2. PICK i \in 1 .. bound : disk[i] = e
    BY DEF IInv, Copies
  <2>3. bound \in 0 .. Len(disk)
    BY <2>1
  <2>4. PICK p : p = SubSeq(disk, 1, bound)
    OBVIOUS
  <2>5. p \in Seq(Events) /\ Len(p) = bound /\ p[i] = disk[i]
    BY <2>1, <2>3, <2>4, PrefixOfSequence
  <2>6. i \in DOMAIN p
    BY <2>5
  <2> QED
    BY <2>2, <2>4, <2>5, <2>6 DEF ToSet
<1> QED
  BY AlwaysIInv, <1>1, PTL
=============================================================================
