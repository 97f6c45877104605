------------------------ MODULE PendingStore_proofs ------------------------
(***************************************************************************)
(* Proofs about PendingStore, for any set of events, any disk behaviour    *)
(* and any bound.  The invariants TypeOK, NoEventLost, CountsPartition and *)
(* VerdictIsDurable are not inductive one by one: NoEventLost across       *)
(* reconcilePending needs the partition, and the partition across it needs *)
(* to know that a snapshot of the raw log is never older than a verdict.   *)
(* NoSilentReingest and the refinement of EventLedger follow, from what a  *)
(* flush, an operator's request and the disk may assume of each other.     *)
(***************************************************************************)
EXTENDS PendingStore, FiniteSetTheorems, TLAPS

\* Only a recorded event has a status on disk.
DurableRecorded == \A e \in Events : durable[e] # None => e \in raw

\* An operator request is about a recorded event.
AdminRecorded == admin # NoAdmin => admin.event \in raw

\* Between ListEvents and the reconciliation, no verdict is given to an event
\* that the snapshot lacks.
ListingSeesVerdicts ==
    flush = "listing" =>
        /\ Terminal \subseteq listed
        /\ admin # NoAdmin => admin.event \in listed

\* A process that is not up serves nobody.
DownServesNobody == proc # "up" => flush = "idle" /\ admin = NoAdmin

Partition ==
    /\ CountsPartition
    /\ NoEventLost
    /\ DurableRecorded
    /\ AdminRecorded
    /\ ListingSeesVerdicts
    /\ DownServesNobody

IInv == TypeOK /\ Partition /\ VerdictIsDurable

-----------------------------------------------------------------------------
\* A snapshot of the raw log that no verdict has overtaken leaves, after the
\* reconciliation, every known event on exactly one side.
LEMMA ReconciliationKeepsPartition ==
    ASSUME NEW snapshot \in SUBSET Events,
           pending \in SUBSET Events,
           CountsPartition, Terminal \subseteq snapshot,
           Reconciled(snapshot)
    PROVE  /\ CountsPartition'
           /\ pending \subseteq pending' \cup Terminal
           /\ snapshot \subseteq pending' \cup Terminal'
BY DEF CountsPartition, Terminal, Reconciled, Untold, CarriedOver

LEMMA InitEstablishes == Init => IInv
BY EventsAssumption, BoundsAssumption
   DEF Init, IInv, TypeOK, Partition, CountsPartition, NoEventLost, DurableRecorded,
       AdminRecorded, ListingSeesVerdicts, DownServesNobody, VerdictIsDurable,
       Terminal, Verdicts, Success, None, NoAdmin, AdminRequests

-----------------------------------------------------------------------------
\* What an append to the status log does to everything but memory.
LEMMA AppendRecordFacts ==
    ASSUME TypeOK, NEW e \in raw, NEW status \in Verdicts \cup {None},
           NEW outcome, AppendRecord(e, status, outcome)
    PROVE  /\ file' \in {"missing", "present"}
           /\ durable' \in [Events -> Verdicts \cup {None}]
           /\ tail' \in {"clean", "torn"}
           /\ records' \in 0 .. MaxRecords
           /\ doubtful' \in SUBSET raw
           /\ doubtful \ {e} \subseteq doubtful'
           /\ \A x \in Events \ {e} : durable'[x] = durable[x]
           /\ e \notin doubtful' =>
                  IF outcome = "ok" THEN durable'[e] = status
                                    ELSE durable'[e] = durable[e] /\ e \notin doubtful
BY BoundsAssumption, OutcomesAssumption DEF AppendRecord, TypeOK

\* A verdict is recorded, or not: either way the ledger keeps its promises.
LEMMA RecordVerdictKeeps ==
    ASSUME TypeOK, Partition, VerdictIsDurable,
           NEW e \in raw, NEW status \in Verdicts, NEW outcome \in Outcomes,
           RecordVerdict(e, status, outcome),
           UNCHANGED <<raw, announcing, proc>>
    PROVE  /\ known' \in SUBSET raw /\ pending' \in SUBSET raw
           /\ terminal' \in [Events -> Verdicts \cup {None}]
           /\ Terminal' \subseteq Terminal \cup {e}
           /\ CountsPartition' /\ NoEventLost' /\ DurableRecorded' /\ VerdictIsDurable'
<1> DEFINE written == outcome = "ok"
<1>1. AppendRecord(e, status, outcome) /\ e \in Events /\ status # None
  BY DEF RecordVerdict, TypeOK, Verdicts, Success, None
<1>2. /\ durable' \in [Events -> Verdicts \cup {None}]
      /\ doubtful \ {e} \subseteq doubtful'
      /\ \A x \in Events \ {e} : durable'[x] = durable[x]
      /\ e \notin doubtful' =>
             IF written THEN durable'[e] = status
                        ELSE durable'[e] = durable[e] /\ e \notin doubtful
  BY <1>1, AppendRecordFacts
<1>3. DurableRecorded'
  BY <1>2 DEF DurableRecorded, Partition
<1>4. CASE written
  <2>1. /\ known' = known \cup {e}
        /\ pending' = pending \ {e}
        /\ terminal' = [terminal EXCEPT ![e] = status]
    BY <1>4 DEF RecordVerdict
  <2>2. Terminal' = Terminal \cup {e}
    BY <2>1, <1>1 DEF Terminal, TypeOK
  <2>3. VerdictIsDurable'
    BY <2>1, <2>2, <1>1, <1>2, <1>4 DEF VerdictIsDurable, Terminal, TypeOK
  <2> QED
    BY <2>1, <2>2, <2>3, <1>1, <1>3 DEF TypeOK, Partition, CountsPartition, NoEventLost
<1>5. CASE ~written
  <2>1. UNCHANGED memory
    BY <1>5 DEF RecordVerdict
  <2>2. VerdictIsDurable'
    BY <2>1, <1>1, <1>2, <1>5 DEF VerdictIsDurable, Terminal, TypeOK, memory
  <2> QED
    BY <2>1, <2>2, <1>3
       DEF TypeOK, Partition, CountsPartition, NoEventLost, Terminal, memory
<1> QED
  BY <1>4, <1>5

LEMMA AdminRequestFacts ==
    ASSUME TypeOK, admin # NoAdmin
    PROVE  /\ admin \in AdminRequests
           /\ admin.event \in Events
           /\ [admin EXCEPT !.step = "notify"] \in AdminRequests
           /\ [admin EXCEPT !.step = "notify"].event = admin.event
BY DEF TypeOK, AdminRequests

-----------------------------------------------------------------------------
\* Every action preserves the invariant.
LEMMA NextPreserves == IInv /\ [Next]_vars => IInv'
<1> SUFFICES ASSUME IInv, [Next]_vars PROVE IInv'
  OBVIOUS
<1> USE EventsAssumption, BoundsAssumption, OutcomesAssumption
<1> USE DEF IInv, TypeOK, Partition, CountsPartition, NoEventLost, DurableRecorded,
            AdminRecorded, ListingSeesVerdicts, DownServesNobody, VerdictIsDurable,
            Terminal, memory, log, flushing, naming
<1>1. ASSUME NEW e \in Events, AppendEvent(e) PROVE IInv'
  BY <1>1 DEF AppendEvent
<1>2. ASSUME NEW e \in Events, NotifyAppended(e) PROVE IInv'
  BY <1>2 DEF NotifyAppended
<1>3. CASE ListEvents
  BY <1>3 DEF ListEvents, MuFree
<1>4. CASE SelectPending
  BY <1>4, ReconciliationKeepsPartition DEF SelectPending, Reconciled, Untold, CarriedOver
<1>5. ASSUME NEW b \in SUBSET listed, StartTurn(b) PROVE IInv'
  BY <1>5 DEF StartTurn
<1>6. ASSUME NEW pages \in SUBSET (wiki \cup batch), MergeTurn(pages) PROVE IInv'
  BY <1>6 DEF MergeTurn
<1>19. ASSUME NEW pages \in SUBSET raw, CompileTurn(pages) PROVE IInv'
  BY <1>19 DEF CompileTurn
<1>7. CASE DropTurn
  BY <1>7 DEF DropTurn
<1>8. ASSUME NEW e \in batch, NEW r \in EventResults, NEW o \in Outcomes,
             PersistStatus(e, r, o) PROVE IInv'
  <2>1. e \in raw /\ StatusOf(r) \in Verdicts
    BY DEF StatusOf, EventResults, Verdicts
  <2>2. RecordVerdict(e, StatusOf(r), o) /\ UNCHANGED <<raw, announcing, proc>>
    BY <1>8 DEF PersistStatus
  <2>3. AppendRecord(e, StatusOf(r), o)
    BY <2>2 DEF RecordVerdict
  <2>4. TypeOK'
    BY <1>8, <2>1, <2>2, <2>3, AppendRecordFacts, RecordVerdictKeeps DEF PersistStatus
  <2>5. Partition'
    BY <1>8, <2>1, <2>2, RecordVerdictKeeps DEF PersistStatus
  <2> QED
    BY <2>1, <2>2, <2>4, <2>5, RecordVerdictKeeps
<1>9. CASE EndFlush
  BY <1>9 DEF EndFlush
<1>10. ASSUME NEW op \in {"reset", "confirm"}, NEW e \in Events, AdminStart(op, e)
       PROVE IInv'
  <2>1. terminal[e] # None
    BY <1>10 DEF AdminStart, None
  <2>2. admin' = [op |-> op, event |-> e, step |-> "write"] /\ admin' \in AdminRequests
    BY <1>10 DEF AdminStart, AdminRequests
  <2> QED
    BY <1>10, <2>1, <2>2 DEF AdminStart
<1>11. ASSUME NEW o \in Outcomes, WriteTombstone(o) PROVE IInv'
  <2>0. PICK e \in raw : e = admin.event /\ e \in Events
    BY <1>11, AdminRequestFacts DEF WriteTombstone
  <2>1. /\ admin # NoAdmin /\ e \in raw /\ e \in Events
        /\ AppendRecord(e, None, o)
        /\ UNCHANGED <<raw, announcing, flushing, naming, proc, crashes, late>>
        /\ proc = "up"
        /\ excused' = excused \cup {e}
    BY <1>11, <2>0 DEF WriteTombstone
  <2>2. /\ durable' \in [Events -> Verdicts \cup {None}]
        /\ doubtful \ {e} \subseteq doubtful'
        /\ doubtful' \in SUBSET raw
        /\ file' \in {"missing", "present"} /\ tail' \in {"clean", "torn"}
        /\ records' \in 0 .. MaxRecords
        /\ \A x \in Events \ {e} : durable'[x] = durable[x]
        /\ e \notin doubtful' =>
               IF o = "ok" THEN durable'[e] = None
                           ELSE durable'[e] = durable[e] /\ e \notin doubtful
    BY <2>1, AppendRecordFacts
  <2>3. CASE o = "ok"
    <3>1. /\ known' = known \cup {e}
          /\ terminal' = [terminal EXCEPT ![e] = None]
          /\ pending' = pending \cup {e}
          /\ admin' = [admin EXCEPT !.step = "notify"]
      BY <1>11, <2>0, <2>3 DEF WriteTombstone
    <3>2. admin' \in AdminRequests /\ admin'.event = e
      BY <2>0, <2>1, <3>1, AdminRequestFacts
    <3>3. Terminal' = Terminal \ {e}
      BY <2>1, <3>1
    <3>4. TypeOK'
      BY <2>1, <2>2, <3>1, <3>2
    <3>5. Partition'
      BY <2>1, <2>2, <3>1, <3>2, <3>3
    <3>6. VerdictIsDurable'
      BY <2>1, <2>2, <3>1, <3>3
    <3> QED
      BY <3>4, <3>5, <3>6
  <2>4. CASE o # "ok"
    <3>1. UNCHANGED <<known, pending, terminal>> /\ admin' = NoAdmin
      BY <1>11, <2>4 DEF WriteTombstone
    <3>2. Terminal' = Terminal
      BY <3>1
    <3> QED
      BY <2>1, <2>2, <2>4, <3>1, <3>2
  <2> QED
    BY <2>3, <2>4
<1>12. ASSUME NEW o \in Outcomes, ConfirmEvent(o) PROVE IInv'
  <2>1. admin # NoAdmin /\ admin.event \in raw /\ "integrated" \in Verdicts
    BY <1>12, AdminRequestFacts DEF ConfirmEvent, Verdicts, Success
  <2>2. /\ RecordVerdict(admin.event, "integrated", o)
        /\ UNCHANGED <<raw, announcing, proc, flushing, naming, crashes, late, excused>>
        /\ admin' = NoAdmin
    BY <1>12 DEF ConfirmEvent
  <2>3. AppendRecord(admin.event, "integrated", o)
    BY <2>2 DEF RecordVerdict
  <2>4. TypeOK'
    BY <2>1, <2>2, <2>3, AppendRecordFacts, RecordVerdictKeeps
  <2>5. Partition'
    BY <2>1, <2>2, RecordVerdictKeeps
  <2> QED
    BY <2>1, <2>2, <2>4, <2>5, RecordVerdictKeeps
<1>13. CASE AnnounceReset
  BY <1>13 DEF AnnounceReset, AdminRequests, NoAdmin
<1>14. CASE Crash
  BY <1>14 DEF Crash
<1>15. ASSUME NEW old \in SUBSET raw, Bootstrap(old) PROVE IInv'
  BY <1>15 DEF Bootstrap, Verdicts, Success, None
<1>16. CASE Load
  BY <1>16 DEF Load
<1>17. ASSUME NEW done \in SUBSET Interrupted, NEW lost \in SUBSET Interrupted,
              NEW o \in Outcomes, Recover(done, lost, o) PROVE IInv'
  <2>1. /\ proc = "recovering" /\ proc' = "up" /\ file' = file
        /\ UNCHANGED <<raw, announcing, flushing, admin, naming, crashes, late>>
        /\ done \subseteq Interrupted /\ lost \subseteq done
        /\ excused' \in {excused, excused \cup Interrupted}
        /\ tail' \in {tail, "torn", "clean"}
    BY <1>17 DEF Recover, RecoverFromCrash
  <2>2. Interrupted \subseteq pending /\ Interrupted \subseteq raw
    BY DEF Interrupted
  <2>3. records' \in 0 .. MaxRecords
    <3>1. IsFiniteSet(done)
      BY <2>1, <2>2, FS_Subset
    <3>2. Cardinality(done) \in Nat
      BY <3>1, FS_CardinalityType
    <3> QED
      BY <1>17, <3>2 DEF Recover, RecoverFromCrash
  <2>4. durable' = [e \in Events |-> IF e \in done \ lost THEN "unknown" ELSE durable[e]]
    BY <1>17 DEF Recover, RecoverFromCrash
  <2>5. durable' \in [Events -> Verdicts \cup {None}]
    BY <2>4 DEF Verdicts
  <2>6. CASE o = "ok"
    <3>1. /\ terminal' = [e \in Events |-> IF e \in Interrupted THEN "unknown"
                                                                ELSE terminal[e]]
          /\ pending' = pending \ Interrupted
          /\ known' = known \cup Interrupted
          /\ doubtful' = (doubtful \ done) \cup lost
          /\ done = Interrupted
      BY <1>17, <2>6 DEF Recover, RecoverFromCrash
    <3>2. Terminal' = Terminal \cup Interrupted
      BY <2>2, <3>1 DEF None
    <3>3. TypeOK'
      BY <2>1, <2>2, <2>3, <2>5, <3>1 DEF Verdicts
    <3>4. Partition'
      BY <2>1, <2>2, <2>4, <3>1, <3>2
    <3>5. VerdictIsDurable'
      BY <2>1, <2>2, <2>4, <3>1, <3>2
    <3> QED
      BY <3>3, <3>4, <3>5
  <2>7. CASE o # "ok"
    <3>1. UNCHANGED <<known, pending, terminal>> /\ doubtful' = doubtful \cup done
      BY <1>17, <2>7 DEF Recover, RecoverFromCrash
    <3>2. Terminal' = Terminal
      BY <3>1
    <3>3. TypeOK'
      BY <2>1, <2>2, <2>3, <2>5, <3>1
    <3>4. Partition'
      BY <2>1, <2>2, <2>4, <3>1, <3>2
    <3>5. VerdictIsDurable'
      BY <2>1, <2>2, <2>4, <3>1, <3>2
    <3> QED
      BY <3>3, <3>4, <3>5
  <2> QED
    BY <2>6, <2>7
<1>18. CASE UNCHANGED vars
  BY <1>18 DEF vars
<1> QED
  BY <1>1, <1>2, <1>3, <1>4, <1>5, <1>6, <1>7, <1>8, <1>9, <1>10, <1>11, <1>12,
     <1>13, <1>14, <1>15, <1>16, <1>17, <1>18, <1>19
     DEF Next, Remember, Flush, Compile, Admin, Process

LEMMA Inductive == Spec => []IInv
BY InitEstablishes, NextPreserves, PTL DEF Spec

-----------------------------------------------------------------------------
\* Every reachable state is well typed.
THEOREM TypeCorrect == Spec => []TypeOK
BY Inductive, PTL DEF IInv

\* No remembered event is ever lost: on the raw log, it is pending, has a
\* verdict, or its /remember call has yet to announce it (store.go:332-403).
THEOREM NoEventIsLost == Spec => []NoEventLost
<1>1. IInv => NoEventLost
  BY DEF IInv, Partition
<1> QED
  BY <1>1, Inductive, PTL

\* The counts an operator is shown add up: no event is both pending and judged,
\* and none is known without being one of them (store.go:613-633).
THEOREM CountsAddUp == Spec => []CountsPartition
<1>1. IInv => CountsPartition
  BY DEF IInv, Partition
<1> QED
  BY <1>1, Inductive, PTL

\* Memory never runs ahead of the disk: a verdict that the store shows is the
\* one a restart would load, unless the last append for that event was not
\* acknowledged or was glued to a torn line (store.go:409-457).
THEOREM VerdictsAreDurable == Spec => []VerdictIsDurable
<1>1. IInv => VerdictIsDurable
  BY DEF IInv
<1> QED
  BY <1>1, Inductive, PTL

-----------------------------------------------------------------------------
(* What a turn is started on, and what the disk says meanwhile.  An event  *)
(* announced after its verdict is exempt throughout: the announcement      *)
(* takes the verdict back under whoever has read it.                       *)

\* What the flush has listed or runs has no verdict yet.
FlushRunsPending ==
    /\ flush \in {"listed", "turn", "persist"} => listed \cup batch \subseteq pending \cup late
    /\ flush \in {"listed", "turn", "persist"} => listed \cap batch = {}
    /\ flush \in {"idle", "listing", "listed"} => batch = {}

\* An operator request is about an event that no turn runs, and finds it as it was.
AdminHoldsEvent ==
    admin # NoAdmin /\ admin.event \notin late =>
        /\ admin.event \notin batch
        /\ admin.step = "write" =>
               terminal[admin.event] \in {"failed", "unknown"}
        /\ admin.step = "notify" =>
               terminal[admin.event] = None /\ admin.event \in excused
        /\ admin.op = "confirm" => terminal[admin.event] = "unknown"

\* A page names an event without a verdict only while its turn is being persisted,
\* or with an excuse, or because a compile turn put the name there.
WikiIsTold ==
    proc = "up" =>
        \A e \in wiki : terminal[e] = None =>
            e \in excused \cup late \cup compiled \/ (flush = "persist" /\ e \in batch)

\* The disk has what memory has, be it a verdict or none.
DiskFollows ==
    /\ proc # "down" => \A e \in Events \ (doubtful \cup late) : durable[e] = terminal[e]
    /\ proc # "up" => announcing = {} /\ late = {}
    /\ file = "missing" => proc = "down" /\ \A e \in Events : durable[e] = None

Settled == FlushRunsPending /\ AdminHoldsEvent /\ WikiIsTold /\ DiskFollows

LEMMA InitSettled == Init => Settled
BY DEF Init, Settled, FlushRunsPending, AdminHoldsEvent, WikiIsTold, DiskFollows, NoAdmin

\* What RecordVerdict leaves of an event: an acknowledged verdict is in memory, and on
\* the disk unless that is in doubt; any other write leaves memory alone.
RecordedOrNot(e, status) ==
    /\ file' = file
    /\ doubtful \ {e} \subseteq doubtful'
    /\ \A x \in Events \ {e} : durable'[x] = durable[x] /\ terminal'[x] = terminal[x]
    /\ pending \ {e} \subseteq pending' /\ pending' \subseteq pending
    /\ terminal'[e] = status \/ terminal'[e] = terminal[e]
    /\ e \notin pending' \/ pending' = pending
    /\ e \notin doubtful' =>
           \/ durable'[e] = status /\ terminal'[e] = status
           \/ durable'[e] = durable[e] /\ terminal'[e] = terminal[e] /\ e \notin doubtful

LEMMA RecordVerdictEffect ==
    ASSUME TypeOK, NEW e \in raw, NEW status \in Verdicts, NEW o \in Outcomes,
           RecordVerdict(e, status, o)
    PROVE  RecordedOrNot(e, status)
<1>1. AppendRecord(e, status, o) /\ e \in Events
  BY DEF RecordVerdict, TypeOK
<1>2. /\ file' = file
      /\ doubtful \ {e} \subseteq doubtful'
      /\ \A x \in Events \ {e} : durable'[x] = durable[x]
      /\ e \notin doubtful' =>
             IF o = "ok" THEN durable'[e] = status
                         ELSE durable'[e] = durable[e] /\ e \notin doubtful
  BY <1>1, AppendRecordFacts DEF AppendRecord
<1> QED
  BY <1>1, <1>2 DEF RecordVerdict, RecordedOrNot, TypeOK, memory

LEMMA OkIsRecorded ==
    ASSUME TypeOK, NEW e \in raw, NEW status \in Verdicts, RecordVerdict(e, status, "ok")
    PROVE  terminal'[e] # None
BY DEF RecordVerdict, TypeOK, Verdicts, Success, None

LEMMA StepIsNotify ==
    ASSUME NEW request \in AdminRequests
    PROVE  /\ [request EXCEPT !.step = "notify"] # NoAdmin
           /\ [request EXCEPT !.step = "notify"].op = request.op
           /\ [request EXCEPT !.step = "notify"].step = "notify"
BY DEF AdminRequests, NoAdmin

LEMMA NextSettled ==
    ASSUME IInv, IInv', Settled, [Next]_vars
    PROVE  Settled'
<1> USE EventsAssumption, OutcomesAssumption
<1> USE DEF IInv, TypeOK, Partition, CountsPartition, DurableRecorded, AdminRecorded,
            DownServesNobody, Settled, FlushRunsPending, AdminHoldsEvent, WikiIsTold,
            DiskFollows, Terminal, memory, log, flushing, naming
<1>1. ASSUME NEW e \in Events, AppendEvent(e) PROVE Settled'
  BY <1>1 DEF AppendEvent
<1>2. ASSUME NEW e \in Events, NotifyAppended(e) PROVE Settled'
  <2>1. /\ e \in announcing /\ proc = "up" /\ e \in raw
        /\ terminal' = [terminal EXCEPT ![e] = None]
        /\ pending' = pending \cup {e}
        /\ late' = IF terminal[e] = None THEN late ELSE late \cup {e}
        /\ UNCHANGED <<raw, file, durable, doubtful, flush, listed, batch, admin, naming, proc,
                       excused>>
    BY <1>2 DEF NotifyAppended
  <2>2. FlushRunsPending'
    BY <2>1
  <2>3. AdminHoldsEvent'
    BY <2>1 DEF None, NoAdmin
  <2>4. WikiIsTold'
    BY <2>1
  <2>5. DiskFollows'
    BY <2>1
  <2> QED
    BY <2>2, <2>3, <2>4, <2>5
<1>3. CASE ListEvents
  BY <1>3 DEF ListEvents, MuFree
<1>4. CASE SelectPending
  BY <1>4 DEF SelectPending, Reconciled, Untold, CarriedOver
<1>5. ASSUME NEW b \in SUBSET listed, StartTurn(b) PROVE Settled'
  BY <1>5 DEF StartTurn, MuFree
<1>6. ASSUME NEW pages \in SUBSET (wiki \cup batch), MergeTurn(pages) PROVE Settled'
  BY <1>6 DEF MergeTurn
<1>19. ASSUME NEW pages \in SUBSET raw, CompileTurn(pages) PROVE Settled'
  BY <1>19 DEF CompileTurn
<1>7. CASE DropTurn
  <2>1. /\ flush = "turn" /\ flush' = "listed" /\ batch' = {}
        /\ listed' \subseteq listed \cup batch
        /\ UNCHANGED <<raw, announcing, file, durable, doubtful, known, pending, terminal,
                       admin, naming, proc, late, excused>>
    BY <1>7 DEF DropTurn
  <2>2. FlushRunsPending'
    BY <2>1
  <2>3. AdminHoldsEvent'
    BY <2>1
  <2>4. WikiIsTold'
    BY <2>1
  <2>5. DiskFollows'
    BY <2>1
  <2> QED
    BY <2>2, <2>3, <2>4, <2>5
<1>8. ASSUME NEW e \in batch, NEW r \in EventResults, NEW o \in Outcomes,
             PersistStatus(e, r, o) PROVE Settled'
  <2>1. e \in raw /\ StatusOf(r) \in Verdicts
    BY DEF StatusOf, EventResults, Verdicts
  <2>2. /\ RecordVerdict(e, StatusOf(r), o)
        /\ flush = "persist" /\ proc = "up" /\ batch' = batch \ {e}
        /\ flush' = IF batch' = {} THEN "listed" ELSE "persist"
        /\ excused' = IF o = "ok" THEN excused \ {e} ELSE excused \cup {e}
        /\ UNCHANGED <<raw, announcing, listed, admin, naming, proc, late>>
    BY <1>8 DEF PersistStatus
  <2>3. e \in late \/ admin = NoAdmin \/ admin.event # e
    OBVIOUS
  <2>4. RecordedOrNot(e, StatusOf(r))
    BY <2>1, <2>2, RecordVerdictEffect
  <2>5. FlushRunsPending'
    BY <2>2, <2>4 DEF RecordedOrNot
  <2>6. AdminHoldsEvent'
    BY <2>2, <2>3, <2>4 DEF RecordedOrNot, None
  <2>7. WikiIsTold'
    BY <2>1, <2>2, <2>4, OkIsRecorded DEF RecordedOrNot
  <2>8. DiskFollows'
    BY <2>2, <2>4 DEF RecordedOrNot
  <2> QED
    BY <2>5, <2>6, <2>7, <2>8
<1>9. CASE EndFlush
  BY <1>9 DEF EndFlush
<1>10. ASSUME NEW op \in {"reset", "confirm"}, NEW e \in Events, AdminStart(op, e)
       PROVE Settled'
  BY <1>10 DEF AdminStart, None
<1>13. CASE AnnounceReset
  <2> DEFINE e == admin.event
  <2>1. /\ admin # NoAdmin /\ admin.step = "notify" /\ admin' = NoAdmin /\ e \in raw
        /\ terminal' = [terminal EXCEPT ![e] = None]
        /\ pending' = pending \cup {e}
        /\ UNCHANGED <<raw, announcing, file, durable, doubtful, flush, listed, batch, naming,
                       proc, late, excused>>
    BY <1>13 DEF AnnounceReset
  <2>2. e \in late \/ (terminal[e] = None /\ e \in excused)
    BY <2>1
  <2> HIDE DEF e
  <2>3. FlushRunsPending'
    BY <2>1
  <2>4. AdminHoldsEvent'
    BY <2>1
  <2>5. WikiIsTold'
    BY <2>1, <2>2
  <2>6. DiskFollows'
    BY <2>1, <2>2
  <2> QED
    BY <2>3, <2>4, <2>5, <2>6
<1>11. ASSUME NEW o \in Outcomes, WriteTombstone(o) PROVE Settled'
  <2> DEFINE e == admin.event
  <2>1. /\ admin # NoAdmin /\ admin.step = "write" /\ e \in raw /\ e \in Events
        /\ AppendRecord(e, None, o)
        /\ proc = "up" /\ excused' = excused \cup {e}
        /\ UNCHANGED <<raw, announcing, flush, listed, batch, naming, proc, late>>
    BY <1>11, AdminRequestFacts DEF WriteTombstone
  <2>2. \/ /\ o = "ok"
           /\ terminal' = [terminal EXCEPT ![e] = None]
           /\ pending' = pending \cup {e}
           /\ admin' = [admin EXCEPT !.step = "notify"]
           /\ admin' # NoAdmin /\ admin'.event = e
           /\ admin'.step = "notify" /\ admin'.op = "reset"
        \/ (o # "ok" /\ UNCHANGED <<known, pending, terminal>> /\ admin' = NoAdmin)
    <3>1. CASE o = "ok"
      <4>1. /\ terminal' = [terminal EXCEPT ![e] = None]
            /\ pending' = pending \cup {e}
            /\ admin' = [admin EXCEPT !.step = "notify"] /\ admin.op = "reset"
        BY <1>11, <3>1 DEF WriteTombstone
      <4>2. admin \in AdminRequests /\ [admin EXCEPT !.step = "notify"].event = e
        BY <2>1, AdminRequestFacts
      <4>3. /\ admin' # NoAdmin /\ admin'.event = e
            /\ admin'.step = "notify" /\ admin'.op = "reset"
        BY <4>1, <4>2, StepIsNotify
      <4> QED
        BY <3>1, <4>1, <4>3
    <3>2. CASE o # "ok"
      <4>1. UNCHANGED memory /\ admin' = NoAdmin
        BY <1>11, <3>2 DEF WriteTombstone
      <4> QED
        BY <3>2, <4>1
    <3> QED
      BY <3>1, <3>2
  <2>3. e \in late \/ e \notin batch
    BY <2>1
  <2>4. /\ file' = file
        /\ doubtful \ {e} \subseteq doubtful'
        /\ \A x \in Events \ {e} : durable'[x] = durable[x]
        /\ e \notin doubtful' =>
               IF o = "ok" THEN durable'[e] = None
                           ELSE durable'[e] = durable[e] /\ e \notin doubtful
    BY <2>1, AppendRecordFacts DEF AppendRecord
  <2> HIDE DEF e
  <2>5. FlushRunsPending'
    BY <2>1, <2>2
  <2>6. AdminHoldsEvent'
    BY <2>1, <2>2, <2>3
  <2>7. WikiIsTold'
    BY <2>1, <2>2
  <2>8. DiskFollows'
    BY <2>1, <2>2, <2>4
  <2> QED
    BY <2>5, <2>6, <2>7, <2>8
<1>12. ASSUME NEW o \in Outcomes, ConfirmEvent(o) PROVE Settled'
  <2> DEFINE e == admin.event
  <2>1. /\ admin # NoAdmin /\ admin.op = "confirm" /\ e \in raw
        /\ RecordVerdict(e, "integrated", o)
        /\ proc = "up" /\ admin' = NoAdmin
        /\ UNCHANGED <<raw, announcing, flush, listed, batch, naming, proc, late, excused>>
    BY <1>12 DEF ConfirmEvent
  <2>2. e \in late \/ e \notin pending \cup batch
    BY <2>1 DEF None
  <2>3. RecordedOrNot(e, "integrated")
    BY <2>1, RecordVerdictEffect DEF Verdicts, Success
  <2> HIDE DEF e
  <2>4. FlushRunsPending'
    BY <2>1, <2>2, <2>3 DEF RecordedOrNot
  <2>5. AdminHoldsEvent'
    BY <2>1
  <2>6. WikiIsTold'
    BY <2>1, <2>3 DEF RecordedOrNot, None
  <2>7. DiskFollows'
    BY <2>1, <2>3 DEF RecordedOrNot
  <2> QED
    BY <2>4, <2>5, <2>6, <2>7
<1>14. CASE Crash
  BY <1>14 DEF Crash
<1>15. ASSUME NEW old \in SUBSET raw, Bootstrap(old) PROVE Settled'
  BY <1>15 DEF Bootstrap
<1>16. CASE Load
  BY <1>16 DEF Load
<1>17. ASSUME NEW done \in SUBSET Interrupted, NEW lost \in SUBSET Interrupted,
              NEW o \in Outcomes, Recover(done, lost, o) PROVE Settled'
  <2>1. /\ proc = "recovering" /\ proc' = "up" /\ file' = file
        /\ UNCHANGED <<raw, announcing, flush, listed, batch, admin, naming, late>>
        /\ durable' = [e \in Events |-> IF e \in done \ lost THEN "unknown" ELSE durable[e]]
        /\ Interrupted \subseteq Events
    BY <1>17 DEF Recover, RecoverFromCrash, Interrupted
  <2>2. raw \subseteq pending \cup Terminal
    BY <2>1 DEF NoEventLost
  <2>3. CASE o = "ok"
    <3>1. /\ terminal' = [e \in Events |-> IF e \in Interrupted THEN "unknown"
                                                                ELSE terminal[e]]
          /\ pending' = pending \ Interrupted
          /\ doubtful' = (doubtful \ done) \cup lost
          /\ excused' = excused
          /\ done = Interrupted
      BY <1>17, <2>3 DEF Recover, RecoverFromCrash
    <3>2. WikiIsTold'
      BY <2>1, <2>2, <3>1 DEF Interrupted, None
    <3>3. DiskFollows'
      BY <2>1, <3>1
    <3> QED
      BY <2>1, <3>2, <3>3
  <2>4. CASE o # "ok"
    <3>1. /\ UNCHANGED <<known, pending, terminal>>
          /\ doubtful' = doubtful \cup done
          /\ excused' = excused \cup Interrupted
      BY <1>17, <2>4 DEF Recover, RecoverFromCrash
    <3>2. WikiIsTold'
      BY <2>1, <2>2, <3>1 DEF Interrupted
    <3>3. DiskFollows'
      BY <2>1, <3>1
    <3> QED
      BY <2>1, <3>2, <3>3
  <2> QED
    BY <2>3, <2>4
<1>18. CASE UNCHANGED vars
  BY <1>18 DEF vars
<1> QED
  BY <1>1, <1>2, <1>3, <1>4, <1>5, <1>6, <1>7, <1>8, <1>9, <1>10, <1>11, <1>12,
     <1>13, <1>14, <1>15, <1>16, <1>17, <1>18, <1>19
     DEF Next, Remember, Flush, Compile, Admin, Process

LEMMA SettledInvariant == Spec => [](IInv /\ Settled)
<1>1. IInv /\ Settled /\ [Next]_vars => (IInv /\ Settled)'
  BY NextPreserves, NextSettled
<1>2. Init => IInv /\ Settled
  BY InitEstablishes, InitSettled
<1> QED
  BY <1>1, <1>2, PTL DEF Spec

\* A turn never starts, on its own account, on an event that a merged page names:
\* a crash between the merge and the status write makes it unknown first
\* (coordinator.go:363-379, store.go:528-585).  A name that only a compile turn has
\* given is no such account (handler.go:441-467).
THEOREM NothingIsIngestedTwice == Spec => NoSilentReingest
<1> DEFINE Fresh == \A e \in batch' \ batch : e \in wiki => e \in excused \cup late \cup compiled
<1>1. ASSUME IInv, Settled, [Next]_vars
      PROVE  Fresh
  <2>1. CASE \E b \in SUBSET listed : StartTurn(b)
    <3>1. PICK b \in SUBSET listed : StartTurn(b)
      BY <2>1
    <3>2. flush = "listed" /\ proc = "up" /\ batch' = b
      BY <3>1 DEF StartTurn
    <3> QED
      BY <1>1, <3>2 DEF Settled, FlushRunsPending, WikiIsTold, IInv, TypeOK, Partition,
                       CountsPartition, Terminal
  <2>2. CASE batch' \subseteq batch
    BY <2>2
  <2>3. (\E b \in SUBSET listed : StartTurn(b)) \/ batch' \subseteq batch
    BY <1>1 DEF Next, Remember, Flush, Compile, CompileTurn, Admin, Process, vars, flushing, AppendEvent,
                NotifyAppended, ListEvents, SelectPending, MergeTurn, DropTurn, PersistStatus,
                EndFlush, AdminStart, WriteTombstone, AnnounceReset, ConfirmEvent, Crash,
                Bootstrap, Load, Recover
  <2> QED
    BY <2>1, <2>2, <2>3
<1>2. IInv /\ Settled /\ [Next]_vars => [Fresh]_vars
  BY <1>1
<1> QED
  BY <1>2, SettledInvariant, PTL DEF Spec, NoSilentReingest

-----------------------------------------------------------------------------
(* The refinement of EventLedger, step by step.                            *)

\* What may become of the status of a recorded event: the edges of EventLedger.
Edge(old, new, reliable) ==
    \/ new = old
    \/ old = None
    \/ old \in {"failed", "unknown"} /\ new = None
    \/ old = "unknown" /\ new = "integrated"
    \/ ~reliable

Reliable(e) == e \notin announcing \cup late \cup doubtful

\* A step that records no event and moves every other along an edge is a ledger step.
LEMMA EdgesAreLedgerSteps ==
    ASSUME IInv, IInv', raw' = raw, announcing' \cup late' \subseteq announcing \cup late,
           \A e \in raw : Edge(Believed(e), Believed(e)', Reliable(e))
    PROVE  Ledger!LedgerNext
<1>1. LedgerStatus' \in [Events -> Ledger!Verdicts \cup {"absent", "pending"}]
  BY DEF LedgerStatus, Believed, IInv, TypeOK, Verdicts, Success, Ledger!Verdicts,
         Ledger!Success
<1>2. \A e \in Events : Ledger!Move(e)
  <2> TAKE e \in Events
  <2>1. CASE e \notin raw
    BY <2>1 DEF LedgerStatus, Ledger!Move
  <2>2. CASE e \in raw
    <3>1. Believed(e) \in Verdicts \cup {None} /\ Believed(e)' \in Verdicts \cup {None}
      BY DEF Believed, IInv, TypeOK
    <3>2. /\ LedgerStatus[e] = IF Believed(e) = None THEN "pending" ELSE Believed(e)
          /\ LedgerStatus'[e] = IF Believed(e)' = None THEN "pending" ELSE Believed(e)'
      BY <2>2 DEF LedgerStatus
    <3>3. Edge(Believed(e), Believed(e)', Reliable(e))
      BY <2>2
    <3> QED
      BY <3>1, <3>2, <3>3
         DEF Edge, Reliable, Ledger!Move, Ledger!Judged, Ledger!ResetByOperator,
             Ledger!ConfirmedByOperator, Ledger!Unreliable, Ledger!Verdicts,
             Ledger!Success, Verdicts, Success, None
  <2> QED
    BY <2>1, <2>2
<1> QED
  BY <1>1, <1>2 DEF Ledger!LedgerNext, IInv, TypeOK

LEMMA RecordingIsALedgerStep ==
    ASSUME IInv, IInv', NEW e \in Events, AppendEvent(e)
    PROVE  Ledger!LedgerNext
<1>1. /\ proc = "up" /\ e \notin raw /\ raw' = raw \cup {e}
      /\ announcing' = announcing \cup {e}
      /\ UNCHANGED <<terminal, proc, late, doubtful>>
  BY DEF AppendEvent, memory, log
<1>2. LedgerStatus' \in [Events -> Ledger!Verdicts \cup {"absent", "pending"}]
  BY DEF LedgerStatus, Believed, IInv, TypeOK, Verdicts, Success, Ledger!Verdicts,
         Ledger!Success
<1>3. \A x \in Events \ {e} : LedgerStatus'[x] = LedgerStatus[x]
  BY <1>1 DEF LedgerStatus, Believed
<1>4. terminal[e] = None
  BY <1>1 DEF IInv, Partition, CountsPartition, TypeOK, Terminal
<1>5. LedgerStatus[e] = "absent" /\ LedgerStatus'[e] = "pending"
  BY <1>1, <1>4 DEF LedgerStatus, Believed
<1> QED
  BY <1>1, <1>2, <1>3, <1>5 DEF Ledger!LedgerNext, Ledger!Move, Ledger!Recorded, IInv, TypeOK

\* A verdict is recorded over none, or over that of an event announced too late.
LEMMA RecordingAVerdictIsAnEdge ==
    ASSUME IInv, IInv', Settled, proc = "up", proc' = proc,
           NEW e \in raw, NEW status, RecordedOrNot(e, status), raw' = raw,
           announcing' = announcing, late' = late,
           Edge(terminal[e], status, Reliable(e))
    PROVE  Ledger!LedgerNext
<1>1. \A x \in raw : Edge(Believed(x), Believed(x)', Reliable(x))
  BY DEF Believed, RecordedOrNot, IInv, TypeOK, Edge
<1> QED
  BY <1>1, EdgesAreLedgerSteps

LEMMA StepsAreLedgerSteps ==
    ASSUME IInv, IInv', Settled, [Next]_vars
    PROVE  Ledger!LedgerNext
<1> USE DEF memory, log, flushing, naming
<1>1. ASSUME NEW e \in Events, NotifyAppended(e) PROVE Ledger!LedgerNext
  <2>1. /\ e \in announcing /\ proc = "up" /\ proc' = proc /\ raw' = raw
        /\ terminal' = [terminal EXCEPT ![e] = None]
        /\ announcing' \cup late' \subseteq announcing \cup late
    BY <1>1 DEF NotifyAppended
  <2>2. \A x \in raw : Edge(Believed(x), Believed(x)', Reliable(x))
    BY <2>1 DEF Edge, Believed, Reliable, IInv, TypeOK
  <2> QED
    BY <2>1, <2>2, EdgesAreLedgerSteps
<1>2. CASE \/ UNCHANGED <<raw, announcing, terminal, durable, proc, late>>
           \/ ListEvents \/ SelectPending \/ DropTurn \/ EndFlush
           \/ \E b \in SUBSET listed : StartTurn(b)
           \/ \E pages \in SUBSET (wiki \cup batch) : MergeTurn(pages)
           \/ \E pages \in SUBSET raw : CompileTurn(pages)
           \/ \E op \in {"reset", "confirm"}, e \in Events : AdminStart(op, e)
           \/ UNCHANGED vars
  <2>1. UNCHANGED <<raw, announcing, terminal, durable, proc, late>>
    BY <1>2 DEF ListEvents, SelectPending, Reconciled, DropTurn, EndFlush, StartTurn,
                MergeTurn, CompileTurn, AdminStart, vars
  <2>2. \A x \in raw : Edge(Believed(x), Believed(x)', Reliable(x))
    BY <2>1 DEF Edge, Believed
  <2> QED
    BY <2>1, <2>2, EdgesAreLedgerSteps
<1>3. ASSUME NEW e \in batch, NEW r \in EventResults, NEW o \in Outcomes,
             PersistStatus(e, r, o) PROVE Ledger!LedgerNext
  <2>1. e \in raw /\ StatusOf(r) \in Verdicts
    BY DEF IInv, TypeOK, StatusOf, EventResults, Verdicts
  <2>2. /\ flush = "persist" /\ proc = "up" /\ RecordVerdict(e, StatusOf(r), o)
        /\ UNCHANGED <<raw, announcing, proc, late>>
    BY <1>3 DEF PersistStatus
  <2>3. RecordedOrNot(e, StatusOf(r))
    BY <2>1, <2>2, RecordVerdictEffect DEF IInv
  <2>4. Edge(terminal[e], StatusOf(r), Reliable(e))
    BY <2>1, <2>2 DEF Edge, Reliable, Settled, FlushRunsPending, IInv, TypeOK, Partition,
                      CountsPartition, Terminal
  <2> QED
    BY <2>1, <2>2, <2>3, <2>4, RecordingAVerdictIsAnEdge
<1>4. ASSUME NEW o \in Outcomes, ConfirmEvent(o) PROVE Ledger!LedgerNext
  <2>1. /\ admin # NoAdmin /\ admin.op = "confirm" /\ admin.event \in raw /\ proc = "up"
        /\ RecordVerdict(admin.event, "integrated", o)
        /\ UNCHANGED <<raw, announcing, proc, late>>
    BY <1>4 DEF ConfirmEvent, IInv, Partition, AdminRecorded
  <2>2. RecordedOrNot(admin.event, "integrated")
    BY <2>1, RecordVerdictEffect DEF IInv, Verdicts, Success
  <2>3. Edge(terminal[admin.event], "integrated", Reliable(admin.event))
    BY <2>1 DEF Edge, Reliable, Settled, AdminHoldsEvent
  <2> QED
    BY <2>1, <2>2, <2>3, RecordingAVerdictIsAnEdge
<1>5. ASSUME NEW o \in Outcomes, WriteTombstone(o) PROVE Ledger!LedgerNext
  <2> DEFINE e == admin.event
  <2>1. /\ admin # NoAdmin /\ admin.step = "write" /\ proc = "up"
        /\ UNCHANGED <<raw, announcing, proc, late>>
        /\ terminal' = [terminal EXCEPT ![e] = None] \/ terminal' = terminal
    BY <1>5 DEF WriteTombstone
  <2>2. e \in late \/ terminal[e] \in {"failed", "unknown"}
    BY <2>1 DEF Settled, AdminHoldsEvent
  <2> HIDE DEF e
  <2>3. \A x \in raw : Edge(Believed(x), Believed(x)', Reliable(x))
    BY <2>1, <2>2 DEF Edge, Believed, Reliable, IInv, TypeOK
  <2> QED
    BY <2>1, <2>3, EdgesAreLedgerSteps
<1>6. CASE AnnounceReset
  <2> DEFINE e == admin.event
  <2>1. /\ admin # NoAdmin /\ admin.step = "notify" /\ proc = "up"
        /\ UNCHANGED <<raw, announcing, proc, late>>
        /\ terminal' = [terminal EXCEPT ![e] = None]
    BY <1>6 DEF AnnounceReset
  <2>2. e \in late \/ terminal[e] = None
    BY <2>1 DEF Settled, AdminHoldsEvent
  <2> HIDE DEF e
  <2>3. \A x \in raw : Edge(Believed(x), Believed(x)', Reliable(x))
    BY <2>1, <2>2 DEF Edge, Believed, Reliable, IInv, TypeOK
  <2> QED
    BY <2>1, <2>3, EdgesAreLedgerSteps
<1>7. CASE Crash
  <2>1. /\ proc # "down" /\ proc' = "down" /\ raw' = raw /\ durable' = durable
        /\ announcing' = {} /\ late' = {}
    BY <1>7 DEF Crash
  <2>2. \A x \in raw : Edge(Believed(x), Believed(x)', Reliable(x))
    BY <2>1 DEF Edge, Believed, Reliable, Settled, DiskFollows, IInv, TypeOK
  <2> QED
    BY <2>1, <2>2, EdgesAreLedgerSteps
<1>8. CASE Load \/ \E old \in SUBSET raw : Bootstrap(old)
  <2>1. /\ proc = "down" /\ proc' # "down" /\ UNCHANGED <<raw, announcing, late>>
        /\ \A x \in raw : terminal'[x] = durable[x] \/ durable[x] = None
    BY <1>8 DEF Load, Bootstrap, Settled, DiskFollows, IInv, TypeOK
  <2>2. \A x \in raw : Edge(Believed(x), Believed(x)', Reliable(x))
    BY <2>1 DEF Edge, Believed
  <2> QED
    BY <2>1, <2>2, EdgesAreLedgerSteps
<1>9. ASSUME NEW done \in SUBSET Interrupted, NEW lost \in SUBSET Interrupted,
             NEW o \in Outcomes, Recover(done, lost, o) PROVE Ledger!LedgerNext
  <2>1. /\ proc = "recovering" /\ proc' = "up" /\ UNCHANGED <<raw, announcing, late>>
        /\ \A x \in Events : terminal'[x] = terminal[x] \/ x \in pending
    BY <1>9 DEF Recover, RecoverFromCrash, Interrupted, IInv, TypeOK
  <2>2. \A x \in pending : terminal[x] = None
    BY DEF IInv, TypeOK, Partition, CountsPartition, Terminal
  <2>3. \A x \in raw : Edge(Believed(x), Believed(x)', Reliable(x))
    BY <2>1, <2>2 DEF Edge, Believed, IInv, TypeOK
  <2> QED
    BY <2>1, <2>3, EdgesAreLedgerSteps
<1> QED
  BY <1>1, <1>2, <1>3, <1>4, <1>5, <1>6, <1>7, <1>8, <1>9, RecordingIsALedgerStep
     DEF Next, Remember, Flush, Compile, Admin, Process

\* The store implements the abstract ledger: no event is forgotten, and a success is
\* not undone unless it was given before the announcement or the disk did not take
\* it (store.go as a whole, coordinator.go:276-379).
THEOREM StoreImplementsLedger == Spec => ImplementsLedger
<1>1. Init => Ledger!LedgerInit
  BY DEF Init, Ledger!LedgerInit, LedgerStatus, Believed, Ledger!Verdicts, Ledger!Success
<1>2. IInv /\ IInv' /\ Settled /\ [Next]_vars =>
          [Ledger!LedgerNext]_<<LedgerStatus, announcing \cup late, doubtful>>
  BY StepsAreLedgerSteps
<1> QED
  BY <1>1, <1>2, SettledInvariant, PTL DEF Spec, ImplementsLedger, Ledger!LedgerSpec

=============================================================================
