----------------------------- MODULE Coordinator -----------------------------
(***************************************************************************)
(* The batch coordinator (internal/agent/coordinator.go): the run loop     *)
(* with its wake-up channel and its timer, the flush that forms batches,   *)
(* runs agent turns, splits failed batches and writes verdicts, the        *)
(* breakers that suspend it, and the calls of other goroutines: /remember, *)
(* the operator's reset and confirm, and Stop.                             *)
(*                                                                         *)
(* An action is one critical section of coordinator.mu or one operation on *)
(* a channel, together with the local work up to the next one.  The store  *)
(* is what it promises (module PendingStore): an event is queued, or has a *)
(* verdict.  An event is a number: its rank by creation time and id.       *)
(***************************************************************************)
EXTENDS Naturals, Sequences, FiniteSets

CONSTANTS
    Events,             \* the events, by rank
    Backlog,            \* events already pending when the process starts
    FlushThreshold,     \* a wake-up with this many pending events flushes at once
    BatchCap,           \* most events of a batch
    SplitFloor,         \* a batch of at most this many events is not split
    MaxDepth,           \* nor is a batch this many splits away from its flush
    StreakLimit,        \* all-unknown batches in a row that trip the breaker
    OuterErrorLimit,    \* backend errors in a row that suspend
    WriteFailLimit,     \* failed status writes that defer an event
    EnvelopeTurns,      \* turns any flush has time for: EnvelopeTimeout / MaxBatchCap
    BackendErrs,        \* may RunBatchIngest return an error of its own?
    MaxResets           \* bound: operator resets

ASSUME EventsAssumption ==
    /\ IsFiniteSet(Events) /\ Events \subseteq Nat
    /\ Backlog \subseteq Events

ASSUME LimitsAssumption ==
    /\ {FlushThreshold, BatchCap, StreakLimit, OuterErrorLimit, WriteFailLimit,
        SplitFloor, EnvelopeTurns} \subseteq Nat \ {0}
    /\ {MaxDepth, MaxResets} \subseteq Nat
    /\ BackendErrs \in BOOLEAN

\* A batch that fails at every depth still gets its verdicts within one flush:
\* 40 minutes of envelope, 10 minutes at most per turn, two splits.
ASSUME EnvelopeAssumption == MaxDepth < EnvelopeTurns

VARIABLES
    arrival,            \* how far the /remember call of an event has come
    pending,            \* store.pendingIDs
    verdict,            \* store.terminal
    signal,             \* is the wake-up channel (capacity 1) full?
    timer,              \* is the run loop's timer armed?
    pc,                 \* where the run loop is
    explicit,           \* was the flush started by a wake-up?
    queue,              \* batches left in the flush, the current one first
    listed,             \* history: the events the flush set out to run
    dealt,              \* history: events of batches the flush has finished with
    turns,              \* turns of this flush, counted up to EnvelopeTurns
    reason,             \* StoppedReason of the flush
    adjudicated,        \* did the last successful turn adjudicate any event?
    suspended,          \* coordinator.suspended
    stopRecord,         \* is coordinator.unknownStreakStop set?
    streak,             \* coordinator.unknownStreak, counted up to StreakLimit
    outerErrors,        \* consecutiveOuterErrors, counted up to OuterErrorLimit
    writeFails,         \* coordinator.writeFailCounts
    deferred,           \* coordinator.deferredSet
    stopping,           \* is stopCh closed?
    stopper,            \* how far the call of Stop has come
    cancelSet,          \* is coordinator.cancelBatch set?
    cancelled,          \* was the context of the current turn cancelled by Stop?
    resets,             \* operator resets so far (bound only)
    recovered,          \* history: an explicit recovery since the last stop decision
    burnt,              \* history: all-unknown turns in a row without a recovery
    overtime            \* history: turns started after stopCh was closed

store == <<pending, verdict>>
wake == <<signal, timer>>
batches == <<queue, listed, dealt, turns, adjudicated>>
flush == <<explicit, reason, batches>>
breaker == <<suspended, stopRecord, recovered>>
counters == <<streak, outerErrors, writeFails, deferred, burnt>>
shutdown == <<stopping, stopper, cancelSet, cancelled, overtime>>
vars == <<arrival, store, wake, pc, flush, breaker, counters, shutdown, resets>>

-----------------------------------------------------------------------------
(* Vocabulary.                                                             *)

None == "none"

\* "done" stands for integrated and for skipped: both are final.
Adjudicated == {"done", "failed"}

Verdicts == Adjudicated \cup {"unknown"}

\* Stop reasons that scheduleNext turns into a suspension.
Suspending == {"internal_error_limit", "store_error", "unknown_streak"}

Reasons == Suspending \cup {"", "envelope_timeout", "stopped"}

MinOf(a, b) == IF a < b THEN a ELSE b

EventsIn(q) == UNION {q[i].events : i \in DOMAIN q}

-----------------------------------------------------------------------------
(* Batches.                                                                *)

\* FormBatches cuts the ordered events into runs; where a byte or token limit
\* makes it cut depends on sizes this module does not know.
FormBatches(events, cuts) ==
    [i \in 1 .. Cardinality(cuts) + 1 |->
        [events |-> {e \in events : Cardinality({c \in cuts : c <= e}) = i - 1},
         depth |-> 0]]

\* A cut is the first event of a batch other than the first batch.
LegalCuts(events, cuts) ==
    /\ cuts \subseteq events
    /\ \A c \in cuts : \E e \in events : e < c
    /\ \A i \in 1 .. Cardinality(cuts) + 1 :
           Cardinality(FormBatches(events, cuts)[i].events) <= BatchCap

\* blindBisect: the earlier half of a batch.
EarlierHalf(events) ==
    {e \in events : Cardinality({x \in events : x < e}) < Cardinality(events) \div 2}

\* classifyAndSplit and splitByViolationPaths: the first of the two retry
\* batches.  With violations, the pages the agent reported decide, which may be
\* any proper part of the batch; otherwise the batch is halved.
FirstParts(batch, violations) ==
    IF violations THEN (SUBSET batch.events) \ {{}, batch.events}
                  ELSE {EarlierHalf(batch.events)}

\* (mutant: the size of the batch is not looked at)
SplitAnySize(batch) == batch.depth < MaxDepth

Splittable(batch) ==
    /\ batch.depth < MaxDepth
    /\ Cardinality(batch.events) > SplitFloor

\* (mutant: the later half keeps the boundary event out)
RetryLossy(batch, first) ==
    <<[events |-> first, depth |-> batch.depth + 1],
      [events |-> {e \in batch.events \ first : \E x \in batch.events \ first : x < e},
       depth |-> batch.depth + 1]>>

RetryBatches(batch, first) ==
    <<[events |-> first, depth |-> batch.depth + 1],
      [events |-> batch.events \ first, depth |-> batch.depth + 1]>>

-----------------------------------------------------------------------------
(* /remember and operators.                                                *)

(* handleRemember: AppendEvent.  A flush can see the event from here on.   *)
AppendEvent(e) ==
    /\ arrival[e] = "absent"
    /\ pc # "starting"
    /\ arrival' = [arrival EXCEPT ![e] = "appended"]
    /\ UNCHANGED <<store, wake, pc, flush, breaker, counters, shutdown, resets>>

(* NotifyNewEvent, step 1: store.NotifyAppended.                           *)
QueueEvent(e) ==
    /\ arrival[e] = "appended"
    /\ arrival' = [arrival EXCEPT ![e] = "queued"]
    /\ pending' = pending \cup {e}
    /\ verdict' = [verdict EXCEPT ![e] = None]
    /\ UNCHANGED <<wake, pc, flush, breaker, counters, shutdown, resets>>

\* An explicit recovery: suspension and stop record are cleared together.
ClearSuspension ==
    /\ suspended' = FALSE
    /\ stopRecord' = FALSE
    /\ recovered' = TRUE
    /\ burnt' = IF suspended THEN 0 ELSE burnt

(* NotifyNewEvent, step 2: under coordinator.mu.                           *)
Resume(e) ==
    /\ arrival[e] = "queued"
    /\ arrival' = [arrival EXCEPT ![e] = "resumed"]
    /\ ClearSuspension
    /\ UNCHANGED <<store, wake, pc, flush, streak, outerErrors, writeFails, deferred,
                   shutdown, resets>>

\* (mutant: the wake-up is lost)
SignalNothing(e) ==
    /\ arrival[e] = "resumed"
    /\ arrival' = [arrival EXCEPT ![e] = "announced"]
    /\ UNCHANGED <<store, wake, pc, flush, breaker, counters, shutdown, resets>>

(* NotifyNewEvent, step 3: signalPending, which never blocks.              *)
SignalPending(e) ==
    /\ arrival[e] = "resumed"
    /\ arrival' = [arrival EXCEPT ![e] = "announced"]
    /\ signal' = TRUE
    /\ UNCHANGED <<store, timer, pc, flush, breaker, counters, shutdown, resets>>

(* ResetEvent, which holds coordinator.mu throughout.                      *)
ResetEvent(e) ==
    /\ pc # "starting"
    /\ resets < MaxResets
    /\ verdict[e] \in {"unknown", "failed"}
    /\ resets' = resets + 1
    /\ verdict' = [verdict EXCEPT ![e] = None]
    /\ pending' = pending \cup {e}
    /\ ClearSuspension
    /\ signal' = TRUE
    /\ UNCHANGED <<arrival, timer, pc, flush, streak, outerErrors, writeFails,
                   deferred, shutdown>>

ConfirmEvent(e) ==
    /\ pc # "starting"
    /\ verdict[e] = "unknown"
    /\ verdict' = [verdict EXCEPT ![e] = "done"]
    /\ UNCHANGED <<arrival, pending, wake, pc, flush, breaker, counters, shutdown,
                   resets>>

-----------------------------------------------------------------------------
(* The run loop.                                                           *)

(* run: recovery judges some pending events unknown (or fails, and judges  *)
(* none); the timer is armed in any case.                                  *)
Startup(interrupted) ==
    /\ pc = "starting"
    /\ interrupted \subseteq pending
    /\ verdict' = [e \in Events |-> IF e \in interrupted THEN "unknown" ELSE verdict[e]]
    /\ pending' = pending \ interrupted
    /\ timer' = TRUE
    /\ pc' = "select"
    /\ UNCHANGED <<arrival, signal, flush, breaker, counters, shutdown, resets>>

\* (mutant: the stop channel is looked at only when the timer is not armed)
TakeStopWhenIdle ==
    /\ pc = "select"
    /\ stopping
    /\ ~timer
    /\ pc' = "stopped"
    /\ UNCHANGED <<arrival, store, wake, flush, breaker, counters, shutdown, resets>>

TakeStop ==
    /\ pc = "select"
    /\ stopping
    /\ pc' = "stopped"
    /\ UNCHANGED <<arrival, store, wake, flush, breaker, counters, shutdown, resets>>

TakeSignal ==
    /\ pc = "select"
    /\ signal
    /\ signal' = FALSE
    /\ IF Cardinality(pending) >= FlushThreshold
       THEN pc' = "begin" /\ explicit' = TRUE /\ timer' = timer
       ELSE pc' = pc /\ explicit' = explicit /\ timer' = TRUE
    /\ UNCHANGED <<arrival, store, batches, reason, breaker, counters,
                   shutdown, resets>>

TakeTimer ==
    /\ pc = "select"
    /\ timer
    /\ timer' = FALSE
    /\ pc' = "begin"
    /\ explicit' = FALSE
    /\ UNCHANGED <<arrival, store, signal, batches, reason, breaker, counters,
                   shutdown, resets>>

\* (mutant: a new flush forgets the streak)
BeginAfresh ==
    /\ pc = "begin"
    /\ ~(suspended /\ ~explicit)
    /\ suspended' = FALSE
    /\ stopRecord' = IF explicit THEN FALSE ELSE stopRecord
    /\ burnt' = IF suspended THEN 0 ELSE burnt
    /\ streak' = 0
    /\ pc' = "list"
    /\ UNCHANGED <<arrival, store, wake, flush, recovered, outerErrors, writeFails,
                   deferred, shutdown, resets>>

(* flush: a suspended coordinator flushes only when asked to explicitly.   *)
BeginFlush ==
    /\ pc = "begin"
    /\ ~(suspended /\ ~explicit)
    /\ suspended' = FALSE
    /\ stopRecord' = IF explicit THEN FALSE ELSE stopRecord
    /\ burnt' = IF suspended THEN 0 ELSE burnt
    /\ pc' = "list"
    /\ UNCHANGED <<arrival, store, wake, flush, recovered, streak, outerErrors,
                   writeFails, deferred, shutdown, resets>>

\* The flush returns, for a reason scheduleNext will look at.
Return(why) ==
    /\ reason' = why
    /\ pc' = "schedule"
    /\ recovered' = IF why \in Suspending THEN FALSE ELSE recovered

RefuseFlush ==
    /\ pc = "begin"
    /\ suspended /\ ~explicit
    /\ Return("stopped")
    /\ UNCHANGED <<arrival, store, wake, explicit, batches, suspended, stopRecord,
                   counters, shutdown, resets>>

ListFails ==
    /\ pc = "list"
    /\ Return("store_error")
    /\ UNCHANGED <<arrival, store, wake, explicit, batches, suspended, stopRecord,
                   counters, shutdown, resets>>

\* (mutant: events that have a verdict are listed again)
ListableAgain == pending \cup {e \in Events : arrival[e] # "absent"}

Listable == pending \cup {e \in Events : arrival[e] # "absent" /\ verdict[e] = None}

\* (mutant: deferred events are not set aside)
ListPendingAll(cuts) ==
    /\ pc = "list"
    /\ pending' = Listable
    /\ deferred' = deferred \cap Listable
    /\ writeFails' = [e \in Events |-> IF e \in deferred \ Listable THEN 0 ELSE writeFails[e]]
    /\ LET events == Listable IN
       /\ LegalCuts(events, cuts)
       /\ listed' = events
       /\ queue' = IF events = {} THEN <<>> ELSE FormBatches(events, cuts)
    /\ dealt' = {}
    /\ turns' = 0
    /\ pc' = "loop"
    /\ UNCHANGED <<arrival, verdict, wake, explicit, reason, adjudicated, breaker, streak,
                   outerErrors, burnt, shutdown, resets>>

(* ListPendingEvents also queues events not announced yet; events whose    *)
(* status could not be written are set aside; the rest form batches.       *)
ListPending(cuts) ==
    /\ pc = "list"
    /\ pending' = Listable
    /\ deferred' = deferred \cap Listable
    /\ writeFails' = [e \in Events |-> IF e \in deferred \ Listable THEN 0 ELSE writeFails[e]]
    /\ LET events == Listable \ deferred IN
       /\ LegalCuts(events, cuts)
       /\ listed' = events
       /\ queue' = IF events = {} THEN <<>> ELSE FormBatches(events, cuts)
    /\ dealt' = {}
    /\ turns' = 0
    /\ pc' = "loop"
    /\ UNCHANGED <<arrival, verdict, wake, explicit, reason, adjudicated, breaker, streak,
                   outerErrors, burnt, shutdown, resets>>

FlushDone ==
    /\ pc = "loop"
    /\ queue = <<>>
    /\ Return("")
    /\ UNCHANGED <<arrival, store, wake, explicit, batches, suspended, stopRecord,
                   counters, shutdown, resets>>

(* A turn lasts at most MaxBatchCap, so a flush has time for a few.        *)
EnvelopeTimeout ==
    /\ pc = "loop"
    /\ queue # <<>>
    /\ turns >= EnvelopeTurns
    /\ Return("envelope_timeout")
    /\ UNCHANGED <<arrival, store, wake, explicit, batches, suspended, stopRecord,
                   counters, shutdown, resets>>

SeenStop ==
    /\ pc = "loop"
    /\ queue # <<>>
    /\ stopping
    /\ Return("stopped")
    /\ UNCHANGED <<arrival, store, wake, explicit, batches, suspended, stopRecord,
                   counters, shutdown, resets>>

\* (mutant: the stop channel is not looked at between batches)
NextBatchRegardless ==
    /\ pc = "loop"
    /\ queue # <<>>
    /\ pc' = "arm"
    /\ UNCHANGED <<arrival, store, wake, flush, breaker, counters, shutdown, resets>>

NextBatch ==
    /\ pc = "loop"
    /\ queue # <<>>
    /\ ~stopping
    /\ pc' = "arm"
    /\ UNCHANGED <<arrival, store, wake, flush, breaker, counters, shutdown, resets>>

(* setBatchCancel and setCurrentBatch, then RunBatchIngest.                *)
StartTurn ==
    /\ pc = "arm"
    /\ pc' = "turn"
    /\ cancelSet' = TRUE
    /\ cancelled' = FALSE
    /\ turns' = MinOf(turns + 1, EnvelopeTurns)
    /\ overtime' = IF stopping THEN overtime + 1 ELSE overtime
    /\ UNCHANGED <<arrival, store, wake, explicit, queue, listed, dealt, reason, adjudicated, breaker,
                   counters, stopping, stopper, resets>>

-----------------------------------------------------------------------------
(* The end of a turn: cancel and current batch are cleared, then the       *)
(* result is acted upon.                                                   *)

Current == Head(queue)

ClearCancel == cancelSet' = FALSE /\ cancelled' = FALSE

(* RunBatchIngest returns an error of its own: the batch is passed over,   *)
(* its events stay pending.                                                *)
TurnErrs ==
    /\ pc = "turn"
    /\ BackendErrs
    /\ ClearCancel
    /\ outerErrors' = MinOf(outerErrors + 1, OuterErrorLimit)
    /\ dealt' = dealt \cup Current.events
    /\ queue' = Tail(queue)
    /\ IF outerErrors' >= OuterErrorLimit
       THEN Return("internal_error_limit")
       ELSE pc' = "loop" /\ UNCHANGED <<reason, recovered>>
    /\ UNCHANGED <<arrival, store, wake, explicit, listed, turns, adjudicated, suspended,
                   stopRecord, streak, writeFails, deferred, burnt, stopping, stopper,
                   overtime, resets>>

(* One WriteStatus per event of the batch; those of lost fail.             *)
WriteStatuses(results, lost) ==
    LET written == DOMAIN results \ lost IN
    /\ pending' = pending \ written
    /\ verdict' = [e \in Events |-> IF e \in written THEN results[e] ELSE verdict[e]]
    /\ writeFails' = [e \in Events |-> IF e \in written THEN 0
                                       ELSE IF e \in lost THEN writeFails[e] + 1
                                       ELSE writeFails[e]]
    /\ deferred' = (deferred \ written) \cup {e \in lost : writeFails'[e] >= WriteFailLimit}
    /\ dealt' = dealt \cup DOMAIN results
    /\ queue' = Tail(queue)

TurnSucceeds(results, lost) ==
    /\ pc = "turn"
    /\ ClearCancel
    /\ outerErrors' = 0
    /\ WriteStatuses(results, lost)
    /\ adjudicated' = (\E e \in DOMAIN results : results[e] \in Adjudicated)
    /\ pc' = "record"
    /\ UNCHANGED <<arrival, wake, explicit, listed, turns, reason, breaker, streak, burnt,
                   stopping, stopper, overtime, resets>>

\* (mutant: the tripping flush goes on with its next batch)
RecordBatchOutcomesOnly ==
    /\ pc = "record"
    /\ streak' = IF adjudicated THEN 0 ELSE MinOf(streak + 1, StreakLimit)
    /\ burnt' = IF adjudicated THEN 0 ELSE burnt + 1
    /\ suspended' = (suspended \/ streak' >= StreakLimit)
    /\ stopRecord' = (stopRecord \/ streak' >= StreakLimit)
    /\ pc' = "loop"
    /\ UNCHANGED <<arrival, store, wake, flush, recovered, outerErrors, writeFails,
                   deferred, shutdown, resets>>

(* recordBatchOutcomes: only an adjudicated event ends the streak, and the *)
(* streak survives the trip, so that after a recovery one more all-unknown *)
(* batch trips the breaker again.                                          *)
RecordBatchOutcomes ==
    /\ pc = "record"
    /\ streak' = IF adjudicated THEN 0 ELSE MinOf(streak + 1, StreakLimit)
    /\ burnt' = IF adjudicated THEN 0 ELSE burnt + 1
    /\ IF streak' >= StreakLimit
       THEN suspended' = TRUE /\ stopRecord' = TRUE /\ Return("unknown_streak")
       ELSE pc' = "loop" /\ UNCHANGED <<suspended, stopRecord, recovered, reason>>
    /\ UNCHANGED <<arrival, store, wake, explicit, batches, outerErrors, writeFails, deferred, shutdown, resets>>

\* BatchResult.IsShutdownCancel: the agent was killed because of Stop.  A turn
\* that ended with violations just before is not.
IsShutdownCancel(violations) == cancelled /\ ~violations

(* The turn failed because Stop cancelled it: its events stay pending.     *)
TurnCancelled ==
    /\ pc = "turn"
    /\ IsShutdownCancel(FALSE)
    /\ ClearCancel
    /\ outerErrors' = 0
    /\ Return("stopped")
    /\ UNCHANGED <<arrival, store, wake, explicit, batches, suspended, stopRecord, streak, writeFails, deferred, burnt, stopping,
                   stopper, overtime, resets>>

(* A failed batch is split and both parts are retried at once ...          *)
TurnSplits(violations, first) ==
    /\ pc = "turn"
    /\ ~IsShutdownCancel(violations)
    /\ Splittable(Current)
    /\ first \in FirstParts(Current, violations)
    /\ ClearCancel
    /\ outerErrors' = 0
    /\ queue' = RetryBatches(Current, first) \o Tail(queue)
    /\ pc' = "loop"
    /\ UNCHANGED <<arrival, store, wake, explicit, listed, dealt, turns, reason, adjudicated,
                   breaker, streak, writeFails, deferred, burnt, stopping, stopper,
                   overtime, resets>>

(* ... or, when it cannot be split further, its events are failed.         *)
TurnFails(violations, lost) ==
    /\ pc = "turn"
    /\ ~IsShutdownCancel(violations)
    /\ ~Splittable(Current)
    /\ ClearCancel
    /\ outerErrors' = 0
    /\ WriteStatuses([e \in Current.events |-> "failed"], lost)
    /\ pc' = "loop"
    /\ UNCHANGED <<arrival, wake, explicit, listed, turns, reason, adjudicated, breaker,
                   streak, burnt, stopping, stopper, overtime, resets>>

-----------------------------------------------------------------------------
(* scheduleNext.                                                           *)

(* Under coordinator.mu: the last result, and whether to suspend.  The     *)
(* local state of the flush is gone.                                       *)
Schedule ==
    /\ pc = "schedule"
    /\ suspended' = (suspended \/ reason \in Suspending)
    /\ IF suspended' THEN timer' = FALSE /\ pc' = "select"
                     ELSE timer' = timer /\ pc' = "rearm"
    /\ explicit' = FALSE /\ queue' = <<>> /\ listed' = {} /\ dealt' = {} /\ turns' = 0
    /\ reason' = "" /\ adjudicated' = FALSE
    /\ UNCHANGED <<arrival, store, signal, stopRecord, recovered, counters,
                   shutdown, resets>>

\* (mutant: the timer is not set again after a flush that left work behind)
RearmNever ==
    /\ pc = "rearm"
    /\ timer' = FALSE
    /\ pc' = "select"
    /\ UNCHANGED <<arrival, store, signal, flush, breaker, counters, shutdown, resets>>

(* PendingCount: with work left that is not deferred, come back later.     *)
Rearm ==
    /\ pc = "rearm"
    /\ timer' = (Cardinality(pending) > Cardinality(deferred))
    /\ pc' = "select"
    /\ UNCHANGED <<arrival, store, signal, flush, breaker, counters, shutdown, resets>>

-----------------------------------------------------------------------------
(* Stop.                                                                   *)

StopCalled ==
    /\ stopper = "idle"
    /\ pc # "starting"
    /\ stopper' = "waiting"
    /\ stopping' = TRUE
    /\ UNCHANGED <<arrival, store, wake, pc, flush, breaker, counters, cancelSet,
                   cancelled, overtime, resets>>

StopReturns ==
    /\ stopper \in {"waiting", "forcing"}
    /\ pc = "stopped"
    /\ stopper' = "returned"
    /\ UNCHANGED <<arrival, store, wake, pc, flush, breaker, counters, stopping,
                   cancelSet, cancelled, overtime, resets>>

(* The shutdown deadline passes: cancel the turn, if one has been set up.  *)
StopForces ==
    /\ stopper = "waiting"
    /\ pc # "stopped"
    /\ stopper' = "forcing"
    /\ cancelled' = cancelSet
    /\ UNCHANGED <<arrival, store, wake, pc, flush, breaker, counters, stopping,
                   cancelSet, overtime, resets>>

(* The turn does not end within hardStopTimeout: Stop returns anyway.      *)
StopGivesUp ==
    /\ stopper = "forcing"
    /\ pc # "stopped"
    /\ stopper' = "returned"
    /\ UNCHANGED <<arrival, store, wake, pc, flush, breaker, counters, stopping,
                   cancelSet, cancelled, overtime, resets>>

-----------------------------------------------------------------------------
Init ==
    /\ arrival = [e \in Events |-> IF e \in Backlog THEN "announced" ELSE "absent"]
    /\ pending = Backlog
    /\ verdict = [e \in Events |-> None]
    /\ signal = FALSE /\ timer = TRUE
    /\ pc = "starting"
    /\ explicit = FALSE /\ queue = <<>> /\ listed = {} /\ dealt = {} /\ turns = 0
    /\ reason = "" /\ adjudicated = FALSE
    /\ suspended = FALSE /\ stopRecord = FALSE
    /\ streak = 0 /\ outerErrors = 0
    /\ writeFails = [e \in Events |-> 0] /\ deferred = {}
    /\ stopping = FALSE /\ stopper = "idle" /\ cancelSet = FALSE /\ cancelled = FALSE
    /\ resets = 0 /\ recovered = FALSE /\ burnt = 0 /\ overtime = 0

Client ==
    \E e \in Events :
        AppendEvent(e) \/ QueueEvent(e) \/ Resume(e) \/ SignalPending(e)

Operator == \E e \in Events : ResetEvent(e) \/ ConfirmEvent(e)

Wait ==
    \/ \E interrupted \in SUBSET pending : Startup(interrupted)
    \/ TakeStop
    \/ TakeSignal
    \/ TakeTimer

Turn ==
    \/ TurnErrs
    \/ \E lost \in SUBSET Current.events, results \in [Current.events -> Verdicts] :
           TurnSucceeds(results, lost)
    \/ TurnCancelled
    \/ \E violations \in BOOLEAN, first \in SUBSET Current.events :
           TurnSplits(violations, first)
    \/ \E violations \in BOOLEAN, lost \in SUBSET Current.events :
           TurnFails(violations, lost)

Flush ==
    \/ BeginFlush
    \/ RefuseFlush
    \/ ListFails
    \/ \E cuts \in SUBSET Events : ListPending(cuts)
    \/ FlushDone
    \/ EnvelopeTimeout
    \/ SeenStop
    \/ NextBatch
    \/ StartTurn
    \/ pc = "turn" /\ Turn
    \/ RecordBatchOutcomes
    \/ Schedule
    \/ Rearm

Stop == StopCalled \/ StopReturns \/ StopForces \/ StopGivesUp

RunLoop == Wait \/ Flush

Next == Client \/ Operator \/ RunLoop \/ Stop

Spec == Init /\ [][Next]_vars

(* The run loop is a goroutine that is never blocked for good: a turn ends *)
(* by its deadline, the timer fires, and select chooses at random among    *)
(* the ready channels, so it does not overlook the stop channel for ever.  *)
(* A /remember call, once begun, runs to its end.                          *)
Fairness ==
    /\ WF_vars(RunLoop)
    /\ SF_vars(TakeStop)
    /\ \A e \in Events : WF_vars(QueueEvent(e) \/ Resume(e) \/ SignalPending(e))

FairSpec == Spec /\ Fairness

-----------------------------------------------------------------------------
(* Properties.                                                             *)

\* The values every variable may take; the evidence of a tripped breaker is shown
\* only while it is in force (coordinator.go 276-321, 480-486).
TypeOK ==
    /\ arrival \in [Events -> {"absent", "appended", "queued", "resumed", "announced"}]
    /\ pending \in SUBSET Events
    /\ verdict \in [Events -> Verdicts \cup {None}]
    /\ {signal, timer, explicit, adjudicated} \subseteq BOOLEAN
    /\ pc \in {"starting", "select", "begin", "list", "loop", "arm", "turn", "record",
               "schedule", "rearm", "stopped"}
    /\ queue \in Seq([events : (SUBSET Events) \ {{}}, depth : 0 .. MaxDepth])
    /\ listed \in SUBSET Events /\ dealt \in SUBSET Events
    /\ turns \in 0 .. EnvelopeTurns
    /\ reason \in Reasons
    /\ {suspended, stopRecord, recovered} \subseteq BOOLEAN
    /\ stopRecord => suspended
    /\ streak \in 0 .. StreakLimit
    /\ outerErrors \in 0 .. OuterErrorLimit
    /\ writeFails \in [Events -> 0 .. WriteFailLimit]
    /\ deferred \in SUBSET Events
    /\ {stopping, cancelSet, cancelled} \subseteq BOOLEAN
    /\ stopper \in {"idle", "waiting", "forcing", "returned"}
    /\ resets \in 0 .. MaxResets
    /\ {burnt, overtime} \subseteq Nat

\* The run loop waits, and nothing that is under way will wake it.
Asleep ==
    /\ pc = "select" /\ ~signal /\ ~timer
    /\ \A e \in Events : arrival[e] \in {"absent", "announced"}

\* A flush neither loses nor repeats an event: while it runs, every event it
\* set out to run is in exactly one batch still to be run or belongs to a batch
\* it has finished with, however often batches were split (coordinator.go
\* 788-856, insertBatches at the index after the current one).
FlushConservesEvents ==
    pc \in {"loop", "arm", "turn"} =>
        /\ listed = EventsIn(queue) \cup dealt
        /\ EventsIn(queue) \cap dealt = {}
        /\ \A i, j \in DOMAIN queue : i # j => queue[i].events \cap queue[j].events = {}

\* Work is never forgotten: when the run loop sleeps with neither a wake-up nor
\* the timer to come, and no /remember call under way, then every pending event
\* is deferred, or the coordinator is suspended (coordinator.go 276-295,
\* 430-460: the timer is stopped after a flush that left nothing behind, while
\* an event may be arriving).
NoForgottenWork ==
    Asleep => pending \subseteq deferred \/ suspended

\* A suspended coordinator burns no turns: neither lists nor runs anything, not
\* even the rest of the flush in which the breaker tripped (coordinator.go
\* 474-479, 583-587).
NoTurnWhileSuspended ==
    pc \in {"list", "loop", "arm", "turn"} => ~suspended

\* The unknown-streak limit holds across flushes: without an adjudicated event
\* or a recovery from suspension, never more than StreakLimit turns end
\* all-unknown (coordinator.go 650-699).
BurnLimited ==
    burnt <= StreakLimit

\* An event whose status could not be written WriteFailLimit times is pending
\* but in no batch, so it costs no further turn (coordinator.go 498-519, 772-786).
DeferredNotRun ==
    /\ deferred = {e \in Events : writeFails[e] = WriteFailLimit}
    /\ deferred \subseteq pending
    /\ deferred \cap EventsIn(queue) = {}

\* A flush cut short by its envelope has finished with at least one batch:
\* splitting ends, and within the time any flush has, so pending work shrinks
\* from flush to flush (coordinator.go 528-532, 788-798).
EnvelopeMakesProgress ==
    pc = "schedule" /\ reason = "envelope_timeout" => dealt # {}

\* After Stop has closed the stop channel at most one more turn starts: the one
\* whose batch had been checked just before (coordinator.go 533-545, 900-924).
StopHonoured ==
    overtime <= 1

\* What an operator may believe of an event, from how far it has come and from
\* what the store says of it (GetEventStatus); "done" is a success.
StatusOf(arrived, stored) ==
    CASE arrived = "absent" -> "absent"
      [] arrived # "absent" /\ stored = None -> "pending"
      [] arrived # "absent" /\ stored = "done" -> "integrated"
      [] OTHER -> stored

LedgerStatus == [e \in Events |-> StatusOf(arrival[e], verdict[e])]

Unannounced == {e \in Events : arrival[e] = "appended"}

Ledger == INSTANCE EventLedger WITH
    status <- LedgerStatus, unsettled <- Unannounced, doubted <- {}

\* The coordinator writes no verdict over another: through listings, splits,
\* retries, resets and confirmations an event is judged only while it waits for a
\* verdict, a success stays one and nothing is forgotten, unless /remember
\* announces the event after its verdict (coordinator.go 486-526, 563-617,
\* 741-786; store.go 332-381).
KeepsLedger == Ledger!LedgerSpec

\* NotifyNewEvent calls itself the explicit recovery point, which clears a
\* suspension and does not depend on the wake-up reaching the threshold
\* (coordinator.go:276-280): once it, or a reset, has come after the last
\* decision to stop, the run loop does not go to sleep suspended.
RecoveryIsNotLost ==
    Asleep /\ recovered => ~suspended

\* Every pending event is eventually given a verdict, or deferred, or waits for
\* an operator because the coordinator is suspended, or for the next start.
PendingIsResolved ==
    \A e \in Events :
        e \in pending ~> (e \notin pending \/ e \in deferred \/ suspended \/ stopping)

\* Once asked to stop, the run loop ends.
StopEndsRunLoop ==
    stopping ~> pc = "stopped"
=============================================================================
