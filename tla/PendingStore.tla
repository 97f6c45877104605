---------------------------- MODULE PendingStore ----------------------------
(***************************************************************************)
(* The durable per-event ledger of batch ingest (internal/agent/store.go)  *)
(* under everything that touches it at once: HTTP handlers that append an  *)
(* event to the raw log and announce it, the coordinator's flush that      *)
(* lists pending events, runs agent turns and writes verdicts, operators   *)
(* that reset or confirm an event, compile turns that rewrite the pages,   *)
(* and crashes at any point.                                               *)
(*                                                                         *)
(* Data abstraction.  The status log is an append-only file in which the   *)
(* last valid record of an event wins, so it is represented by what a load *)
(* would compute from it now (durable) and by whether its last line lacks  *)
(* a newline (tail).  An event is its identity.  The control flow of the   *)
(* flush (timers, suspension, splitting) is in module Coordinator; here a  *)
(* flush is any sequence of turns on what it listed.  A compile turn is    *)
(* seen only by what its merge does to the names in the wiki.              *)
(***************************************************************************)
EXTENDS Naturals, FiniteSets

CONSTANTS
    Events,         \* identities of raw events
    Legacy,         \* events on the raw log before the first start
    EpochGiven,     \* is BATCH_INGEST_EPOCH set?
    Outcomes,       \* what an append to the status log may do, see AppendRecord
    MaxRecords,     \* bound: appends to the status log that reach the file
    MaxCrashes      \* bound: process deaths

ASSUME EventsAssumption == IsFiniteSet(Events) /\ Legacy \subseteq Events

ASSUME EpochAssumption == EpochGiven \in BOOLEAN

ASSUME OutcomesAssumption ==
    /\ "ok" \in Outcomes
    /\ Outcomes \subseteq {"ok", "unsynced", "unopened", "torn"}

ASSUME BoundsAssumption == MaxRecords \in Nat /\ MaxCrashes \in Nat

VARIABLES
    raw,            \* events on the raw log (storage.FS)
    announcing,     \* /remember calls between AppendEvent and NotifyAppended
    file,           \* the status log: "missing" until bootstrap installs it
    durable,        \* the status a load of the status log would give each event
    tail,           \* "torn" when the last line of the status log has no newline
    records,        \* appends so far (bound only)
    known,          \* store.knownIDs
    pending,        \* store.pendingIDs
    terminal,       \* store.terminal
    flush,          \* where the flush goroutine is
    listed,         \* the snapshot, then the events, the flush still has to run
    batch,          \* the batch of the turn, then its events without a status
    admin,          \* the operator request that holds coordinator.mu
    wiki,           \* events named in compiled_from of some merged page
    compiled,       \* history: events a compile turn's pages named before a verdict
    proc,           \* "down", "recovering" or "up"
    crashes,        \* process deaths so far (bound only)
    late,           \* history: events announced after they had a verdict
    excused,        \* history: events reset, or whose verdict was not acknowledged
    doubtful        \* history: events whose last record is glued or unacknowledged

memory == <<known, pending, terminal>>
log == <<file, durable, tail, records, doubtful>>
flushing == <<flush, listed, batch>>
naming == <<wiki, compiled>>
vars == <<raw, announcing, log, memory, flushing, admin, naming, proc, crashes,
          late, excused>>

-----------------------------------------------------------------------------
(* Vocabulary.                                                             *)

Success == {"integrated", "skipped"}

Verdicts == Success \cup {"failed", "unknown"}

\* An event without an entry in store.terminal, or without a valid record.
None == "none"

NoAdmin == [op |-> "none"]

AdminRequests == [op : {"reset", "confirm"}, event : Events, step : {"write", "notify"}]

\* What an agent turn reports of one event (parseEventResults).
EventResults == Success \cup {"failed_by_agent", "unknown"}

\* (mutant: the agent's own word is written)
StatusOfUnmapped(result) == result

\* persistEventStatuses: the status written for a result.
StatusOf(result) == IF result = "failed_by_agent" THEN "failed" ELSE result

Terminal == {e \in Events : terminal[e] # None}

\* (mutant: the flush does not wait for coordinator.mu)
MuIgnored == TRUE

\* Can the flush take coordinator.mu?  An operator request holds it throughout.
MuFree == admin = NoAdmin

-----------------------------------------------------------------------------
(* The status log.                                                         *)

(* One record is appended (O_APPEND, write, fsync).  The write may not     *)
(* happen at all ("unopened"), happen but not be acknowledged ("unsynced": *)
(* the fsync failed), or be cut short ("torn").  After a torn line, the    *)
(* next record is glued to it and the combined line is unreadable.         *)
AppendRecord(e, status, outcome) ==
    /\ outcome \in Outcomes
    /\ file' = file
    /\ \/ /\ outcome = "unopened"
          /\ UNCHANGED <<durable, tail, records, doubtful>>
       \/ /\ outcome = "torn"
          /\ records < MaxRecords
          /\ tail' = "torn"
          /\ records' = records + 1
          /\ UNCHANGED <<durable, doubtful>>
       \/ /\ outcome \in {"ok", "unsynced"}
          /\ records < MaxRecords
          /\ records' = records + 1
          /\ tail' = "clean"
          /\ IF tail = "torn"
             THEN durable' = durable /\ doubtful' = doubtful \cup {e}
             ELSE /\ durable' = [durable EXCEPT ![e] = status]
                  /\ doubtful' = IF outcome = "ok" THEN doubtful \ {e}
                                                  ELSE doubtful \cup {e}

\* (mutant: memory follows even a write that failed)
RecordVerdictEagerly(e, status, outcome) ==
    /\ AppendRecord(e, status, outcome)
    /\ known' = known \cup {e}
    /\ terminal' = [terminal EXCEPT ![e] = status]
    /\ pending' = pending \ {e}

(* WriteStatuses for one event: memory follows only an acknowledged write. *)
RecordVerdict(e, status, outcome) ==
    /\ AppendRecord(e, status, outcome)
    /\ IF outcome = "ok"
       THEN /\ known' = known \cup {e}
            /\ terminal' = [terminal EXCEPT ![e] = status]
            /\ pending' = pending \ {e}
       ELSE UNCHANGED memory

Untold(snapshot) == {e \in snapshot : terminal[e] = None}

\* Announced since the snapshot was taken.
CarriedOver(snapshot) == {e \in pending \ snapshot : terminal[e] = None}

\* (mutant: the snapshot is taken for the whole truth)
ReconciledWithoutCarry(snapshot) ==
    /\ known' = snapshot
    /\ pending' = Untold(snapshot)
    /\ terminal' = terminal

\* (mutant: a carried-over event is queued but not known)
ReconciledForgetful(snapshot) ==
    /\ known' = snapshot
    /\ pending' = Untold(snapshot) \cup CarriedOver(snapshot)
    /\ terminal' = terminal

(* reconcilePending: memory is rebuilt from a snapshot of the raw log, but *)
(* events announced since the snapshot was taken are carried over.         *)
Reconciled(snapshot) ==
    /\ known' = snapshot \cup CarriedOver(snapshot)
    /\ pending' = Untold(snapshot) \cup CarriedOver(snapshot)
    /\ terminal' = terminal

-----------------------------------------------------------------------------
(* Clients.                                                                *)

(* handleRemember: AppendEvent puts the event on the raw log.              *)
AppendEvent(e) ==
    /\ proc = "up"
    /\ e \notin raw
    /\ raw' = raw \cup {e}
    /\ announcing' = announcing \cup {e}
    /\ UNCHANGED <<log, memory, flushing, admin, naming, proc, crashes, late, excused>>

(* NotifyAppended, from NotifyNewEvent.  It re-queues the event even when  *)
(* a flush that saw it on the raw log has already given it a verdict.      *)
NotifyAppended(e) ==
    /\ proc = "up"
    /\ e \in announcing
    /\ announcing' = announcing \ {e}
    /\ known' = known \cup {e}
    /\ terminal' = [terminal EXCEPT ![e] = None]
    /\ pending' = pending \cup {e}
    /\ late' = IF terminal[e] = None THEN late ELSE late \cup {e}
    /\ UNCHANGED <<raw, log, flushing, admin, naming, proc, crashes, excused>>

-----------------------------------------------------------------------------
(* The flush, as the store sees it.                                        *)

(* ListPendingEvents, first half: ListEvents runs before store.mu is taken. *)
ListEvents ==
    /\ proc = "up"
    /\ flush = "idle"
    /\ MuFree
    /\ flush' = "listing"
    /\ listed' = raw
    /\ UNCHANGED <<raw, announcing, log, memory, batch, admin, naming, proc,
                   crashes, late, excused>>

(* ListPendingEvents, second half: reconcile and select under store.mu.    *)
SelectPending ==
    /\ proc = "up"
    /\ flush = "listing"
    /\ Reconciled(listed)
    /\ flush' = "listed"
    /\ listed' = listed \cap pending'
    /\ UNCHANGED <<raw, announcing, log, batch, admin, naming, proc,
                   crashes, late, excused>>

(* A turn starts on some of the listed events; setBatchCancel and          *)
(* setCurrentBatch take coordinator.mu first.                              *)
StartTurn(b) ==
    /\ proc = "up"
    /\ flush = "listed"
    /\ MuFree
    /\ b # {}
    /\ flush' = "turn"
    /\ listed' = listed \ b
    /\ batch' = b
    /\ UNCHANGED <<raw, announcing, log, memory, admin, naming, proc, crashes, late, excused>>

(* The turn is merged: the wiki now names whatever the agent put in        *)
(* compiled_from.  (A batch that failed for good merges nothing.)  What a  *)
(* compile turn had named of the batch is from here on the batch's own.    *)
MergeTurn(pages) ==
    /\ proc = "up"
    /\ flush = "turn"
    /\ flush' = "persist"
    /\ wiki' = pages
    /\ compiled' = compiled \ batch
    /\ UNCHANGED <<raw, announcing, log, memory, listed, batch, admin, proc,
                   crashes, late, excused>>

(* The turn fails without a verdict: the batch is split and retried, or    *)
(* its events stay pending for a later flush.                              *)
DropTurn ==
    /\ proc = "up"
    /\ flush = "turn"
    /\ flush' = "listed"
    /\ listed' \in {listed, listed \cup batch}
    /\ batch' = {}
    /\ UNCHANGED <<raw, announcing, log, memory, admin, naming, proc, crashes, late, excused>>

(* WriteStatus of one event of the batch.  An unacknowledged write leaves  *)
(* the event pending, so a later turn takes it again.                      *)
PersistStatus(e, result, outcome) ==
    /\ proc = "up"
    /\ flush = "persist"
    /\ e \in batch
    /\ RecordVerdict(e, StatusOf(result), outcome)
    /\ batch' = batch \ {e}
    /\ flush' = IF batch' = {} THEN "listed" ELSE "persist"
    /\ excused' = IF outcome = "ok" THEN excused \ {e} ELSE excused \cup {e}
    /\ UNCHANGED <<raw, announcing, listed, admin, naming, proc, crashes, late>>

EndFlush ==
    /\ proc = "up"
    /\ flush = "listed"
    /\ flush' = "idle"
    /\ listed' = {}
    /\ UNCHANGED <<raw, announcing, log, memory, batch, admin, naming, proc,
                   crashes, late, excused>>

-----------------------------------------------------------------------------
(* The other writer of the wiki: POST /compile and the automatic compile.  *)

(* A compile turn is merged.  It was given events of the raw log from its  *)
(* own cursor on, whatever their status, its prompt asks for pages that    *)
(* name them, and it may drop or archive pages.  It tells the store        *)
(* nothing.  (wikiMu keeps it out of a batch turn, but neither out of one  *)
(* that still waits for wikiMu nor of the status writes after the merge.)  *)
CompileTurn(pages) ==
    /\ proc = "up"
    /\ wiki' = pages
    /\ compiled' = compiled \cup {e \in pages \ wiki : terminal[e] = None}
    /\ UNCHANGED <<raw, announcing, log, memory, flushing, admin, proc, crashes,
                   late, excused>>

-----------------------------------------------------------------------------
(* Operators: each request holds coordinator.mu from start to end, but     *)
(* takes store.mu separately for every call it makes.                      *)

AdminStart(op, e) ==
    /\ proc = "up"
    /\ admin = NoAdmin
    /\ terminal[e] \in IF op = "reset" THEN {"failed", "unknown"} ELSE {"unknown"}
    /\ admin' = [op |-> op, event |-> e, step |-> "write"]
    /\ UNCHANGED <<raw, announcing, log, memory, flushing, naming, proc, crashes,
                   late, excused>>

(* ResetEvent: the tombstone deletes the status, in the log and in memory. *)
WriteTombstone(outcome) ==
    /\ proc = "up"
    /\ admin # NoAdmin
    /\ admin.op = "reset" /\ admin.step = "write"
    /\ LET e == admin.event IN
       /\ AppendRecord(e, None, outcome)
       /\ IF outcome = "ok"
          THEN /\ known' = known \cup {e}
               /\ terminal' = [terminal EXCEPT ![e] = None]
               /\ pending' = pending \cup {e}
               /\ admin' = [admin EXCEPT !.step = "notify"]
          ELSE UNCHANGED memory /\ admin' = NoAdmin
       /\ excused' = excused \cup {e}
    /\ UNCHANGED <<raw, announcing, flushing, naming, proc, crashes, late>>

(* ResetEvent: the NotifyAppended call that follows the tombstone.         *)
AnnounceReset ==
    /\ proc = "up"
    /\ admin # NoAdmin
    /\ admin.op = "reset" /\ admin.step = "notify"
    /\ LET e == admin.event IN
       /\ known' = known \cup {e}
       /\ terminal' = [terminal EXCEPT ![e] = None]
       /\ pending' = pending \cup {e}
    /\ admin' = NoAdmin
    /\ UNCHANGED <<raw, announcing, log, flushing, naming, proc, crashes, late, excused>>

ConfirmEvent(outcome) ==
    /\ proc = "up"
    /\ admin # NoAdmin
    /\ admin.op = "confirm"
    /\ RecordVerdict(admin.event, "integrated", outcome)
    /\ admin' = NoAdmin
    /\ UNCHANGED <<raw, announcing, flushing, naming, proc, crashes, late, excused>>

-----------------------------------------------------------------------------
(* The process.                                                            *)

\* Is the flush, an operator or the recovery possibly inside a write?
Writing ==
    \/ flush = "persist"
    \/ admin # NoAdmin /\ admin.step = "write"
    \/ proc = "recovering"

(* The process dies: memory, calls and requests are gone; a write that was *)
(* under way may have left a torn line.                                    *)
Crash ==
    /\ proc # "down"
    /\ crashes < MaxCrashes
    /\ crashes' = crashes + 1
    /\ proc' = "down"
    /\ announcing' = {}
    /\ known' = {} /\ pending' = {}
    /\ terminal' = [e \in Events |-> None]
    /\ flush' = "idle" /\ listed' = {} /\ batch' = {}
    /\ admin' = NoAdmin
    /\ tail' \in IF Writing /\ "torn" \in Outcomes THEN {tail, "torn"} ELSE {tail}
    /\ late' = {}
    /\ UNCHANGED <<raw, file, durable, records, doubtful, naming, excused>>

(* NewPendingEventStore without a status log: an operator-given epoch      *)
(* splits the raw log into integrated history and pending events; with no  *)
(* epoch only an empty raw log is accepted.  The new file is installed by  *)
(* a rename, so a crash leaves either no file or all of it.                *)
Bootstrap(old) ==
    /\ proc = "down"
    /\ file = "missing"
    /\ IF EpochGiven THEN old \subseteq raw ELSE raw = {} /\ old = {}
    /\ file' = "present"
    /\ durable' = [e \in Events |-> IF e \in old THEN "integrated" ELSE None]
    /\ terminal' = durable'
    /\ known' = raw
    /\ pending' = raw \ old
    /\ proc' = "recovering"
    /\ UNCHANGED <<raw, announcing, tail, records, doubtful, flushing, admin,
                   naming, crashes, late, excused>>

(* NewPendingEventStore with a status log: load it, then reconcile with    *)
(* the raw log.  (The limits on unreadable lines, more than ten and more   *)
(* than a tenth of the file, are beyond any bound used here.)              *)
Load ==
    /\ proc = "down"
    /\ file = "present"
    /\ terminal' = durable
    /\ known' = raw
    /\ pending' = {e \in raw : durable[e] = None}
    /\ proc' = "recovering"
    /\ UNCHANGED <<raw, announcing, log, flushing, admin, naming, crashes, late, excused>>

\* Pending events that a merged page names: a turn was merged, the verdict lost.
Interrupted == pending \cap wiki

\* (mutant: interrupted events are left pending)
RecoverNothing(done, lost, outcome) ==
    /\ UNCHANGED <<log, memory>>
    /\ proc' = "up"
    /\ excused' = excused

(* RecoverFromCrash, before the HTTP server and the first flush: every     *)
(* interrupted event becomes unknown.  The records are appended in one     *)
(* call and fsynced once; done is what reached the file, lost the one that *)
(* was glued to a torn line.  A failure is logged and startup goes on.     *)
RecoverFromCrash(done, lost, outcome) ==
    /\ proc' = "up"
    /\ file' = file
    /\ outcome \in Outcomes
    /\ done \subseteq Interrupted
    /\ records + Cardinality(done) <= MaxRecords
    /\ records' = records + Cardinality(done)
    /\ Interrupted = {} => outcome = "ok"
    /\ outcome = "ok" => done = Interrupted
    /\ outcome = "torn" => done # Interrupted
    /\ outcome = "unopened" => done = {}
    /\ IF tail = "torn" /\ done # {} THEN lost \subseteq done /\ Cardinality(lost) = 1
                                     ELSE lost = {}
    /\ durable' = [e \in Events |-> IF e \in done \ lost THEN "unknown" ELSE durable[e]]
    /\ doubtful' = IF outcome = "ok" THEN (doubtful \ done) \cup lost
                                     ELSE doubtful \cup done
    /\ tail' = IF outcome = "torn" THEN "torn"
               ELSE IF done # {} THEN "clean" ELSE tail
    /\ IF outcome = "ok"
       THEN /\ terminal' = [e \in Events |-> IF e \in Interrupted THEN "unknown"
                                                                  ELSE terminal[e]]
            /\ pending' = pending \ Interrupted
            /\ known' = known \cup Interrupted
            /\ excused' = excused
       ELSE UNCHANGED memory /\ excused' = excused \cup Interrupted

Recover(done, lost, outcome) ==
    /\ proc = "recovering"
    /\ RecoverFromCrash(done, lost, outcome)
    /\ UNCHANGED <<raw, announcing, flushing, admin, naming, crashes, late>>

-----------------------------------------------------------------------------
Init ==
    /\ raw = Legacy
    /\ announcing = {}
    /\ file = "missing"
    /\ durable = [e \in Events |-> None]
    /\ tail = "clean"
    /\ records = 0
    /\ doubtful = {}
    /\ known = {} /\ pending = {}
    /\ terminal = [e \in Events |-> None]
    /\ flush = "idle" /\ listed = {} /\ batch = {}
    /\ admin = NoAdmin
    /\ wiki \in SUBSET Legacy
    /\ proc = "down"
    /\ crashes = 0
    /\ late = {} /\ excused = {} /\ compiled = {}

Remember == \E e \in Events : AppendEvent(e) \/ NotifyAppended(e)

Flush ==
    \/ ListEvents
    \/ SelectPending
    \/ \E b \in SUBSET listed : StartTurn(b)
    \/ \E pages \in SUBSET (wiki \cup batch) : MergeTurn(pages)
    \/ DropTurn
    \/ \E e \in batch, r \in EventResults, o \in Outcomes : PersistStatus(e, r, o)
    \/ EndFlush

Admin ==
    \/ \E op \in {"reset", "confirm"}, e \in Events : AdminStart(op, e)
    \/ \E o \in Outcomes : WriteTombstone(o) \/ ConfirmEvent(o)
    \/ AnnounceReset

Process ==
    \/ Crash
    \/ \E old \in SUBSET raw : Bootstrap(old)
    \/ Load
    \/ \E done, lost \in SUBSET Interrupted, o \in Outcomes : Recover(done, lost, o)

Compile == \E pages \in SUBSET raw : CompileTurn(pages)

Next == Remember \/ Flush \/ Compile \/ Admin \/ Process

Spec == Init /\ [][Next]_vars

-----------------------------------------------------------------------------
(* Properties.                                                             *)

\* The values every variable may take.
TypeOK ==
    /\ raw \in SUBSET Events /\ announcing \in SUBSET raw
    /\ file \in {"missing", "present"}
    /\ durable \in [Events -> Verdicts \cup {None}]
    /\ tail \in {"clean", "torn"}
    /\ records \in 0 .. MaxRecords
    /\ known \in SUBSET raw /\ pending \in SUBSET raw
    /\ terminal \in [Events -> Verdicts \cup {None}]
    /\ flush \in {"idle", "listing", "listed", "turn", "persist"}
    /\ listed \in SUBSET raw /\ batch \in SUBSET raw
    /\ admin \in AdminRequests \cup {NoAdmin}
    /\ wiki \in SUBSET raw /\ compiled \in SUBSET raw
    /\ proc \in {"down", "recovering", "up"}
    /\ crashes \in 0 .. MaxCrashes
    /\ late \in SUBSET raw /\ excused \in SUBSET raw /\ doubtful \in SUBSET raw

\* No remembered event is ever lost: while the process runs, an event on the
\* raw log is pending, or has a verdict, or its /remember call has yet to
\* announce it.  The hazard is reconcilePending working from a snapshot of the
\* raw log that is older than the announcement (store.go:332-352).
NoEventLost ==
    proc # "down" => raw \subseteq pending \cup Terminal \cup announcing

\* What Counts reports adds up: the known events are the pending ones and
\* those with a verdict, and no event is both (store.go:613-633, 394-457).
CountsPartition ==
    /\ pending \cap Terminal = {}
    /\ known = pending \cup Terminal

\* A verdict the store shows is the verdict the next start will load, unless
\* the last append for it was glued to a torn line or not acknowledged: memory
\* is changed only after the append is acknowledged (store.go:438-457).
VerdictIsDurable ==
    \A e \in Terminal \ doubtful : durable[e] = terminal[e]

\* A turn is never started, on its own account, on an event that a merged page
\* already names, be it the page of an earlier turn on it or of any flush before
\* a crash: after a crash between the merge and the status write the recovery
\* makes the event unknown first (coordinator.go:363-379 and store.go:528-585).
\* Excused are the events an operator reset, those whose announcement came after
\* a flush had taken them from the raw log, those whose status write (or
\* recovery) failed, and those that a compile turn named while they waited for
\* their own turn: a compile turn leaves them pending (handler.go:441-467), and
\* the next flush integrates them a second time.
NoSilentReingest ==
    [][\A e \in batch' \ batch : e \in wiki => e \in excused \cup late \cup compiled]_vars

-----------------------------------------------------------------------------
(* The ledger an operator believes in: memory while the process runs, what *)
(* a load would give while it is down.                                     *)

Believed(e) == IF proc = "down" THEN durable[e] ELSE terminal[e]

LedgerStatus ==
    [e \in Events |->
        IF e \notin raw THEN "absent"
        ELSE IF Believed(e) = None THEN "pending" ELSE Believed(e)]

Ledger == INSTANCE EventLedger WITH
    status <- LedgerStatus, unsettled <- announcing \cup late, doubted <- doubtful

\* The store implements the abstract ledger: events are never forgotten, and a
\* success is never undone unless the event was announced too late or the disk
\* failed to take the verdict.
ImplementsLedger == Ledger!LedgerSpec
=============================================================================
