---------------------------- MODULE EventLedger ----------------------------
(***************************************************************************)
(* What the batch-ingest machinery promises about every event that a      *)
(* client asked to remember, whatever the goroutines, the disk and the    *)
(* process do meanwhile.  An event is absent until it is recorded; it is  *)
(* then pending until it gets a verdict; a verdict of failed or unknown   *)
(* can be undone (reset) or, for unknown, confirmed by an operator; a     *)
(* verdict of integrated or skipped is final, unless it was given before  *)
(* the /remember call that recorded the event had announced it, or the    *)
(* disk did not take it properly.                                         *)
(*                                                                         *)
(* PendingStore and Coordinator implement this specification.             *)
(***************************************************************************)
CONSTANT Events         \* identities of raw events

VARIABLES
    status,             \* status[e]: what an operator is entitled to believe
    unsettled,          \* events not announced yet, or announced after a verdict
    doubted             \* events whose last verdict the disk did not take properly

Success == {"integrated", "skipped"}

Verdicts == Success \cup {"failed", "unknown"}

LedgerTypeOK ==
    /\ status \in [Events -> Verdicts \cup {"absent", "pending"}]
    /\ unsettled \in SUBSET Events
    /\ doubted \in SUBSET Events

(* An event is written on the raw log. *)
Recorded(e) ==
    /\ status[e] = "absent"
    /\ status'[e] = "pending"

(* A flush, or the recovery after a crash, gives a verdict. *)
Judged(e) ==
    /\ status[e] = "pending"
    /\ status'[e] \in Verdicts

(* POST /admin reset. *)
ResetByOperator(e) ==
    /\ status[e] \in {"failed", "unknown"}
    /\ status'[e] = "pending"

(* POST /admin confirm. *)
ConfirmedByOperator(e) ==
    /\ status[e] = "unknown"
    /\ status'[e] = "integrated"

(* Nothing is promised of the verdict on such an event, only that the      *)
(* event itself is not forgotten.                                          *)
Unreliable(e) ==
    /\ e \in unsettled \cup doubted
    /\ status[e] # "absent"
    /\ status'[e] # "absent"

(* One event moves along one edge of its life cycle, or stays. *)
Move(e) ==
    \/ status'[e] = status[e]
    \/ Recorded(e)
    \/ Judged(e)
    \/ ResetByOperator(e)
    \/ ConfirmedByOperator(e)
    \/ Unreliable(e)

(* A step may judge several events (recovery judges all it finds at once); *)
(* only an event that is being recorded becomes unsettled.                 *)
LedgerNext ==
    /\ status' \in [Events -> Verdicts \cup {"absent", "pending"}]
    /\ unsettled' \in SUBSET Events
    /\ doubted' \in SUBSET Events
    /\ \A e \in Events : Move(e)
    /\ \A e \in unsettled' \ unsettled : Recorded(e)

LedgerInit ==
    /\ status \in [Events -> Verdicts \cup {"absent", "pending"}]
    /\ unsettled = {}
    /\ doubted = {}

LedgerSpec == LedgerInit /\ [][LedgerNext]_<<status, unsettled, doubted>>
=============================================================================
