------------------------------ MODULE Batching -------------------------------
(***************************************************************************)
(* FormBatches and parseEventResults (internal/agent/batch.go): how the    *)
(* pending events are cut into batches, and what the agent's report says   *)
(* of each event of its batch.                                             *)
(*                                                                         *)
(* Data abstraction.  An event is its id, a number, with a time and a size *)
(* in bytes.  The report is a sequence of lines; a line that the pattern   *)
(* for verdicts matches names an event, a status and a tail that is either *)
(* what the status requires or not; every other line is Prose.             *)
(***************************************************************************)
EXTENDS Naturals, Sequences, FiniteSets, SequencesExt, FiniteSetsExt

CONSTANTS
    Events,             \* ids of the events there may be
    Stranger,           \* an id that no event has
    Created,            \* the time of each event
    Bytes,              \* the size of each event
    MaxEventsPerBatch, MaxTokensPerBatch, MaxBytesPerBatch

ASSUME EventAssumption ==
    /\ IsFiniteSet(Events) /\ Events \subseteq Nat
    /\ Stranger \in Nat \ Events
    /\ Created \in [Events -> Nat] /\ Bytes \in [Events -> Nat]

ASSUME BatchLimitAssumption ==
    {MaxEventsPerBatch, MaxTokensPerBatch, MaxBytesPerBatch} \subseteq Nat \ {0}

-----------------------------------------------------------------------------
(* Forming batches *)

Before(e, f) == Created[e] < Created[f] \/ (Created[e] = Created[f] /\ e < f)

Ordered(pending) ==
    CHOOSE line \in [1..Cardinality(pending) -> pending] :
        \A i, j \in DOMAIN line : i < j => Before(line[i], line[j])

ByteSize(batch) == FoldLeft(LAMBDA sum, e : sum + Bytes[e], 0, batch)

\* four bytes to a token, rounded down for each event
TokenEst(batch) == FoldLeft(LAMBDA sum, e : sum + Bytes[e] \div 4, 0, batch)

WithinLimits(batch) ==
    /\ Len(batch) <= MaxEventsPerBatch
    /\ ByteSize(batch) <= MaxBytesPerBatch
    /\ TokenEst(batch) <= MaxTokensPerBatch

\* (mutant: the event that opens a new batch is left out of it)
DropsTheCut(batches, e) ==
    IF WithinLimits(Append(Last(batches), e)) \/ Last(batches) = <<>>
    THEN [batches EXCEPT ![Len(batches)] = Append(@, e)]
    ELSE Append(batches, <<>>)

\* the batch in the making takes the event unless it would exceed a limit; an
\* event too large for any batch has one to itself
AddEvent(batches, e) ==
    IF WithinLimits(Append(Last(batches), e)) \/ Last(batches) = <<>>
    THEN [batches EXCEPT ![Len(batches)] = Append(@, e)]
    ELSE Append(batches, <<e>>)

FormBatches(pending) ==
    IF pending = {} THEN <<>> ELSE FoldLeft(AddEvent, << <<>> >>, Ordered(pending))

-----------------------------------------------------------------------------
(* Reading the report *)

Prose == [event |-> Stranger, status |-> "none", tail |-> FALSE]

Line == {Prose} \union
        [event : Events \union {Stranger},
         status : {"INTEGRATED", "SKIPPED", "FAILED"},
         tail : BOOLEAN]        \* are there pages, or is there a reason?

StatusOf(line) ==
    CASE line.status = "INTEGRATED" -> "integrated"
      [] line.status = "SKIPPED" -> "skipped"
      [] OTHER -> "failed_by_agent"

\* parseEventResultLine takes the line
Counts(line) == line # Prose /\ line.tail

Unknown(summary, batch) ==
    [status |-> "unknown",
     reason |->
        LET named == {line.event : line \in {l \in Range(summary) : Counts(l)}}
        IN  CASE summary = <<>> -> "turn_ended_no_output"
              [] named # {} /\ named \intersect Range(batch) = {} -> "malformed_verdict"
              [] OTHER -> "no_per_event_verdict"]

\* (mutant: the first verdict of an event is taken)
KeepsFirst(parsed, line) ==
    IF Counts(line) /\ line.event \in DOMAIN parsed /\ parsed[line.event].status = "unknown"
    THEN [parsed EXCEPT ![line.event] = [status |-> StatusOf(line), reason |-> "agent"]]
    ELSE parsed

\* a later verdict of an event replaces the earlier one
ReadLine(parsed, line) ==
    IF Counts(line) /\ line.event \in DOMAIN parsed
    THEN [parsed EXCEPT ![line.event] = [status |-> StatusOf(line), reason |-> "agent"]]
    ELSE parsed

ParseEventResults(batch, summary) ==
    FoldLeft(ReadLine, [e \in Range(batch) |-> Unknown(summary, batch)], summary)

-----------------------------------------------------------------------------
(* What a correct cut is *)

BytesOf(S) == MapThenSumSet(LAMBDA e : Bytes[e], S)

TokensOf(S) == MapThenSumSet(LAMBDA e : Bytes[e] \div 4, S)

\* one batch may hold the events of S
Fits(S) ==
    /\ Cardinality(S) <= MaxEventsPerBatch
    /\ BytesOf(S) <= MaxBytesPerBatch
    /\ TokensOf(S) <= MaxTokensPerBatch

CutRight(batches, pending) ==
    LET line == FlattenSeq(batches)
    IN  /\ Range(line) = pending /\ Len(line) = Cardinality(pending)
        /\ \A i \in 1..(Len(line) - 1) : Before(line[i], line[i + 1])
        /\ \A i \in DOMAIN batches :
                /\ Len(batches[i]) = 1 \/ (batches[i] # <<>> /\ Fits(Range(batches[i])))
                /\ i > 1 => ~Fits(Range(batches[i - 1]) \union {Head(batches[i])})
=============================================================================
