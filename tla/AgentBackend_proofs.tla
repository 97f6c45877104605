------------------------ MODULE AgentBackend_proofs ------------------------
(***************************************************************************)
(* Proofs about AgentBackend, for any events, tools, limits, answers of    *)
(* the model and pieces of a report: a model that goes in circles is       *)
(* stopped; the batches are a correct cut of the pending events; the       *)
(* verdicts of a turn are those of the agent's report.                     *)
(***************************************************************************)
EXTENDS AgentBackend, Batching_proofs

\* The runner's counter is never behind the repeats that were really executed;
\* a refused or failed call in between changes neither.
Tracked ==
    /\ repeated \in Nat /\ stall.times \in Nat
    /\ stall.times > 0 => stall.read = lastKey /\ stall.times <= repeated
    /\ NoStall

LEMMA LoopLimits ==
    MaxRepeatedReadOnlyToolCalls \in Nat \ {0}
BY LimitsAssumption

\* runner.go, the loop over the tool calls of an answer.
LEMMA ReadsAreTracked == ASSUME Tracked, ExecuteRead PROVE Tracked'
<1> DEFINE read == Head(calls)
<1>1. /\ lastKey' = read
      /\ repeated' = IF lastKey = read THEN repeated + 1 ELSE 1
      /\ \/ repeated' > MaxRepeatedReadOnlyToolCalls /\ UNCHANGED stall
         \/ /\ repeated' <= MaxRepeatedReadOnlyToolCalls
            /\ stall' = [read |-> read,
                         times |-> IF stall.read = read THEN stall.times + 1 ELSE 1]
  BY DEF ExecuteRead, RepeatsOf
<1> HIDE DEF read
<1>2. CASE repeated' > MaxRepeatedReadOnlyToolCalls /\ UNCHANGED stall
  <2>1. lastKey = read
    BY <1>1, <1>2, LoopLimits
  <2> QED
    BY <1>1, <1>2, <2>1 DEF Tracked, NoStall
<1>3. CASE /\ repeated' <= MaxRepeatedReadOnlyToolCalls
           /\ stall' = [read |-> read,
                        times |-> IF stall.read = read THEN stall.times + 1 ELSE 1]
  <2>1. stall'.read = read /\ stall'.times = IF stall.read = read THEN stall.times + 1 ELSE 1
    BY <1>3
  <2>2. stall'.times \in Nat /\ stall'.times <= repeated' /\ repeated' \in Nat
    BY <1>1, <2>1 DEF Tracked
  <2> QED
    BY <1>1, <1>3, <2>1, <2>2, LoopLimits DEF Tracked, NoStall
<1> QED
  BY <1>1, <1>2, <1>3

LEMMA WritesAreTracked ==
    ASSUME Tracked, NEW changed \in BOOLEAN, ExecuteWrite(changed) PROVE Tracked'
<1>1. CASE changed
  <2>1. repeated' = 0 /\ stall' = [read |-> NoRead, times |-> 0]
    BY <1>1 DEF ExecuteWrite, Progress
  <2>2. stall'.times = 0
    BY <2>1
  <2> QED
    BY <2>1, <2>2, LoopLimits DEF Tracked, NoStall
<1>2. CASE ~changed
  <2>1. repeated' = repeated /\ stall' = stall /\ lastKey' = lastKey
    BY <1>2 DEF ExecuteWrite, Progress
  <2> QED
    BY <2>1 DEF Tracked, NoStall
<1> QED
  BY <1>1, <1>2

LEMMA StepsAreTracked == Tracked /\ [Next]_vars => Tracked'
<1> SUFFICES ASSUME Tracked, [Next]_vars PROVE Tracked'
  OBVIOUS
<1>1. CASE UNCHANGED <<lastKey, repeated, stall>>
  BY <1>1 DEF Tracked, NoStall
<1>2. CASE Agent
  <2>1. \/ ExecuteRead
        \/ \E changed \in BOOLEAN : ExecuteWrite(changed)
        \/ UNCHANGED <<lastKey, repeated, stall>>
    BY <1>2 DEF Agent, BeginCall, BeginAttempt, ModelCallsTools, ModelAnswers, AttemptFails,
           EndBackoff, CancelBackoff, RejectCall, ReturnResults, counters
  <2> QED
    BY <1>1, <2>1, ReadsAreTracked, WritesAreTracked
<1>3. CASE StartAcp \/ StartLlm \/ AcpTurn \/ Expire \/ UNCHANGED vars
  BY <1>1, <1>3 DEF StartAcp, StartLlm, StartAgent, AcpTurn, Expire, vars, loop, counters
<1> QED
  BY <1>2, <1>3 DEF Next, LlmTurn

\* Whatever the model answers, it does not get the same read executed more often
\* than the limit without another read or a change in between (runner.go 101-170).
THEOREM CirclesAreStopped == Spec => []NoStall
<1>1. Init => Tracked
  <2> SUFFICES ASSUME Init PROVE Tracked
    OBVIOUS
  <2>1. repeated = 0 /\ stall = [read |-> NoRead, times |-> 0]
    BY DEF Init, LoopInit
  <2>2. stall.times = 0
    BY <2>1
  <2> QED
    BY <2>1, <2>2, LoopLimits DEF Tracked, NoStall
<1>2. Tracked => NoStall
  BY DEF Tracked
<1> QED
  BY <1>1, <1>2, StepsAreTracked, PTL DEF Spec

-----------------------------------------------------------------------------
(* The tool loop's types *)

\* A counter passes its limit only in the step that fails the agent, and an
\* attempt is begun only while there are attempts left.
LoopInv ==
    /\ LoopTypeOK
    /\ pc # "failed" => /\ repeated <= MaxRepeatedReadOnlyToolCalls
                        /\ invalid <= MaxInvalidToolCalls
    /\ pc \in {"ask", "backoff"} => attempt < MaxAttempts

LEMMA LimitTypes ==
    /\ MaxToolLoops \in Nat \ {0}
    /\ MaxRepeatedReadOnlyToolCalls \in Nat \ {0}
    /\ MaxInvalidToolCalls \in Nat \ {0}
    /\ MaxAttempts \in Nat \ {0}
BY LimitsAssumption

LEMMA NextCalls ==
    ASSUME LoopInv, calls # <<>>
    PROVE  Head(calls) \in Reads \union Writes \union Invalid
           /\ Tail(calls) \in Seq(Reads \union Writes \union Invalid)
<1> DEFINE C == Reads \union Writes \union Invalid
<1>1. calls \in Seq(C)
  BY DEF LoopInv, LoopTypeOK
<1> HIDE DEF C
<1>2. Head(calls) \in C /\ Tail(calls) \in Seq(C)
  BY <1>1, HeadTailProperties
<1> QED
  BY <1>2 DEF C

LEMMA AgentKeepsLoopInv == ASSUME LoopInv, Agent PROVE LoopInv'
<1> USE LimitTypes DEF LoopInv, LoopTypeOK, counters
<1>1. CASE BeginCall
  BY <1>1 DEF BeginCall
<1>2. CASE BeginAttempt
  BY <1>2 DEF BeginAttempt
<1>3. ASSUME NEW answer \in Answers, ModelCallsTools(answer) PROVE LoopInv'
  <2>1. answer \in Seq(Reads \union Writes \union Invalid)
    BY CallsAssumption
  <2> QED
    BY <1>3, <2>1 DEF ModelCallsTools
<1>4. CASE ModelAnswers
  BY <1>4 DEF ModelAnswers
<1>5. ASSUME NEW retryable \in BOOLEAN, AttemptFails(retryable) PROVE LoopInv'
  BY <1>5 DEF AttemptFails
<1>6. CASE EndBackoff
  BY <1>6 DEF EndBackoff
<1>7. CASE CancelBackoff
  BY <1>7 DEF CancelBackoff
<1>8. CASE RejectCall
  <2>1. calls' \in Seq(Reads \union Writes \union Invalid)
    BY <1>8, NextCalls DEF RejectCall
  <2> QED
    BY <1>8, <2>1 DEF RejectCall
<1>9. CASE ExecuteRead
  <2>1. calls' \in Seq(Reads \union Writes \union Invalid)
    BY <1>9, NextCalls DEF ExecuteRead
  <2>2. lastKey' \in Reads /\ repeated' = RepeatsOf(Head(calls)) /\ invalid' = 0
    BY <1>9 DEF ExecuteRead
  <2>3. repeated' \in 0 .. MaxRepeatedReadOnlyToolCalls + 1
    BY <1>9, <2>2 DEF ExecuteRead, RepeatsOf
  <2>4. stall'.times \in Nat /\ (pc' # "failed" => repeated' <= MaxRepeatedReadOnlyToolCalls)
        /\ pc' \in {"tools", "failed"}
    <3>1. CASE repeated' > MaxRepeatedReadOnlyToolCalls
      BY <1>9, <3>1 DEF ExecuteRead
    <3>2. CASE repeated' <= MaxRepeatedReadOnlyToolCalls
      <4>1. pc' = "tools"
            /\ stall' = [read |-> Head(calls),
                         times |-> IF stall.read = Head(calls) THEN stall.times + 1 ELSE 1]
        BY <1>9, <2>3, <3>2 DEF ExecuteRead
      <4>2. stall'.times = IF stall.read = Head(calls) THEN stall.times + 1 ELSE 1
        BY <4>1
      <4> QED
        BY <3>2, <4>1, <4>2
    <3> QED
      BY <2>3, <3>1, <3>2
  <2>5. UNCHANGED <<ctx, loops, attempt, doomed>>
    BY <1>9 DEF ExecuteRead
  <2> QED
    BY <2>1, <2>2, <2>3, <2>4, <2>5
<1>10. ASSUME NEW changed \in BOOLEAN, ExecuteWrite(changed) PROVE LoopInv'
  <2>1. calls' \in Seq(Reads \union Writes \union Invalid)
    BY <1>10, NextCalls DEF ExecuteWrite
  <2>2. stall'.times \in Nat
    <3>1. CASE changed
      <4>1. stall' = [read |-> NoRead, times |-> 0]
        BY <1>10, <3>1 DEF ExecuteWrite
      <4> QED
        BY <4>1
    <3>2. CASE ~changed
      BY <1>10, <3>2 DEF ExecuteWrite
    <3> QED
      BY <3>1, <3>2
  <2>3. /\ lastKey' \in Reads \union {NoRead} /\ repeated' \in {0, repeated} /\ invalid' = 0
        /\ pc = "tools" /\ UNCHANGED <<ctx, pc, loops, attempt, doomed>>
    BY <1>10 DEF ExecuteWrite
  <2> QED
    BY <2>1, <2>2, <2>3
<1>11. CASE ReturnResults
  BY <1>11 DEF ReturnResults
<1> QED
  BY <1>1, <1>2, <1>3, <1>4, <1>5, <1>6, <1>7, <1>8, <1>9, <1>10, <1>11 DEF Agent

LEMMA StepsKeepLoopInv == LoopInv /\ [Next]_vars => LoopInv'
<1> SUFFICES ASSUME LoopInv, [Next]_vars PROVE LoopInv'
  OBVIOUS
<1>1. CASE UNCHANGED <<ctx, loop>>
  BY <1>1 DEF LoopInv, LoopTypeOK, loop
<1>2. CASE StartLlm
  BY <1>2 DEF StartLlm, StartAgent, LoopInv, LoopTypeOK, counters
<1>3. CASE Expire
  BY <1>3 DEF Expire, LoopInv, LoopTypeOK, loop
<1>4. StartAcp \/ AcpTurn => UNCHANGED <<ctx, loop>>
  BY DEF StartAcp, AcpTurn, Acp!StartTurn, Acp!Turn, Acp!Broken, Acp!Receive, Acp!GateRefuses,
         Acp!GatePasses
<1> QED
  BY <1>1, <1>2, <1>3, <1>4, AgentKeepsLoopInv DEF Next, LlmTurn, vars
-----------------------------------------------------------------------------
(* The operators of the session are those of Batching *)

LEMMA SessionNames ==
    /\ Acp!Line = Line
    /\ \A line : Acp!Counts(line) <=> Counts(line)
    /\ \A line : Acp!StatusOf(line) = StatusOf(line)
    /\ \A S : Acp!Max(S) = Max(S)
    /\ \A s : Acp!Range(s) = Range(s)
BY DEF Acp!Line, Line, Acp!Prose, Prose, Acp!Counts, Counts, Acp!StatusOf, StatusOf,
       Acp!Max, Max, Acp!Range, Range

LEMMA SessionFlattens == \A ss : Acp!FlattenSeq(ss) = FlattenSeq(ss)
BY DEF Acp!FlattenSeq, FlattenSeq

LEMMA SessionParses ==
    \A b, summary : Acp!ParseEventResults(b, summary) = ParseEventResults(b, summary)
BY DEF Acp!ParseEventResults, ParseEventResults, Acp!ReadLine, ReadLine, Acp!Unknown, Unknown,
       Acp!Counts, Counts, Acp!StatusOf, StatusOf, Acp!Range, Range, Acp!Prose, Prose,
       Acp!FoldLeft, FoldLeft, Acp!MapThenFoldSet, MapThenFoldSet, Acp!Max, Max

-----------------------------------------------------------------------------
(* The session *)

\* What has been gathered is what the agent said, piece after piece, and the
\* results are read from it when the gate has let the batch pass.
SessionInv ==
    /\ step \in {"initialize", "session", "prompt", "idle", "gate", "failed", "success"}
    /\ batch \in Seq(Events)
    /\ responseText \in Seq(Line)
    /\ messages \in 0 .. MaxMessages
    /\ said \in Seq(Chunks)
    /\ chunks = FlattenSeq(said)
    /\ results = IF step = "success" THEN ParseEventResults(batch, Acp!Summary) ELSE <<>>

BatchesInv ==
    /\ backend \in {"acp", "llm"} /\ deadline \in BOOLEAN
    /\ pending \subseteq Events
    /\ batches = FormBatches(pending)

LEMMA PiecesAreLines == Seq(Chunks) \subseteq Seq(Seq(Line))
BY SessionAssumption

LEMMA BatchesType ==
    ASSUME BatchesInv PROVE batches \in Seq(Seq(Events)) /\ CutRight(batches, pending)
BY FormBatchesCutsRight DEF BatchesInv

\* A message carries lines, and if it is a piece, one of the pieces.
LEMMA MessageTypes ==
    ASSUME NEW m \in Acp!Message
    PROVE  m.text \in Seq(Line) /\ (m.kind = "chunk" => m.text \in Chunks)
<1>1. <<>> \in Seq(Line) /\ Chunks \subseteq Seq(Line)
  BY SessionAssumption
<1> QED
  BY <1>1 DEF Acp!Message

LEMMA InitIsInv == Init => LoopInv /\ SessionInv /\ BatchesInv
<1> SUFFICES ASSUME Init PROVE LoopInv /\ SessionInv /\ BatchesInv
  OBVIOUS
<1>1. LoopInv
  <2>1. stall.times = 0
    BY DEF Init, LoopInit
  <2>2. <<>> \in Seq(Reads \union Writes \union Invalid)
    OBVIOUS
  <2>3. /\ ctx = "live" /\ pc = "idle" /\ loops = 0 /\ attempt = 0 /\ doomed = FALSE
        /\ calls = <<>> /\ lastKey = NoRead /\ repeated = 0 /\ invalid = 0
    BY DEF Init, LoopInit
  <2>4. LoopTypeOK
    <3>1. /\ loops \in 0 .. MaxToolLoops /\ attempt \in 0 .. MaxAttempts
          /\ repeated \in 0 .. (MaxRepeatedReadOnlyToolCalls + 1)
          /\ invalid \in 0 .. (MaxInvalidToolCalls + 1)
      BY <2>3, LimitTypes
    <3>2. doomed \in BOOLEAN
      BY <2>3
    <3>3. calls \in Seq(Reads \union Writes \union Invalid)
      BY <2>2, <2>3
    <3>4. lastKey \in Reads \union {NoRead}
      BY <2>3
    <3>5. /\ ctx \in {"live", "done"}
          /\ pc \in {"idle", "loop", "ask", "attempt", "backoff", "tools", "answered", "failed"}
          /\ (pc # "tools" => calls = <<>> \/ pc = "failed")
      BY <2>3
    <3> QED
      BY <2>1, <3>1, <3>2, <3>3, <3>4, <3>5 DEF LoopTypeOK
  <2> QED
    BY <2>3, <2>4, LimitTypes DEF LoopInv
<1>2. SessionInv
  BY FlattenEmpty, SessionAssumption DEF Init, Acp!Init, SessionInv
<1>3. BatchesInv
  BY DEF Init, BatchesInv
<1> QED
  BY <1>1, <1>2, <1>3

\* backend_acp.go: the handshake, and the loop over the prompt's stream.
LEMMA ReceiveKeepsSessionInv ==
    ASSUME SessionInv, NEW m \in Acp!Message, Acp!Receive(m) PROVE SessionInv'
<1>1. /\ messages' \in 0 .. MaxMessages
      /\ UNCHANGED <<batch, results>>
      /\ step \in {"initialize", "session", "prompt"}
      /\ step' \in {"initialize", "session", "prompt", "gate", "failed"}
  BY SessionAssumption DEF SessionInv, Acp!Receive, Acp!Handshake, Acp!Stream
<1>2. results' = <<>> /\ step' # "success"
  BY <1>1 DEF SessionInv
<1>3. responseText' \in Seq(Line)
  BY MessageTypes DEF SessionInv, Acp!Receive, Acp!Handshake, Acp!Stream
<1>4. said' \in Seq(Chunks) /\ chunks' = FlattenSeq(said')
  <2>1. CASE UNCHANGED <<said, chunks>>
    BY <2>1 DEF SessionInv
  <2>2. CASE m.kind = "chunk" /\ said' = Append(said, m.text) /\ chunks' = chunks \o m.text
    <3>1. said \in Seq(Seq(Line)) /\ m.text \in Seq(Line) /\ m.text \in Chunks
      BY <2>2, MessageTypes, PiecesAreLines DEF SessionInv
    <3>2. FlattenSeq(Append(said, m.text)) = FlattenSeq(said) \o m.text
      BY <3>1, FlattenAppend
    <3>3. said' \in Seq(Chunks)
      BY <2>2, <3>1 DEF SessionInv
    <3> QED
      BY <2>2, <3>2, <3>3 DEF SessionInv
  <2> QED
    BY <2>1, <2>2 DEF Acp!Receive, Acp!Handshake, Acp!Stream, Acp!AppendChunk
<1> QED
  BY <1>1, <1>2, <1>3, <1>4 DEF SessionInv

LEMMA StepsKeepSessionInv == SessionInv /\ BatchesInv /\ [Next]_vars => SessionInv'
<1> SUFFICES ASSUME SessionInv, BatchesInv, [Next]_vars PROVE SessionInv'
  OBVIOUS
<1>1. CASE UNCHANGED acpVars
  BY <1>1 DEF acpVars, SessionInv, Acp!Summary
<1>2. CASE StartAcp
  <2>1. PICK i \in DOMAIN batches : Acp!StartTurn(batches[i])
    BY <1>2 DEF StartAcp
  <2>2. batches[i] \in Seq(Events)
    BY BatchesType
  <2> QED
    BY <2>1, <2>2 DEF Acp!StartTurn, SessionInv
<1>3. ASSUME Acp!Broken PROVE SessionInv'
  BY <1>3 DEF Acp!Broken, Acp!Steps, SessionInv
<1>4. ASSUME NEW m \in Acp!Message, Acp!Receive(m) PROVE SessionInv'
  BY <1>4, ReceiveKeepsSessionInv
<1>5. ASSUME Acp!GateRefuses PROVE SessionInv'
  BY <1>5 DEF Acp!GateRefuses, SessionInv
<1>6. ASSUME Acp!GatePasses PROVE SessionInv'
  BY <1>6, SessionParses DEF Acp!GatePasses, SessionInv, Acp!Summary
<1> QED
  BY <1>1, <1>2, <1>3, <1>4, <1>5, <1>6
     DEF Next, StartLlm, AcpTurn, LlmTurn, Expire, vars, Acp!Turn

LEMMA StepsKeepBatchesInv == BatchesInv /\ [Next]_vars => BatchesInv'
BY DEF BatchesInv, Next, StartAcp, StartLlm, AcpTurn, LlmTurn, Expire, vars

\* What the steps of a backend keep.
IInv == LoopInv /\ SessionInv /\ BatchesInv

LEMMA StepsKeepIInv == IInv /\ [Next]_vars => IInv'
BY StepsKeepLoopInv, StepsKeepSessionInv, StepsKeepBatchesInv DEF IInv

LEMMA AlwaysIInv == Spec => []IInv
<1>1. Init => IInv
  BY InitIsInv DEF IInv
<1> QED
  BY <1>1, StepsKeepIInv, PTL DEF Spec

LEMMA SummaryType == ASSUME SessionInv PROVE Acp!Summary \in Seq(Line) /\ chunks \in Seq(Line)
<1>1. chunks \in Seq(Line)
  BY PiecesAreLines, FlattenType DEF SessionInv
<1> QED
  BY <1>1 DEF SessionInv, Acp!Summary

\* The variables keep their types, and the results of a successful turn are those
\* of exactly the events of its batch (batch.go, backend_acp.go, runner.go).
THEOREM BackendTypes == Spec => []TypeOK
<1>1. ASSUME IInv PROVE TypeOK
  <2>1. batches \in Seq(Seq(Events))
    BY <1>1, BatchesType DEF IInv
  <2>2. {chunks, responseText} \subseteq Seq(Line)
    BY <1>1, SummaryType DEF IInv, SessionInv
  <2>3. /\ DOMAIN results \subseteq Events
        /\ step = "success" => DOMAIN results = Range(batch)
    <3>1. Range(batch) \subseteq Events
      BY <1>1 DEF IInv, SessionInv, Range
    <3>2. CASE step = "success"
      BY <1>1, <3>1, <3>2, SummaryType, ResultsType DEF IInv, SessionInv
    <3>3. CASE step # "success"
      BY <1>1, <3>3 DEF IInv, SessionInv
    <3> QED
      BY <3>2, <3>3
  <2>4. Acp!TypeOK
    BY <1>1, <2>2, <2>3, SessionNames DEF IInv, LoopInv, LoopTypeOK, SessionInv, Acp!TypeOK, Acp!Steps
  <2> QED
    BY <1>1, <2>1, <2>4 DEF TypeOK, IInv, LoopInv, BatchesInv
<1> QED
  BY <1>1, AlwaysIInv, PTL

\* FormBatches cuts any set of pending events right, whatever their times and
\* sizes and the limits (batch.go 40-95).
THEOREM BatchesAreCutRight == Spec => []BatchesCutRight
<1>1. IInv => BatchesCutRight
  BY BatchesType DEF IInv, BatchesCutRight
<1> QED
  BY <1>1, AlwaysIInv, PTL

\* A report's verdicts are read right however it comes in pieces (batch.go,
\* parseEventResults; backend_acp.go, appendAgentMessageChunk): the line break
\* before each piece keeps its lines whole, and the last verdict of an event counts.
THEOREM VerdictsAreRead == Spec => []VerdictsAreTheAgents
<1>1. ASSUME IInv PROVE VerdictsAreTheAgents
  <2>1. ASSUME step = "success", NEW e \in Range(batch)
        PROVE  LET own == {i \in DOMAIN Acp!Report :
                              Acp!Report[i].event = e /\ Acp!Report[i].tail}
               IN  IF own = {}
                   THEN /\ results[e].status = "unknown"
                        /\ results[e].reason = "turn_ended_no_output" <=> Acp!Report = <<>>
                   ELSE results[e].status = StatusOf(Acp!Report[Max(own)])
    <3> DEFINE report == Acp!Report
               own == {i \in DOMAIN report : report[i].event = e /\ report[i].tail}
               counted == {i \in 1 .. Len(report) : Counts(report[i]) /\ report[i].event = e}
    <3>1. report = Acp!Summary /\ report \in Seq(Line)
      BY <1>1, SummaryType, SessionFlattens DEF IInv, SessionInv, Acp!Report, Acp!Summary
    <3> HIDE DEF report
    <3>2. own = counted
      BY <3>1, EventAssumption DEF Counts, Line, Prose
    <3>3. results[e] = IF counted = {} THEN Unknown(report, batch)
                       ELSE Verdict(report[Max(counted)])
      BY <1>1, <2>1, <3>1, LastVerdictCounts DEF IInv, SessionInv
    <3> HIDE DEF own, counted
    <3>4. CASE own = {}
      <4>1. results[e] = Unknown(report, batch)
        BY <3>2, <3>3, <3>4
      <4> QED
        BY <3>4, <4>1, UnknownReason DEF own, report
    <3>5. CASE own # {}
      <4>1. results[e].status = StatusOf(report[Max(own)])
        BY <3>2, <3>3, <3>5 DEF Verdict
      <4> QED
        BY <3>5, <4>1 DEF own, report
    <3> QED
      BY <3>4, <3>5
  <2> QED
    BY <1>1, <2>1, SessionNames
       DEF IInv, SessionInv, VerdictsAreTheAgents, Acp!VerdictsAreTheAgents
<1> QED
  BY <1>1, AlwaysIInv, PTL

=============================================================================
