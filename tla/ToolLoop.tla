------------------------------- MODULE ToolLoop ------------------------------
(***************************************************************************)
(* The agents of the LLM backend: Runner.RunWithCallback (internal/agent/  *)
(* runner.go) asks the model, executes the tool calls of its answer and    *)
(* asks again; RetryLLM.Call (llm_retry.go) repeats an attempt that failed *)
(* for a passing reason.  The model is external: it may answer anything,   *)
(* fail, or not answer before the attempt's own timeout.                   *)
(*                                                                         *)
(* Data abstraction.  A tool call is one of a few, each a tool with its    *)
(* input: a call that reads, one that changes something, one of a tool     *)
(* that was not advertised.  Results are whether they are errors.          *)
(***************************************************************************)
EXTENDS Naturals, Sequences

CONSTANTS
    Reads,          \* calls of read-only tools
    Writes,         \* calls of other advertised tools
    Invalid,        \* calls of tools that were not advertised
    Answers,        \* sequences of calls that an answer may hold
    MaxToolLoops, MaxRepeatedReadOnlyToolCalls, MaxInvalidToolCalls,
    MaxAttempts

ASSUME CallsAssumption ==
    /\ Reads \intersect Writes = {}
    /\ Invalid \intersect (Reads \union Writes) = {}
    /\ Answers \subseteq Seq(Reads \union Writes \union Invalid) \ {<<>>}

ASSUME LimitsAssumption ==
    {MaxToolLoops, MaxRepeatedReadOnlyToolCalls, MaxInvalidToolCalls, MaxAttempts}
        \subseteq Nat \ {0}

VARIABLES
    ctx,            \* the context of the agent: "live" or "done"
    pc,             \* "idle", "loop", "ask", "attempt", "backoff", "tools",
                    \* "answered", "failed"
    loops,          \* LLM calls begun
    attempt,        \* attempts of the call under way
    doomed,         \* had the context ended when the attempt began?
    calls,          \* tool calls of the answer still to be executed
    lastKey,        \* lastReadOnlyCallKey, or <<>>
    repeated,       \* consecutiveReadOnlyToolCalls
    invalid,        \* consecutiveInvalidToolCalls
    stall           \* history: the last read executed, and how often it was
                    \* without another read or a change in between

loop == <<pc, loops, attempt, doomed, calls, lastKey, repeated, invalid, stall>>

counters == <<lastKey, repeated, invalid>>

NoRead == <<>>

LoopTypeOK ==
    /\ ctx \in {"live", "done"}
    /\ pc \in {"idle", "loop", "ask", "attempt", "backoff", "tools", "answered", "failed"}
    /\ loops \in 0..MaxToolLoops
    /\ attempt \in 0..MaxAttempts
    /\ doomed \in BOOLEAN
    /\ calls \in Seq(Reads \union Writes \union Invalid)
    /\ pc # "tools" => calls = <<>> \/ pc = "failed"
    /\ lastKey \in Reads \union {NoRead}
    /\ repeated \in 0..(MaxRepeatedReadOnlyToolCalls + 1)
    /\ invalid \in 0..(MaxInvalidToolCalls + 1)
    /\ stall.times \in Nat

LoopInit ==
    /\ ctx = "live" /\ pc = "idle" /\ loops = 0 /\ attempt = 0 /\ doomed = FALSE
    /\ calls = <<>> /\ lastKey = NoRead /\ repeated = 0 /\ invalid = 0
    /\ stall = [read |-> NoRead, times |-> 0]

StartAgent ==
    /\ pc = "idle" /\ pc' = "loop"
    /\ UNCHANGED <<ctx, loops, attempt, doomed, calls, counters, stall>>

-----------------------------------------------------------------------------
(* RetryLLM.Call *)

\* the runner's loop does not look at the context; the attempt will
BeginCall ==
    /\ pc = "loop"
    /\ \/ /\ loops = MaxToolLoops /\ pc' = "failed"
          /\ UNCHANGED <<loops, attempt>>
       \/ /\ loops < MaxToolLoops /\ pc' = "ask"
          /\ loops' = loops + 1 /\ attempt' = 0
    /\ UNCHANGED <<ctx, doomed, calls, counters, stall>>

BeginAttempt ==
    /\ pc = "ask" /\ pc' = "attempt"
    /\ attempt' = attempt + 1
    /\ doomed' = (ctx = "done")
    /\ UNCHANGED <<ctx, loops, calls, counters, stall>>

\* the answer of an attempt; the deadline may have passed since it began
ModelCallsTools(answer) ==
    /\ pc = "attempt" /\ ~doomed
    /\ pc' = "tools" /\ calls' = answer
    /\ UNCHANGED <<ctx, loops, attempt, doomed, counters, stall>>

\* an answer without tool calls ends the loop
ModelAnswers ==
    /\ pc = "attempt" /\ ~doomed
    /\ pc' = "answered"
    /\ UNCHANGED <<ctx, loops, attempt, doomed, calls, counters, stall>>

\* an attempt fails, by itself, by its own timeout, or with the context
AttemptFails(retryable) ==
    /\ pc = "attempt"
    /\ pc' = IF attempt = MaxAttempts \/ ~retryable \/ ctx = "done"
             THEN "failed" ELSE "backoff"
    /\ UNCHANGED <<ctx, loops, attempt, doomed, calls, counters, stall>>

\* the select between the timer and the context; with both ready, or without a
\* delay, the next attempt begins
EndBackoff ==
    /\ pc = "backoff"
    /\ pc' = "ask"
    /\ UNCHANGED <<ctx, loops, attempt, doomed, calls, counters, stall>>

CancelBackoff ==
    /\ pc = "backoff" /\ ctx = "done"
    /\ pc' = "failed"
    /\ UNCHANGED <<ctx, loops, attempt, doomed, calls, counters, stall>>

-----------------------------------------------------------------------------
(* The loop over the tool calls of an answer *)

\* (mutant: the limit is compared before the call is counted)
ComparesFirst ==
    /\ pc = "tools" /\ calls # <<>> /\ Head(calls) \in Invalid
    /\ invalid' = invalid + 1
    /\ calls' = Tail(calls)
    /\ pc' = IF invalid > MaxInvalidToolCalls THEN "failed" ELSE pc
    /\ UNCHANGED <<ctx, loops, attempt, doomed, lastKey, repeated, stall>>

\* a call that is not in the advertised set is answered with an error
RejectCall ==
    /\ pc = "tools" /\ calls # <<>> /\ Head(calls) \in Invalid
    /\ invalid' = invalid + 1
    /\ calls' = Tail(calls)
    /\ pc' = IF invalid' > MaxInvalidToolCalls THEN "failed" ELSE pc
    /\ UNCHANGED <<ctx, loops, attempt, doomed, lastKey, repeated, stall>>

RepeatsOf(read) == IF lastKey = read THEN repeated + 1 ELSE 1

\* a read beyond the limit ends the agent before it is executed
ExecuteRead ==
    /\ pc = "tools" /\ calls # <<>> /\ Head(calls) \in Reads
    /\ invalid' = 0
    /\ lastKey' = Head(calls) /\ repeated' = RepeatsOf(Head(calls))
    /\ calls' = Tail(calls)
    /\ \/ /\ repeated' > MaxRepeatedReadOnlyToolCalls
          /\ pc' = "failed" /\ UNCHANGED stall
       \/ /\ repeated' <= MaxRepeatedReadOnlyToolCalls
          /\ pc' = pc
          /\ stall' = [read |-> Head(calls),
                       times |-> IF stall.read = Head(calls) THEN stall.times + 1 ELSE 1]
    /\ UNCHANGED <<ctx, loops, attempt, doomed>>

\* (mutant: a change that failed clears the count as well)
AlwaysProgress(changed) == TRUE

Progress(changed) == changed

ExecuteWrite(changed) ==
    /\ pc = "tools" /\ calls # <<>> /\ Head(calls) \in Writes
    /\ invalid' = 0
    /\ lastKey' = IF Progress(changed) THEN NoRead ELSE lastKey
    /\ repeated' = IF Progress(changed) THEN 0 ELSE repeated
    /\ stall' = IF changed THEN [read |-> NoRead, times |-> 0] ELSE stall
    /\ calls' = Tail(calls)
    /\ UNCHANGED <<ctx, pc, loops, attempt, doomed>>

ReturnResults ==
    /\ pc = "tools" /\ calls = <<>>
    /\ pc' = "loop"
    /\ UNCHANGED <<ctx, loops, attempt, doomed, calls, counters, stall>>

Agent ==
    \/ BeginCall
    \/ BeginAttempt
    \/ \E answer \in Answers : ModelCallsTools(answer)
    \/ ModelAnswers
    \/ \E retryable \in BOOLEAN : AttemptFails(retryable)
    \/ EndBackoff
    \/ CancelBackoff
    \/ RejectCall
    \/ ExecuteRead
    \/ \E changed \in BOOLEAN : ExecuteWrite(changed)
    \/ ReturnResults

-----------------------------------------------------------------------------
(* Properties *)

\* A model that goes in circles is stopped: it does not get the same read
\* executed more often than the limit without another read or an actual change
\* in between, whatever it does in the meantime that is refused or fails.
NoStall == stall.times <= MaxRepeatedReadOnlyToolCalls
=============================================================================
