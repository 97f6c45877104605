----------------------------- MODULE AcpSession ------------------------------
(***************************************************************************)
(* One batch turn of the ACP backend as a conversation with acpmux         *)
(* (runACPTurnFullOpts and RunBatchIngest in internal/agent/backend_acp.go,*)
(* with the wiki reduced to the outcome of its commit gate, which is in    *)
(* WikiMerge): initialize, session/new, session/prompt, then the stream of *)
(* messages until the prompt is answered.                                  *)
(*                                                                         *)
(* The agent is external.  It may answer, fail, repeat an answer, say      *)
(* something the turn does not understand, or fall silent, at any time;    *)
(* what it writes arrives whole and in order.  As the code assumes, a      *)
(* piece of the answer ends where a line ends, and the agent sends no      *)
(* requests of its own.                                                    *)
(***************************************************************************)
EXTENDS Batching

CONSTANTS
    Chunks,         \* pieces of an answer: sequences of lines
    MaxMessages     \* bound: messages that the agent sends

VARIABLES
    ctx,            \* the context of the turn: "live" or "done"
    step,           \* what the turn waits for: "initialize", "session",
                    \* "prompt", "gate"; or "idle", "failed", "success"
    batch,          \* the events of the turn
    chunks,         \* the lines gathered from the stream
    responseText,   \* the text of the prompt's answer
    results,        \* BatchResult.EventResults, a function of the events
    messages,       \* messages so far (bound only)
    said            \* history: the lines of each piece that the agent sent
                    \* as its answer

vars == <<ctx, step, batch, chunks, responseText, results, messages, said>>

Steps == {"initialize", "session", "prompt"}

\* the id of the request under way
Id == CASE step = "initialize" -> 1 [] step = "session" -> 2 [] OTHER -> 3

Message ==
    [kind : {"reply"}, id : 1..3, text : Chunks \union {<<>>}]
    \union [kind : {"error"}, id : 0..3, text : {<<>>}]
    \union [kind : {"chunk"}, id : {0}, text : Chunks]
    \union [kind : {"noise"}, id : {0}, text : {<<>>}]

TypeOK ==
    /\ ctx \in {"live", "done"}
    /\ step \in Steps \union {"idle", "gate", "failed", "success"}
    /\ batch \in Seq(Events)
    /\ {chunks, responseText} \subseteq Seq(Line)
    /\ DOMAIN results \subseteq Events
    /\ step = "success" => DOMAIN results = Range(batch)
    /\ messages \in 0..MaxMessages
    /\ said \in Seq(Chunks)

Init ==
    /\ ctx = "live" /\ step = "idle" /\ batch = <<>>
    /\ chunks = <<>> /\ responseText = <<>> /\ results = <<>>
    /\ messages = 0 /\ said = <<>>

StartTurn(b) ==
    /\ step = "idle"
    /\ batch' = b
    /\ step' = "initialize"
    /\ UNCHANGED <<ctx, chunks, responseText, results, messages, said>>

\* (mutant: the end of the output is not noticed while the answer is streamed)
IgnoresEnd ==
    /\ step \in {"initialize", "session"}
    /\ step' = "failed"
    /\ UNCHANGED <<ctx, batch, chunks, responseText, results, messages, said>>

\* a staging copy, a pipe or a process that cannot be had; a request that cannot
\* be sent; the end of the agent's output.  Also what a missed deadline comes
\* to, as it kills the agent; and a line longer than the buffer
Broken ==
    /\ step \in Steps
    /\ step' = "failed"
    /\ UNCHANGED <<ctx, batch, chunks, responseText, results, messages, said>>

\* readACPResponseForID: everything but the answer waited for is skipped, an
\* error that answers another request, or none, included
Handshake(m) ==
    /\ step \in {"initialize", "session"}
    /\ step' = IF m.id # Id \/ m.kind \notin {"reply", "error"} THEN step
               ELSE IF m.kind = "error" THEN "failed"
               ELSE IF step = "initialize" THEN "session" ELSE "prompt"
    /\ UNCHANGED <<chunks, responseText, said>>

\* (mutant: pieces are glued together, so that the line that opens one is lost
\* in the line that ends the piece before)
AppendsToLine(text) == IF chunks = <<>> \/ text = <<>> THEN chunks \o text
                       ELSE chunks \o Tail(text)

\* appendAgentMessageChunk starts a new line for each piece
AppendChunk(text) == chunks \o text

\* the loop over the prompt's stream: any error ends it
Stream(m) ==
    /\ step = "prompt"
    /\ step' = CASE m.kind = "error" -> "failed"
                 [] m.kind = "reply" /\ m.id = Id -> "gate"
                 [] OTHER -> step
    /\ chunks' = IF m.kind = "chunk" THEN AppendChunk(m.text) ELSE chunks
    /\ responseText' = IF m.kind = "reply" /\ m.id = Id THEN m.text ELSE responseText
    /\ said' = IF m.kind = "chunk" THEN Append(said, m.text) ELSE said

Receive(m) ==
    /\ messages < MaxMessages
    /\ messages' = messages + 1
    /\ Handshake(m) \/ Stream(m)
    /\ UNCHANGED <<ctx, batch, results>>

Summary == IF responseText # <<>> THEN responseText ELSE chunks

\* the validator refuses the staging copy, or the merge fails
GateRefuses ==
    /\ step = "gate"
    /\ step' = "failed"
    /\ UNCHANGED <<ctx, batch, chunks, responseText, results, messages, said>>

GatePasses ==
    /\ step = "gate"
    /\ step' = "success"
    /\ results' = ParseEventResults(batch, Summary)
    /\ UNCHANGED <<ctx, batch, chunks, responseText, messages, said>>

Turn ==
    \/ Broken
    \/ \E m \in Message : Receive(m)
    \/ GateRefuses
    \/ GatePasses

-----------------------------------------------------------------------------
(* Properties *)

\* The lines the agent wrote as its report: the answer to the prompt if that has
\* any text, the pieces in the order in which they were sent otherwise.
Report == IF responseText # <<>> THEN responseText ELSE FlattenSeq(said)

\* An event has the verdict of the last line of the report that gives it one with
\* its pages or reason, however the report was cut into pieces; without such a
\* line it is unknown, with a reason that says whether there was any report.  A
\* turn that did not get its answer gives no verdict.
VerdictsAreTheAgents ==
    /\ step # "success" => results = <<>>
    /\ step = "success" => \A e \in Range(batch) :
        LET own == {i \in DOMAIN Report : Report[i].event = e /\ Report[i].tail}
        IN  IF own = {}
            THEN /\ results[e].status = "unknown"
                 /\ results[e].reason = "turn_ended_no_output" <=> Report = <<>>
            ELSE results[e].status = StatusOf(Report[Max(own)])
=============================================================================
