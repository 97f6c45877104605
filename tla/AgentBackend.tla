---------------------------- MODULE AgentBackend -----------------------------
(***************************************************************************)
(* A turn of the agent behind the interface of internal/agent/backend.go,  *)
(* with either of its implementations: the ACP backend runs a batch of the *)
(* pending events (Batching) in one session (AcpSession), the LLM backend  *)
(* a loop of tool calls (ToolLoop).  What they share is the context of the *)
(* caller, which may or may not have a deadline.                           *)
(***************************************************************************)
EXTENDS Batching, ToolLoop

CONSTANTS
    Chunks,         \* pieces of an answer: sequences of lines
    MaxMessages     \* bound: messages that the agent sends

ASSUME SessionAssumption == Chunks \subseteq Seq(Line) /\ MaxMessages \in Nat

VARIABLES
    backend,        \* "acp" or "llm", chosen when the server starts
    deadline,       \* has the context of the turn a deadline?
    pending,        \* the events that wait when the turn is made (the LLM backend
                    \* takes events one by one, as they come)
    batches,        \* what FormBatches makes of them
    step, batch, chunks, responseText, results, messages, said

acpVars == <<step, batch, chunks, responseText, results, messages, said>>
vars == <<backend, deadline, pending, batches, ctx, acpVars, loop>>

Acp == INSTANCE AcpSession

TypeOK ==
    /\ backend \in {"acp", "llm"} /\ deadline \in BOOLEAN
    /\ pending \subseteq Events
    /\ batches \in Seq(Seq(Events))
    /\ Acp!TypeOK
    /\ LoopTypeOK

Init ==
    /\ backend \in {"acp", "llm"}
    /\ deadline \in BOOLEAN
    /\ pending \in IF backend = "acp" THEN SUBSET Events ELSE {{}}
    /\ batches = FormBatches(pending)
    /\ Acp!Init
    /\ LoopInit

\* the turn of one of the batches, or of an agent of the LLM backend
StartAcp ==
    /\ backend = "acp"
    /\ \E i \in DOMAIN batches : Acp!StartTurn(batches[i])
    /\ UNCHANGED <<backend, deadline, pending, batches, loop>>

StartLlm ==
    /\ backend = "llm"
    /\ StartAgent
    /\ UNCHANGED <<backend, deadline, pending, batches, acpVars>>

AcpTurn ==
    /\ Acp!Turn
    /\ UNCHANGED <<backend, deadline, pending, batches, loop>>

LlmTurn ==
    /\ Agent
    /\ UNCHANGED <<backend, deadline, pending, batches, acpVars>>

AcpRuns == step \in {"initialize", "session", "prompt", "gate"}

LlmRuns == pc \notin {"idle", "answered", "failed"}

Expire ==
    /\ deadline /\ ctx = "live" /\ (AcpRuns \/ LlmRuns)
    /\ ctx' = "done"
    /\ UNCHANGED <<backend, deadline, pending, batches, acpVars, loop>>

Next == StartAcp \/ StartLlm \/ AcpTurn \/ LlmTurn \/ Expire

Spec == Init /\ [][Next]_vars

\* exec.CommandContext kills the agent when the context ends, which ends its
\* output; the commit gate needs no agent
Killed == (ctx = "done" \/ step = "gate") /\ AcpTurn /\ step' # step

\* A deadline passes.  An attempt of the LLM backend ends, by its own timeout if
\* not before, and everything else there is the server's own.
Fairness ==
    /\ WF_vars(Expire)
    /\ WF_vars(Killed)
    /\ WF_vars(LlmTurn)

FairSpec == Spec /\ Fairness

-----------------------------------------------------------------------------
(* Properties *)

\* The batches are the pending events, each once and in the order of their times,
\* no batch is over a limit unless it is a single event, and none could have
\* taken the first event of the next.
BatchesCutRight == CutRight(batches, pending)

\* Each event of a finished turn has the verdict of its last complete line in the
\* agent's report, and unknown where there is none (AcpSession).
VerdictsAreTheAgents == Acp!VerdictsAreTheAgents

\* A turn ends, whatever the agent does or does not do, if its context has a
\* deadline; with the LLM backend also without one.  (Compile and recall turns of
\* the ACP backend are given none, and there it may wait for ever.)
TurnsEnd ==
    /\ AcpRuns /\ deadline ~> ~AcpRuns
    /\ LlmRuns ~> ~LlmRuns
=============================================================================
