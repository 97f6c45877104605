----------------------------- MODULE CompileTurn -----------------------------
(***************************************************************************)
(* The compile cycle (handleCompile in internal/api/handler.go): read the  *)
(* cursor, let an agent work through the events after it, move the cursor. *)
(* With the ACP backend (internal/agent/backend_acp_compile.go) the agent  *)
(* works on a copy of the data directory and leaves receipts of what it    *)
(* read (internal/mcp/compile.go); with the LLM backend (internal/agent/   *)
(* compile.go) it works on the server's own store.  Events arrive all the  *)
(* time, from /remember and from write_memory in another process, and the  *)
(* process may die at any step.                                            *)
(*                                                                         *)
(* Data abstraction.  The raw log is the sequence of events that a load    *)
(* would find in the file, and how its last line ends.  A cursor is a      *)
(* position in a sequence of events; which sequence is the point.  The     *)
(* edits of the agent are left out, as WikiMerge has them: an event is     *)
(* "compiled" once a turn that was offered it is in the wiki.  Cycles      *)
(* exclude each other by wikiMu.                                           *)
(***************************************************************************)
EXTENDS Naturals, Sequences, FiniteSets, FiniteSetsExt, SequencesExt

CONSTANTS
    Events,         \* events that may be written
    Foreign,        \* those written by write_memory, in another process
    Backends,       \* compile backends a start of the server may choose from
    AppendErrs,     \* may a write to the raw log stop half-way?
    CursorErrs,     \* may opening or writing the cursor file fail?
    MaxReads,       \* bound: read_events_since calls of a turn
    MaxCycles,      \* bound: compile cycles
    MaxCrashes      \* bound: process deaths

ASSUME EventsAssumption == IsFiniteSet(Events) /\ Foreign \subseteq Events

ASSUME BackendsAssumption == Backends \subseteq {"acp", "llm"} /\ Backends # {}

ASSUME LimitsAssumption ==
    /\ {AppendErrs, CursorErrs} \subseteq BOOLEAN
    /\ {MaxReads, MaxCycles, MaxCrashes} \subseteq Nat

VARIABLES
    disk,           \* the events a load of raw/events.jsonl finds
    tail,           \* how the file ends: "clean", or without a newline after
                    \* an event ("bare") or after part of one ("torn")
    cursor,         \* what GetCompileCursor reads
    up,             \* does the server run?
    backend,        \* its compile backend
    cache,          \* FS.events of the server
    pc,             \* where the cycle under way is
    expected,       \* the cursor that the last cycle started from
    bound,          \* eventBound of the last ACP turn
    staged,         \* the raw log in its staging copy
    reads,          \* its receipts, or the reads that the callback saw
    seen,           \* events that the agent of the last cycle was offered
    newCursor,      \* CompileResult.NewCursor
    spent,          \* events that were written, or tried (ids are never reused)
    cycles,         \* cycles so far (bound only)
    crashes,        \* process deaths so far (bound only)
    compiled,       \* history: events offered to a turn that is in the wiki
    misnumbered     \* history: the cursor may not be a position of the log

rawLog == <<disk, tail, spent>>
server == <<up, backend, cache>>
turn == <<expected, bound, staged, reads, seen, newCursor>>
vars == <<rawLog, cursor, server, pc, turn, cycles, crashes, compiled, misnumbered>>

Positions == 0 .. Cardinality(Events)

-----------------------------------------------------------------------------
(* The raw log.                                                            *)

\* How much of a line a write leaves in the file.
Parts == IF AppendErrs THEN {"whole", "bare", "torn", "none"} ELSE {"whole"}

\* A line that is glued to an unfinished one is skipped at load, and so is the
\* unfinished one, which without its newline was still an event.
Loaded(e, part) ==
    CASE part = "none" -> disk
      [] part # "none" /\ tail = "bare" -> Front(disk)
      [] part = "torn" /\ tail # "bare" -> disk
      [] part \in {"whole", "bare"} /\ tail = "torn" -> disk
      [] part \in {"whole", "bare"} /\ tail = "clean" -> Append(disk, e)

\* (mutant: a line that was glued to another still counts as an event)
TailUnfinished(part) ==
    CASE part = "none" -> tail
      [] part = "whole" -> "clean"
      [] OTHER -> part

\* Only a line that is complete but for its newline is still an event.
TailAfter(part) ==
    CASE part = "none" -> tail
      [] part = "whole" -> "clean"
      [] part = "torn" -> "torn"
      [] part = "bare" -> IF tail = "clean" THEN "bare" ELSE "torn"

\* FS.AppendEvent as far as the file is concerned.
Write(e, part) ==
    /\ e \notin spent
    /\ spent' = spent \cup {e}
    /\ disk' = Loaded(e, part)
    /\ tail' = TailAfter(part)
    /\ misnumbered' = (misnumbered \/ (tail = "bare" /\ part # "none"))

\* handleRemember: the server appends to its cache what it could write.
Remember(e, part) ==
    /\ up
    /\ e \notin Foreign
    /\ Write(e, part)
    /\ cache' = IF part = "whole" THEN Append(cache, e) ELSE cache
    /\ UNCHANGED <<cursor, up, backend, pc, turn, cycles, crashes, compiled>>

\* write_memory of an engram9-mcp on the same directory: the server is not told.
WriteMemory(e, part) ==
    /\ e \in Foreign
    /\ Write(e, part)
    /\ UNCHANGED <<cursor, server, pc, turn, cycles, crashes, compiled>>

-----------------------------------------------------------------------------
(* Starting a cycle.                                                       *)

\* handleCompile takes wikiMu and reads the cursor.  So does the auto-compile timer
\* (Handler.runCompile), unless it finds nothing uncompiled.
BeginCycle ==
    /\ up
    /\ pc = "idle"
    /\ cycles < MaxCycles
    /\ cycles' = cycles + 1
    /\ expected' = cursor
    /\ newCursor' = cursor
    /\ reads' = <<>> /\ seen' = {} /\ bound' = 0 /\ staged' = <<>>
    /\ pc' = IF backend = "acp" THEN "bounding" ELSE "working"
    /\ UNCHANGED <<rawLog, cursor, server, crashes, compiled, misnumbered>>

\* runCompile opens the live store anew and counts its events.
CaptureBound ==
    /\ pc = "bounding"
    /\ bound' = Len(disk)
    /\ pc' = "copying"
    /\ UNCHANGED <<rawLog, cursor, server, expected, staged, reads, seen, newCursor,
                   cycles, crashes, compiled, misnumbered>>

\* runACPTurnFullOpts: copyDir, and the tool server that loads the copy.
CopyLog ==
    /\ pc = "copying"
    /\ staged' = disk
    /\ pc' = "working"
    /\ UNCHANGED <<rawLog, cursor, server, expected, bound, reads, seen, newCursor,
                   cycles, crashes, compiled, misnumbered>>

-----------------------------------------------------------------------------
(* The agent's turn.                                                       *)

\* (mutant: the page is not cut at the bound)
VisibleWhole == IF backend = "acp" THEN staged ELSE cache

\* The events that read_events_since can return: of the copy and below the
\* bound, or all that the server knows of.
Visible ==
    IF backend = "acp" THEN SubSeq(staged, 1, Min({bound, Len(staged)})) ELSE cache

\* read_events_since(k): the agent may call it with any cursor, more than once.
\* A call that fails offers nothing and leaves no receipt.
ReadEvents(k) ==
    /\ pc = "working"
    /\ Len(reads) < MaxReads
    /\ seen' = seen \cup {Visible[i] : i \in {j \in DOMAIN Visible : j > k}}
    /\ reads' = Append(reads, [cursorIn |-> k, newCursor |-> Len(Visible)])
    /\ UNCHANGED <<rawLog, cursor, server, pc, expected, bound, staged, newCursor,
                   cycles, crashes, compiled, misnumbered>>

\* Never backward, never past the count of events.
Clamped(n, count) == Min({Max({n, expected}), count})

\* (mutant: the receipt's cursor_in is not compared)
ReceiptPresent == Len(reads) = 1

\* validateCompileReceipt: exactly one read, from the cursor of this cycle.  (The
\* receipt file is in the staging copy, which is new: no receipt in it is stale.)
ReceiptValid == Len(reads) = 1 /\ reads[1].cursorIn = expected

\* commitStagingTurn: the receipt is judged before the merge.  When the cursor is
\* past the bound the result is the bound, which handleCompile then ignores.
MergeTurn ==
    /\ pc = "working"
    /\ backend = "acp"
    /\ ReceiptValid
    /\ newCursor' = Clamped(reads[1].newCursor, bound)
    /\ compiled' = compiled \cup seen
    /\ pc' = "merged"
    /\ UNCHANGED <<rawLog, cursor, server, expected, bound, staged, reads, seen,
                   cycles, crashes, misnumbered>>

\* Reads from the right cursor; the callback takes the first and ignores the rest.
Matches == {i \in DOMAIN reads : reads[i].cursorIn = expected}

\* CompileAgent.Compile ends its tool loop; what the agent did is in the wiki.
\* Without a matching read the cursor stays.
FinishAgent ==
    /\ pc = "working"
    /\ backend = "llm"
    /\ newCursor' = IF Matches = {}
                    THEN expected
                    ELSE Clamped(reads[Min(Matches)].newCursor, Len(cache))
    /\ compiled' = compiled \cup seen
    /\ pc' = "merged"
    /\ UNCHANGED <<rawLog, cursor, server, expected, bound, staged, reads, seen,
                   cycles, crashes, misnumbered>>

\* The turn ends with an error: agent, receipt, validation or merge.  The cursor
\* stays.
TurnFails ==
    /\ pc \in {"bounding", "copying", "working"}
    /\ pc' = "idle"
    /\ UNCHANGED <<rawLog, cursor, server, turn, cycles, crashes, compiled, misnumbered>>

-----------------------------------------------------------------------------
(* Persisting the cursor.                                                  *)

Progress == newCursor > expected

\* os.WriteFile truncates the file first; an empty file reads as zero.
StartCursorWrite ==
    /\ pc = "merged"
    /\ Progress
    /\ cursor' = 0
    /\ pc' = "writing"
    /\ UNCHANGED <<rawLog, server, turn, cycles, crashes, compiled, misnumbered>>

\* No progress, or the file cannot be opened; the cycle succeeds all the same.
LeaveCursor ==
    /\ pc = "merged"
    /\ ~Progress \/ CursorErrs
    /\ pc' = "idle"
    /\ UNCHANGED <<rawLog, cursor, server, turn, cycles, crashes, compiled, misnumbered>>

\* The LLM backend counts in the server's cache, the log is numbered by its file.
CountedElsewhere ==
    /\ backend = "llm"
    /\ ~IsPrefix(SubSeq(cache, 1, newCursor), disk)

WriteCursor ==
    /\ pc = "writing"
    /\ cursor' = newCursor
    /\ pc' = "idle"
    /\ misnumbered' = (misnumbered \/ CountedElsewhere)
    /\ UNCHANGED <<rawLog, server, turn, cycles, crashes, compiled>>

WriteCursorFails ==
    /\ pc = "writing"
    /\ CursorErrs
    /\ pc' = "idle"
    /\ UNCHANGED <<rawLog, cursor, server, turn, cycles, crashes, compiled, misnumbered>>

-----------------------------------------------------------------------------
(* The process.                                                            *)

Crash ==
    /\ up
    /\ crashes < MaxCrashes
    /\ crashes' = crashes + 1
    /\ up' = FALSE
    /\ cache' = <<>>
    /\ pc' = "idle"
    /\ UNCHANGED <<rawLog, cursor, backend, turn, cycles, compiled, misnumbered>>

\* NewFS loads the log; the operator may have chosen another backend.
Restart ==
    /\ ~up
    /\ up' = TRUE
    /\ cache' = disk
    /\ backend' \in Backends
    /\ UNCHANGED <<rawLog, cursor, pc, turn, cycles, crashes, compiled, misnumbered>>

-----------------------------------------------------------------------------
Init ==
    /\ disk = <<>> /\ tail = "clean" /\ spent = {}
    /\ cursor = 0
    /\ up = TRUE /\ backend \in Backends /\ cache = <<>>
    /\ pc = "idle"
    /\ expected = 0 /\ bound = 0 /\ staged = <<>> /\ reads = <<>> /\ seen = {}
    /\ newCursor = 0
    /\ cycles = 0 /\ crashes = 0
    /\ compiled = {} /\ misnumbered = FALSE

Next ==
    \/ \E e \in Events, part \in Parts : Remember(e, part) \/ WriteMemory(e, part)
    \/ BeginCycle \/ CaptureBound \/ CopyLog
    \/ \E k \in Positions : ReadEvents(k)
    \/ MergeTurn \/ FinishAgent \/ TurnFails
    \/ StartCursorWrite \/ LeaveCursor \/ WriteCursor \/ WriteCursorFails
    \/ Crash
    \/ Restart

Spec == Init /\ [][Next]_vars

-----------------------------------------------------------------------------
(* Properties.                                                             *)

\* The values every variable may take; a server that is down serves nobody.
TypeOK ==
    /\ {disk, cache, staged} \subseteq Seq(Events)
    /\ tail \in {"clean", "bare", "torn"}
    /\ tail = "bare" => disk # <<>>
    /\ {cursor, expected, bound, newCursor} \subseteq Positions
    /\ backend \in Backends
    /\ pc \in {"idle", "bounding", "copying", "working", "merged", "writing"}
    /\ reads \in Seq([cursorIn : Positions, newCursor : Positions])
    /\ {spent, seen, compiled} \subseteq SUBSET Events
    /\ {up, misnumbered} \subseteq BOOLEAN
    /\ ~up => pc = "idle"
    /\ cycles \in 0 .. MaxCycles /\ crashes \in 0 .. MaxCrashes

\* Nothing is skipped: every event below the cursor was offered to a turn whose
\* work is in the wiki, and the cursor is not past the end of the log, where it
\* would hide an event still to come.  Turns that fail, agents that read from
\* elsewhere or twice, events that arrive meanwhile, a cursor file cut short and
\* crashes notwithstanding (backend_acp_compile.go 129-167, compile.go 117-164,
\* handler.go 441-468).  Excepted: a cursor counted in the cache of a server that
\* had not seen what another process wrote, and a log whose last event was lost
\* to a line glued to it.
NoEventSkipped ==
    ~misnumbered =>
        \A i \in 1 .. cursor : i <= Len(disk) /\ disk[i] \in compiled

\* "post-start /remember appends [are] structurally invisible to this turn"
\* (mcp/compile.go 41-45): an ACP turn is offered nothing that was not in the log
\* when the bound was taken, whenever the copy is made.
LateEventsInvisible ==
    ~misnumbered /\ backend = "acp" /\ pc \in {"working", "merged"} =>
        seen \subseteq ToSet(SubSeq(disk, 1, bound))

=============================================================================
