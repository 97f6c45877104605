# engram9: a TLA+ verification project

engram9 is a memory server for agents. It appends what it is told to a raw
event log (`/remember`), lets agents integrate those events into a wiki of
Markdown pages, answers questions from the wiki (`/recall`), and compiles and
prunes the wiki from time to time. This directory models the parts of it where
several things happen at once, or where a crash can fall between two steps.

Every definition is translated from the Go source; `PROJECT.json` names, for
each, the lines it stands for.

## Inventory

| Part | State | Operations | What is hard about it | What makes it correct |
|---|---|---|---|---|
| Pending event store (`internal/agent/store.go`) | status log on disk; `knownIDs`, `pendingIDs`, `terminal` in memory | bootstrap, load, reconcile, list, announce, write verdict, tombstone, recover | snapshots of the raw log older than announcements; appends that fail, tear or are not fsynced; crashes | no event lost; memory never ahead of the log; no silent second ingest |
| Batch coordinator (`coordinator.go`) | wake-up channel, timer, suspension, stop record, streak and failure counters, the flush in progress | run loop, flush, split, breakers, defer, reset, confirm, Stop | wake-ups against the timer, decisions on stale results, shutdown deadlines | work is not forgotten; a suspended coordinator spends nothing; splitting neither loses nor repeats events |
| Batch forming and parsing (`batch.go`) | none | cut events into batches, parse the agent's report | limits at their boundaries | every event in one batch, in order |
| ACP turns (`backend_acp.go`, `backend_acp_query.go`) | `wikiMu`, staging copy, `wiki/`, `wiki.merging/`, `wiki.backup/` | copy, agent edits, commit gate, merge, index | abandoned waiters, agents that hang, failure or crash between two renames | a turn is in the wiki as a whole or not at all; the lock is always released |
| Validator (`validator.go`) | none | compare staging with production | archive moves over several turns | turns do not destroy knowledge |
| Compile (`backend_acp_compile.go`, `mcp/compile.go`) | cursor file, receipt file, turn nonce, event bound | read events, archive pages, advance the cursor | cursor against concurrent appends and crashes, stale receipts | every event below the cursor was offered to a merged turn |
| HTTP handler (`internal/api/handler.go`) | backends, slots, counters, `wikiMu` | remember, recall, compile, status, reset, confirm | the order of append and announce, LLM ingest beside compile | acknowledged events are integrated in the end |
| Filesystem store (`internal/storage/fs.go`) | raw log and its cache, pages, sidecars, indexes, cursor | append, read, write, archive, rebuild index | per-page locks, two-phase index, writes that are not fsynced | the log is append-only; the index names the pages there are |
| LLM ingest (`handler.go`, `tools.go`, `fs.go` with `WIKI_BACKEND=llm`) | integration slots, pending counter, page and index locks | integrate an event, rebuild the index, compile and recall beside it | goroutines without `wikiMu`, a compile that replaces `wiki/` | sources are kept, the index catches up, recalls see what is not integrated yet |
| LLM agents (`runner.go`, `tools.go`, `ingest.go`, `compile.go`, `llm_retry.go`) | tool loop counters | tool calls, retries | limits, repeated calls, cancellation | loops end; a failing call is retried a bounded number of times |
| MCP server (`internal/mcp`) | tool surface per mode | JSON-RPC tool calls | a second process on the same directory | each mode offers only its tools |
| Main programs (`cmd/`) | - | start-up order, shutdown | deadlines of the shutdown steps | - |
| OKF tools (`internal/okf`) | the bundle, backups, temporary files | validate, migrate (dry, check, write) | runs that stop half-way, edits meanwhile, two passes over links and two scanners | nothing a person wrote is lost, reports are true, a run can be repeated, the result validates |
| Repository scanner, bundles, OpenClaw plugin | - | offline or client-side conversions | - | not modelled: sequential text processing |

How they interact in the default configuration (every backend `acp`):
`handleRemember` appends to the raw log, then calls
`coordinator.NotifyNewEvent`, which queues the event in the store, clears a
suspension under `coordinator.mu` and signals a channel of capacity one. The
run loop selects among that channel, its timer and the stop channel; a flush
lists pending events from the store, forms batches, and for each calls
`RunBatchIngest`, which takes `wikiMu`, runs an agent on a copy of the data
directory and swaps the copy's wiki in. Compile and recall take the same
`wikiMu`. Verdicts go back to the store, one record per event. Operators reset
or confirm events over HTTP under `coordinator.mu`. Every mutex protects a
different thing and no caller holds two of `store.mu`, `coordinator.mu` and
`wikiMu` in opposite orders; the interesting interleavings are between critical
sections, and that is what the actions are.

## The modules

| Module | Models |
|---|---|
| `EventLedger` | What an operator may believe of the store: an event is absent, pending or has a verdict, is never forgotten, and a success is not undone. Refined by `PendingStore` and by `Coordinator`. |
| `PendingStore` | The store in full, with `/remember`, the flush as the store sees it, operators, crashes, a disk that fails. Refines `EventLedger`. |
| `Coordinator` | Run loop, flush, splitting, breakers, deferral, `/remember`, operators, `Stop`. The store is reduced to what it promises: an event is queued or has a verdict. Refines `EventLedger`. |
| `AtomicWiki` | What the callers of the wiki's turns are promised: a turn is one step on the pages in service, or none, and its caller is told which. |
| `WikiMerge` | `wikiMu`, staging, the validator's rules, `mergeWiki` step by step, failing renames, abandoned waiters, crashes. Refines `AtomicWiki`. |
| `CompileTurn` | The compile cycle with its cursor, bound and receipts, for both backends; the raw log, its torn lines and a second process that writes to it. |
| `LlmIngest` | `/remember` with the LLM backend: slots, counter, page and index locks, sidecars, the two-phase index, beside recalls and a compile cycle of either backend. |
| `Batching` | `FormBatches` and `parseEventResults` as operators. |
| `AcpSession` | A batch turn as a conversation with the agent process, up to the verdicts read from its report. EXTENDS `Batching`. |
| `ToolLoop` | The runner's loop of tool calls and the retries of its LLM calls. |
| `AgentBackend` | The composition: a turn of either backend, in a context that may or may not have a deadline. |
| `Okf` | What the migration makes of a page and what the validator says of it, as operators. |
| `Migration` | `migrate-okf` as a process: walk, backups, atomic replacement, refused writes, crashes, edits meanwhile. EXTENDS `Okf`. |
| `*_proofs` (eight) | Machine-checked proofs about `PendingStore`, `Coordinator`, `WikiMerge`, `CompileTurn`, `LlmIngest`, `Migration`, `Batching` and `AgentBackend`. |
| `MC*` | Small instances for TLC. |

In several modules a definition is preceded by a comment that starts with
"(mutant: ...)": a variant with a plausible bug, which no action uses. It stands
there to show which mistake the property would find.

### PendingStore and EventLedger

The status log is an append-only file where the last valid record of an event
wins; the model keeps what a load would compute from it now (`durable`) and
whether its last line lacks a newline (`tail`). `AppendRecord` gives an append
its four outcomes: acknowledged, written but not acknowledged, not written, cut
short. After a torn line the next record is glued to it and unreadable. The wiki
is the set of events that merged pages name, and has two writers: the flush's own
turns (`MergeTurn`) and compile turns (`CompileTurn`), which are given raw events
by position, whether or not they are pending, and name what they integrate.
`ListEvents`/`SelectPending` are the two halves of `ListPendingEvents`: the raw
log is read before `store.mu` is taken, so announcements fall in between.
Operator requests hold `coordinator.mu` from start to end, which is why the
flush's own uses of that mutex (`MuFree`) matter. `Crash` is possible in every
state; what was being written may leave a torn line. Histories `late`,
`excused`, `compiled` and `doubtful` record exactly the circumstances under which a promise
is not given. `late`: a flush listed an event between its append to the raw log
and its announcement, gave it a verdict, and the announcement then took the
verdict back (such an event is integrated twice). `doubtful`: the last append
for an event was not acknowledged, or its record was glued to a torn line and
is gone at the next start. `excused`: an operator reset the event, or its status
could not be written. `compiled`: a compile turn named the event before it had a
verdict; as the event stays pending, it is integrated a second time by its own
turn, or a restart takes it for one whose verdict was lost and makes it unknown.

### Coordinator

One action per critical section of `coordinator.mu` or channel operation. `pc`
follows the run loop: `select` waits; `begin`, `list`, `loop`, `arm`, `turn`,
`record` walk through a flush; `schedule` and `rearm` are the two halves of
`scheduleNext` (the suspension is decided under the mutex, the pending count is
read after it). `arrival` does the same for `/remember`: append, queue, clear
the suspension, signal. A turn's outcome is any the backend can return: an error
of its own (only when `BackendErrs`: `ACPBackend` returns none after its
argument checks, but the interface allows it and the coordinator counts it), a
result per event, a failure with or without violations, a cancellation. A turn
that succeeds writes its statuses in one action; `PendingStore` has them one by
one. `EnvelopeTurns` is the number of turns any flush has time for: 40 minutes
of envelope at no more than 10 minutes a turn.

`Ledger` is what an operator may believe meanwhile: an event is absent until
`/remember` has appended it, pending while it has no verdict (`StatusOf`, which
is `GetEventStatus` on the reduced store). An event that is appended but not
announced (`Unannounced`) is excepted, as in `PendingStore`: a flush can list and
judge it first, and the announcement then takes the verdict back.

Timers: the module is built with Go 1.26, whose `Stop` and `Reset` leave no
stale fire in the channel, so "the timer is armed" is one Boolean.

### WikiMerge and AtomicWiki

A page is the set of contributions it holds, so that losing knowledge is
visible; an agent keeps what it read on the page that it rewrites. The
validator keeps its rules about deletions and the archive; all its other rules
(taxonomy, frontmatter, budget) can refuse any turn and are part of
`TurnFails`. `SetAside`, `SwapIn`, `CleanUp` are the renames and removals of
`mergeWiki`, each of which may fail or be the last thing the process does.
`GiveUp` and `HandBack` are the `select` in `RunBatchIngest` and the goroutine
it leaves behind. Copies of directories are atomic: under `wikiMu` nobody else
writes in this configuration.

`AtomicWiki` has no directories, no lock and no agents: only the pages in service,
what each caller has been or will be told, and whose agent has written. `Merge`
replaces the pages in one step by a turn's result (`TurnOf`: nothing is added but
the turn's own work, nothing is lost from an active page, and only a compile turn
moves text to the archive). The refinement mapping reads the pages in service
from the directories (`Wiki`): those of `wiki/`, or, between the two renames of
`mergeWiki`, those of `wiki.backup/`, so that a merge takes effect with its second
rename, or, if that fails and the first is undone, not at all. `Told` reads the
outcome from where the call is; an abandoned batch is a failure from the moment
its caller stops waiting, whatever its goroutine does later. The exceptions are
in the abstract specification for a reader to see: `Tear` (neither the second
rename nor its undoing succeeds) and a crash between the renames leave an empty
wiki, and neither counts as a success.

### CompileTurn

The raw log is the sequence of events that a load would find (`disk`) and how
the file ends (`tail`); `Loaded` says what a write that stops half-way does to
both, including the event that is lost when the next line is glued to it. The
server keeps its own sequence (`cache`), which `Remember` extends and
`WriteMemory`, the `write_memory` of an `engram9-mcp` on the same directory, does
not. `BeginCycle`, `CaptureBound`, `CopyLog`, `ReadEvents`, `MergeTurn`,
`StartCursorWrite` and `WriteCursor` are the steps of a cycle, with appends and
crashes between any two; the agent may read from any cursor and several times.
`FinishAgent` is the LLM backend, which reads the cache and has no receipts. A
start of the server may choose the other backend. The turn nonce is left out:
the receipt file is in a staging directory that is new for each turn. A decimal
number cut short would read as a smaller cursor; the model has only the file
that was truncated, which reads as zero.

`misnumbered` records the two circumstances in which a cursor is no position of
the file, and nothing is promised then: the LLM backend moved the cursor in a
server whose cache is not a prefix of the file, because another process wrote
to it or because a line was glued to a torn one; or a last event that lacked its
newline was lost to the line after it. In both, events can end up below the
cursor without having been offered to any turn. With the ACP backend, which
counts in the file, only the second is possible.

### LlmIngest

With `WIKI_BACKEND=llm` each `/remember` starts a goroutine of its own. `at` says
where each is: appended (`logged`), counted and answered (`queued`), in its
agent, inside a read or a write of a page (`reading`, `writing`, under that page's
lock), at the index (`scan`, `index`), `done`. `compileBackend` and
`maxConcurrentIntegrations` are chosen at the start of the server and stay.

No call on a page is read-only: `FS.ReadWikiPage` writes the page's sidecar back
with a new access date. So four kinds of callers rewrite sidecars: the agents of
integrations and of an LLM compile (`ReadWikiPage`, `TouchSidecar`;
`WriteWikiPage`, `WriteSidecar`), the agent of a recall, and `read_concept` of an
`engram9-mcp` on the same directory (`VisitPage`, `VisitSidecar`, `EndVisit`, by
`Recaller` or `Stranger`). The last of them is another process and has page locks
of its own; the comment at fs.go:184-186 speaks of one process. `SaveSidecar`
ignores the error of the write, as the code does, and makes the directories it
needs, `wiki/` among them. The disk may refuse any write of the store
(`DiskErrs`); what it refused is as it was, or empty. `WriteIndexPage` is
`write_wiki_page` on `index.md`, which the tool allows: the agent may put anything
there. `CollectPages` and `WriteIndex` are the two phases of `RebuildIndex`.

A page is there or not, and its text is not modelled: its lock is held for one
tool call only, so nothing protects one agent's text from another's. What the
lock protects is the sidecar, and `SourcesAreKept` says that this is enough,
for whoever takes the lock. It presumes, as the prompt demands, that an agent
names its own event in `source_events`. Where it is not enough, the page is
disturbed, and both `SourcesAreKept` and `IndexIsCurrent` except it: its write or
that of its sidecar was refused; another process read it while it was being
written, or the other way round (`HalfWritten`, `Disturbed`), and wrote back a
sidecar without the new event; or an ACP compile turn met a call on any page, at
its copy, at its renames or in between. `Forget` takes such pages from the
history `wrote` and puts them into `stale`; a rebuild makes an end of the latter,
as from then on the index is right again. Between the two renames of a merge,
`at[Compiler] = "aside"`, nothing is said.

The ACP compile turn is reduced to copy, edit, rename aside, swap in; `WikiMerge`
has it in full. What one that meets an ingest does to the pages is the finding
`lost_ingest`. A recall looks at the counter first and reads the log only if it
is positive; it is then given the last ten events, which is why `RecallSeesEvent`
speaks of what it reads and not of what it is given. Counter and log are one
step, because the log only grows; an agent reads a page and its sidecar in one
step, because it has the lock, and a write reads the sidecar in the step that
writes the page. What a merge or another process does in between is a disturbed
page either way; `VisitPage` takes the same function apart.

### Batching, AcpSession, ToolLoop, AgentBackend

`Batching` forms batches by folding over the ordered events as the code's loop
does, and reads a report line by line. The reference definitions do without
folds over sequences: `CutRight`, which is the property `BatchesCutRight`, says
what a correct cut is by sums over sets, and `VerdictsAreTheAgents` finds the last complete verdict line of each event.
`AcpSession` receives any message at any time: answers, errors, pieces of the
report, noise. What the code takes for granted of the agent process is taken
for granted here: pieces end where lines end (the comment at
backend_acp.go:577-584), messages arrive whole and in order, the agent sends no
requests of its own. If the answer to the prompt has any text, verdicts in the
pieces are not looked at; `Report` follows the code in that. `ToolLoop` keeps the
runner's counters and, beside them, `stall`: how often the same read was really
executed without another read or a change in between. `AgentBackend` is what
`backend.go` says a turn is; the server is started with one backend or the other.

### Okf and Migration

A page is how it begins (plain, legacy comments, YAML, broken), its line ends,
its metadata fields (missing, accepted, refused, a bare trust tier) and its
links, each with its form, its target and where it stands. The last matters
because migration and validator scan differently: the migration skips code
spans and gives up the rest of a line after an unmatched backtick, the
validator does neither quite the same way. Texts are not spelled out.
What a page becomes depends on the files beside it (`Files`), because a link
whose target is missing is removed (migration.go:618-636).
`Migration` walks the bundle one page at a time; `OpenBackup`, `FillBackup`,
`WriteTemp`, `SwapPage` are the steps of `migrateFile` between which the process
may die, the disk may refuse, or somebody may touch a page: `Edit` writes or
creates one, `Remove` deletes, archives or renames one away, which also takes the
target from the links to it. Then a page that an earlier run has finished needs
migration again, and the backup that run left stops every later one at it:
`NoStrayRefusal` says that this, an edit, and a run that stopped half-way are the
only reasons (`upset`). People are not modelled to remove backups, which is what
they have to do then.

docs/okf-compatibility.md:111 says that pages with frontmatter "only have legacy
`[[wikilinks]]` converted". The code also removes broken Markdown links from them
and joins their lines with `\n`; the model follows the code.

## The runs

| Run | Question | Bounds, and why they are enough |
|---|---|---|
| `pending_store` | Does the store keep every event, keep memory behind the log, and implement the ledger? | 2 events, one older than the first start: enough for an event in the snapshot and one outside it, or a batch and an arrival. Any number of compile turns that name any of them. 3 appends: a torn one, a glued one, a good one. 1 crash: what a second crash finds is a state the first one could have left. |
| `coordinator` | Do the breakers hold, does the run loop never sleep on work, do splits conserve events, does a timed-out flush make progress, is the ledger kept? | 2 events, one arriving; limits of 2 where the code has 3 (a limit is reached from its predecessor, and both happen); batches of up to 2; split depth 2 as in the code, 3 turns to an envelope; 1 reset. |
| `coordinator_fair` | Does pending work get done, and does Stop end the loop? | As above, without backend errors and resets. |
| `wiki_merge` | Is a turn one step to its callers, or none, and truly reported? Is every batch answered? | 2 ingests (a batch can follow one that was given up), 1 compile, 1 recall, 1 page (the validator judges pages one by one), 1 crash, renames may fail. |
| `compile_turn` | Does the compile cursor never skip an event? | 3 events, 1 of another process: one before, one during and one after a cycle; 2 cycles and 1 crash, for what a cycle finds after one that was cut short; 2 reads to a turn, one too many. |
| `llm_ingest` | Do unlocked integrations keep sources and index, does a recall miss nothing, does every integration end? | 2 events on 1 page (interference is per page), 1 or 2 slots so that one waits or both run, 1 page written by each agent, any number of reads, of reads by recalls and by another process (one at a time: two are ordered by the lock, or overwrite each other with what they read) and of refused writes, a compile cycle of either backend. |
| `agent_backend` | Are batches cut right, are the verdicts the agent's, does every turn with a deadline end, are loops stopped? | 4 events, one larger than any batch, one out of order, limits that each bite; 6 messages: the handshake, two pieces and an answer, or one fewer and one of noise; loop limits of 5, 2 and 2 with 3 attempts, all reached. |
| `migration` | Is nothing lost, are reports true, can runs be repeated, does the result validate? | An index page and a concept, each there or not, 10 drafts that cover every front, link form, place and target; 2 runs in any of 4 modes, 1 page edited, created or removed and 1 fault, at any step. |
| `lost_recovery` | finding, see below | 3 events, 2 of them in the backlog, threshold 4 |
| `merge_crash` | finding | 1 ingest, 1 crash |
| `archive_wedge` | finding | 1 ingest, 1 compile |
| `lost_ingest` | finding | 1 event, 1 page, ACP compile |

Deadlock is not checked: the process may stop, and bounded calls run out.

**What the passing runs show.** Besides one type invariant each:

- `PendingStore`: `NoEventLost`, `CountsPartition` (the counts of `/status` add
  up), `VerdictIsDurable`, `NoSilentReingest` (a crash between merge and status
  write never leads to a second ingest of its own accord), `ImplementsLedger`.
- `Coordinator`: `NoForgottenWork` (if it sleeps with no wake-up or timer to come,
  what is pending is deferred or an operator is needed), `NoTurnWhileSuspended`,
  `BurnLimited`, `DeferredNotRun`, `StopHonoured` (at most one turn starts after
  the stop), `FlushConservesEvents`, `EnvelopeMakesProgress`, `KeepsLedger` (no verdict is
  written over another, through listings, splits and operators), and the liveness
  properties `PendingIsResolved` and `StopEndsRunLoop`.
- `WikiMerge`: `LockFollowsTurn`, `TurnsAreAtomic` (the refinement of
  `AtomicWiki`), `ActivePagesAreKept` (over every step, not only between the start
  and the end of a turn), and `BatchesEnd` (a batch is answered even when a
  compile never ends). Two invariants that
  `TurnsAreAtomic` implies are stated and proved beside it and listed by no run:
  `SuccessIsMerged` (at the moment of the report; a later archive move may
  overwrite an older archived page of the same name, which is why what stays is
  said of active pages) and `FailureLeavesNothing`.
- `CompileTurn`: `NoEventSkipped` (every event below the cursor was offered to a
  turn that is in the wiki), `LateEventsInvisible`.
- `LlmIngest`: `RecallSeesEvent`, `SourcesAreKept`, `IndexIsCurrent`,
  `IntegrationsEnd`.
- `AgentBackend`: `BatchesCutRight`, `VerdictsAreTheAgents`, `NoStall`, `TurnsEnd`.
- `Migration`: `OriginalIsRecoverable`, `NoStrayRefusal`, `ReportIsTrue`,
  `MigratedBundleValidates`.

**What the findings show.** Each is a run that TLC must find violated.

1. `lost_recovery`: `scheduleNext` suspends on the strength of a result older
   than the `/remember` that cleared the suspension; the timer flush the comment
   relies on is then refused. (The trace also shows an automatic flush firing
   while suspended, which the comment at coordinator.go:462-467 says should not
   happen.)
2. `merge_crash`: a crash between the two renames puts an empty wiki in
   service, and the next merge removes the backup.
3. `archive_wedge`: once a page has been archived, the validator rejects the
   untouched archive in every later turn; every batch then fails.
4. `lost_ingest`: an ACP compile turn replaces `wiki/` by a copy taken before an
   LLM ingest wrote its pages; the ingest was reported as done and is gone. The
   comment at handler.go:34 says that LLM ingest does not need the lock.

Some behaviours that a reader may not expect are in the models without a run of
their own, because no document contradicts them. Properties name them as their
exceptions: the late announcement and the glued line in `PendingStore`, the
overwritten archive in `WikiMerge`, compile and recall turns of the ACP backend,
which have no deadline and keep `wikiMu` while a silent agent says nothing, two
LLM agents that overwrite each other's text of a page, an edit that `migrate-okf`
overwrites in the window between its read and its rename, and a page removed in
that window that its rename brings back; pending events that a compile turn
integrates and the coordinator then integrates again; a finished page whose own
backup stops `migrate-okf` because a page it links to was removed; an `index.md`
that an agent has written itself; sidecars that lose sources to a refused write or
to a reader in another process.

## Fairness

`Coordinator`: weak fairness of the run loop (it is a goroutine; a batch has a
deadline of at most ten minutes, the timer fires), strong fairness of taking
the stop branch (Go's `select` chooses at random among ready channels), weak
fairness of a `/remember` call once it has begun. No fairness for operators, for
new events or for the stop. `WikiMerge`: weak fairness of some call moving, where
the agents of compile and recall are excepted because nothing bounds them, and
of a batch whose deadline passes being given up. It need not be per call: there
are finitely many calls and each has finitely many steps. `LlmIngest`: weak
fairness of each goroutine (its agent ends or its timeout comes), strong fairness
of getting a slot, of the timeout and of getting the index lock: waiters on a Go
channel are served in order, a timeout comes however often the agent is inside a
call just then, and a mutex hands itself to a waiter that starves. Weak fairness
of a compile agent leaving the rebuild it is in; none for the compile agent, for
recalls and for other processes otherwise. `AgentBackend`: a deadline, where there is one, passes; the end
of the context kills the agent (`exec.CommandContext`), which ends its output;
an attempt of the LLM backend ends by its own timeout. No fairness for the ACP
agent.

## What is proved

Eight modules hold the proofs. Unless said otherwise a theorem is `Spec => []P`
for every value of the constants that the module's assumptions admit: any set of
events, any pages, any limits, any disk behaviour, any number of crashes.

| Module | Theorems | Property of a run |
|---|---|---|
| `PendingStore_proofs` | `TypeCorrect`, `NoEventIsLost`, `CountsAddUp`, `VerdictsAreDurable`, `NothingIsIngestedTwice`, `StoreImplementsLedger` | all six of `pending_store` |
| `Coordinator_proofs` | `TypesHold`, `WorkIsNotForgotten`, `SuspendedRunsNothing`, `BurnIsLimited`, `DeferredAreNotRun`, `StopIsHonoured`, `FlushesConserveEvents`, `EnvelopesMakeProgress`, `CoordinatorKeepsLedger` | all nine of `coordinator` |
| `WikiMerge_proofs` | `TypesHold`, `LockIsReleased`, `TurnsTakeEffectAtOnce`, `PagesAreKept`, `SuccessesAreMerged`, `FailuresLeaveNothing` | all of `wiki_merge` but `BatchesEnd`; the last two are of no run |
| `CompileTurn_proofs` | `TypesHold`, `NothingIsSkipped`, `LateEventsAreInvisible` | all three of `compile_turn` |
| `LlmIngest_proofs` | `TypesHold`, `RecallsSeeEvents`, `SourcesAreNeverLost`, `IndexCatchesUp` | all of `llm_ingest` but `IntegrationsEnd` |
| `Migration_proofs` | `MigrationIsIdempotent` (of the operators alone), `TypesHold`, `DraftsAreRecoverable`, `RefusalsHaveACause`, `ReportsAreTrue`, `MigratedBundlesValidate` | all five of `migration` |
| `Batching_proofs` | lemmas that `AgentBackend_proofs` cites: `FormBatchesCutsRight`, `LastVerdictCounts`, `ResultsType`, `UnknownReason` | - |
| `AgentBackend_proofs` | `BackendTypes`, `BatchesAreCutRight`, `VerdictsAreRead`, `CirclesAreStopped` | all of `agent_backend` but `TurnsEnd` |

Every safety property of a passing run is a theorem, the three refinements
among them: `PendingStore` and `Coordinator` implement `EventLedger` (`Spec =>
ImplementsLedger`, `Spec => KeepsLedger`), and `WikiMerge` implements `AtomicWiki`
(`Spec => TurnsAreAtomic`). That the two loops of `batch.go` compute what their
reference definitions say holds for every input, not only for those of the run.

**Assumptions.** Those of the modules on their constants, which TLC evaluates on
every run: events are finitely many (numbers where the code orders them), limits
are positive, names do not clash; in `Coordinator` that an envelope has time for
one more turn than the splitting depth (`EnvelopeAssumption`: 40 minutes, at most
10 a turn, two splits), without which `EnvelopeMakesProgress` is false.

**The arguments.** No property is inductive alone.

- `PendingStore`. `reconcilePending` replaces memory by what a snapshot says: that
  no event is lost across it needs that memory was a partition before, and that
  it is one afterwards needs that no verdict belongs to an event the snapshot
  lacks. `IInv` adds to the properties that only recorded events have records,
  that a listing in progress has seen every event with a verdict
  (`ListingSeesVerdicts`: an operator's request and the listing exclude each
  other until the snapshot is used), and that a process that is not up serves
  nobody. `Settled`, on top of it, is what `NoSilentReingest` and the refinement
  need: what a flush has listed or runs has no verdict, an operator's request
  finds its event as it was, a page names an event without a verdict only while
  its turn is being persisted or if a compile turn named it, and the disk has what
  memory has. The refinement
  is then shown action by action: each moves each event along an edge of
  `EventLedger` or leaves it.
- `Coordinator`. `Batched` says what the queue is: batches of pending events, apart
  from each other, which with those dealt with are what was listed
  (`Conserved`), and, until a batch is dealt with, as many turns were run as the
  first batch is deep (`Descending`); with `EnvelopeAssumption` that gives
  `EnvelopeMakesProgress`. It rests on lemmas about cutting a finite set of
  numbers into runs and splitting one. `Truthful`, beside it, is what the ledger
  needs: what is pending has no verdict, and an event that was never appended has
  neither; every step then leaves each event `Settled`, or appends, announces or
  revises it (`Recorded`), and each of these is an edge of the ledger. `Braked`
  ties the turns burnt to the streak counter. `NoForgottenWork` is inductive
  beside these.
- `WikiMerge`. `Core` has the lock: with it there is one turn at most, so the
  directories a step finds are those its own turn left. `Traces` says which
  calls a directory may hold contributions of, `Kept` that production is always
  backed by a copy that has its active pages, `Credit` that a caller's own
  writes survive its own archive moves until they are merged. `Isolated`, on top
  of them, gives the refinement: the copy a turn works on differs from the pages
  in service by that turn's work only, what the commit gate let pass is a turn's
  result (`TurnOf`), and during the renames nobody else is in a turn. Each step
  is then an abstract step or changes neither the pages in service nor what a
  caller is told.
- `CompileTurn`. `Cursors`, `Copies`, `Receipts` and `Results` follow the cursor
  through a cycle: what a read passes over was offered, counted in the sequence
  its backend reads from, and the copy, cut at the bound, is a prefix of the
  log, which only grows. `misnumbered` is needed exactly where the two sequences
  part.
- `LlmIngest`. Whoever is about to rewrite a sidecar has every event in hand that
  it must name (`HeldSources`), because of the lock (`PageLocks`) or because the
  page is forgotten (`VisitsApart`); the copy of a turn names them too
  (`CopyHasSources`), and between its renames either nothing is known or nothing is
  under way (`AsideIsQuiet`). That gives `SourcesAreKept`. For the index, whoever
  made a page that the last snapshot lacks has its rebuild still to come
  (`Listed`); for the counter, `Counted` ties it and the slots to where the
  goroutines are.
- `Migration`. Everything rests on `MigrationIsIdempotent`, which holds as long as
  the same files stand beside the page, and on `MoreFilesKeepDone`: a page created
  beside a finished one leaves it finished. `Backed` says that the backup is what was
  read, `BackupsAreOfDonePages` that a backup means a finished page unless the page is
  `upset`, `InStep` what a report says in the middle of a run.
- `Batching`. The loops are folds over sequences, and the library defines folds by
  recursion over sets with a choice of the next element: `FoldExists` shows that
  such a function exists, `FoldSteps` what it is one element further on. Then
  `CutStep`: a correct cut of the first events (`CutSoFar`) stays one when the
  loop takes the next event. `ByteSizeIsSum` and `BytesOfIsSum` tie the loop's
  running sums over a sequence to the reference's sums over a set, in whatever
  order that is added up (`SumsInAnyOrder`). `LastVerdictCounts` follows the report
  line by line.
- `AgentBackend`. `Tracked`: the runner's counter is never behind the repeats that
  were really executed. `LoopInv`: a counter passes its limit only in the step that
  fails the agent. `SessionInv`: what the session gathered is what the agent said,
  piece after piece, and the results are what the parser makes of it; with
  `BatchesInv` (the batches are those `FormBatches` makes) and the lemmas about
  `Batching` the theorems follow.

**Only model-checked.** Liveness, which the prover does not reach:
`PendingIsResolved`, `StopEndsRunLoop`, `BatchesEnd`, `IntegrationsEnd`,
`TurnsEnd`. The library's induction theorems cannot be used (they take an
operator as a parameter), so where a proof needs induction over data, as in
`Batching_proofs`, it argues from a least counterexample. The four findings are
counterexamples of TLC.

## Plan

Done: all modules above and their proofs. What could follow:

1. The composition of `Coordinator` with `PendingStore`, in place of the reduced
   store that `Coordinator` has. Both implement `EventLedger`; what is left open is
   that the reduced store is itself an abstraction of the full one.
2. `LlmIngest` with the full merge, in place of its four steps of a compile turn.
3. `AcpSession` over `WikiMerge`, in place of a commit gate that decides freely.
4. `/status`: what is derived from two locks, if a decision ever reads it.

## Not modelled

LLM wire formats, prompts and log redaction; the repository scanner, bundles and
the OpenClaw plugin (sequential text processing or clients); the JSON-RPC loop of
the MCP server and the tools that write nothing; search, access dates and listings
of the store; parsing of flags. The limits on unreadable lines in the status log need
more lines than any bound here. Another process on the same directory is outside
`WikiMerge`; in `LlmIngest` it reads pages, which rewrites their sidecars, and does
no more. When auto-compile fires is left
open (it compares the cursor with the length of the cache, so it can overlook
events of another process). `/status` and progress events change nothing that a
decision reads. Requests of the ACP agent to the server, and report pieces that
end inside a line, are outside what the code expects and outside `AcpSession`.
