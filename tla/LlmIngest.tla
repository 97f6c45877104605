------------------------------ MODULE LlmIngest ------------------------------
(***************************************************************************)
(* /remember with WIKI_BACKEND=llm (internal/api/handler.go): the event is *)
(* answered at once and integrated by a goroutine of its own, whose agent  *)
(* reads and writes pages of the server's own store (internal/agent/       *)
(* tools.go, internal/storage/fs.go) and which rebuilds the index at the   *)
(* end.  Beside it run other such goroutines, recalls, and a compile cycle *)
(* with either backend: the LLM's works on the same store with the same    *)
(* tools, the ACP's on a copy of it that replaces wiki/ at the end.  None  *)
(* of the goroutines holds wikiMu.  A read of a page is no pure read: it   *)
(* writes the page's sidecar back, with a new access date, and so do those *)
(* of a recall and of another process (engram9-mcp); the latter knows      *)
(* nothing of the locks.                                                   *)
(*                                                                         *)
(* Data abstraction.  A page is there or not; its sidecar is its           *)
(* source_events, the index the set of pages it lists (with the            *)
(* sub-indexes, written from the same snapshot).  A copy of the data   *)
(* directory is one step.  The disk may refuse any write of the store; a   *)
(* file whose writing was refused is as it was, or empty.                  *)
(***************************************************************************)
EXTENDS Naturals, FiniteSets

CONSTANTS
    MaxEvents,      \* bound: events that /remember is called with
    Pages,          \* paths of wiki pages
    NoPage,         \* the path of a call that there is not
    Free,           \* the owner of a lock nobody holds
    Backends,       \* compile backends that the server may be started with
    SlotLimits,     \* numbers of integration slots that it may be started with
    DiskErrs,       \* may the disk refuse a write?
    MaxWrites       \* bound: pages that one agent writes

\* events by their position in the raw log, and the agent of the compile cycle
Events == 1..MaxEvents
Compiler == 0
Agents == Events \union {Compiler}

\* who reads pages without writing any: the recall under way, and another process
Recaller == MaxEvents + 1
Stranger == MaxEvents + 2

ASSUME PagesAssumption ==
    /\ IsFiniteSet(Pages)
    /\ Free \notin Agents \union {Recaller}

ASSUME SettingsAssumption ==
    /\ Backends \subseteq {"llm", "acp"}
    /\ SlotLimits \subseteq Nat \ {0}
    /\ MaxEvents \in Nat \ {0}
    /\ DiskErrs \in BOOLEAN
    /\ MaxWrites \in Nat

VARIABLES
    compileBackend, \* chosen when the server starts
    maxConcurrentIntegrations,  \* the same
    logged,         \* length of the raw log
    counter,        \* pendingIntegrations
    slots,          \* events that hold an integration slot
    errors,         \* ingestErrors, as the set of events it counts
    at,             \* where each agent is
    work,           \* the call it is making, path and sidecar as read, and how
                    \* many pages it has written
    pages,          \* paths at which wiki/ has a page
    sidecar,        \* source_events of each page
    present,        \* is there a directory wiki/?
    pageLock,       \* lockPage
    indexLock,      \* indexMu
    snapshot,       \* pages found by the rebuild under way
    index,          \* pages listed by wiki/index.md
    staged,         \* the staging copy of wiki/: pages, sidecar
    recall,         \* the recall under way: where it is, which events that were being
                    \* integrated when it began it has not read of the log
    visit,          \* the read under way by a recall or another process: where it is,
                    \* whose it is, path, sidecar as read
    wrote,          \* history: pages that each event's agent wrote, since when nobody
                    \* archived the page and nothing disturbed its sources
    stale           \* history: pages that came or went without a rebuild after it (of
                    \* a failed agent, of the compile agent), or were disturbed

settings == <<compileBackend, maxConcurrentIntegrations>>
wiki == <<pages, sidecar, present>>
indexing == <<indexLock, snapshot, index>>
requests == <<logged, counter, slots, errors>>
history == <<wrote, stale>>
vars == <<compileBackend, maxConcurrentIntegrations, logged, counter, slots, errors, at, work,
          pages, sidecar, present, pageLock, indexLock, snapshot, index, staged, recall, visit,
          wrote, stale>>

\* events whose goroutine was started and has not ended; /remember is answered as
\* soon as it was started
Integrating == {e \in Events : at[e] \notin {"none", "logged", "done"}}

NoCopy == <<>>

NoRecall == [pc |-> "none", lacks |-> {}]

NoWork == [path |-> NoPage, meta |-> {}, writes |-> 0]

NoVisit == [pc |-> "none", by |-> Free, path |-> NoPage, meta |-> {}]

TypeOK ==
    /\ compileBackend \in Backends /\ maxConcurrentIntegrations \in SlotLimits
    /\ logged \in 0..MaxEvents
    /\ errors \subseteq Events
    /\ counter = Cardinality(Integrating)
    /\ slots = {e \in Integrating : at[e] # "queued"}
    /\ Cardinality(slots) <= maxConcurrentIntegrations
    /\ at \in [Agents -> {"none", "logged", "queued", "agent", "reading", "writing",
                          "scan", "index", "copied", "aside", "done"}]
    /\ \A a \in Agents :
        /\ work[a].path \in Pages \union {NoPage}
        /\ work[a].meta \subseteq Events
        /\ work[a].writes \in 0..MaxWrites
    /\ sidecar \in [Pages -> SUBSET Events]
    /\ pageLock \in [Pages -> Agents \union {Recaller, Free}]
    /\ indexLock \in Agents \union {Free}
    /\ {pages, snapshot, index, stale} \subseteq SUBSET Pages
    /\ wrote \in [Events -> SUBSET Pages]
    /\ visit # NoVisit => visit.path \in Pages /\ visit.meta \subseteq Events
    /\ present \in BOOLEAN
    /\ ~present => at[Compiler] = "aside" /\ pages = {}

Init ==
    /\ compileBackend \in Backends /\ maxConcurrentIntegrations \in SlotLimits
    /\ logged = 0 /\ counter = 0 /\ slots = {} /\ errors = {}
    /\ at = [a \in Agents |-> "none"]
    /\ work = [a \in Agents |-> NoWork]
    /\ pages \in SUBSET Pages
    /\ sidecar = [p \in Pages |-> {}] /\ present = TRUE
    /\ pageLock = [p \in Pages |-> Free]
    /\ indexLock = Free /\ snapshot = {} /\ index = pages
    /\ staged = NoCopy
    /\ recall = NoRecall
    /\ visit = NoVisit
    /\ wrote = [e \in Events |-> {}] /\ stale = {}

-----------------------------------------------------------------------------
(* /remember and the goroutine of an event *)

AppendEvent(e) ==
    /\ e = logged + 1
    /\ at' = [at EXCEPT ![e] = "logged"]
    /\ logged' = e
    /\ UNCHANGED <<settings, counter, slots, errors, work, wiki, pageLock, indexing,
                   staged, recall, visit, history>>

\* (mutant: the goroutine counts itself once it has its slot)
CountsLater(e) ==
    /\ at[e] = "logged"
    /\ at' = [at EXCEPT ![e] = "queued"]
    /\ UNCHANGED <<settings, logged, counter, slots, errors, work, wiki, pageLock,
                   indexing, staged, recall, visit, history>>

Announce(e) ==
    /\ at[e] = "logged"
    /\ at' = [at EXCEPT ![e] = "queued"]
    /\ counter' = counter + 1
    /\ UNCHANGED <<settings, logged, slots, errors, work, wiki, pageLock, indexing,
                   staged, recall, visit, history>>

\* the wait for a slot has no deadline: the timeout begins after it
AcquireSlot(e) ==
    /\ at[e] = "queued" /\ Cardinality(slots) < maxConcurrentIntegrations
    /\ at' = [at EXCEPT ![e] = "agent"]
    /\ slots' = slots \union {e}
    /\ UNCHANGED <<settings, logged, counter, errors, work, wiki, pageLock, indexing,
                   staged, recall, visit, history>>

\* the deferred calls of the goroutine
Return(e) ==
    /\ at' = [at EXCEPT ![e] = "done"]
    /\ slots' = slots \ {e}
    /\ counter' = counter - 1

\* RunIngest returns nil
AgentEnds(e) ==
    /\ at[e] = "agent"
    /\ at' = [at EXCEPT ![e] = "scan"]
    /\ UNCHANGED <<settings, requests, work, wiki, pageLock, indexing, staged, recall,
                   visit, history>>

\* (mutant: the slot is given back only after success)
KeepsSlot(e) ==
    /\ at[e] = "agent"
    /\ at' = [at EXCEPT ![e] = "done"]
    /\ counter' = counter - 1
    /\ errors' = errors \union {e}
    /\ stale' = stale \union wrote[e]
    /\ UNCHANGED <<settings, logged, slots, work, wiki, pageLock, indexing, staged, recall,
                   visit, wrote>>

\* an error of the agent, or its timeout: the pages it has written stay, and the
\* index is not rebuilt
AgentFails(e) ==
    /\ at[e] = "agent"
    /\ Return(e)
    /\ errors' = errors \union {e}
    /\ stale' = stale \union wrote[e]
    /\ UNCHANGED <<settings, logged, work, wiki, pageLock, indexing, staged, recall,
                   visit, wrote>>

-----------------------------------------------------------------------------
(* The tools of an agent on the server's store *)

\* an ACP compile turn has its copy and has not merged it
TurnUnderWay == at[Compiler] \in {"copied", "aside"}

\* somebody is in the middle of a call on a page
StoreBusy ==
    visit # NoVisit \/ \E a \in Agents : at[a] \in {"reading", "writing"}

\* (mutant: there is no lock per page)
NoPageLock(p) == TRUE

MayLock(p) == pageLock[p] = Free

\* what a write of p disturbs: the ACP compile turn under way, or the read of p by
\* another process
Disturbed(p) ==
    IF TurnUnderWay THEN Pages
    ELSE {q \in {p} : visit.by = Stranger /\ visit.path = p}

Forget(ps) ==
    /\ wrote' = [e \in Events |-> wrote[e] \ ps]
    /\ stale' = stale \union ps

\* the directory and the file are made where they are missing; an error is ignored
SaveSidecar(p, sources) ==
    \/ /\ sidecar' = [sidecar EXCEPT ![p] = sources]
       /\ present' = TRUE
       /\ UNCHANGED history
    \/ /\ DiskErrs
       /\ \E left \in {sidecar[p], {}} : sidecar' = [sidecar EXCEPT ![p] = left]
       /\ present' \in {present, TRUE}
       /\ Forget({p})

\* FS.ReadWikiPage: the page, then its sidecar, which is written back, under the
\* page's lock; for a page that is missing there is nothing to do but say so.  The
\* two reads are one step here: VisitPage, of the same function, takes them apart
ReadWikiPage(a, p) ==
    /\ at[a] = "agent"
    /\ MayLock(p)
    /\ p \in pages
    /\ at' = [at EXCEPT ![a] = "reading"]
    /\ work' = [work EXCEPT ![a].path = p, ![a].meta = sidecar[p]]
    /\ pageLock' = [pageLock EXCEPT ![p] = a]
    /\ UNCHANGED <<settings, requests, wiki, indexing, staged, recall, visit, history>>

\* the call is over
Unlock(a) ==
    /\ at' = [at EXCEPT ![a] = "agent"]
    /\ work' = [work EXCEPT ![a].path = NoPage, ![a].meta = {}]
    /\ pageLock' = [pageLock EXCEPT ![work[a].path] = Free]

TouchSidecar(a) ==
    /\ at[a] = "reading"
    /\ SaveSidecar(work[a].path, work[a].meta)
    /\ Unlock(a)
    /\ UNCHANGED <<settings, requests, pages, indexing, staged, recall, visit>>

\* the compile agent rewrites what there is
Brings(a) == {a} \ {Compiler}

\* WriteWikiPageWithMeta: the file, then the sidecar, under the page's lock; a
\* page may be written unread
WriteWikiPage(a, p) ==
    /\ at[a] = "agent" /\ work[a].writes < MaxWrites
    /\ MayLock(p)
    /\ pageLock' = [pageLock EXCEPT ![p] = a]
    /\ pages' = pages \union {p} /\ present' = TRUE
    /\ at' = [at EXCEPT ![a] = "writing"]
    /\ work' = [work EXCEPT ![a].path = p, ![a].meta = sidecar[p], ![a].writes = @ + 1]
    /\ wrote' = [e \in Events |-> (wrote[e] \union {q \in {p} : e = a}) \ Disturbed(p)]
    /\ stale' = stale \union Disturbed(p) \union {q \in {p} : a = Compiler}
    /\ UNCHANGED <<settings, requests, sidecar, indexing, staged, recall, visit>>

\* the disk refuses the page, and the agent is told so
WritePageFails(a, p) ==
    /\ at[a] = "agent" /\ work[a].writes < MaxWrites
    /\ MayLock(p)
    /\ DiskErrs
    /\ \/ pages' = pages \union {p} /\ present' = TRUE
       \/ UNCHANGED pages /\ present' \in {present, TRUE}
    /\ work' = [work EXCEPT ![a].writes = @ + 1]
    /\ Forget({p} \union Disturbed(p))
    /\ UNCHANGED <<settings, requests, at, sidecar, pageLock, indexing, staged, recall, visit>>

\* the agent is told that the page was written, whatever became of its sidecar
WriteSidecar(a) ==
    /\ at[a] = "writing"
    /\ SaveSidecar(work[a].path, work[a].meta \union Brings(a))
    /\ Unlock(a)
    /\ UNCHANGED <<settings, requests, pages, indexing, staged, recall, visit>>

\* write_wiki_page on an index.md, whatever the agent puts there; a rebuild takes
\* no notice of the lock of that path
WriteIndexPage(a) ==
    /\ at[a] = "agent"
    /\ index' \in SUBSET Pages
    /\ present' = TRUE
    /\ stale' = Pages
    /\ wrote' = IF TurnUnderWay THEN [e \in Events |-> {}] ELSE wrote
    /\ UNCHANGED <<settings, requests, at, work, pages, sidecar, pageLock, indexLock, snapshot,
                   staged, recall, visit>>

\* the page and its sidecar move to wiki/archive/, though the sidecar may stay as
\* well; only the compile agent has the tool
ArchiveWikiPage(p) ==
    /\ at[Compiler] = "agent"
    /\ p \in pages /\ pageLock[p] = Free
    /\ pages' = pages \ {p}
    /\ \/ sidecar' = [sidecar EXCEPT ![p] = {}]
       \/ DiskErrs /\ sidecar' = sidecar
    /\ Forget({p})
    /\ UNCHANGED <<settings, requests, at, work, present, pageLock, indexing, staged, recall,
                   visit>>

\* (mutant: rebuilds do not exclude each other)
NoIndexLock == TRUE

MayIndex == indexLock = Free

\* RebuildIndex reads the directories, then writes the files, without any page's
\* lock
CollectPages(a) ==
    /\ at[a] = "scan" /\ MayIndex
    /\ at' = [at EXCEPT ![a] = "index"]
    /\ indexLock' = a
    /\ snapshot' = pages
    /\ stale' = {}
    /\ UNCHANGED <<settings, requests, work, wiki, pageLock, index, staged, recall,
                   visit, wrote>>

\* (mutant: a rebuild that fails keeps indexMu)
KeepsIndexLock(a) ==
    /\ at[a] = "index"
    /\ snapshot' = {}
    /\ \/ /\ present
          /\ indexLock' = Free /\ index' = snapshot
          /\ UNCHANGED <<errors, stale>>
       \/ /\ DiskErrs \/ ~present
          /\ UNCHANGED indexLock
          /\ index' \in {index, {}}
          /\ stale' = Pages
          /\ errors' = errors \union Brings(a)
    /\ IF a = Compiler
       THEN at' = [at EXCEPT ![a] = "agent"] /\ UNCHANGED <<slots, counter>>
       ELSE Return(a)
    /\ UNCHANGED <<settings, logged, work, wiki, pageLock, staged, recall, visit, wrote>>

WriteIndex(a) ==
    /\ at[a] = "index"
    /\ indexLock' = Free /\ snapshot' = {}
    /\ \/ /\ present
          /\ index' = snapshot
          /\ UNCHANGED <<errors, stale>>
       \/ /\ DiskErrs \/ ~present
          /\ index' \in {index, {}}
          /\ stale' = Pages
          /\ errors' = errors \union Brings(a)
    /\ IF a = Compiler
       THEN at' = [at EXCEPT ![a] = "agent"] /\ UNCHANGED <<slots, counter>>
       ELSE Return(a)
    /\ UNCHANGED <<settings, logged, work, wiki, pageLock, staged, recall, visit, wrote>>

-----------------------------------------------------------------------------
(* A compile cycle *)

StartLlmCompile ==
    /\ compileBackend = "llm" /\ at[Compiler] = "none"
    /\ at' = [at EXCEPT ![Compiler] = "agent"]
    /\ UNCHANGED <<settings, requests, work, wiki, pageLock, indexing, staged, recall,
                   visit, history>>

CompilerRebuilds ==
    /\ at[Compiler] = "agent"
    /\ at' = [at EXCEPT ![Compiler] = "scan"]
    /\ UNCHANGED <<settings, requests, work, wiki, pageLock, indexing, staged, recall,
                   visit, history>>

CompilerEnds ==
    /\ at[Compiler] = "agent"
    /\ at' = [at EXCEPT ![Compiler] = "done"]
    /\ UNCHANGED <<settings, requests, work, wiki, pageLock, indexing, staged, recall,
                   visit, history>>

\* a copy may meet a call half-way
StartAcpCompile ==
    /\ compileBackend = "acp" /\ at[Compiler] = "none"
    /\ at' = [at EXCEPT ![Compiler] = "copied"]
    /\ staged' = <<pages, sidecar>>
    /\ Forget(IF StoreBusy THEN Pages ELSE {})
    /\ UNCHANGED <<settings, requests, work, wiki, pageLock, indexing, recall, visit>>

\* the agent reads or writes a page of the copy, the latter having read it; no event
\* of the model is new to the copy, so what makes a difference is a page that was
\* missing and a sidecar that the disk refuses
EditStaging(p) ==
    /\ at[Compiler] = "copied"
    /\ \/ /\ staged' = [staged EXCEPT ![1] = @ \union {p}]
          /\ UNCHANGED history
       \/ /\ DiskErrs
          /\ staged' = [staged EXCEPT ![1] = @ \union {p}, ![2][p] = {}]
          /\ Forget({p})
    /\ UNCHANGED <<settings, requests, at, work, wiki, pageLock, indexing, recall, visit>>

\* the gate refuses a copy in which a page of the wiki is missing; the turn may
\* fail for any other reason as well
TurnFails ==
    /\ at[Compiler] = "copied"
    /\ at' = [at EXCEPT ![Compiler] = "done"]
    /\ staged' = NoCopy
    /\ UNCHANGED <<settings, requests, work, wiki, pageLock, indexing, recall,
                   visit, history>>

\* mergeWiki: wiki/ is renamed to wiki.backup/, under a call perhaps
SetAside ==
    /\ at[Compiler] = "copied"
    /\ pages \subseteq staged[1]
    /\ at' = [at EXCEPT ![Compiler] = "aside"]
    /\ pages' = {} /\ sidecar' = [p \in Pages |-> {}]
    /\ index' = {} /\ present' = FALSE
    /\ Forget(IF StoreBusy THEN Pages ELSE {})
    /\ UNCHANGED <<settings, requests, work, pageLock, indexLock, snapshot, staged, recall,
                   visit>>

\* the copy takes its place, with an index as its agent has left it, if nobody has
\* made a new wiki/ meanwhile; if somebody has, be it for a sidecar, neither the
\* copy nor the backup can be renamed to it
SwapIn ==
    /\ at[Compiler] = "aside"
    /\ at' = [at EXCEPT ![Compiler] = "done"]
    /\ present' = TRUE
    /\ IF ~present
       THEN pages' = staged[1] /\ sidecar' = staged[2] /\ index' \in SUBSET Pages
       ELSE UNCHANGED <<pages, sidecar, index>>
    /\ stale' = Pages
    /\ staged' = NoCopy
    /\ UNCHANGED <<settings, requests, work, pageLock, indexLock, snapshot, recall,
                   visit, wrote>>

-----------------------------------------------------------------------------
(* /recall: is anything pending, which are the recent events, then the query *)

\* the log is read after the counter, and only grows
StartRecall ==
    /\ recall = NoRecall
    /\ recall' = [pc |-> "query",
                  lacks |-> {e \in Integrating : counter > 0 => e > logged}]
    /\ UNCHANGED <<settings, requests, at, work, wiki, pageLock, indexing, staged, visit, history>>

EndRecall ==
    /\ recall.pc = "query" /\ visit.by # Recaller
    /\ recall' = NoRecall
    /\ UNCHANGED <<settings, requests, at, work, wiki, pageLock, indexing, staged, visit,
                   history>>

-----------------------------------------------------------------------------
(* The same read by those who write no page: the agent of a recall, which is bound  *)
(* to the same locks, and read_concept of another process, which has its own        *)

\* p, if somebody is writing it
HalfWritten(p) == {q \in {p} : \E a \in Agents : at[a] = "writing" /\ work[a].path = p}

VisitPage(by, p) ==
    /\ visit = NoVisit
    /\ p \in pages
    /\ visit' = [pc |-> "reading", by |-> by, path |-> p, meta |-> {}]
    /\ \/ /\ by = Recaller /\ recall.pc = "query" /\ MayLock(p)
          /\ pageLock' = [pageLock EXCEPT ![p] = by]
          /\ UNCHANGED history
       \/ /\ by = Stranger
          /\ Forget(HalfWritten(p))
          /\ UNCHANGED pageLock
    /\ UNCHANGED <<settings, requests, at, work, wiki, indexing, staged, recall>>

VisitSidecar ==
    /\ visit.pc = "reading"
    /\ visit' = [visit EXCEPT !.pc = "touching", !.meta = sidecar[visit.path]]
    /\ UNCHANGED <<settings, requests, at, work, wiki, pageLock, indexing, staged, recall,
                   history>>

EndVisit ==
    /\ visit.pc = "touching"
    /\ SaveSidecar(visit.path, visit.meta)
    /\ visit' = NoVisit
    /\ pageLock' = IF visit.by = Recaller THEN [pageLock EXCEPT ![visit.path] = Free] ELSE pageLock
    /\ UNCHANGED <<settings, requests, at, work, pages, indexing, staged, recall>>

Goroutine(e) ==
    \/ AcquireSlot(e)
    \/ AgentFails(e)
    \/ TouchSidecar(e)
    \/ WriteSidecar(e)
    \/ CollectPages(e)
    \/ WriteIndex(e)

ReadTools(a) ==
    \/ \E p \in Pages : ReadWikiPage(a, p)
    \/ TouchSidecar(a)

WriteTools(a) ==
    \/ \E p \in Pages : WriteWikiPage(a, p) \/ WritePageFails(a, p)
    \/ WriteSidecar(a)
    \/ WriteIndexPage(a)

CompileSteps ==
    \/ StartLlmCompile
    \/ ReadTools(Compiler)
    \/ WriteTools(Compiler)
    \/ CompilerRebuilds
    \/ CollectPages(Compiler)
    \/ WriteIndex(Compiler)
    \/ \E p \in Pages : ArchiveWikiPage(p)
    \/ CompilerEnds
    \/ StartAcpCompile
    \/ \E p \in Pages : EditStaging(p)
    \/ TurnFails
    \/ SetAside
    \/ SwapIn

RecallSteps ==
    \/ StartRecall
    \/ EndRecall

Visits ==
    \/ \E by \in {Recaller, Stranger}, p \in Pages : VisitPage(by, p)
    \/ VisitSidecar
    \/ EndVisit

Next ==
    \/ \E e \in Events :
        \/ AppendEvent(e) \/ Announce(e) \/ AgentEnds(e)
        \/ ReadTools(e) \/ WriteTools(e)
        \/ Goroutine(e)
    \/ CompileSteps
    \/ RecallSteps
    \/ Visits

Spec == Init /\ [][Next]_vars

\* A goroutine goes on, and the timeout of an agent comes however many pages it
\* reads.  The channel of slots is first in, first out, and a mutex hands itself to a
\* waiter that starves.  A compile agent that holds the lock of the index lets go of
\* it.
Fairness ==
    /\ \A e \in Events :
        /\ WF_vars(Goroutine(e))
        /\ SF_vars(AcquireSlot(e) \/ AgentFails(e) \/ CollectPages(e))
    /\ WF_vars(WriteIndex(Compiler))

FairSpec == Spec /\ Fairness

-----------------------------------------------------------------------------
(* Properties *)

\* A recall that begins after an event was acknowledged has that event in what it
\* reads of the log, of which it is given the last ten, or the integration of the
\* event has ended.
RecallSeesEvent ==
    recall.pc = "query" =>
        \A e \in recall.lacks : at[e] = "done"

\* The index lists a page iff it exists, unless a rebuild is under way or to come, or
\* none was begun since an agent wrote an index of its own, since the page came or
\* went by an agent that failed or by the compile agent, or since the page was
\* disturbed: the disk refused a write, another process read it as it was written,
\* or an ACP compile turn met a call.
IndexIsCurrent ==
    at[Compiler] # "aside" =>
        \A p \in Pages \ stale :
            \/ (p \in index <=> p \in pages)
            \/ \E e \in Events :
                  at[e] \in {"agent", "reading", "writing", "scan", "index"}
            \/ at[Compiler] = "index"

\* The sidecar of a page names every event whose agent wrote the page, however the
\* reads and writes of integrations, recalls, compile agents and other processes
\* interleave, each of which rewrites it, and through the merge of an ACP compile
\* turn; unless the page was archived since, or disturbed.
SourcesAreKept ==
    at[Compiler] # "aside" =>
        \A e \in Events : \A p \in wrote[e] :
            \/ e \in sidecar[p]
            \/ at[e] = "writing" /\ work[e].path = p

\* Every integration that was begun ends, and with it its slot and its count: as the
\* log has an end here, a time comes when none is left.
IntegrationsEnd == <>[](Integrating = {})

\* The comment on wikiMu says that LLM ingest uses per-file writes and does not
\* need the lock that keeps writes from being lost when an ACP turn replaces wiki/
\* as a whole: what was integrated is then in the wiki.
IntegratedIsKept ==
    \A e \in Events \ errors :
        at[e] = "done" /\ work[e].writes > 0 /\ at[Compiler] = "done" =>
            \E p \in pages : e \in sidecar[p]
=============================================================================
