------------------------------ MODULE WikiMerge ------------------------------
(***************************************************************************)
(* The turns that agents run on a copy of the wiki (internal/agent/        *)
(* backend_acp.go): take wikiMu, copy the data directory to staging, let   *)
(* the agent edit it, validate the result (validator.go), swap it in for   *)
(* wiki/ with two renames, and release wikiMu.  Batch ingest, compile and  *)
(* recall compete for wikiMu; a turn may be given up while it waits, may   *)
(* fail at any step, and the process may die at any step.                  *)
(*                                                                         *)
(* Data abstraction.  A page is the set of contributions it holds: what it *)
(* held at first, and the calls whose agent wrote to it.  An agent keeps   *)
(* what it read on the page it rewrites.  Indexes and sidecars are left    *)
(* out: no property here tells them apart.                                 *)
(***************************************************************************)
EXTENDS Naturals, FiniteSets

CONSTANTS
    Pages,          \* wiki paths
    Ingests,        \* RunBatchIngest calls of the coordinator
    Compiles,       \* handleCompile and runCompile calls
    Recalls,        \* handleRecall calls
    RenameErrs,     \* may a rename fail?
    MaxCrashes      \* bound: process deaths

ASSUME CallsAssumption ==
    /\ Ingests \cap Compiles = {}
    /\ Recalls \cap (Ingests \cup Compiles) = {}

ASSUME BoundsAssumption == RenameErrs \in BOOLEAN /\ MaxCrashes \in Nat

Calls == Ingests \cup Compiles \cup Recalls

CONSTANTS
    Origin,         \* the contribution of whoever wrote a page before
    NoDir,          \* no such directory
    Free            \* wikiMu is not held

ASSUME NamesAssumption == Origin \notin Calls /\ Free \notin Calls

VARIABLES
    step,           \* how far each call has come
    mutex,          \* the call that holds wikiMu
    prod,           \* the directory wiki/
    merging,        \* the directory wiki.merging/
    backup,         \* the directory wiki.backup/
    staging,        \* the staging copy of the turn under way
    up,             \* does the process run?
    crashes,        \* process deaths so far (bound only)
    wrote,          \* history: calls whose agent wrote a page
    torn            \* history: a merge was left with wiki/ moved away

dirs == <<prod, merging, backup, staging>>
process == <<up, crashes, torn>>
vars == <<step, mutex, dirs, process, wrote>>

-----------------------------------------------------------------------------
(* A wiki.                                                                 *)

Content == SUBSET (Calls \cup {Origin})

Absent == {}

Wikis == [active : [Pages -> Content], archive : [Pages -> Content]]

ASSUME NoDirAssumption == NoDir \notin Wikis

Nothing == [p \in Pages |-> Absent]

EmptyWiki == [active |-> Nothing, archive |-> Nothing]

\* What a page holds, in the active tree and in the archive.
Knowledge(w, p) == IF w = NoDir THEN {} ELSE w.active[p] \cup w.archive[p]

KnowledgeOf(w) == UNION {Knowledge(w, p) : p \in Pages}

\* write_wiki_page by an agent that read the page first.
Written(w, p, c) == [w EXCEPT !.active[p] = @ \cup {c}]

\* ArchiveWikiPage: a rename, over whatever the archive holds at that path.
Archived(w, p) ==
    [w EXCEPT !.archive[p] = w.active[p], !.active[p] = Absent]

-----------------------------------------------------------------------------
(* The validator.                                                          *)

\* An archived page passes only in a compile turn, and only if it is what the
\* active page of production holds; any other path under archive/ is rejected.
FaithfulMove(old, new, p, compile) ==
    compile /\ old # NoDir /\ new.archive[p] # Absent /\ new.archive[p] = old.active[p]

\* (mutant: archive/ is not looked at)
ViolationsOfActive(old, new, compile) ==
    {p \in Pages :
        old # NoDir /\ old.active[p] # Absent /\ new.active[p] = Absent
            /\ ~(compile /\ new.archive[p] # Absent)}

\* Pages that Validate(old, new) complains about.
Violations(old, new, compile) ==
    {p \in Pages :
        \/ new.archive[p] # Absent /\ ~FaithfulMove(old, new, p, compile)
        \/ old # NoDir /\ old.archive[p] # Absent /\ new.archive[p] = Absent
        \/ /\ old # NoDir /\ old.active[p] # Absent /\ new.active[p] = Absent
           /\ ~FaithfulMove(old, new, p, compile)}

-----------------------------------------------------------------------------
(* Waiting for wikiMu.                                                     *)

Ended == {"done", "failed", "dead"}

\* Steps of a call, or of the goroutine it left behind, that hold wikiMu.
Holding == {"granted", "returning", "editing", "merging", "aside", "swapped", "indexing"}

\* The coordinator runs one batch at a time; a call it has given up may linger.
Call(c) ==
    /\ up
    /\ step[c] = "idle"
    /\ c \in Ingests => \A d \in Ingests : step[d] \in Ended \cup {"idle", "abandoned", "returning"}
    /\ step' = [step EXCEPT ![c] = "waiting"]
    /\ UNCHANGED <<mutex, dirs, process, wrote>>

\* The goroutine that waits for wikiMu, of the call or left behind by it.
Lock(c) ==
    /\ mutex = Free
    /\ step[c] \in {"waiting", "abandoned"}
    /\ mutex' = c
    /\ step' = [step EXCEPT ![c] = IF @ = "waiting" THEN "granted" ELSE "returning"]
    /\ UNCHANGED <<dirs, process, wrote>>

\* (mutant: the wait for wikiMu is not interrupted)
GiveUpLate(c) ==
    /\ c \in Ingests
    /\ step[c] = "granted"
    /\ step' = [step EXCEPT ![c] = "returning"]
    /\ UNCHANGED <<mutex, dirs, process, wrote>>

\* RunBatchIngest: the context ends before the lock comes, or select prefers
\* it; the batch fails and whoever gets the lock gives it back.
GiveUp(c) ==
    /\ c \in Ingests
    /\ step[c] \in {"waiting", "granted"}
    /\ step' = [step EXCEPT ![c] = IF @ = "waiting" THEN "abandoned" ELSE "returning"]
    /\ UNCHANGED <<mutex, dirs, process, wrote>>

\* (mutant: the goroutine forgets that it has the lock)
HandBackNothing(c) ==
    /\ step[c] = "returning"
    /\ step' = [step EXCEPT ![c] = "failed"]
    /\ UNCHANGED <<mutex, dirs, process, wrote>>

HandBack(c) ==
    /\ step[c] = "returning"
    /\ mutex' = Free
    /\ step' = [step EXCEPT ![c] = "failed"]
    /\ UNCHANGED <<dirs, process, wrote>>

-----------------------------------------------------------------------------
(* A turn.                                                                 *)

\* runACPTurnFullOpts: the data directory is copied; the agent's tool server
\* creates the wiki directories that are missing from the copy.  A compile
\* opens the live store first, which creates them there.
CopyToStaging(c) ==
    /\ step[c] = "granted"
    /\ staging' = IF prod = NoDir THEN EmptyWiki ELSE prod
    /\ prod' = IF c \in Compiles /\ prod = NoDir THEN EmptyWiki ELSE prod
    /\ step' = [step EXCEPT ![c] = "editing"]
    /\ UNCHANGED <<mutex, merging, backup, process, wrote>>

\* The agent calls write_wiki_page, which only recall does not offer.
WritePage(c, p) ==
    /\ step[c] = "editing"
    /\ c \notin Recalls
    /\ staging' = Written(staging, p, c)
    /\ wrote' = wrote \cup {c}
    /\ UNCHANGED <<step, mutex, prod, merging, backup, process>>

\* The agent of a compile turn calls archive_wiki_page.
ArchivePage(c, p) ==
    /\ step[c] = "editing"
    /\ c \in Compiles
    /\ staging.active[p] # Absent
    /\ staging' = Archived(staging, p)
    /\ UNCHANGED <<step, mutex, prod, merging, backup, process, wrote>>

\* The call returns, its staging directory removed and wikiMu released.
Leave(c, how) ==
    /\ step' = [step EXCEPT ![c] = how]
    /\ mutex' = Free
    /\ staging' = NoDir

\* (mutant: the error path forgets the staging copy)
TurnFailsUncleanly(c) ==
    /\ step[c] \in {"granted", "editing"}
    /\ step' = [step EXCEPT ![c] = "failed"]
    /\ mutex' = Free
    /\ UNCHANGED <<dirs, process, wrote>>

\* The copy or the agent fails, or the deadline passes, or the result breaks a
\* rule: a violation, the diff budget, a missing compile receipt.
TurnFails(c) ==
    /\ step[c] \in {"granted", "editing"}
    /\ Leave(c, "failed")
    /\ UNCHANGED <<prod, merging, backup, process, wrote>>

\* A recall turn never merges.
Answer(c) ==
    /\ step[c] = "editing"
    /\ c \in Recalls
    /\ Leave(c, "done")
    /\ UNCHANGED <<prod, merging, backup, process, wrote>>

-----------------------------------------------------------------------------
(* mergeWiki, step by step.                                                *)

\* commitStagingTurn lets the turn pass: staging is copied next to wiki/.
BeginMerge(c) ==
    /\ step[c] = "editing"
    /\ c \notin Recalls
    /\ Violations(prod, staging, c \in Compiles) = {}
    /\ merging' = staging
    /\ step' = [step EXCEPT ![c] = "merging"]
    /\ UNCHANGED <<mutex, prod, backup, staging, process, wrote>>

\* An older backup is removed, then wiki/ becomes the backup.
SetAside(c) ==
    /\ step[c] = "merging"
    /\ backup' = prod
    /\ prod' = NoDir
    /\ step' = [step EXCEPT ![c] = "aside"]
    /\ UNCHANGED <<mutex, merging, staging, process, wrote>>

SetAsideFails(c) ==
    /\ step[c] = "merging"
    /\ RenameErrs
    /\ prod # NoDir
    /\ backup' = NoDir
    /\ merging' = NoDir
    /\ Leave(c, "failed")
    /\ UNCHANGED <<prod, process, wrote>>

SwapIn(c) ==
    /\ step[c] = "aside"
    /\ prod' = merging
    /\ merging' = NoDir
    /\ step' = [step EXCEPT ![c] = "swapped"]
    /\ UNCHANGED <<mutex, backup, staging, process, wrote>>

\* (mutant: the error of the second rename is not returned)
SwapFailsSilently(c) ==
    /\ step[c] = "aside"
    /\ RenameErrs
    /\ prod' = backup /\ backup' = NoDir
    /\ step' = [step EXCEPT ![c] = "swapped"]
    /\ UNCHANGED <<mutex, merging, staging, process, wrote>>

\* The backup is restored; should that fail too, nobody is told.
SwapFails(c) ==
    /\ step[c] = "aside"
    /\ RenameErrs
    /\ \/ prod' = backup /\ backup' = NoDir /\ torn' = torn
       \/ UNCHANGED <<prod, backup>> /\ torn' = TRUE
    /\ Leave(c, "failed")
    /\ UNCHANGED <<merging, up, crashes, wrote>>

CleanUp(c) ==
    /\ step[c] = "swapped"
    /\ backup' = NoDir
    /\ IF c \in Ingests
       THEN /\ step' = [step EXCEPT ![c] = "indexing"]
            /\ UNCHANGED <<mutex, staging>>
       ELSE Leave(c, "done")
    /\ UNCHANGED <<prod, merging, process, wrote>>

\* (mutant: a stale index makes the batch a failure)
RebuildIndexStrictly(c) ==
    /\ step[c] = "indexing"
    /\ \E how \in {"done", "failed"} : Leave(c, how)
    /\ UNCHANGED <<prod, merging, backup, process, wrote>>

\* RebuildIndex, still under wikiMu; the batch succeeds even when it fails.
RebuildIndex(c) ==
    /\ step[c] = "indexing"
    /\ Leave(c, "done")
    /\ UNCHANGED <<prod, merging, backup, process, wrote>>

-----------------------------------------------------------------------------
(* The process.                                                            *)

Crash ==
    /\ up
    /\ crashes < MaxCrashes
    /\ crashes' = crashes + 1
    /\ up' = FALSE
    /\ step' = [c \in Calls |-> IF step[c] \in Ended \cup {"idle"} THEN step[c] ELSE "dead"]
    /\ mutex' = Free
    /\ staging' = NoDir
    /\ torn' = (torn \/ prod = NoDir)
    /\ UNCHANGED <<prod, merging, backup, wrote>>

\* NewFS creates the directories that are missing, wiki/ among them.
Restart ==
    /\ ~up
    /\ up' = TRUE
    /\ prod' = IF prod = NoDir THEN EmptyWiki ELSE prod
    /\ UNCHANGED <<step, mutex, merging, backup, staging, crashes, torn, wrote>>

-----------------------------------------------------------------------------
Init ==
    /\ step = [c \in Calls |-> "idle"]
    /\ mutex = Free
    /\ \E pages \in SUBSET Pages :
           prod = [EmptyWiki EXCEPT !.active =
                      [p \in Pages |-> IF p \in pages THEN {Origin} ELSE Absent]]
    /\ merging = NoDir /\ backup = NoDir /\ staging = NoDir
    /\ up = TRUE /\ crashes = 0
    /\ wrote = {} /\ torn = FALSE

\* What a call that has begun does of its own accord.
Proceed(c) ==
    \/ Lock(c) \/ HandBack(c)
    \/ CopyToStaging(c) \/ TurnFails(c) \/ Answer(c)
    \/ BeginMerge(c) \/ SetAside(c) \/ SetAsideFails(c)
    \/ SwapIn(c) \/ SwapFails(c) \/ CleanUp(c) \/ RebuildIndex(c)

Edit(c) == \E p \in Pages : WritePage(c, p) \/ ArchivePage(c, p)

Next ==
    \/ \E c \in Calls : Call(c) \/ GiveUp(c) \/ Proceed(c) \/ Edit(c)
    \/ Crash
    \/ Restart

Spec == Init /\ [][Next]_vars

\* A step that does not wait for an agent without a deadline: RunBatchIngest
\* runs under the deadline of its batch, compile and recall under none.
Timely(c) == (c \in Ingests \/ step[c] # "editing") /\ Proceed(c)

(* Calls keep moving, a free wikiMu is taken by some waiter, and a batch    *)
(* whose deadline passes is given up.  Which call moves does not matter:   *)
(* there are finitely many.                                                *)
FairSpec ==
    /\ Spec
    /\ WF_vars(\E c \in Calls : Timely(c))
    /\ WF_vars(\E c \in Ingests : GiveUp(c))

-----------------------------------------------------------------------------
(* Properties.                                                             *)

\* The values every variable may take; a staging copy exists while a turn uses
\* it and no longer.
TypeOK ==
    /\ step \in [Calls -> Holding \cup Ended \cup {"idle", "waiting", "abandoned"}]
    /\ mutex \in Calls \cup {Free}
    /\ {prod, merging, backup, staging} \subseteq Wikis \cup {NoDir}
    /\ staging # NoDir =>
           mutex # Free /\ step[mutex] \in Holding \ {"granted", "returning"}
    /\ {up, torn} \subseteq BOOLEAN
    /\ crashes \in 0 .. MaxCrashes
    /\ wrote \in SUBSET Calls

\* What the wiki holds, or would hold were the merge under way to be undone.
Live == IF prod = NoDir THEN backup ELSE prod

\* wikiMu is held by exactly the call that works under it, also when the call
\* was given up while it waited and a goroutine gets the lock later
\* (backend_acp.go 181-199), and released on every way out.
LockFollowsTurn ==
    \A c \in Calls : mutex = c <=> step[c] \in Holding

\* What agents and earlier turns put on an active page stays in the wiki, on the
\* page or in the archive, through every step of every turn, failed merge and
\* crash, unless the crash (or a failed restore) left a merge between its two
\* renames (backend_acp.go 808-857, validator.go 183-247).
ActivePagesAreKept ==
    [][~torn' => \A p \in Pages :
           Live # NoDir => Live.active[p] \subseteq Knowledge(Live', p)]_vars

\* The wiki in service: while wiki/ is moved away by a merge, the backup that the
\* merge would restore.
Aside == \E c \in Calls : step[c] = "aside"

Wiki ==
    CASE prod # NoDir -> prod
      [] prod = NoDir /\ backup # NoDir /\ Aside -> backup
      [] OTHER -> EmptyWiki

\* What the caller was told, or will be.
Told(s) ==
    CASE s \in {"waiting", "granted", "editing", "merging", "aside"} -> "running"
      [] s \in {"abandoned", "returning"} -> "failed"
      [] s \in {"swapped", "indexing"} -> "merged"
      [] OTHER -> s

Outcome == [c \in Calls |-> Told(step[c])]

Turns == INSTANCE AtomicWiki WITH wiki <- Wiki, outcome <- Outcome

\* To its callers a turn is one step: it starts from the wiki that the turn before
\* it left, adds its own work, loses no active page, and is reported as what it
\* was, through every failure and crash; a merge that can be neither finished nor
\* undone may empty the wiki, and never counts as a success (backend_acp.go
\* 168-221, 808-857).
TurnsAreAtomic == Turns!WikiSpec

\* The same promise without the exception: mergeWiki says that it replaces the
\* wiki atomically (backend_acp.go:808-811).
MergeIsAtomic ==
    [][\A p \in Pages :
           Live # NoDir => Live.active[p] \subseteq Knowledge(Live', p)]_vars

\* A turn that is about to be reported as a success is in the wiki: the
\* coordinator records verdicts for it and never runs it again
\* (backend_acp.go 210-221).  That it stays there is ActivePagesAreKept.
SuccessIsMerged ==
    ~torn => \A c \in wrote :
        step[c] \in {"swapped", "indexing"} => c \in KnowledgeOf(prod)

\* A turn reported as a failure has left nothing in the wiki: the coordinator
\* splits the batch and runs the same events again (backend_acp.go 200-214).
FailureLeavesNothing ==
    \A c \in Calls :
        step[c] \in {"failed", "abandoned", "returning"} => c \notin KnowledgeOf(prod)

\* A turn that changes nothing breaks no rule: the validator's comment lets
\* archive history stay and rejects only deleting or modifying it
\* (validator.go:190-196).
UntouchedWikiPasses ==
    prod # NoDir => Violations(prod, prod, TRUE) = {}

\* Every batch is answered, by its deadline at the latest: the coordinator never
\* waits for ever, whoever holds wikiMu (backend_acp.go 181-199), and a call it
\* has given up does not keep the lock.
BatchesEnd ==
    <>[](\A c \in Ingests : step[c] \in Ended \cup {"idle", "abandoned"})

=============================================================================
