--------------------------- MODULE LlmIngest_proofs ---------------------------
(***************************************************************************)
(* Proofs about LlmIngest, for any number of events, pages and slots, with *)
(* either compile backend.  SourcesAreKept needs that whoever is about to  *)
(* rewrite a sidecar has every event in hand that the sidecar must name:   *)
(* under the page's lock, or because the writes that another process met   *)
(* are forgotten.  IndexIsCurrent needs that whoever made a page without   *)
(* being in the last snapshot has its rebuild still to come.               *)
(***************************************************************************)
EXTENDS LlmIngest, FiniteSetTheorems, TLAPS

Pcs == {"none", "logged", "queued", "agent", "reading", "writing", "scan", "index", "copied",
        "aside", "done"}

Works == [path : Pages \union {NoPage}, meta : SUBSET Events, writes : 0..MaxWrites]

Visitings == [pc : {"reading", "touching"}, by : {Recaller, Stranger}, path : Pages,
              meta : SUBSET Events]

\* The shapes that TypeOK leaves to its readers.
Shapes ==
    /\ at \in [Agents -> Pcs]
    /\ work \in [Agents -> Works]
    /\ pages \in SUBSET Pages
    /\ sidecar \in [Pages -> SUBSET Events]
    /\ pageLock \in [Pages -> Agents \union {Recaller, Free}]
    /\ wrote \in [Events -> SUBSET Pages]
    /\ index \in SUBSET Pages /\ snapshot \in SUBSET Pages /\ stale \in SUBSET Pages
    /\ indexLock \in Agents \union {Free}
    /\ present \in BOOLEAN
    /\ errors \in SUBSET Events
    /\ visit # NoVisit => visit \in Visitings

\* A turn that is under way has its copy.
CopyShape ==
    TurnUnderWay =>
        /\ DOMAIN staged = 1..2
        /\ staged[1] \in SUBSET Pages
        /\ staged[2] \in [Pages -> SUBSET Events]

\* wiki/ is missing only between the renames of a turn.
Presence == ~present => at[Compiler] = "aside" /\ pages = {}

\* The compile agent is no event.
CompilerSteps == at[Compiler] \notin {"logged", "queued"}

EventSteps == \A e \in Events : at[e] \notin {"copied", "aside"}

\* A call on a page holds the page's lock; so does the read of a recall.
PageLocks ==
    /\ \A a \in Agents : at[a] \in {"reading", "writing"} =>
           work[a].path \in Pages /\ pageLock[work[a].path] = a
    /\ visit # NoVisit /\ visit.by = Recaller => pageLock[visit.path] = Recaller

Base == Shapes /\ CopyShape /\ Presence /\ CompilerSteps /\ EventSteps /\ PageLocks

-----------------------------------------------------------------------------
LEMMA AgentsAreDistinct ==
    /\ Compiler \notin Events /\ Compiler \in Agents
    /\ Events \subseteq Agents /\ Free \notin Agents
    /\ Recaller \notin Agents /\ Recaller # Free
    /\ \A a \in Agents : a # Compiler => a \in Events
BY PagesAssumption, SettingsAssumption DEF Agents, Events, Compiler, Recaller

LEMMA NoWorkIsWork == NoWork \in Works
<1>1. 0 \in 0..MaxWrites
  BY SettingsAssumption
<1> QED
  BY <1>1 DEF NoWork, Works

LEMMA CallIsWork ==
    ASSUME NEW w \in Works, NEW p \in Pages \union {NoPage}, NEW m \in SUBSET Events
    PROVE  [w EXCEPT !.path = p, !.meta = m] \in Works
BY DEF Works

\* An agent begins a call, or ends one.
LEMMA CallsKeepWorks ==
    ASSUME work \in [Agents -> Works], NEW a \in Agents,
           NEW p \in Pages \union {NoPage}, NEW m \in SUBSET Events,
           work' = [work EXCEPT ![a].path = p, ![a].meta = m]
    PROVE  /\ work' \in [Agents -> Works]
           /\ work'[a].path = p /\ work'[a].meta = m
           /\ \A b \in Agents : b # a => work'[b] = work[b]
<1>1. work' = [work EXCEPT ![a] = [work[a] EXCEPT !.path = p, !.meta = m]]
  OBVIOUS
<1>2. [work[a] EXCEPT !.path = p, !.meta = m] \in Works
  BY CallIsWork
<1>3. /\ [work[a] EXCEPT !.path = p, !.meta = m].path = p
      /\ [work[a] EXCEPT !.path = p, !.meta = m].meta = m
  BY DEF Works
<1> QED
  BY <1>1, <1>2, <1>3

LEMMA InitBase == Init => Base
<1> SUFFICES ASSUME Init PROVE Base
  OBVIOUS
<1>1. Shapes
  BY NoWorkIsWork DEF Init, Shapes, Pcs
<1>2. at[Compiler] = "none" /\ \A a \in Agents : at[a] = "none"
  BY AgentsAreDistinct DEF Init
<1> QED
  BY <1>1, <1>2, AgentsAreDistinct
     DEF Init, Base, CopyShape, Presence, CompilerSteps, EventSteps, PageLocks, TurnUnderWay

\* The goroutine of an event outside the tools.
Passing(e) ==
    AppendEvent(e) \/ Announce(e) \/ AcquireSlot(e) \/ AgentEnds(e) \/ AgentFails(e)

\* A step of an agent on the store.
Storing(a) ==
    ReadTools(a) \/ WriteTools(a) \/ CollectPages(a) \/ WriteIndex(a)

\* A step of the compile cycle that is no tool's.
Cycling ==
    \/ StartLlmCompile \/ CompilerRebuilds \/ CompilerEnds
    \/ \E p \in Pages : ArchiveWikiPage(p)
    \/ StartAcpCompile \/ TurnFails \/ SetAside \/ SwapIn
    \/ \E p \in Pages : EditStaging(p)

LEMMA StepsByKind ==
    ASSUME [Next]_vars
    PROVE  \/ \E e \in Events : Passing(e)
           \/ \E a \in Agents : Storing(a)
           \/ Cycling
           \/ RecallSteps
           \/ Visits
           \/ UNCHANGED vars
BY AgentsAreDistinct DEF Next, Goroutine, CompileSteps, Passing, Storing, ReadTools, WriteTools,
                         Cycling

\* Writing a sidecar names what it is given, or what is known of the page is forgotten.
Saved(p, m) ==
    /\ sidecar' \in [Pages -> SUBSET Events]
    /\ present' \in {present, TRUE}
    /\ wrote' \in [Events -> SUBSET Pages] /\ stale' \in SUBSET Pages
    /\ \A q \in Pages : q # p => sidecar'[q] = sidecar[q]
    /\ \/ sidecar'[p] = m /\ wrote' = wrote /\ stale' = stale
       \/ Forget({p})

LEMMA SaveSidecarSaves ==
    ASSUME Shapes, NEW p \in Pages, NEW m \in SUBSET Events, SaveSidecar(p, m)
    PROVE  Saved(p, m)
<1>1. CASE sidecar' = [sidecar EXCEPT ![p] = m] /\ present' = TRUE /\ UNCHANGED history
  BY <1>1 DEF Saved, Shapes, history
<1>2. ASSUME NEW left \in {sidecar[p], {}}, sidecar' = [sidecar EXCEPT ![p] = left],
             present' \in {present, TRUE}, Forget({p})
      PROVE  Saved(p, m)
  BY <1>2 DEF Saved, Shapes, Forget
<1> QED
  BY <1>1, <1>2 DEF SaveSidecar

LEMMA ForgettingKeepsShapes ==
    ASSUME Shapes, NEW ps \in SUBSET Pages, Forget(ps)
    PROVE  wrote' \in [Events -> SUBSET Pages] /\ stale' \in SUBSET Pages
BY DEF Shapes, Forget

LEMMA DisturbedArePages ==
    ASSUME NEW p \in Pages
    PROVE  Disturbed(p) \in SUBSET Pages
BY DEF Disturbed

LEMMA PassingKeepsBase ==
    ASSUME Base, NEW e \in Events, Passing(e)
    PROVE  Base'
<1> USE AgentsAreDistinct
    DEF Base, Shapes, CopyShape, Presence, CompilerSteps, EventSteps, PageLocks, TurnUnderWay,
        Pcs, wiki, indexing, history, requests
<1>1. CASE AppendEvent(e)
  BY <1>1 DEF AppendEvent
<1>2. CASE Announce(e)
  BY <1>2 DEF Announce
<1>3. CASE AcquireSlot(e)
  BY <1>3 DEF AcquireSlot
<1>4. CASE AgentEnds(e)
  BY <1>4 DEF AgentEnds
<1>5. CASE AgentFails(e)
  BY <1>5 DEF AgentFails, Return
<1> QED
  BY <1>1, <1>2, <1>3, <1>4, <1>5 DEF Passing

\* The end of a call.
LEMMA UnlockKeepsBase ==
    ASSUME Base, NEW a \in Agents, at[a] \in {"reading", "writing"}, Unlock(a),
           NEW m \in SUBSET Events, SaveSidecar(work[a].path, m),
           UNCHANGED <<pages, index, snapshot, indexLock, errors, staged, visit>>
    PROVE  Base'
<1> USE AgentsAreDistinct
<1> DEFINE p == work[a].path
<1>1. /\ at \in [Agents -> Pcs] /\ work \in [Agents -> Works]
      /\ pageLock \in [Pages -> Agents \union {Recaller, Free}]
      /\ p \in Pages /\ pageLock[p] = a
  BY DEF Base, Shapes, PageLocks
<1>2. /\ at' = [at EXCEPT ![a] = "agent"]
      /\ pageLock' = [pageLock EXCEPT ![p] = Free]
      /\ work' \in [Agents -> Works]
      /\ \A b \in Agents : b # a => work'[b] = work[b]
  <2>1. work' = [work EXCEPT ![a].path = NoPage, ![a].meta = {}]
    BY DEF Unlock
  <2>2. NoPage \in Pages \union {NoPage} /\ {} \in SUBSET Events
    OBVIOUS
  <2>3. work' \in [Agents -> Works] /\ \A b \in Agents : b # a => work'[b] = work[b]
    BY <1>1, <2>1, <2>2, CallsKeepWorks
  <2> QED
    BY <2>3 DEF Unlock
<1> HIDE DEF p
<1>3. SaveSidecar(p, m)
  BY DEF p
<1>4. Shapes'
  BY <1>1, <1>2, <1>3, SaveSidecarSaves DEF Saved, Base, Shapes, Pcs
<1>5. PageLocks'
  BY <1>1, <1>2 DEF Base, Shapes, PageLocks, Visitings
<1>6. (CopyShape /\ Presence /\ CompilerSteps /\ EventSteps)'
  <2>1. present' \in {present, TRUE} /\ present \in BOOLEAN
    BY <1>1, <1>3, SaveSidecarSaves DEF Saved, Base, Shapes
  <2>2. \A b \in Agents : at'[b] = at[b] \/ at'[b] = "agent"
    BY <1>1, <1>2
  <2>3. at[a] \notin {"copied", "aside"}
    OBVIOUS
  <2> QED
    <3>1. TurnUnderWay' <=> TurnUnderWay
      BY <1>1, <1>2, <2>3 DEF TurnUnderWay
    <3>2. CopyShape'
      BY <3>1 DEF Base, CopyShape
    <3>3. Presence'
      <4>1. CASE present' = TRUE
        BY <4>1 DEF Presence
      <4>2. CASE present' = present
        BY <1>1, <1>2, <2>3, <4>2 DEF Base, Presence
      <4> QED
        BY <2>1, <4>1, <4>2
    <3> QED
      BY <2>2, <3>2, <3>3 DEF Base, CompilerSteps, EventSteps
<1> QED
  BY <1>4, <1>5, <1>6 DEF Base

LEMMA StoringKeepsBase ==
    ASSUME Base, NEW a \in Agents, Storing(a)
    PROVE  Base'
<1> USE AgentsAreDistinct
<1>0. /\ at \in [Agents -> Pcs] /\ work \in [Agents -> Works]
      /\ pageLock \in [Pages -> Agents \union {Recaller, Free}]
  BY DEF Base, Shapes
<1>1. ASSUME NEW p \in Pages, ReadWikiPage(a, p)
      PROVE  Base'
  <2>1. /\ work' \in [Agents -> Works] /\ work'[a].path = p
        /\ \A b \in Agents : b # a => work'[b] = work[b]
    <3>1. sidecar[p] \in SUBSET Events
      BY DEF Base, Shapes
    <3> QED
      BY <1>0, <1>1, <3>1, CallsKeepWorks DEF ReadWikiPage
  <2>2. PageLocks'
    BY <1>0, <1>1, <2>1 DEF ReadWikiPage, MayLock, Base, PageLocks, Shapes, Visitings
  <2> QED
    BY <1>1, <2>1, <2>2 DEF ReadWikiPage, Base, Shapes, CopyShape, Presence, CompilerSteps,
                            EventSteps, TurnUnderWay, Pcs, wiki, indexing, history, requests
<1>2. ASSUME NEW p \in Pages, WriteWikiPage(a, p)
      PROVE  Base'
  <2>1. work[a].writes + 1 \in 0..MaxWrites
    <3>1. work[a].writes \in 0..MaxWrites /\ work[a].writes < MaxWrites
      BY <1>0, <1>2 DEF WriteWikiPage, Works
    <3> QED
      BY <3>1, SettingsAssumption
  <2>2. /\ work' \in [Agents -> Works] /\ work'[a].path = p
        /\ \A b \in Agents : b # a => work'[b] = work[b]
    BY <1>0, <1>2, <2>1 DEF WriteWikiPage, Works, Base, Shapes
  <2>3. PageLocks'
    BY <1>0, <1>2, <2>2 DEF WriteWikiPage, MayLock, Base, PageLocks, Shapes, Visitings
  <2>4. wrote' \in [Events -> SUBSET Pages] /\ stale' \in SUBSET Pages
    BY <1>2, DisturbedArePages DEF WriteWikiPage, Base, Shapes
  <2>5. Shapes'
    BY <1>2, <2>2, <2>4 DEF WriteWikiPage, Base, Shapes, Pcs, indexing, requests
  <2> QED
    BY <1>0, <1>2, <2>3, <2>5 DEF WriteWikiPage, Base, CopyShape, Presence, CompilerSteps,
                                  EventSteps, TurnUnderWay
<1>3. ASSUME NEW p \in Pages, WritePageFails(a, p)
      PROVE  Base'
  <2>1. work[a].writes + 1 \in 0..MaxWrites
    <3>1. work[a].writes \in 0..MaxWrites /\ work[a].writes < MaxWrites
      BY <1>0, <1>3 DEF WritePageFails, Works
    <3> QED
      BY <3>1, SettingsAssumption
  <2>2. /\ work' \in [Agents -> Works] /\ at' = at
        /\ \A b \in Agents : work'[b].path = work[b].path
    BY <1>0, <1>3, <2>1 DEF WritePageFails, Works
  <2>3. wrote' \in [Events -> SUBSET Pages] /\ stale' \in SUBSET Pages
    BY <1>3, DisturbedArePages, ForgettingKeepsShapes DEF WritePageFails, Base
  <2>4. PageLocks'
    BY <1>3, <2>2 DEF WritePageFails, Base, PageLocks
  <2>5. Shapes'
    BY <1>3, <2>2, <2>3 DEF WritePageFails, Base, Shapes, indexing, requests
  <2> QED
    <3>1. staged' = staged
      BY <1>3 DEF WritePageFails
    <3>2. (CopyShape /\ CompilerSteps /\ EventSteps)'
      BY <2>2, <3>1 DEF Base, CopyShape, CompilerSteps, EventSteps, TurnUnderWay
    <3>3. present' = TRUE \/ (pages' = pages /\ present' \in {present, TRUE})
      BY <1>3 DEF WritePageFails
    <3>4. Presence'
      BY <2>2, <3>3 DEF Base, Shapes, Presence
    <3> QED
      BY <2>4, <2>5, <3>2, <3>4 DEF Base
<1>4. CASE TouchSidecar(a)
  <2>1. work[a].meta \in SUBSET Events
    BY <1>0 DEF Works
  <2> QED
    BY <1>4, <2>1, UnlockKeepsBase DEF TouchSidecar, indexing, requests
<1>5. CASE WriteSidecar(a)
  <2>1. work[a].meta \union Brings(a) \in SUBSET Events
    BY <1>0 DEF Works, Brings
  <2> QED
    BY <1>5, <2>1, UnlockKeepsBase DEF WriteSidecar, indexing, requests
<1>6. CASE WriteIndexPage(a)
  <2>1. wrote' \in [Events -> SUBSET Pages]
    BY <1>6 DEF WriteIndexPage, Base, Shapes
  <2> QED
    BY <1>6, <2>1 DEF WriteIndexPage, Base, Shapes, CopyShape, Presence, CompilerSteps,
                      EventSteps, PageLocks, TurnUnderWay, requests
<1>7. CASE CollectPages(a)
  BY <1>0, <1>7 DEF CollectPages, Base, Shapes, Pcs, CopyShape, Presence, CompilerSteps,
                    EventSteps, PageLocks, TurnUnderWay, wiki, requests
<1>8. CASE WriteIndex(a)
  <2>1. /\ at[a] = "index" /\ \E to \in {"agent", "done"} : at' = [at EXCEPT ![a] = to]
        /\ errors' \in SUBSET Events /\ index' \in SUBSET Pages /\ stale' \in SUBSET Pages
        /\ indexLock' = Free /\ snapshot' = {}
        /\ UNCHANGED <<work, pages, sidecar, present, pageLock, staged, visit, wrote>>
    BY <1>8 DEF WriteIndex, Return, Base, Shapes, Brings, wiki
  <2> QED
    BY <1>0, <2>1 DEF Base, Shapes, Pcs, CopyShape, Presence, CompilerSteps, EventSteps,
                      PageLocks, TurnUnderWay
<1> QED
  BY <1>1, <1>2, <1>3, <1>4, <1>5, <1>6, <1>7, <1>8 DEF Storing, ReadTools, WriteTools

LEMMA CyclingKeepsBase ==
    ASSUME Base, Cycling
    PROVE  Base'
<1> USE AgentsAreDistinct
    DEF Base, Shapes, CopyShape, Presence, CompilerSteps, EventSteps, PageLocks, TurnUnderWay,
        Pcs, wiki, indexing, history, requests
<1>1. CASE StartLlmCompile \/ CompilerRebuilds \/ CompilerEnds
  BY <1>1 DEF StartLlmCompile, CompilerRebuilds, CompilerEnds
<1>2. ASSUME NEW p \in Pages, ArchiveWikiPage(p)
      PROVE  Base'
  BY <1>2 DEF ArchiveWikiPage, Forget
<1>3. CASE StartAcpCompile
  <2>1. staged' = <<pages, sidecar>> /\ at' = [at EXCEPT ![Compiler] = "copied"]
        /\ at[Compiler] = "none"
    BY <1>3 DEF StartAcpCompile
  <2>2. wrote' \in [Events -> SUBSET Pages] /\ stale' \in SUBSET Pages
    BY <1>3 DEF StartAcpCompile, Forget
  <2> QED
    BY <1>3, <2>1, <2>2 DEF StartAcpCompile
<1>4. CASE TurnFails
  BY <1>4 DEF TurnFails
<1>5. CASE SetAside
  <2>1. wrote' \in [Events -> SUBSET Pages] /\ stale' \in SUBSET Pages
    BY <1>5 DEF SetAside, Forget
  <2> QED
    BY <1>5, <2>1 DEF SetAside
<1>6. CASE SwapIn
  BY <1>6 DEF SwapIn
<1>7. ASSUME NEW p \in Pages, EditStaging(p)
      PROVE  Base'
  <2>1. /\ DOMAIN staged' = 1..2
        /\ staged'[1] = staged[1] \union {p}
        /\ staged'[2] \in {staged[2], [staged[2] EXCEPT ![p] = {}]}
    BY <1>7 DEF EditStaging
  <2>2. wrote' \in [Events -> SUBSET Pages] /\ stale' \in SUBSET Pages
    BY <1>7 DEF EditStaging, Forget
  <2>3. UNCHANGED <<at, work, pages, sidecar, present, pageLock, index, snapshot, indexLock,
                    errors, visit>>
    BY <1>7 DEF EditStaging
  <2> QED
    BY <2>1, <2>2, <2>3
<1> QED
  BY <1>1, <1>2, <1>3, <1>4, <1>5, <1>6, <1>7 DEF Cycling

LEMMA VisitsKeepBase ==
    ASSUME Base, Visits
    PROVE  Base'
<1> USE AgentsAreDistinct
<1>1. ASSUME NEW by \in {Recaller, Stranger}, NEW p \in Pages, VisitPage(by, p)
      PROVE  Base'
  <2>1. visit' \in Visitings /\ visit'.by = by /\ visit'.path = p
    BY <1>1 DEF VisitPage, Visitings
  <2>2. wrote' \in [Events -> SUBSET Pages] /\ stale' \in SUBSET Pages
    BY <1>1 DEF VisitPage, Forget, HalfWritten, Base, Shapes, history
  <2>3. UNCHANGED <<at, work, pages, sidecar, present, index, snapshot, indexLock, errors,
                    staged>>
    BY <1>1 DEF VisitPage, wiki, indexing, requests
  <2>4. PageLocks' /\ pageLock' \in [Pages -> Agents \union {Recaller, Free}]
    <3>1. CASE by = Recaller /\ pageLock[p] = Free /\ pageLock' = [pageLock EXCEPT ![p] = by]
      BY <2>1, <2>3, <3>1 DEF Base, Shapes, PageLocks
    <3>2. CASE by = Stranger /\ pageLock' = pageLock
      <4>1. Recaller # Stranger
        BY SettingsAssumption DEF Recaller, Stranger
      <4> QED
        BY <2>1, <2>3, <3>2, <4>1 DEF Base, Shapes, PageLocks
    <3> QED
      BY <1>1, <3>1, <3>2 DEF VisitPage, MayLock
  <2> QED
    BY <2>1, <2>2, <2>3, <2>4 DEF Base, Shapes, CopyShape, Presence, CompilerSteps, EventSteps,
                                  TurnUnderWay
<1>2. CASE VisitSidecar
  <2>1. visit # NoVisit
    BY <1>2 DEF VisitSidecar, NoVisit
  <2>2. visit' \in Visitings /\ visit'.by = visit.by /\ visit'.path = visit.path
    BY <1>2, <2>1 DEF VisitSidecar, Visitings, Base, Shapes
  <2> QED
    BY <1>2, <2>1, <2>2 DEF VisitSidecar, Base, Shapes, CopyShape, Presence, CompilerSteps,
                            EventSteps, PageLocks, TurnUnderWay, wiki, indexing, requests, history
<1>3. CASE EndVisit
  <2>1. visit # NoVisit /\ visit.path \in Pages /\ visit.meta \in SUBSET Events
    BY <1>3 DEF EndVisit, NoVisit, Base, Shapes, Visitings
  <2>2. SaveSidecar(visit.path, visit.meta) /\ visit' = NoVisit
    BY <1>3 DEF EndVisit
  <2>3. UNCHANGED <<at, work, pages, index, snapshot, indexLock, errors, staged>>
    BY <1>3 DEF EndVisit, indexing, requests
  <2>4. /\ sidecar' \in [Pages -> SUBSET Events]
        /\ present' \in {present, TRUE}
        /\ wrote' \in [Events -> SUBSET Pages] /\ stale' \in SUBSET Pages
    BY <2>1, <2>2, SaveSidecarSaves DEF Saved, Base
  <2>5. PageLocks' /\ pageLock' \in [Pages -> Agents \union {Recaller, Free}]
    BY <1>3, <2>1, <2>2, <2>3 DEF EndVisit, Base, Shapes, PageLocks
  <2> QED
    <3>1. (CopyShape /\ CompilerSteps /\ EventSteps)'
      BY <2>3 DEF Base, CopyShape, CompilerSteps, EventSteps, TurnUnderWay
    <3>3. Presence'
      <4>1. CASE present' = TRUE
        BY <4>1 DEF Presence
      <4>2. CASE present' = present
        BY <2>3, <4>2 DEF Base, Presence
      <4> QED
        BY <2>4, <4>1, <4>2
    <3>2. Shapes'
      BY <2>2, <2>3, <2>4, <2>5 DEF Base, Shapes
    <3> QED
      BY <2>5, <3>1, <3>2, <3>3 DEF Base
<1> QED
  BY <1>1, <1>2, <1>3 DEF Visits

LEMMA NextKeepsBase ==
    ASSUME Base, [Next]_vars
    PROVE  Base'
<1>1. CASE RecallSteps
  BY <1>1 DEF RecallSteps, StartRecall, EndRecall, Base, Shapes, CopyShape, Presence,
              CompilerSteps, EventSteps, PageLocks, TurnUnderWay, wiki, indexing, history,
              requests
<1>2. CASE UNCHANGED vars
  BY <1>2 DEF vars, Base, Shapes, CopyShape, Presence, CompilerSteps, EventSteps, PageLocks,
              TurnUnderWay
<1> QED
  BY <1>1, <1>2, StepsByKind, PassingKeepsBase, StoringKeepsBase, CyclingKeepsBase,
     VisitsKeepBase
-----------------------------------------------------------------------------
(* Counting.                                                               *)

LEMMA EventsAreFinite ==
    /\ IsFiniteSet(Events) /\ Events \subseteq Nat
    /\ IsFiniteSet(Integrating) /\ Cardinality(Integrating) \in Nat
<1>1. IsFiniteSet(Events) /\ Events \subseteq Nat
  BY SettingsAssumption, FS_Interval DEF Events
<1>2. Integrating \subseteq Events
  BY DEF Integrating
<1> QED
  BY <1>1, <1>2, FS_Subset, FS_CardinalityType

Counted ==
    /\ counter = Cardinality(Integrating)
    /\ slots = {e \in Integrating : at[e] # "queued"}
    /\ Cardinality(slots) <= maxConcurrentIntegrations
    /\ maxConcurrentIntegrations \in SlotLimits
    /\ compileBackend \in Backends
    /\ logged \in 0..MaxEvents
    /\ \A e \in Events : at[e] # "none" => e <= logged

LEMMA InitCounted == Init => Counted
<1> SUFFICES ASSUME Init PROVE Counted
  OBVIOUS
<1>1. Integrating = {}
  BY AgentsAreDistinct DEF Init, Integrating
<1>2. Cardinality({}) = 0
  BY FS_EmptySet
<1>3. 0 <= maxConcurrentIntegrations
  BY SettingsAssumption DEF Init
<1>4. logged \in 0..MaxEvents
  BY SettingsAssumption DEF Init
<1>5. \A e \in Events : at[e] = "none"
  BY AgentsAreDistinct DEF Init
<1> QED
  BY <1>1, <1>2, <1>3, <1>4, <1>5 DEF Init, Counted

LEMMA SlotsAreFinite ==
    ASSUME Counted
    PROVE  IsFiniteSet(slots) /\ Cardinality(slots) \in Nat
BY EventsAreFinite, FS_Subset, FS_CardinalityType DEF Counted

LEMMA ReturnKeepsCounted ==
    ASSUME Base, Counted, NEW e \in Events, at[e] \in {"agent", "index"}, Return(e),
           UNCHANGED settings, logged' = logged
    PROVE  Counted'
<1> USE AgentsAreDistinct, EventsAreFinite
<1>1. at \in [Agents -> Pcs] /\ e \in Agents
  BY DEF Base, Shapes
<1>2. e \in Integrating /\ Integrating' = Integrating \ {e}
  BY <1>1 DEF Return, Integrating
<1>3. Cardinality(Integrating') = Cardinality(Integrating) - 1
  BY <1>2, FS_RemoveElement
<1>4. slots' = {d \in Integrating' : at'[d] # "queued"}
  BY <1>1, <1>2 DEF Return, Counted, Integrating
<1>5. Cardinality(slots') <= maxConcurrentIntegrations
  <2>1. Cardinality(slots') <= Cardinality(slots) /\ Cardinality(slots') \in Nat
    <3>1. slots' \in SUBSET slots
      BY DEF Return
    <3> QED
      BY <3>1, SlotsAreFinite, FS_Subset, FS_CardinalityType
  <2>2. maxConcurrentIntegrations \in Nat /\ Cardinality(slots) <= maxConcurrentIntegrations
    BY SettingsAssumption DEF Counted
  <2> QED
    BY <2>1, <2>2, SlotsAreFinite
<1>6. \A d \in Events : at'[d] # "none" => d <= logged
  BY <1>1 DEF Return, Counted
<1> QED
  BY <1>2, <1>3, <1>4, <1>5, <1>6 DEF Return, Counted, settings

LEMMA NewEventIsNew ==
    ASSUME Base, Counted, NEW e \in Events, AppendEvent(e)
    PROVE  at[e] = "none"
<1>1. e \in Nat /\ logged \in Nat /\ e = logged + 1
  BY EventsAreFinite, SettingsAssumption DEF AppendEvent, Counted
<1>2. at[e] # "none" => e <= logged
  BY DEF Counted
<1> QED
  BY <1>1, <1>2

\* An event stays where it was counted, unless it is the one that moves.
LEMMA PassingKeepsCounted ==
    ASSUME Base, Counted, NEW e \in Events, Passing(e)
    PROVE  Counted'
<1> USE AgentsAreDistinct, EventsAreFinite
<1>0. /\ at \in [Agents -> Pcs] /\ e \in Nat /\ logged \in Nat /\ e \in Agents
      /\ logged \in 0..MaxEvents
      /\ maxConcurrentIntegrations \in Nat
  BY SettingsAssumption DEF Base, Shapes, Counted
<1>1. CASE AppendEvent(e)
  <2>1. at[e] = "none"
    BY <1>0, <1>1 DEF AppendEvent, Counted
  <2>2. Integrating' = Integrating /\ slots' = slots
    BY <1>0, <1>1, <2>1 DEF AppendEvent, Integrating, requests
  <2>3. slots = {d \in Integrating : at'[d] # "queued"}
    BY <1>0, <1>1, <2>1 DEF AppendEvent, Counted, Integrating
  <2>4. logged' \in 0..MaxEvents
    BY <1>0, <1>1 DEF AppendEvent, Events
  <2>5. \A d \in Events : at'[d] # "none" => d <= logged'
    BY <1>0, <1>1 DEF AppendEvent, Counted
  <2> QED
    BY <1>1, <2>2, <2>3, <2>4, <2>5 DEF AppendEvent, Counted, settings
<1>2. CASE Announce(e)
  <2>1. Integrating' = Integrating \union {e} /\ e \notin Integrating
    BY <1>0, <1>2 DEF Announce, Integrating
  <2>2. Cardinality(Integrating') = Cardinality(Integrating) + 1
    BY <2>1, FS_AddElement
  <2>3. slots = {d \in Integrating' : at'[d] # "queued"}
    BY <1>0, <1>2, <2>1 DEF Announce, Counted, Integrating
  <2>4. \A d \in Events : at'[d] # "none" => d <= logged
    BY <1>0, <1>2 DEF Announce, Counted
  <2> QED
    BY <1>2, <2>2, <2>3, <2>4 DEF Announce, Counted, settings
<1>3. CASE AcquireSlot(e)
  <2>1. Integrating' = Integrating /\ e \in Integrating
    BY <1>0, <1>3 DEF AcquireSlot, Integrating
  <2>2. slots' = {d \in Integrating' : at'[d] # "queued"}
    BY <1>0, <1>3, <2>1 DEF AcquireSlot, Counted, Integrating
  <2>3. Cardinality(slots') <= maxConcurrentIntegrations
    <3>1. Cardinality(slots') <= Cardinality(slots) + 1
      <4>1. /\ IsFiniteSet(slots) /\ Cardinality(slots) \in Nat
            /\ slots' = slots \union {e}
        BY <1>3, SlotsAreFinite DEF AcquireSlot
      <4>2. Cardinality(slots \union {e}) \in {Cardinality(slots), Cardinality(slots) + 1}
        BY <4>1, FS_AddElement
      <4> QED
        BY <4>1, <4>2
    <3>2. Cardinality(slots) < maxConcurrentIntegrations
      BY <1>3 DEF AcquireSlot
    <3>3. Cardinality(slots') \in Nat
      <4>1. IsFiniteSet(slots \union {e})
        BY SlotsAreFinite, FS_AddElement
      <4>2. slots' = slots \union {e}
        BY <1>3 DEF AcquireSlot
      <4> QED
        BY <4>1, <4>2, FS_CardinalityType
    <3> QED
      BY <1>0, <3>1, <3>2, <3>3, SlotsAreFinite
  <2>4. \A d \in Events : at'[d] # "none" => d <= logged
    BY <1>0, <1>3 DEF AcquireSlot, Counted
  <2> QED
    BY <1>3, <2>1, <2>2, <2>3, <2>4 DEF AcquireSlot, Counted, settings
<1>4. CASE AgentEnds(e)
  <2>1. Integrating' = Integrating
    BY <1>0, <1>4 DEF AgentEnds, Integrating
  <2>2. slots = {d \in Integrating' : at'[d] # "queued"}
    BY <1>0, <1>4, <2>1 DEF AgentEnds, Counted, Integrating
  <2>3. \A d \in Events : at'[d] # "none" => d <= logged
    BY <1>0, <1>4 DEF AgentEnds, Counted
  <2> QED
    BY <1>4, <2>1, <2>2, <2>3 DEF AgentEnds, Counted, settings, requests
<1>5. CASE AgentFails(e)
  BY <1>5, ReturnKeepsCounted DEF AgentFails, settings
<1> QED
  BY <1>1, <1>2, <1>3, <1>4, <1>5 DEF Passing

\* Everything else leaves the counting alone, but for the end of an integration
\* after its rebuild.
LEMMA RestKeepsCounted ==
    ASSUME Base, Counted, [Next]_vars, \A e \in Events : ~Passing(e)
    PROVE  Counted'
<1>1. ASSUME UNCHANGED <<counter, slots, settings, logged>>,
             \A e \in Events :
                 /\ at'[e] = "none" <=> at[e] = "none"
                 /\ e \in Integrating' <=> e \in Integrating
                 /\ at'[e] = "queued" <=> at[e] = "queued"
      PROVE  Counted'
  <2>1. Integrating' = Integrating
    BY <1>1 DEF Integrating
  <2>2. slots = {d \in Integrating' : at'[d] # "queued"}
    BY <1>1, <2>1 DEF Counted, Integrating
  <2>3. \A e \in Events : at'[e] # "none" => e <= logged
    BY <1>1 DEF Counted
  <2> QED
    BY <1>1, <2>1, <2>2, <2>3 DEF Counted, settings
<1>2. at \in [Agents -> Pcs]
  BY DEF Base, Shapes
<1> USE <1>2, AgentsAreDistinct DEF Integrating, requests, settings
<1>3. ASSUME NEW a \in Agents, ReadTools(a) \/ WriteTools(a) \/ CollectPages(a)
      PROVE  Counted'
  BY <1>1, <1>3 DEF ReadTools, WriteTools, ReadWikiPage, TouchSidecar, WriteWikiPage,
                    WritePageFails, WriteSidecar, WriteIndexPage, Unlock, CollectPages
<1>4. ASSUME NEW e \in Events, WriteIndex(e)
      PROVE  Counted'
  BY <1>4, ReturnKeepsCounted DEF WriteIndex
<1>5. CASE WriteIndex(Compiler)
  BY <1>1, <1>5 DEF WriteIndex
<1>6. CASE Cycling
  BY <1>1, <1>6 DEF Cycling, StartLlmCompile, CompilerRebuilds, CompilerEnds, ArchiveWikiPage,
                    StartAcpCompile, TurnFails, SetAside, SwapIn, EditStaging
<1>7. CASE RecallSteps \/ Visits
  BY <1>1, <1>7 DEF RecallSteps, StartRecall, EndRecall, Visits, VisitPage, VisitSidecar,
                    EndVisit
<1>8. CASE UNCHANGED vars
  BY <1>1, <1>8 DEF vars
<1> QED
  BY <1>3, <1>4, <1>5, <1>6, <1>7, <1>8, StepsByKind DEF Storing

LEMMA NextKeepsCounted ==
    ASSUME Base, Counted, [Next]_vars
    PROVE  Counted'
BY PassingKeepsCounted, RestKeepsCounted

LEMMA BaseHolds == Spec => [](Base /\ Counted)
BY InitBase, InitCounted, NextKeepsBase, NextKeepsCounted, PTL DEF Spec

\* Every variable keeps its type; the counter is the number of integrations that were
\* begun and have not ended, the slots are those of the ones that run, and there are
\* never more of them than the server was started with.
THEOREM TypesHold == Spec => []TypeOK
<1>1. Base /\ Counted => TypeOK
  <2> SUFFICES ASSUME Base, Counted PROVE TypeOK
    OBVIOUS
  <2>1. ASSUME NEW a \in Agents
        PROVE  /\ work[a].path \in Pages \union {NoPage}
               /\ work[a].meta \subseteq Events
               /\ work[a].writes \in 0..MaxWrites
    <3>1. work[a] \in Works
      BY DEF Base, Shapes
    <3> QED
      BY <3>1 DEF Works
  <2>2. visit # NoVisit => visit.path \in Pages /\ visit.meta \subseteq Events
    BY DEF Base, Shapes, Visitings
  <2>3. ~present => at[Compiler] = "aside" /\ pages = {}
    BY DEF Base, Presence
  <2> QED
    BY <2>1, <2>2, <2>3 DEF TypeOK, Base, Shapes, Counted, Pcs
<1> QED
  BY <1>1, BaseHolds, PTL

-----------------------------------------------------------------------------
(* Recall.                                                                 *)

\* A recall has its query after it has read the log, or found nothing pending.
RecallInv == recall.pc = "query" => recall.lacks = {}

LEMMA NextKeepsRecall ==
    ASSUME Base, Counted, RecallInv, [Next]_vars
    PROVE  RecallInv'
<1>1. ASSUME recall' = recall
      PROVE  RecallInv'
  BY <1>1 DEF RecallInv
<1>2. CASE StartRecall
  <2>1. \A e \in Integrating : e <= logged /\ e \in Nat /\ logged \in Nat
    BY EventsAreFinite, SettingsAssumption DEF Integrating, Counted
  <2>2. counter = 0 => Integrating = {}
    BY EventsAreFinite, FS_EmptySet DEF Counted
  <2>3. counter > 0 \/ counter = 0
    BY EventsAreFinite DEF Counted
  <2>4. {e \in Integrating : counter > 0 => e > logged} = {}
    BY <2>1, <2>2, <2>3
  <2>5. recall' = [pc |-> "query", lacks |-> {}]
    BY <1>2, <2>4 DEF StartRecall
  <2> QED
    BY <2>5 DEF RecallInv
<1>3. CASE EndRecall
  BY <1>3 DEF EndRecall, RecallInv, NoRecall
<1>4. ASSUME NEW e \in Events, Passing(e)
      PROVE  recall' = recall
  BY <1>4 DEF Passing, AppendEvent, Announce, AcquireSlot, AgentEnds, AgentFails
<1>5. ASSUME NEW a \in Agents, Storing(a)
      PROVE  recall' = recall
  BY <1>5 DEF Storing, ReadTools, WriteTools, ReadWikiPage, TouchSidecar, WriteWikiPage,
              WritePageFails, WriteSidecar, WriteIndexPage, CollectPages, WriteIndex
<1>6. CASE Cycling
  BY <1>1, <1>6 DEF Cycling, StartLlmCompile, CompilerRebuilds, CompilerEnds, ArchiveWikiPage,
              StartAcpCompile, TurnFails, SetAside, SwapIn, EditStaging
<1>7. CASE Visits
  BY <1>1, <1>7 DEF Visits, VisitPage, VisitSidecar, EndVisit
<1>8. CASE UNCHANGED vars
  BY <1>1, <1>8 DEF vars
<1> QED
  BY <1>1, <1>2, <1>3, <1>4, <1>5, <1>6, <1>7, <1>8, StepsByKind DEF RecallSteps

\* A recall that begins after an event was acknowledged has it in what it reads of the
\* log, unless its integration has ended.
THEOREM RecallsSeeEvents == Spec => []RecallSeesEvent
<1>1. Init => RecallInv
  BY DEF Init, NoRecall, RecallInv
<1>2. Base /\ Counted /\ RecallInv /\ [Next]_vars => RecallInv'
  BY NextKeepsRecall
<1>3. RecallInv => RecallSeesEvent
  BY DEF RecallInv, RecallSeesEvent
<1> QED
  BY <1>1, <1>2, <1>3, BaseHolds, PTL DEF Spec

-----------------------------------------------------------------------------
(* Sidecars.                                                               *)

\* The sources name every event of which the page's sidecar must tell.
Names(sources, p) == \A e \in Events : p \in wrote[e] => e \in sources

\* What the agent is about to put into the sidecar.
Adds(a) == work[a].meta \union IF at[a] = "writing" THEN Brings(a) ELSE {}

\* Nothing is known of any page.
Forgotten == \A e \in Events : wrote[e] = {}

\* Who is about to rewrite a sidecar has all those events in hand.
HeldSources ==
    /\ \A a \in Agents : at[a] \in {"reading", "writing"} =>
           Names(Adds(a), work[a].path)
    /\ visit.pc = "touching" => Names(visit.meta, visit.path)

\* No page is being visited and written at once, but for those that are forgotten.
VisitsApart ==
    visit # NoVisit =>
        \A e \in Events : at[e] = "writing" /\ work[e].path = visit.path =>
            \A f \in Events : visit.path \notin wrote[f]

\* The copy of a turn has all there is to keep.
CopyHasSources == TurnUnderWay => \A p \in Pages : Names(staged[2][p], p)

\* Between the renames either nothing is known, or nothing is being read or written.
AsideIsQuiet ==
    at[Compiler] = "aside" => Forgotten \/ (~present /\ ~StoreBusy)

Sources == HeldSources /\ VisitsApart /\ CopyHasSources /\ AsideIsQuiet /\ SourcesAreKept

LEMMA InitSources == Init => Sources
<1> SUFFICES ASSUME Init PROVE Sources
  OBVIOUS
<1>1. \A a \in Agents : at[a] = "none"
  BY DEF Init
<1>2. \A e \in Events : wrote[e] = {}
  BY DEF Init
<1>3. visit = NoVisit /\ visit.pc = "none"
  BY DEF Init, NoVisit
<1> QED
  BY <1>1, <1>2, <1>3, AgentsAreDistinct
     DEF Sources, HeldSources, VisitsApart, CopyHasSources, AsideIsQuiet, SourcesAreKept,
         TurnUnderWay

LEMMA ForgottenIsSafe ==
    ASSUME Forgotten'
    PROVE  Sources'
BY DEF Forgotten, Sources, HeldSources, VisitsApart, CopyHasSources, AsideIsQuiet,
       SourcesAreKept, Names

\* A step that leaves sidecars, calls and the turn alone changes nothing here.
LEMMA StillSources ==
    ASSUME Base, Sources,
           UNCHANGED <<sidecar, visit>>,
           UNCHANGED staged \/ at'[Compiler] \notin {"copied", "aside"},
           \A e \in Events : wrote'[e] \subseteq wrote[e],
           present' = present \/ (TurnUnderWay => Forgotten'),
           \A a \in Agents :
               /\ at'[a] = "writing" <=> at[a] = "writing"
               /\ at'[a] = "reading" <=> at[a] = "reading"
               /\ at[a] \in {"reading", "writing"} =>
                      work'[a].path = work[a].path /\ work'[a].meta = work[a].meta,
           at'[Compiler] \in {"copied", "aside"} => at'[Compiler] = at[Compiler],
           at[Compiler] = "aside" => at'[Compiler] = "aside"
    PROVE  Sources'
<1>1. ASSUME NEW ss, NEW p, Names(ss, p)
      PROVE  \A e \in Events : p \in wrote'[e] => e \in ss
  BY <1>1 DEF Names
<1>2. HeldSources'
  <2>1. ASSUME NEW a \in Agents, at'[a] \in {"reading", "writing"}
        PROVE  Names(Adds(a), work[a].path)'
    <3>1. /\ at[a] \in {"reading", "writing"} /\ Adds(a)' = Adds(a)
          /\ work'[a].path = work[a].path
      BY <2>1 DEF Adds, Brings
    <3>2. Names(Adds(a), work[a].path)
      BY <3>1 DEF Sources, HeldSources
    <3> QED
      BY <1>1, <3>1, <3>2 DEF Names
  <2>2. visit.pc = "touching" => Names(visit.meta, visit.path)'
    BY <1>1 DEF Sources, HeldSources, Names
  <2> QED
    BY <2>1, <2>2 DEF HeldSources
<1>3. VisitsApart'
  <2>1. \A e \in Events : at'[e] = "writing" => at[e] = "writing" /\ work'[e].path = work[e].path
    BY AgentsAreDistinct
  <2> QED
    BY <2>1 DEF Sources, VisitsApart
<1>4. CopyHasSources'
  <2>1. TurnUnderWay' => TurnUnderWay /\ staged' = staged
    BY DEF TurnUnderWay
  <2> QED
    BY <2>1 DEF Sources, CopyHasSources, Names
<1>5. AsideIsQuiet'
  <2>1. StoreBusy' <=> StoreBusy
    BY DEF StoreBusy
  <2>2. Forgotten => Forgotten'
    BY DEF Forgotten
  <2> QED
    BY <2>1, <2>2 DEF Sources, AsideIsQuiet, TurnUnderWay
<1>6. SourcesAreKept'
  <2>1. ASSUME at'[Compiler] # "aside", NEW e \in Events, NEW p \in wrote'[e]
        PROVE  e \in sidecar'[p] \/ (at'[e] = "writing" /\ work'[e].path = p)
    <3>1. e \in sidecar[p] \/ (at[e] = "writing" /\ work[e].path = p)
      BY <2>1 DEF Sources, SourcesAreKept
    <3> QED
      BY <3>1, AgentsAreDistinct
  <2> QED
    BY <2>1 DEF SourcesAreKept
<1> QED
  BY <1>2, <1>3, <1>4, <1>5, <1>6 DEF Sources

LEMMA ReadingKeepsSources ==
    ASSUME Base, Sources, NEW a \in Agents, NEW p \in Pages, ReadWikiPage(a, p)
    PROVE  Sources'
<1> USE AgentsAreDistinct
<1>1. /\ at \in [Agents -> Pcs] /\ work \in [Agents -> Works]
      /\ sidecar \in [Pages -> SUBSET Events]
  BY DEF Base, Shapes
<1>2. /\ at[a] = "agent" /\ pageLock[p] = Free /\ p \in pages
      /\ at' = [at EXCEPT ![a] = "reading"]
      /\ UNCHANGED <<sidecar, staged, visit, wrote, present>>
  BY DEF ReadWikiPage, MayLock, wiki, history
<1>3. /\ work'[a].path = p /\ work'[a].meta = sidecar[p]
      /\ \A b \in Agents : b # a => work'[b] = work[b]
  BY <1>1 DEF ReadWikiPage, Works
<1>4. at[Compiler] = "aside" => Forgotten
  BY <1>2 DEF Base, Presence, Sources, AsideIsQuiet
<1>5. CASE Forgotten
  BY <1>2, <1>5, ForgottenIsSafe DEF Forgotten
<1>6. CASE ~Forgotten
  <2>1. at[Compiler] # "aside"
    BY <1>4, <1>6
  <2>2. \A e \in Events : ~(at[e] = "writing" /\ work[e].path = p)
    BY <1>2 DEF Base, PageLocks
  <2>3. Names(sidecar[p], p)
    BY <2>1, <2>2 DEF Sources, SourcesAreKept, Names
  <2>4. HeldSources'
    <3>1. ASSUME NEW b \in Agents, at'[b] \in {"reading", "writing"}
          PROVE  Names(Adds(b), work[b].path)'
      <4>1. CASE b = a
        <5>1. Adds(a)' = sidecar[p]
          BY <1>1, <1>2, <1>3 DEF Adds
        <5> QED
          BY <1>2, <1>3, <2>3, <4>1, <5>1 DEF Names
      <4>2. CASE b # a
        <5>1. at'[b] = at[b] /\ work'[b] = work[b]
          BY <1>1, <1>2, <1>3, <4>2
        <5>2. Adds(b)' = Adds(b) /\ Names(Adds(b), work[b].path)
          BY <3>1, <5>1 DEF Adds, Brings, Sources, HeldSources
        <5> QED
          BY <1>2, <5>1, <5>2 DEF Names
      <4> QED
        BY <4>1, <4>2
    <3>2. visit.pc = "touching" => Names(visit.meta, visit.path)'
      BY <1>2 DEF Sources, HeldSources, Names
    <3> QED
      BY <1>2, <3>1, <3>2 DEF HeldSources
  <2>5. \A e \in Events :
            (at'[e] = "writing" <=> at[e] = "writing")
            /\ (at[e] = "writing" => work'[e].path = work[e].path)
    BY <1>1, <1>2, <1>3
  <2>6. VisitsApart'
    BY <1>2, <2>5 DEF Sources, VisitsApart
  <2>7. at'[Compiler] # "aside" /\ (TurnUnderWay' => TurnUnderWay)
    BY <1>1, <1>2, <2>1 DEF TurnUnderWay
  <2>8. CopyHasSources' /\ AsideIsQuiet'
    BY <1>2, <2>7 DEF Sources, CopyHasSources, AsideIsQuiet, Names
  <2>9. SourcesAreKept'
    BY <1>2, <2>1, <2>5 DEF Sources, SourcesAreKept
  <2> QED
    BY <2>4, <2>6, <2>8, <2>9 DEF Sources
<1> QED
  BY <1>5, <1>6

LEMMA WritingKeepsSources ==
    ASSUME Base, Sources, NEW a \in Agents, NEW p \in Pages, WriteWikiPage(a, p)
    PROVE  Sources'
<1> USE AgentsAreDistinct
<1>1. /\ at \in [Agents -> Pcs] /\ work \in [Agents -> Works]
      /\ sidecar \in [Pages -> SUBSET Events] /\ wrote \in [Events -> SUBSET Pages]
  BY DEF Base, Shapes
<1>2. /\ at[a] = "agent" /\ pageLock[p] = Free
      /\ at' = [at EXCEPT ![a] = "writing"]
      /\ UNCHANGED <<sidecar, staged, visit>>
      /\ wrote' = [e \in Events |-> (wrote[e] \union {q \in {p} : e = a}) \ Disturbed(p)]
  BY DEF WriteWikiPage, MayLock
<1>3. /\ work'[a].path = p /\ work'[a].meta = sidecar[p]
      /\ \A b \in Agents : b # a => work'[b] = work[b]
  BY <1>1 DEF WriteWikiPage, Works
<1>4. CASE TurnUnderWay
  <2>1. Forgotten'
    BY <1>1, <1>2, <1>4 DEF Forgotten, Disturbed
  <2> QED
    BY <2>1, ForgottenIsSafe
<1>5. CASE ~TurnUnderWay
  <2>1. \A b \in Agents : at[b] \in {"reading", "writing"} => b # a /\ work[b].path # p
    BY <1>2 DEF Base, PageLocks
  <2>2. visit # NoVisit /\ visit.path = p => \A e \in Events : p \notin wrote'[e]
    <3>1. visit # NoVisit /\ visit.path = p => visit.by = Stranger
      BY <1>2 DEF Base, Shapes, Visitings, PageLocks
    <3> QED
      BY <1>2, <1>5, <3>1 DEF Disturbed
  <2>3. \A e \in Events, q \in Pages :
            q \in wrote'[e] => q \in wrote[e] \/ (e = a /\ q = p)
    BY <1>2
  <2>4. Names(sidecar[p], p)
    BY <1>5, <2>1 DEF Sources, SourcesAreKept, Names, TurnUnderWay
  <2>5. HeldSources'
    <3>1. ASSUME NEW b \in Agents, at'[b] \in {"reading", "writing"}
          PROVE  Names(Adds(b), work[b].path)'
      <4>1. CASE b = a
        <5>1. Adds(a)' = sidecar[p] \union Brings(a)
          BY <1>1, <1>2, <1>3 DEF Adds, Brings
        <5> QED
          BY <1>2, <1>3, <2>3, <2>4, <4>1, <5>1 DEF Names, Brings
      <4>2. CASE b # a
        <5>1. at'[b] = at[b] /\ work'[b] = work[b]
          BY <1>1, <1>2, <1>3, <4>2
        <5>2. Adds(b)' = Adds(b) /\ Names(Adds(b), work[b].path) /\ work[b].path # p
          BY <2>1, <3>1, <5>1 DEF Adds, Brings, Sources, HeldSources
        <5>3. work[b].path \in Pages
          BY <3>1, <5>1 DEF Base, PageLocks
        <5> QED
          BY <2>3, <5>1, <5>2, <5>3 DEF Names
      <4> QED
        BY <4>1, <4>2
    <3>2. visit.pc = "touching" => Names(visit.meta, visit.path)'
      <4>1. visit.pc = "touching" => visit # NoVisit /\ visit.path \in Pages
        BY DEF NoVisit, Base, Shapes, Visitings
      <4> QED
        BY <1>2, <2>2, <2>3, <4>1 DEF Sources, HeldSources, Names
    <3> QED
      BY <1>2, <3>1, <3>2 DEF HeldSources
  <2>6. VisitsApart'
    <3>1. ASSUME visit # NoVisit, NEW e \in Events, at'[e] = "writing",
                 work'[e].path = visit.path, NEW f \in Events
          PROVE  visit.path \notin wrote'[f]
      <4>1. CASE visit.path = p
        BY <2>2, <3>1, <4>1
      <4>2. CASE visit.path # p
        <5>1. at[e] = "writing" /\ work[e].path = visit.path /\ visit.path \in Pages
          BY <1>1, <1>2, <1>3, <3>1, <4>2 DEF Base, Shapes, Visitings
        <5> QED
          BY <2>3, <3>1, <4>2, <5>1 DEF Sources, VisitsApart
      <4> QED
        BY <4>1, <4>2
    <3> QED
      BY <1>2, <3>1 DEF VisitsApart
  <2>7. CopyHasSources' /\ AsideIsQuiet'
    BY <1>1, <1>2, <1>5 DEF CopyHasSources, AsideIsQuiet, TurnUnderWay
  <2>8. SourcesAreKept'
    <3>1. ASSUME NEW e \in Events, NEW q \in Pages, q \in wrote'[e]
          PROVE  e \in sidecar[q] \/ (at'[e] = "writing" /\ work'[e].path = q)
      <4>1. CASE e = a /\ q = p
        BY <1>1, <1>2, <1>3, <4>1
      <4>2. CASE q \in wrote[e]
        <5>1. e \in sidecar[q] \/ (at[e] = "writing" /\ work[e].path = q)
          BY <1>5, <4>2 DEF Sources, SourcesAreKept, TurnUnderWay
        <5> QED
          BY <1>1, <1>2, <1>3, <5>1
      <4> QED
        BY <2>3, <3>1, <4>1, <4>2
    <3>2. \A e \in Events : wrote'[e] \subseteq Pages
      BY <1>1, <1>2
    <3> QED
      BY <1>2, <3>1, <3>2 DEF SourcesAreKept
  <2> QED
    BY <2>5, <2>6, <2>7, <2>8 DEF Sources
<1> QED
  BY <1>4, <1>5

\* A sidecar is written by one who has in hand what it must name.
LEMMA SavingKeepsSources ==
    ASSUME Base, Sources, NEW p \in Pages, NEW m \in SUBSET Events, Saved(p, m), Names(m, p),
           StoreBusy,
           UNCHANGED staged, visit' \in {visit, NoVisit},
           at'[Compiler] \in {"copied", "aside"} => at'[Compiler] = at[Compiler],
           at[Compiler] = "aside" => at'[Compiler] = "aside",
           \A a \in Agents : at'[a] \in {"reading", "writing"} =>
               at'[a] = at[a] /\ work'[a] = work[a],
           \A e \in Events : at[e] = "writing" /\ at'[e] # "writing" => work[e].path = p
    PROVE  Sources'
<1> USE AgentsAreDistinct
<1>1. \A e \in Events : wrote'[e] \subseteq wrote[e]
  BY DEF Saved, Forget
<1>2. CASE Forgotten
  <2>1. Forgotten'
    BY <1>1, <1>2 DEF Forgotten
  <2> QED
    BY <2>1, ForgottenIsSafe
<1>3. CASE ~Forgotten
  <2>1. at[Compiler] # "aside" /\ at'[Compiler] # "aside"
    BY <1>3 DEF Sources, AsideIsQuiet
  <2>2. ASSUME NEW a \in Agents, at'[a] \in {"reading", "writing"}
        PROVE  Names(Adds(a), work[a].path)'
    <3>1. Adds(a)' = Adds(a) /\ work'[a] = work[a] /\ at[a] \in {"reading", "writing"}
      BY <2>2 DEF Adds, Brings
    <3>2. Names(Adds(a), work[a].path)
      BY <3>1 DEF Sources, HeldSources
    <3> QED
      BY <1>1, <3>1, <3>2 DEF Names
  <2>3. visit'.pc = "touching" => Names(visit.meta, visit.path)'
    <3>1. visit'.pc = "touching" => visit' = visit
      BY DEF NoVisit
    <3> QED
      BY <1>1, <3>1 DEF Sources, HeldSources, Names
  <2>4. HeldSources'
    BY <2>2, <2>3 DEF HeldSources
  <2>5. VisitsApart'
    BY <1>1 DEF Sources, VisitsApart
  <2>6. CopyHasSources' /\ AsideIsQuiet'
    BY <1>1, <2>1 DEF Sources, CopyHasSources, AsideIsQuiet, Names, TurnUnderWay
  <2>7. ASSUME NEW e \in Events, NEW q \in Pages, q \in wrote'[e]
        PROVE  e \in sidecar'[q] \/ (at'[e] = "writing" /\ work'[e].path = q)
    <3>1. e \in sidecar[q] \/ (at[e] = "writing" /\ work[e].path = q)
      BY <1>1, <2>1, <2>7 DEF Sources, SourcesAreKept
    <3>2. CASE q = p
      BY <1>1, <2>7, <3>2 DEF Saved, Names, Forget
    <3>3. CASE q # p
      BY <3>1, <3>3 DEF Saved
    <3> QED
      BY <3>2, <3>3
  <2>8. SourcesAreKept'
    <3>1. \A e \in Events : wrote'[e] \subseteq Pages
      BY DEF Saved
    <3> QED
      BY <2>7, <3>1 DEF SourcesAreKept
  <2> QED
    BY <2>4, <2>5, <2>6, <2>8 DEF Sources
<1> QED
  BY <1>2, <1>3

\* The end of a call.
LEMMA UnlockKeepsSources ==
    ASSUME Base, Sources, NEW a \in Agents, at[a] \in {"reading", "writing"}, Unlock(a),
           SaveSidecar(work[a].path, Adds(a)), UNCHANGED <<staged, visit>>
    PROVE  Sources'
<1> USE AgentsAreDistinct
<1> DEFINE p == work[a].path
<1>1. at \in [Agents -> Pcs] /\ work \in [Agents -> Works] /\ p \in Pages
  BY DEF Base, Shapes, PageLocks
<1>2. Adds(a) \in SUBSET Events
  BY <1>1 DEF Adds, Brings, Works
<1>3. Names(Adds(a), p)
  BY DEF Sources, HeldSources
<1>4. Saved(p, Adds(a))
  BY <1>1, <1>2, SaveSidecarSaves DEF Base
<1>5. /\ at' = [at EXCEPT ![a] = "agent"]
      /\ \A b \in Agents : b # a => work'[b] = work[b]
  BY <1>1 DEF Unlock
<1>6. StoreBusy
  BY DEF StoreBusy
<1>7. /\ at'[Compiler] \in {"copied", "aside"} => at'[Compiler] = at[Compiler]
      /\ at[Compiler] = "aside" => at'[Compiler] = "aside"
      /\ \A b \in Agents : at'[b] \in {"reading", "writing"} =>
             at'[b] = at[b] /\ work'[b] = work[b]
      /\ \A e \in Events : at[e] = "writing" /\ at'[e] # "writing" => work[e].path = p
  BY <1>1, <1>5
<1> HIDE DEF p
<1> QED
  BY <1>1, <1>2, <1>3, <1>4, <1>6, <1>7, SavingKeepsSources

LEMMA VisitsKeepSources ==
    ASSUME Base, Sources, Visits
    PROVE  Sources'
<1> USE AgentsAreDistinct
<1>1. ASSUME NEW by \in {Recaller, Stranger}, NEW p \in Pages, VisitPage(by, p)
      PROVE  Sources'
  <2>1. /\ p \in pages /\ visit' = [pc |-> "reading", by |-> by, path |-> p, meta |-> {}]
        /\ UNCHANGED <<at, work, sidecar, staged, present>>
    BY <1>1 DEF VisitPage, wiki
  <2>2. \A e \in Events : wrote'[e] \subseteq wrote[e]
    BY <1>1 DEF VisitPage, Forget, history
  <2>3. CASE Forgotten
    <3>1. Forgotten'
      BY <2>2, <2>3 DEF Forgotten
    <3> QED
      BY <3>1, ForgottenIsSafe
  <2>4. CASE ~Forgotten
    <3>1. at[Compiler] # "aside"
      BY <2>1, <2>4 DEF Base, Presence, Sources, AsideIsQuiet
    <3>2. ASSUME NEW a \in Agents, at[a] \in {"reading", "writing"}
          PROVE  Names(Adds(a), work[a].path)'
      <4>1. Adds(a)' = Adds(a) /\ Names(Adds(a), work[a].path)
        BY <2>1, <3>2 DEF Adds, Brings, Sources, HeldSources
      <4> QED
        BY <2>1, <2>2, <4>1 DEF Names
    <3>3. HeldSources'
      BY <2>1, <3>2 DEF HeldSources
    <3>4. VisitsApart'
      <4>1. ASSUME NEW e \in Events, at[e] = "writing", work[e].path = p, NEW f \in Events
            PROVE  p \notin wrote'[f]
        <5>1. pageLock[p] # Free
          BY <4>1 DEF Base, PageLocks
        <5>2. p \in HalfWritten(p)
          BY <4>1 DEF HalfWritten
        <5>3. Forget(HalfWritten(p))
          BY <1>1, <5>1 DEF VisitPage, MayLock
        <5> QED
          BY <5>2, <5>3 DEF Forget
      <4> QED
        BY <2>1, <4>1 DEF VisitsApart
    <3>5. CopyHasSources' /\ AsideIsQuiet'
      BY <2>1, <2>2, <3>1 DEF Sources, CopyHasSources, AsideIsQuiet, TurnUnderWay, Names
    <3>6. SourcesAreKept'
      BY <2>1, <2>2, <3>1 DEF Sources, SourcesAreKept
    <3> QED
      BY <3>3, <3>4, <3>5, <3>6 DEF Sources
  <2> QED
    BY <2>3, <2>4
<1>2. CASE VisitSidecar
  <2>1. /\ visit # NoVisit /\ visit \in Visitings
        /\ visit' = [visit EXCEPT !.pc = "touching", !.meta = sidecar[visit.path]]
        /\ UNCHANGED <<at, work, sidecar, staged, present, wrote>>
    BY <1>2 DEF VisitSidecar, NoVisit, Base, Shapes, wiki, history
  <2>2. visit'.path = visit.path /\ visit'.meta = sidecar[visit.path]
    BY <2>1 DEF Visitings
  <2>3. CASE Forgotten
    BY <2>1, <2>3, ForgottenIsSafe DEF Forgotten
  <2>4. CASE ~Forgotten
    <3>1. at[Compiler] # "aside"
      BY <2>1, <2>4 DEF Sources, AsideIsQuiet, StoreBusy
    <3>2. Names(sidecar[visit.path], visit.path)
      BY <2>1, <3>1 DEF Sources, SourcesAreKept, VisitsApart, Names
    <3>3. ASSUME NEW a \in Agents, at[a] \in {"reading", "writing"}
          PROVE  Names(Adds(a), work[a].path)'
      <4>1. Adds(a)' = Adds(a) /\ Names(Adds(a), work[a].path)
        BY <2>1, <3>3 DEF Adds, Brings, Sources, HeldSources
      <4> QED
        BY <2>1, <4>1 DEF Names
    <3>4. HeldSources'
      BY <2>1, <2>2, <3>2, <3>3 DEF HeldSources, Names
    <3>5. VisitsApart'
      BY <2>1, <2>2 DEF Sources, VisitsApart
    <3>6. CopyHasSources' /\ AsideIsQuiet' /\ SourcesAreKept'
      BY <2>1, <3>1 DEF Sources, CopyHasSources, AsideIsQuiet, SourcesAreKept, TurnUnderWay,
                        Names
    <3> QED
      BY <3>4, <3>5, <3>6 DEF Sources
  <2> QED
    BY <2>3, <2>4
<1>3. CASE EndVisit
  <2>1. /\ visit # NoVisit /\ visit.path \in Pages /\ visit.meta \in SUBSET Events
        /\ Names(visit.meta, visit.path)
    BY <1>3 DEF EndVisit, NoVisit, Base, Shapes, Visitings, Sources, HeldSources
  <2>2. Saved(visit.path, visit.meta)
    BY <1>3, <2>1, SaveSidecarSaves DEF EndVisit, Base
  <2>3. StoreBusy /\ visit' = NoVisit /\ UNCHANGED <<at, work, staged>>
    BY <1>3, <2>1 DEF EndVisit, StoreBusy
  <2> QED
    BY <2>1, <2>2, <2>3, SavingKeepsSources
<1> QED
  BY <1>1, <1>2, <1>3 DEF Visits

LEMMA StoringKeepsSources ==
    ASSUME Base, Sources, NEW a \in Agents, Storing(a)
    PROVE  Sources'
<1> USE AgentsAreDistinct
<1>0. at \in [Agents -> Pcs] /\ work \in [Agents -> Works]
  BY DEF Base, Shapes
<1>1. CASE TouchSidecar(a)
  <2>1. Adds(a) = work[a].meta
    BY <1>1 DEF TouchSidecar, Adds
  <2> QED
    BY <1>1, <2>1, UnlockKeepsSources DEF TouchSidecar
<1>2. CASE WriteSidecar(a)
  <2>1. Adds(a) = work[a].meta \union Brings(a)
    BY <1>2 DEF WriteSidecar, Adds
  <2> QED
    BY <1>2, <2>1, UnlockKeepsSources DEF WriteSidecar
<1>3. ASSUME NEW p \in Pages, WritePageFails(a, p)
      PROVE  Sources'
  <2>1. /\ UNCHANGED <<at, sidecar, staged, visit>>
        /\ Forget({p} \union Disturbed(p))
        /\ \A b \in Agents : work'[b].path = work[b].path /\ work'[b].meta = work[b].meta
    BY <1>0, <1>3 DEF WritePageFails, Works
  <2>2. \A e \in Events : wrote'[e] \subseteq wrote[e]
    BY <2>1 DEF Forget
  <2>3. TurnUnderWay => Forgotten'
    BY <2>1 DEF Forget, Disturbed, Forgotten, Base, Shapes
  <2> QED
    BY <2>1, <2>2, <2>3, StillSources
<1>4. CASE WriteIndexPage(a)
  <2>1. UNCHANGED <<at, work, sidecar, staged, visit>>
    BY <1>4 DEF WriteIndexPage
  <2>2. \A e \in Events : wrote'[e] \subseteq wrote[e]
    BY <1>4 DEF WriteIndexPage
  <2>3. TurnUnderWay => Forgotten'
    BY <1>4 DEF WriteIndexPage, Forgotten
  <2> QED
    BY <2>1, <2>2, <2>3, StillSources
<1>5. CASE CollectPages(a)
  <2>1. /\ UNCHANGED <<work, sidecar, present, staged, visit, wrote>>
        /\ at[a] = "scan" /\ at' = [at EXCEPT ![a] = "index"]
    BY <1>5 DEF CollectPages, wiki
  <2> QED
    BY <1>0, <2>1, StillSources
<1>6. CASE WriteIndex(a)
  <2>1. /\ UNCHANGED <<work, sidecar, present, staged, visit, wrote>>
        /\ at[a] = "index" /\ \E to \in {"agent", "done"} : at' = [at EXCEPT ![a] = to]
    BY <1>6 DEF WriteIndex, Return, wiki
  <2> QED
    BY <1>0, <2>1, StillSources
<1> QED
  BY <1>1, <1>2, <1>3, <1>4, <1>5, <1>6, ReadingKeepsSources, WritingKeepsSources
     DEF Storing, ReadTools, WriteTools

LEMMA PassingKeepsSources ==
    ASSUME Base, Counted, Sources, NEW e \in Events, Passing(e)
    PROVE  Sources'
<1> USE AgentsAreDistinct
<1>1. at \in [Agents -> Pcs]
  BY DEF Base, Shapes
<1>2. UNCHANGED <<work, sidecar, present, staged, visit, wrote>>
  BY DEF Passing, AppendEvent, Announce, AcquireSlot, AgentEnds, AgentFails, wiki, history
<1>3. \E to \in {"logged", "queued", "agent", "scan", "done"} : at' = [at EXCEPT ![e] = to]
  BY DEF Passing, AppendEvent, Announce, AcquireSlot, AgentEnds, AgentFails, Return
<1>4. at[e] \notin {"reading", "writing"}
  <2>1. CASE AppendEvent(e)
    BY <2>1, NewEventIsNew
  <2> QED
    BY <2>1 DEF Passing, Announce, AcquireSlot, AgentEnds, AgentFails
<1> QED
  BY <1>1, <1>2, <1>3, <1>4, StillSources

LEMMA CyclingKeepsSources ==
    ASSUME Base, Sources, Cycling
    PROVE  Sources'
<1> USE AgentsAreDistinct
<1>0. /\ at \in [Agents -> Pcs] /\ sidecar \in [Pages -> SUBSET Events]
      /\ wrote \in [Events -> SUBSET Pages]
  BY DEF Base, Shapes
<1>1. CASE StartLlmCompile \/ CompilerRebuilds \/ CompilerEnds \/ TurnFails
  <2>1. /\ UNCHANGED <<work, sidecar, present, visit, wrote>>
        /\ staged' = staged \/ at'[Compiler] = "done"
        /\ at[Compiler] \in {"none", "agent", "copied"}
        /\ \E to \in {"agent", "scan", "done"} : at' = [at EXCEPT ![Compiler] = to]
    BY <1>0, <1>1 DEF StartLlmCompile, CompilerRebuilds, CompilerEnds, TurnFails, wiki, history
  <2> QED
    BY <1>0, <2>1, StillSources
<1>2. ASSUME NEW p \in Pages, ArchiveWikiPage(p)
      PROVE  Sources'
  <2>1. /\ UNCHANGED <<at, work, present, staged, visit>>
        /\ at[Compiler] = "agent"
        /\ \A q \in Pages : q # p => sidecar'[q] = sidecar[q]
        /\ \A e \in Events : wrote'[e] = wrote[e] \ {p}
    BY <1>0, <1>2 DEF ArchiveWikiPage, Forget
  <2>2. ASSUME NEW a \in Agents, at[a] \in {"reading", "writing"}
        PROVE  Names(Adds(a), work[a].path)'
    <3>1. Adds(a)' = Adds(a) /\ Names(Adds(a), work[a].path)
      BY <2>1, <2>2 DEF Adds, Brings, Sources, HeldSources
    <3> QED
      BY <2>1, <3>1 DEF Names
  <2>3. HeldSources'
    BY <2>1, <2>2 DEF Sources, HeldSources, Names
  <2>4. VisitsApart'
    BY <2>1 DEF Sources, VisitsApart
  <2>5. CopyHasSources' /\ AsideIsQuiet'
    BY <2>1 DEF CopyHasSources, AsideIsQuiet, TurnUnderWay
  <2>6. SourcesAreKept'
    BY <1>0, <2>1 DEF Sources, SourcesAreKept
  <2> QED
    BY <2>3, <2>4, <2>5, <2>6 DEF Sources
<1>3. CASE StartAcpCompile
  <2>1. /\ UNCHANGED <<work, sidecar, present, visit>>
        /\ at[Compiler] = "none" /\ at' = [at EXCEPT ![Compiler] = "copied"]
        /\ staged' = <<pages, sidecar>>
        /\ Forget(IF StoreBusy THEN Pages ELSE {})
    BY <1>3 DEF StartAcpCompile, wiki
  <2>2. CASE StoreBusy
    <3>1. Forgotten'
      BY <1>0, <2>1, <2>2 DEF Forget, Forgotten
    <3> QED
      BY <3>1, ForgottenIsSafe
  <2>3. CASE ~StoreBusy
    <3>1. \A e \in Events : wrote'[e] = wrote[e]
      BY <1>0, <2>1, <2>3 DEF Forget
    <3>2. visit = NoVisit /\ \A a \in Agents : at[a] \notin {"reading", "writing"}
      BY <2>3 DEF StoreBusy
    <3>3. \A p \in Pages : Names(sidecar[p], p)
      BY <2>1, <3>2 DEF Sources, SourcesAreKept, Names
    <3>4. HeldSources' /\ VisitsApart'
      BY <1>0, <2>1, <3>2 DEF HeldSources, VisitsApart, NoVisit
    <3>5. CopyHasSources' /\ AsideIsQuiet'
      BY <1>0, <2>1, <3>1, <3>3 DEF CopyHasSources, AsideIsQuiet, Names
    <3>6. SourcesAreKept'
      BY <2>1, <3>1, <3>2 DEF Sources, SourcesAreKept
    <3> QED
      BY <3>4, <3>5, <3>6 DEF Sources
  <2> QED
    BY <2>2, <2>3
<1>4. ASSUME NEW p \in Pages, EditStaging(p)
      PROVE  Sources'
  <2>1. /\ UNCHANGED <<at, work, sidecar, present, visit>>
        /\ at[Compiler] = "copied"
    BY <1>4 DEF EditStaging, wiki
  <2>2. \A e \in Events : wrote'[e] \subseteq wrote[e]
    BY <1>4 DEF EditStaging, Forget, history
  <2>3. \A q \in Pages : Names(staged[2][q], q)'
    <3>1. \A q \in Pages : Names(staged[2][q], q)
      BY <2>1 DEF Sources, CopyHasSources, TurnUnderWay
    <3>2. CASE staged' = [staged EXCEPT ![1] = @ \union {p}]
      <4>1. staged'[2] = staged[2]
        BY <3>2
      <4> QED
        BY <2>2, <3>1, <4>1 DEF Names
    <3>3. CASE staged' = [staged EXCEPT ![1] = @ \union {p}, ![2][p] = {}] /\ Forget({p})
      <4>1. staged'[2] = [staged[2] EXCEPT ![p] = {}]
        BY <2>1, <3>3 DEF Base, CopyShape, TurnUnderWay
      <4>2. \A q \in Pages : q # p => staged'[2][q] = staged[2][q]
        BY <2>1, <4>1 DEF Base, CopyShape, TurnUnderWay
      <4>3. \A e \in Events : p \notin wrote'[e]
        BY <3>3 DEF Forget
      <4> QED
        BY <2>2, <3>1, <4>2, <4>3 DEF Names
    <3> QED
      BY <1>4, <3>2, <3>3 DEF EditStaging
  <2>4. ASSUME NEW a \in Agents, at[a] \in {"reading", "writing"}
        PROVE  Names(Adds(a), work[a].path)'
    <3>1. Adds(a)' = Adds(a) /\ Names(Adds(a), work[a].path)
      BY <2>1, <2>4 DEF Adds, Brings, Sources, HeldSources
    <3> QED
      BY <2>1, <2>2, <3>1 DEF Names
  <2>5. HeldSources'
    BY <2>1, <2>2, <2>4 DEF Sources, HeldSources, Names
  <2>6. VisitsApart' /\ SourcesAreKept'
    BY <2>1, <2>2 DEF Sources, VisitsApart, SourcesAreKept
  <2>7. CopyHasSources' /\ AsideIsQuiet'
    BY <2>1, <2>3 DEF CopyHasSources, AsideIsQuiet
  <2> QED
    BY <2>5, <2>6, <2>7 DEF Sources
<1>5. CASE SetAside
  <2>1. /\ UNCHANGED <<work, staged, visit>>
        /\ present' = FALSE
        /\ at[Compiler] = "copied" /\ at' = [at EXCEPT ![Compiler] = "aside"]
        /\ Forget(IF StoreBusy THEN Pages ELSE {})
    BY <1>5 DEF SetAside
  <2>2. CASE StoreBusy
    <3>1. Forgotten'
      BY <1>0, <2>1, <2>2 DEF Forget, Forgotten
    <3> QED
      BY <3>1, ForgottenIsSafe
  <2>3. CASE ~StoreBusy
    <3>1. \A e \in Events : wrote'[e] = wrote[e]
      BY <1>0, <2>1, <2>3 DEF Forget
    <3>2. visit' = NoVisit /\ \A a \in Agents : at'[a] \notin {"reading", "writing"}
      BY <1>0, <2>1, <2>3 DEF StoreBusy
    <3>3. HeldSources' /\ VisitsApart'
      BY <3>2 DEF HeldSources, VisitsApart, NoVisit
    <3>4. AsideIsQuiet' /\ SourcesAreKept'
      BY <1>0, <2>1, <3>2 DEF AsideIsQuiet, StoreBusy, SourcesAreKept
    <3>5. CopyHasSources'
      BY <2>1, <3>1 DEF Sources, CopyHasSources, Names, TurnUnderWay
    <3> QED
      BY <3>3, <3>4, <3>5 DEF Sources
  <2> QED
    BY <2>2, <2>3
<1>6. CASE SwapIn
  <2>1. /\ at[Compiler] = "aside" /\ at' = [at EXCEPT ![Compiler] = "done"]
        /\ UNCHANGED <<work, visit, wrote>>
    BY <1>6 DEF SwapIn
  <2>2. CASE Forgotten
    BY <2>1, <2>2, ForgottenIsSafe DEF Forgotten
  <2>3. CASE ~Forgotten
    <3>1. ~present /\ ~StoreBusy
      BY <2>1, <2>3 DEF Sources, AsideIsQuiet
    <3>2. sidecar' = staged[2]
      BY <1>6, <3>1 DEF SwapIn
    <3>3. visit' = NoVisit /\ \A a \in Agents : at'[a] \notin {"reading", "writing"}
      BY <1>0, <2>1, <3>1 DEF StoreBusy
    <3>4. HeldSources' /\ VisitsApart'
      BY <3>3 DEF HeldSources, VisitsApart, NoVisit
    <3>5. CopyHasSources' /\ AsideIsQuiet'
      BY <1>0, <2>1 DEF CopyHasSources, AsideIsQuiet, TurnUnderWay
    <3>6. SourcesAreKept'
      BY <1>0, <2>1, <3>2 DEF Sources, CopyHasSources, SourcesAreKept, Names, TurnUnderWay
    <3> QED
      BY <3>4, <3>5, <3>6 DEF Sources
  <2> QED
    BY <2>2, <2>3
<1> QED
  BY <1>1, <1>2, <1>3, <1>4, <1>5, <1>6 DEF Cycling

LEMMA NextKeepsSources ==
    ASSUME Base, Counted, Sources, [Next]_vars
    PROVE  Sources'
<1>1. CASE RecallSteps \/ UNCHANGED vars
  <2>1. UNCHANGED <<at, work, sidecar, present, staged, visit, wrote>>
    BY <1>1 DEF RecallSteps, StartRecall, EndRecall, vars, wiki, history
  <2> QED
    BY <2>1, StillSources
<1> QED
  BY <1>1, StepsByKind, PassingKeepsSources, StoringKeepsSources, CyclingKeepsSources,
     VisitsKeepSources

\* The sidecar of a page names every event whose agent wrote the page (unless the page
\* was archived since, or disturbed), whoever rewrites sidecars meanwhile: the reads
\* and writes of integrations, of recalls, of a compile agent, of another process, and
\* the merge of an ACP compile turn.
THEOREM SourcesAreNeverLost == Spec => []SourcesAreKept
<1>1. Sources => SourcesAreKept
  BY DEF Sources
<1> QED
  BY <1>1, InitSources, NextKeepsSources, BaseHolds, PTL DEF Spec

-----------------------------------------------------------------------------
(* The index.                                                              *)

\* The index is locked by exactly the agent that rebuilds it.
IndexLocked ==
    \A a \in Agents : at[a] = "index" <=> indexLock = a

\* Where an event's agent has its rebuild still to come.
BeforeRebuild == {"agent", "reading", "writing", "scan"}

\* An agent that made the page has its rebuild still to come.
Coming(p) == \E e \in Events : p \in wrote[e] /\ at[e] \in BeforeRebuild

\* What the index lists, or is about to list, is what there is, but for pages that
\* are still to come.
ListsAll(listed) ==
    \A p \in Pages \ stale : (p \in listed <=> p \in pages) \/ Coming(p)

Listed ==
    at[Compiler] # "aside" =>
        /\ indexLock = Free => ListsAll(index)
        /\ indexLock # Free => ListsAll(snapshot)

Indexed == IndexLocked /\ Listed

LEMMA InitIndexed == Init => Indexed
<1> SUFFICES ASSUME Init PROVE Indexed
  OBVIOUS
<1>1. \A a \in Agents : at[a] = "none"
  BY DEF Init
<1>2. indexLock = Free /\ index = pages
  BY DEF Init
<1> QED
  BY <1>1, <1>2, AgentsAreDistinct DEF Indexed, IndexLocked, Listed, ListsAll

\* A page that its agent is not known to have written any more is stale.
Retained ==
    /\ stale \subseteq stale'
    /\ \A e \in Events : \A p \in Pages \ stale' : p \in wrote[e] => p \in wrote'[e]

LEMMA ForgettingRetains ==
    ASSUME NEW ps, Forget(ps)
    PROVE  Retained
BY DEF Forget, Retained

LEMMA HistoryRetains ==
    ASSUME UNCHANGED history
    PROVE  Retained
BY DEF history, Retained

\* A step that moves nobody to or from a rebuild, and after which every page that came
\* or went is stale or has its rebuild to come, changes nothing here.
LEMMA StillIndexed ==
    ASSUME Base, Indexed, Retained,
           UNCHANGED <<indexLock, index, snapshot>>,
           at[Compiler] = "aside" => at'[Compiler] = "aside",
           \A a \in Agents : at'[a] = "index" <=> at[a] = "index",
           \A e \in Events : at[e] \in BeforeRebuild =>
               at'[e] \in BeforeRebuild \/ wrote[e] \subseteq stale',
           \A p \in Pages \ stale' : (p \in pages' <=> p \in pages) \/ Coming(p)'
    PROVE  Indexed'
<1>1. IndexLocked'
  BY DEF Indexed, IndexLocked
<1>2. ASSUME NEW p \in Pages \ stale', Coming(p)
      PROVE  Coming(p)'
  BY <1>2 DEF Coming, Retained
<1>3. ASSUME NEW listed, ListsAll(listed)
      PROVE  \A p \in Pages \ stale' : (p \in listed <=> p \in pages') \/ Coming(p)'
  BY <1>2, <1>3 DEF ListsAll, Retained
<1>4. ASSUME at'[Compiler] # "aside" PROVE Listed'
  <2>1. CASE indexLock = Free
    <3>1. ListsAll(index)
      BY <1>4, <2>1 DEF Indexed, Listed
    <3>2. ListsAll(index)'
      BY <1>3, <3>1 DEF ListsAll
    <3> QED
      BY <2>1, <3>2 DEF Listed
  <2>2. CASE indexLock # Free
    <3>1. ListsAll(snapshot)
      BY <1>4, <2>2 DEF Indexed, Listed
    <3>2. ListsAll(snapshot)'
      BY <1>3, <3>1 DEF ListsAll
    <3> QED
      BY <2>2, <3>2 DEF Listed
  <2> QED
    BY <2>1, <2>2
<1> QED
  BY <1>1, <1>4 DEF Indexed, Listed

LEMMA PassingKeepsIndexed ==
    ASSUME Base, Counted, Indexed, NEW e \in Events, Passing(e)
    PROVE  Indexed'
<1> USE AgentsAreDistinct
<1>1. at \in [Agents -> Pcs] /\ wrote \in [Events -> SUBSET Pages]
  BY DEF Base, Shapes
<1>2. UNCHANGED <<pages, indexLock, index, snapshot, wrote>>
  BY DEF Passing, AppendEvent, Announce, AcquireSlot, AgentEnds, AgentFails, wiki, indexing,
         history
<1>3. CASE AppendEvent(e)
  <2>1. at' = [at EXCEPT ![e] = "logged"] /\ at[e] = "none" /\ stale' = stale
    BY <1>3, NewEventIsNew DEF AppendEvent, history
  <2> QED
    BY <1>1, <1>2, <2>1, StillIndexed DEF Retained, BeforeRebuild
<1>4. CASE Announce(e) \/ AcquireSlot(e) \/ AgentEnds(e)
  <2>1. /\ at[e] \in {"logged", "queued", "agent"} /\ stale' = stale
        /\ at' = [at EXCEPT ![e] = IF at[e] = "logged" THEN "queued"
                                   ELSE IF at[e] = "queued" THEN "agent" ELSE "scan"]
    BY <1>4 DEF Announce, AcquireSlot, AgentEnds, history
  <2> QED
    BY <1>1, <1>2, <2>1, StillIndexed DEF Retained, BeforeRebuild
<1>5. CASE AgentFails(e)
  <2>1. /\ at' = [at EXCEPT ![e] = "done"] /\ at[e] = "agent"
        /\ stale' = stale \union wrote[e]
    BY <1>5 DEF AgentFails, Return
  <2> QED
    BY <1>1, <1>2, <2>1, StillIndexed DEF Retained, BeforeRebuild
<1> QED
  BY <1>3, <1>4, <1>5 DEF Passing

LEMMA ToolsKeepIndexed ==
    ASSUME Base, Indexed, NEW a \in Agents, ReadTools(a) \/ WriteTools(a)
    PROVE  Indexed'
<1> USE AgentsAreDistinct
<1>1. at \in [Agents -> Pcs] /\ wrote \in [Events -> SUBSET Pages]
  BY DEF Base, Shapes
<1>2. ASSUME NEW p \in Pages, ReadWikiPage(a, p)
      PROVE  Indexed'
  <2>1. /\ at' = [at EXCEPT ![a] = "reading"] /\ at[a] = "agent"
        /\ UNCHANGED <<pages, indexLock, index, snapshot>> /\ Retained
    BY <1>2, HistoryRetains DEF ReadWikiPage, wiki, indexing
  <2> QED
    BY <1>1, <2>1, StillIndexed DEF BeforeRebuild
<1>3. CASE TouchSidecar(a) \/ WriteSidecar(a)
  <2>1. /\ at' = [at EXCEPT ![a] = "agent"] /\ at[a] \in {"reading", "writing"}
        /\ UNCHANGED <<pages, indexLock, index, snapshot>>
    BY <1>3 DEF TouchSidecar, WriteSidecar, Unlock, indexing
  <2>2. Retained
    BY <1>3, ForgettingRetains, HistoryRetains DEF TouchSidecar, WriteSidecar, SaveSidecar
  <2> QED
    BY <1>1, <2>1, <2>2, StillIndexed DEF BeforeRebuild
<1>4. ASSUME NEW p \in Pages, WriteWikiPage(a, p)
      PROVE  Indexed'
  <2>1. /\ at' = [at EXCEPT ![a] = "writing"] /\ at[a] = "agent"
        /\ pages' = pages \union {p}
        /\ UNCHANGED <<indexLock, index, snapshot>>
        /\ wrote' = [e \in Events |-> (wrote[e] \union {q \in {p} : e = a}) \ Disturbed(p)]
        /\ stale' = stale \union Disturbed(p) \union {q \in {p} : a = Compiler}
    BY <1>4 DEF WriteWikiPage, indexing
  <2>2. Retained
    BY <2>1 DEF Retained
  <2>3. ASSUME p \notin stale' PROVE Coming(p)'
    <3>1. a \in Events /\ p \in wrote'[a]
      BY <2>1, <2>3
    <3>2. at'[a] = "writing"
      BY <1>1, <2>1
    <3> QED
      BY <3>1, <3>2 DEF Coming, BeforeRebuild
  <2> QED
    BY <1>1, <2>1, <2>2, <2>3, StillIndexed DEF BeforeRebuild
<1>5. ASSUME NEW p \in Pages, WritePageFails(a, p)
      PROVE  Indexed'
  <2>1. /\ UNCHANGED <<at, indexLock, index, snapshot>>
        /\ pages' \in {pages, pages \union {p}}
        /\ Forget({p} \union Disturbed(p))
    BY <1>5 DEF WritePageFails, indexing
  <2>2. Retained /\ p \in stale'
    BY <2>1, ForgettingRetains DEF Forget
  <2> QED
    BY <2>1, <2>2, StillIndexed
<1>6. CASE WriteIndexPage(a)
  <2>1. UNCHANGED <<at, indexLock>> /\ stale' = Pages
    BY <1>6 DEF WriteIndexPage
  <2> QED
    BY <2>1 DEF Indexed, IndexLocked, Listed, ListsAll
<1> QED
  BY <1>2, <1>3, <1>4, <1>5, <1>6 DEF ReadTools, WriteTools

LEMMA RebuildKeepsIndexed ==
    ASSUME Base, Indexed, NEW a \in Agents, CollectPages(a) \/ WriteIndex(a)
    PROVE  Indexed'
<1> USE AgentsAreDistinct
<1>1. at \in [Agents -> Pcs] /\ wrote \in [Events -> SUBSET Pages]
  BY DEF Base, Shapes
<1>2. CASE CollectPages(a)
  <2>1. /\ at' = [at EXCEPT ![a] = "index"] /\ at[a] = "scan"
        /\ indexLock = Free /\ indexLock' = a
        /\ snapshot' = pages /\ pages' = pages
    BY <1>2 DEF CollectPages, MayIndex, wiki
  <2>2. IndexLocked'
    BY <1>1, <2>1 DEF Indexed, IndexLocked
  <2>3. ListsAll(snapshot)'
    BY <2>1 DEF ListsAll
  <2> QED
    BY <2>1, <2>2, <2>3 DEF Indexed, Listed
<1>3. CASE WriteIndex(a)
  <2>1. /\ at[a] = "index" /\ indexLock = a /\ indexLock' = Free
        /\ \E to \in {"agent", "done"} : at' = [at EXCEPT ![a] = to]
        /\ pages' = pages /\ wrote' = wrote
    BY <1>3 DEF WriteIndex, Return, wiki, Indexed, IndexLocked
  <2>2. IndexLocked'
    BY <1>1, <2>1 DEF Indexed, IndexLocked
  <2>3. (index' = snapshot /\ stale' = stale) \/ stale' = Pages
    BY <1>3 DEF WriteIndex
  <2>4. at'[Compiler] = "aside" <=> at[Compiler] = "aside"
    BY <1>1, <2>1
  <2>5. \A p \in Pages : Coming(p) => Coming(p)'
    BY <1>1, <2>1 DEF Coming, BeforeRebuild
  <2>6. CASE stale' = Pages
    BY <2>1, <2>2, <2>6 DEF Indexed, Listed, ListsAll
  <2>7. CASE index' = snapshot /\ stale' = stale
    <3>1. ASSUME at[Compiler] # "aside"
          PROVE  ListsAll(index)'
      <4>1. ListsAll(snapshot)
        BY <2>1, <3>1 DEF Indexed, Listed
      <4> QED
        BY <2>1, <2>5, <2>7, <4>1 DEF ListsAll
    <3> QED
      BY <2>1, <2>2, <2>4, <3>1 DEF Indexed, Listed
  <2> QED
    BY <2>3, <2>6, <2>7
<1> QED
  BY <1>2, <1>3

LEMMA CyclingKeepsIndexed ==
    ASSUME Base, Indexed, Cycling
    PROVE  Indexed'
<1> USE AgentsAreDistinct
<1>1. at \in [Agents -> Pcs]
  BY DEF Base, Shapes
<1>2. ASSUME at'[Compiler] # "index", at[Compiler] \notin {"index", "aside"},
             \A e \in Events : at'[e] = at[e],
             UNCHANGED <<indexLock, index, snapshot>>, Retained,
             \A p \in Pages \ stale' : p \in pages' <=> p \in pages
      PROVE  Indexed'
  BY <1>2, StillIndexed
<1>3. CASE StartLlmCompile \/ CompilerRebuilds \/ CompilerEnds \/ TurnFails
  BY <1>1, <1>2, <1>3, HistoryRetains
     DEF StartLlmCompile, CompilerRebuilds, CompilerEnds, TurnFails, wiki, indexing
<1>4. CASE StartAcpCompile
  BY <1>1, <1>2, <1>4, ForgettingRetains DEF StartAcpCompile, wiki, indexing
<1>5. ASSUME NEW p \in Pages, EditStaging(p)
      PROVE  Indexed'
  BY <1>1, <1>2, <1>5, ForgettingRetains, HistoryRetains DEF EditStaging, wiki, indexing
<1>6. ASSUME NEW p \in Pages, ArchiveWikiPage(p)
      PROVE  Indexed'
  <2>1. /\ at' = at /\ at[Compiler] = "agent" /\ pages' = pages \ {p} /\ Forget({p})
        /\ UNCHANGED <<indexLock, index, snapshot>>
    BY <1>6 DEF ArchiveWikiPage, indexing
  <2>2. p \in stale'
    BY <2>1 DEF Forget
  <2> QED
    BY <1>2, <2>1, <2>2, ForgettingRetains
<1>7. CASE SetAside
  <2>1. /\ at' = [at EXCEPT ![Compiler] = "aside"] /\ at[Compiler] = "copied"
        /\ indexLock' = indexLock
    BY <1>7 DEF SetAside
  <2>2. IndexLocked'
    BY <1>1, <2>1 DEF Indexed, IndexLocked
  <2> QED
    BY <1>1, <2>1, <2>2 DEF Indexed, Listed
<1>8. CASE SwapIn
  <2>1. /\ at' = [at EXCEPT ![Compiler] = "done"] /\ at[Compiler] = "aside"
        /\ indexLock' = indexLock /\ stale' = Pages
    BY <1>8 DEF SwapIn
  <2>2. IndexLocked'
    BY <1>1, <2>1 DEF Indexed, IndexLocked
  <2> QED
    BY <2>1, <2>2 DEF Indexed, Listed, ListsAll
<1> QED
  BY <1>3, <1>4, <1>5, <1>6, <1>7, <1>8 DEF Cycling

LEMMA NextKeepsIndexed ==
    ASSUME Base, Counted, Indexed, [Next]_vars
    PROVE  Indexed'
<1>1. CASE RecallSteps \/ UNCHANGED vars \/ VisitSidecar
  <2>1. UNCHANGED <<at, pages, indexLock, index, snapshot>> /\ Retained
    BY <1>1, HistoryRetains DEF RecallSteps, StartRecall, EndRecall, vars, VisitSidecar, wiki,
                                indexing, history
  <2> QED
    BY <2>1, StillIndexed
<1>2. CASE EndVisit \/ \E by \in {Recaller, Stranger}, p \in Pages : VisitPage(by, p)
  <2>1. UNCHANGED <<at, pages, indexLock, index, snapshot>>
    BY <1>2 DEF EndVisit, VisitPage, wiki, indexing
  <2>2. Retained
    BY <1>2, ForgettingRetains, HistoryRetains DEF EndVisit, VisitPage, SaveSidecar
  <2> QED
    BY <2>1, <2>2, StillIndexed
<1> QED
  BY <1>1, <1>2, StepsByKind, PassingKeepsIndexed, ToolsKeepIndexed, RebuildKeepsIndexed,
     CyclingKeepsIndexed DEF Storing, Visits

\* The index lists a page iff it exists, but for pages whose rebuild is still to come and
\* pages left stale: by an agent that failed, by the compile agent, by an index that an
\* agent wrote itself, by a refused write or by the merge of a turn.
THEOREM IndexCatchesUp == Spec => []IndexIsCurrent
<1>1. Base /\ Counted /\ Indexed /\ [Next]_vars => Indexed'
  BY NextKeepsIndexed
<1>2. Base /\ Indexed => IndexIsCurrent
  <2> SUFFICES ASSUME Base, Indexed, at[Compiler] # "aside", NEW p \in Pages \ stale,
                      \A e \in Events : at[e] \notin {"agent", "reading", "writing", "scan",
                                                      "index"},
                      at[Compiler] # "index"
               PROVE  p \in index <=> p \in pages
    BY DEF IndexIsCurrent
  <2>1. \A a \in Agents : indexLock # a
    BY AgentsAreDistinct DEF Indexed, IndexLocked
  <2>2. indexLock = Free
    BY <2>1 DEF Base, Shapes
  <2>3. ListsAll(index)
    BY <2>2 DEF Indexed, Listed
  <2> QED
    BY <2>3 DEF ListsAll, Coming, BeforeRebuild
<1> QED
  BY <1>1, <1>2, InitIndexed, BaseHolds, PTL DEF Spec

=============================================================================
