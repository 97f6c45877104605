-------------------------- MODULE WikiMerge_proofs --------------------------
(***************************************************************************)
(* Proofs about WikiMerge, for any number of pages, calls and crashes, and *)
(* whether or not renames fail.  The lock comes first: with it there is at *)
(* most one turn, so that the directories a step finds are those its own   *)
(* turn has left.  On it rest two promises of the merge: a turn that is    *)
(* reported as a failure has left nothing in wiki/, and what an active     *)
(* page held is in the wiki after every step.                              *)
(***************************************************************************)
EXTENDS WikiMerge, TLAPS

\* A process that is down works for nobody.
Quiet == ~up => \A c \in Calls : step[c] \in Ended \cup {"idle"}

\* The agent of a turn has a copy to work on.
HasCopy == \A c \in Calls : step[c] = "editing" => staging \in Wikis

Core == TypeOK /\ LockFollowsTurn /\ Quiet /\ HasCopy

-----------------------------------------------------------------------------
(* Wikis.                                                                  *)

LEMMA EmptyWikiIsWiki == EmptyWiki \in Wikis
BY DEF EmptyWiki, Wikis, Nothing, Absent, Content

LEMMA WrittenIsWiki ==
    ASSUME NEW w \in Wikis, NEW p \in Pages, NEW c \in Calls
    PROVE  Written(w, p, c) \in Wikis
BY DEF Written, Wikis, Content

LEMMA ArchivedIsWiki ==
    ASSUME NEW w \in Wikis, NEW p \in Pages
    PROVE  Archived(w, p) \in Wikis
BY DEF Archived, Wikis, Content, Absent

LEMMA InitIsWiki ==
    ASSUME NEW pages \in SUBSET Pages
    PROVE  [EmptyWiki EXCEPT !.active =
               [p \in Pages |-> IF p \in pages THEN {Origin} ELSE Absent]] \in Wikis
BY DEF EmptyWiki, Wikis, Nothing, Absent, Content

-----------------------------------------------------------------------------
(* Types and the lock.                                                     *)

LEMMA InitCore == Init => Core
<1> SUFFICES ASSUME Init PROVE Core
  OBVIOUS
<1>1. prod \in Wikis
  BY InitIsWiki DEF Init
<1>2. /\ step \in [Calls -> Holding \cup Ended \cup {"idle", "waiting", "abandoned"}]
      /\ mutex \in Calls \cup {Free}
      /\ {prod, merging, backup, staging} \subseteq Wikis \cup {NoDir}
      /\ staging = NoDir
  BY <1>1 DEF Init
<1>3. crashes \in 0 .. MaxCrashes
  BY BoundsAssumption DEF Init
<1>4. {up, torn} \subseteq BOOLEAN /\ wrote \in SUBSET Calls
  BY DEF Init
<1>5. TypeOK
  BY <1>2, <1>3, <1>4 DEF TypeOK
<1> QED
  BY <1>5, NamesAssumption DEF Init, Core, LockFollowsTurn, Quiet, HasCopy, Holding, Ended

\* A call that works under wikiMu is the only one.
LEMMA OneTurn ==
    ASSUME Core, NEW c \in Calls, NEW d \in Calls,
           step[c] \in Holding, step[d] \in Holding
    PROVE  c = d /\ mutex = c
BY DEF Core, LockFollowsTurn

LEMMA WaitingKeepsCore ==
    ASSUME Core, NEW c \in Calls, Call(c) \/ Lock(c) \/ GiveUp(c) \/ HandBack(c)
    PROVE  Core'
<1> USE NamesAssumption DEF Core, TypeOK, LockFollowsTurn, Quiet, HasCopy, Holding, Ended,
                            dirs, process
<1>1. CASE Call(c)
  BY <1>1 DEF Call
<1>2. CASE Lock(c)
  BY <1>2 DEF Lock
<1>3. CASE GiveUp(c)
  BY <1>3 DEF GiveUp
<1>4. CASE HandBack(c)
  BY <1>4 DEF HandBack
<1> QED
  BY <1>1, <1>2, <1>3, <1>4

LEMMA TurnKeepsCore ==
    ASSUME Core, NEW c \in Calls, CopyToStaging(c) \/ TurnFails(c) \/ Answer(c)
    PROVE  Core'
<1> USE NamesAssumption DEF Core, TypeOK, LockFollowsTurn, Quiet, HasCopy, Holding, Ended,
                            dirs, process
<1>1. CASE CopyToStaging(c)
  BY <1>1, EmptyWikiIsWiki DEF CopyToStaging
<1>2. CASE TurnFails(c)
  BY <1>2 DEF TurnFails, Leave
<1>3. CASE Answer(c)
  BY <1>3 DEF Answer, Leave
<1> QED
  BY <1>1, <1>2, <1>3

LEMMA EditingKeepsCore ==
    ASSUME Core, NEW c \in Calls, NEW p \in Pages, WritePage(c, p) \/ ArchivePage(c, p)
    PROVE  Core'
<1> USE NamesAssumption DEF Core, TypeOK, LockFollowsTurn, Quiet, HasCopy, Holding, Ended,
                            dirs, process
<1>1. CASE WritePage(c, p)
  <2>1. staging' \in Wikis
    BY <1>1, WrittenIsWiki DEF WritePage
  <2> QED
    BY <1>1, <2>1, NoDirAssumption DEF WritePage
<1>2. CASE ArchivePage(c, p)
  <2>1. staging' \in Wikis
    BY <1>2, ArchivedIsWiki DEF ArchivePage
  <2> QED
    BY <1>2, <2>1, NoDirAssumption DEF ArchivePage
<1> QED
  BY <1>1, <1>2

LEMMA MergingKeepsCore ==
    ASSUME Core, NEW c \in Calls,
           \/ BeginMerge(c) \/ SetAside(c) \/ SetAsideFails(c)
           \/ SwapIn(c) \/ SwapFails(c) \/ CleanUp(c) \/ RebuildIndex(c)
    PROVE  Core'
<1> USE NamesAssumption DEF Core, TypeOK, LockFollowsTurn, Quiet, HasCopy, Holding, Ended,
                            dirs, process
<1>1. CASE BeginMerge(c)
  BY <1>1 DEF BeginMerge
<1>2. CASE SetAside(c)
  BY <1>2 DEF SetAside
<1>3. CASE SetAsideFails(c)
  BY <1>3 DEF SetAsideFails, Leave
<1>4. CASE SwapIn(c)
  BY <1>4 DEF SwapIn
<1>5. CASE SwapFails(c)
  BY <1>5 DEF SwapFails, Leave
<1>6. CASE CleanUp(c)
  BY <1>6 DEF CleanUp, Leave
<1>7. CASE RebuildIndex(c)
  BY <1>7 DEF RebuildIndex, Leave
<1> QED
  BY <1>1, <1>2, <1>3, <1>4, <1>5, <1>6, <1>7

LEMMA ProcessKeepsCore ==
    ASSUME Core, Crash \/ Restart
    PROVE  Core'
<1> USE NamesAssumption, BoundsAssumption DEF Core, TypeOK, LockFollowsTurn, Quiet, HasCopy,
                                              Holding, Ended
<1>1. CASE Crash
  <2>1. step' \in [Calls -> Ended \cup {"idle"}]
    BY <1>1 DEF Crash
  <2>2. crashes' \in 0 .. MaxCrashes
    BY <1>1 DEF Crash
  <2>3. {up', torn'} \subseteq BOOLEAN
    BY <1>1 DEF Crash
  <2> QED
    BY <1>1, <2>1, <2>2, <2>3 DEF Crash
<1>2. CASE Restart
  BY <1>2, EmptyWikiIsWiki DEF Restart
<1> QED
  BY <1>1, <1>2

LEMMA NextKeepsCore ==
    ASSUME Core, [Next]_vars
    PROVE  Core'
<1>1. CASE UNCHANGED vars
  BY <1>1 DEF vars, dirs, process, Core, TypeOK, LockFollowsTurn, Quiet, HasCopy
<1>2. ASSUME NEW c \in Calls, Call(c) \/ GiveUp(c) \/ Proceed(c)
      PROVE  Core'
  BY <1>2, WaitingKeepsCore, TurnKeepsCore, MergingKeepsCore DEF Proceed
<1>3. ASSUME NEW c \in Calls, Edit(c)
      PROVE  Core'
  BY <1>3, EditingKeepsCore DEF Edit
<1>4. CASE Crash \/ Restart
  BY <1>4, ProcessKeepsCore
<1> QED
  BY <1>1, <1>2, <1>3, <1>4 DEF Next

LEMMA CoreHolds == Spec => []Core
BY InitCore, NextKeepsCore, PTL DEF Spec

\* Every variable keeps its type; a staging copy exists only while the holder of
\* wikiMu works on it.
THEOREM TypesHold == Spec => []TypeOK
BY CoreHolds, PTL DEF Core

\* wikiMu is held by exactly the call that works under it, and is let go on every
\* way out, errors, abandoned waits and crashes included.
THEOREM LockIsReleased == Spec => []LockFollowsTurn
BY CoreHolds, PTL DEF Core

-----------------------------------------------------------------------------
(* Traces: which calls a directory holds a contribution of.                *)

Settled == {"swapped", "indexing", "done", "dead"}

InMerge == {"merging", "aside"}

\* Calls whose contributions a directory may hold.  An abandoned copy in
\* wiki.merging/ says nothing: the next merge replaces it.
Traces ==
    \A c \in Calls :
        /\ c \in KnowledgeOf(prod) \cup KnowledgeOf(backup) => step[c] \in Settled
        /\ c \in KnowledgeOf(staging) => step[c] \in Settled \cup InMerge \cup {"editing"}
        /\ (c \in KnowledgeOf(merging) /\ \E d \in Calls : step[d] \in InMerge)
              => step[c] \in Settled \cup InMerge

LEMMA NobodyKnown ==
    /\ KnowledgeOf(NoDir) = {}
    /\ KnowledgeOf(EmptyWiki) = {}
BY DEF KnowledgeOf, Knowledge, EmptyWiki, Nothing, Absent

LEMMA KnownAfterWrite ==
    ASSUME NEW w \in Wikis, NEW p \in Pages, NEW c \in Calls
    PROVE  KnowledgeOf(Written(w, p, c)) \subseteq KnowledgeOf(w) \cup {c}
<1> SUFFICES ASSUME NEW q \in Pages
             PROVE  Knowledge(Written(w, p, c), q) \subseteq Knowledge(w, q) \cup {c}
  BY DEF KnowledgeOf
<1>1. /\ Written(w, p, c).archive[q] = w.archive[q]
      /\ Written(w, p, c).active[q] \subseteq w.active[q] \cup {c}
  BY DEF Written, Wikis
<1> QED
  BY <1>1, NoDirAssumption DEF Knowledge

LEMMA KnownAfterArchive ==
    ASSUME NEW w \in Wikis, NEW p \in Pages
    PROVE  KnowledgeOf(Archived(w, p)) \subseteq KnowledgeOf(w)
<1> SUFFICES ASSUME NEW q \in Pages
             PROVE  Knowledge(Archived(w, p), q) \subseteq Knowledge(w, q)
  BY DEF KnowledgeOf
<1>1. /\ Archived(w, p).active[q] \subseteq w.active[q]
      /\ Archived(w, p).archive[q] \subseteq w.active[q] \cup w.archive[q]
  BY DEF Archived, Wikis, Absent
<1> QED
  BY <1>1, NoDirAssumption DEF Knowledge

LEMMA InitTraces == Init => Traces
<1> SUFFICES ASSUME Init PROVE Traces
  OBVIOUS
<1>1. PICK pages \in SUBSET Pages :
          prod = [EmptyWiki EXCEPT !.active =
                     [p \in Pages |-> IF p \in pages THEN {Origin} ELSE Absent]]
  BY DEF Init
<1>2. ASSUME NEW p \in Pages PROVE Knowledge(prod, p) \subseteq {Origin}
  BY <1>1 DEF EmptyWiki, Nothing, Absent, Knowledge
<1>3. KnowledgeOf(prod) \subseteq {Origin}
  BY <1>2 DEF KnowledgeOf
<1> QED
  BY <1>3, NobodyKnown, NamesAssumption DEF Init, Traces

LEMMA WaitingKeepsTraces ==
    ASSUME Core, Traces, NEW c \in Calls,
           Call(c) \/ Lock(c) \/ GiveUp(c) \/ HandBack(c)
    PROVE  Traces'
<1> USE DEF Core, TypeOK, Traces, Settled, InMerge, Holding, Ended, dirs, process
<1>1. CASE Call(c)
  BY <1>1 DEF Call
<1>2. CASE Lock(c)
  BY <1>2 DEF Lock
<1>3. CASE GiveUp(c)
  BY <1>3 DEF GiveUp
<1>4. CASE HandBack(c)
  BY <1>4 DEF HandBack
<1> QED
  BY <1>1, <1>2, <1>3, <1>4

LEMMA TurnKeepsTraces ==
    ASSUME Core, Traces, NEW c \in Calls,
           CopyToStaging(c) \/ TurnFails(c) \/ Answer(c) \/ Edit(c)
    PROVE  Traces'
<1> USE DEF Core, TypeOK, Traces, Settled, InMerge, Holding, Ended, dirs, process
<1>1. CASE CopyToStaging(c)
  BY <1>1, NobodyKnown DEF CopyToStaging
<1>2. CASE TurnFails(c)
  BY <1>2, NobodyKnown DEF TurnFails, Leave
<1>3. CASE Answer(c)
  BY <1>3, NobodyKnown DEF Answer, Leave
<1>4. ASSUME NEW p \in Pages, WritePage(c, p)
      PROVE  Traces'
  <2>1. KnowledgeOf(staging') \subseteq KnowledgeOf(staging) \cup {c}
    BY <1>4, KnownAfterWrite DEF WritePage, HasCopy
  <2> QED
    BY <1>4, <2>1 DEF WritePage
<1>5. ASSUME NEW p \in Pages, ArchivePage(c, p)
      PROVE  Traces'
  <2>1. KnowledgeOf(staging') \subseteq KnowledgeOf(staging)
    BY <1>5, KnownAfterArchive DEF ArchivePage, HasCopy
  <2> QED
    BY <1>5, <2>1 DEF ArchivePage
<1> QED
  BY <1>1, <1>2, <1>3, <1>4, <1>5 DEF Edit

LEMMA MergingKeepsTraces ==
    ASSUME Core, Traces, NEW c \in Calls,
           \/ BeginMerge(c) \/ SetAside(c) \/ SetAsideFails(c)
           \/ SwapIn(c) \/ SwapFails(c) \/ CleanUp(c) \/ RebuildIndex(c)
    PROVE  Traces'
<1> USE DEF TypeOK, Traces, Settled, InMerge, Holding, Ended, dirs, process
<1>0. /\ step \in [Calls -> Holding \cup Ended \cup {"idle", "waiting", "abandoned"}]
      /\ step[c] \in Holding
      /\ \A d \in Calls : step[d] \in Holding => d = c
  BY OneTurn DEF Core, BeginMerge, SetAside, SetAsideFails, SwapIn, SwapFails, CleanUp,
                 RebuildIndex
<1>1. CASE BeginMerge(c)
  BY <1>0, <1>1 DEF BeginMerge
<1>2. CASE SetAside(c)
  BY <1>0, <1>2, NobodyKnown DEF SetAside
<1>3. CASE SetAsideFails(c)
  BY <1>0, <1>3, NobodyKnown DEF SetAsideFails, Leave
<1>4. CASE SwapIn(c)
  BY <1>0, <1>4, NobodyKnown DEF SwapIn
<1>5. CASE SwapFails(c)
  BY <1>0, <1>5, NobodyKnown DEF SwapFails, Leave
<1>6. CASE CleanUp(c)
  BY <1>0, <1>6, NobodyKnown DEF CleanUp, Leave
<1>7. CASE RebuildIndex(c)
  BY <1>0, <1>7, NobodyKnown DEF RebuildIndex, Leave
<1> QED
  BY <1>1, <1>2, <1>3, <1>4, <1>5, <1>6, <1>7

LEMMA NextKeepsTraces ==
    ASSUME Core, Traces, [Next]_vars
    PROVE  Traces'
<1>1. CASE UNCHANGED vars
  BY <1>1 DEF vars, dirs, process, Traces
<1>2. ASSUME NEW c \in Calls, Call(c) \/ GiveUp(c) \/ Proceed(c) \/ Edit(c)
      PROVE  Traces'
  BY <1>2, WaitingKeepsTraces, TurnKeepsTraces, MergingKeepsTraces DEF Proceed
<1>3. CASE Crash
  BY <1>3, NobodyKnown DEF Core, TypeOK, Crash, Traces, Settled, InMerge, Ended
<1>4. CASE Restart
  BY <1>4, NobodyKnown DEF Core, Restart, Traces
<1> QED
  BY <1>1, <1>2, <1>3, <1>4 DEF Next

\* A batch that is reported as a failure, and may be run again, has left nothing
\* in wiki/: the events it was for cannot end up there twice.
THEOREM FailuresLeaveNothing == Spec => []FailureLeavesNothing
<1>1. Init => Core /\ Traces
  BY InitCore, InitTraces
<1>2. Core /\ Traces /\ [Next]_vars => (Core /\ Traces)'
  BY NextKeepsCore, NextKeepsTraces
<1>3. Core /\ Traces => FailureLeavesNothing
  BY DEF Core, TypeOK, Traces, FailureLeavesNothing, Settled
<1> QED
  BY <1>1, <1>2, <1>3, PTL DEF Spec

-----------------------------------------------------------------------------
(* What an active page holds.                                              *)

\* wiki/ is away only while a turn is between its two renames, and what it
\* holds, or held, is in the copy that is to replace it.
Carried(c) ==
    /\ step[c] = "editing" =>
           \A p \in Pages :
               staging.archive[p] = Absent => prod.active[p] \subseteq staging.active[p]
    /\ step[c] = "merging" =>
           /\ merging \in Wikis
           /\ \A p \in Pages : prod.active[p] \subseteq Knowledge(merging, p)
    /\ step[c] = "aside" =>
           /\ prod = NoDir /\ merging \in Wikis /\ backup \in Wikis
           /\ \A p \in Pages : backup.active[p] \subseteq Knowledge(merging, p)

Kept ==
    ~torn =>
        /\ prod = NoDir => \E c \in Calls : step[c] = "aside"
        /\ \A c \in Calls : Carried(c)

LEMMA InitKept == Init => Kept
<1> SUFFICES ASSUME Init PROVE Kept
  OBVIOUS
<1>1. prod # NoDir
  BY InitIsWiki, NoDirAssumption DEF Init
<1> QED
  BY <1>1 DEF Init, Kept, Carried

\* A copy that breaks no rule holds what the pages of wiki/ hold.
LEMMA ValidCopyCarries ==
    ASSUME NEW old \in Wikis, NEW new \in Wikis, NEW compile \in BOOLEAN,
           NEW p \in Pages,
           Violations(old, new, compile) = {},
           new.archive[p] = Absent => old.active[p] \subseteq new.active[p]
    PROVE  old.active[p] \subseteq Knowledge(new, p)
<1>1. CASE new.archive[p] = Absent
  BY <1>1, NoDirAssumption DEF Knowledge
<1>2. CASE new.archive[p] # Absent
  BY <1>2, NoDirAssumption DEF Knowledge, Violations, FaithfulMove
<1> QED
  BY <1>1, <1>2

LEMMA WaitingKeepsKept ==
    ASSUME Core, Kept, NEW c \in Calls,
           Call(c) \/ Lock(c) \/ GiveUp(c) \/ HandBack(c)
    PROVE  Kept'
<1> USE DEF Core, TypeOK, Kept, Carried, dirs, process
<1>1. CASE Call(c)
  BY <1>1 DEF Call
<1>2. CASE Lock(c)
  BY <1>2 DEF Lock
<1>3. CASE GiveUp(c)
  BY <1>3 DEF GiveUp
<1>4. CASE HandBack(c)
  BY <1>4 DEF HandBack
<1> QED
  BY <1>1, <1>2, <1>3, <1>4

\* A turn that works on its copy finds wiki/ in place.
LEMMA InPlace ==
    ASSUME Core, Kept, ~torn, NEW c \in Calls, step[c] \in Holding \ {"aside"}
    PROVE  prod \in Wikis
BY OneTurn DEF Core, TypeOK, Kept, Holding

LEMMA TurnKeepsKept ==
    ASSUME Core, Kept, NEW c \in Calls,
           CopyToStaging(c) \/ TurnFails(c) \/ Answer(c) \/ Edit(c)
    PROVE  Kept'
<1> SUFFICES ASSUME ~torn' PROVE Kept'
  BY DEF Kept
<1>0. /\ step \in [Calls -> Holding \cup Ended \cup {"idle", "waiting", "abandoned"}]
      /\ ~torn
      /\ prod \in Wikis
      /\ \A d \in Calls : step[d] \in Holding => d = c
  BY InPlace, OneTurn DEF Core, TypeOK, CopyToStaging, TurnFails, Answer, Edit, WritePage,
                          ArchivePage, Holding, process
<1> USE DEF Kept, Carried, Holding, Ended, dirs, process
<1>1. CASE CopyToStaging(c)
  BY <1>0, <1>1, NoDirAssumption DEF CopyToStaging
<1>2. CASE TurnFails(c)
  BY <1>0, <1>2, NoDirAssumption DEF TurnFails, Leave
<1>3. CASE Answer(c)
  BY <1>0, <1>3, NoDirAssumption DEF Answer, Leave
<1>4. ASSUME NEW p \in Pages, WritePage(c, p)
      PROVE  Kept'
  <2>1. /\ staging'.archive = staging.archive
        /\ \A q \in Pages : staging.active[q] \subseteq staging'.active[q]
    BY <1>4 DEF WritePage, Written, Core, HasCopy, Wikis
  <2> QED
    BY <1>0, <1>4, <2>1, NoDirAssumption DEF WritePage
<1>5. ASSUME NEW p \in Pages, ArchivePage(c, p)
      PROVE  Kept'
  <2>1. \A q \in Pages :
            staging'.archive[q] = Absent =>
                staging.archive[q] = Absent /\ staging'.active[q] = staging.active[q]
    BY <1>5 DEF ArchivePage, Archived, Core, HasCopy, Wikis
  <2> QED
    BY <1>0, <1>5, <2>1, NoDirAssumption DEF ArchivePage
<1> QED
  BY <1>1, <1>2, <1>3, <1>4, <1>5 DEF Edit

LEMMA MergingKeepsKept ==
    ASSUME Core, Kept, NEW c \in Calls,
           \/ BeginMerge(c) \/ SetAside(c) \/ SetAsideFails(c)
           \/ SwapIn(c) \/ SwapFails(c) \/ CleanUp(c) \/ RebuildIndex(c)
    PROVE  Kept'
<1> SUFFICES ASSUME ~torn' PROVE Kept'
  BY DEF Kept
<1>0. /\ step \in [Calls -> Holding \cup Ended \cup {"idle", "waiting", "abandoned"}]
      /\ ~torn
      /\ step[c] \in Holding
      /\ step[c] # "aside" => prod \in Wikis
      /\ \A d \in Calls : step[d] \in Holding => d = c
  BY InPlace, OneTurn DEF Core, TypeOK, BeginMerge, SetAside, SetAsideFails, SwapIn,
                          SwapFails, CleanUp, RebuildIndex, Holding, process
<1>00. Carried(c)
  BY <1>0 DEF Kept
<1> USE DEF Holding, Ended, dirs, process
<1>1. CASE BeginMerge(c)
  <2>1. staging \in Wikis /\ (c \in Compiles) \in BOOLEAN
    BY <1>1 DEF BeginMerge, Core, HasCopy
  <2>2. \A p \in Pages : prod.active[p] \subseteq Knowledge(staging, p)
    BY <1>0, <1>00, <1>1, <2>1, ValidCopyCarries DEF BeginMerge, Carried
  <2> QED
    BY <1>0, <1>1, <2>1, <2>2, NoDirAssumption DEF BeginMerge, Kept, Carried
<1>2. CASE SetAside(c)
  BY <1>0, <1>00, <1>2, NoDirAssumption DEF SetAside, Kept, Carried
<1>3. CASE SetAsideFails(c)
  BY <1>0, <1>3, NoDirAssumption DEF SetAsideFails, Leave, Kept, Carried
<1>4. CASE SwapIn(c)
  BY <1>0, <1>00, <1>4, NoDirAssumption DEF SwapIn, Kept, Carried
<1>5. CASE SwapFails(c)
  BY <1>0, <1>00, <1>5, NoDirAssumption DEF SwapFails, Leave, Kept, Carried
<1>6. CASE CleanUp(c)
  BY <1>0, <1>6, NoDirAssumption DEF CleanUp, Leave, Kept, Carried
<1>7. CASE RebuildIndex(c)
  BY <1>0, <1>7, NoDirAssumption DEF RebuildIndex, Leave, Kept, Carried
<1> QED
  BY <1>1, <1>2, <1>3, <1>4, <1>5, <1>6, <1>7

LEMMA NextKeepsKept ==
    ASSUME Core, Kept, [Next]_vars
    PROVE  Kept'
<1>1. CASE UNCHANGED vars
  BY <1>1 DEF vars, dirs, process, Kept, Carried
<1>2. ASSUME NEW c \in Calls, Call(c) \/ GiveUp(c) \/ Proceed(c) \/ Edit(c)
      PROVE  Kept'
  BY <1>2, WaitingKeepsKept, TurnKeepsKept, MergingKeepsKept DEF Proceed
<1>3. CASE Crash
  BY <1>3 DEF Core, TypeOK, Crash, Kept, Carried, Ended
<1>4. CASE Restart
  BY <1>4 DEF Core, Quiet, Restart, Kept, Carried, Ended
<1> QED
  BY <1>1, <1>2, <1>3, <1>4 DEF Next

\* A step loses nothing of an active page, unless it leaves wiki/ moved away.
StepKeeps ==
    ~torn' => \A p \in Pages :
        Live # NoDir => Live.active[p] \subseteq Knowledge(Live', p)

LEMMA NextKeepsPages ==
    ASSUME Core, Kept, [Next]_vars
    PROVE  StepKeeps
<1> SUFFICES ASSUME ~torn', NEW p \in Pages, Live # NoDir
             PROVE  Live.active[p] \subseteq Knowledge(Live', p)
  BY DEF StepKeeps
<1> USE NoDirAssumption DEF Live, Knowledge, dirs, process
<1>1. CASE prod # NoDir /\ prod' = prod
  BY <1>1
<1>2. CASE prod' = prod /\ backup' = backup
  BY <1>2
<1>3. ASSUME NEW c \in Calls, CopyToStaging(c)
      PROVE  Live.active[p] \subseteq Knowledge(Live', p)
  BY <1>1, <1>3, InPlace DEF CopyToStaging, Holding
<1>4. ASSUME NEW c \in Calls, SetAside(c)
      PROVE  Live.active[p] \subseteq Knowledge(Live', p)
  BY <1>4, InPlace DEF SetAside, Holding
<1>5. ASSUME NEW c \in Calls, SwapIn(c) \/ SwapFails(c)
      PROVE  Live.active[p] \subseteq Knowledge(Live', p)
  <2>1. ~torn /\ step[c] = "aside" /\ Carried(c)
    BY <1>5 DEF SwapIn, SwapFails, Kept
  <2> QED
    BY <1>5, <2>1 DEF SwapIn, SwapFails, Carried
<1>6. ASSUME NEW c \in Calls, CleanUp(c)
      PROVE  Live.active[p] \subseteq Knowledge(Live', p)
  BY <1>1, <1>6, InPlace DEF CleanUp, Leave, Holding
<1>7. CASE Crash
  BY <1>1, <1>7 DEF Crash, Core, TypeOK
<1>8. CASE Restart
  BY <1>1, <1>8 DEF Restart, Core, Quiet, Kept, Ended
<1>9. ASSUME NEW c \in Calls,
             \/ Call(c) \/ GiveUp(c) \/ Lock(c) \/ HandBack(c) \/ Edit(c)
             \/ TurnFails(c) \/ Answer(c) \/ BeginMerge(c) \/ RebuildIndex(c)
      PROVE  prod' = prod /\ backup' = backup
  BY <1>9 DEF Call, GiveUp, Lock, HandBack, Edit, WritePage, ArchivePage, TurnFails, Answer,
              BeginMerge, RebuildIndex
<1>10. ASSUME NEW c \in Calls, SetAsideFails(c)
       PROVE  prod # NoDir /\ prod' = prod
  BY <1>10 DEF SetAsideFails
<1>11. CASE UNCHANGED vars
  BY <1>2, <1>11 DEF vars
<1> QED
  BY <1>1, <1>2, <1>3, <1>4, <1>5, <1>6, <1>7, <1>8, <1>9, <1>10, <1>11 DEF Next, Proceed

\* What agents and earlier turns put on an active page is in the wiki after every
\* step, on the page or in the archive, whatever fails and whoever dies, unless a
\* merge was left between its two renames.
THEOREM PagesAreKept == Spec => ActivePagesAreKept
<1>1. Init => Core /\ Kept
  BY InitCore, InitKept
<1>2. Core /\ Kept /\ [Next]_vars => (Core /\ Kept)'
  BY NextKeepsCore, NextKeepsKept
<1>3. Core /\ Kept /\ [Next]_vars => StepKeeps
  BY NextKeepsPages
<1>4. Spec => [][StepKeeps]_vars
  BY <1>1, <1>2, <1>3, PTL DEF Spec
<1> QED
  BY <1>4, PTL DEF ActivePagesAreKept, StepKeeps

-----------------------------------------------------------------------------
(* A turn that succeeds is in the wiki.                                    *)

\* The caller's own writes in a copy: archiving a page anew loses none of them,
\* because the page that replaces the archived one was written by the caller.
OwnWorkIn(w, c) ==
    /\ c \in KnowledgeOf(w)
    /\ \A p \in Pages : c \in w.archive[p] => w.active[p] = Absent \/ c \in w.active[p]

Credited(c) ==
    /\ step[c] \in {"idle", "waiting", "granted", "abandoned"} => c \notin wrote
    /\ c \in wrote /\ step[c] = "editing" => OwnWorkIn(staging, c)
    /\ c \notin wrote /\ step[c] = "editing" => c \notin KnowledgeOf(staging)
    /\ c \in wrote /\ step[c] \in InMerge => merging \in Wikis /\ c \in KnowledgeOf(merging)
    /\ c \in wrote /\ step[c] \in {"swapped", "indexing"} => c \in KnowledgeOf(prod)

Credit == \A c \in Calls : Credited(c)

LEMMA InitCredit == Init => Credit
BY DEF Init, Credit, Credited, InMerge

LEMMA WriteIsOwnWork ==
    ASSUME NEW w \in Wikis, NEW p \in Pages, NEW c \in Calls,
           c \notin KnowledgeOf(w) \/ OwnWorkIn(w, c)
    PROVE  OwnWorkIn(Written(w, p, c), c)
<1> DEFINE v == Written(w, p, c)
<1>1. /\ v.archive = w.archive
      /\ c \in v.active[p]
      /\ \A q \in Pages : q # p => v.active[q] = w.active[q]
  BY DEF Written, Wikis
<1>2. c \in KnowledgeOf(v)
  BY <1>1, WrittenIsWiki, NoDirAssumption DEF KnowledgeOf, Knowledge
<1>3. \A q \in Pages : c \in w.archive[q] => w.active[q] = Absent \/ c \in w.active[q]
  BY NoDirAssumption DEF OwnWorkIn, KnowledgeOf, Knowledge
<1> QED
  BY <1>1, <1>2, <1>3 DEF OwnWorkIn

LEMMA ArchiveKeepsOwnWork ==
    ASSUME NEW w \in Wikis, NEW p \in Pages, NEW c \in Calls, OwnWorkIn(w, c),
           w.active[p] # Absent
    PROVE  OwnWorkIn(Archived(w, p), c)
<1> DEFINE v == Archived(w, p)
<1>1. /\ v.archive[p] = w.active[p]
      /\ v.active[p] = Absent
      /\ \A q \in Pages : q # p => v.active[q] = w.active[q] /\ v.archive[q] = w.archive[q]
  BY DEF Archived, Wikis
<1>2. PICK q \in Pages : c \in w.active[q] \cup w.archive[q]
  BY NoDirAssumption DEF OwnWorkIn, KnowledgeOf, Knowledge
<1>3. c \in v.active[q] \cup v.archive[q]
  BY <1>1, <1>2 DEF OwnWorkIn
<1>4. c \in KnowledgeOf(v)
  BY <1>3, ArchivedIsWiki, NoDirAssumption DEF KnowledgeOf, Knowledge
<1> QED
  BY <1>1, <1>4 DEF OwnWorkIn

LEMMA WaitingKeepsCredit ==
    ASSUME Core, Credit, NEW c \in Calls,
           Call(c) \/ Lock(c) \/ GiveUp(c) \/ HandBack(c)
    PROVE  Credit'
<1> USE DEF Core, TypeOK, Credit, Credited, InMerge, dirs, process
<1>1. CASE Call(c)
  BY <1>1 DEF Call
<1>2. CASE Lock(c)
  BY <1>2 DEF Lock
<1>3. CASE GiveUp(c)
  BY <1>3 DEF GiveUp
<1>4. CASE HandBack(c)
  BY <1>4 DEF HandBack
<1> QED
  BY <1>1, <1>2, <1>3, <1>4

LEMMA TurnKeepsCredit ==
    ASSUME Core, Traces, Credit, NEW c \in Calls,
           CopyToStaging(c) \/ TurnFails(c) \/ Answer(c) \/ Edit(c)
    PROVE  Credit'
<1>0. /\ step \in [Calls -> Holding \cup Ended \cup {"idle", "waiting", "abandoned"}]
      /\ step[c] \in {"granted", "editing"}
      /\ \A d \in Calls : step[d] \in Holding => d = c
  BY OneTurn DEF Core, TypeOK, CopyToStaging, TurnFails, Answer, Edit, WritePage,
                 ArchivePage, Holding
<1> USE DEF Credit, Credited, InMerge, Holding, Ended, dirs, process
<1>1. CASE CopyToStaging(c)
  <2>1. c \notin KnowledgeOf(staging')
    BY <1>1, NobodyKnown DEF CopyToStaging, Traces, Settled
  <2> QED
    BY <1>0, <1>1, <2>1 DEF CopyToStaging
<1>2. CASE TurnFails(c)
  BY <1>0, <1>2 DEF TurnFails, Leave
<1>3. CASE Answer(c)
  BY <1>0, <1>3 DEF Answer, Leave
<1>4. ASSUME NEW p \in Pages, WritePage(c, p)
      PROVE  Credit'
  <2>1. OwnWorkIn(staging', c)
    BY <1>4, WriteIsOwnWork DEF WritePage, Core, HasCopy
  <2> QED
    BY <1>0, <1>4, <2>1 DEF WritePage
<1>5. ASSUME NEW p \in Pages, ArchivePage(c, p)
      PROVE  Credit'
  <2>1. CASE c \in wrote
    <3>1. OwnWorkIn(staging', c)
      BY <1>5, <2>1, ArchiveKeepsOwnWork DEF ArchivePage, Core, HasCopy
    <3> QED
      BY <1>0, <1>5, <2>1, <3>1 DEF ArchivePage
  <2>2. CASE c \notin wrote
    <3>1. c \notin KnowledgeOf(staging')
      BY <1>5, <2>2, KnownAfterArchive DEF ArchivePage, Core, HasCopy
    <3> QED
      BY <1>0, <1>5, <2>2, <3>1 DEF ArchivePage
  <2> QED
    BY <2>1, <2>2
<1> QED
  BY <1>1, <1>2, <1>3, <1>4, <1>5 DEF Edit

LEMMA MergingKeepsCredit ==
    ASSUME Core, Credit, NEW c \in Calls,
           \/ BeginMerge(c) \/ SetAside(c) \/ SetAsideFails(c)
           \/ SwapIn(c) \/ SwapFails(c) \/ CleanUp(c) \/ RebuildIndex(c)
    PROVE  Credit'
<1>0. /\ step \in [Calls -> Holding \cup Ended \cup {"idle", "waiting", "abandoned"}]
      /\ step[c] \in Holding
      /\ \A d \in Calls : step[d] \in Holding => d = c
  BY OneTurn DEF Core, TypeOK, BeginMerge, SetAside, SetAsideFails, SwapIn, SwapFails,
                 CleanUp, RebuildIndex, Holding
<1> USE DEF Credit, Credited, InMerge, Holding, Ended, dirs, process
<1>1. CASE BeginMerge(c)
  <2>1. staging \in Wikis
    BY <1>1 DEF BeginMerge, Core, HasCopy
  <2> QED
    BY <1>0, <1>1, <2>1 DEF BeginMerge, OwnWorkIn
<1>2. CASE SetAside(c)
  BY <1>0, <1>2 DEF SetAside
<1>3. CASE SetAsideFails(c)
  BY <1>0, <1>3 DEF SetAsideFails, Leave
<1>4. CASE SwapIn(c)
  BY <1>0, <1>4 DEF SwapIn
<1>5. CASE SwapFails(c)
  BY <1>0, <1>5 DEF SwapFails, Leave
<1>6. CASE CleanUp(c)
  BY <1>0, <1>6 DEF CleanUp, Leave
<1>7. CASE RebuildIndex(c)
  BY <1>0, <1>7 DEF RebuildIndex, Leave
<1> QED
  BY <1>1, <1>2, <1>3, <1>4, <1>5, <1>6, <1>7

LEMMA NextKeepsCredit ==
    ASSUME Core, Traces, Credit, [Next]_vars
    PROVE  Credit'
<1>1. CASE UNCHANGED vars
  BY <1>1 DEF vars, dirs, process, Credit, Credited, InMerge
<1>2. ASSUME NEW c \in Calls, Call(c) \/ GiveUp(c) \/ Proceed(c) \/ Edit(c)
      PROVE  Credit'
  BY <1>2, WaitingKeepsCredit, TurnKeepsCredit, MergingKeepsCredit DEF Proceed
<1>3. CASE Crash
  BY <1>3 DEF Core, TypeOK, Crash, Credit, Credited, InMerge, Ended
<1>4. CASE Restart
  BY <1>4 DEF Core, Quiet, Restart, Credit, Credited, InMerge, Ended
<1> QED
  BY <1>1, <1>2, <1>3, <1>4 DEF Next

\* A turn that is about to be reported as a success has its agent's work in wiki/.
THEOREM SuccessesAreMerged == Spec => []SuccessIsMerged
<1>1. Init => Core /\ Traces /\ Credit
  BY InitCore, InitTraces, InitCredit
<1>2. Core /\ Traces /\ Credit /\ [Next]_vars => (Core /\ Traces /\ Credit)'
  BY NextKeepsCore, NextKeepsTraces, NextKeepsCredit
<1>3. Core /\ Traces /\ Credit => SuccessIsMerged
  BY DEF Core, TypeOK, Credit, Credited, SuccessIsMerged
<1> QED
  BY <1>1, <1>2, <1>3, PTL DEF Spec

-----------------------------------------------------------------------------
(* Turns are atomic.                                                       *)

\* The copy that a turn works on differs from the wiki in service by its own work
\* only, and what is to replace the wiki is a turn's result.
Based(c) ==
    /\ step[c] = "editing" =>
           \A p \in Pages :
               /\ Turns!Holds(staging, p) \subseteq Turns!Holds(Wiki, p) \cup {c}
               /\ staging.archive[p] = Absent => Wiki.active[p] \subseteq staging.active[p]
    /\ step[c] \in InMerge =>
           c \notin Recalls /\ merging \in Wikis /\ Turns!TurnOf(c, Wiki, merging)
    /\ step[c] = "aside" => prod = NoDir

Isolated == \A c \in Calls : Based(c)

LEMMA WikiIsWiki == ASSUME Core PROVE Wiki \in Wikis
BY EmptyWikiIsWiki DEF Core, TypeOK, Wiki

LEMMA WikiInPlace ==
    /\ prod # NoDir => Wiki = prod
    /\ prod = NoDir /\ ~Aside => Wiki = EmptyWiki
    /\ prod = NoDir /\ backup = NoDir => Wiki = EmptyWiki
    /\ prod = NoDir /\ Aside /\ backup # NoDir => Wiki = backup
BY DEF Wiki

\* Nobody is between the two renames but the holder of wikiMu.
LEMMA OnlyOneAside ==
    ASSUME Core, NEW c \in Calls, step[c] \in Holding \ {"aside"}
    PROVE  ~Aside
BY OneTurn DEF Aside, Holding

LEMMA NobodyAside ==
    ASSUME Core, mutex = Free PROVE ~Aside
BY NamesAssumption DEF Core, LockFollowsTurn, Aside, Holding

LEMMA WaitingKeepsWiki ==
    ASSUME Core, NEW c \in Calls,
           Call(c) \/ Lock(c) \/ GiveUp(c) \/ HandBack(c)
    PROVE  Wiki' = Wiki
<1>1. prod' = prod /\ backup' = backup
  BY DEF Call, Lock, GiveUp, HandBack, dirs
<1>2. \A d \in Calls : step'[d] = "aside" <=> step[d] = "aside"
  BY DEF Core, TypeOK, Call, Lock, GiveUp, HandBack
<1>3. Aside' <=> Aside
  BY <1>2 DEF Aside
<1> QED
  BY <1>1, <1>3 DEF Wiki

LEMMA TurnKeepsWiki ==
    ASSUME Core, NEW c \in Calls,
           \/ CopyToStaging(c) \/ TurnFails(c) \/ Answer(c) \/ Edit(c)
           \/ BeginMerge(c) \/ SetAside(c) \/ SetAsideFails(c) \/ CleanUp(c) \/ RebuildIndex(c)
    PROVE  Wiki' = Wiki
<1>1. step[c] \in Holding \ {"aside"}
  BY DEF CopyToStaging, TurnFails, Answer, Edit, WritePage, ArchivePage, BeginMerge, SetAside,
         SetAsideFails, CleanUp, RebuildIndex, Holding
<1>2. ~Aside
  BY <1>1, OnlyOneAside
<1>3. CASE SetAside(c)
  <2>1. step'[c] = "aside" /\ prod' = NoDir /\ backup' = prod
    BY <1>3 DEF SetAside, Core, TypeOK
  <2> QED
    BY <1>2, <2>1 DEF Wiki, Aside
<1>4. CASE ~SetAside(c)
  <2>1. ~Aside'
    BY <1>2, <1>4 DEF Core, TypeOK, Aside, CopyToStaging, TurnFails, Answer, Edit, WritePage,
           ArchivePage, BeginMerge, SetAsideFails, CleanUp, RebuildIndex, Leave
  <2>2. prod' = prod \/ (prod = NoDir /\ prod' = EmptyWiki)
    BY <1>4 DEF CopyToStaging, TurnFails, Answer, Edit, WritePage,
           ArchivePage, BeginMerge, SetAsideFails, CleanUp, RebuildIndex, Leave
  <2> QED
    BY <1>2, <2>1, <2>2, EmptyWikiIsWiki, NoDirAssumption DEF Wiki
<1> QED
  BY <1>3, <1>4

LEMMA SwapMovesWiki ==
    ASSUME Core, Isolated, NEW c \in Calls, SwapIn(c) \/ SwapFails(c)
    PROVE  /\ SwapIn(c) => Wiki' = merging /\ Turns!TurnOf(c, Wiki, Wiki')
           /\ SwapFails(c) => Wiki' = Wiki \/ Wiki' = EmptyWiki
<1>1. /\ step[c] = "aside" /\ prod = NoDir /\ merging \in Wikis
      /\ Turns!TurnOf(c, Wiki, merging)
      /\ Aside
  BY DEF SwapIn, SwapFails, Isolated, Based, InMerge, Aside
<1>2. ASSUME SwapIn(c) PROVE Wiki' = merging
  BY <1>1, <1>2, NoDirAssumption DEF SwapIn, Wiki
<1>3. ASSUME SwapFails(c) PROVE Wiki' = Wiki \/ Wiki' = EmptyWiki
  <2>1. ~Aside'
    BY <1>1, <1>3, OneTurn DEF Core, TypeOK, SwapFails, Leave, Aside, Holding
  <2> QED
    BY <1>1, <1>3, <2>1 DEF SwapFails, Wiki
<1> QED
  BY <1>1, <1>2, <1>3

LEMMA ProcessMovesWiki ==
    ASSUME Core, Isolated, Crash \/ Restart
    PROVE  /\ Wiki' = Wiki \/ (Aside /\ Wiki' = EmptyWiki)
           /\ Restart => Wiki' = Wiki
<1>1. ASSUME Crash PROVE Wiki' = Wiki \/ (Aside /\ Wiki' = EmptyWiki)
  <2>1. ~Aside'
    BY <1>1 DEF Crash, Aside, Ended
  <2>2. prod' = prod
    BY <1>1 DEF Crash
  <2> QED
    BY <2>1, <2>2 DEF Wiki
<1>2. ASSUME Restart PROVE Wiki' = Wiki
  <2>1. ~Aside /\ ~Aside'
    BY <1>2 DEF Restart, Aside, Core, Quiet, Ended
  <2> QED
    BY <1>2, <2>1, EmptyWikiIsWiki, NoDirAssumption DEF Restart, Wiki
<1> QED
  BY <1>1, <1>2

LEMMA InitIsolated == Init => Isolated
BY DEF Init, Isolated, Based, InMerge

\* What a call holds that is not in its turn says nothing.
LEMMA NotInTurn ==
    ASSUME NEW c \in Calls, step[c] \notin {"editing", "merging", "aside"}
    PROVE  Based(c)
BY DEF Based, InMerge

\* A copy that breaks no rule is a turn's result.
LEMMA ValidCopyIsTurn ==
    ASSUME NEW old \in Wikis \cup {NoDir}, NEW new \in Wikis, NEW c \in Calls, NEW w \in Wikis,
           w = IF old = NoDir THEN EmptyWiki ELSE old,
           Violations(old, new, c \in Compiles) = {},
           \A p \in Pages :
               /\ Turns!Holds(new, p) \subseteq Turns!Holds(w, p) \cup {c}
               /\ new.archive[p] = Absent => w.active[p] \subseteq new.active[p]
    PROVE  Turns!TurnOf(c, w, new)
<1> SUFFICES ASSUME NEW p \in Pages
             PROVE  w.active[p] \subseteq IF c \in Compiles THEN Turns!Holds(new, p)
                                         ELSE new.active[p]
  BY DEF Turns!TurnOf
<1>1. new.archive[p] # Absent => FaithfulMove(old, new, p, c \in Compiles)
  BY DEF Violations
<1>2. CASE new.archive[p] = Absent
  BY <1>2 DEF Turns!Holds
<1>3. CASE new.archive[p] # Absent
  <2>1. c \in Compiles /\ old # NoDir /\ new.archive[p] = old.active[p]
    BY <1>1, <1>3 DEF FaithfulMove
  <2> QED
    BY <2>1 DEF Turns!Holds
<1> QED
  BY <1>2, <1>3

LEMMA NextKeepsIsolated ==
    ASSUME Core, Isolated, [Next]_vars
    PROVE  Isolated'
<1> SUFFICES ASSUME NEW d \in Calls PROVE Based(d)'
  BY DEF Isolated
<1>0. step \in [Calls -> Holding \cup Ended \cup {"idle", "waiting", "abandoned"}]
  BY DEF Core, TypeOK
<1>1. Based(d) /\ Wiki \in Wikis
  BY WikiIsWiki DEF Isolated
<1>2. CASE UNCHANGED vars
  <2>1. Wiki' = Wiki
    BY <1>2 DEF vars, dirs, process, Wiki, Aside
  <2> QED
    BY <1>1, <1>2, <2>1 DEF vars, dirs, process, Based
<1>3. ASSUME NEW c \in Calls, Call(c) \/ GiveUp(c) \/ Lock(c) \/ HandBack(c)
      PROVE  Based(d)'
  <2>1. Wiki' = Wiki
    BY <1>3, WaitingKeepsWiki
  <2>2. /\ UNCHANGED dirs
        /\ step'[d] = step[d] \/ step'[d] \notin {"editing", "merging", "aside"}
    BY <1>0, <1>3 DEF Call, GiveUp, Lock, HandBack
  <2> QED
    BY <1>1, <2>1, <2>2 DEF dirs, Based, InMerge
<1>4. ASSUME NEW c \in Calls,
             \/ Edit(c) \/ CopyToStaging(c) \/ TurnFails(c) \/ Answer(c)
             \/ BeginMerge(c) \/ SetAside(c) \/ SetAsideFails(c)
             \/ SwapIn(c) \/ SwapFails(c) \/ CleanUp(c) \/ RebuildIndex(c),
             c # d
      PROVE  Based(d)'
  <2>1. step[c] \in Holding
    BY <1>4 DEF Edit, WritePage, ArchivePage, CopyToStaging, TurnFails, Answer, BeginMerge,
           SetAside, SetAsideFails, SwapIn, SwapFails, CleanUp, RebuildIndex, Holding
  <2>2. step[d] \notin Holding
    BY <1>4, <2>1, OneTurn
  <2>3. step'[d] = step[d]
    BY <1>0, <1>4 DEF Edit, WritePage, ArchivePage, CopyToStaging, TurnFails, Answer, BeginMerge,
           SetAside, SetAsideFails, SwapIn, SwapFails, CleanUp, RebuildIndex, Leave
  <2> QED
    BY <2>2, <2>3 DEF Based, InMerge, Holding
<1>5. CASE CopyToStaging(d)
  <2>1. Wiki' = Wiki /\ ~Aside
    BY <1>5, TurnKeepsWiki, OnlyOneAside DEF CopyToStaging, Holding
  <2>2. staging' = Wiki /\ step'[d] = "editing"
    BY <1>0, <1>5, <2>1 DEF CopyToStaging, Wiki
  <2> QED
    BY <2>1, <2>2 DEF Based, InMerge
<1>6. ASSUME NEW p \in Pages, WritePage(d, p)
      PROVE  Based(d)'
  <2>1. Wiki' = Wiki
    BY <1>6, TurnKeepsWiki DEF Edit
  <2>2. /\ staging'.archive = staging.archive
        /\ \A q \in Pages : staging.active[q] \subseteq staging'.active[q]
                           /\ staging'.active[q] \subseteq staging.active[q] \cup {d}
    BY <1>6 DEF WritePage, Written, Core, HasCopy, Wikis
  <2>3. step[d] = "editing" /\ step'[d] = "editing"
    BY <1>6 DEF WritePage
  <2> QED
    BY <1>1, <2>1, <2>2, <2>3 DEF Based, InMerge, Turns!Holds
<1>7. ASSUME NEW p \in Pages, ArchivePage(d, p)
      PROVE  Based(d)'
  <2>1. Wiki' = Wiki
    BY <1>7, TurnKeepsWiki DEF Edit
  <2>2. /\ \A q \in Pages : staging'.archive[q] = Absent =>
                staging.archive[q] = Absent /\ staging'.active[q] = staging.active[q]
        /\ \A q \in Pages : Turns!Holds(staging', q) \subseteq Turns!Holds(staging, q)
    BY <1>7 DEF ArchivePage, Archived, Core, HasCopy, Wikis, Turns!Holds, Absent
  <2>3. step[d] = "editing" /\ step'[d] = "editing"
    BY <1>7 DEF ArchivePage
  <2> QED
    BY <1>1, <2>1, <2>2, <2>3 DEF Based, InMerge
<1>8. CASE BeginMerge(d)
  <2>1. Wiki' = Wiki /\ ~Aside
    BY <1>8, TurnKeepsWiki, OnlyOneAside DEF BeginMerge, Holding
  <2>2. Wiki = IF prod = NoDir THEN EmptyWiki ELSE prod
    BY <2>1 DEF Wiki
  <2>3. staging \in Wikis /\ merging' = staging /\ step[d] = "editing" /\ step'[d] = "merging"
    BY <1>0, <1>8 DEF BeginMerge, Core, HasCopy
  <2>4. Turns!TurnOf(d, Wiki, staging)
    <3>1. prod \in Wikis \cup {NoDir} /\ Violations(prod, staging, d \in Compiles) = {}
      BY <1>8 DEF BeginMerge, Core, TypeOK
    <3>2. \A p \in Pages :
              /\ Turns!Holds(staging, p) \subseteq Turns!Holds(Wiki, p) \cup {d}
              /\ staging.archive[p] = Absent => Wiki.active[p] \subseteq staging.active[p]
      BY <1>1, <2>3 DEF Based
    <3> QED
      BY <1>1, <2>2, <2>3, <3>1, <3>2, ValidCopyIsTurn
  <2> QED
    BY <1>8, <2>1, <2>3, <2>4 DEF BeginMerge, Based, InMerge
<1>9. CASE SetAside(d)
  <2>1. Wiki' = Wiki
    BY <1>9, TurnKeepsWiki
  <2>2. merging' = merging /\ prod' = NoDir /\ step[d] = "merging" /\ step'[d] = "aside"
    BY <1>0, <1>9 DEF SetAside
  <2> QED
    BY <1>1, <2>1, <2>2 DEF Based, InMerge
<1>10. CASE \/ TurnFails(d) \/ Answer(d) \/ SetAsideFails(d) \/ SwapIn(d) \/ SwapFails(d)
            \/ CleanUp(d) \/ RebuildIndex(d)
  <2>1. step'[d] \notin {"editing", "merging", "aside"}
    BY <1>0, <1>10 DEF TurnFails, Answer, SetAsideFails, SwapIn, SwapFails, CleanUp,
           RebuildIndex, Leave
  <2> QED
    BY <2>1 DEF Based, InMerge
<1>11. CASE Crash \/ Restart
  <2>1. step'[d] \notin {"editing", "merging", "aside"}
    BY <1>0, <1>11 DEF Crash, Restart, Core, Quiet, Ended
  <2> QED
    BY <2>1 DEF Based, InMerge
<1> QED
  BY <1>2, <1>3, <1>4, <1>5, <1>6, <1>7, <1>8, <1>9, <1>10, <1>11 DEF Next, Proceed, Edit

-----------------------------------------------------------------------------
(* The refinement: every step of a turn is a step of AtomicWiki, or none.  *)

LEMMA OutcomeMoves ==
    ASSUME Core, NEW c \in Calls, NEW s, step' = [step EXCEPT ![c] = s]
    PROVE  Outcome' = [Outcome EXCEPT ![c] = Told(s)]
BY DEF Core, TypeOK, Outcome

LEMMA OutcomeStays ==
    ASSUME Core, NEW c \in Calls, NEW s, step' = [step EXCEPT ![c] = s], Told(s) = Told(step[c])
    PROVE  Outcome' = Outcome
BY DEF Core, TypeOK, Outcome

\* What agents have written is noted when they write it.
LEMMA OnlyWritesAreNoted ==
    ASSUME NEW c \in Calls,
           \/ Call(c) \/ GiveUp(c) \/ Proceed(c) \/ (\E p \in Pages : ArchivePage(c, p))
           \/ Crash \/ Restart
    PROVE  wrote' = wrote
BY DEF Call, GiveUp, Proceed, Lock, HandBack, CopyToStaging, TurnFails, Answer, BeginMerge,
       SetAside, SetAsideFails, SwapIn, SwapFails, CleanUp, RebuildIndex, ArchivePage, Crash,
       Restart

LEMMA InitIsInit == Init => Turns!WikiInit
<1> SUFFICES ASSUME Init PROVE Turns!WikiInit
  OBVIOUS
<1>1. PICK pages \in SUBSET Pages :
          prod = [EmptyWiki EXCEPT !.active =
                     [p \in Pages |-> IF p \in pages THEN {Origin} ELSE Absent]]
  BY DEF Init
<1>2. Wiki = prod
  BY <1>1, InitIsWiki, NoDirAssumption DEF Wiki
<1>3. ASSUME NEW p \in Pages
      PROVE  Turns!Holds(Wiki, p) \subseteq {Origin} /\ Wiki.archive[p] = {}
  BY <1>1, <1>2 DEF EmptyWiki, Nothing, Absent, Turns!Holds
<1>4. Outcome = [c \in Calls |-> "idle"]
  BY DEF Init, Outcome, Told
<1>5. \A p \in Pages : Turns!Holds(Wiki, p) \cap Calls = {} /\ Wiki.archive[p] = {}
  BY <1>3, NamesAssumption
<1> QED
  BY <1>4, <1>5 DEF Init, Turns!WikiInit, Turns!Calls, Calls

\* A call moves from what it has been told to what it will be told next.
LEMMA CallRefines ==
    ASSUME Core, Credit, Isolated, NEW c \in Calls,
           Call(c) \/ GiveUp(c) \/ Proceed(c) \/ Edit(c)
    PROVE  Turns!WikiNext \/ UNCHANGED <<Wiki, Outcome, wrote>>
<1>0. /\ step \in [Calls -> Holding \cup Ended \cup {"idle", "waiting", "abandoned"}]
      /\ c \in Turns!Calls
      /\ Outcome[c] = Told(step[c])
      /\ DOMAIN Outcome = Calls
  BY DEF Core, TypeOK, Calls, Turns!Calls, Outcome
<1>00. Call(c) \/ GiveUp(c) \/ Proceed(c) => wrote' = wrote
  BY OnlyWritesAreNoted
<1>1. ASSUME Call(c) PROVE Turns!Begin(c)
  <2>1. Wiki' = Wiki
    BY <1>1, WaitingKeepsWiki
  <2>2. step[c] = "idle" /\ Outcome' = [Outcome EXCEPT ![c] = Told("waiting")]
    BY <1>1, OutcomeMoves DEF Call
  <2> QED
    BY <1>1, <1>00, <1>0, <2>1, <2>2 DEF Turns!Begin, Turns!Becomes, Told
<1>2. ASSUME Lock(c) \/ HandBack(c) PROVE UNCHANGED <<Wiki, Outcome, wrote>>
  <2>1. Wiki' = Wiki
    BY <1>2, WaitingKeepsWiki
  <2>2. PICK s : step' = [step EXCEPT ![c] = s] /\ Told(s) = Told(step[c])
    BY <1>2 DEF Lock, HandBack, Told
  <2> QED
    BY <1>2, <1>00, <2>1, <2>2, OutcomeStays DEF Proceed
<1>3. ASSUME GiveUp(c) PROVE Turns!Fail(c)
  <2>1. Wiki' = Wiki
    BY <1>3, WaitingKeepsWiki
  <2>2. PICK s \in {"abandoned", "returning"} : step' = [step EXCEPT ![c] = s]
    BY <1>3 DEF GiveUp
  <2>3. Told(step[c]) = "running" /\ Told(s) = "failed"
    BY <1>3 DEF GiveUp, Told
  <2>4. Outcome' = [Outcome EXCEPT ![c] = Told(s)]
    BY <2>2, OutcomeMoves
  <2> QED
    BY <1>3, <1>00, <1>0, <2>1, <2>3, <2>4 DEF Turns!Fail, Turns!Becomes
<1>4. ASSUME CopyToStaging(c) \/ Edit(c) \/ BeginMerge(c) \/ SetAside(c)
      PROVE  Turns!Write(c) \/ UNCHANGED <<Wiki, Outcome, wrote>>
  <2>1. Wiki' = Wiki
    BY <1>4, TurnKeepsWiki
  <2>2. PICK s \in {"editing", "merging", "aside"} : step' = [step EXCEPT ![c] = s]
    <3>1. ASSUME Edit(c) PROVE step' = [step EXCEPT ![c] = "editing"]
      BY <1>0, <3>1 DEF Edit, WritePage, ArchivePage
    <3> QED
      BY <1>4, <3>1 DEF CopyToStaging, BeginMerge, SetAside
  <2>3. Told(step[c]) = "running" /\ Told(s) = "running"
    BY <1>4 DEF CopyToStaging, Edit, WritePage, ArchivePage, BeginMerge, SetAside, Told
  <2>4. Outcome' = Outcome
    BY <2>2, <2>3, OutcomeStays
  <2>5. CASE \E p \in Pages : WritePage(c, p)
    BY <1>0, <2>1, <2>3, <2>4, <2>5 DEF WritePage, Turns!Write
  <2>6. CASE ~\E p \in Pages : WritePage(c, p)
    BY <1>4, <1>00, <2>1, <2>4, <2>6, OnlyWritesAreNoted DEF Edit, Proceed
  <2> QED
    BY <2>5, <2>6
<1>5. ASSUME TurnFails(c) \/ SetAsideFails(c) PROVE Turns!Fail(c)
  <2>1. Wiki' = Wiki
    BY <1>5, TurnKeepsWiki
  <2>2. Told(step[c]) = "running" /\ step' = [step EXCEPT ![c] = "failed"]
    BY <1>5 DEF TurnFails, SetAsideFails, Leave, Told
  <2> QED
    BY <1>5, <1>00, <1>0, <2>1, <2>2, OutcomeMoves DEF Proceed, Turns!Fail, Turns!Becomes, Told
<1>6. ASSUME Answer(c) PROVE Turns!Answer(c)
  <2>1. Wiki' = Wiki
    BY <1>6, TurnKeepsWiki
  <2>2. Told(step[c]) = "running" /\ step' = [step EXCEPT ![c] = "done"]
    BY <1>6 DEF Answer, Leave, Told
  <2> QED
    BY <1>0, <1>00, <1>6, <2>1, <2>2, OutcomeMoves DEF Proceed, Answer, Turns!Answer, Turns!Becomes, Told
<1>7. ASSUME SwapIn(c) PROVE Turns!Merge(c)
  <2>1. Turns!TurnOf(c, Wiki, Wiki')
    BY <1>7, SwapMovesWiki
  <2>2. Told(step[c]) = "running" /\ step' = [step EXCEPT ![c] = "swapped"]
    BY <1>7 DEF SwapIn, Told
  <2>3. c \notin Recalls
    BY <1>7 DEF SwapIn, Isolated, Based, InMerge
  <2>4. c \in wrote => \E p \in Pages : c \in Turns!Holds(Wiki', p)
    <3>1. c \in wrote => merging \in Wikis /\ c \in KnowledgeOf(merging)
      BY <1>7 DEF SwapIn, Credit, Credited, InMerge
    <3>2. Wiki' = merging
      BY <1>7, SwapMovesWiki
    <3> QED
      BY <3>1, <3>2, NoDirAssumption DEF KnowledgeOf, Knowledge, Turns!Holds
  <2> QED
    BY <1>7, <1>00, <1>0, <2>1, <2>2, <2>3, <2>4, OutcomeMoves DEF Proceed, Turns!Merge, Turns!Becomes, Told
<1>8. ASSUME SwapFails(c) PROVE Turns!Fail(c) \/ Turns!Tear(c)
  <2>1. Wiki' = Wiki \/ Wiki' = EmptyWiki
    BY <1>8, SwapMovesWiki
  <2>2. Told(step[c]) = "running" /\ step' = [step EXCEPT ![c] = "failed"]
    BY <1>8 DEF SwapFails, Leave, Told
  <2>3. c \notin Recalls
    BY <1>8 DEF SwapFails, Isolated, Based, InMerge
  <2> QED
    BY <1>8, <1>00, <1>0, <2>1, <2>2, <2>3, OutcomeMoves DEF Proceed, Turns!Fail, Turns!Tear, Turns!Becomes, Told
<1>9. ASSUME CleanUp(c) \/ RebuildIndex(c)
      PROVE  Turns!Report(c) \/ UNCHANGED <<Wiki, Outcome, wrote>>
  <2>1. Wiki' = Wiki
    BY <1>9, TurnKeepsWiki
  <2>2. PICK s \in {"indexing", "done"} : step' = [step EXCEPT ![c] = s]
    BY <1>9 DEF CleanUp, RebuildIndex, Leave
  <2>3. Told(step[c]) = "merged" /\ Told(s) \in {"merged", "done"}
    BY <1>9 DEF CleanUp, RebuildIndex, Told
  <2>4. Told(s) = "merged" => Outcome' = Outcome
    BY <2>2, <2>3, OutcomeStays
  <2>5. Outcome' = [Outcome EXCEPT ![c] = Told(s)]
    BY <2>2, OutcomeMoves
  <2> QED
    BY <1>9, <1>00, <1>0, <2>1, <2>3, <2>4, <2>5 DEF Proceed, Turns!Report, Turns!Becomes
<1> QED
  BY <1>0, <1>1, <1>2, <1>3, <1>4, <1>5, <1>6, <1>7, <1>8, <1>9 DEF Proceed, Turns!WikiNext

LEMMA ProcessRefines ==
    ASSUME Core, Isolated, Crash \/ Restart
    PROVE  Turns!WikiNext \/ UNCHANGED <<Wiki, Outcome, wrote>>
<1>0. step \in [Calls -> Holding \cup Ended \cup {"idle", "waiting", "abandoned"}]
  BY DEF Core, TypeOK
<1>1. ASSUME Restart PROVE UNCHANGED <<Wiki, Outcome, wrote>>
  BY <1>1, ProcessMovesWiki DEF Restart, Outcome
<1>2. ASSUME Crash PROVE Turns!Die
  <2>1. \/ Wiki' = Wiki
        \/ Wiki' = EmptyWiki /\ \E c \in Calls \ Recalls : Outcome[c] = "running"
    <3>1. ASSUME Aside PROVE \E c \in Calls \ Recalls : Outcome[c] = "running"
      <4>1. PICK c \in Calls : step[c] = "aside"
        BY <3>1 DEF Aside
      <4>2. c \notin Recalls
        BY <4>1 DEF Isolated, Based, InMerge
      <4> QED
        BY <4>1, <4>2 DEF Outcome, Told
    <3> QED
      BY <1>2, <3>1, ProcessMovesWiki
  <2>2. \A c \in Calls : step'[c] = IF step[c] \in Ended \cup {"idle"} THEN step[c] ELSE "dead"
    BY <1>2 DEF Crash
  <2>3. ASSUME NEW c \in Calls
        PROVE  Outcome'[c] \in CASE Outcome[c] \in {"running", "merged"} -> {"dead"}
                                  [] Outcome[c] = "failed" -> {"failed", "dead"}
                                  [] OTHER -> {Outcome[c]}
    <3>1. step[c] \in Holding \cup Ended \cup {"idle", "waiting", "abandoned"}
      BY <1>0
    <3>2. Outcome[c] = Told(step[c]) /\ Outcome'[c] = Told(step'[c])
      BY DEF Outcome
    <3>3. CASE step[c] \in Ended \cup {"idle"}
      BY <2>2, <3>2, <3>3 DEF Told, Ended
    <3>4. CASE step[c] \notin Ended \cup {"idle"}
      <4>1. Told(step[c]) \in {"running", "merged", "failed"} /\ Told(step'[c]) = "dead"
        BY <2>2, <3>1, <3>4 DEF Told, Holding
      <4> QED
        BY <3>2, <4>1
    <3> QED
      BY <3>3, <3>4
  <2>4. Outcome' \in [Calls -> Turns!Outcomes]
    <3>1. ASSUME NEW c \in Calls PROVE Told(step'[c]) \in Turns!Outcomes
      BY <1>0, <2>2, <3>1 DEF Told, Ended, Turns!Outcomes
    <3> QED
      BY <3>1 DEF Outcome
  <2> QED
    BY <1>2, <2>1, <2>3, <2>4 DEF Crash, Turns!Die, Turns!Calls, Calls
<1> QED
  BY <1>1, <1>2 DEF Turns!WikiNext

LEMMA NextRefines ==
    ASSUME Core, Credit, Isolated, [Next]_vars
    PROVE  [Turns!WikiNext]_<<Wiki, Outcome, wrote>>
<1>1. CASE UNCHANGED vars
  BY <1>1 DEF vars, dirs, process, Wiki, Aside, Outcome
<1>2. CASE Next
  BY <1>2, CallRefines, ProcessRefines DEF Next
<1> QED
  BY <1>1, <1>2

\* mergeWiki and what surrounds it make a turn one step for its callers: what any
\* of them commits was made from the wiki of that moment, with nothing lost from
\* an active page and nothing of another turn, and is reported truly; only a
\* merge that is left half-way empties the wiki.
THEOREM TurnsTakeEffectAtOnce == Spec => TurnsAreAtomic
<1>1. Init => Core /\ Traces /\ Credit /\ Isolated /\ Turns!WikiInit
  BY InitCore, InitTraces, InitCredit, InitIsolated, InitIsInit
<1>2. Core /\ Traces /\ Credit /\ Isolated /\ [Next]_vars => (Core /\ Traces /\ Credit /\ Isolated)'
  BY NextKeepsCore, NextKeepsTraces, NextKeepsCredit, NextKeepsIsolated
<1>3. Core /\ Traces /\ Credit /\ Isolated /\ [Next]_vars => [Turns!WikiNext]_<<Wiki, Outcome, wrote>>
  BY NextRefines
<1> QED
  BY <1>1, <1>2, <1>3, PTL DEF Spec, TurnsAreAtomic, Turns!WikiSpec

=============================================================================
