--------------------------- MODULE Migration_proofs ---------------------------
(***************************************************************************)
(* Proofs about Migration, for any bundle, any drafts, and any number of   *)
(* runs, edits and faults.  Everything rests on one fact about the text of *)
(* a page: to migrate a migrated page changes nothing, until a page that   *)
(* it links to is gone.                                                    *)
(***************************************************************************)
EXTENDS Migration, TLAPS

-----------------------------------------------------------------------------
(* One page.                                                               *)

LEMMA LinksStayLinks ==
    ASSUME NEW links \in SUBSET Link, NEW files
    PROVE  /\ ConvertWikiLinks(links) \in SUBSET Link
           /\ NormalizeMarkdownLinks(links, files) \in SUBSET Link
<1>1. ASSUME NEW l \in Link PROVE ConvertLink(l) \in Link
  BY DEF ConvertLink, Scanned, Link
<1> QED
  BY <1>1 DEF ConvertWikiLinks, NormalizeMarkdownLinks

LEMMA LegacyMetadataIsMetadata ==
    ASSUME NEW meta \in Metadata
    PROVE  FrontmatterFromLegacy(meta) \in Metadata
BY DEF FrontmatterFromLegacy, NormalizeTrustTier, Inferred, Metadata

\* The first pass: the page is one that the second accepts, its links are converted.
LEMMA LegacyMigratedParts ==
    ASSUME NEW p \in Pages, NEW c \in Content
    PROVE  /\ MigrateLegacyMarkdown(p, c) \in Content
           /\ MigrateLegacyMarkdown(p, c).links = ConvertWikiLinks(c.links)
           /\ MigrateLegacyMarkdown(p, c).front \in {"yaml", "plain"}
<1>1. NoMetadata \in Metadata
  BY DEF NoMetadata, Metadata
<1>2. /\ c.links \in SUBSET Link /\ c.meta \in Metadata
      /\ c.front \in {"plain", "legacy", "yaml", "broken", "cut"}
  BY DEF Content
<1>3. ConvertWikiLinks(c.links) \in SUBSET Link
  BY <1>2, LinksStayLinks
<1> QED
  BY <1>1, <1>2, <1>3, LegacyMetadataIsMetadata
     DEF MigrateLegacyMarkdown, ConvertBody, ConvertHeader, Content

\* The second pass touches only links and line ends.
LEMMA NormalizedParts ==
    ASSUME NEW m \in Content, NEW files
    PROVE  /\ NormalizePage(m, files) \in Content
           /\ NormalizePage(m, files).links = NormalizeMarkdownLinks(m.links, files)
           /\ NormalizePage(m, files).front = m.front
           /\ NormalizePage(m, files).meta = m.meta
           /\ m.front = "yaml" => NormalizePage(m, files).eol = "lf"
<1>1. NormalizeMarkdownLinks(m.links, files) \in SUBSET Link
  BY LinksStayLinks DEF Content
<1> QED
  BY <1>1 DEF NormalizePage, Content

\* The parts of a migrated page: the links are converted and cleaned whatever the
\* page is, and its front is one that a second migration accepts.
LEMMA MigratedParts ==
    ASSUME NEW p \in Pages, NEW c \in Content, NEW files
    PROVE  /\ Migrated(p, c, files) \in Content
           /\ Migrated(p, c, files).links = NormalizeMarkdownLinks(ConvertWikiLinks(c.links), files)
           /\ Migrated(p, c, files).front \in {"yaml", "plain"}
           /\ Migrated(p, c, files).front = "yaml" => Migrated(p, c, files).eol = "lf"
BY LegacyMigratedParts, NormalizedParts DEF Migrated

\* Links that were converted and cleaned stay as they are.
LEMMA LinksSettle ==
    ASSUME NEW links \in SUBSET Link, NEW files
    PROVE  LET settled == NormalizeMarkdownLinks(ConvertWikiLinks(links), files)
           IN  /\ ConvertWikiLinks(settled) = settled
               /\ \A l \in settled : ~IsRemoved(l, files)
<1> DEFINE settled == NormalizeMarkdownLinks(ConvertWikiLinks(links), files)
<1>1. ASSUME NEW l \in settled
      PROVE  ConvertLink(l) = l /\ ~IsRemoved(l, files)
  <2>1. PICK k \in links : l = ConvertLink(k)
    BY DEF NormalizeMarkdownLinks, ConvertWikiLinks
  <2>2. Scanned(l) => l.form = "md"
    BY <2>1 DEF ConvertLink, Scanned, Link
  <2>3. l \in Link
    BY LinksStayLinks
  <2>4. ConvertLink(l) = l
    BY <2>2, <2>3 DEF ConvertLink, Link
  <2> QED
    BY <2>4 DEF NormalizeMarkdownLinks
<1> HIDE DEF settled
<1>2. ConvertWikiLinks(settled) = settled
  BY <1>1 DEF ConvertWikiLinks
<1> QED
  BY <1>1, <1>2 DEF settled

\* What a migration has made of a page is left alone by every migration that finds no
\* link of it to remove, whatever files have come and gone.
LEMMA MigratedStays ==
    ASSUME NEW p \in Pages, NEW m \in Content, NEW files,
           m.front \in {"yaml", "plain"}, m.front = "yaml" => m.eol = "lf",
           ConvertWikiLinks(m.links) = m.links, \A l \in m.links : ~IsRemoved(l, files)
    PROVE  Migrated(p, m, files) = m
<1>1. NormalizeMarkdownLinks(m.links, files) = m.links
  BY DEF NormalizeMarkdownLinks
<1>2. MigrateLegacyMarkdown(p, m) = m
  BY DEF MigrateLegacyMarkdown, ConvertBody
<1>3. NormalizePage(m, files) = m
  BY <1>1 DEF NormalizePage, Content
<1> QED
  BY <1>2, <1>3 DEF Migrated

\* To migrate a migrated page again, with the same files beside it, changes nothing,
\* whatever the page was: what a run has converted, no later run writes again.
THEOREM MigrationIsIdempotent ==
    ASSUME NEW p \in Pages, NEW c \in Content, NEW files
    PROVE  Migrated(p, Migrated(p, c, files), files) = Migrated(p, c, files)
<1> DEFINE m == Migrated(p, c, files)
<1>1. /\ m \in Content
      /\ m.links = NormalizeMarkdownLinks(ConvertWikiLinks(c.links), files)
      /\ m.front \in {"yaml", "plain"}
      /\ m.front = "yaml" => m.eol = "lf"
  BY MigratedParts
<1>2. ConvertWikiLinks(m.links) = m.links /\ \A l \in m.links : ~IsRemoved(l, files)
  BY <1>1, LinksSettle DEF Content
<1> HIDE DEF m
<1>3. Migrated(p, m, files) = m
  BY <1>1, <1>2, MigratedStays
<1> QED
  BY <1>3 DEF m

\* A page with nothing to migrate goes on having nothing to migrate until a page it
\* links to is gone.
LEMMA DoneUntilTargetGoes ==
    ASSUME NEW p \in Pages, NEW c \in Content, NEW old, NEW new,
           Migrated(p, c, old) = c, \A l \in c.links : l.to \in old => l.to \in new
    PROVE  Migrated(p, c, new) = c
<1>1. /\ c.links = NormalizeMarkdownLinks(ConvertWikiLinks(c.links), old)
      /\ c.front \in {"yaml", "plain"}
      /\ c.front = "yaml" => c.eol = "lf"
  BY MigratedParts
<1>2. ConvertWikiLinks(c.links) = c.links /\ \A l \in c.links : ~IsRemoved(l, old)
  BY <1>1, LinksSettle DEF Content
<1>3. \A l \in c.links : ~IsRemoved(l, new)
  BY <1>2 DEF IsRemoved, IsBroken
<1> QED
  BY <1>1, <1>2, <1>3, MigratedStays

-----------------------------------------------------------------------------
(* Types.                                                                  *)

\* Pages that a sequence names.
Named(s) == {s[i] : i \in DOMAIN s}

LEMMA FirstPage ==
    ASSUME NEW s \in Seq(Pages), s # <<>>
    PROVE  Head(s) \in Pages /\ Tail(s) \in Seq(Pages)
OBVIOUS

LEMMA SpecialFiles ==
    /\ CutFile \in Content
    /\ NoFile \notin Content
    /\ CutFile # NoFile
    /\ NoFile.front = "absent"
    /\ \A c \in Content : c # NoFile /\ c.front # "absent"
    /\ \A c \in Drafts : c \in Content /\ c # CutFile /\ c # NoFile
BY DraftsAssumption DEF CutFile, NoFile, NoMetadata, Content, Metadata

LEMMA InitTypes == Init => TypeOK
<1> SUFFICES ASSUME Init PROVE TypeOK
  OBVIOUS
<1>1. /\ todo = <<>> /\ exit = 0
      /\ runs = 0 /\ edits = 0 /\ faults = 0
  BY DEF Init
<1>2. /\ todo \in Seq(Pages) /\ exit \in 0..2
      /\ {runs, edits, faults} \subseteq Nat
  BY <1>1
<1> QED
  BY <1>2, SpecialFiles DEF Init, TypeOK

\* Each part of a step's result by itself: the counters, the walk, the files.
LEMMA CountersKeepTypes ==
    ASSUME TypeOK, [Next]_vars
    PROVE  {runs', edits', faults'} \subseteq Nat /\ exit' \in 0..2
<1>1. /\ runs' \in {runs, runs + 1}
      /\ edits' \in {edits, edits + 1}
      /\ faults' \in {faults, faults + 1}
  BY DEF Next, Start, ReadPage, OpenBackup, FillBackup, WriteTemp, SwapPage, WriteFails,
         Finish, Edit, Remove, Crash, bounds, run, vars
<1>2. exit' \in {exit, 0, 1, 2}
  BY DEF Next, Start, ReadPage, OpenBackup, FillBackup, WriteTemp, SwapPage, WriteFails,
         Finish, ExitCode, Edit, Remove, Crash, Stop, NextPage, run, vars
<1>3. /\ runs \in Nat /\ edits \in Nat /\ faults \in Nat
      /\ exit \in 0..2
  BY DEF TypeOK
<1> QED
  BY <1>1, <1>2, <1>3

WalkTypes ==
    /\ todo \in Seq(Pages)
    /\ pc \in {"idle", "read", "backup", "fill", "temp", "swap"}
    /\ pc \in {"backup", "fill", "temp", "swap"} => todo # <<>>

LEMMA WalkKeepsTypes ==
    ASSUME WalkTypes, [Next]_vars
    PROVE  WalkTypes'
<1>1. todo # <<>> => Tail(todo) \in Seq(Pages)
  BY FirstPage DEF WalkTypes
<1>2. Walk \in Seq(Pages) /\ <<>> \in Seq(Pages)
  BY WalkAssumption
<1> USE DEF WalkTypes
<1>3. CASE Start
  BY <1>2, <1>3 DEF Start
<1>4. CASE ReadPage
  BY <1>1, <1>2, <1>4 DEF ReadPage, Stop, NextPage
<1>5. CASE OpenBackup
  BY <1>2, <1>5 DEF OpenBackup, Stop
<1>6. CASE FillBackup \/ WriteTemp
  BY <1>6 DEF FillBackup, WriteTemp
<1>7. CASE SwapPage
  BY <1>1, <1>7 DEF SwapPage, NextPage
<1>8. CASE WriteFails \/ Crash
  BY <1>2, <1>8 DEF WriteFails, Crash, Stop
<1>9. CASE Finish
  BY <1>9 DEF Finish
<1>10. ASSUME NEW p \in Pages, NEW c \in Drafts, Edit(p, c)
       PROVE  WalkTypes'
  BY <1>10 DEF Edit, run
<1>11. ASSUME NEW p \in Pages, Remove(p)
       PROVE  WalkTypes'
  BY <1>11 DEF Remove, run
<1>12. CASE UNCHANGED vars
  BY <1>12 DEF vars
<1> QED
  BY <1>3, <1>4, <1>5, <1>6, <1>7, <1>8, <1>9, <1>10, <1>11, <1>12 DEF Next

FileTypes ==
    /\ page \in [Pages -> Content \union {NoFile}]
    /\ backup \in [Pages -> Content \union {NoFile}]
    /\ data \in Content /\ text \in Content
    /\ before \in [Pages -> Content \union {NoFile}]
    /\ draft \in [Pages -> Content \union {NoFile}]
    /\ mode \in {"dry", "check", "write", "bare"}
    /\ why \in {"", "done", "parse", "gone", "backup", "write", "died"}
    /\ quiet \in BOOLEAN
    /\ changes \in SUBSET Pages /\ unkept \in SUBSET Pages /\ upset \in SUBSET Pages

LEMMA FilesKeepTypes ==
    ASSUME FileTypes, todo # <<>> => Head(todo) \in Pages, [Next]_vars,
           pc \in {"backup", "fill", "temp", "swap"} => todo # <<>>
    PROVE  FileTypes'
<1> USE DEF FileTypes, disk, bounds, history
<1>1. CASE Start
  BY <1>1, RunsAssumption DEF Start
<1>2. CASE ReadPage
  <2>1. \/ data' = data /\ text' = text
        \/ /\ data' = page[Head(todo)] /\ data'.front # "absent"
           /\ text' = Migrated(Head(todo), data', Files(page))
    BY <1>2 DEF ReadPage, Stop, NextPage
  <2>2. Head(todo) \in Pages
    BY <1>2 DEF ReadPage
  <2>3. data' \in Content
    BY <2>1, <2>2, SpecialFiles
  <2>4. text' \in Content
    <3>1. Migrated(Head(todo), data', Files(page)) \in Content
      BY <2>2, <2>3, MigratedParts
    <3> QED
      BY <2>1, <3>1
  <2> QED
    BY <1>2, <2>2, <2>3, <2>4 DEF ReadPage, Stop, NextPage
<1>3. CASE OpenBackup
  BY <1>3, SpecialFiles DEF OpenBackup, Stop
<1>4. CASE FillBackup
  BY <1>4 DEF FillBackup
<1>5. CASE WriteTemp
  BY <1>5 DEF WriteTemp
<1>6. CASE SwapPage
  <2>1. Head(todo) \in Pages
    BY <1>6 DEF SwapPage
  <2> QED
    BY <1>6, <2>1 DEF SwapPage, NextPage
<1>7. CASE WriteFails
  BY <1>7 DEF WriteFails, Stop, InHand
<1>8. CASE Finish
  BY <1>8 DEF Finish
<1>9. ASSUME NEW p \in Pages, NEW c \in Drafts, Edit(p, c)
      PROVE  FileTypes'
  BY <1>9, SpecialFiles DEF Edit, run
<1>10. CASE Crash
  BY <1>10 DEF Crash, InHand
<1>11. ASSUME NEW p \in Pages, Remove(p)
       PROVE  FileTypes'
  BY <1>11 DEF Remove, run
<1>12. CASE UNCHANGED vars
  BY <1>12 DEF vars
<1> QED
  BY <1>1, <1>2, <1>3, <1>4, <1>5, <1>6, <1>7, <1>8, <1>9, <1>10, <1>11, <1>12 DEF Next

LEMMA NextKeepsTypes ==
    ASSUME TypeOK, [Next]_vars
    PROVE  TypeOK'
<1>1. WalkTypes /\ FileTypes
  BY DEF TypeOK, WalkTypes, FileTypes
<1>2. todo # <<>> => Head(todo) \in Pages
  BY <1>1, FirstPage DEF WalkTypes
<1>3. WalkTypes' /\ FileTypes'
  BY <1>1, <1>2, WalkKeepsTypes, FilesKeepTypes DEF WalkTypes
<1> QED
  BY <1>3, CountersKeepTypes DEF TypeOK, WalkTypes, FileTypes

\* Every variable keeps its type, and a run that is about to write has a page in
\* hand.
THEOREM TypesHold == Spec => []TypeOK
BY InitTypes, NextKeepsTypes, PTL DEF Spec

-----------------------------------------------------------------------------
(* What people wrote.                                                      *)

\* While a run works on a page, its backup is what it has read.
Backed ==
    /\ draft \in [Pages -> Drafts \union {NoFile}]
    /\ pc \in {"backup", "fill", "temp", "swap"} =>
           \E files \in SUBSET Pages : text = Migrated(Head(todo), data, files)
    /\ pc = "fill" => mode = "write" /\ backup[Head(todo)] = CutFile
    /\ pc \in {"temp", "swap"} /\ mode # "bare" => backup[Head(todo)] = data
    /\ pc = "backup" => mode = "write"

Recoverable == Backed /\ OriginalIsRecoverable

\* The first half of OriginalIsRecoverable, for one page.
OnPage(p) ==
    \/ page[p] = draft[p]
    \/ draft[p] # NoFile /\ \E files \in SUBSET Pages : page[p] = Migrated(p, draft[p], files)

LEMMA InitRecoverable == Init => Recoverable
BY DEF Init, Recoverable, Backed, OriginalIsRecoverable

LEMMA RunKeepsRecoverable ==
    ASSUME TypeOK, Recoverable, Start \/ ReadPage \/ Finish \/ WriteFails \/ Crash
    PROVE  Recoverable'
<1> USE DEF Recoverable, Backed, disk, run, bounds, history
<1>1. page' = page /\ backup' = backup /\ draft' = draft /\ unkept' = unkept
  BY DEF Start, ReadPage, Finish, WriteFails, Crash
<1>2. OriginalIsRecoverable'
  BY <1>1 DEF OriginalIsRecoverable
<1>3. CASE Start
  BY <1>1, <1>2, <1>3 DEF Start
<1>4. CASE ReadPage
  <2>1. \/ pc' \in {"idle", "read"}
        \/ /\ pc' = (IF mode = "write" THEN "backup" ELSE "temp")
           /\ Writes /\ mode' = mode /\ todo' = todo
           /\ data' = page[Head(todo)] /\ text' = Migrated(Head(todo), data', Files(page))
    BY <1>4 DEF ReadPage, Stop, NextPage
  <2>2. Files(page) \in SUBSET Pages
    BY DEF Files
  <2> QED
    BY <1>1, <1>2, <2>1, <2>2 DEF Writes
<1>5. CASE Finish
  BY <1>1, <1>2, <1>5 DEF Finish
<1>6. CASE WriteFails
  BY <1>1, <1>2, <1>6 DEF WriteFails, Stop
<1>7. CASE Crash
  BY <1>1, <1>2, <1>7 DEF Crash
<1> QED
  BY <1>3, <1>4, <1>5, <1>6, <1>7

LEMMA WritingKeepsRecoverable ==
    ASSUME TypeOK, Recoverable, OpenBackup \/ FillBackup \/ WriteTemp \/ SwapPage
    PROVE  Recoverable'
<1>1. Head(todo) \in Pages
  BY FirstPage DEF TypeOK, OpenBackup, FillBackup, WriteTemp, SwapPage
<1> USE DEF TypeOK, Recoverable, Backed, OriginalIsRecoverable, disk, run, bounds, history
<1>2. CASE OpenBackup
  <2>1. CASE pc' = "idle"
    <3>1. UNCHANGED <<page, backup, draft, unkept>>
      BY <1>2, <2>1 DEF OpenBackup, Stop
    <3> QED
      BY <2>1, <3>1
  <2>2. CASE pc' # "idle"
    <3>1. /\ backup[Head(todo)] = NoFile
          /\ backup' = [backup EXCEPT ![Head(todo)] = CutFile]
          /\ pc = "backup" /\ pc' = "fill"
          /\ UNCHANGED <<page, draft, unkept, mode, todo, data, text>>
      BY <1>2, <2>2 DEF OpenBackup, Stop
    <3>2. \A p \in Pages \ unkept : draft[p] \in {page[p], backup'[p]}
      BY <1>1, <3>1
    <3> QED
      BY <1>1, <3>1, <3>2
  <2> QED
    BY <2>1, <2>2
<1>3. CASE FillBackup
  BY <1>1, <1>3, SpecialFiles DEF FillBackup
<1>4. CASE WriteTemp
  BY <1>4 DEF WriteTemp
<1>5. CASE SwapPage
  <2>1. Backed'
    BY <1>5 DEF SwapPage, NextPage
  <2>2. ASSUME NEW p \in Pages, p \notin unkept'
        PROVE  OnPage(p)' /\ draft[p] \in {page'[p], backup[p]}
    <3>1. CASE p # Head(todo)
      BY <1>5, <2>2, <3>1 DEF SwapPage, OnPage
    <3>2. CASE p = Head(todo)
      <4>1. mode # "bare" /\ page[p] = data /\ p \notin unkept /\ page'[p] = text
        BY <1>1, <1>5, <2>2, <3>2 DEF SwapPage
      <4>2. backup[p] = page[p] /\ draft' = draft
        BY <1>1, <1>5, <3>2, <4>1 DEF SwapPage
      <4>3. page[p] # NoFile
        BY <4>1, SpecialFiles
      <4>4. CASE page[p] = draft[p]
        BY <1>5, <3>2, <4>1, <4>2, <4>3, <4>4 DEF SwapPage, OnPage
      <4>5. CASE page[p] # draft[p]
        BY <4>1, <4>2, <4>5
      <4> QED
        BY <4>4, <4>5
    <3> QED
      BY <3>1, <3>2
  <2> QED
    BY <1>5, <2>1, <2>2 DEF SwapPage, OnPage
<1> QED
  BY <1>2, <1>3, <1>4, <1>5

LEMMA TouchKeepsRecoverable ==
    ASSUME TypeOK, Recoverable, NEW p \in Pages,
           (\E c \in Drafts : Edit(p, c)) \/ Remove(p)
    PROVE  Recoverable'
<1>1. /\ \E c \in Drafts \union {NoFile} :
             page' = [page EXCEPT ![p] = c] /\ draft' = [draft EXCEPT ![p] = c]
      /\ unkept' = unkept \ {p}
      /\ UNCHANGED <<backup, pc, mode, todo, data, text>>
  BY DEF Edit, Remove, run
<1>2. page'[p] = draft'[p]
  BY <1>1 DEF TypeOK
<1>3. \A q \in Pages : q # p => page'[q] = page[q] /\ draft'[q] = draft[q]
  BY <1>1 DEF TypeOK
<1>4. draft' \in [Pages -> Drafts \union {NoFile}]
  BY <1>1 DEF Recoverable, Backed
<1>5. OriginalIsRecoverable'
  BY <1>1, <1>2, <1>3 DEF Recoverable, OriginalIsRecoverable
<1> QED
  BY <1>1, <1>4, <1>5 DEF Recoverable, Backed

LEMMA NextKeepsRecoverable ==
    ASSUME TypeOK, Recoverable, [Next]_vars
    PROVE  Recoverable'
<1>1. CASE UNCHANGED vars
  BY <1>1 DEF vars, Recoverable, Backed, OriginalIsRecoverable
<1> QED
  BY <1>1, RunKeepsRecoverable, WritingKeepsRecoverable, TouchKeepsRecoverable DEF Next

\* What a person wrote on a page is on the page, migrated on the page or beside it
\* in the backup, whatever fails and whenever the process dies.
THEOREM DraftsAreRecoverable == Spec => []OriginalIsRecoverable
<1>1. Init => TypeOK /\ Recoverable
  BY InitTypes, InitRecoverable
<1>2. TypeOK /\ Recoverable /\ [Next]_vars => (TypeOK /\ Recoverable)'
  BY NextKeepsTypes, NextKeepsRecoverable
<1>3. Recoverable => OriginalIsRecoverable
  BY DEF Recoverable
<1> QED
  BY <1>1, <1>2, <1>3, PTL DEF Spec

-----------------------------------------------------------------------------
(* Backups in the way.                                                     *)

\* A page that has a backup is done, unless a run is at work on it, left it half
\* done, or somebody touched it, or a page it links to, since.  The text that is to
\* take a page's place is done likewise.
BackupsAreOfDonePages ==
    /\ pc = "backup" => backup[Head(todo)] = NoFile \/ Head(todo) \in upset
    /\ \A p \in Pages \ (upset \union InHand) :
           backup[p] # NoFile => page[p] = NoFile \/ ~Changes(p, page[p])
    /\ \A p \in AtWork \ upset : Migrated(p, text, Files(page)) = text

LEMMA InitBackups == Init => BackupsAreOfDonePages
BY DEF Init, BackupsAreOfDonePages, AtWork

\* What a run does before it replaces a page leaves the pages alone.
LEMMA RunKeepsBackups ==
    ASSUME TypeOK, BackupsAreOfDonePages,
           \/ Start \/ ReadPage \/ OpenBackup \/ FillBackup \/ WriteTemp
           \/ WriteFails \/ Finish \/ Crash
    PROVE  BackupsAreOfDonePages'
<1>1. page' = page /\ \A p : Changes(p, page[p])' = Changes(p, page[p])
  BY DEF Start, ReadPage, OpenBackup, FillBackup, WriteTemp, WriteFails, Finish, Crash,
         Stop, disk, Changes
<1> USE DEF BackupsAreOfDonePages, InHand, AtWork
<1>2. CASE Start \/ Finish
  BY <1>1, <1>2 DEF Start, Finish, disk, history
<1>3. CASE ReadPage
  <2> DEFINE p == Head(todo)
  <2>1. /\ p \in Pages /\ pc = "read"
        /\ backup' = backup /\ upset' = upset
    BY <1>3, FirstPage DEF ReadPage, TypeOK, disk, history
  <2>2. \/ pc' \in {"idle", "read"}
        \/ /\ pc' \in {"backup", "temp"} /\ todo' = todo
           /\ page[p].front # "absent" /\ Changes(p, page[p])
           /\ text' = Migrated(p, page[p], Files(page))
    BY <1>3 DEF ReadPage, Stop, NextPage
  <2>3. CASE pc' \in {"idle", "read"}
    BY <1>1, <2>1, <2>3
  <2>4. CASE pc' \notin {"idle", "read"}
    <3>1. page[p] \in Content
      BY <2>1, <2>2, <2>4, SpecialFiles DEF TypeOK
    <3>2. Migrated(p, text', Files(page)) = text'
      BY <2>1, <2>2, <2>4, <3>1, MigrationIsIdempotent
    <3>3. backup[p] # NoFile => p \in upset
      BY <2>1, <2>2, <2>4, <3>1, SpecialFiles
    <3> QED
      BY <1>1, <2>1, <2>2, <2>4, <3>2, <3>3
  <2> QED
    BY <2>3, <2>4
<1>4. CASE OpenBackup
  <2>1. CASE pc' = "idle"
    BY <1>1, <1>4, <2>1 DEF OpenBackup, Stop, disk, history
  <2>2. CASE pc' # "idle"
    <3>1. /\ pc = "backup" /\ pc' = "fill" /\ todo' = todo /\ text' = text /\ upset' = upset
          /\ \A p \in Pages : p # Head(todo) => backup'[p] = backup[p]
      BY <1>4, <2>2 DEF OpenBackup, Stop, history, TypeOK
    <3> QED
      BY <1>1, <3>1
  <2> QED
    BY <2>1, <2>2
<1>5. CASE FillBackup
  <2>1. /\ pc = "fill" /\ pc' = "temp" /\ todo' = todo /\ text' = text /\ upset' = upset
        /\ \A p \in Pages : p # Head(todo) => backup'[p] = backup[p]
    BY <1>5 DEF FillBackup, history, TypeOK
  <2> QED
    BY <1>1, <2>1
<1>6. CASE WriteTemp
  BY <1>1, <1>6 DEF WriteTemp, disk, history
<1>7. CASE WriteFails \/ Crash
  BY <1>1, <1>7 DEF WriteFails, Crash, Stop, disk
<1> QED
  BY <1>2, <1>3, <1>4, <1>5, <1>6, <1>7

\* A page that appears takes no link's target away.
LEMMA MoreFilesKeepDone ==
    ASSUME TypeOK, NEW p \in Pages, NEW c \in Content, Migrated(p, c, Files(page)) = c,
           Files(page) \subseteq Files(page')
    PROVE  Migrated(p, c, Files(page')) = c
BY DoneUntilTargetGoes

LEMMA SwapKeepsBackups ==
    ASSUME TypeOK, BackupsAreOfDonePages, SwapPage
    PROVE  BackupsAreOfDonePages'
<1> DEFINE p == Head(todo)
<1>1. /\ p \in Pages /\ text \in Content /\ text # NoFile
      /\ pc = "swap" /\ pc' = "read" /\ backup' = backup /\ upset' = upset
      /\ page' = [page EXCEPT ![p] = text]
  BY FirstPage, SpecialFiles DEF SwapPage, NextPage, TypeOK
<1>2. page'[p] = text /\ \A q \in Pages \ {p} : page'[q] = page[q]
  BY <1>1 DEF TypeOK
<1>3. Files(page) \subseteq Files(page')
  BY <1>1, <1>2 DEF Files
<1>4. ASSUME NEW q \in Pages \ upset, backup[q] # NoFile
      PROVE  page'[q] = NoFile \/ Migrated(q, page'[q], Files(page')) = page'[q]
  <2>1. CASE q = p
    <3>1. Migrated(p, text, Files(page)) = text
      BY <1>1, <1>4, <2>1 DEF BackupsAreOfDonePages, AtWork
    <3> QED
      BY <1>1, <1>2, <1>3, <2>1, <3>1, MoreFilesKeepDone
  <2>2. CASE q # p /\ page[q] # NoFile
    <3>1. page[q] \in Content /\ Migrated(q, page[q], Files(page)) = page[q]
      BY <1>1, <1>4, <2>2 DEF BackupsAreOfDonePages, InHand, Changes, TypeOK
    <3> QED
      BY <1>2, <1>3, <2>2, <3>1, MoreFilesKeepDone
  <2> QED
    BY <1>2, <2>1, <2>2
<1> QED
  BY <1>1, <1>4 DEF BackupsAreOfDonePages, AtWork, Changes

LEMMA EditKeepsBackups ==
    ASSUME TypeOK, BackupsAreOfDonePages, NEW p \in Pages, NEW c \in Drafts, Edit(p, c)
    PROVE  BackupsAreOfDonePages'
<1>1. /\ backup' = backup /\ UNCHANGED <<pc, todo, text>>
      /\ upset \subseteq upset'
      /\ backup[p] # NoFile => p \in upset'
      /\ page' = [page EXCEPT ![p] = c]
  BY DEF Edit, run
<1>2. page'[p] = c /\ \A q \in Pages \ {p} : page'[q] = page[q]
  BY <1>1 DEF TypeOK
<1>3. Files(page) \subseteq Files(page')
  BY <1>1, <1>2, SpecialFiles DEF Files
<1>4. ASSUME NEW q \in Pages \ (upset' \union InHand), backup[q] # NoFile
      PROVE  page'[q] = NoFile \/ Migrated(q, page'[q], Files(page')) = page'[q]
  <2>1. q # p /\ q \notin upset
    BY <1>1, <1>4
  <2>2. CASE page[q] # NoFile
    <3>1. page[q] \in Content /\ Migrated(q, page[q], Files(page)) = page[q]
      BY <1>4, <2>1, <2>2 DEF BackupsAreOfDonePages, Changes, TypeOK
    <3> QED
      BY <1>2, <1>3, <2>1, <3>1, MoreFilesKeepDone
  <2> QED
    BY <1>2, <2>1, <2>2
<1>5. ASSUME NEW q \in AtWork \ upset
      PROVE  Migrated(q, text, Files(page')) = text
  <2>1. q \in Pages /\ text \in Content
    BY FirstPage DEF TypeOK, AtWork
  <2> QED
    BY <1>3, <2>1, MoreFilesKeepDone DEF BackupsAreOfDonePages
<1> QED
  BY <1>1, <1>4, <1>5 DEF BackupsAreOfDonePages, AtWork, InHand, Changes

LEMMA RemoveKeepsBackups ==
    ASSUME TypeOK, BackupsAreOfDonePages, NEW p \in Pages, Remove(p)
    PROVE  BackupsAreOfDonePages'
<1>1. /\ backup' = backup /\ UNCHANGED <<pc, todo, text>>
      /\ \A q \in Pages : q \notin upset' =>
             /\ q \notin upset
             /\ (backup[q] # NoFile \/ q \in AtWork) => q # p /\ ~LinksTo(q, p)
      /\ page' = [page EXCEPT ![p] = NoFile]
      /\ upset \subseteq upset'
  BY DEF Remove, run
<1>2. page'[p] = NoFile /\ \A q \in Pages \ {p} : page'[q] = page[q]
  BY <1>1 DEF TypeOK
<1>3. Files(page) \subseteq Files(page') \union {p}
  BY <1>2 DEF Files
<1>4. ASSUME NEW q \in Pages \ (upset' \union InHand), backup[q] # NoFile
      PROVE  page'[q] = NoFile \/ Migrated(q, page'[q], Files(page')) = page'[q]
  <2>1. q \notin upset /\ q # p /\ ~LinksTo(q, p)
    BY <1>1, <1>4
  <2>2. CASE page[q] # NoFile
    <3>1. page[q] \in Content /\ Migrated(q, page[q], Files(page)) = page[q]
      BY <1>4, <2>1, <2>2 DEF BackupsAreOfDonePages, Changes, TypeOK
    <3>2. \A l \in page[q].links : l.to # p
      BY <2>1 DEF LinksTo
    <3>3. Migrated(q, page[q], Files(page')) = page[q]
      BY <1>3, <3>1, <3>2, DoneUntilTargetGoes
    <3> QED
      BY <1>2, <2>1, <3>3
  <2> QED
    BY <1>2, <2>1, <2>2
<1>5. ASSUME NEW q \in AtWork \ upset'
      PROVE  Migrated(q, text, Files(page')) = text
  <2>1. q \in Pages /\ text \in Content
    BY FirstPage DEF TypeOK, AtWork
  <2>2. q \notin upset /\ \A l \in text.links : l.to # p
    BY <1>1, <2>1 DEF LinksTo
  <2> QED
    BY <1>3, <2>1, <2>2, DoneUntilTargetGoes DEF BackupsAreOfDonePages
<1> QED
  BY <1>1, <1>4, <1>5 DEF BackupsAreOfDonePages, AtWork, InHand, Changes

LEMMA NextKeepsBackups ==
    ASSUME TypeOK, BackupsAreOfDonePages, [Next]_vars
    PROVE  BackupsAreOfDonePages'
<1>1. CASE UNCHANGED vars
  BY <1>1 DEF vars, BackupsAreOfDonePages, InHand, AtWork, Changes
<1> QED
  BY <1>1, RunKeepsBackups, SwapKeepsBackups, EditKeepsBackups, RemoveKeepsBackups DEF Next

\* A backup stops a run only at a page that an earlier run left half done, or that,
\* since it had a backup, was touched by somebody or lost a page that it links to.
THEOREM RefusalsHaveACause == Spec => []NoStrayRefusal
<1>1. Init => TypeOK /\ BackupsAreOfDonePages
  BY InitTypes, InitBackups
<1>2. TypeOK /\ BackupsAreOfDonePages /\ [Next]_vars => (TypeOK /\ BackupsAreOfDonePages)'
  BY NextKeepsTypes, NextKeepsBackups
<1>3. BackupsAreOfDonePages => NoStrayRefusal
  BY DEF BackupsAreOfDonePages, NoStrayRefusal
<1> QED
  BY <1>1, <1>2, <1>3, PTL DEF Spec

-----------------------------------------------------------------------------
(* The report.                                                             *)

LEMMA NamedPages ==
    ASSUME NEW s \in Seq(Pages), s # <<>>
    PROVE  Named(s) = {Head(s)} \cup Named(Tail(s))
<1>1. /\ Len(s) \in Nat \ {0} /\ DOMAIN s = 1..Len(s)
      /\ Head(s) = s[1]
      /\ DOMAIN Tail(s) = 1..(Len(s) - 1)
      /\ \A i \in 1..(Len(s) - 1) : Tail(s)[i] = s[i + 1]
  OBVIOUS
<1>2. ASSUME NEW i \in DOMAIN s
      PROVE  s[i] \in {Head(s)} \cup Named(Tail(s))
  <2>1. CASE i = 1
    BY <1>1, <2>1
  <2>2. CASE i # 1
    <3>1. i - 1 \in 1..(Len(s) - 1) /\ Tail(s)[i - 1] = s[i]
      BY <1>1, <2>2
    <3> QED
      BY <1>1, <3>1 DEF Named
  <2> QED
    BY <2>1, <2>2
<1>3. ASSUME NEW j \in DOMAIN Tail(s)
      PROVE  Tail(s)[j] \in Named(s)
  <2>1. j + 1 \in DOMAIN s /\ Tail(s)[j] = s[j + 1]
    BY <1>1
  <2> QED
    BY <2>1 DEF Named
<1>4. Head(s) \in Named(s)
  BY <1>1 DEF Named
<1> QED
  BY <1>2, <1>3, <1>4 DEF Named

\* The migration of a page that exists is a page, and stays the same when repeated.
LEMMA MigratedBundleTypes ==
    ASSUME NEW bundle \in [Pages -> Content \union {NoFile}], NEW p \in Pages
    PROVE  /\ MigratedBundle(bundle)[p] = NoFile <=> bundle[p] = NoFile
           /\ bundle[p] # NoFile =>
                  /\ bundle[p] \in Content
                  /\ MigratedBundle(bundle)[p] = Migrated(p, bundle[p], Files(bundle))
                  /\ Migrated(p, MigratedBundle(bundle)[p], Files(bundle)) = MigratedBundle(bundle)[p]
<1>1. CASE bundle[p] = NoFile
  BY <1>1 DEF MigratedBundle, Files
<1>2. CASE bundle[p] # NoFile
  <2>1. MigratedBundle(bundle)[p] = Migrated(p, bundle[p], Files(bundle))
    BY <1>2 DEF MigratedBundle, Files
  <2>2. bundle[p] \in Content
    BY <1>2
  <2> QED
    BY <1>2, <2>1, <2>2, MigratedParts, MigrationIsIdempotent, SpecialFiles
<1> QED
  BY <1>1, <1>2

\* What the run under way would change.
Migrates(p) == MigratedBundle(before)[p] # before[p]

\* In the middle of a run that nobody disturbs: the report names the pages that the
\* walk has passed and that had something to migrate, and they are migrated iff the
\* run writes.
InStep ==
    pc # "idle" /\ quiet =>
        /\ \A p \in changes : Migrates(p)
        /\ \A p \in Pages \ Named(todo) : Migrates(p) => p \in changes
        /\ \A p \in Pages :
               page[p] = IF Writes /\ p \in changes THEN MigratedBundle(before)[p] ELSE before[p]
        /\ exit = 0
        /\ pc # "read" =>
               /\ Writes /\ Head(todo) \notin changes
               /\ Migrates(Head(todo)) /\ text = MigratedBundle(before)[Head(todo)]

Reported == InStep /\ ReportIsTrue

LEMMA InitReported == Init => Reported
BY DEF Init, Reported, InStep, ReportIsTrue

\* A run that nobody disturbs finds the pages that were there, each as it was or
\* migrated, and so takes for migrated what it began by taking for migrated.
LEMMA UndisturbedPage ==
    ASSUME TypeOK, InStep, pc # "idle", quiet, NEW p \in Pages
    PROVE  /\ Files(page) = Files(before)
           /\ page[p] = NoFile <=> before[p] = NoFile
           /\ page[p] # NoFile => /\ Migrated(p, page[p], Files(page)) = MigratedBundle(before)[p]
                                  /\ Changes(p, page[p]) => page[p] = before[p]
<1>1. \A q \in Pages : page[q] \in {before[q], MigratedBundle(before)[q]}
  BY DEF InStep
<1>2. before \in [Pages -> Content \union {NoFile}]
  BY DEF TypeOK
<1>3. \A q \in Pages : page[q] = NoFile <=> before[q] = NoFile
  BY <1>1, <1>2, MigratedBundleTypes
<1>4. Files(page) = Files(before)
  BY <1>3 DEF Files
<1>5. page[p] # NoFile => Migrated(p, page[p], Files(before)) = MigratedBundle(before)[p]
  BY <1>1, <1>2, <1>3, MigratedBundleTypes
<1> QED
  BY <1>1, <1>3, <1>4, <1>5 DEF Changes

LEMMA WalkReported ==
    ASSUME TypeOK, Reported, Start \/ ReadPage \/ Finish
    PROVE  Reported'
<1>1. CASE Start
  <2>1. Pages = Named(Walk)
    BY WalkAssumption DEF Named
  <2>2. InStep'
    BY <1>1, <2>1 DEF Start, InStep, TypeOK, disk
  <2>3. ReportIsTrue'
    BY <1>1 DEF Start, ReportIsTrue
  <2> QED
    BY <2>2, <2>3 DEF Reported
<1>2. CASE ReadPage
  <2> DEFINE p == Head(todo)
  <2>1. /\ todo \in Seq(Pages) /\ todo # <<>> /\ p \in Pages
        /\ Named(todo) = {p} \cup Named(Tail(todo))
    BY <1>2, FirstPage, NamedPages DEF ReadPage, TypeOK
  <2>2. ASSUME quiet, pc' # "idle"
        PROVE  InStep'
    <3>1. /\ pc = "read" /\ quiet' /\ before' = before /\ page' = page
          /\ \A q : Migrates(q)' = Migrates(q)
      BY <1>2, <2>2 DEF ReadPage, history, disk, Migrates
    <3>2. /\ page[p] = NoFile <=> before[p] = NoFile
          /\ before[p] = NoFile => ~Migrates(p)
          /\ page[p] # NoFile => /\ Migrated(p, page[p], Files(page)) = MigratedBundle(before)[p]
                                 /\ Changes(p, page[p]) => page[p] = before[p]
      <4>1. before[p] = NoFile => ~Migrates(p)
        BY <2>1, MigratedBundleTypes DEF Migrates, TypeOK
      <4> QED
        BY <2>1, <2>2, <3>1, <4>1, UndisturbedPage DEF Reported
    <3> HIDE DEF p
    <3>3. CASE /\ page[p] = NoFile \/ ~Changes(p, page[p])
               /\ NextPage /\ UNCHANGED changes
      <4>1. Migrates(p) => p \in changes
        <5>1. Migrates(p) => page[p] # before[p]
          BY <3>2, <3>3 DEF Changes, Migrates
        <5> QED
          BY <2>1, <2>2, <3>1, <5>1 DEF Reported, InStep
      <4> QED
        BY <1>2, <2>1, <2>2, <3>1, <3>3, <4>1 DEF Reported, InStep, NextPage, Writes
    <3>4. CASE /\ page[p] # NoFile /\ Changes(p, page[p]) /\ ~Writes
               /\ NextPage /\ changes' = changes \union {p}
      <4>1. Migrates(p)
        BY <3>2, <3>4 DEF Changes, Migrates
      <4> QED
        BY <1>2, <2>1, <2>2, <3>1, <3>4, <4>1 DEF Reported, InStep, NextPage, Writes
    <3>5. CASE /\ page[p] # NoFile /\ Changes(p, page[p]) /\ Writes
               /\ pc' \in {"backup", "temp"}
               /\ text' = Migrated(p, page[p], Files(page))
               /\ UNCHANGED <<mode, todo, changes, exit, why>>
      <4>1. /\ page[p] = before[p]
            /\ text' = MigratedBundle(before)[p]
            /\ Migrates(p)
        BY <3>2, <3>5 DEF Changes, Migrates
      <4>2. p \notin changes
        BY <2>1, <2>2, <3>1, <3>5, <4>1 DEF Reported, InStep, Migrates
      <4>3. p = Head(todo')
        BY <3>5 DEF p
      <4> QED
        BY <1>2, <2>1, <2>2, <3>1, <3>5, <4>1, <4>2, <4>3 DEF Reported, InStep, Writes
    <3>6. page[p].front # "absent" => page[p] # NoFile
      BY SpecialFiles
    <3> QED
      BY <1>2, <2>2, <3>2, <3>3, <3>4, <3>5, <3>6 DEF ReadPage, Stop, p
  <2>3. pc' = "idle" \/ ~quiet => InStep'
    BY <1>2 DEF ReadPage, InStep, history
  <2>4. ReportIsTrue'
    BY <1>2 DEF ReadPage, Stop, NextPage, ReportIsTrue
  <2> QED
    BY <2>2, <2>3, <2>4 DEF Reported
<1>3. CASE Finish
  <2>1. Named(todo) = {}
    BY <1>3 DEF Finish, Named
  <2>2. ASSUME quiet
        PROVE  /\ changes = {p \in Pages : MigratedBundle(before)[p] # before[p]}
               /\ page = IF Writes THEN MigratedBundle(before) ELSE before
    <3>1. changes = {p \in Pages : MigratedBundle(before)[p] # before[p]}
      BY <1>3, <2>1, <2>2 DEF Finish, Reported, InStep, Migrates, TypeOK
    <3>2. \A p \in Pages : page[p] = IF Writes THEN MigratedBundle(before)[p] ELSE before[p]
      BY <1>3, <2>2, <3>1 DEF Finish, Reported, InStep
    <3>3. MigratedBundle(before) = [p \in Pages |-> MigratedBundle(before)[p]]
      BY DEF MigratedBundle
    <3>4. page = [p \in Pages |-> page[p]] /\ before = [p \in Pages |-> before[p]]
      BY DEF TypeOK
    <3> QED
      BY <3>1, <3>2, <3>3, <3>4
  <2>3. (exit' = 1) <=> (mode = "check" /\ changes # {})
    BY <1>3 DEF Finish, ExitCode
  <2> QED
    BY <1>3, <2>2, <2>3 DEF Finish, Reported, InStep, ReportIsTrue, Writes, disk, history
<1> QED
  BY <1>1, <1>2, <1>3

LEMMA WritingReported ==
    ASSUME TypeOK, Reported, OpenBackup \/ FillBackup \/ WriteTemp \/ SwapPage \/ WriteFails
    PROVE  Reported'
<1> USE DEF Reported, InStep, ReportIsTrue, Writes, Migrates, disk, run, bounds, history
<1>1. CASE OpenBackup
  BY <1>1 DEF OpenBackup, Stop
<1>2. CASE FillBackup
  BY <1>2 DEF FillBackup
<1>3. CASE WriteTemp
  BY <1>3 DEF WriteTemp
<1>4. CASE SwapPage
  <2>1. /\ todo # <<>> /\ Head(todo) \in Pages
        /\ Named(todo) = {Head(todo)} \cup Named(Tail(todo))
    BY <1>4, FirstPage, NamedPages DEF SwapPage, TypeOK
  <2>2. quiet => text = MigratedBundle(before)[Head(todo)] /\ Writes /\ Migrates(Head(todo))
    BY <1>4, <2>1 DEF SwapPage
  <2>3. page'[Head(todo)] = text
    BY <1>4, <2>1 DEF SwapPage, TypeOK
  <2>4. \A p \in Pages : p # Head(todo) => page'[p] = page[p]
    BY <1>4 DEF SwapPage, TypeOK
  <2> QED
    BY <1>4, <2>1, <2>2, <2>3, <2>4 DEF SwapPage, NextPage
<1>5. CASE WriteFails
  BY <1>5 DEF WriteFails, Stop
<1> QED
  BY <1>1, <1>2, <1>3, <1>4, <1>5

LEMMA NextKeepsReported ==
    ASSUME TypeOK, Reported, [Next]_vars
    PROVE  Reported'
<1>1. ASSUME NEW p \in Pages, (\E c \in Drafts : Edit(p, c)) \/ Remove(p)
      PROVE  Reported'
  BY <1>1 DEF Edit, Remove, Reported, InStep, ReportIsTrue
<1>2. CASE Crash
  BY <1>2 DEF Crash, Reported, InStep, ReportIsTrue
<1>3. CASE UNCHANGED vars
  BY <1>3 DEF vars, Reported, InStep, ReportIsTrue, Writes, Migrates
<1> QED
  BY <1>1, <1>2, <1>3, WalkReported, WritingReported DEF Next

\* What a finished run says of the pages is so, and it leaves them as it says.
THEOREM ReportsAreTrue == Spec => []ReportIsTrue
<1>1. Init => TypeOK /\ Reported
  BY InitTypes, InitReported
<1>2. TypeOK /\ Reported /\ [Next]_vars => (TypeOK /\ Reported)'
  BY NextKeepsTypes, NextKeepsReported
<1>3. Reported => ReportIsTrue
  BY DEF Reported
<1> QED
  BY <1>1, <1>2, <1>3, PTL DEF Spec

-----------------------------------------------------------------------------
(* Validation of what was migrated.                                        *)

\* Where the metadata of a migrated page comes from.
LEMMA MigratedMetadata ==
    ASSUME NEW p \in Pages, NEW c \in Content, NEW files
    PROVE  LET m == Migrated(p, c, files)
           IN  /\ c.front = "yaml" => m.front = "yaml" /\ m.meta = c.meta
               /\ c.front # "yaml" /\ m.front = "yaml" =>
                     p \notin IndexPages /\ m.meta = FrontmatterFromLegacy(c.meta)
               /\ c.front # "yaml" /\ m.front = "plain" => p \in IndexPages \/ c.front = "plain"
<1> DEFINE m == MigrateLegacyMarkdown(p, c)
<1>1. /\ c.front = "yaml" => m.front = "yaml" /\ m.meta = c.meta
      /\ c.front # "yaml" /\ m.front = "yaml" =>
            p \notin IndexPages /\ m.meta = FrontmatterFromLegacy(c.meta)
      /\ c.front # "yaml" /\ m.front = "plain" => p \in IndexPages \/ c.front = "plain"
  BY DEF MigrateLegacyMarkdown, ConvertBody, ConvertHeader, Content
<1>2. Migrated(p, c, files).front = m.front /\ Migrated(p, c, files).meta = m.meta
  BY LegacyMigratedParts, NormalizedParts DEF Migrated
<1> HIDE DEF m
<1> QED
  BY <1>1, <1>2

\* Legacy comments turn into frontmatter with nothing to object to, unless one of
\* them holds a value that the validator refuses.
LEMMA LegacyMetadataValidates ==
    ASSUME NEW meta \in Metadata, \A f \in Fields : meta[f] # "bad"
    PROVE  Errors(ValidateFrontmatter(FrontmatterFromLegacy(meta), FALSE)) = {}
<1>1. ASSUME NEW f \in Fields
      PROVE  /\ FrontmatterFromLegacy(meta)[f] \notin {"bad", "bare"}
             /\ f = "type" => FrontmatterFromLegacy(meta)[f] # "none"
  BY DEF FrontmatterFromLegacy, NormalizeTrustTier, Inferred, Metadata
<1>2. {"type", "timestamp", "memory_type", "trust_tier", "confidence"} \subseteq Fields
  BY DEF Fields
<1> QED
  BY <1>1, <1>2 DEF ValidateFrontmatter, Errors, Error, Warning

LEMMA LinksAreNoErrors ==
    ASSUME NEW issues, NEW links, NEW files
    PROVE  Errors(issues \union ValidateLinks(links, files)) = Errors(issues)
BY DEF Errors, ValidateLinks, Warning

LEMMA MigratedPageValidates ==
    ASSUME NEW p \in Pages, NEW c \in Content, NEW files,
           Errors(ValidatePage(p, Migrated(p, c, files), files, FALSE)) # {}
    PROVE  \/ p \notin IndexPages /\ c.front = "plain"
           \/ p \notin IndexPages /\ \E f \in Fields : c.meta[f] = "bad"
           \/ c.front = "yaml" /\ Errors(ValidatePage(p, c, files, FALSE)) # {}
<1> DEFINE m == Migrated(p, c, files)
<1>1. m.front \in {"yaml", "plain"}
  BY MigratedParts
<1>2. CASE m.front = "plain"
  <2>1. p \in IndexPages => Errors(ValidatePage(p, m, files, FALSE)) = {}
    BY <1>2 DEF ValidatePage, ValidateLinks, Errors, Warning
  <2> QED
    BY <1>2, <2>1, MigratedMetadata
<1>3. CASE m.front = "yaml"
  <2>1. Errors(ValidatePage(p, m, files, FALSE)) = Errors(ValidateFrontmatter(m.meta, FALSE))
    BY <1>3, LinksAreNoErrors DEF ValidatePage
  <2>2. CASE c.front = "yaml"
    <3>1. Errors(ValidatePage(p, c, files, FALSE)) = Errors(ValidateFrontmatter(c.meta, FALSE))
      BY <2>2, LinksAreNoErrors DEF ValidatePage
    <3>2. m.meta = c.meta
      BY <2>2, MigratedMetadata
    <3> QED
      BY <2>1, <2>2, <3>1, <3>2
  <2>3. CASE c.front # "yaml"
    <3>1. p \notin IndexPages /\ m.meta = FrontmatterFromLegacy(c.meta)
      BY <1>3, <2>3, MigratedMetadata
    <3>2. c.meta \in Metadata
      BY DEF Content
    <3> QED
      BY <2>1, <3>1, <3>2, LegacyMetadataValidates
  <2> QED
    BY <2>2, <2>3
<1> QED
  BY <1>1, <1>2, <1>3

LEMMA OnlyHiddenLinksBreak ==
    ASSUME NEW p \in Pages, NEW c \in Content, NEW files,
           NEW l \in BrokenLinks(Migrated(p, c, files).links, files)
    PROVE  l.at \in {"stray", "unlabelled"}
<1>1. /\ Migrated(p, c, files).links \subseteq Link
      /\ Migrated(p, c, files).links = NormalizeMarkdownLinks(ConvertWikiLinks(c.links), files)
  BY MigratedParts DEF Content
<1>2. l \in Link /\ Validated(l) /\ IsBroken(l, files) /\ ~IsRemoved(l, files)
  BY <1>1 DEF BrokenLinks, NormalizeMarkdownLinks
<1> QED
  BY <1>2 DEF Validated, IsRemoved, Scanned, Link

\* A bundle that has been migrated has nothing left to migrate and passes
\* `engram9 validate`, but for what its authors are to blame for.
THEOREM MigratedBundlesValidate == Spec => []MigratedBundleValidates
<1>1. ASSUME TypeOK, ReportIsTrue
      PROVE  MigratedBundleValidates
  <2> SUFFICES ASSUME pc = "idle" /\ why = "done" /\ quiet /\ Writes
               PROVE  MigratedBundleValidates
    BY DEF MigratedBundleValidates
  <2>1. page = MigratedBundle(before) /\ before \in [Pages -> Content \union {NoFile}]
    BY <1>1 DEF TypeOK, ReportIsTrue
  <2>2. \A p \in Pages : page[p] = NoFile <=> before[p] = NoFile
    BY <2>1, MigratedBundleTypes
  <2>3. Files(page) = Files(before)
    BY <2>2 DEF Files
  <2>4. \A p \in Files(page) :
            /\ before[p] \in Content
            /\ page[p] = Migrated(p, before[p], Files(page))
            /\ Migrated(p, page[p], Files(page)) = page[p]
    BY <2>1, <2>2, <2>3, MigratedBundleTypes DEF Files
  <2>5. \A p \in Files(page) : \A l \in BrokenLinks(page[p].links, Files(page)) :
            l.at \in {"stray", "unlabelled"}
    BY <2>4, OnlyHiddenLinksBreak DEF Files
  <2>6. ASSUME RunValidate(page, FALSE) = 1
        PROVE  \E p \in Files(page) : Errors(ValidatePage(p, page[p], Files(page), FALSE)) # {}
    <3>1. Errors(ValidateBundle(page, FALSE)) # {}
      <4>1. RunValidate(page, FALSE) =
                IF Errors(ValidateBundle(page, FALSE)) # {} THEN 1 ELSE 0
        BY Zenon DEF RunValidate
      <4>2. 0 # 1
        OBVIOUS
      <4> QED
        BY <2>6, <4>1, <4>2, Zenon
    <3>2. PICK i \in ValidateBundle(page, FALSE) : i.severity = "error"
      BY <3>1 DEF Errors
    <3>3. PICK p \in Files(page) : i \in ValidatePage(p, page[p], Files(page), FALSE)
      BY <3>2 DEF ValidateBundle
    <3>4. i \in Errors(ValidatePage(p, page[p], Files(page), FALSE))
      BY <3>2, <3>3 DEF Errors
    <3> QED
      BY <3>4
  <2>7. ASSUME NEW p \in Files(page), Errors(ValidatePage(p, page[p], Files(page), FALSE)) # {}
        PROVE  \/ p \notin IndexPages /\ before[p].front = "plain"
               \/ p \notin IndexPages /\ \E f \in Fields : before[p].meta[f] = "bad"
               \/ /\ before[p].front = "yaml"
                  /\ Errors(ValidatePage(p, before[p], Files(before), FALSE)) # {}
    BY <2>3, <2>4, <2>7, MigratedPageValidates DEF Files
  <2>8. \A p \in Files(page) : ~Changes(p, page[p])
    BY <2>4 DEF Changes
  <2> QED
    BY <2>3, <2>5, <2>6, <2>7, <2>8 DEF MigratedBundleValidates
<1> QED
  BY <1>1, TypesHold, ReportsAreTrue, PTL

=============================================================================
