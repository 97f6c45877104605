------------------------------ MODULE Migration ------------------------------
(***************************************************************************)
(* `engram9 migrate-okf` (MigrateLegacyBundle in internal/okf/migration.go *)
(* and runMigrateOKF in cmd/engram9/main.go) on a bundle that people and   *)
(* agents go on editing: pages are written, created, deleted, renamed or   *)
(* moved to the archive meanwhile, and with them the targets of links come *)
(* and go.  The walk handles one page at a time: read it, compute its new  *)
(* text (Okf), keep a backup, write a temporary file and rename it over    *)
(* the page.  The first error ends the run.  The disk may refuse a write   *)
(* and the process may die at any step.                                    *)
(*                                                                         *)
(* Data abstraction.  Stat and chmod are left out, and with them files     *)
(* that cannot be read: such a run stops as at a page that does not parse. *)
(***************************************************************************)
EXTENDS Okf, Naturals, Sequences

CONSTANTS
    Walk,           \* Pages in the order in which the walk visits them
    Drafts,         \* what people write: the contents that a page may be given
    Modes,          \* of a run: "dry", "check", "write", "bare" (--backup=false)
    MaxRuns,        \* bound: runs
    MaxEdits,       \* bound: pages written or removed by somebody
    MaxFaults       \* bound: refused writes and process deaths

ASSUME WalkAssumption ==
    /\ Walk \in Seq(Pages)
    /\ Pages = {Walk[i] : i \in DOMAIN Walk}

ASSUME DraftsAssumption ==
    /\ Drafts \subseteq Content
    /\ \A c \in Drafts : c.front # "cut"

ASSUME RunsAssumption ==
    /\ Modes \subseteq {"dry", "check", "write", "bare"}
    /\ {MaxRuns, MaxEdits, MaxFaults} \subseteq Nat

VARIABLES
    page,           \* the pages on disk, or NoFile
    backup,         \* the file with suffix .bak beside each, or NoFile
    pc,             \* what the run under way does next, or "idle"
    mode,           \* how it was called
    todo,           \* pages it has not dealt with, in order
    data,           \* what it read of the first of them
    text,           \* what it is going to write there
    changes,        \* MigrationResult.Changes
    exit,           \* exit code of the last run
    why,            \* how it ended: "done", "parse", "gone", "backup", "write", "died"
    runs,           \* runs so far (bound only)
    edits,          \* edits so far (bound only)
    faults,         \* faults so far (bound only)
    before,         \* history: the pages when the run began
    quiet,          \* history: nobody else touched a page since then
    draft,          \* history: each page as a person last left it
    unkept,         \* history: pages whose draft a run may lose: touched while
                    \* the run was replacing them, or run without backup
    upset           \* history: pages that a run left half done, and those that
                    \* had a backup when they, or a page they link to, were touched

disk == <<page, backup>>
run == <<pc, mode, todo, data, text, changes, exit, why>>
bounds == <<runs, edits, faults>>
history == <<before, quiet, draft, unkept, upset>>
vars == <<page, backup, pc, mode, todo, data, text, changes, exit, why,
          runs, edits, faults, before, quiet, draft, unkept, upset>>

Writes == mode \in {"write", "bare"}

\* the page, if any, that a run has begun to back up or to replace
InHand == IF pc \in {"fill", "temp", "swap"} THEN {Head(todo)} ELSE {}

\* the page, if any, whose new text is settled
AtWork == IF pc \in {"backup", "fill", "temp", "swap"} THEN {Head(todo)} ELSE {}

\* a page, or the text about to take its place, has a link to q
LinksTo(p, q) ==
    \E l \in page[p].links \union (IF p \in AtWork THEN text.links ELSE {}) : l.to = q

TypeOK ==
    /\ page \in [Pages -> Content \union {NoFile}]
    /\ backup \in [Pages -> Content \union {NoFile}]
    /\ pc \in {"idle", "read", "backup", "fill", "temp", "swap"}
    /\ mode \in {"dry", "check", "write", "bare"}
    /\ todo \in Seq(Pages)
    /\ pc \in {"backup", "fill", "temp", "swap"} => todo # <<>>
    /\ data \in Content /\ text \in Content
    /\ changes \in SUBSET Pages
    /\ exit \in 0..2
    /\ why \in {"", "done", "parse", "gone", "backup", "write", "died"}
    /\ {runs, edits, faults} \subseteq Nat
    /\ before \in [Pages -> Content \union {NoFile}]
    /\ draft \in [Pages -> Content \union {NoFile}]
    /\ quiet \in BOOLEAN
    /\ {unkept, upset} \subseteq SUBSET Pages

Init ==
    /\ page \in [Pages -> Drafts \union {NoFile}]
    /\ backup = [p \in Pages |-> NoFile]
    /\ pc = "idle" /\ mode = "dry" /\ todo = <<>> /\ data = CutFile /\ text = CutFile
    /\ changes = {} /\ exit = 0 /\ why = ""
    /\ runs = 0 /\ edits = 0 /\ faults = 0
    /\ before = page /\ draft = page /\ quiet = TRUE
    /\ unkept = {} /\ upset = {}

-----------------------------------------------------------------------------
(* A run *)

Start ==
    /\ pc = "idle" /\ runs < MaxRuns
    /\ pc' = "read" /\ runs' = runs + 1
    /\ mode' \in Modes
    /\ todo' = Walk
    /\ changes' = {} /\ exit' = 0 /\ why' = ""
    /\ before' = page /\ quiet' = TRUE
    /\ UNCHANGED <<disk, data, text, edits, faults, draft, unkept, upset>>

\* MigrateLegacyBundle returns an empty result with its error
Stop(reason) ==
    /\ pc' = "idle" /\ exit' = 2 /\ why' = reason
    /\ todo' = <<>> /\ changes' = {}
    /\ UNCHANGED <<mode, data, text>>

NextPage ==
    /\ pc' = "read" /\ todo' = Tail(todo)
    /\ UNCHANGED <<mode, data, text, exit, why>>

\* (mutant: a dry run looks at the text before the links are normalised)
ChangesBody(p, c) == MigrateLegacyMarkdown(p, c) # c

Changes(p, c) == Migrated(p, c, Files(page)) # c

\* the head of migrateFile, up to the decision to write.  A page that came or
\* went during the run may have been there or not when the walk read its
\* directory; one that is gone when it is opened stops the run.
ReadPage ==
    /\ pc = "read" /\ todo # <<>>
    /\ LET p == Head(todo)
           c == page[p]
       IN  \/ /\ NoFile \in {before[p], c}
              /\ NextPage /\ UNCHANGED changes
           \/ /\ before[p] # NoFile /\ c = NoFile /\ Stop("gone")
           \/ /\ c.front = "broken" /\ Stop("parse")
           \/ /\ c.front \notin {"broken", "absent"} /\ ~Changes(p, c)
              /\ NextPage /\ UNCHANGED changes
           \/ /\ c.front \notin {"broken", "absent"} /\ Changes(p, c) /\ ~Writes
              /\ NextPage /\ changes' = changes \union {p}
           \/ /\ c.front \notin {"broken", "absent"} /\ Changes(p, c) /\ Writes
              /\ pc' = (IF mode = "write" THEN "backup" ELSE "temp")
              /\ data' = c
              /\ text' = Migrated(p, c, Files(page))
              /\ UNCHANGED <<mode, todo, changes, exit, why>>
    /\ UNCHANGED <<disk, bounds, history>>

\* a backup that exists stops the run; os.WriteFile truncates, then writes
OpenBackup ==
    /\ pc = "backup"
    /\ \/ /\ backup[Head(todo)] # NoFile
          /\ Stop("backup")
          /\ UNCHANGED disk
       \/ /\ backup[Head(todo)] = NoFile
          /\ backup' = [backup EXCEPT ![Head(todo)] = CutFile]
          /\ pc' = "fill"
          /\ UNCHANGED <<page, mode, todo, data, text, changes, exit, why>>
    /\ UNCHANGED <<bounds, history>>

FillBackup ==
    /\ pc = "fill"
    /\ backup' = [backup EXCEPT ![Head(todo)] = data]
    /\ pc' = "temp"
    /\ UNCHANGED <<page, mode, todo, data, text, changes, exit, why, bounds, history>>

\* (mutant: the page itself is truncated and written)
TruncatesPage ==
    /\ pc = "temp"
    /\ page' = [page EXCEPT ![Head(todo)] = CutFile]
    /\ pc' = "swap"
    /\ UNCHANGED <<backup, mode, todo, data, text, changes, exit, why, bounds, history>>

\* writeFileAtomic: the temporary file is no page and no backup
WriteTemp ==
    /\ pc = "temp"
    /\ pc' = "swap"
    /\ UNCHANGED <<disk, mode, todo, data, text, changes, exit, why, bounds, history>>

\* (mutant: the run does not go back to the walk)
StaysAtSwap ==
    /\ pc = "swap"
    /\ page' = [page EXCEPT ![Head(todo)] = text]
    /\ todo' = Tail(todo)
    /\ UNCHANGED <<backup, pc, mode, data, text, changes, exit, why, bounds, history>>

SwapPage ==
    /\ pc = "swap"
    /\ LET p == Head(todo)
       IN  /\ page' = [page EXCEPT ![p] = text]
           /\ changes' = changes \union {p}
           /\ unkept' = IF mode = "bare" \/ page[p] # data
                        THEN unkept \union {p} ELSE unkept
    /\ NextPage
    /\ UNCHANGED <<backup, bounds, before, quiet, draft, upset>>

\* the disk refuses what migrateFile is about to do: what it has done stays,
\* but for the temporary file
WriteFails ==
    /\ pc \in {"backup", "fill", "temp", "swap"} /\ faults < MaxFaults
    /\ pc = "backup" => backup[Head(todo)] = NoFile
    /\ faults' = faults + 1
    /\ upset' = upset \union InHand
    /\ Stop("write")
    /\ UNCHANGED <<disk, runs, edits, before, quiet, draft, unkept>>

ExitCode == IF mode = "check" /\ changes # {} THEN 1 ELSE 0

Finish ==
    /\ pc = "read" /\ todo = <<>>
    /\ pc' = "idle" /\ exit' = ExitCode /\ why' = "done"
    /\ UNCHANGED <<disk, mode, todo, data, text, changes, bounds, history>>

-----------------------------------------------------------------------------
(* Everybody else *)

\* a page is written: edited, or created
Edit(p, c) ==
    /\ edits < MaxEdits
    /\ edits' = edits + 1
    /\ page' = [page EXCEPT ![p] = c]
    /\ draft' = [draft EXCEPT ![p] = c]
    /\ quiet' = FALSE
    /\ upset' = IF backup[p] # NoFile \/ p \in InHand THEN upset \union {p} ELSE upset
    /\ unkept' = unkept \ {p}
    /\ UNCHANGED <<backup, run, runs, faults, before>>

\* a page is deleted, archived or renamed: its backup stays where it is
Remove(p) ==
    /\ edits < MaxEdits
    /\ page[p] # NoFile
    /\ edits' = edits + 1
    /\ page' = [page EXCEPT ![p] = NoFile]
    /\ draft' = [draft EXCEPT ![p] = NoFile]
    /\ quiet' = FALSE
    /\ upset' = upset \union
            {q \in Pages : (backup[q] # NoFile \/ q \in AtWork) /\ (q = p \/ LinksTo(q, p))}
    /\ unkept' = unkept \ {p}
    /\ UNCHANGED <<backup, run, runs, faults, before>>

Crash ==
    /\ pc # "idle" /\ faults < MaxFaults
    /\ faults' = faults + 1
    /\ pc' = "idle" /\ why' = "died"
    /\ todo' = <<>> /\ changes' = {}
    /\ upset' = upset \union InHand
    /\ UNCHANGED <<disk, mode, data, text, exit, runs, edits, before, quiet, draft, unkept>>

Next ==
    \/ Start
    \/ ReadPage
    \/ OpenBackup
    \/ FillBackup
    \/ WriteTemp
    \/ SwapPage
    \/ WriteFails
    \/ Finish
    \/ \E p \in Pages, c \in Drafts : Edit(p, c)
    \/ \E p \in Pages : Remove(p)
    \/ Crash

Spec == Init /\ [][Next]_vars

-----------------------------------------------------------------------------
(* Properties *)

\* What a person wrote on a page is on the page, migrated on the page, or, once
\* migrated, in the backup beside it, whatever fails and whenever the process
\* dies; a page is never half-written, and one that a person removed stays away.
\* Not kept are only what a person did between the reading and the replacing of
\* the page, which the rename overwrites (a removed page comes back), and drafts
\* migrated without backup.
OriginalIsRecoverable ==
    \A p \in Pages \ unkept :
        /\ \/ page[p] = draft[p]
           \/ draft[p] # NoFile /\ \E files \in SUBSET Pages : page[p] = Migrated(p, draft[p], files)
        /\ draft[p] \in {page[p], backup[p]}

\* A backup in the way stops a run only at a page that an earlier run left half
\* done or that, since it had a backup, was written by somebody or has lost a page
\* it links to (its link is then one to be removed): a second run after a complete
\* one, or after one that stopped at another page, has nothing to say about the
\* pages that are done, whatever else was edited or created in between.
NoStrayRefusal ==
    \A p \in Pages \ upset :
        backup[p] # NoFile => ~(pc = "backup" /\ p = Head(todo))

\* The report of a finished run tells the truth: of a run that writes, the pages
\* it names are those that differ from what they were; of one that does not, the
\* pages are as they were and those named are the ones a run that writes would
\* change; and --check exits with 1 iff there are any.
ReportIsTrue ==
    pc = "idle" /\ why = "done" /\ quiet =>
        /\ changes = {p \in Pages : MigratedBundle(before)[p] # before[p]}
        /\ page = IF Writes THEN MigratedBundle(before) ELSE before
        /\ (exit = 1) <=> (mode = "check" /\ changes # {})

\* A bundle that has been migrated has nothing left to migrate, and passes
\* `engram9 validate` unless its author is to blame: a page without any
\* metadata that the migration has no reason to touch, a value, in comments or
\* frontmatter, that the validator refuses, frontmatter without a type.  The
\* only broken links left are those the migration's scanner cannot see.
MigratedBundleValidates ==
    pc = "idle" /\ why = "done" /\ quiet /\ Writes =>
        /\ \A p \in Files(page) : ~Changes(p, page[p])
        /\ \A p \in Files(page) : \A l \in BrokenLinks(page[p].links, Files(page)) :
                l.at \in {"stray", "unlabelled"}
        /\ RunValidate(page, FALSE) = 1 =>
                \E p \in Files(before) :
                    \/ p \notin IndexPages /\ before[p].front = "plain"
                    \/ p \notin IndexPages /\ \E f \in Fields : before[p].meta[f] = "bad"
                    \/ /\ before[p].front = "yaml"
                       /\ Errors(ValidatePage(p, before[p], Files(before), FALSE)) # {}
=============================================================================
