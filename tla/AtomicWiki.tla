----------------------------- MODULE AtomicWiki ------------------------------
(***************************************************************************)
(* What the callers of the wiki's turns are promised, whatever directories *)
(* are copied and renamed for it: turns take effect one after another, each*)
(* in a single step, from the wiki as it then is, or not at all, and what  *)
(* the caller is told agrees with what happened.  The one exception is a   *)
(* merge that is left half-way, which empties the wiki; nobody is told of a*)
(* success then.                                                           *)
(*                                                                         *)
(* WikiMerge implements this specification.                                *)
(***************************************************************************)
CONSTANTS
    Pages,          \* wiki paths
    Ingests, Compiles, Recalls,
    EmptyWiki       \* the wiki without a page

VARIABLES
    wiki,           \* the pages in service, active and archived, each the set of
                    \* the contributions that it holds
    outcome,        \* what has become of each call
    wrote           \* calls whose agent wrote a page

Calls == Ingests \cup Compiles \cup Recalls

Outcomes == {"idle", "running", "merged", "done", "failed", "dead"}

Holds(w, p) == w.active[p] \cup w.archive[p]

\* A turn adds nothing but its own work, and all that was on an active page is
\* still there, on the page or in the archive; only a compile turn archives.
TurnOf(c, old, new) ==
    \A p \in Pages :
        /\ Holds(new, p) \subseteq Holds(old, p) \cup {c}
        /\ old.active[p] \subseteq IF c \in Compiles THEN Holds(new, p) ELSE new.active[p]

Becomes(c, from, to) ==
    /\ outcome[c] = from
    /\ outcome' = [outcome EXCEPT ![c] = to]

Begin(c) == Becomes(c, "idle", "running") /\ UNCHANGED <<wiki, wrote>>

\* The agent writes, as yet to no effect.
Write(c) ==
    /\ c \notin Recalls
    /\ outcome[c] = "running"
    /\ wrote' = wrote \cup {c}
    /\ UNCHANGED <<wiki, outcome>>

Answer(c) == c \in Recalls /\ Becomes(c, "running", "done") /\ UNCHANGED <<wiki, wrote>>

Merge(c) ==
    /\ c \notin Recalls
    /\ Becomes(c, "running", "merged")
    /\ TurnOf(c, wiki, wiki')
    /\ c \in wrote => \E p \in Pages : c \in Holds(wiki', p)
    /\ UNCHANGED wrote

Report(c) == Becomes(c, "merged", "done") /\ UNCHANGED <<wiki, wrote>>

Fail(c) == Becomes(c, "running", "failed") /\ UNCHANGED <<wiki, wrote>>

\* The renames of a turn can be neither finished nor undone.
Tear(c) ==
    /\ c \notin Recalls
    /\ Becomes(c, "running", "failed")
    /\ wiki' = EmptyWiki
    /\ UNCHANGED wrote

\* The process dies: nobody hears of the calls under way, merged or not.  A call
\* reported as failed may have left a goroutine, which dies with it.
Die ==
    /\ outcome' \in [Calls -> Outcomes]
    /\ \A c \in Calls :
           outcome'[c] \in CASE outcome[c] \in {"running", "merged"} -> {"dead"}
                             [] outcome[c] = "failed" -> {"failed", "dead"}
                             [] OTHER -> {outcome[c]}
    /\ \/ UNCHANGED wiki
       \/ wiki' = EmptyWiki /\ \E c \in Calls \ Recalls : outcome[c] = "running"
    /\ UNCHANGED wrote

WikiInit ==
    /\ wrote = {}
    /\ outcome = [c \in Calls |-> "idle"]
    /\ \A p \in Pages : Holds(wiki, p) \cap Calls = {} /\ wiki.archive[p] = {}

WikiNext ==
    \/ \E c \in Calls :
           \/ Begin(c) \/ Write(c) \/ Answer(c)
           \/ Merge(c) \/ Report(c)
           \/ Fail(c) \/ Tear(c)
    \/ Die

WikiSpec == WikiInit /\ [][WikiNext]_<<wiki, outcome, wrote>>
=============================================================================
