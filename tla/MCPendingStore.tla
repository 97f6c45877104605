--------------------------- MODULE MCPendingStore ---------------------------
(* Instances of PendingStore for TLC.                                      *)
EXTENDS PendingStore, TLC

\* Interchangeable events: sound for invariants and for the action properties.
Symmetry == Permutations(Events \ Legacy)

CONSTANTS e1, e2

TwoEvents == {e1, e2}

OneLegacy == {e1}

AllFailures == {"ok", "unsynced", "unopened", "torn"}

TornWrites == {"ok", "torn"}

NoFailures == {"ok"}
=============================================================================
