---------------------------- MODULE MCCompileTurn ----------------------------
(* Instances of CompileTurn for TLC.                                       *)
EXTENDS CompileTurn

CONSTANTS e1, e2, m1

OwnAndForeign == {e1, e2, m1}

OneForeign == {m1}

BothBackends == {"acp", "llm"}
=============================================================================
