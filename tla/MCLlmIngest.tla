----------------------------- MODULE MCLlmIngest -----------------------------
(* Instances of LlmIngest for TLC.                                         *)
EXTENDS LlmIngest

CONSTANTS p1, p2

OnePage == {p1}

TwoPages == {p1, p2}

BothBackends == {"llm", "acp"}

OnlyAcp == {"acp"}
=============================================================================
