----------------------------- MODULE MCWikiMerge -----------------------------
(* Instances of WikiMerge for TLC.                                         *)
EXTENDS WikiMerge

CONSTANTS p1, p2, i1, i2, c1, c2, q1

OnePage == {p1}

TwoPages == {p1, p2}

OneIngest == {i1}

TwoIngests == {i1, i2}

TwoCompiles == {c1, c2}

OneCompile == {c1}

OneRecall == {q1}

NoCalls == {}
=============================================================================
