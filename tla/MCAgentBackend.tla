---------------------------- MODULE MCAgentBackend ---------------------------
(* Instances of AgentBackend for TLC.                                      *)
EXTENDS AgentBackend

CONSTANTS read1, read2, write1, bad1

FourEvents == {1, 2, 3, 4}

\* event 2 is older than event 1; event 3 is larger than any batch
Times == <<2, 1, 2, 3>>

Sizes == <<7, 5, 13, 2>>

Verdict(e, status, tail) == [event |-> e, status |-> status, tail |-> tail]

\* verdicts in one piece and in two, of another batch, contradicting, incomplete
Pieces ==
    {<<Prose>>,
     <<Verdict(1, "INTEGRATED", TRUE), Verdict(2, "SKIPPED", TRUE)>>,
     <<Prose, Verdict(1, "FAILED", TRUE)>>,
     <<Verdict(2, "INTEGRATED", FALSE)>>,
     <<Verdict(9, "INTEGRATED", TRUE)>>}

TwoReads == {read1, read2}

OneWrite == {write1}

OneInvalid == {bad1}

ShortAnswers == {<<read1>>, <<read1, bad1>>, <<read2, write1>>, <<bad1, bad1>>, <<write1, read1>>}
=============================================================================
