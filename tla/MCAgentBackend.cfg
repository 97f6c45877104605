SPECIFICATION FairSpec
CONSTANTS
    read1 = read1
    read2 = read2
    write1 = write1
    bad1 = bad1
    Events <- FourEvents
    Stranger = 9
    Created <- Times
    Bytes <- Sizes
    MaxEventsPerBatch = 3
    MaxTokensPerBatch = 3
    MaxBytesPerBatch = 12
    Chunks <- Pieces
    MaxMessages = 6
    Reads <- TwoReads
    Writes <- OneWrite
    Invalid <- OneInvalid
    Answers <- ShortAnswers
    MaxToolLoops = 5
    MaxRepeatedReadOnlyToolCalls = 2
    MaxInvalidToolCalls = 2
    MaxAttempts = 3
INVARIANT TypeOK
INVARIANT BatchesCutRight
INVARIANT VerdictsAreTheAgents
INVARIANT NoStall
PROPERTY TurnsEnd
CHECK_DEADLOCK FALSE
