SPECIFICATION Spec
CONSTANTS
    e1 = e1
    e2 = e2
    Events <- TwoEvents
    Legacy <- OneLegacy
    EpochGiven = TRUE
    Outcomes <- AllFailures
    MaxRecords = 3
    MaxCrashes = 1
INVARIANT TypeOK
INVARIANT NoEventLost
INVARIANT CountsPartition
INVARIANT VerdictIsDurable
PROPERTY NoSilentReingest
PROPERTY ImplementsLedger
CHECK_DEADLOCK FALSE
