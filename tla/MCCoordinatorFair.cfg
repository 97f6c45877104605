SPECIFICATION FairSpec
CONSTANTS
    EventCount = 2
    Events <- FirstEvents
    Backlog <- OldestEvent
    FlushThreshold = 2
    BatchCap = 2
    SplitFloor = 1
    MaxDepth = 1
    StreakLimit = 2
    OuterErrorLimit = 2
    WriteFailLimit = 2
    EnvelopeTurns = 2
    BackendErrs = FALSE
    MaxResets = 0
PROPERTY PendingIsResolved
PROPERTY StopEndsRunLoop
CHECK_DEADLOCK FALSE
