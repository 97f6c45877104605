SPECIFICATION Spec
CONSTANTS
    EventCount = 3
    Events <- FirstEvents
    Backlog <- AllButNewest
    FlushThreshold = 4
    BatchCap = 1
    SplitFloor = 1
    MaxDepth = 1
    StreakLimit = 2
    OuterErrorLimit = 2
    WriteFailLimit = 2
    EnvelopeTurns = 2
    BackendErrs = FALSE
    MaxResets = 0
CHECK_DEADLOCK FALSE
INVARIANT RecoveryIsNotLost
