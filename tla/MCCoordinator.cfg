SPECIFICATION Spec
CONSTANTS
    EventCount = 2
    Events <- FirstEvents
    Backlog <- OldestEvent
    FlushThreshold = 2
    BatchCap = 2
    SplitFloor = 1
    MaxDepth = 2
    StreakLimit = 2
    OuterErrorLimit = 2
    WriteFailLimit = 2
    EnvelopeTurns = 3
    BackendErrs = TRUE
    MaxResets = 1
INVARIANT TypeOK
INVARIANT NoForgottenWork
INVARIANT NoTurnWhileSuspended
INVARIANT BurnLimited
INVARIANT DeferredNotRun
INVARIANT StopHonoured
INVARIANT FlushConservesEvents
INVARIANT EnvelopeMakesProgress
PROPERTY KeepsLedger
CHECK_DEADLOCK FALSE
