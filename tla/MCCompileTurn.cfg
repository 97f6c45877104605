SPECIFICATION Spec
CONSTANTS
    e1 = e1
    e2 = e2
    m1 = m1
    Events <- OwnAndForeign
    Foreign <- OneForeign
    Backends <- BothBackends
    AppendErrs = TRUE
    CursorErrs = TRUE
    MaxReads = 2
    MaxCycles = 2
    MaxCrashes = 1
INVARIANT TypeOK
INVARIANT NoEventSkipped
INVARIANT LateEventsInvisible
CHECK_DEADLOCK FALSE
