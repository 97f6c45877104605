SPECIFICATION Spec
CONSTANTS
    p1 = p1
    p2 = p2
    NoPage = NoPage
    Free = Free
    MaxEvents = 1
    Pages <- OnePage
    Backends <- OnlyAcp
    SlotLimits = {1}
    MaxWrites = 1
    DiskErrs = FALSE
INVARIANT IntegratedIsKept
CHECK_DEADLOCK FALSE
