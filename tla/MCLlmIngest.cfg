SPECIFICATION FairSpec
CONSTANTS
    p1 = p1
    p2 = p2
    NoPage = NoPage
    Free = Free
    MaxEvents = 2
    Pages <- OnePage
    Backends <- BothBackends
    SlotLimits = {1, 2}
    MaxWrites = 1
    DiskErrs = TRUE
INVARIANT TypeOK
INVARIANT RecallSeesEvent
INVARIANT IndexIsCurrent
INVARIANT SourcesAreKept
PROPERTY IntegrationsEnd
CHECK_DEADLOCK FALSE
