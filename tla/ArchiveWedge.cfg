SPECIFICATION Spec
CONSTANTS
    p1 = p1
    p2 = p2
    i1 = i1
    i2 = i2
    c1 = c1
    c2 = c2
    q1 = q1
    Origin = Origin
    NoDir = NoDir
    Free = Free
    Pages <- OnePage
    Ingests <- OneIngest
    Compiles <- OneCompile
    Recalls <- NoCalls
    RenameErrs = FALSE
    MaxCrashes = 0
INVARIANT UntouchedWikiPasses
CHECK_DEADLOCK FALSE
