SPECIFICATION FairSpec
CONSTANTS
    p1 = p1
    p2 = p2
    i1 = i1
    i2 = i2
    c1 = c1
    c2 = c2
    q1 = q1
    Origin = Origin
    NoDir = NoDir
    Free = Free
    Pages <- OnePage
    Ingests <- TwoIngests
    Compiles <- OneCompile
    Recalls <- OneRecall
    RenameErrs = TRUE
    MaxCrashes = 1
INVARIANT TypeOK
INVARIANT LockFollowsTurn
PROPERTY TurnsAreAtomic
PROPERTY ActivePagesAreKept
PROPERTY BatchesEnd
CHECK_DEADLOCK FALSE
