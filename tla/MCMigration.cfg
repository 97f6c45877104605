SPECIFICATION Spec
CONSTANTS
    index = index
    concept = concept
    hidden = hidden
    Missing = Missing
    Elsewhere = Elsewhere
    Pages <- IndexAndConcept
    IndexPages <- OneIndex
    Hidden <- OneHidden
    Walk <- IndexLast
    Drafts <- SomeDrafts
    Modes <- AllModes
    MaxRuns = 2
    MaxEdits = 1
    MaxFaults = 1
INVARIANT TypeOK
INVARIANT OriginalIsRecoverable
INVARIANT NoStrayRefusal
INVARIANT ReportIsTrue
INVARIANT MigratedBundleValidates
CHECK_DEADLOCK FALSE
