CONSTANTS
    MaxEntries = 1
    MaxRuns = 2
    MaxCrashes = 1
SPECIFICATION FairSpec
INVARIANTS
    TypeOK
    AnswersMatchRows
    FailuresAreOnFile
    StuckRowsAreReported
    PendingBounded
    TrailsFitRows
PROPERTIES
    KeepsVerdicts
    PagesEnd
CHECK_DEADLOCK FALSE
