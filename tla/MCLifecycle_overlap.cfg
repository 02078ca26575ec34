CONSTANTS
    o1 = o1
    o2 = o2
    s1 = s1
    Absent = Absent
    AllowedActions = {"WAIT", "EMAIL_STORE_MANAGER", "EMAIL_PG", "EMAIL_BANK", "ESCALATE", "REQUEST_RECHECK"}
    Fallback = "ESCALATE"
    ModelAnswers = {"REQUEST_RECHECK", "ESCALATE"}
    Inputs <- SharedKeys
    FuzzyCalls = {1}
    MaxRuns = 3
    MaxActive = 2
    MaxCalls = 3
    MaxCrashes = 1
SPECIFICATION FairSpec
INVARIANTS
    TypeOK
    LogMirrorsLastRun
    UnresolvedWasFound
    FindsAreOnRecord
PROPERTIES
    RunsEnd
CHECK_DEADLOCK FALSE
