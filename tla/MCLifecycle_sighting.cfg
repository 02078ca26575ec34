CONSTANTS
    o1 = o1
    o2 = o2
    s1 = s1
    Absent = Absent
    AllowedActions = {"WAIT", "EMAIL_STORE_MANAGER", "EMAIL_PG", "EMAIL_BANK", "ESCALATE", "REQUEST_RECHECK"}
    Fallback = "ESCALATE"
    ModelAnswers = {"WAIT"}
    Inputs <- FewFiles
    FuzzyCalls = {0}
    MaxRuns = 3
    MaxActive = 2
    MaxCalls = 2
    MaxCrashes = 0
SPECIFICATION Spec
INVARIANTS
    SightingSurvives
CHECK_DEADLOCK FALSE
