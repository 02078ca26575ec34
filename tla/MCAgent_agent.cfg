CONSTANTS
    o1 = o1
    s1 = s1
    razorpay = razorpay
    payu = payu
    PaymentGateways <- Addresses
    Absent = Absent
    AllowedActions = {"WAIT", "EMAIL_STORE_MANAGER", "EMAIL_PG", "EMAIL_BANK", "ESCALATE", "REQUEST_RECHECK"}
    Fallback = "ESCALATE"
    ModelAnswers = {"REQUEST_RECHECK", "WAIT"}
    Inputs <- Files
    FuzzyCalls = {0}
    MaxRuns = 2
    MaxActive = 2
    MaxCalls = 5
    MaxCrashes = 1
    RetryAttempts = 1
    FailMax = 2
    Outcomes = {"ok", "transient", "error"}
    MaxDispatch = 2
SPECIFICATION AgentSpec
INVARIANTS
    AgentTypeOK
    NobodyIsForgotten
    EscalationsAreBacked
    MailsAreExplained
CHECK_DEADLOCK FALSE
