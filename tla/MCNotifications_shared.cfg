CONSTANTS
    w1 = w1
    w2 = w2
    k1 = k1
    k2 = k2
    Workers = {w1, w2}
    Keys = {k1, k2}
    Produces <- Shared
    RetryAttempts = 2
    FailMax = 3
    Outcomes = {"ok", "lost", "permanent", "error"}
    MaxDispatch = 2
    MaxCrashes = 1
SPECIFICATION Spec
INVARIANTS
    TypeOK
    EmailsAccountedFor
    SentWasDelivered
    ProviderRests
    DeliveryLeavesRow
PROPERTIES
    KeepsPromise
    DispatchReturns
CHECK_DEADLOCK FALSE
