CONSTANTS
    w1 = w1
    w2 = w2
    k1 = k1
    k2 = k2
    Workers = {w1, w2}
    Keys = {k1, k2}
    Produces <- Shared
    RetryAttempts = 2
    FailMax = 3
    Outcomes = {"ok"}
    MaxDispatch = 1
    MaxCrashes = 0
SPECIFICATION Spec
INVARIANTS
    NeverMailedTwice
CHECK_DEADLOCK FALSE
