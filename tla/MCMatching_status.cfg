CONSTANTS
    o1 = o1
    o2 = o2
    t1 = t1
    t2 = t2
    s1 = s1
    s2 = s2
    manager = manager
    Absent = Absent
    ObligationRows <- FuzzyObligations
    SettlementRows <- FuzzySettlements
    MaxObligations = 2
    MaxSettlements = 2
    Tolerance = 1
    GraceDays <- Grace
    FuzzyEnabled = TRUE
    Pairings <- AllPairings
    MaxPairings = 0
SPECIFICATION Spec
INVARIANTS
    ExactlyOneStatus
CHECK_DEADLOCK FALSE
