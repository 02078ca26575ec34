CONSTANTS
    o1 = o1
    o2 = o2
    t1 = t1
    t2 = t2
    s1 = s1
    s2 = s2
    manager = manager
    Absent = Absent
    ObligationRows <- KeyObligations
    SettlementRows <- KeySettlements
    MaxObligations = 2
    MaxSettlements = 2
    Tolerance = 1
    GraceDays <- Grace
    FuzzyEnabled = TRUE
    Pairings <- AllPairings
    MaxPairings = 2
SPECIFICATION Spec
INVARIANTS
    TypeOK
    MatchesDefinition
    SettlementsUsedOnce
    ObligationsUsedOnce
    OnlyShadowedVanish
CHECK_DEADLOCK FALSE
