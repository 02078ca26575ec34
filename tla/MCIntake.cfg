CONSTANTS
    o1 = o1
    o2 = o2
    t1 = t1
    s1 = s1
    day = day
    store = store
    gateway = gateway
    manager = manager
    Blank = Blank
    Invalid = Invalid
    NotANumber = NotANumber
    OrderRows <- Orders
    SettlementRows <- Settlements
    MaxOrders = 4
    MaxSettlements = 2
    Tolerance = 1
SPECIFICATION Spec
INVARIANTS
    TypeOK
    RejectionNamesFaults
    PlacedRowsBecomeObligations
    SumsAreJudged
CHECK_DEADLOCK FALSE
