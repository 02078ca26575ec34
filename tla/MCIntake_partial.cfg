CONSTANTS
    o1 = o1
    o2 = o2
    t1 = t1
    s1 = s1
    day = day
    store = store
    gateway = gateway
    manager = manager
    Blank = Blank
    Invalid = Invalid
    NotANumber = NotANumber
    OrderRows <- Orders
    SettlementRows <- Settlements
    MaxOrders = 2
    MaxSettlements = 1
    Tolerance = 1
SPECIFICATION Spec
INVARIANTS
    RowFailuresStopNoRun
CHECK_DEADLOCK FALSE
