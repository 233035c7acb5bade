SPECIFICATION MCFairSpec
CONSTANTS
    Workloads <- MCWorkloads
    p1 = p1
    p2 = p2
    r1 = r1
    r2 = r2
    None = None
    Branches = {b1, b2}
    b1 = b1
    b2 = b2
    Products = {p1, p2}
    Keys = {k1}
    k1 = k1
    Requests = {r1, r2}
    Handlers = {"create", "cancel", "return", "adjust"}
    Carts <- MCAllCarts
    Amounts <- MCAmounts
    RowId <- MCRowId
    Opening <- MCOpening
    MaxServed = 4
INVARIANTS
    TypeOK
    NumbersGapless
    OneOrderPerKey
    SalesNeverDeadlock
    MovementsTellStock
PROPERTIES
    EveryRequestEnds
CHECK_DEADLOCK FALSE
