SPECIFICATION MCSpec
CONSTANTS
    Workloads <- MCWorkloads
    p1 = p1
    p2 = p2
    b1 = b1
    b2 = b2
    l1 = l1
    l2 = l2
    r1 = r1
    r2 = r2
    None = None
    Products = {p1, p2}
    Branches = {b1, b2}
    LotNumbers = {l1, l2}
    Requests = {r1, r2}
    Handlers = {"create", "update", "approve", "cancel", "receive"}
    ItemLists <- MCItemLists
    Deliveries <- MCDeliveries
    Schemas <- MCSchemas
    Opening <- MCOpening
    ItemsMoved <- MCItemsMoved
    Counts = {0, 1, 2}
    Damages = {0, 1}
    MaxOrders = 2
    MaxTransfers = 2
    Orders = {"order"}
    OrderItems <- MCOrderItems
    GrandTotal <- MCGrandTotal
    Returnings <- MCReturnings
    Amounts = {4, 7}
    MaxClaims = 4
    MaxServed = 6
SYMMETRY Symmetry
INVARIANTS
    DeployedDraftsCanBeApproved
CHECK_DEADLOCK FALSE
