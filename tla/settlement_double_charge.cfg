SPECIFICATION Spec
CONSTANTS
    o1 = o1
    o2 = o2
    c1 = c1
    v1 = v1
    v2 = v2
    r1 = r1
    r2 = r2
    None = None
    Requests = {r1, r2}
    Orders = {o1}
    Customers = {c1}
    Verifications = {}
    CustomerOf <- MCCustomerOf
    GrandTotal <- MCGrandTotal
    SlipOrder <- MCSlipOrder
    SlipAmount <- MCSlipAmount
    SlipStart = {"pending", "amount_mismatch"}
    PayAmounts <- MCPayAmounts
    PointAmounts = {1, 3}
    OpeningBalance = 3
    MaxServed = 2
INVARIANTS
    SettledOnce
CHECK_DEADLOCK FALSE
