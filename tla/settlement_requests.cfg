SPECIFICATION MCSpec
CONSTANTS
    Workloads <- MCWorkloads
    o1 = o1
    o2 = o2
    c1 = c1
    v1 = v1
    v2 = v2
    r1 = r1
    r2 = r2
    w1 = w1
    w2 = w2
    None = None
    Requests = {r1, r2}
    Orders = {o1, o2}
    Customers = {c1}
    Verifications = {v1, v2}
    CustomerOf <- MCSameCustomer
    GrandTotal <- MCGrandTotal
    SlipOrder <- MCSlipOrder
    SlipAmount <- MCSlipAmount
    SlipStart = {"pending", "amount_mismatch"}
    PayAmounts <- MCPayAmounts
    PointAmounts = {1, 3}
    OpeningBalance = 3
    MaxServed = 6
    Images <- MCImages
    Text <- MCText
    UploadTotals <- MCUploadTotals
    Workers = {w1, w2}
    MaxRows = 3
    MaxAttempts = 3
SYMMETRY WorkerSymmetry
INVARIANTS
    RequestTypes
    AmountPaidIsBacked
    SettledIsCovered
    PointsNeverOverdrawn
    SlipPaidOnce
    SerialBooksAgree
    LiveSlipsWithinWorkers
PROPERTIES
    TillIsImplemented
CHECK_DEADLOCK FALSE
