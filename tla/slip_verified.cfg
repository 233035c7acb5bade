SPECIFICATION Spec
CONSTANTS
    o1 = o1
    o2 = o2
    None = None
    Orders = {o1}
    Images <- MCImages
    Workers = {1}
    GrandTotal <- MCGrandTotal
    Text <- MCText
    MaxRows = 2
    MaxAttempts = 3
INVARIANTS
    GoodSlipsAreVerified
CHECK_DEADLOCK FALSE
