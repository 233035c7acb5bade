SPECIFICATION MCFairSpec
CONSTANTS
    Workloads <- MCWorkloads
    Null = Null
    Blank = Blank
    NoRow = NoRow
    a1 = a1
    a2 = a2
    n1 = n1
    n2 = n2
    z1 = z1
    i1 = i1
    i2 = i2
    b1 = b1
    k1 = k1
    t1 = t1
    t2 = t2
    Threads = {t1, t2}
    NoThread = NoThread
    MaxRuns = 3
    MaxEvents = 4
    Organizations = {a1, a2}
    Names = {n1, n2}
    Digits = {z1}
    Items = {i1, i2}
    Stations <- MCStations
    Products <- MCProducts
    Branches = {b1}
    Keys = {k1}
    Values = {1, 2}
    Created <- MCCreated
    Changes <- MCChanges
    Windows <- MCWindows
    Roles <- MCRoles
    Permissions <- MCPermissions
    RolePermissions <- MCRolePermissions
    OldRoles <- MCOldRoles
    OldPermissions <- MCOldPermissions
    MaxRequests = 6
    MaxRows = 2
    MaxAddresses = 3
    MaxCoupons = 2
    MaxDay = 3
    MaxEdits = 1
INVARIANTS
    BackOfficeTypes
    OrganizationsApart
    ChecksForeseeInserts
    ReadersFindOneRow
    KitchenServedWasReady
    SeedLeavesComplete
PROPERTIES
    PublishersAgree
    EveryRunEnds
    LogIsHarmless
    ClosedStaysClosed
    UpdatesAreExact
    SeedsAreIdempotent
CHECK_DEADLOCK FALSE
