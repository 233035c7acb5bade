SPECIFICATION MCSpec
CONSTANTS
    Workloads <- MCWorkloads
    r1 = r1
    r2 = r2
    u1 = u1
    d1 = d1
    a1 = a1
    a2 = a2
    m1 = m1
    m2 = m2
    k1 = k1
    p1 = p1
    p2 = p2
    t1 = t1
    t2 = t2
    None = None
    Organizations = {a1, a2}
    Mailboxes = {m1, m2}
    Branches = {k1}
    Permissions = {p1, p2}
    GoogleDefault = a1
    MaxUsers = 3
    MaxRoles = 2
    MaxServed = 5
    Registers = {t1, t2}
    Cash = {0, 3}
    Amounts = {1, 2}
    MaxShifts = 2
    MaxTasks = 5
    Requests = {r1, r2}
    Users = {u1}
    Clients = {d1}
    MAX_FAILED_ATTEMPTS = 2
    LOCKOUT = 1
    REFRESH_EXPIRE = 2
    MaxTime = 4
    MaxLogins = 6
INVARIANTS
    DeployedShiftsCanBeClosed
CHECK_DEADLOCK FALSE
