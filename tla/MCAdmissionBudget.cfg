SPECIFICATION AdmissionSpec
CONSTANTS
    p1 = p1
    p2 = p2
    p3 = p3
    s1 = s1
    s2 = s2
    k1 = k1
    k2 = k2
    t1 = t1
    t2 = t2
    Permit <- MCPermit
    Session <- MCSession
    Tenant <- MCTenant
    Key <- MCKey
    TenantOf <- OneTenant
    Funded <- MCSession
    Cap <- MCCap
    Worst = 2
    SessionLimit = 1
    SessionWindow = 3
    TenantLimit = 2
    TenantWindow = 4
    MinuteLimit = 1
    MinuteWindow = 1
    DayLimit = 2
    DayWindow = 4
    TxnLag = 1
    LeaseExpiry <- MCLeaseExpiry
    PermitTTL = 1
    Grace = 0
    ActivationTTL = 1
    QueueClaimTTL = 0
    MaxTime = 3
    Skew = 0
    StmtLag = 0
SYMMETRY Symmetry
CHECK_DEADLOCK FALSE
INVARIANTS WithinBudget
