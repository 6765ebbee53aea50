SPECIFICATION BffFairSpec
CONSTANTS
    p1 = p1
    p2 = p2
    d1 = d1
    Permit <- OnePermit
    Draft <- MCDraft
    Expiry <- MCExpiry
    PermitTTL = 2
    Grace = 1
    LeaseTTL = 1
    ActivationTTL = 1
    ResultTTL = 1
    QueueClaimTTL = 0
    LastAdmission = 0
    MaxDeaths = 2
    MaxTime = 6
    Skew = 0
    StmtLag = 1
CHECK_DEADLOCK FALSE
PROPERTY ReservationsResolve
