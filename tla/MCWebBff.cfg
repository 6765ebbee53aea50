SPECIFICATION WebSpec
CONSTANTS
    p1 = p1
    p2 = p2
    d1 = d1
    Permit <- MCPermit
    Draft <- MCDraft
    Expiry <- MCExpiry
    PermitTTL = 2
    Grace = 1
    LeaseTTL = 1
    ActivationTTL = 1
    ResultTTL = 1
    QueueClaimTTL = 1
    LastAdmission = 4
    MaxDeaths = 1
    MaxTime = 4
    Skew = 0
    StmtLag = 0
    b1 = b1
    b2 = b2
    Person = {b1, b2}
    SignIn = {1, 2}
    Fetch = {p1, p2}
    SessionTTL = 3
    RefreshAhead = 1
    TransactionTTL = 1
    IdTTL = 2
    LastTick = 4
SYMMETRY Symmetry
CHECK_DEADLOCK FALSE
INVARIANTS ShownIsSettled VerdictAccepted SignedInWhileGranted
