SPECIFICATION ProtocolSpec
CONSTANTS
    p1 = p1
    p2 = p2
    d1 = d1
    Permit <- MCPermit
    Draft <- MCDraft
    Expiry <- MCExpiry
    PermitTTL = 2
    Grace = 1
    LeaseTTL = 2
    ActivationTTL = 1
    ResultTTL = 1
    QueueClaimTTL = 1
    MaxTime = 3
    Skew = 1
    StmtLag = 1
SYMMETRY Symmetry
CHECK_DEADLOCK FALSE
INVARIANTS PaidOnlyIfReserved ReleasedIsNeverCalled SettledIsTerminal OneExecution LiveHoldsPlace
