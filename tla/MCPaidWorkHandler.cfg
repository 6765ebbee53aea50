SPECIFICATION HandlerFairSpec
CONSTANTS
    p1 = p1
    d1 = d1
    i1 = i1
    i2 = i2
    Permit <- MCPermit
    Draft <- MCDraft
    Expiry <- Early
    Invocation <- MCInvocation
    LeaseTTL = 1
    ResultTTL = 1
    MaxPolls = 2
    MaxTime = 2
    Skew = 0
    StmtLag = 1
CHECK_DEADLOCK FALSE
INVARIANTS OneCallPerPermit ReceiptsAreTrue PublishedDraftWasReturned
PROPERTY KeepsContract
PROPERTY InvocationsEnd
