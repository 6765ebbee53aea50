SPECIFICATION PlatformSpec
CONSTANTS
    a1 = a1
    a2 = a2
    m1 = m1
    m2 = m2
    l1 = l1
    r1 = r1
    r2 = r2
    NoRelease = NoRelease
    NoSnapshot = NoSnapshot
    NoModel = NoModel
    Admin = {a1, a2}
    ProviderModel = {m1, m2}
    FirstModel = m1
    Location = {l1}
    ReleaseId = {r1, r2}
    Snapshot <- MCSnapshot
    MaxMoves = 2
    MaxTime = 3
    Offered <- MCOffered
    Skew = 0
    StmtLag = 0
    MaxProposals = 1
    MaxStagings = 2
    PublicationLife = 1
CHECK_DEADLOCK FALSE
INVARIANT PricedInForce
