SPECIFICATION ConsoleSpec
CONSTANTS
    a1 = a1
    a2 = a2
    l1 = l1
    l2 = l2
    r1 = r1
    r2 = r2
    m1 = m1
    m2 = m2
    NoModel = NoModel
    Admin = {a1, a2}
    ProviderModel = {m1, m2}
    FirstModel = m1
    Offered <- MCOffered
    MaxTime = 3
    Skew = 1
    StmtLag = 0
    MaxProposals = 1
    MaxStagings = 2
    PublicationLife = 1
    Tenant = Tenant
    NoRelease = NoRelease
    NoSnapshot = NoSnapshot
    Operator = {a1, a2}
    Location = {l1, l2}
    ReleaseId = {r1, r2}
    Candidates = {r1}
    MaxDrafts = 2
    MaxSaves = 2
    Snapshot <- MCSnapshot
    MaxMoves = 3
    Prompt = {1, 2}
    Experiment = {l1, l2}
    Variants <- MCVariants
    Transaction = {a1, a2}
    MaxEvaluations <- MCEvaluations
    Reader = {a1, a2}
    Account = {"ann", "bob"}
    Identity = {1, 2}
    NoIdentity = 0
    Venue = {"north", "south"}
    Site = {"site"}
    SiteOf <- MCSiteOf
    RoleCaps <- MCRoleCaps
    GrantSets <- MCGrantSets
    Wishes <- MCWishes
    ReadLife = 1
    MintCap = 2
    RequestLife = 2
CHECK_DEADLOCK FALSE
SYMMETRY MCSymmetry
INVARIANTS
    PromotedAsCaptured
    PublishedWasReviewed
    EligibleAtCommit
    
    ServedWhileGranted
PROPERTIES
    PlatformPublishedAuthorized
    RatesNeverRewritten
    AccountsBoundOnce
