SPECIFICATION JourneySpec
CONSTANTS
    a1 = a1
    a2 = a2
    legacy = legacy
    b1 = b1
    b2 = b2
    c1 = c1
    c2 = c2
    rInvite = rInvite
    rOpen = rOpen
    tk = tk
    chosen = chosen
    NoToken = NoToken
    NoSelection = NoSelection
    NoProgress = NoProgress
    NoText = NoText
    NoKey = NoKey
    NoFormat = NoFormat
    EntryRequest = {a1, a2, legacy}
    Challenge = {b1, b2}
    Token = {tk}
    Visited = {tk}
    EntryRelease = {rInvite, rOpen}
    Verified = {rInvite}
    Mode <- MCMode
    Candidate = rOpen
    Selection = {chosen}
    MaxFailures = 1
    SourceCall = {a1, a2, legacy}
    LegacyCall = {legacy}
    DayLength = 4
    SourceLimit = 1
    SourceWindow = 2
    Retention = 3
    MaxTime = 6
    Skew = 1
    CallWait = 1
    StmtLag = 1
    Page = {b1, b2}
    Progress = {c1, c2}
    MaxVersion = 2
    MaxChain = 1
    Editor = {b1, b2}
    Text = {1, 2}
    Generated = 1
    MaxOpen = 2
    MaxRevision = 3
    GenerationKey = {a1, a2, legacy}
    Facts = {1, 2}
    Format = {b1, b2}
    Branch = {"bistro", "annexe"}
    FormatLocale <- MCLocale
    OptionKey = {1, 2, 3}
    FirstLayers <- MCFirstLayers
    FirstOwner <- MCFirstOwner
    Founding <- MCFounding
    MaxWork = 2
    MaxOptionVersion = 3
    Permit = {a1, a2}
    Draft = {b1, b2}
    Expiry = {0, 2, 3}
    LeaseTTL = 2
    ResultTTL = 1
    Words = {"clean", "kind", "you", "scam"}
    WordSize <- MCWordSize
    Option = {1, 2, 3}
    Proposition <- MCProposition
    Banned = {"scam"}
    Addresses = {"you"}
    DraftSetting <- MCDraftSetting
    MinSelections = 2
    MaxAssertion = 2
    MinSource = 2
    MaxPrompt = 4
    NoticeSize = 1
    MaxClaims = 2
CHECK_DEADLOCK FALSE
SYMMETRY MCSymmetry
INVARIANTS
    TerminalEvidence
    ClaimedOrNeverRun
    OneSessionPerInvitation
    GuessesBounded
    EntryHonoursRelease
    SourceWindowHolds
    NoBlindOverwrite
    RevisionsFollow
    
    ShownIsPublished
    KeptIsConfirmed
    FaithfulIsKept
PROPERTY
    DecisionsAreFinal
    PublishedAsStaged
