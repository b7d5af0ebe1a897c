CONSTANTS
    a1 = a1
    a2 = a2
    a3 = a3
    k1 = k1
    k2 = k2
    Agent <- TwoAgents
    Capability <- FsLabels
    ResourceName <- None
    Canonical <- None
    File <- None
    FileOf <- NoAnswers
    EnforcePolicy = TRUE
    DualAuthRequired = TRUE
    Token <- TwoTokens
    NoToken = NoToken
    BaseGrant <- None
    Requested <- WriteOnly
    Declarable <- None
    AuthorityList <- None
    SecretLike <- None
    Query <- None
    Backing <- None
    NulText <- None
    Answer <- NoAnswers
    MaxTtl = 1
    MaxOutstanding = 2
    MaxPreapproved = 2
    MaxClock = 1
    MaxTrace = 6
    MaxFaults = 0
SPECIFICATION TrailSpec
PROPERTIES
    DualTokenHonoured
CHECK_DEADLOCK FALSE
