CONSTANTS
    a1 = a1
    a2 = a2
    a3 = a3
    k1 = k1
    k2 = k2
    Agent <- TwoAgents
    Capability <- Labels
    ResourceName <- None
    Canonical <- None
    File <- None
    FileOf <- NoAnswers
    EnforcePolicy = TRUE
    DualAuthRequired = TRUE
    Token <- TwoTokens
    NoToken = NoToken
    BaseGrant <- WriteGrant
    Requested <- Asked
    Declarable <- None
    AuthorityList <- None
    SecretLike <- Secret
    Query <- None
    Backing <- None
    NulText <- None
    Answer <- NoAnswers
    MaxTtl = 1
    MaxOutstanding = 2
    MaxPreapproved = 1
    MaxClock = 2
    MaxTrace = 9
    MaxFaults = 1
SPECIFICATION TrailSpec
SYMMETRY ApprovalSymmetry
INVARIANTS
    TypeOK
    GrantsPaid
    PreapprovalBacked
    DiskCoheres
PROPERTIES
    PreapprovalHonoured
CHECK_DEADLOCK FALSE
