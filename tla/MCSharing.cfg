CONSTANTS
    a1 = a1
    a2 = a2
    a3 = a3
    k1 = k1
    k2 = k2
    Agent <- ThreeAgents
    Capability <- FsLabels
    ResourceName <- AliasNames
    Canonical <- OneName
    File <- OneFile
    FileOf <- AliasedFile
    EnforcePolicy = TRUE
    DualAuthRequired = TRUE
    Token <- None
    NoToken = NoToken
    BaseGrant <- AllGrant
    Requested <- None
    Declarable <- Pairs3
    AuthorityList <- ReadOn
    SecretLike <- None
    Query <- Ports
    Backing <- None
    NulText <- None
    Answer <- NoAnswers
    MaxTtl = 1
    MaxOutstanding = 2
    MaxPreapproved = 2
    MaxClock = 0
    MaxTrace = 6
    MaxFaults = 1
SPECIFICATION OneDenialSpec
SYMMETRY Symmetric3
INVARIANTS
    SharersRelated
    NoUndeclaredFlow
    ChannelClean
    Confined
    HeldRecorded
CHECK_DEADLOCK FALSE
