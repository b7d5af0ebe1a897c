CONSTANTS
    a1 = a1
    a2 = a2
    a3 = a3
    k1 = k1
    k2 = k2
    Agent <- TwoAgents
    Capability <- Labels
    ResourceName <- None
    Canonical <- None
    File <- None
    FileOf <- NoAnswers
    EnforcePolicy = TRUE
    DualAuthRequired = TRUE
    Token <- None
    NoToken = NoToken
    BaseGrant <- DelegateGrants
    Requested <- Secret
    Declarable <- Pair
    AuthorityList <- RepeatedLists
    SecretLike <- None
    Query <- None
    Backing <- None
    NulText <- Secret
    Answer <- NoAnswers
    MaxTtl = 1
    MaxOutstanding = 2
    MaxPreapproved = 2
    MaxClock = 0
    MaxTrace = 6
    MaxFaults = 0
SPECIFICATION TrailSpec
INVARIANTS
    LinesParse
CHECK_DEADLOCK FALSE
