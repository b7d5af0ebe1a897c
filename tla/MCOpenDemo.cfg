CONSTANTS
    a1 = a1
    a2 = a2
    a3 = a3
    k1 = k1
    k2 = k2
    Agent <- ThreeAgents
    Capability <- FsLabels
    ResourceName <- AliasNames
    Canonical <- OneName
    File <- OneFile
    FileOf <- AliasedFile
    EnforcePolicy = FALSE
    DualAuthRequired = FALSE
    Token <- None
    NoToken = NoToken
    BaseGrant <- None
    Requested <- WriteOnly
    Declarable <- Pairs3
    AuthorityList <- ReadLists
    SecretLike <- None
    Query <- Ports
    Backing <- OneHost
    NulText <- None
    Answer <- OneAnswer
    MaxTtl = 1
    MaxOutstanding = 2
    MaxPreapproved = 2
    MaxClock = 0
    MaxTrace = 7
    MaxFaults = 2
SPECIFICATION OpenSpec
SYMMETRY Symmetric3
INVARIANTS
    NoSilentExchange
CHECK_DEADLOCK FALSE
