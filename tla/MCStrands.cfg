CONSTANTS
    s1 = s1
    s2 = s2
    a1 = a1
    a2 = a2
    k1 = k1
    k2 = k2
    Strand <- TwoStrands
    Agent <- TwoAgents
    Grant <- Grants
    Action <- Escalate
    Objective <- Goals
    NoObjective = NoObjective
    Category <- Classes
    Extra <- Extras
    Token <- OneToken
    NoToken = NoToken
    DualAuthRequired = TRUE
    MaxTtl = 1
    MaxOutstanding = 2
    MaxClock = 1
    MaxEdges = 2
SPECIFICATION NarrowSpec
SYMMETRY Interchangeable
INVARIANTS
    TypeOK
    GrantsNeedApprovals
    NoUnapprovedLanding
    WeaveClean
    OnlyReusedIds
CHECK_DEADLOCK FALSE
