CONSTANTS
    s1 = s1
    s2 = s2
    a1 = a1
    a2 = a2
    k1 = k1
    k2 = k2
    Strand <- OneStrand
    Agent <- TwoAgents
    Grant <- Grants
    Action <- Escalate
    Objective <- NoGoals
    NoObjective = NoObjective
    Category <- Classes
    Extra <- NoExtras
    Token <- TwoTokens
    NoToken = NoToken
    DualAuthRequired = TRUE
    MaxTtl = 1
    MaxOutstanding = 2
    MaxClock = 0
    MaxEdges = 2
SPECIFICATION Spec
INVARIANTS
    GrantsExact
CHECK_DEADLOCK FALSE
