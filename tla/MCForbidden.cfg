CONSTANTS
    a1 = a1
    a2 = a2
    a3 = a3
    Agent <- ThreeAgents
    NoWriter = NoWriter
    Resource <- Resources
    MaxSeq = 4
    Delegated <- Lists
    Root <- RootLabels
    MaxHops = 4
    Query <- Asked
    Backing <- Hosts
    Response <- Responses
    Disclosed <- OneQuery
    Line <- AllLines
    MaxLines = 5
    MetricThreshold = 1
    MaxPath = 3
SPECIFICATION OneKindSpec
INVARIANTS
    ForbiddenReported
CHECK_DEADLOCK FALSE
