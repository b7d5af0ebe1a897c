CONSTANTS
    Name <- MCName
    Action <- MCAction
    Unfit = Unfit
    MaxDepth = 2
    MaxDecisions = 3
SPECIFICATION Spec
INVARIANTS
    TypeOK
    AllowedUnanimous
    AllHeard
    RefusalExplained
CHECK_DEADLOCK FALSE
