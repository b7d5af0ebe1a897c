CONSTANTS
    t1 = t1
    t2 = t2
    k1 = k1
    k2 = k2
    k3 = k3
    Thread <- MCThread
    Owner <- MCOwner
    Scope <- MCScope
    Token <- MCToken
    NoThread = NoThread
    NoCall = NoCall
    MaxClock = 2
    MaxTtl = 2
    MaxOutstanding = 2
SPECIFICATION Spec
SYMMETRY Interchangeable
INVARIANTS
    OneUse
    NoLiveApprovalLost
PROPERTIES
    NoRevival
    PromiseSpec
CHECK_DEADLOCK FALSE
