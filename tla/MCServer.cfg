SPECIFICATION FairSpec
CONSTANTS
    r1 = r1
    r2 = r2
    d1 = d1
    d2 = d2
    Call = {r1, r2}
    Id = {d1, d2}
    None = None
    Sent <- MCSent
INVARIANTS
    TypeOK
    NoRpcWithoutPool
    OnlyLateRequestsSuffer
    PathDecides
PROPERTY ShutdownEnds
CHECK_DEADLOCK FALSE
