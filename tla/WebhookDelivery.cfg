SPECIFICATION HookSpec
CONSTANTS
    Users = {u1, u2}
    Events = {e1, e2}
    Handlers = {h1, h2}
    TTL = 1
    MaxSkew = 0
    MaxTime = 1
    EarlyCharge = TRUE
    NoUser = NoUser
    NoIntent = NoIntent
    NoEvent = NoEvent
    NoCharge = NoCharge
    NoHandler = NoHandler
SYMMETRY Symmetry
CHECK_DEADLOCK FALSE
INVARIANTS
    AckedSettled
    RefundOnlyUnsold
    MarkerMeansDecision
    RefundRecordTrue
PROPERTIES
    LeaseOfSuccessorKept
