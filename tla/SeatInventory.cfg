SPECIFICATION Spec
CONSTANTS
    Users = {u1, u2}
    Events = {e1, e2}
    TTL = 5
    MaxSkew = 1
    MaxTime = 9
    EarlyCharge = FALSE
    NoUser = NoUser
    NoIntent = NoIntent
    NoEvent = NoEvent
    NoCharge = NoCharge
SYMMETRY Symmetry
CHECK_DEADLOCK FALSE
INVARIANTS
    PaidAgreement
    OwedNotHeld
    CancelledOwesRefund
    OutboxFaithful
    HistoryKept
PROPERTIES
    HoldExclusive
    ImplementsLifecycle
