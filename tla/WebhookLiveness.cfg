SPECIFICATION FairHookSpec
CONSTANTS
    Users = {u1, u2}
    Events = {e1}
    Handlers = {h1, h2}
    TTL = 1
    MaxSkew = 0
    MaxTime = 1
    EarlyCharge = FALSE
    NoUser = NoUser
    NoIntent = NoIntent
    NoEvent = NoEvent
    NoCharge = NoCharge
    NoHandler = NoHandler
CHECK_DEADLOCK FALSE
PROPERTIES
    ChargeSettled
