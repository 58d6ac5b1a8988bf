SPECIFICATION FairSpec
CONSTANTS
    MaxRows = 2
    Publishers = {p1, p2}
    Consumers = {c1}
    Recoverers = {v1}
    ClaimLimit = 2
    ReadCount = 2
    PendingCount = 2
    MaxTroubles = 2
    NoOne = NoOne
CHECK_DEADLOCK FALSE
INVARIANTS
    NothingForgotten
PROPERTIES
    ClaimFenced
    ImplementsDelivery
    EveryEventRecorded
