SPECIFICATION Spec
CONSTANTS
    Clients = {c1, c2}
    Tokens = {t1, t2}
    MaxRequests = 2
    MaxTroubles = 2
SYMMETRY Symmetry
CHECK_DEADLOCK FALSE
INVARIANTS
    AcceptedReserved
    NoOrphanLease
PROPERTIES
    AnswerStable
    LocksFenced
