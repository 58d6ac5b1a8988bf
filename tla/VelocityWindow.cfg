SPECIFICATION Spec
CONSTANTS
    Ips = {i1}
    Users = {u1, u2}
    Event = event
    Limit = 2
    Window = 2
    OldCount = 3
    MaxTime = 2
    MaxAttempts = 4
    MaxFailures = 1
SYMMETRY Symmetry
CHECK_DEADLOCK FALSE
INVARIANTS
    NoFalseAlarm
    BoundedPass
