SPECIFICATION FairSpec
CONSTANTS
    Requests = {r1, r2}
    Probes = {p1}
    Tasks = {consumer, publisher}
INVARIANTS DrainsFirst TasksServe
PROPERTIES SignalExits ProbeAnswered
CHECK_DEADLOCK FALSE
