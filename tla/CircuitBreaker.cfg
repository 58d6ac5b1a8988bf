SPECIFICATION FairSpec
CONSTANTS
    Calls = {c1, c2, c3}
    Threshold = 3
    Probes = 2
    MaxRetries = 1
    Reset = 2
PROPERTIES
    ImplementsGate
    ClosedByProbes
    Recovers
