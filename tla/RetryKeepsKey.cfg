SPECIFICATION Spec
CONSTANTS
    Clients = {c1}
    Tokens = {t1}
    MaxRequests = 2
    MaxTroubles = 0
CHECK_DEADLOCK FALSE
PROPERTIES
    RetryKeepsKey
