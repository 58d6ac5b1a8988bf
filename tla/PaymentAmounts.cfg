SPECIFICATION FairSpec
CONSTANTS
    Calls = {c1, c2}
    Prices <- MCPrices
    Currencies <- MCCurrencies
    ZeroDecimal <- MCZero
    ThreeDecimal <- MCThree
    SafeMax = 20000
    IntMax = 10000
    MaxHolds = 2
    MaxEdits = 1
    NoIntent = NoIntent
INVARIANTS TypeOK ChargedAsOffered PayableOnRecord RefusedOnlyIfEdited
PROPERTIES ImplementsLifecycle ChargeDecided
CHECK_DEADLOCK FALSE
