SPECIFICATION FairSpec
CONSTANTS
    s1 = s1
    s2 = s2
    Seats = {s1, s2}
    LastEvent = 2
    EventOf <- MCEventOf
    PageSize = 1
    MaxEffects = 2
    InitialEvent = 1
    MaxPassed = 1
INVARIANTS SelectionShown AnswersTrue
PROPERTIES CatalogueComplete SoldIsSeen
CHECK_DEADLOCK FALSE
