SPECIFICATION Spec
CONSTANTS
    NoValue = NoValue
    Runs = {p1, p2}
    Keys = {k1}
    Backends = {"sqlite", "redis"}
    Dates <- MCDates
    TTLs <- MCTTLs
    Horizon = 3
    NextMonth <- MCNextMonth
    Month = 2
    Day = 1
    UnitLength <- MCUnitLength
    MaxTTL = 3
    LastDate = 10
    MaxPuts = 2
INVARIANTS
    ExpiryCapped
    NothingStaleServed
PROPERTIES
    CommittedStays
SYMMETRY RunSymmetry
CHECK_DEADLOCK FALSE
