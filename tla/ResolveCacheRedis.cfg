SPECIFICATION Spec
CONSTANTS
    NoValue = NoValue
    Runs = {p1, p2}
    Keys = {k1}
    Backends = {"redis"}
    Dates <- MCDates
    TTLs <- MCTTLs
    Horizon = 4
    NextMonth <- MCNextMonth
    Month = 2
    Day = 1
    UnitLength <- MCUnitLength
    MaxTTL = 3
    LastDate = 10
    MaxPuts = 1
INVARIANTS
    RedisKeysExpire
SYMMETRY RunSymmetry
CHECK_DEADLOCK FALSE
