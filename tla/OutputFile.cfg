SPECIFICATION Spec
CONSTANTS
    Procs = {p1, p2}
    Nobody = Nobody
    Length = 2
    MaxRuns = 2
INVARIANTS
    TargetWhole
    NoLitter
PROPERTIES
    OnlyFinishedReplace
CHECK_DEADLOCK FALSE
