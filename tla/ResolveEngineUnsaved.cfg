SPECIFICATION Spec
CONSTANTS
    c1 = c1
    c2 = c2
    Blank = Blank
    Given = Given
    Unknown = Unknown
    Before = Before
    NumKeys = 3
    Rows <- MCRows
    KeyOf <- MCKeyOf
    Columns <- MCColumns
    Inputs <- MCInputs
    Caches <- MCCaches
    MaxWorkers = 2
    MaxInterrupts = 1
    SkipAlreadyEnriched = TRUE
INVARIANTS
    InterruptSavesWork
