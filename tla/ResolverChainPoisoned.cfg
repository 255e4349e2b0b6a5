SPECIFICATION Spec
CONSTANTS
    Blank = Blank
    NoEntry = NoEntry
    Chains <- MCChains
    Registries <- MCRegistries
    Switches <- MCSwitches
INVARIANTS
    FailureNotCached
