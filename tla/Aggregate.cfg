SPECIFICATION Spec
CONSTANTS
    Groups <- MCGroups
    Addresses <- MCAddresses
    SrcIP <- MCSrcIP
    Networks <- MCNetworks
    ChunkSizes = {1, 2, 3, 6}
    MinCounts = {0, 2, 3}
    MaxRows = 5
INVARIANTS
    ModesAgree
    RowsInTheirFile
    SplitIsComplete
