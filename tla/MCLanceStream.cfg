SPECIFICATION FairSpec
CONSTANTS
    Capacity = 2
    MaxBatches = 6
    Null = Null
INVARIANTS
    WholeStreamOrNothing
    WindowBounded
PROPERTIES
    WriteSettles
    BridgeDrains
CHECK_DEADLOCK FALSE
