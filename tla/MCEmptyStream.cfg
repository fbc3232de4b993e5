SPECIFICATION Spec
CONSTANTS
    Capacity = 2
    MaxBatches = 6
    Null = Null
CHECK_DEADLOCK FALSE
INVARIANT EmptyNeverCommitted
