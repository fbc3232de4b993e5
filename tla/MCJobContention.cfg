SPECIFICATION Spec
CONSTANTS
    Run = {r1, r2}
    Null = Null
    Job <- Jobs
    Destination <- Tables
    Lake = {"lance"}
    Remote = {"postgres"}
    DestOf <- DestinationOf
    CreateIfMissing = {"toLance"}
    Timed <- Jobs
    Stalling = {}
    MaxBatches = 1
    MaxCrashes = 1
    LedgerMayFail = FALSE
    TaskMayPanic = TRUE
SYMMETRY Symmetry
INVARIANTS
    AllOrNothing
CHECK_DEADLOCK FALSE
