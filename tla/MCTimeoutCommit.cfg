SPECIFICATION Spec
CONSTANTS
    Run = {r1}
    Null = Null
    Job <- Jobs
    Destination <- Tables
    Lake = {"lance"}
    Remote = {"postgres"}
    DestOf <- DestinationOf
    CreateIfMissing = {"toLance"}
    Timed <- Jobs
    Stalling = {}
    MaxBatches = 1
    MaxCrashes = 0
    LedgerMayFail = FALSE
    TaskMayPanic = FALSE
INVARIANTS
    TimedOutLeavesNothing
CHECK_DEADLOCK FALSE
