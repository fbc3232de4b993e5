SPECIFICATION FairSpec
CONSTANTS
    Run = {r1}
    Null = Null
    Job <- Jobs
    Destination <- Tables
    Lake = {"lance"}
    Remote = {"postgres"}
    DestOf <- DestinationOf
    CreateIfMissing = {"toLance"}
    Timed = {"toLance"}
    Stalling = {"toLance", "toSqlite"}
    MaxBatches = 1
    MaxCrashes = 1
    LedgerMayFail = FALSE
    TaskMayPanic = FALSE
PROPERTIES
    EventuallyTerminal
    CancelTakesEffect
    FlagsReclaimed
CHECK_DEADLOCK FALSE
