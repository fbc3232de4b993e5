SPECIFICATION Spec
CONSTANTS
    Run = {r1}
    Null = Null
    Job <- Jobs
    Destination <- Tables
    Lake = {"lance"}
    Remote = {"postgres"}
    DestOf <- DestinationOf
    CreateIfMissing = {"toLance"}
    Timed <- Jobs
    Stalling = {}
    MaxBatches = 2
    MaxCrashes = 2
    LedgerMayFail = TRUE
    TaskMayPanic = TRUE
INVARIANTS
    ReportedRowsLanded
    DeniedCommitsExplained
PROPERTIES
    TerminalRowsFrozen
    ImplementsRunLedger
CHECK_DEADLOCK FALSE
