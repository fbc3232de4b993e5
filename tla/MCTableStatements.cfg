SPECIFICATION FairSearchSpec
CONSTANTS
    k1 = k1
    k2 = k2
    a = a
    b = b
    s1 = s1
    s2 = s2
    x1 = x1
    Key = {k1, k2}
    Column = {a, b}
    Value = {1, 2}
    KeyColumn = KeyColumn
    Null = Null
    Absent = Absent
    Stmt = {s1, s2}
    Free = Free
    Provider = {"redis", "mongo", "sqlite", "postgres", "mysql", "seekdb", "lance"}
    Query <- Queries
    Workload <- Workloads
    OutsideRow <- OneOne
    FirstTable <- Tables
    Partitions = 2
    MaxOutside = 1
    Searcher = {x1}
    Look <- Looks
    Together <- Sessions
    NoLook = NoLook
    MaxSearch = 2
INVARIANTS
    ConnectionHeldInside
PROPERTIES
    AloneIsSql
    FailedRowsOldOrNew
    SelectIsOneMoment
    StatementsEnd
    NearestMatches
    AnswersAreFull
CHECK_DEADLOCK FALSE
