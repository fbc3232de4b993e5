SPECIFICATION CliSpec

CONSTANTS
    Param <- MCParam
    NameLength <- MCNameLength
    NamedAfter <- MCNamedAfter
    Absent = Absent
    NoText = NoText
    Nothing = Nothing
    Process = {1, 2}
    Sessions <- MCSessions
    Alphabet <- MCAlphabet
    Numeral <- MCNumeral
    Conflict = Conflict
    Configs <- MCConfigs
    Calls <- MCCalls
    MaxRetries = 3
    Concurrency = 2
    MaxChanges = 2

\* A server that failed to start has stopped.
CHECK_DEADLOCK FALSE

INVARIANTS
    SearchableIsQueryable
    StableTablesServed
    NamesReadTheirTable
    ReadOnlyKept
    PlannedIsServable
    HealthyServes
    ColumnsAreTheirOwn
    DescriptionsByRule
    AliasesKept
    StatementsAreTemplates

PROPERTIES
    StartupSettles
    RequestsAnswered
