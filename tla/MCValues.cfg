SPECIFICATION AllSpec
CONSTANTS
    e1 = e1
    e2 = e2
    p1 = p1
    p2 = p2
    t1 = t1
    t2 = t2
    Eval = {e1, e2}
    Path = {p1, p2}
    Text = {t1, t2}
    Empty = Empty
    Null = Null
    Free = Free
    Registry <- Settings
    Workload <- Batches
    ChunkLimit = 2
    Answers <- Found
    w = w
    padded = padded
    blank = blank
    Number = {0, 2, 3, 10}
    Half32 = 2
    Word = {w, padded, blank}
    Blank = blank
    Reads <- Padded
    Slot = {1, 2}
    Declaration <- Declared
    Prediction <- Queries
    NoNumber = NoNumber
    Under = 0
    Emitted = {0, 1, 2, 3}
    nested = nested
    flat = flat
    picture = picture
    top = top
    sub = sub
    File = {nested, flat, picture}
    Root = top
    Sub = sub
    DirOf <- Directories
    Rank <- Ranks
    Stem <- Stems
    Pages <- LinesOf
    Scanned = {flat}
    Scans = {1, 2}
    Option <- Options
    Limit = {2, 9}
    MaxEdits = 1
    Plan <- Plans
    Letter = {"a", "h", "localhost"}
    Probed = 3
    Commits = 5
    k1 = k1
    k2 = k2
    Person = {t1, t2}
    Ticket = {k1, k2}
    NoTicket = NoTicket
    Visit <- Visits
    Persisted <- Files2
    MaxActs = 3
    None = None
    Torn = Torn
INVARIANTS
    AnswersRows
    GgufLoadsOnce
    EscalationBudget
    RowsShowWhatWasWritten
    PredictionsAreTheirRows
    DocumentsAsTheyAre
    SourcesAsDeclared
    AuthTablesLive
PROPERTIES
    EvaluationsEnd
CHECK_DEADLOCK FALSE
