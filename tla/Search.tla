------------------------------- MODULE Search -------------------------------
(***************************************************************************)
(* The search functions (crates/skardi/src/sources/providers: *_knn, the k *)
(* rows nearest to a vector, and *_fts, the best matches of a text), beside *)
(* the statements that write the table they search.  A query may filter a  *)
(* search by an argument of the function, by WHERE and by LIMIT, and take  *)
(* the vector from a subquery, which is executed before the search.  Lance *)
(* searches the version of the dataset that was opened at registration.    *)
(***************************************************************************)
EXTENDS TableStatements, SequencesExt

CONSTANTS Searcher,  \* queries that search
          Look,      \* what they may say
          Together,  \* which statements and searches run together, and where
          NoLook,    \* this searcher has nothing to do
          MaxSearch  \* MAX_KNN_K, MAX_FTS_LIMIT

\* A search says which function; the column it ranks by; the vector as a literal or the key
\* of the row a subquery takes it from (a text to match is not told apart); k or limit; the
\* conjuncts of the function's filter argument and of WHERE; and LIMIT.  A table has a finite
\* number of rows.
ASSUME SearchAssumption ==
    /\ NoLook \notin Look
    /\ Together \subseteq Provider \X Workload \X [Searcher -> Look \cup {NoLook}]
    /\ \A l \in Look : /\ l.fn \in {"knn", "fts"} /\ l.col \in Column
                       /\ l.of \in [kind : {"literal"}, of : Value] \cup [kind : {"row"}, of : Key]
                       /\ l.n \in Nat /\ l.limit \in Nat \cup {Null}
                       /\ l.inline \in Seq(Filter) /\ l.where \in Seq(Filter)
    /\ MaxSearch \in Nat /\ Null \notin Nat /\ IsFiniteSet(Key)

VARIABLES
    opened, \* rows of the version a Lance dataset was opened at
    look,   \* what each searcher says
    at,     \* where it has got to
    vector, \* the vector it searches for
    answer, \* keys of the rows it answers with
    still   \* history: is what it searches as it was when it was planned?

searchVars == <<opened, look, at, vector, answer, still>>

Searched == IF provider = "lance" THEN opened ELSE table

SearchInit ==
    /\ Init /\ opened = table
    /\ \E w \in Together : provider = w[1] /\ query = w[2] /\ look = w[3]
    /\ at = [x \in Searcher |-> "idle"] /\ vector = [x \in Searcher |-> Null]
    /\ answer = [x \in Searcher |-> {}] /\ still = [x \in Searcher |-> TRUE]

-----------------------------------------------------------------------------
(* Filters.                                                                 *)

\* Parts joined by AND without parentheses around them: what stands beside an OR belongs to
\* one side of it.  Parts the unparser has written come in parentheses.
Groups(text, nested) ==
    LET Ors == {i \in DOMAIN text : text[i].op = "or"}
        \* What stands between the OR at i, or the beginning, and the next OR.
        Beside(i) == {IF j \in Ors THEN text[j].left ELSE text[j] :
                       j \in {j \in DOMAIN text : j > i /\ Ors \cap (i + 1)..j \subseteq {j}}}
        Group(i) == Beside(i) \cup (IF i = 0 THEN {} ELSE {text[i].right})
                              \cup (IF \E j \in Ors : j > i THEN {} ELSE Range(nested))
    IN  {Group(i) : i \in Ors \cup {0}}

Where(l) == {Range(l.where)}

\* The vector index of SQLite (sqlite-vec) takes no OR; SQLite filters what it finds.
NotIndexed(l) == {f \in Range(l.where) : f.op = "or"}
\* What Mongo does not take is left to DataFusion.
NotPushed(l)  == Range(l.where) \ Pushable(Range(l.where))

\* Mutant: WHERE is declared exact and not appended to the filter argument.
PgKnnFilterInline(l) == Groups(l.inline, <<>>)

\* What the scan of each function declares exact and hands to its query.
SqliteKnnFilter(l) == {Range(l.where) \ NotIndexed(l)}
SqliteFtsFilter(l) == Where(l)
PgKnnFilter(l)     == Groups(l.inline, l.where)
PgFtsFilter(l)     == Where(l)
SeekDbKnnFilter(l) == Where(l)
SeekDbFtsFilter(l) == Where(l)
LanceKnnFilter(l)  == Groups(l.inline \o l.where, <<>>)
LanceFtsFilter(l)  == Groups(l.where, <<>>)
MongoFtsFilter(l)  == Pushable(Range(l.where))

-----------------------------------------------------------------------------
(* Searching.                                                               *)

\* knn: how far from the vector; fts: a cell is how often the text occurs in it.
Distance(a, b) == IF a < b THEN b - a ELSE a - b
Rank(l, t, v)  ==
    [k \in Key |-> IF t[k] = Absent THEN Null
                   ELSE IF t[k][l.col] \notin Number THEN Null
                   ELSE IF l.fn = "knn" THEN Distance(t[k][l.col], v)
                   ELSE IF t[k][l.col] = Blank THEN Null ELSE -t[k][l.col]]
Ranked(rank) == {k \in Key : rank[k] # Null}

Capped(n, S) == IF n = Null \/ n > Cardinality(S) THEN Cardinality(S) ELSE n

\* The n rows of S of lowest rank; among equals, any.
Top(S, n, rank) ==
    {T \in SUBSET S : /\ Cardinality(T) = Capped(n, S)
                      /\ \A i \in T, j \in S \ T : rank[i] <= rank[j]}

\* The ranked rows that satisfy one of the groups.
Kept(groups, t, rank) ==
    {k \in Ranked(rank) : \E group \in groups : SqlMatches(k, t[k], group)}

\* LIMIT, if there is one, lowers the function's own.
Limited(l) == IF l.limit # Null /\ l.limit < l.n THEN l.limit ELSE l.n

\* What each function may find: its query orders by rank and takes the first n.  Only the
\* index of SQLite is asked for as few rows as LIMIT leaves before they are filtered.
SqliteKnnExec(l, t, rank) ==
    {T \cap Kept({NotIndexed(l)}, t, rank) :
        T \in Top(Kept(SqliteKnnFilter(l), t, rank), Limited(l), rank)}

SqliteFtsExec(l, t, rank) == Top(Kept(SqliteFtsFilter(l), t, rank), Limited(l), rank)

PgKnnExec(l, t, rank) == Top(Kept(PgKnnFilter(l), t, rank), l.n, rank)

PgFtsExec(l, t, rank) == Top(Kept(PgFtsFilter(l), t, rank), Limited(l), rank)

SeekDbKnnExec(l, t, rank) == Top(Kept(SeekDbKnnFilter(l), t, rank), l.n, rank)

SeekDbFtsExec(l, t, rank) == Top(Kept(SeekDbFtsFilter(l), t, rank), Limited(l), rank)

\* nearest() has no prefilter: k rows are found and filtered.
LanceKnnExec(l, t, rank) ==
    {T \cap Kept(LanceKnnFilter(l), t, rank) : T \in Top(Ranked(rank), l.n, rank)}

\* Mutant: the limit is kept although Lance applies it before the filter.
LanceFtsExecLimited(l, t, rank) ==
    {T \cap Kept(LanceFtsFilter(l), t, rank) : T \in Top(Ranked(rank), l.n, rank)}

\* The limit is forgotten if there is WHERE.
LanceFtsExec(l, t, rank) ==
    Top(Kept(LanceFtsFilter(l), t, rank), IF l.where = <<>> THEN l.n ELSE Null, rank)

MongoFtsExec(l, t, rank) ==
    LET hits == {k \in Ranked(rank) : MongoMatches(k, t[k], MongoFtsFilter(l))}
        own  == IF l.n = 0 THEN 1 ELSE l.n
    IN  {{k \in T : SqlMatches(k, t[k], NotPushed(l))} : T \in Top(hits, own, rank)}

\* LIMIT cuts what is left.
AnswersOf(p, l, t, v) ==
    LET rank == Rank(l, t, v)
        rows == CASE p = "sqlite"   -> IF l.fn = "knn" THEN SqliteKnnExec(l, t, rank)
                                                      ELSE SqliteFtsExec(l, t, rank)
                  [] p = "postgres" -> IF l.fn = "knn" THEN PgKnnExec(l, t, rank)
                                                      ELSE PgFtsExec(l, t, rank)
                  [] p = "seekdb"   -> IF l.fn = "knn" THEN SeekDbKnnExec(l, t, rank)
                                                      ELSE SeekDbFtsExec(l, t, rank)
                  [] p = "lance"    -> IF l.fn = "knn" THEN LanceKnnExec(l, t, rank)
                                                      ELSE LanceFtsExec(l, t, rank)
                  [] p = "mongo"    -> MongoFtsExec(l, t, rank)
    IN  UNION {Top(T, l.limit, rank) : T \in rows}

-----------------------------------------------------------------------------
(* Planning.                                                                *)

InBounds(l) == l.n \in 1..MaxSearch
NoInline(l) == l.inline = <<>>

\* What each function accepts.  A filter is an argument of two of them; mongo_fts takes 0
\* for 1, and lance_fts anything.
SqliteKnn(l) == l.fn = "knn" /\ InBounds(l) /\ NoInline(l)
SqliteFts(l) == l.fn = "fts" /\ InBounds(l) /\ NoInline(l)
PgKnn(l)     == l.fn = "knn" /\ InBounds(l)
PgFts(l)     == l.fn = "fts" /\ InBounds(l) /\ NoInline(l)
SeekDbKnn(l) == l.fn = "knn" /\ InBounds(l) /\ NoInline(l)
SeekDbFts(l) == l.fn = "fts" /\ InBounds(l) /\ NoInline(l)
LanceKnn(l)  == l.fn = "knn" /\ InBounds(l)
LanceFts(l)  == l.fn = "fts" /\ NoInline(l)
MongoFts(l)  == l.fn = "fts" /\ l.n \in 0..MaxSearch /\ NoInline(l)

Accepts(p, l) ==
    CASE p = "sqlite"   -> SqliteKnn(l) \/ SqliteFts(l)
      [] p = "postgres" -> PgKnn(l) \/ PgFts(l)
      [] p = "seekdb"   -> SeekDbKnn(l) \/ SeekDbFts(l)
      [] p = "lance"    -> LanceKnn(l) \/ LanceFts(l)
      [] p = "mongo"    -> MongoFts(l)
      [] OTHER          -> FALSE

SearchPlan(x) ==
    /\ at[x] = "idle" /\ look[x] # NoLook
    /\ LET l == look[x]
       IN  \/ /\ Accepts(provider, l) /\ l.of.kind = "row"
              /\ at' = Set(at, x, "fetching") /\ UNCHANGED vector
           \/ /\ Accepts(provider, l) /\ l.of.kind = "literal"
              /\ at' = Set(at, x, "searching") /\ vector' = Set(vector, x, l.of.of)
           \/ /\ ~Accepts(provider, l)
              /\ at' = Set(at, x, "error") /\ UNCHANGED vector
    /\ still' = Set(still, x, TRUE)
    /\ UNCHANGED <<vars, opened, look, answer>>

\* extract_query_vector: the subquery's first row.  Without one, or without a vector in it,
\* the answer is empty; Postgres cannot read a NULL, and Lance reads what lies under it.
FetchVector(x) ==
    /\ at[x] = "fetching"
    /\ LET row  == Searched[look[x].of.of]
           cell == row[look[x].col]
       IN  \/ row = Absent /\ at' = Set(at, x, "ok") /\ UNCHANGED vector
           \/ /\ row # Absent /\ cell \in Number
              /\ vector' = Set(vector, x, cell) /\ at' = Set(at, x, "searching")
           \/ /\ row # Absent /\ cell = Null /\ provider # "lance"
              /\ at' = Set(at, x, IF provider = "postgres" THEN "error" ELSE "ok")
              /\ UNCHANGED vector
           \/ /\ row # Absent /\ cell = Null /\ provider = "lance"
              /\ \E v \in Number : vector' = Set(vector, x, v)
              /\ at' = Set(at, x, "searching")
    /\ UNCHANGED <<vars, opened, look, answer, still>>

RunSearch(x) ==
    /\ at[x] = "searching"
    /\ \E T \in AnswersOf(provider, look[x], Searched, vector[x]) : answer' = Set(answer, x, T)
    /\ at' = Set(at, x, "ok")
    /\ UNCHANGED <<vars, opened, look, vector, still>>

\* A connection, the subquery or the search fails.
SearchFails(x) ==
    /\ at[x] \in {"fetching", "searching"}
    /\ at' = Set(at, x, "error")
    /\ UNCHANGED <<vars, opened, look, vector, answer, still>>

SearchStep(x) == SearchPlan(x) \/ FetchVector(x) \/ RunSearch(x) \/ SearchFails(x)

\* A statement or another client goes on.
WriteStep ==
    /\ Next
    /\ still' = [x \in Searcher |-> still[x] /\ (provider = "lance" \/ table' = table)]
    /\ UNCHANGED <<opened, look, at, vector, answer>>

SearchNext == WriteStep \/ \E x \in Searcher : SearchStep(x)

SearchSpec == SearchInit /\ [][SearchNext]_<<vars, searchVars>>

FairSearchSpec == SearchSpec /\ \A s \in Stmt : WF_vars(Works(s) \/ SqlFails(s))

-----------------------------------------------------------------------------
(* Properties.                                                              *)

SearchEnds(x) == at[x] = "searching" /\ at'[x] = "ok"

Filters(l) == Range(l.inline) \cup Range(l.where)

\* Where a filter does not say what it says in SQL: beside an OR without parentheses, and
\* "<>" in Mongo, which is true of a missing field.
FiltersFollowSql(p, l, t) ==
    CASE p = "lance"    -> \/ Len(l.inline) + Len(l.where) = 1
                           \/ \A f \in Filters(l) : f.op # "or"
      [] p = "mongo"    -> \A f \in Filters(l), k \in Present(t) :
                              f.op = "<>" => Cells(k, t[k])[f.col] # Null
      [] OTHER          -> \/ Len(l.inline) = 1 /\ l.where = <<>>
                           \/ \A f \in Range(l.inline) : f.op # "or"

\* The vector the query means: what its subquery selects in the rows that are searched, if
\* nobody has written since it was planned.
Meant(x, t) ==
    LET of == look[x].of
    IN  CASE of.kind # "row" -> of.of
          [] of.kind = "row" /\ still[x] /\ t[of.of][look[x].col] # Null -> t[of.of][look[x].col]
          [] OTHER -> vector[x]

Hits(l, t, rank) == {k \in Ranked(rank) : SqlMatches(k, t[k], Filters(l))}

\* A search answers with rows that satisfy its filters, and leaves no row out that does and
\* is nearer than one of them: although every provider assembles the filter in its own way,
\* applies it before or after it takes the nearest, and reads the vector in a query of its
\* own, before and after which others write.
NearestMatches ==
    [][\A x \in Searcher :
          SearchEnds(x) =>
             LET t == Searched  l == look[x]  rank == Rank(l, t, Meant(x, t))
             IN  FiltersFollowSql(provider, l, t) =>
                    /\ answer'[x] \subseteq Hits(l, t, rank)
                    /\ \A i \in answer'[x], j \in Hits(l, t, rank) \ answer'[x] :
                          rank[i] <= rank[j]]_<<vars, searchVars>>

\* How many rows a query asks for.  lance_fts takes no notice of its limit beside WHERE,
\* mongo_fts takes 0 for 1.
AskedFor(p, l) ==
    CASE p = "lance" /\ l.fn = "fts" /\ l.where # <<>> -> l.limit
      [] p = "mongo" /\ l.n = 0                        -> IF l.limit = 0 THEN 0 ELSE 1
      [] OTHER                                         -> Limited(l)

\* Where filters are applied to the rows found and not to the table.
FiltersFound(p, l) ==
    CASE p = "lance"  -> l.fn = "knn" /\ Filters(l) # {}
      [] p = "sqlite" -> l.fn = "knn" /\ NotIndexed(l) # {}
      [] p = "mongo"  -> NotPushed(l) # {}
      [] OTHER        -> FALSE

\* An answer is never longer than k and LIMIT allow, and is as long as that unless fewer
\* rows satisfy the filters: what limits a function is not applied before what filters it.
AnswersAreFull ==
    [][\A x \in Searcher :
          SearchEnds(x) =>
             LET t == Searched  l == look[x]  rank == Rank(l, t, vector[x])
                 most == AskedFor(provider, l)
             IN  /\ Cardinality(answer'[x]) <= Capped(most, Key)
                 /\ \/ ~FiltersFollowSql(provider, l, t)
                    \/ FiltersFound(provider, l)
                    \/ Cardinality(answer'[x]) = Capped(most, Hits(l, t, rank))]_<<vars, searchVars>>
=============================================================================
