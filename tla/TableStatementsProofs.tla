----------------------- MODULE TableStatementsProofs -----------------------
(***************************************************************************)
(* What holds of TableStatements for any rows, filters, statements and     *)
(* number of writes of other clients: Redis and Mongo filter as SQL does   *)
(* where they should, a Redis connection is never left taken, and a SELECT *)
(* that nobody it depends on disturbs answers with the rows of one moment. *)
(* Of the searches of Search beside them: an answer has the nearest rows   *)
(* that satisfy the filters, and as many of them as were asked for.        *)
(***************************************************************************)
EXTENDS Search, FiniteSetTheorems, TLAPS

-----------------------------------------------------------------------------
(* Filters.                                                                 *)

LEMMA FilterKinds ==
    ASSUME NEW f \in Filter
    PROVE  /\ f.op = "or" => f.left \in Comparison /\ f.right \in Comparison
           /\ f.op # "or" => f \in Comparison
BY DEF Filter, Comparison

\* A comparison on the strings of a hash is the comparison SQL makes of the row a scan shows:
\* a field that is missing is an empty string to both and no operand is NULL.
LEMMA RedisCompareIsSql ==
    ASSUME NEW k \in Key, NEW row \in Row, NEW f \in Comparison
    PROVE  RedisCompare(k, row, f) <=> SqlTrue(Cells(k, RedisView(row)), f)
<1> DEFINE cells == Cells(k, RedisView(row))
<1>1. \A c \in Column \cup {KeyColumn} : cells[c] # Null
  BY RowsAssumption DEF Cells, RedisView, Blank
<1>2. f.col \in Column \cup {KeyColumn} /\ f.rhs \in Operand
  BY DEF Comparison
<1>3. Rhs(cells, f.rhs) # Null
  BY <1>1, <1>2, RowsAssumption DEF Rhs, Operand
<1> QED BY <1>1, <1>2, <1>3 DEF RedisCompare, SqlTrue

\* evaluate_filters selects the rows DataFusion's filter selects above a scan, so a DELETE or
\* an UPDATE at Redis touches the rows a SELECT with the same WHERE clause returns.
THEOREM RedisFilterIsSql ==
    ASSUME NEW k \in Key, NEW row \in Row, NEW F \in SUBSET Filter
    PROVE  RedisMatches(k, row, F) <=> SqlMatches(k, RedisView(row), F)
BY FilterKinds, RedisCompareIsSql DEF RedisMatches, SqlMatches

\* The filter document a Mongo scan sends never loses a row the query asks for: what
\* DataFusion's filter keeps, the pushed part keeps as well.
THEOREM MongoPushdownComplete ==
    ASSUME NEW k, NEW row, NEW F \in SUBSET Filter, SqlMatches(k, row, F)
    PROVE  MongoMatches(k, row, Pushable(F))
<1> SUFFICES ASSUME NEW f \in Pushable(F) PROVE MongoCompare(k, row, f)
  BY DEF MongoMatches
<1>1. f \in Comparison /\ f.op # "or" /\ f.rhs.kind = "literal" /\ f \in F
  BY FilterKinds DEF Pushable
<1>2. SqlTrue(Cells(k, row), f)
  BY <1>1 DEF SqlMatches
<1> QED BY <1>1, <1>2 DEF MongoCompare, SqlTrue, Rhs, Compare

-----------------------------------------------------------------------------
(* The inductive invariant.                                                 *)

Shapes ==
    /\ provider \in Provider /\ conn \in Stmt \cup {Free}
    /\ DOMAIN pc = Stmt /\ query \in [Stmt -> Query]
    /\ DOMAIN left = Stmt /\ DOMAIN seen = Stmt
    /\ \A s \in Stmt : DOMAIN seen[s] = Key /\ seen[s] = [k \in Key |-> seen[s][k]]
    /\ DOMAIN alone = Stmt /\ DOMAIN quiet = Stmt

\* What a SELECT has read is what SQL answers of the table as it is.
SoFar(s) ==
    \A k \in Key : k \notin left[s] => seen[s][k] = SqlAnswer(Shown(table), query[s])[k]

\* Nothing is read before the keys are listed; while they are read, the answer so far is
\* right as long as nobody whom the connection does not keep out has written.
Reads(s) ==
    Kind(s) = "select" =>
        /\ pc[s] \notin {"deleting", "updating", "clearing", "dropping", "inserting", "writing"}
        /\ provider = "mongo" => pc[s] # "planned"
        /\ pc[s] \in {"idle", "planning", "planned", "scanning"} => seen[s] = Nothing
        /\ provider = "redis" /\ pc[s] = "reading" /\ quiet[s]
              => left[s] \subseteq Present(table) /\ SoFar(s)
        /\ provider = "mongo" /\ pc[s] = "reading" /\ alone[s] => SoFar(s)

IInv == Shapes /\ ConnectionHeldInside /\ \A s \in Stmt : Reads(s)

-----------------------------------------------------------------------------
(* Steps.                                                                   *)

\* A step of x leaves the other statements where they are, and writes the table only with
\* the connection in hand or by telling the others that they are not alone.
Frame(x) ==
    /\ provider' = provider /\ query' = query /\ Shapes'
    /\ \A s \in Stmt \ {x} : pc'[s] = pc[s] /\ left'[s] = left[s] /\ seen'[s] = seen[s]
    /\ \A s \in Stmt \ {x} : quiet'[s] => quiet[s]
    /\ \A s \in Stmt \ {x} : alone'[s] => alone[s] /\ (Active(s) => table' = table)
    /\ \/ table' = table
       \/ provider = "redis" => conn = x

LEMMA OthersRead ==
    ASSUME IInv, NEW x \in Stmt, Frame(x)
    PROVE  \A s \in Stmt \ {x} : Reads(s)'
<1> SUFFICES ASSUME NEW s \in Stmt \ {x} PROVE Reads(s)'
  OBVIOUS
<1>1. Reads(s) /\ (provider = "redis" => (conn = s <=> pc[s] \in Holding))
  BY DEF IInv, ConnectionHeldInside
<1>2. CASE table' = table
  <2>1. SoFar(s) => SoFar(s)'
    <3>1. provider' = provider /\ query' = query /\ left'[s] = left[s] /\ seen'[s] = seen[s]
      BY DEF Frame
    <3>2. SqlAnswer(Shown(table), query[s])' = SqlAnswer(Shown(table), query[s])
      BY <1>2, <3>1 DEF SqlAnswer, Shown, View, SqlMatched, Present, Without, After, Cleared
    <3> QED BY <3>1, <3>2 DEF SoFar
  <2> QED BY <1>1, <1>2, <2>1 DEF Frame, Reads, Kind, Present, Nothing
<1>3. CASE table' # table
  <2>1. provider = "redis" => pc[s] # "reading"
    BY <1>1, <1>3 DEF Frame, Holding
  <2>2. provider = "mongo" /\ pc[s] = "reading" => ~alone'[s]
    BY <1>3 DEF Frame, Active, Ended
  <2> QED BY <1>1, <2>1, <2>2 DEF Frame, Reads, Kind, Nothing
<1> QED BY <1>2, <1>3

\* What there is to show of an action of x: the frame, the connection and x's own reading.
Good(x) == Frame(x) /\ ConnectionHeldInside' /\ Reads(x)'

LEMMA Kinds ==
    ASSUME IInv, NEW s \in Stmt
    PROVE  /\ Kind(s) \in {"select", "delete", "update", "insert", "overwrite"}
           /\ query[s].where \subseteq Filter
BY StatementAssumption DEF IInv, Shapes, Kind

LEMMA AnswerAt ==
    ASSUME NEW t, NEW q, q.kind = "select", NEW k \in Key
    PROVE  SqlAnswer(Shown(t), q)[k] =
              IF View(t[k]) # Absent /\ SqlMatches(k, View(t[k]), q.where)
              THEN View(t[k]) ELSE Absent
<1>1. k \in SqlMatched(Shown(t), q) <=>
          View(t[k]) # Absent /\ SqlMatches(k, View(t[k]), q.where)
  BY DEF SqlMatched, Present, Shown
<1>2. SqlAnswer(Shown(t), q) = Without(Shown(t), Key \ SqlMatched(Shown(t), q))
  BY DEF SqlAnswer, Inserts
<1> QED BY <1>1, <1>2 DEF Without, Shown

\* A row that is not there is not in the answer: nothing is owed before the first read.
LEMMA NothingYet ==
    ASSUME NEW q, q.kind = "select", NEW k \in Key \ Present(table)
    PROVE  SqlAnswer(Shown(table), q)[k] = Absent
BY AnswerAt DEF Present, View

LEMMA BeginGood ==
    ASSUME IInv, NEW s \in Stmt, Begin(s) PROVE Good(s)
BY Kinds, StatementAssumption
   DEF IInv, Good, Shapes, Frame, Reads, ConnectionHeldInside, Begin,
   Is, Goto, Set, Holding, Active, Ended, Kind, stores, locals, history, Nothing, Inserts, Dml

LEMMA RedisTakeGood ==
    ASSUME IInv, NEW s \in Stmt, RedisTake(s) PROVE Good(s)
BY Kinds, StatementAssumption DEF IInv, Good, Shapes, Frame, Reads, ConnectionHeldInside, RedisTake, Asks, Takes, RedisNext, Asking, Inserts, Dml,
   Is, Goto, Set, GivesBack, Holding, Active, Ended, Kind, stores, locals, history, Nothing, Inserts, Dml

LEMMA RedisBusyGood ==
    ASSUME IInv, NEW s \in Stmt, RedisBusy(s) PROVE Good(s)
BY Kinds, StatementAssumption DEF IInv, Good, Shapes, Frame, Reads, ConnectionHeldInside, RedisBusy, Asks, Asking,
   Is, Goto, Set, GivesBack, Holding, Active, Ended, Kind, stores, locals, history, Nothing, Inserts, Dml

LEMMA RedisPlanGood ==
    ASSUME IInv, NEW s \in Stmt, RedisPlan(s) PROVE Good(s)
BY Kinds, StatementAssumption DEF IInv, Good, Shapes, Frame, Reads, ConnectionHeldInside, RedisPlan,
   Is, Goto, Set, GivesBack, Holding, Active, Ended, Kind, stores, locals, history, Nothing, Inserts, Dml

LEMMA RedisScanGood ==
    ASSUME IInv, NEW s \in Stmt, RedisScan(s) PROVE Good(s)
<1>1. Frame(s) /\ ConnectionHeldInside'
  BY Kinds, StatementAssumption DEF IInv, Shapes, Frame, ConnectionHeldInside, RedisScan, Is, Goto, Set, GivesBack, Holding, Active, Ended, Kind, stores, locals, history, Nothing, Inserts, Dml
<1>2. Reads(s)'
  <2> SUFFICES ASSUME Kind(s) = "select" PROVE Reads(s)'
    BY <1>1 DEF Frame, Reads, Kind
  <2>1. /\ provider = "redis" /\ seen[s] = Nothing /\ seen' = seen /\ table' = table
        /\ query' = query /\ provider' = provider
        /\ left'[s] = Present(table) /\ pc'[s] = "reading"
    BY DEF IInv, Shapes, Reads, RedisScan, Is, Goto, Set, GivesBack, Holding, Active, Ended, Kind, stores, locals, history, Nothing, Inserts, Dml
  <2>2. SoFar(s)'
    BY <2>1, NothingYet DEF SoFar, Kind, Nothing, SqlAnswer, Shown, View, SqlMatched, Present,
       Without
  <2> QED BY <2>1, <2>2 DEF Reads, Kind, Present
<1> QED BY <1>1, <1>2 DEF Good

LEMMA RedisReadGood ==
    ASSUME IInv, NEW s \in Stmt, RedisRead(s) PROVE Good(s)
<1>1. Frame(s) /\ ConnectionHeldInside'
  BY Kinds, StatementAssumption DEF IInv, Shapes, Frame, ConnectionHeldInside, RedisRead, Is, Goto, Set, GivesBack, Holding, Active, Ended, Kind, stores, locals, history, Nothing, Inserts, Dml
<1>2. Reads(s)'
  <2> SUFFICES ASSUME Kind(s) = "select", quiet[s] PROVE Reads(s)'
    BY <1>1 DEF Frame, Reads, Kind, RedisRead, Is, history, stores
  <2>1. /\ provider = "redis" /\ table' = table /\ query' = query /\ provider' = provider
        /\ pc[s] = "reading" /\ pc' = pc /\ quiet' = quiet
        /\ left[s] \subseteq Present(table) /\ SoFar(s)
    BY DEF IInv, Reads, RedisRead, Is, Kind, stores, history
  <2>2. PICK k \in left[s] :
          /\ left' = Set(left, s, left[s] \ {k})
          /\ seen' = [seen EXCEPT ![s][k] =
                 IF SqlMatches(k, RedisView(table[k]), query[s].where)
                 THEN RedisView(table[k]) ELSE Absent]
    BY <2>1 DEF RedisRead, Present
  <2>3. k \in Key /\ table[k] # Absent
    BY <2>1, <2>2 DEF Present
  <2>4. /\ left'[s] = left[s] \ {k}
        /\ \A j \in Key \ {k} : seen'[s][j] = seen[s][j]
        /\ seen'[s][k] = IF SqlMatches(k, RedisView(table[k]), query[s].where)
                         THEN RedisView(table[k]) ELSE Absent
    BY <2>2, <2>3 DEF IInv, Shapes, Set
  <2>5. seen'[s][k] = SqlAnswer(Shown(table), query[s])[k]
    BY <2>1, <2>3, <2>4, AnswerAt DEF View, Kind
  <2>6. SqlAnswer(Shown(table), query[s])' = SqlAnswer(Shown(table), query[s])
    BY <2>1 DEF SqlAnswer, Shown, View, SqlMatched, Present, Without, After, Cleared
  <2>7. SoFar(s)'
    BY <2>1, <2>4, <2>5, <2>6 DEF SoFar
  <2> QED BY <2>1, <2>4, <2>7 DEF Reads, Kind, Present
<1> QED BY <1>1, <1>2 DEF Good

\* A statement that writes the table and goes on elsewhere, at Redis giving the connection back.
LEMMA WriterGood ==
    ASSUME IInv, NEW s \in Stmt, Kind(s) # "select", NEW t, Writes(s, t), NEW label, Goto(s, label),
           UNCHANGED <<query, seen>>, conn' \in {conn, Free},
           left' = left \/ (\E rest : left' = Set(left, s, rest)),
           provider = "redis" => pc[s] \in Holding /\ GivesBack /\ label \notin Holding
    PROVE  Good(s)
<1>1. /\ provider' = provider /\ quiet' = quiet /\ pc' = [pc EXCEPT ![s] = label]
      /\ alone' = [x \in Stmt |-> alone[x] /\ (x = s \/ ~Active(x) \/ t = table)] /\ table' = t
  BY DEF Writes, Goto
<1>2. DOMAIN left' = Stmt /\ \A x \in Stmt \ {s} : left'[x] = left[x]
  BY DEF Set, IInv, Shapes
<1>3. provider = "redis" => conn = s /\ \A x \in Stmt \ {s} : pc[x] \notin Holding
  BY DEF IInv, ConnectionHeldInside
<1>4. Shapes'
  BY <1>1, <1>2, StatementAssumption DEF IInv, Shapes
<1>5. \A x \in Stmt \ {s} : pc'[x] = pc[x]
  BY <1>1 DEF IInv, Shapes
<1>6. Frame(s)
  BY <1>1, <1>2, <1>3, <1>4, <1>5 DEF Frame
<1>7. ConnectionHeldInside'
  <2>1. pc'[s] = label
    BY <1>1 DEF IInv, Shapes
  <2> QED BY <1>1, <1>3, <1>5, <2>1, StatementAssumption DEF ConnectionHeldInside, GivesBack
<1>8. Reads(s)'
  BY DEF Reads, Kind
<1> QED BY <1>6, <1>7, <1>8 DEF Good

LEMMA RedisReadEndGood ==
    ASSUME IInv, NEW s \in Stmt, RedisReadEnd(s) PROVE Good(s)
BY Kinds, StatementAssumption DEF IInv, Good, Shapes, Frame, Reads, ConnectionHeldInside, RedisReadEnd,
   Is, Goto, Set, GivesBack, Holding, Active, Ended, Kind, stores, locals, history, Nothing, Inserts, Dml

LEMMA RedisDeleteGood ==
    ASSUME IInv, NEW s \in Stmt, RedisDelete(s) PROVE Good(s)
<1>1. /\ provider = "redis" /\ pc[s] \in Holding /\ UNCHANGED <<query, seen>> /\ GivesBack
      /\ left' = left \/ (\E rest : left' = Set(left, s, rest))
  BY DEF RedisDelete, Is, Holding, locals
<1>2. Kind(s) # "select"
  BY DEF RedisDelete, IInv, Reads
<1>3. (\E t : Writes(s, t)) /\ \E label \in {"ok", "error"} : Goto(s, label)
  BY DEF RedisDelete, Answered
<1> QED BY <1>1, <1>2, <1>3, WriterGood DEF Holding, GivesBack

LEMMA RedisUpdateGood ==
    ASSUME IInv, NEW s \in Stmt, RedisUpdate(s) PROVE Good(s)
<1> USE DEF Is, Goto, Set, GivesBack, Holding, Active, Ended, Kind, stores, locals, history, Nothing, Inserts, Dml
<1>1. CASE found[s] = {}
  BY <1>1, Kinds, StatementAssumption
     DEF IInv, Good, Shapes, Frame, Reads, ConnectionHeldInside, RedisUpdate
<1>2. CASE found[s] # {}
  <2>1. PICK k \in found[s] :
          /\ Writes(s, Put(table, k, RedisAssign(table[k], query[s].set)))
          /\ UNCHANGED <<conn, pc>> \/ (GivesBack /\ Goto(s, "error"))
    BY <1>2 DEF RedisUpdate
  <2>2. Is(s, "redis") /\ pc[s] = "updating" /\ UNCHANGED <<query, left, seen>>
    BY DEF RedisUpdate
  <2>3. Shapes' /\ provider' = provider /\ conn = s
    BY <2>1, <2>2 DEF IInv, Shapes, ConnectionHeldInside, Writes
  <2>4. Frame(s)
    BY <2>1, <2>2, <2>3 DEF IInv, Shapes, Frame, Writes
  <2>5. ConnectionHeldInside'
    BY <2>1, <2>2, <2>3, StatementAssumption DEF IInv, Shapes, ConnectionHeldInside
  <2>6. Reads(s)'
    BY <2>1, <2>2, <2>3 DEF IInv, Shapes, Reads
  <2> QED BY <2>4, <2>5, <2>6 DEF Good
<1> QED BY <1>1, <1>2

LEMMA RedisClearGood ==
    ASSUME IInv, NEW s \in Stmt, RedisClear(s) PROVE Good(s)
BY Kinds, StatementAssumption DEF IInv, Good, Shapes, Frame, Reads, ConnectionHeldInside, RedisClear,
   Is, Goto, Set, GivesBack, Holding, Active, Ended, Kind, stores, locals, history, Nothing, Inserts, Dml

LEMMA RedisDropGood ==
    ASSUME IInv, NEW s \in Stmt, RedisDrop(s) PROVE Good(s)
<1>1. /\ provider = "redis" /\ pc[s] \in Holding /\ UNCHANGED <<query, seen>> /\ GivesBack
      /\ left' = left \/ (\E rest : left' = Set(left, s, rest))
  BY DEF RedisDrop, Is, Holding, locals
<1>2. Kind(s) # "select"
  BY DEF RedisDrop, IInv, Reads
<1>3. (\E t : Writes(s, t)) /\ \E label \in {"inserting", "error"} : Goto(s, label)
  BY DEF RedisDrop, Answered
<1> QED BY <1>1, <1>2, <1>3, WriterGood DEF Holding, GivesBack

LEMMA RedisInsertGood ==
    ASSUME IInv, NEW s \in Stmt, RedisInsert(s) PROVE Good(s)
BY Kinds, StatementAssumption DEF IInv, Good, Shapes, Frame, Reads, ConnectionHeldInside, RedisInsert,
   Is, Goto, Set, GivesBack, Holding, Active, Ended, Kind, stores, locals, history, Nothing, Inserts, Dml

LEMMA RedisWriteGood ==
    ASSUME IInv, NEW s \in Stmt, RedisWrite(s) PROVE Good(s)
<1>1. /\ provider = "redis" /\ pc[s] \in Holding /\ UNCHANGED <<query, seen>> /\ GivesBack
      /\ left' = left \/ (\E rest : left' = Set(left, s, rest))
  BY DEF RedisWrite, Is, Holding, locals
<1>2. Kind(s) # "select"
  BY DEF RedisWrite, IInv, Reads
<1>3. (\E t : Writes(s, t)) /\ \E label \in {"inserting", "error"} : Goto(s, label)
  BY DEF RedisWrite, Answered
<1> QED BY <1>1, <1>2, <1>3, WriterGood DEF Holding, GivesBack

LEMMA RedisInsertEndGood ==
    ASSUME IInv, NEW s \in Stmt, RedisInsertEnd(s) PROVE Good(s)
BY Kinds, StatementAssumption DEF IInv, Good, Shapes, Frame, Reads, ConnectionHeldInside, RedisInsertEnd,
   Is, Goto, Set, GivesBack, Holding, Active, Ended, Kind, stores, locals, history, Nothing, Inserts, Dml

LEMMA RedisFailsGood ==
    ASSUME IInv, NEW s \in Stmt, RedisFails(s) PROVE Good(s)
BY Kinds, StatementAssumption DEF IInv, Good, Shapes, Frame, Reads, ConnectionHeldInside, RedisFails,
   Is, Goto, Set, GivesBack, Holding, Active, Ended, Kind, stores, locals, history, Nothing, Inserts, Dml

LEMMA MongoPlanGood ==
    ASSUME IInv, NEW s \in Stmt, MongoPlan(s) PROVE Good(s)
<1>1. Frame(s) /\ ConnectionHeldInside'
  BY Kinds, StatementAssumption DEF IInv, Shapes, Frame, ConnectionHeldInside, MongoPlan, Is, Goto, Set, GivesBack, Holding, Active, Ended, Kind, stores, locals, history, Nothing, Inserts, Dml
<1>2. Reads(s)'
  <2> SUFFICES ASSUME Kind(s) = "select" PROVE Reads(s)'
    BY <1>1 DEF Frame, Reads, Kind
  <2>1. /\ provider = "mongo" /\ seen[s] = Nothing /\ seen' = seen /\ table' = table
        /\ query' = query /\ provider' = provider
        /\ left'[s] = Present(table) /\ pc'[s] = "reading"
    BY DEF IInv, Shapes, Reads, MongoPlan, Is, Goto, Set, GivesBack, Holding, Active, Ended, Kind, stores, locals, history, Nothing, Inserts, Dml
  <2>2. SoFar(s)'
    BY <2>1, NothingYet DEF SoFar, Kind, Nothing, SqlAnswer, Shown, View, SqlMatched, Present,
       Without
  <2> QED BY <2>1, <2>2 DEF Reads, Kind
<1> QED BY <1>1, <1>2 DEF Good

LEMMA MongoReadGood ==
    ASSUME IInv, NEW s \in Stmt, MongoRead(s) PROVE Good(s)
<1>1. Frame(s) /\ ConnectionHeldInside'
  <2>1. PICK k : \E v : /\ left' = Set(left, s, left[s] \ {k})
                         /\ seen' = [seen EXCEPT ![s][k] = v]
    BY DEF MongoRead
  <2>2. provider = "mongo" /\ UNCHANGED <<stores, conn, pc, query, history>>
    BY DEF MongoRead, Is
  <2>3. Shapes'
    BY <2>1, <2>2 DEF IInv, Shapes, Set, stores, history
  <2> QED BY <2>1, <2>2, <2>3
          DEF IInv, Shapes, Frame, ConnectionHeldInside, Set, stores, history
<1>2. Reads(s)'
  <2> SUFFICES ASSUME Kind(s) = "select", alone[s] PROVE Reads(s)'
    BY <1>1 DEF Frame, Reads, Kind, MongoRead, Is, history, stores
  <2>1. /\ provider = "mongo" /\ table' = table /\ query' = query /\ provider' = provider
        /\ pc[s] = "reading" /\ pc' = pc /\ SoFar(s)
    BY DEF IInv, Reads, MongoRead, Is, Kind, stores, history
  <2>2. PICK k \in left[s] :
          /\ left' = Set(left, s, left[s] \ {k})
          /\ seen' = [seen EXCEPT ![s][k] =
                 IF /\ table[k] # Absent
                    /\ MongoMatches(k, table[k], Pushable(query[s].where))
                    /\ SqlMatches(k, table[k], query[s].where)
                 THEN table[k] ELSE Absent]
    BY DEF MongoRead
  <2>3. SqlMatches(k, table[k], query[s].where) =>
          MongoMatches(k, table[k], Pushable(query[s].where))
    BY Kinds, MongoPushdownComplete
  <2>4. k \in Key => seen'[s][k] = SqlAnswer(Shown(table), query[s])[k]
    BY <2>1, <2>2, <2>3, AnswerAt DEF View, Kind, IInv, Shapes
  <2>5. left'[s] = left[s] \ {k} /\ \A j \in Key \ {k} : seen'[s][j] = seen[s][j]
    BY <2>2 DEF IInv, Shapes, Set
  <2>6. SqlAnswer(Shown(table), query[s])' = SqlAnswer(Shown(table), query[s])
    BY <2>1 DEF SqlAnswer, Shown, View, SqlMatched, Present, Without, After, Cleared
  <2>7. SoFar(s)'
    BY <2>1, <2>4, <2>5, <2>6 DEF SoFar
  <2> QED BY <2>1, <2>7 DEF Reads, Kind
<1> QED BY <1>1, <1>2 DEF Good

LEMMA MongoReadEndGood ==
    ASSUME IInv, NEW s \in Stmt, MongoReadEnd(s) PROVE Good(s)
BY Kinds, StatementAssumption DEF IInv, Good, Shapes, Frame, Reads, ConnectionHeldInside, MongoReadEnd,
   Is, Goto, Set, GivesBack, Holding, Active, Ended, Kind, stores, locals, history, Nothing, Inserts, Dml

LEMMA MongoInsertGood ==
    ASSUME IInv, NEW s \in Stmt, MongoInsert(s) PROVE Good(s)
<1>1. /\ provider = "mongo" /\ pc[s] = "inserting" /\ UNCHANGED <<conn, query, seen>>
  BY DEF MongoInsert, Is
<1>2. /\ \/ UNCHANGED <<stores, left, history>>
         \/ \E t, l : Writes(s, t) /\ left' = Set(left, s, l)
      /\ Goto(s, "error") \/ Goto(s, "inserting")
  <2>1. PICK i \in left[s] :
          IF query[s].input[i].key \in bare
          THEN Goto(s, "error") /\ UNCHANGED <<stores, left, count, history>>
          ELSE /\ Writes(s, Put(table, query[s].input[i].key, query[s].input[i].row))
               /\ left' = Set(left, s, left[s] \ {i})
               /\ Answered(s, "inserting")
    BY DEF MongoInsert
  <2> QED BY <2>1 DEF Answered
<1>3. Kind(s) # "select"
  BY <1>1 DEF IInv, Reads
<1>4. CASE UNCHANGED <<stores, left, history>>
  BY <1>1, <1>2, <1>3, <1>4 DEF IInv, Good, Shapes, Frame, Reads, ConnectionHeldInside, Goto, Kind, stores, history
<1>5. CASE \E t, l : Writes(s, t) /\ left' = Set(left, s, l)
  BY <1>1, <1>2, <1>3, <1>5, WriterGood
<1> QED BY <1>2, <1>4, <1>5

LEMMA MongoInsertEndGood ==
    ASSUME IInv, NEW s \in Stmt, MongoInsertEnd(s) PROVE Good(s)
BY Kinds, StatementAssumption DEF IInv, Good, Shapes, Frame, Reads, ConnectionHeldInside, MongoInsertEnd,
   Is, Goto, Set, GivesBack, Holding, Active, Ended, Kind, stores, locals, history, Nothing, Inserts, Dml

LEMMA MongoDmlGood ==
    ASSUME IInv, NEW s \in Stmt, MongoDml(s) PROVE Good(s)
<1>1. /\ provider = "mongo" /\ pc[s] = "planned" /\ UNCHANGED <<conn, query, left, found, seen>>
  BY DEF MongoDml, Is
<1>2. (\E t : Writes(s, t)) /\ (Goto(s, "ok") \/ Goto(s, "error"))
  BY DEF MongoDml, Answered
<1>3. Kind(s) # "select"
  BY <1>1 DEF IInv, Reads
<1> QED BY <1>1, <1>2, <1>3, WriterGood

LEMMA MongoFailsGood ==
    ASSUME IInv, NEW s \in Stmt, MongoFails(s) PROVE Good(s)
BY Kinds, StatementAssumption DEF IInv, Good, Shapes, Frame, Reads, ConnectionHeldInside, MongoFails,
   Is, Goto, Set, GivesBack, Holding, Active, Ended, Kind, stores, locals, history, Nothing, Inserts, Dml

LEMMA SqlPlanGood ==
    ASSUME IInv, NEW s \in Stmt, SqlPlan(s) PROVE Good(s)
BY Kinds, StatementAssumption DEF IInv, Good, Shapes, Frame, Reads, ConnectionHeldInside, SqlPlan, Sql, SqlServers,
   Is, Goto, Set, GivesBack, Holding, Active, Ended, Kind, stores, locals, history, Nothing, Inserts, Dml

LEMMA SqlSelectGood ==
    ASSUME IInv, NEW s \in Stmt, SqlSelect(s) PROVE Good(s)
<1>1. /\ provider \in SqlServers /\ UNCHANGED <<stores, conn, query, left, history>>
      /\ Goto(s, "ok") /\ seen' = Set(seen, s, Without(table, Key \ SqlMatched(table, query[s])))
  BY DEF SqlSelect, Sql
<1>2. provider \notin {"redis", "mongo"}
  BY <1>1 DEF SqlServers
<1>3. Shapes'
  BY <1>1 DEF IInv, Shapes, Set, Goto, Without, stores, history
<1> QED BY <1>1, <1>2, <1>3 DEF Good, IInv, Shapes, Frame, Reads, ConnectionHeldInside, Set, Goto,
        stores, history

LEMMA SqlDmlGood ==
    ASSUME IInv, NEW s \in Stmt, NEW affected, SqlDml(s, affected), provider # "redis"
    PROVE  Good(s)
<1>1. UNCHANGED <<query, seen, conn, left>> /\ Kind(s) # "select"
  BY DEF SqlDml, Dml
<1>2. (\E t : Writes(s, t)) /\ \E label \in {"ok", "error"} : Goto(s, label)
  BY DEF SqlDml, SqlAnswered, Answered
<1> QED BY <1>1, <1>2, WriterGood

LEMMA SqlInsertGood ==
    ASSUME IInv, NEW s \in Stmt, SqlInsert(s), provider # "redis"
    PROVE  Good(s)
<1>1. UNCHANGED <<query, seen, conn>> /\ left' = Set(left, s, {})
  BY DEF SqlInsert
<1>2. Kind(s) # "select"
  BY DEF SqlInsert, IInv, Reads
<1>3. (\E t : Writes(s, t)) /\ \E label \in {"ok", "error"} : Goto(s, label)
  BY DEF SqlInsert, SqlAnswered, Answered
<1> QED BY <1>1, <1>2, <1>3, WriterGood

LEMMA SqliteDmlGood ==
    ASSUME IInv, NEW s \in Stmt, SqliteDml(s) PROVE Good(s)
BY SqlDmlGood DEF SqliteDml, Is

LEMMA PostgresDmlGood ==
    ASSUME IInv, NEW s \in Stmt, PostgresDml(s) PROVE Good(s)
BY SqlDmlGood DEF PostgresDml, Is

LEMMA MySqlDmlGood ==
    ASSUME IInv, NEW s \in Stmt, MySqlDml(s) PROVE Good(s)
BY SqlDmlGood DEF MySqlDml, Is

LEMMA SeekDbDmlGood ==
    ASSUME IInv, NEW s \in Stmt, SeekDbDml(s) PROVE Good(s)
BY SqlDmlGood DEF SeekDbDml, Is

LEMMA SqliteInsertGood ==
    ASSUME IInv, NEW s \in Stmt, SqliteInsert(s) PROVE Good(s)
BY SqlInsertGood DEF SqliteInsert, Is

LEMMA PostgresInsertGood ==
    ASSUME IInv, NEW s \in Stmt, PostgresInsert(s) PROVE Good(s)
BY SqlInsertGood DEF PostgresInsert, Is

LEMMA MySqlInsertGood ==
    ASSUME IInv, NEW s \in Stmt, MySqlInsert(s) PROVE Good(s)
BY SqlInsertGood DEF MySqlInsert, Is

LEMMA SqlFailsGood ==
    ASSUME IInv, NEW s \in Stmt, SqlFails(s) PROVE Good(s)
BY Kinds, StatementAssumption DEF IInv, Good, Shapes, Frame, Reads, ConnectionHeldInside, SqlFails, Sql, SqlServers,
   Is, Goto, Set, GivesBack, Holding, Active, Ended, Kind, stores, locals, history, Nothing, Inserts, Dml

-----------------------------------------------------------------------------
(* The theorems.                                                            *)

LEMMA OutsideKeeps == IInv /\ Outside => IInv'
<1> SUFFICES ASSUME IInv, Outside PROVE IInv'
  OBVIOUS
<1>1. /\ UNCHANGED <<provider, conn, pc, query, left, seen>>
      /\ alone' = [s \in Stmt |-> alone[s] /\ ~Active(s)]
      /\ quiet' = [s \in Stmt |-> quiet[s] /\ ~Active(s)]
  BY DEF Outside, locals
<1>2. Shapes' /\ ConnectionHeldInside'
  BY <1>1 DEF IInv, Shapes, ConnectionHeldInside
<1>3. ASSUME NEW s \in Stmt PROVE Reads(s)'
  BY <1>1 DEF IInv, Reads, Kind, Nothing, Active, Ended
<1> QED BY <1>2, <1>3 DEF IInv

LEMMA InitIInv == Init => IInv
BY StatementAssumption, RowsAssumption
   DEF Init, IInv, Shapes, ConnectionHeldInside, Holding, Reads, Nothing, Kind

LEMMA StepFrame ==
    ASSUME IInv, NEW s \in Stmt, Begin(s) \/ Works(s) \/ Fails(s) PROVE Good(s)
BY RedisTakeGood, RedisBusyGood, RedisPlanGood, RedisScanGood, RedisReadGood,
   RedisReadEndGood, RedisDeleteGood, RedisUpdateGood, RedisClearGood, RedisDropGood,
   RedisInsertGood, RedisWriteGood, RedisInsertEndGood, RedisFailsGood, MongoPlanGood,
   MongoReadGood, MongoReadEndGood, MongoInsertGood, MongoInsertEndGood, MongoDmlGood,
   MongoFailsGood, SqlPlanGood, SqlSelectGood, SqliteDmlGood, PostgresDmlGood,
   MySqlDmlGood, SeekDbDmlGood, SqliteInsertGood, PostgresInsertGood, MySqlInsertGood,
   SqlFailsGood, BeginGood
   DEF Works, Fails, Redis, Mongo, SqlServer

LEMMA StepIInv == IInv /\ [Next]_vars => IInv'
<1> SUFFICES ASSUME IInv, [Next]_vars PROVE IInv'
  OBVIOUS
<1>1. CASE Outside
  BY <1>1, OutsideKeeps
<1>2. CASE UNCHANGED vars
  <2>1. Shapes' /\ ConnectionHeldInside'
    BY <1>2 DEF IInv, Shapes, ConnectionHeldInside, vars, stores, locals, history
  <2>2. ASSUME NEW s \in Stmt PROVE Reads(s)'
    <3>1. UNCHANGED <<provider, table, pc, query, left, seen, alone, quiet>>
      BY <1>2 DEF vars, stores, locals, history
    <3>2. SoFar(s)' <=> SoFar(s)
      BY <3>1 DEF SoFar, Present, SqlAnswer, Shown, View, SqlMatched, Without, After, Cleared
    <3> QED BY <3>1, <3>2 DEF IInv, Reads, Kind, Nothing, Present
  <2> QED BY <2>1, <2>2 DEF IInv
<1>3. ASSUME NEW s \in Stmt, Begin(s) \/ Works(s) \/ Fails(s) PROVE IInv'
  <2>1. Good(s)
    BY <1>3, StepFrame
  <2> QED BY <2>1, OthersRead DEF Good, Frame, IInv
<1> QED BY <1>1, <1>2, <1>3 DEF Next

\* The connection of a Redis table is in one statement's hands exactly while that statement
\* is between try_write and the drop of its guard, whatever fails in between.
THEOREM ConnectionHeld == Spec => []ConnectionHeldInside
<1>1. IInv => ConnectionHeldInside
  BY DEF IInv
<1> QED BY <1>1, InitIInv, StepIInv, PTL DEF Spec

LEMMA AnsweredBy ==
    ASSUME IInv, NEW s \in Stmt, Begin(s) \/ Works(s) \/ Fails(s),
           Kind(s) = "select", pc[s] # "ok", pc'[s] = "ok"
    PROVE  RedisReadEnd(s) \/ MongoReadEnd(s) \/ SqlSelect(s)
<1>1. \A label : Goto(s, label) => label = "ok"
  BY DEF Goto, IInv, Shapes
<1>2. /\ pc[s] \notin {"deleting", "updating", "clearing", "dropping", "inserting", "writing"}
      /\ provider = "mongo" => pc[s] # "planned"
      /\ Kind(s) \notin Dml \cup Inserts
  BY DEF IInv, Reads, Dml, Inserts
<1>3. ~Begin(s) /\ ~Fails(s)
  BY <1>1 DEF Begin, Fails, RedisFails, MongoFails, SqlFails
<1>4. CASE Redis(s)
  <2>1. /\ ~RedisTake(s) /\ ~RedisBusy(s) /\ ~RedisPlan(s) /\ ~RedisScan(s) /\ ~RedisRead(s)
    BY <1>1, <1>2 DEF RedisTake, RedisNext, Asks, Asking, RedisBusy, RedisPlan, RedisScan, RedisRead
  <2>2. /\ ~RedisDelete(s) /\ ~RedisUpdate(s) /\ ~RedisClear(s) /\ ~RedisDrop(s)
        /\ ~RedisInsert(s) /\ ~RedisWrite(s) /\ ~RedisInsertEnd(s)
    BY <1>2 DEF RedisDelete, RedisUpdate, RedisClear, RedisDrop, RedisInsert, RedisWrite,
       RedisInsertEnd, Inserts
  <2> QED BY <1>4, <2>1, <2>2 DEF Redis
<1>5. CASE Mongo(s)
  <2>1. ~MongoPlan(s) /\ ~MongoRead(s)
    BY <1>1 DEF MongoPlan, MongoRead
  <2>2. ~MongoInsert(s) /\ ~MongoInsertEnd(s) /\ ~MongoDml(s)
    BY <1>2 DEF MongoInsert, MongoInsertEnd, MongoDml, Is
  <2> QED BY <1>5, <2>1, <2>2 DEF Mongo
<1>6. CASE SqlServer(s)
  <2>1. ~SqlPlan(s)
    BY <1>1 DEF SqlPlan
  <2>2. \A affected : ~SqlDml(s, affected)
    BY <1>2 DEF SqlDml
  <2>3. ~SqlInsert(s)
    BY <1>2 DEF SqlInsert
  <2> QED BY <1>6, <2>1, <2>2, <2>3
          DEF SqlServer, SqliteDml, PostgresDml, MySqlDml, SeekDbDml, SqliteInsert,
              PostgresInsert, MySqlInsert
<1> QED BY <1>3, <1>4, <1>5, <1>6 DEF Works

\* A SELECT that ends well answers with the rows of one moment: at Redis if no client beyond
\* this server wrote, at Mongo if nobody did, at a SQL server in any case.
THEOREM SelectOneMoment == Spec => SelectIsOneMoment
<1> DEFINE Once(s) == (/\ EndsAs(s, "ok") /\ Kind(s) = "select"
                       /\ provider = "redis" => quiet[s]
                       /\ provider = "mongo" => alone[s])
                      => seen'[s] = SqlAnswer(Shown(table), query[s])
<1>1. IInv /\ [Next]_vars => [\A s \in Stmt : Once(s)]_vars
  <2> SUFFICES ASSUME IInv, Next, NEW s \in Stmt, EndsAs(s, "ok"), Kind(s) = "select",
                      provider = "redis" => quiet[s], provider = "mongo" => alone[s]
               PROVE  seen'[s] = SqlAnswer(Shown(table), query[s])
    OBVIOUS
  <2> DEFINE reply == SqlAnswer(Shown(table), query[s])
  <2>1. reply = [k \in Key |-> reply[k]]
    BY DEF SqlAnswer, Without, Kind, Inserts
  <2>2. seen[s] = [k \in Key |-> seen[s][k]]
    BY DEF IInv, Shapes
  <2>3. RedisReadEnd(s) \/ MongoReadEnd(s) \/ SqlSelect(s)
    <3>1. PICK x \in Stmt : Begin(x) \/ Works(x) \/ Fails(x)
      BY DEF Next, Outside, EndsAs
    <3>2. x = s
      BY <3>1, StepFrame DEF Good, Frame, EndsAs
    <3> QED BY <3>1, <3>2, AnsweredBy DEF EndsAs
  <2>4. CASE RedisReadEnd(s)
    <3>1. seen' = seen /\ left[s] = {} /\ SoFar(s)
      BY <2>4 DEF IInv, Reads, RedisReadEnd, Is, locals
    <3> QED BY <2>1, <2>2, <3>1 DEF SoFar
  <2>5. CASE MongoReadEnd(s)
    <3>1. seen' = seen /\ left[s] = {} /\ SoFar(s)
      BY <2>5 DEF IInv, Reads, MongoReadEnd, Is, locals
    <3> QED BY <2>1, <2>2, <3>1 DEF SoFar
  <2>6. CASE SqlSelect(s)
    <3>1. seen'[s] = Without(table, Key \ SqlMatched(table, query[s]))
      BY <2>6 DEF IInv, Shapes, SqlSelect, Set
    <3>2. provider # "redis"
      BY <2>6 DEF SqlSelect, Sql, SqlServers
    <3>3. ASSUME NEW k \in Key PROVE reply[k] = seen'[s][k]
      BY <3>1, <3>2, AnswerAt DEF Without, SqlMatched, Present, View, Kind
    <3>4. seen'[s] = [k \in Key |-> seen'[s][k]]
      BY <3>1 DEF Without
    <3> QED BY <2>1, <3>3, <3>4
  <2> QED BY <2>3, <2>4, <2>5, <2>6
<1> QED BY <1>1, InitIInv, StepIInv, PTL DEF Spec, SelectIsOneMoment, Once

-----------------------------------------------------------------------------
(* What a statement has made of the table.                                  *)

\* The keys a DELETE or an UPDATE at Redis resolves in table t: the one it names, or those of
\* the rows that match.
Resolved(t, q) ==
    IF q.where # {} /\ KeyEq(q.where) # {} THEN KeyEq(q.where)
    ELSE {k \in Present(t) : RedisMatches(k, t[k], q.where)}

\* Which statement is where, whoever else is at work.
Places(s) ==
    /\ provider = "lance" => pc[s] = "idle"
    /\ pc[s] = "idle" => found[s] = {} /\ count[s] = 0
    /\ pc[s] = "deleting" => Kind(s) = "delete"
    /\ pc[s] = "updating" => Kind(s) = "update"
    /\ pc[s] \in {"clearing", "dropping"} => Kind(s) = "overwrite"
    /\ pc[s] \in {"inserting", "writing"} => Kind(s) \in Inserts
    /\ pc[s] \in Holding \ {"reading"} => provider = "redis"
    /\ pc[s] = "reading" => \/ provider = "redis" /\ Kind(s) \notin Inserts
                            \/ provider = "mongo" /\ Kind(s) = "select"
    /\ pc[s] = "scanning" => Kind(s) \notin Inserts
    /\ pc[s] = "writing" => left[s] # {}
    /\ provider = "mongo" /\ pc[s] = "planned" =>
          Kind(s) \in Dml /\ (Kind(s) = "update" => query[s].set.col # KeyColumn)
    /\ provider = "redis" /\ pc[s] \in {"scanning", "reading", "planned", "updating"}
          => ~RedisRefuses(s)

\* The rows an INSERT has yet to write are those of its input, at Redis the last ones.
Remains(s) ==
    Kind(s) \in Inserts =>
        /\ Active(s) => left[s] \subseteq DOMAIN query[s].input
        /\ Active(s) /\ pc[s] \notin {"inserting", "writing"} => left[s] = DOMAIN query[s].input
        /\ pc[s] \in {"inserting", "writing"} /\ provider = "redis" =>
              \E n \in 0..Len(query[s].input) : left[s] = (n + 1)..Len(query[s].input)

\* Before the first row is written the table is as it was, and nothing is counted.
Untouched(s) ==
    pc[s] \notin {"updating", "inserting", "writing"} =>
        /\ table = begun[s] /\ count[s] = 0
        /\ Kind(s) \in Inserts => left[s] = DOMAIN query[s].input

\* The keys found so far: those that match among the ones read.
Finds(s) ==
    Kind(s) \in Dml /\ provider = "redis" =>
        /\ pc[s] \in {"planning", "scanning"} => found[s] = {}
        /\ pc[s] = "reading" =>
              /\ left[s] \subseteq Present(begun[s])
              /\ found[s] = {k \in Present(begun[s]) \ left[s] :
                                RedisMatches(k, begun[s][k], query[s].where)}
              /\ KeyEq(query[s].where) = {}
        /\ pc[s] \in {"planned", "deleting"} => found[s] = Resolved(begun[s], query[s])

Assigned(t, q, done) ==
    [k \in Key |-> IF k \in done THEN RedisAssign(t[k], q.set) ELSE t[k]]

\* Of the keys found, those that are no longer to do have their new rows.
Updates(s) ==
    pc[s] = "updating" =>
        LET done == Resolved(begun[s], query[s]) \ found[s]
        IN  /\ found[s] \subseteq Resolved(begun[s], query[s])
            /\ table = Assigned(begun[s], query[s], done)
            /\ IsFiniteSet(done) /\ count[s] = Cardinality(done)

\* Redis writes the rows of the input in their order.
InsertsInOrder(s) ==
    LET q == query[s]
    IN  /\ pc[s] = "dropping" => found[s] = Present(begun[s])
        /\ pc[s] \in {"inserting", "writing"} /\ provider = "redis" =>
              \E n \in 0..Len(q.input) :
                 /\ left[s] = (n + 1)..Len(q.input) /\ count[s] = n
                 /\ table = After(Cleared(begun[s], q), q, 1..n)

\* Mongo upserts them in any order; if their keys differ, no upsert undoes another.
InsertsInAnyOrder(s) ==
    LET q == query[s]
    IN  pc[s] = "inserting" /\ provider = "mongo" =>
            /\ left[s] \subseteq DOMAIN q.input
            /\ count[s] = Cardinality(DOMAIN q.input \ left[s])
            /\ \A k \in Key : table[k] \in {begun[s][k]} \cup Offered(q, k)
            /\ Distinct(q) => table = After(begun[s], q, DOMAIN q.input \ left[s])

\* The transaction of a SQL server shows nothing until it is committed.
Transacts(s) == pc[s] = "inserting" /\ provider \in SqlServers => table = begun[s]

Progress(s) ==
    Active(s) /\ alone[s] =>
        /\ Untouched(s) /\ Finds(s) /\ Updates(s)
        /\ InsertsInOrder(s) /\ InsertsInAnyOrder(s) /\ Transacts(s)

Contents ==
    /\ table \in Table /\ begun \in [Stmt -> Table]
    /\ DOMAIN found = Stmt /\ DOMAIN count = Stmt

WorkInv == IInv /\ Contents /\ \A s \in Stmt : Places(s) /\ Remains(s) /\ Progress(s)

\* What a statement that succeeded has to have made of table b.
DoneRight(t, n, b, q) ==
    /\ Shown(t) = SqlAnswer(Shown(b), q)
    /\ n = IF q.kind \in Inserts THEN Len(q.input)
           ELSE IF provider \in {"mongo", "mysql", "seekdb"} /\ q.kind = "update"
           THEN Cardinality({k \in Key : t[k] # b[k]})
           ELSE IF KeyEq(q.where) # {} /\ provider = "redis" THEN 1
           ELSE Cardinality(SqlMatched(Shown(b), q))

\* What one that failed may leave of it.
LeftBy(t, b, q) ==
    /\ provider = "sqlite" => t = b
    /\ provider \in SqlServers => t \in {b, SqlAnswer(b, q)}
    /\ provider = "redis" /\ q.kind \in Inserts =>
          t = b \/ \E n \in 0..Len(q.input) : t = After(Cleared(b, q), q, 1..n)
    /\ provider = "mongo" /\ q.kind \in Inserts =>
          \A k \in Key : t[k] \in {b[k]} \cup Offered(q, k)
    /\ q.kind \notin Inserts /\ FollowsSql(b, q) =>
          \A k \in Key : View(t[k]) \in {View(b[k]), SqlAnswer(Shown(b), q)[k]}

-----------------------------------------------------------------------------
(* Rows, and the keys a filter names.                                       *)

\* What is stored stays a row, whichever provider stores it.
LEMMA RowsStay ==
    /\ \A row \in Row : row # Absent /\ RedisView(row) \in Row
    /\ \A k \in Key, row \in Row, a \in Assignment : a.col \in Column /\ Settable(a) =>
          /\ SqlAssign(k, row, a) \in Row /\ MongoAssign(row, a) \in Row
          /\ a.rhs.kind = "literal" => RedisAssign(row, a) \in Row /\ RedisAssign(Absent, a) \in Row
<1>1. Row = [Column -> Value \cup {Blank, Null} \cup Column]
  BY DEF Row, Cell, Number
<1>2. \A row \in Row : row # Absent
  BY <1>1, RowsAssumption
<1>3. \A row \in Row : RedisView(row) \in Row
  BY <1>1 DEF RedisView
<1>4. ASSUME NEW row \in Row, NEW k \in Key, NEW a \in Assignment, a.col \in Column, Settable(a)
      PROVE  /\ SqlAssign(k, row, a) \in Row /\ MongoAssign(row, a) \in Row
             /\ a.rhs.kind = "literal" => RedisAssign(row, a) \in Row /\ RedisAssign(Absent, a) \in Row
  <2>1. a.rhs.kind = "literal" => a.rhs.of \in Value
    BY <1>4 DEF Settable
  <2>2. a.rhs.kind # "literal" => a.rhs.of \in Column
    BY DEF Assignment, Operand
  <2>3. Rhs(Cells(k, row), a.rhs) \in Cell
    BY <2>1, <2>2, <1>1, RowsAssumption DEF Rhs, Cells, Cell, Number, Row
  <2>4. a.rhs.of \in Cell
    BY <2>1, <2>2 DEF Cell, Number
  <2>5. \A r \in Row, x \in Cell : [r EXCEPT ![a.col] = x] \in Row
    BY DEF Row
  <2>6. [c \in Column |-> Null] \in Row
    BY DEF Row, Cell
  <2>7. RedisAssign(row, a) = [row EXCEPT ![a.col] = a.rhs.of]
    BY <1>2 DEF RedisAssign
  <2>8. RedisAssign(Absent, a) = [[c \in Column |-> Null] EXCEPT ![a.col] = a.rhs.of]
    BY DEF RedisAssign
  <2>9. SqlAssign(k, row, a) \in Row /\ MongoAssign(row, a) \in Row
    BY <2>3, <2>4, <2>5 DEF SqlAssign, MongoAssign
  <2>10. [row EXCEPT ![a.col] = a.rhs.of] \in Row
    BY <2>4, <2>5
  <2>11. [[c \in Column |-> Null] EXCEPT ![a.col] = a.rhs.of] \in Row
    BY <2>4, <2>5, <2>6
  <2> QED BY <2>7, <2>8, <2>9, <2>10, <2>11
<1> QED BY <1>2, <1>3, <1>4

\* A scan shows the rows there are.
LEMMA ShownRows ==
    ASSUME NEW t \in Table
    PROVE  /\ \A k \in Key : t[k] \in Row \cup {Absent} /\ (View(t[k]) = Absent <=> t[k] = Absent)
           /\ \A k \in Key : View(t[k]) \in Row \cup {Absent}
           /\ Present(Shown(t)) = Present(t)
           /\ provider # "redis" => Shown(t) = t
<1>1. \A k \in Key : t[k] \in Row \cup {Absent}
  BY DEF Table
<1>2. \A k \in Key : View(t[k]) \in Row \cup {Absent} /\ (View(t[k]) = Absent <=> t[k] = Absent)
  BY <1>1, RowsStay DEF View
<1>3. provider # "redis" => Shown(t) = t
  BY DEF Shown, View, Table
<1> QED BY <1>1, <1>2, <1>3 DEF Present, Shown

\* The filter of a DELETE or an UPDATE at Redis finds the rows SQL would.
LEMMA RedisFinds ==
    ASSUME NEW t \in Table, NEW q \in Query, provider = "redis"
    PROVE  SqlMatched(Shown(t), q) = {k \in Present(t) : RedisMatches(k, t[k], q.where)}
<1>1. ASSUME NEW k \in Present(t)
      PROVE  SqlMatches(k, Shown(t)[k], q.where) <=> RedisMatches(k, t[k], q.where)
  <2>1. k \in Key /\ t[k] \in Row /\ Shown(t)[k] = RedisView(t[k])
    BY ShownRows DEF Present, Shown, View
  <2>2. q.where \in SUBSET Filter
    BY StatementAssumption
  <2> QED BY <2>1, <2>2, RedisFilterIsSql
<1> QED BY <1>1, ShownRows DEF SqlMatched

\* A key that a filter names is the only one it selects.
LEMMA NamedKey ==
    ASSUME NEW q \in Query, KeyEq(q.where) # {}
    PROVE  \E v : /\ KeyEq(q.where) = {v}
                  /\ \A k \in Key, row \in Row : SqlMatches(k, row, q.where) <=> k = v
<1>1. PICK g \in q.where : /\ Cardinality(q.where) = 1 /\ g.op = "="
                           /\ g.col = KeyColumn /\ g.rhs.kind = "literal"
  BY DEF KeyEq
<1>2. q.where = {g}
  BY <1>1, QueryAssumption, FS_Singleton
<1>3. g \in Filter /\ g.op # "or"
  BY <1>1, StatementAssumption
<1>4. g.rhs.of \in Value \cup Key
  BY <1>1, <1>3, FilterKinds DEF Comparison, Operand
<1>5. ASSUME NEW k \in Key, NEW row \in Row
      PROVE  SqlMatches(k, row, q.where) <=> k = g.rhs.of
  <2>1. Cells(k, row)[KeyColumn] = k
    BY DEF Cells
  <2>2. Rhs(Cells(k, row), g.rhs) = g.rhs.of
    BY <1>1 DEF Rhs
  <2>3. k # Null /\ g.rhs.of # Null
    BY <1>4, RowsAssumption
  <2>4. SqlTrue(Cells(k, row), g) <=> k = g.rhs.of
    BY <1>1, <2>1, <2>2, <2>3 DEF SqlTrue, Compare
  <2> QED BY <1>2, <1>3, <2>4 DEF SqlMatches
<1>6. KeyEq(q.where) = {g.rhs.of}
  <2>1. \A x : x \in KeyEq(q.where) <=>
          \E f \in q.where : /\ Cardinality(q.where) = 1 /\ f.op = "=" /\ f.col = KeyColumn
                            /\ f.rhs.kind = "literal" /\ x = f.rhs.of
    BY DEF KeyEq
  <2>2. \A x : x \in KeyEq(q.where) <=> x = g.rhs.of
    BY <1>1, <1>2, <2>1
  <2> QED BY <2>2
<1>7. \A k \in Key, row \in Row : SqlMatches(k, row, q.where) <=> k = g.rhs.of
  BY <1>5
<1> QED BY <1>6, <1>7

LEMMA ResolvedIsSql ==
    ASSUME NEW t \in Table, NEW q \in Query, provider = "redis"
    PROVE  /\ Resolved(t, q) \cap Present(t) = SqlMatched(Shown(t), q)
           /\ KeyEq(q.where) = {} => Resolved(t, q) \subseteq Present(t)
           /\ q.where = {} => Resolved(t, q) = Present(t)
<1>1. KeyEq({}) = {}
  BY DEF KeyEq
<1>2. CASE KeyEq(q.where) = {}
  <2>1. Resolved(t, q) = {k \in Present(t) : RedisMatches(k, t[k], q.where)}
    BY <1>2 DEF Resolved
  <2>2. q.where = {} => Resolved(t, q) = Present(t)
    BY <2>1 DEF RedisMatches
  <2> QED BY <2>1, <2>2, RedisFinds
<1>3. CASE KeyEq(q.where) # {}
  <2>1. PICK v : KeyEq(q.where) = {v} /\ \A k \in Key, row \in Row : SqlMatches(k, row, q.where) <=> k = v
    BY <1>3, NamedKey
  <2>2. Resolved(t, q) = {v} /\ q.where # {}
    BY <1>1, <1>3, <2>1 DEF Resolved
  <2>3. Present(Shown(t)) = Present(t) /\ \A k \in Present(t) : k \in Key /\ Shown(t)[k] \in Row
    BY ShownRows DEF Present, Shown
  <2>4. SqlMatched(Shown(t), q) = {k \in Present(t) : k = v}
    BY <2>1, <2>3 DEF SqlMatched
  <2> QED BY <1>3, <2>2, <2>4
<1> QED BY <1>2, <1>3

\* A filter document finds what SQL does of a statement that follows it.
LEMMA MongoFinds ==
    ASSUME NEW t \in Table, NEW q \in Query, q.kind \in Dml, provider = "mongo", FollowsSql(t, q)
    PROVE  SqlMatched(t, q) = {k \in Present(t) : MongoMatches(k, t[k], q.where)}
<1>1. ASSUME NEW k \in Present(t), NEW f \in q.where
      PROVE  f.op # "or" /\ (MongoCompare(k, t[k], f) <=> SqlTrue(Cells(k, t[k]), f))
  <2>1. /\ f.op # "or" /\ f.rhs.kind = "literal"
        /\ f.op = "<>" => Cells(k, t[k])[f.col] # Null
    BY <1>1 DEF FollowsSql
  <2>2. f \in Comparison
    BY <2>1, FilterKinds, StatementAssumption
  <2>3. f.op \in {"=", "<>", "<"} /\ f.rhs.of \in Value \cup Key
    BY <2>1, <2>2 DEF Comparison, Operand
  <2>4. f.rhs.of # Null
    BY <2>3, RowsAssumption
  <2> QED BY <2>1, <2>3, <2>4 DEF MongoCompare, SqlTrue, Rhs, Compare
<1>2. ASSUME NEW k \in Present(t)
      PROVE  SqlMatches(k, t[k], q.where) <=> MongoMatches(k, t[k], q.where)
  BY <1>1 DEF SqlMatches, MongoMatches
<1> QED BY <1>2 DEF SqlMatched

-----------------------------------------------------------------------------
(* The rows an INSERT writes.                                               *)

LEMMA Greatest ==
    ASSUME NEW S \in SUBSET Int, NEW i \in S, \A j \in S : j <= i
    PROVE  Max(S) = i
<1>1. \A x \in S : (\A y \in S : x >= y) => x = i
  OBVIOUS
<1> QED BY <1>1 DEF Max

LEMMA Least ==
    ASSUME NEW S \in SUBSET Int, NEW i \in S, \A j \in S : i <= j
    PROVE  Min(S) = i
<1>1. \A x \in S : (\A y \in S : x <= y) => x = i
  OBVIOUS
<1> QED BY <1>1 DEF Min

LEMMA Elements ==
    ASSUME NEW S, NEW sq \in Seq(S)
    PROVE  /\ Len(sq) \in Nat /\ DOMAIN sq = 1..Len(sq)
           /\ \A i \in DOMAIN sq : sq[i] \in S
OBVIOUS

LEMMA InputRows ==
    ASSUME NEW q \in Query, NEW i \in DOMAIN q.input
    PROVE  /\ i \in 1..Len(q.input) /\ Len(q.input) \in Nat /\ DOMAIN q.input = 1..Len(q.input)
           /\ q.input[i].key \in Key /\ q.input[i].row \in Row
           /\ RedisStores(q.input[i].row) \in Row
<1>1. q.input \in Seq([key : Key, row : Row])
  BY QueryAssumption
<1>2. /\ i \in 1..Len(q.input) /\ Len(q.input) \in Nat /\ DOMAIN q.input = 1..Len(q.input)
      /\ q.input[i] \in [key : Key, row : Row]
  BY <1>1, Elements
<1> QED BY <1>2, RowsStay DEF RedisStores

\* What a provider stores of a row.
Stored(row) == IF provider = "redis" THEN RedisStores(row) ELSE row

LEMMA AfterNone ==
    ASSUME NEW t \in Table, NEW q
    PROVE  After(t, q, {}) = t
<1>1. t = [k \in Key |-> t[k]]
  BY DEF Table
<1> QED BY <1>1 DEF After

\* Row i comes after all those of its key that are written.
LastOfKey(q, D, i) == \A j \in D : j <= i \/ q.input[j].key # q.input[i].key

\* Writing such a row puts it there.
LEMMA AfterNext ==
    ASSUME NEW t, NEW q \in Query, NEW D \in SUBSET DOMAIN q.input, NEW i \in DOMAIN q.input,
           LastOfKey(q, D, i)
    PROVE  After(t, q, D \cup {i}) =
              Put(After(t, q, D), q.input[i].key, Stored(q.input[i].row))
<1> DEFINE Mine(E, k) == {j \in E : q.input[j].key = k}
           At(E, k)   == IF Mine(E, k) = {} THEN t[k] ELSE Stored(q.input[Max(Mine(E, k))].row)
<1>1. /\ After(t, q, D \cup {i}) = [k \in Key |-> At(D \cup {i}, k)]
      /\ After(t, q, D) = [k \in Key |-> At(D, k)]
  BY DEF After, Stored
<1>2. DOMAIN q.input \subseteq Int
  BY InputRows
<1>3. At(D \cup {i}, q.input[i].key) = Stored(q.input[i].row)
  <2> DEFINE S == Mine(D \cup {i}, q.input[i].key)
  <2>1. S \in SUBSET Int /\ i \in S /\ \A j \in S : j <= i
    BY <1>2 DEF LastOfKey
  <2>2. Max(S) = i
    BY <2>1, Greatest
  <2> QED BY <2>1, <2>2
<1>4. ASSUME NEW k \in Key, k # q.input[i].key PROVE At(D \cup {i}, k) = At(D, k)
  <2>1. Mine(D \cup {i}, k) = Mine(D, k)
    BY <1>4
  <2> QED BY <2>1
<1> HIDE DEF At
<1> QED BY <1>1, <1>3, <1>4 DEF Put

LEMMA AfterPrefix ==
    ASSUME NEW t, NEW q \in Query, NEW n \in Nat, n + 1 \in DOMAIN q.input
    PROVE  After(t, q, 1..(n + 1)) =
              Put(After(t, q, 1..n), q.input[n + 1].key, Stored(q.input[n + 1].row))
<1>1. 1..(n + 1) = (1..n) \cup {n + 1}
  OBVIOUS
<1>2. 1..n \in SUBSET DOMAIN q.input /\ LastOfKey(q, 1..n, n + 1)
  BY InputRows DEF LastOfKey
<1>3. After(t, q, (1..n) \cup {n + 1}) =
        Put(After(t, q, 1..n), q.input[n + 1].key, Stored(q.input[n + 1].row))
  BY <1>2, AfterNext
<1> QED BY <1>1, <1>3

\* Rows of one statement under keys of their own.
LEMMA KeysOnce ==
    ASSUME NEW q \in Query, Distinct(q)
    PROVE  \A i, j \in DOMAIN q.input : q.input[i].key = q.input[j].key => i = j
<1> DEFINE D == DOMAIN q.input
           key == [i \in D |-> q.input[i].key]
<1>1. D = 1..Len(q.input) /\ Len(q.input) \in Nat
  BY QueryAssumption
<1>2. IsFiniteSet(D) /\ Cardinality(D) = Len(q.input)
  BY <1>1, FS_Interval
<1>3. InputKeys(q) = {key[i] : i \in D}
  BY DEF InputKeys
<1>4. key \in Surjection(D, InputKeys(q))
  BY <1>3 DEF Surjection
<1>5. key \in Injection(D, InputKeys(q))
  BY <1>2, <1>4, FS_SurjSameCardinalityImpliesInj DEF Distinct
<1> QED BY <1>5 DEF Injection, IsInjective

\* The order of the rows makes no difference then: each key has its row.
LEMMA AfterDistinct ==
    ASSUME NEW t, NEW q \in Query, Distinct(q), NEW k \in Key
    PROVE  After(t, q, DOMAIN q.input)[k] =
              IF k \in InputKeys(q) THEN Stored(RowFor(q, k)) ELSE t[k]
<1> DEFINE mine == {j \in DOMAIN q.input : q.input[j].key = k}
<1>1. CASE k \in InputKeys(q)
  <2>1. PICK i \in DOMAIN q.input : q.input[i].key = k
    BY <1>1 DEF InputKeys
  <2>2. mine = {i} /\ i \in Int
    BY <2>1, KeysOnce, InputRows
  <2>3. Max(mine) = i
    BY <2>2, Greatest
  <2>4. (CHOOSE j \in DOMAIN q.input : q.input[j].key = k) = i
    BY <2>1, KeysOnce
  <2> QED BY <1>1, <2>2, <2>3, <2>4 DEF After, RowFor, Stored
<1>2. CASE k \notin InputKeys(q)
  <2>1. mine = {}
    BY <1>2 DEF InputKeys
  <2> QED BY <1>2, <2>1 DEF After
<1> QED BY <1>1, <1>2

\* A scan shows at Redis what it has stored.
LEMMA AfterShown ==
    ASSUME NEW t \in Table, NEW q, NEW D
    PROVE  Shown(After(Cleared(t, q), q, D)) = After(Cleared(Shown(t), q), q, D)
<1> DEFINE Mine(k) == {i \in D : q.input[i].key = k}
<1>1. provider = "redis" => \A row : View(RedisStores(row)) = RedisStores(row)
  BY RowsAssumption DEF View, RedisStores, RedisView, Blank
<1>2. \A k \in Key : View(Cleared(t, q)[k]) = Cleared(Shown(t), q)[k]
  BY DEF Cleared, Shown, View, Nothing
<1>3. ASSUME NEW k \in Key
      PROVE  View(After(Cleared(t, q), q, D)[k]) = After(Cleared(Shown(t), q), q, D)[k]
  <2>1. CASE Mine(k) = {}
    BY <1>2, <2>1 DEF After
  <2>2. CASE Mine(k) # {} /\ provider = "redis"
    BY <1>1, <2>2 DEF After
  <2>3. CASE Mine(k) # {} /\ provider # "redis"
    BY <2>3 DEF After, View
  <2> QED BY <2>1, <2>2, <2>3
<1> QED BY <1>3 DEF Shown, After

-----------------------------------------------------------------------------
(* What is left of a statement, and what it ought to be.                    *)

LEMMA Answers ==
    ASSUME NEW t, NEW q
    PROVE  /\ q.kind \in Inserts => SqlAnswer(t, q) = After(Cleared(t, q), q, DOMAIN q.input)
           /\ q.kind = "delete" => SqlAnswer(t, q) = Without(t, SqlMatched(t, q))
           /\ q.kind = "update" => SqlAnswer(t, q) =
                 [k \in Key |-> IF k \in SqlMatched(t, q) THEN SqlAssign(k, t[k], q.set) ELSE t[k]]
BY DEF SqlAnswer, Inserts

\* HSET of one field makes of a hash what SET makes of the row it shows.
LEMMA RedisSets ==
    ASSUME NEW t \in Table, NEW q \in Query, provider = "redis", q.kind = "update",
           q.set.col # KeyColumn, q.set.rhs.kind # "column", FollowsSql(t, q),
           NEW k \in Resolved(t, q)
    PROVE  /\ k \in SqlMatched(Shown(t), q) /\ k \in Present(t)
           /\ View(RedisAssign(t[k], q.set)) = SqlAssign(k, Shown(t)[k], q.set)
<1> DEFINE a == q.set
<1>1. Settable(a) /\ a \in Assignment
  BY QueryAssumption DEF Settable
<1>2. a.col \in Column /\ a.rhs.kind = "literal" /\ a.rhs.of \in Value
  BY <1>1 DEF Settable, Assignment, Operand
<1>3. KeyEq(q.where) \subseteq Present(t)
  BY DEF FollowsSql
<1>4. k \in Present(t)
  BY <1>3 DEF Resolved
<1>5. k \in SqlMatched(Shown(t), q)
  BY <1>4, ResolvedIsSql
<1>6. k \in Key /\ t[k] \in Row /\ t[k] # Absent /\ Shown(t)[k] = RedisView(t[k])
  BY <1>4, ShownRows DEF Present, Shown, View
<1>7. RedisAssign(t[k], a) = [t[k] EXCEPT ![a.col] = a.rhs.of] /\ RedisAssign(t[k], a) \in Row
  BY <1>1, <1>2, <1>6, RowsStay DEF RedisAssign
<1>8. View(RedisAssign(t[k], a)) = RedisView([t[k] EXCEPT ![a.col] = a.rhs.of])
  BY <1>7, RowsStay DEF View
<1>9. a.rhs.of # Null
  BY <1>2, RowsAssumption
<1>10. RedisView([t[k] EXCEPT ![a.col] = a.rhs.of]) = [RedisView(t[k]) EXCEPT ![a.col] = a.rhs.of]
  BY <1>2, <1>6, <1>9 DEF RedisView, Row
<1>11. SqlAssign(k, Shown(t)[k], a) = [RedisView(t[k]) EXCEPT ![a.col] = a.rhs.of]
  BY <1>2, <1>6 DEF SqlAssign, Rhs
<1> QED BY <1>4, <1>5, <1>8, <1>10, <1>11

\* An UPDATE at Redis that has done some of its keys.
LEMMA RedisUpdated ==
    ASSUME NEW t \in Table, NEW q \in Query, provider = "redis", q.kind = "update",
           q.set.col # KeyColumn, q.set.rhs.kind # "column", FollowsSql(t, q),
           NEW done \in SUBSET Resolved(t, q)
    PROVE  /\ \A k \in Key : View(Assigned(t, q, done)[k]) \in
                                {View(t[k]), SqlAnswer(Shown(t), q)[k]}
           /\ done = Resolved(t, q) => Shown(Assigned(t, q, done)) = SqlAnswer(Shown(t), q)
<1> DEFINE reply == SqlAnswer(Shown(t), q)
<1>1. reply = [k \in Key |-> IF k \in SqlMatched(Shown(t), q)
                               THEN SqlAssign(k, Shown(t)[k], q.set) ELSE Shown(t)[k]]
  BY Answers
<1>2. ASSUME NEW k \in Key
      PROVE  /\ k \in done => View(Assigned(t, q, done)[k]) = reply[k]
             /\ k \notin done => View(Assigned(t, q, done)[k]) = View(t[k])
             /\ k \notin Resolved(t, q) => reply[k] = View(t[k])
  <2>1. k \in done => View(Assigned(t, q, done)[k]) = reply[k]
    BY <1>1, RedisSets DEF Assigned
  <2>2. k \notin done => View(Assigned(t, q, done)[k]) = View(t[k])
    BY DEF Assigned
  <2>3. k \notin Resolved(t, q) => k \notin SqlMatched(Shown(t), q)
    BY ResolvedIsSql
  <2>4. k \notin Resolved(t, q) => reply[k] = View(t[k])
    BY <1>1, <2>3 DEF Shown
  <2> QED BY <2>1, <2>2, <2>4
<1>3. ASSUME done = Resolved(t, q) PROVE Shown(Assigned(t, q, done)) = reply
  <2>1. Shown(Assigned(t, q, done)) = [k \in Key |-> View(Assigned(t, q, done)[k])]
    BY DEF Shown
  <2>2. \A k \in Key : View(Assigned(t, q, done)[k]) = reply[k]
    BY <1>2, <1>3
  <2> HIDE DEF reply
  <2>3. reply = [k \in Key |-> reply[k]]
    BY <1>1
  <2> QED BY <2>1, <2>2, <2>3
<1> QED BY <1>2, <1>3

\* The count of keys found is SQL's, or one for a key that the filter names.
LEMMA RedisCounts ==
    ASSUME NEW t \in Table, NEW q \in Query, provider = "redis", q.kind \in Dml
    PROVE  Cardinality(Resolved(t, q)) =
              IF KeyEq(q.where) # {} THEN 1 ELSE Cardinality(SqlMatched(Shown(t), q))
<1>1. CASE KeyEq(q.where) # {}
  <2>1. PICK v : KeyEq(q.where) = {v}
    BY <1>1, NamedKey
  <2>2. q.where # {}
    BY <1>1 DEF KeyEq
  <2>3. Resolved(t, q) = {v}
    BY <1>1, <2>1, <2>2 DEF Resolved
  <2> QED BY <1>1, <2>3, FS_Singleton
<1>2. CASE KeyEq(q.where) = {}
  <2>1. Resolved(t, q) = SqlMatched(Shown(t), q)
    BY <1>2, ResolvedIsSql
  <2> QED BY <1>2, <2>1
<1> QED BY <1>1, <1>2

\* DEL of the keys found removes the rows SQL removes.
LEMMA RedisDeleted ==
    ASSUME NEW t \in Table, NEW q \in Query, provider = "redis", q.kind = "delete"
    PROVE  /\ DoneRight(Without(t, Resolved(t, q)), Cardinality(Resolved(t, q)), t, q)
           /\ LeftBy(Without(t, Resolved(t, q)), t, q)
<1> DEFINE new == Without(t, Resolved(t, q))  reply == SqlAnswer(Shown(t), q)
<1>1. reply = [k \in Key |-> IF k \in SqlMatched(Shown(t), q) THEN Absent ELSE Shown(t)[k]]
  BY Answers DEF Without
<1>2. ASSUME NEW k \in Key PROVE View(new[k]) = reply[k]
  <2>1. CASE k \in Present(t)
    <3>1. k \in Resolved(t, q) <=> k \in SqlMatched(Shown(t), q)
      BY <2>1, ResolvedIsSql
    <3> QED BY <1>1, <3>1 DEF Without, Shown, View
  <2>2. CASE k \notin Present(t)
    <3>1. t[k] = Absent /\ View(t[k]) = Absent
      BY <2>2 DEF Present, View
    <3> QED BY <1>1, <3>1 DEF Without, Shown, View
  <2> QED BY <2>1, <2>2
<1>3. Shown(new) = reply
  <2>1. Shown(new) = [k \in Key |-> View(new[k])]
    BY DEF Shown
  <2>2. \A k \in Key : View(new[k]) = reply[k]
    BY <1>2
  <2> HIDE DEF reply, new
  <2>3. reply = [k \in Key |-> reply[k]]
    BY <1>1
  <2> QED BY <2>1, <2>2, <2>3
<1>4. DoneRight(new, Cardinality(Resolved(t, q)), t, q)
  BY <1>3, RedisCounts DEF DoneRight, Inserts, Dml
<1>5. LeftBy(new, t, q)
  BY <1>2 DEF LeftBy, SqlServers, Inserts
<1> QED BY <1>4, <1>5

LEMMA RedisInserted ==
    ASSUME NEW t \in Table, NEW q \in Query, provider = "redis", q.kind \in Inserts
    PROVE  DoneRight(After(Cleared(t, q), q, DOMAIN q.input), Len(q.input), t, q)
BY AfterShown, Answers DEF DoneRight

\* Documents upserted one by one, under keys that differ.
LEMMA MongoInserted ==
    ASSUME NEW t \in Table, NEW q \in Query, provider = "mongo", q.kind \in Inserts
    PROVE  DoneRight(After(t, q, DOMAIN q.input), Len(q.input), t, q)
<1>1. Cleared(t, q) = t /\ Cleared(Shown(t), q) = Shown(t)
  BY DEF Cleared
<1> QED BY <1>1, AfterShown, Answers DEF DoneRight

\* What delete_many and update_many make of the documents done.
Many(t, q, done) ==
    [k \in Key |-> IF k \notin done THEN t[k]
                   ELSE IF q.kind = "delete" THEN Absent ELSE MongoAssign(t[k], q.set)]

LEMMA MongoSets ==
    ASSUME NEW t \in Table, NEW q \in Query, provider = "mongo", q.kind \in Dml, FollowsSql(t, q),
           NEW k \in Key
    PROVE  SqlAnswer(t, q)[k] =
              IF k \notin SqlMatched(t, q) THEN t[k]
              ELSE IF q.kind = "delete" THEN Absent ELSE MongoAssign(t[k], q.set)
<1>1. CASE q.kind = "delete"
  BY <1>1, Answers DEF Without
<1>2. CASE q.kind = "update"
  <2>1. q.set.rhs.kind = "literal"
    BY <1>2 DEF FollowsSql, Inserts
  <2>2. \A row : SqlAssign(k, row, q.set) = MongoAssign(row, q.set)
    BY <2>1 DEF SqlAssign, MongoAssign, Rhs
  <2> QED BY <1>2, <2>2, Answers
<1> QED BY <1>1, <1>2 DEF Dml

LEMMA MongoDone ==
    ASSUME NEW t \in Table, NEW q \in Query, provider = "mongo", q.kind \in Dml,
           NEW done \in SUBSET {k \in Present(t) : MongoMatches(k, t[k], q.where)}
    PROVE  /\ LeftBy(Many(t, q, done), t, q)
           /\ FollowsSql(t, q) /\ done = {k \in Present(t) : MongoMatches(k, t[k], q.where)} =>
                DoneRight(Many(t, q, done),
                          Cardinality({k \in done : Many(t, q, done)[k] # t[k]}), t, q)
<1> DEFINE new == Many(t, q, done)
<1>1. Shown(t) = t /\ provider \notin SqlServers /\ q.kind \notin Inserts
  BY ShownRows DEF SqlServers, Dml, Inserts
<1>2. ASSUME FollowsSql(t, q), NEW k \in Key
      PROVE  new[k] = IF k \in done THEN SqlAnswer(t, q)[k] ELSE t[k]
  <2>1. k \in done => k \in SqlMatched(t, q)
    BY <1>2, MongoFinds
  <2> QED BY <1>2, <2>1, MongoSets DEF Many
<1>3. \A row : View(row) = row
  BY DEF View
<1>4. LeftBy(new, t, q)
  BY <1>1, <1>2, <1>3 DEF LeftBy
<1>5. ASSUME FollowsSql(t, q), done = {k \in Present(t) : MongoMatches(k, t[k], q.where)}
      PROVE  DoneRight(new, Cardinality({k \in done : new[k] # t[k]}), t, q)
  <2>1. done = SqlMatched(t, q)
    BY <1>5, MongoFinds
  <2>2. \A k \in Key : new[k] = SqlAnswer(t, q)[k]
    BY <1>5, <1>2, <2>1, MongoSets
  <2>3. new = [k \in Key |-> new[k]]
    BY DEF Many
  <2>4. SqlAnswer(t, q) = [k \in Key |-> SqlAnswer(t, q)[k]]
    BY Answers DEF Without, Dml
  <2>5. new = SqlAnswer(t, q)
    BY <2>2, <2>3, <2>4
  <2>6. Shown(new) = new
    BY <1>3, <2>3 DEF Shown
  <2>7. {k \in done : new[k] # t[k]} = {k \in Key : new[k] # t[k]}
    BY DEF Many, Present
  <2>8. q.kind = "delete" => {k \in done : new[k] # t[k]} = done
    BY DEF Many, Present
  <2> QED BY <1>1, <2>1, <2>5, <2>6, <2>7, <2>8 DEF DoneRight, Dml
<1> QED BY <1>4, <1>5

\* One DELETE or UPDATE of a SQL server.
LEMMA SqlDone ==
    ASSUME NEW t \in Table, NEW q \in Query, provider \in SqlServers, q.kind \in Dml,
           NEW new, new = [k \in Key |-> IF k \notin SqlMatched(t, q) THEN t[k]
                                         ELSE IF q.kind = "delete" THEN Absent
                                         ELSE SqlAssign(k, t[k], q.set)]
    PROVE  /\ new = SqlAnswer(t, q)
           /\ provider \in {"sqlite", "postgres"} => DoneRight(new, Cardinality(SqlMatched(t, q)), t, q)
           /\ provider \in {"mysql", "seekdb"} =>
                 DoneRight(new, Cardinality({k \in Key : new[k] # t[k]}), t, q)
<1>1. provider \notin {"redis", "mongo"} /\ Shown(t) = t
  BY ShownRows DEF SqlServers
<1>2. new = SqlAnswer(t, q)
  BY Answers DEF Without, Dml
<1>3. Shown(new) = new
  BY <1>1 DEF Shown, View
<1>4. q.kind = "delete" => {k \in Key : new[k] # t[k]} = SqlMatched(t, q)
  BY DEF SqlMatched, Present
<1> QED BY <1>1, <1>2, <1>3, <1>4 DEF DoneRight, Dml, Inserts

\* One transaction of INSERTs, all of whose keys differ and are free.
LEMMA SqlInserted ==
    ASSUME NEW t \in Table, NEW q \in Query, provider \in SqlServers, q.kind \in Inserts,
           Distinct(q), NEW new,
           new = [k \in Key |-> IF k \in InputKeys(q) THEN RowFor(q, k)
                                ELSE (IF q.kind = "overwrite" THEN Nothing ELSE t)[k]]
    PROVE  new = SqlAnswer(t, q) /\ DoneRight(new, Len(q.input), t, q)
<1>1. provider \notin {"redis", "mongo"} /\ Shown(t) = t
  BY ShownRows DEF SqlServers
<1>2. Cleared(t, q) = IF q.kind = "overwrite" THEN Nothing ELSE t
  BY <1>1 DEF Cleared
<1>3. \A row : Stored(row) = row
  BY <1>1 DEF Stored
<1>4. SqlAnswer(t, q) = After(Cleared(t, q), q, DOMAIN q.input)
  BY Answers
<1>5. \A k \in Key : new[k] = SqlAnswer(t, q)[k]
  BY <1>2, <1>3, <1>4, AfterDistinct
<1>6. SqlAnswer(t, q) = [k \in Key |-> SqlAnswer(t, q)[k]]
  BY <1>4 DEF After
<1>7. new = SqlAnswer(t, q)
  BY <1>5, <1>6
<1>8. Shown(new) = new
  BY <1>1 DEF Shown, View
<1> QED BY <1>1, <1>7, <1>8 DEF DoneRight

-----------------------------------------------------------------------------
(* Steps of a statement.                                                    *)

\* Wherever a statement that nobody disturbs is broken off, what it leaves is allowed.
LEMMA Interrupted ==
    ASSUME WorkInv, NEW s \in Stmt, Active(s), alone[s]
    PROVE  LeftBy(table, begun[s], query[s])
<1> DEFINE b == begun[s]  q == query[s]
<1>1. Places(s) /\ Progress(s) /\ b \in Table /\ q \in Query /\ provider \in Provider
  BY DEF WorkInv, Contents, IInv, Shapes
<1>2. provider # "lance"
  BY <1>1 DEF Places, Active
<1>3. Untouched(s) /\ Updates(s) /\ InsertsInOrder(s) /\ InsertsInAnyOrder(s) /\ Transacts(s)
  BY <1>1 DEF Progress
<1>4. pc[s] \in {"updating", "inserting", "writing"} \/ table = b
  BY <1>3 DEF Untouched
<1>5. CASE table = b
  <2>1. q.kind \in Inserts => \A k \in Key : table[k] \in {b[k]} \cup Offered(q, k)
    BY <1>5
  <2> QED BY <1>5, <2>1 DEF LeftBy
<1>6. CASE pc[s] \in {"inserting", "writing"} /\ table # b
  <2>1. provider \notin SqlServers
    BY <1>1, <1>3, <1>6 DEF Transacts, Places, Holding, SqlServers
  <2>2. q.kind \in Inserts
    BY <1>1, <1>6 DEF Places, Kind
  <2>3. CASE provider = "redis"
    <3>1. \E n \in 0..Len(q.input) : table = After(Cleared(b, q), q, 1..n)
      BY <1>3, <1>6, <2>3 DEF InsertsInOrder
    <3> QED BY <2>2, <2>3, <3>1 DEF LeftBy, SqlServers
  <2>4. CASE provider = "mongo"
    <3>1. pc[s] = "inserting"
      BY <1>1, <1>6, <2>4 DEF Places, Holding
    <3>2. \A k \in Key : table[k] \in {b[k]} \cup Offered(q, k)
      BY <1>3, <2>4, <3>1 DEF InsertsInAnyOrder
    <3> QED BY <2>2, <2>4, <3>2 DEF LeftBy, SqlServers
  <2> QED BY <1>1, <1>2, <2>1, <2>3, <2>4, StatementAssumption DEF SqlServers
<1>7. CASE pc[s] = "updating"
  <2>1. provider = "redis" /\ q.kind = "update" /\ q.set.col # KeyColumn /\ q.set.rhs.kind # "column"
    BY <1>1, <1>7 DEF Places, Holding, Kind, RedisRefuses
  <2>2. table = Assigned(b, q, Resolved(b, q) \ found[s])
    BY <1>3, <1>7 DEF Updates
  <2> QED BY <1>1, <2>1, <2>2, RedisUpdated DEF LeftBy, SqlServers, Inserts
<1> QED BY <1>4, <1>5, <1>6, <1>7

\* What an action of x owes the statements that are not x, beyond Frame.
OthersKept(x) ==
    \A s \in Stmt \ {x} : found'[s] = found[s] /\ count'[s] = count[s] /\ begun'[s] = begun[s]

\* Nothing that s is judged by changes.
LEMMA SameProgress ==
    ASSUME WorkInv, NEW s \in Stmt, UNCHANGED <<provider, query>>,
           pc'[s] = pc[s], left'[s] = left[s], found'[s] = found[s], count'[s] = count[s],
           begun'[s] = begun[s], alone'[s] => alone[s] /\ (Active(s) => table' = table)
    PROVE  Places(s)' /\ Remains(s)' /\ Progress(s)'
<1>2. Places(s) /\ Remains(s) /\ Progress(s)
  BY DEF WorkInv
<1>3. Places(s)' /\ Remains(s)'
  BY <1>2 DEF Places, Kind, RedisRefuses, Remains, Active
<1>4. ASSUME Active(s), table' = table, alone[s] PROVE Progress(s)'
  <2>1. Untouched(s)' /\ Finds(s)' /\ Transacts(s)'
    BY <1>2, <1>4 DEF Progress, Untouched, Finds, Transacts, Kind, Present, Resolved
  <2>2. Updates(s)'
    BY <1>2, <1>4 DEF Progress, Updates, Assigned, Resolved, Present
  <2>3. InsertsInOrder(s)'
    <3>1. \A n \in Nat : After(Cleared(begun[s], query[s]), query[s], 1..n)' =
                            After(Cleared(begun[s], query[s]), query[s], 1..n)
      BY DEF After, Cleared, Nothing
    <3>2. Present(begun[s])' = Present(begun[s])
      BY DEF Present
    <3>3. InsertsInOrder(s)
      BY <1>2, <1>4 DEF Progress
    <3>4. Len(query[s].input) \in Nat
      BY QueryAssumption, Elements DEF WorkInv, IInv, Shapes
    <3> QED BY <1>4, <3>1, <3>2, <3>3, <3>4 DEF InsertsInOrder
  <2>4. InsertsInAnyOrder(s)'
    <3>1. \A D : After(begun[s], query[s], D)' = After(begun[s], query[s], D)
      BY DEF After
    <3>2. \A k \in Key : Offered(query[s], k)' = Offered(query[s], k)
      BY DEF Offered
    <3>3. InsertsInAnyOrder(s)
      BY <1>2, <1>4 DEF Progress
    <3> QED BY <1>4, <3>1, <3>2, <3>3 DEF InsertsInAnyOrder, Distinct, InputKeys
  <2> QED BY <2>1, <2>2, <2>3, <2>4 DEF Progress
<1> QED BY <1>3, <1>4 DEF Active, Progress

LEMMA OthersProgress ==
    ASSUME WorkInv, NEW x \in Stmt, Frame(x), OthersKept(x), NEW s \in Stmt \ {x}
    PROVE  Places(s)' /\ Remains(s)' /\ Progress(s)'
BY SameProgress DEF Frame, OthersKept

\* What an action of s is shown to satisfy.
Outcome(s) ==
    alone'[s] =>
        /\ EndsAs(s, "error") => LeftBy(table', begun[s], query[s])
        /\ EndsAs(s, "ok") /\ FollowsSql(begun[s], query[s]) /\ Kind(s) # "select" =>
              DoneRight(table', count'[s], begun[s], query[s])

Fine(s) == OthersKept(s) /\ Contents' /\ Places(s)' /\ Progress(s)' /\ Outcome(s)

\* A statement that ends: what it leaves is all there is to show.
LEMMA Stops ==
    ASSUME WorkInv, NEW s \in Stmt, Active(s), Goto(s, "error"),
           table' = table, alone' = alone, UNCHANGED <<provider, query, found, count, begun>>
    PROVE  Fine(s)
<1>1. OthersKept(s) /\ Contents'
  BY DEF OthersKept, WorkInv, Contents
<1>2. pc'[s] = "error" /\ provider' = provider
  BY DEF Goto, WorkInv, IInv, Shapes
<1>3. Places(s)' /\ Progress(s)'
  BY <1>2 DEF Places, Progress, Active, Ended, Holding, WorkInv
<1>4. Outcome(s)
  BY <1>2, Interrupted DEF Outcome, EndsAs
<1> QED BY <1>1, <1>3, <1>4 DEF Fine

\* Statements that only move on.
LEMMA BeginFine ==
    ASSUME WorkInv, NEW s \in Stmt, Begin(s) PROVE Fine(s)
<1>1. OthersKept(s) /\ Contents'
  BY DEF Begin, OthersKept, WorkInv, Contents, Set, stores
<1>2. /\ pc[s] = "idle" /\ pc'[s] = "planning" /\ table' = table /\ begun'[s] = table
      /\ left'[s] = IF Kind(s) \in Inserts THEN DOMAIN query[s].input ELSE {}
      /\ found' = found /\ count' = count /\ query' = query /\ provider' = provider
      /\ provider # "lance"
  BY DEF Begin, WorkInv, IInv, Shapes, Contents, Goto, Set, stores
<1>3. found[s] = {} /\ count[s] = 0
  BY <1>2 DEF WorkInv, Places
<1>4. Places(s)' /\ Progress(s)'
  BY <1>2, <1>3 DEF Places, Progress, Untouched, Finds, Updates, InsertsInOrder,
     InsertsInAnyOrder, Transacts, Kind, Holding
<1>5. Outcome(s)
  BY <1>2 DEF Outcome, EndsAs
<1> QED BY <1>1, <1>4, <1>5 DEF Fine

LEMMA RedisTakeFine ==
    ASSUME WorkInv, NEW s \in Stmt, RedisTake(s) PROVE Fine(s)
<1>1. OthersKept(s) /\ Contents'
  BY DEF RedisTake, OthersKept, WorkInv, Contents, stores, locals, history
<1>2. /\ provider = "redis" /\ pc[s] \in Asking /\ pc'[s] = RedisNext(s)
      /\ UNCHANGED <<provider, table, query, left, found, count, begun, alone>>
      /\ pc[s] = "planning" => Kind(s) \in Dml /\ ~RedisRefuses(s)
      /\ ~(pc[s] = "planned" /\ Kind(s) = "insert")
      /\ pc[s] = "inserting" => left[s] # {}
  BY DEF RedisTake, Asks, Is, WorkInv, IInv, Shapes, Goto, stores, locals, history
<1>3. Kind(s) \in {"select", "delete", "update", "insert", "overwrite"} /\ Places(s)
  BY Kinds DEF WorkInv
<1>4. /\ pc[s] = "planning" => pc'[s] = "scanning"
      /\ pc[s] = "inserting" => pc'[s] = "writing"
      /\ pc[s] = "planned" =>
            \/ Kind(s) = "select" /\ pc'[s] = "scanning"
            \/ Kind(s) = "delete" /\ pc'[s] = "deleting"
            \/ Kind(s) = "update" /\ pc'[s] = "updating"
            \/ Kind(s) = "overwrite" /\ pc'[s] = "clearing"
  BY <1>2, <1>3 DEF RedisNext
<1>5. pc[s] \in {"planning", "planned", "inserting"}
  BY <1>2 DEF Asking
<1>6. Places(s)'
  BY <1>2, <1>3, <1>4, <1>5 DEF Places, Kind, RedisRefuses, Inserts, Dml, Holding
<1>7. ASSUME alone[s] PROVE Progress(s)'
  <2>1. Progress(s) /\ Active(s) /\ begun[s] \in Table
    BY <1>5, <1>7 DEF WorkInv, Contents, Active, Ended
  <2>2. Untouched(s) /\ Finds(s) /\ InsertsInOrder(s)
    BY <1>7, <2>1 DEF Progress
  <2>3. Untouched(s)' /\ Finds(s)'
    BY <1>2, <1>4, <1>5, <2>2 DEF Untouched, Finds, Kind, Resolved, Present, Dml
  <2>4. pc'[s] = "updating" => found[s] = Resolved(begun[s], query[s]) /\ table = begun[s] /\ count[s] = 0
    BY <1>2, <1>4, <1>5, <2>2 DEF Untouched, Finds, Dml
  <2>5. Assigned(begun[s], query[s], {}) = begun[s]
    BY <2>1 DEF Assigned, Table
  <2>6. Updates(s)'
    <3>1. Resolved(begun[s], query[s])' = Resolved(begun[s], query[s])
      BY <1>2 DEF Resolved, Present
    <3>2. \A D : Assigned(begun[s], query[s], D)' = Assigned(begun[s], query[s], D)
      BY <1>2 DEF Assigned
    <3> QED BY <1>2, <2>4, <2>5, <3>1, <3>2, FS_EmptySet DEF Updates
  <2>7. InsertsInOrder(s)'
    <3>1. \A n \in Nat : After(Cleared(begun[s], query[s]), query[s], 1..n)' =
                            After(Cleared(begun[s], query[s]), query[s], 1..n)
      BY <1>2 DEF After, Cleared, Nothing
    <3>2. Len(query[s].input) \in Nat
      BY QueryAssumption, Elements DEF WorkInv, IInv, Shapes
    <3> QED BY <1>2, <1>4, <1>5, <2>2, <3>1, <3>2 DEF InsertsInOrder
  <2>8. InsertsInAnyOrder(s)' /\ Transacts(s)'
    BY <1>2 DEF InsertsInAnyOrder, Transacts, SqlServers
  <2> QED BY <2>3, <2>6, <2>7, <2>8 DEF Progress
<1>8. Outcome(s)
  BY <1>4, <1>5 DEF Outcome, EndsAs
<1> QED BY <1>1, <1>2, <1>6, <1>7, <1>8 DEF Fine, Progress

LEMMA RedisBusyFine ==
    ASSUME WorkInv, NEW s \in Stmt, RedisBusy(s) PROVE Fine(s)
BY Stops DEF RedisBusy, Asks, Is, stores, locals, history

LEMMA RedisFailsFine ==
    ASSUME WorkInv, NEW s \in Stmt, RedisFails(s) PROVE Fine(s)
BY Stops DEF RedisFails, Is, stores, locals, history

LEMMA MongoFailsFine ==
    ASSUME WorkInv, NEW s \in Stmt, MongoFails(s) PROVE Fine(s)
BY Stops DEF MongoFails, Is, stores, locals, history

LEMMA SqlFailsFine ==
    ASSUME WorkInv, NEW s \in Stmt, SqlFails(s) PROVE Fine(s)
BY Stops DEF SqlFails, Sql, stores, locals, history

\* What a statement compares the table with stays as it is.
LEMMA Rigid ==
    ASSUME NEW s \in Stmt, UNCHANGED <<provider, query, begun>>
    PROVE  /\ Resolved(begun[s], query[s])' = Resolved(begun[s], query[s])
           /\ \A D : Assigned(begun[s], query[s], D)' = Assigned(begun[s], query[s], D)
           /\ \A D : After(Cleared(begun[s], query[s]), query[s], D)' =
                        After(Cleared(begun[s], query[s]), query[s], D)
           /\ \A D : After(begun[s], query[s], D)' = After(begun[s], query[s], D)
           /\ \A k : Offered(query[s], k)' = Offered(query[s], k)
<1>1. Resolved(begun[s], query[s])' = Resolved(begun[s], query[s])
  BY DEF Resolved, Present
<1>2. \A D : Assigned(begun[s], query[s], D)' = Assigned(begun[s], query[s], D)
  BY DEF Assigned
<1>3. \A D : After(Cleared(begun[s], query[s]), query[s], D)' =
               After(Cleared(begun[s], query[s]), query[s], D)
  BY DEF After, Cleared, Nothing
<1>4. \A D : After(begun[s], query[s], D)' = After(begun[s], query[s], D)
  BY DEF After
<1>5. \A k : Offered(query[s], k)' = Offered(query[s], k)
  BY DEF Offered
<1> QED BY <1>1, <1>2, <1>3, <1>4, <1>5

\* What is known of a statement that is at work.
LEMMA AtWork ==
    ASSUME WorkInv, NEW s \in Stmt
    PROVE  /\ query[s] \in Query /\ begun[s] \in Table /\ Places(s) /\ Remains(s)
           /\ Kind(s) \in {"select", "delete", "update", "insert", "overwrite"}
           /\ query[s].input \in Seq([key : Key, row : Row])
           /\ Len(query[s].input) \in Nat /\ DOMAIN query[s].input = 1..Len(query[s].input)
           /\ Active(s) /\ alone[s] =>
                 /\ Untouched(s) /\ Finds(s) /\ Updates(s)
                 /\ InsertsInOrder(s) /\ InsertsInAnyOrder(s) /\ Transacts(s)
<1>1. query[s] \in Query /\ begun[s] \in Table /\ Places(s) /\ Remains(s) /\ Progress(s)
  BY DEF WorkInv, Contents, IInv, Shapes
<1> QED BY <1>1, Kinds, QueryAssumption, Elements DEF Progress, WorkInv

LEMMA RedisPlanFine ==
    ASSUME WorkInv, NEW s \in Stmt, RedisPlan(s) PROVE Fine(s)
<1>1. CASE RedisRefuses(s) /\ Goto(s, "error")
  BY <1>1, Stops DEF RedisPlan, Is, stores, locals, history
<1>2. CASE Kind(s) \in Inserts \cup {"select"} /\ Goto(s, "planned")
  <2>1. OthersKept(s) /\ Contents'
    BY DEF RedisPlan, OthersKept, WorkInv, Contents, stores, locals, history
  <2>2. /\ provider = "redis" /\ pc[s] = "planning" /\ pc'[s] = "planned" /\ Active(s)
        /\ UNCHANGED <<provider, table, query, left, found, count, begun, alone>>
    BY <1>2 DEF RedisPlan, Is, WorkInv, IInv, Shapes, Goto, stores, locals, history
  <2>3. Places(s)'
    BY <1>2, <2>2 DEF Places, Kind, RedisRefuses, Inserts, Dml, Holding
  <2>4. Progress(s)'
    BY <1>2, <2>2, AtWork, Rigid DEF Progress, Untouched, Finds, Updates, InsertsInOrder,
       InsertsInAnyOrder, Transacts, Kind, Inserts, Dml
  <2>5. Outcome(s)
    BY <2>2 DEF Outcome, EndsAs
  <2> QED BY <2>1, <2>3, <2>4, <2>5 DEF Fine
<1> QED BY <1>1, <1>2 DEF RedisPlan

LEMMA RedisScanFine ==
    ASSUME WorkInv, NEW s \in Stmt, RedisScan(s) PROVE Fine(s)
<1>1. OthersKept(s) /\ Contents'
  BY DEF RedisScan, OthersKept, WorkInv, Contents, Set, stores, history
<1>2. /\ provider = "redis" /\ pc[s] = "scanning" /\ Active(s)
      /\ UNCHANGED <<provider, table, query, count, begun, alone>>
  BY DEF RedisScan, Is, stores, history
<1>3. Kind(s) \notin Inserts /\ ~RedisRefuses(s)
  BY <1>2, AtWork DEF Places
<1>4. CASE Kind(s) \in Dml /\ (KeyEq(query[s].where) # {} \/ query[s].where = {})
  <2>1. /\ pc'[s] = "planned" /\ UNCHANGED left
        /\ found'[s] = IF query[s].where = {} THEN Present(table) ELSE KeyEq(query[s].where)
    BY <1>4 DEF RedisScan, WorkInv, Contents, IInv, Shapes, Goto, Set
  <2>2. Places(s)'
    BY <1>2, <1>3, <2>1 DEF Places, Kind, RedisRefuses, Holding
  <2>3. table = begun[s] => found'[s] = Resolved(begun[s], query[s])
    BY <1>2, <1>4, <2>1, AtWork, ResolvedIsSql DEF Resolved
  <2>4. alone[s] => table = begun[s] /\ count[s] = 0
    BY <1>2, AtWork DEF Untouched
  <2>5. Progress(s)'
    BY <1>2, <1>3, <1>4, <2>1, <2>3, <2>4, Rigid DEF Progress, Untouched, Finds, Updates,
       InsertsInOrder, InsertsInAnyOrder, Transacts, Kind, Inserts, Dml
  <2>6. Outcome(s)
    BY <2>1 DEF Outcome, EndsAs
  <2> QED BY <1>1, <2>2, <2>5, <2>6 DEF Fine
<1>5. CASE ~(Kind(s) \in Dml /\ (KeyEq(query[s].where) # {} \/ query[s].where = {}))
  <2>1. pc'[s] = "reading" /\ left'[s] = Present(table) /\ found' = found
    BY <1>5 DEF RedisScan, WorkInv, IInv, Shapes, Goto, Set
  <2>2. Places(s)'
    BY <1>2, <1>3, <2>1 DEF Places, Kind, RedisRefuses, Holding
  <2>3. alone[s] => table = begun[s] /\ count[s] = 0 /\ (Kind(s) \in Dml => found[s] = {})
    BY <1>2, AtWork DEF Untouched, Finds
  <2>4. Kind(s) \in Dml => KeyEq(query[s].where) = {}
    BY <1>5
  <2>5. Progress(s)'
    BY <1>2, <1>3, <2>1, <2>3, <2>4 DEF Progress, Untouched, Finds, Updates,
       InsertsInOrder, InsertsInAnyOrder, Transacts, Kind, Inserts, Dml, Present
  <2>6. Outcome(s)
    BY <2>1 DEF Outcome, EndsAs
  <2> QED BY <1>1, <2>2, <2>5, <2>6 DEF Fine
<1> QED BY <1>4, <1>5

LEMMA RedisReadFine ==
    ASSUME WorkInv, NEW s \in Stmt, RedisRead(s) PROVE Fine(s)
<1>1. PICK k \in left[s] :
        /\ left' = Set(left, s, left[s] \ {k})
        /\ IF Kind(s) = "select" THEN UNCHANGED found
           ELSE found' = Set(found, s, found[s] \cup
                    (IF RedisMatches(k, IF table[k] = Absent THEN [c \in Column |-> Null] ELSE table[k],
                                     query[s].where) THEN {k} ELSE {}))
  BY DEF RedisRead
<1>2. /\ provider = "redis" /\ pc[s] = "reading" /\ pc' = pc /\ Active(s)
      /\ UNCHANGED <<provider, table, query, count, begun, alone>>
  BY DEF RedisRead, Is, stores, history
<1>3. OthersKept(s) /\ Contents'
  BY <1>1, <1>2 DEF OthersKept, WorkInv, Contents, Set
<1>4. Places(s)'
  BY <1>2, AtWork DEF Places, Kind, RedisRefuses, Holding
<1>5. Kind(s) \notin Inserts
  BY <1>2, AtWork DEF Places
<1>6. left'[s] = left[s] \ {k}
  BY <1>1 DEF Set, WorkInv, IInv, Shapes
<1>7. ASSUME alone[s], Kind(s) \in Dml PROVE Finds(s)'
  <2>1. /\ left[s] \subseteq Present(begun[s]) /\ table = begun[s] /\ KeyEq(query[s].where) = {}
        /\ found[s] = {j \in Present(begun[s]) \ left[s] :
                          RedisMatches(j, begun[s][j], query[s].where)}
    BY <1>2, <1>7, AtWork DEF Finds, Untouched, Inserts, Dml
  <2>2. k \in Present(begun[s]) /\ begun[s][k] # Absent
    BY <2>1 DEF Present
  <2>3. found'[s] = found[s] \cup (IF RedisMatches(k, begun[s][k], query[s].where) THEN {k} ELSE {})
    BY <1>1, <1>7, <2>1, <2>2 DEF Set, Dml, WorkInv, Contents
  <2>4. found'[s] = {j \in Present(begun[s]) \ left'[s] :
                        RedisMatches(j, begun[s][j], query[s].where)}
    BY <1>6, <2>1, <2>2, <2>3
  <2> QED BY <1>2, <1>6, <2>1, <2>4 DEF Finds, Present
<1>8. Progress(s)'
  BY <1>2, <1>5, <1>7, AtWork DEF Progress, Untouched, Finds, Updates,
     InsertsInOrder, InsertsInAnyOrder, Transacts, Kind, SqlServers
<1>9. Outcome(s)
  BY <1>2 DEF Outcome, EndsAs
<1> QED BY <1>3, <1>4, <1>8, <1>9 DEF Fine

LEMMA RedisReadEndFine ==
    ASSUME WorkInv, NEW s \in Stmt, RedisReadEnd(s) PROVE Fine(s)
<1>1. /\ provider = "redis" /\ pc[s] = "reading" /\ left[s] = {} /\ Active(s)
      /\ UNCHANGED <<provider, table, query, left, found, count, begun, alone>>
      /\ pc'[s] = IF Kind(s) = "select" THEN "ok" ELSE "planned"
  BY DEF RedisReadEnd, Is, WorkInv, IInv, Shapes, Goto, stores, locals, history
<1>2. OthersKept(s) /\ Contents'
  BY <1>1 DEF OthersKept, WorkInv, Contents
<1>3. Places(s) /\ Kind(s) \in Dml \cup {"select"}
  BY <1>1, AtWork DEF Places, Dml, Inserts
<1>4. Places(s)'
  BY <1>1, <1>3 DEF Places, Kind, RedisRefuses, Holding
<1>5. ASSUME alone[s], Kind(s) \in Dml PROVE Finds(s)'
  <2>1. found[s] = {j \in Present(begun[s]) : RedisMatches(j, begun[s][j], query[s].where)}
        /\ KeyEq(query[s].where) = {}
    BY <1>1, <1>5, AtWork DEF Finds
  <2>2. found[s] = Resolved(begun[s], query[s])
    BY <2>1 DEF Resolved
  <2>3. pc'[s] = "planned"
    BY <1>1, <1>5 DEF Dml
  <2> QED BY <1>1, <2>2, <2>3, Rigid DEF Finds
<1>6. Progress(s)'
  BY <1>1, <1>3, <1>5, AtWork DEF Progress, Untouched, Finds, Updates,
     InsertsInOrder, InsertsInAnyOrder, Transacts, Kind, SqlServers, Dml, Inserts, Active, Ended
<1>7. Outcome(s)
  BY <1>1 DEF Outcome, EndsAs
<1> QED BY <1>2, <1>4, <1>6, <1>7 DEF Fine

\* A write of s leaves s as undisturbed as it was.
LEMMA WritesOwn ==
    ASSUME WorkInv, NEW s \in Stmt, NEW t, Writes(s, t)
    PROVE  table' = t /\ (alone'[s] <=> alone[s]) /\ UNCHANGED <<provider, begun>>
BY DEF Writes, WorkInv, IInv, Shapes

LEMMA RedisDeleteFine ==
    ASSUME WorkInv, NEW s \in Stmt, RedisDelete(s) PROVE Fine(s)
<1>1. /\ provider = "redis" /\ pc[s] = "deleting" /\ Active(s)
      /\ Writes(s, Without(table, found[s])) /\ UNCHANGED <<query, left, found>>
      /\ count' = Set(count, s, Cardinality(found[s]))
      /\ pc'[s] \in {"ok", "error"}
  BY DEF RedisDelete, Is, WorkInv, IInv, Shapes, Goto, Answered
<1>2. table' = Without(table, found[s]) /\ (alone'[s] <=> alone[s]) /\ UNCHANGED <<provider, begun>>
  BY <1>1, WritesOwn
<1>3. OthersKept(s) /\ Contents' /\ count'[s] = Cardinality(found[s])
  BY <1>1, <1>2 DEF OthersKept, WorkInv, Contents, Set, Without, Table
<1>4. Places(s)' /\ Progress(s)'
  BY <1>1, <1>2, AtWork DEF Places, Progress, Active, Ended, Holding
<1>5. Kind(s) = "delete"
  BY <1>1, AtWork DEF Places
<1>6. alone[s] => table = begun[s] /\ found[s] = Resolved(begun[s], query[s])
  BY <1>1, <1>5, AtWork DEF Untouched, Finds, Dml
<1>7. Outcome(s)
  BY <1>1, <1>2, <1>3, <1>5, <1>6, AtWork, RedisDeleted DEF Outcome, EndsAs, Kind
<1> QED BY <1>3, <1>4, <1>7 DEF Fine

LEMMA RedisUpdateFine ==
    ASSUME WorkInv, NEW s \in Stmt, RedisUpdate(s) PROVE Fine(s)
<1> DEFINE b == begun[s]  q == query[s]  done == Resolved(b, q) \ found[s]
<1>1. provider = "redis" /\ pc[s] = "updating" /\ Active(s) /\ UNCHANGED <<query, left, seen>>
  BY DEF RedisUpdate, Is
<1>2. Kind(s) = "update" /\ ~RedisRefuses(s) /\ Settable(q.set) /\ q \in Query /\ b \in Table
  BY <1>1, AtWork, QueryAssumption DEF Places, Kind
<1>3. q.set.col \in Column /\ q.set.rhs.kind = "literal" /\ q.set \in Assignment
  BY <1>2 DEF RedisRefuses, Settable, Assignment, Operand
<1>4. alone[s] => /\ found[s] \subseteq Resolved(b, q) /\ table = Assigned(b, q, done)
                  /\ IsFiniteSet(done) /\ count[s] = Cardinality(done)
  BY <1>1, AtWork DEF Updates
<1>5. CASE found[s] = {}
  <2>1. pc'[s] = "ok" /\ UNCHANGED <<provider, table, found, count, begun, alone>>
    BY <1>5 DEF RedisUpdate, WorkInv, IInv, Shapes, Goto, stores, history
  <2>2. OthersKept(s) /\ Contents'
    BY <2>1 DEF OthersKept, WorkInv, Contents
  <2>3. Places(s)' /\ Progress(s)'
    BY <1>1, <2>1, AtWork DEF Places, Progress, Active, Ended, Holding
  <2>4. ASSUME alone[s], FollowsSql(b, q) PROVE DoneRight(table, count[s], b, q)
    <3>1. table = Assigned(b, q, Resolved(b, q)) /\ count[s] = Cardinality(Resolved(b, q))
      BY <1>4, <1>5, <2>4
    <3>2. Shown(table) = SqlAnswer(Shown(b), q)
      BY <1>1, <1>2, <1>3, <2>4, <3>1, RedisUpdated, RowsAssumption DEF Kind
    <3> QED BY <1>1, <1>2, <3>1, <3>2, RedisCounts DEF DoneRight, Kind, Dml, Inserts
  <2>5. Outcome(s)
    BY <2>1, <2>4 DEF Outcome, EndsAs
  <2> QED BY <2>2, <2>3, <2>5 DEF Fine
<1>6. CASE found[s] # {}
  <2>1. PICK k \in found[s] :
          /\ Writes(s, Put(table, k, RedisAssign(table[k], q.set)))
          /\ found' = Set(found, s, found[s] \ {k})
          /\ count' = Set(count, s, count[s] + 1)
          /\ UNCHANGED <<conn, pc>> \/ (GivesBack /\ Goto(s, "error"))
    BY <1>6 DEF RedisUpdate
  <2>2. /\ table' = Put(table, k, RedisAssign(table[k], q.set))
        /\ (alone'[s] <=> alone[s]) /\ UNCHANGED <<provider, begun>>
    BY <2>1, WritesOwn
  <2>3. found'[s] = found[s] \ {k} /\ count'[s] = count[s] + 1
        /\ pc'[s] \in {"updating", "error"}
    BY <1>1, <2>1 DEF Set, Goto, WorkInv, Contents, IInv, Shapes
  <2>4. table' \in Table
    <3>1. table \in Table
      BY DEF WorkInv, Contents
    <3>2. k \in Key => RedisAssign(table[k], q.set) \in Row
      <4>1. [c \in Column |-> Null] \in Row
        BY DEF Row, Cell
      <4>2. k \in Key => table[k] \in Row \cup {Absent}
        BY <3>1 DEF Table
      <4> QED BY <1>2, <1>3, <4>1, <4>2, RowsStay
    <3> QED BY <2>2, <3>1, <3>2 DEF Put, Table
  <2>5. OthersKept(s) /\ Contents'
    BY <2>1, <2>2, <2>4 DEF OthersKept, WorkInv, Contents, Set
  <2>6. Places(s)'
    BY <1>1, <1>2, <2>2, <2>3 DEF Places, Kind, RedisRefuses, Holding
  <2>7. ASSUME alone[s]
        PROVE  LET more == Resolved(b, q) \ found'[s]
               IN  /\ found'[s] \subseteq Resolved(b, q) /\ table' = Assigned(b, q, more)
                   /\ IsFiniteSet(more) /\ count'[s] = Cardinality(more)
    <3> DEFINE more == Resolved(b, q) \ found'[s]
    <3>1. more = done \cup {k} /\ k \notin done /\ found'[s] \subseteq Resolved(b, q)
      BY <1>4, <2>1, <2>3, <2>7
    <3>2. IsFiniteSet(more) /\ Cardinality(more) = Cardinality(done) + 1
      <4>1. IsFiniteSet(done) /\ k \notin done /\ more = done \cup {k}
        BY <1>4, <2>7, <3>1
      <4> HIDE DEF done, more
      <4> QED BY <4>1, FS_AddElement
    <3>3. table' = Assigned(b, q, more)
      <4>1. k \in Key => table[k] = b[k]
        BY <1>4, <2>7, <3>1 DEF Assigned
      <4> QED BY <1>4, <2>2, <2>7, <3>1, <4>1 DEF Assigned, Put
    <3> QED BY <1>4, <2>3, <2>7, <3>1, <3>2, <3>3
  <2>8. Progress(s)'
    <3>1. pc'[s] = "updating" /\ alone[s] => Updates(s)'
      BY <1>1, <2>2, <2>7, Rigid DEF Updates
    <3> QED BY <1>1, <1>2, <2>2, <2>3, <3>1 DEF Progress, Untouched, Finds,
            InsertsInOrder, InsertsInAnyOrder, Transacts, Kind, SqlServers, Inserts, Active, Ended
  <2>9. Outcome(s)
    <3>1. alone[s] /\ FollowsSql(b, q) =>
            \A j \in Key : View(table'[j]) \in {View(b[j]), SqlAnswer(Shown(b), q)[j]}
      BY <1>1, <1>2, <1>3, <2>7, RedisUpdated, RowsAssumption DEF Kind
    <3>2. alone[s] => LeftBy(table', b, q)
      BY <1>1, <1>2, <3>1 DEF LeftBy, SqlServers, Kind, Inserts
    <3> QED BY <2>2, <2>3, <3>2 DEF Outcome, EndsAs
  <2> QED BY <2>5, <2>6, <2>8, <2>9 DEF Fine
<1> QED BY <1>5, <1>6

LEMMA RedisClearFine ==
    ASSUME WorkInv, NEW s \in Stmt, RedisClear(s) PROVE Fine(s)
<1>1. /\ provider = "redis" /\ pc[s] = "clearing" /\ pc'[s] = "dropping" /\ Active(s)
      /\ UNCHANGED <<provider, table, query, left, count, begun, alone>>
      /\ found' = Set(found, s, Present(table))
  BY DEF RedisClear, Is, WorkInv, IInv, Shapes, Goto, stores, history
<1>2. OthersKept(s) /\ Contents' /\ found'[s] = Present(table)
  BY <1>1 DEF OthersKept, WorkInv, Contents, Set
<1>3. Kind(s) = "overwrite"
  BY <1>1, AtWork DEF Places
<1>4. Places(s)'
  BY <1>1, <1>3, AtWork DEF Places, Kind, RedisRefuses, Holding
<1>5. Progress(s)'
  BY <1>1, <1>2, <1>3, AtWork DEF Progress, Untouched, Finds, Updates,
     InsertsInOrder, InsertsInAnyOrder, Transacts, Kind, SqlServers, Dml, Inserts, Present
<1>6. Outcome(s)
  BY <1>1 DEF Outcome, EndsAs
<1> QED BY <1>2, <1>4, <1>5, <1>6 DEF Fine

LEMMA RedisDropFine ==
    ASSUME WorkInv, NEW s \in Stmt, RedisDrop(s) PROVE Fine(s)
<1> DEFINE b == begun[s]  q == query[s]
<1>1. /\ provider = "redis" /\ pc[s] = "dropping" /\ Active(s)
      /\ Writes(s, Without(table, found[s])) /\ UNCHANGED <<query, left, found, count>>
      /\ pc'[s] \in {"inserting", "error"}
  BY DEF RedisDrop, Is, WorkInv, IInv, Shapes, Goto, Answered, locals
<1>2. table' = Without(table, found[s]) /\ (alone'[s] <=> alone[s]) /\ UNCHANGED <<provider, begun>>
  BY <1>1, WritesOwn
<1>3. OthersKept(s) /\ Contents'
  BY <1>1, <1>2 DEF OthersKept, WorkInv, Contents, Without, Table
<1>4. Kind(s) = "overwrite"
  BY <1>1, AtWork DEF Places
<1>5. Places(s)'
  BY <1>1, <1>2, <1>4, AtWork DEF Places, Kind, RedisRefuses, Holding, Inserts
<1>6. ASSUME alone[s]
      PROVE  /\ left[s] = (0 + 1)..Len(q.input) /\ count[s] = 0
             /\ table' = After(Cleared(b, q), q, 1..0) /\ 0 \in 0..Len(q.input)
  <2>1. /\ table = b /\ found[s] = Present(b) /\ count[s] = 0 /\ left[s] = 1..Len(q.input)
        /\ Len(q.input) \in Nat
    BY <1>1, <1>4, <1>6, AtWork DEF Untouched, InsertsInOrder, Inserts
  <2>2. table' = Nothing
    BY <1>2, <2>1 DEF Without, Nothing, Present
  <2>3. Cleared(b, q) = Nothing /\ Nothing \in Table
    BY <1>1, <1>4 DEF Cleared, Kind, Nothing, Table
  <2>4. After(Cleared(b, q), q, 1..0) = Nothing
    BY <2>3, AfterNone
  <2> QED BY <2>1, <2>2, <2>4
<1>7. Progress(s)'
  <2>1. alone[s] => InsertsInOrder(s)'
    <3> HIDE DEF b, q
    <3> QED BY <1>1, <1>2, <1>6, Rigid DEF InsertsInOrder, b, q
  <2> QED BY <1>1, <1>2, <1>4, <2>1 DEF Progress, Untouched, Finds, Updates,
          InsertsInAnyOrder, Transacts, Kind, SqlServers, Inserts, Dml, Active, Ended
<1>8. Outcome(s)
  <2>1. alone[s] => LeftBy(table', b, q)
    BY <1>1, <1>4, <1>6 DEF LeftBy, SqlServers, Kind, Inserts
  <2> QED BY <1>1, <1>2, <2>1 DEF Outcome, EndsAs
<1> QED BY <1>3, <1>5, <1>7, <1>8 DEF Fine

LEMMA RedisInsertFine ==
    ASSUME WorkInv, NEW s \in Stmt, RedisInsert(s) PROVE Fine(s)
<1> DEFINE b == begun[s]  q == query[s]
<1>1. /\ provider = "redis" /\ pc[s] = "planned" /\ pc'[s] = "inserting" /\ Kind(s) = "insert"
      /\ Active(s) /\ UNCHANGED <<provider, table, query, left, found, count, begun, alone>>
  BY DEF RedisInsert, Is, WorkInv, IInv, Shapes, Goto, stores, locals, history
<1>2. OthersKept(s) /\ Contents'
  BY <1>1 DEF OthersKept, WorkInv, Contents
<1>3. Places(s)'
  BY <1>1, AtWork DEF Places, Kind, RedisRefuses, Holding, Inserts
<1>4. alone[s] => /\ left[s] = (0 + 1)..Len(q.input) /\ count[s] = 0
                  /\ table = After(Cleared(b, q), q, 1..0) /\ 0 \in 0..Len(q.input)
  <2>1. alone[s] => table = b /\ count[s] = 0 /\ left[s] = 1..Len(q.input)
    BY <1>1, AtWork DEF Untouched, Inserts
  <2>2. Cleared(b, q) = b /\ b \in Table /\ Len(q.input) \in Nat
    BY <1>1, AtWork DEF Cleared, Kind
  <2>3. After(b, q, 1..0) = b
    BY <2>2, AfterNone
  <2> QED BY <2>1, <2>2, <2>3
<1>5. Progress(s)'
  <2>1. alone[s] => InsertsInOrder(s)'
    <3> HIDE DEF b, q
    <3> QED BY <1>1, <1>4, Rigid DEF InsertsInOrder, b, q
  <2> QED BY <1>1, <2>1 DEF Progress, Untouched, Finds, Updates,
          InsertsInAnyOrder, Transacts, Kind, SqlServers, Inserts, Dml, Active, Ended
<1>6. Outcome(s)
  BY <1>1 DEF Outcome, EndsAs
<1> QED BY <1>2, <1>3, <1>5, <1>6 DEF Fine

\* The first of the rows that remain.
LEMMA NextRow ==
    ASSUME NEW q \in Query, NEW n \in 0..Len(q.input), NEW L,
           L = (n + 1)..Len(q.input), L # {}
    PROVE  /\ n + 1 \in 0..Len(q.input) /\ Min(L) = n + 1 /\ n + 1 \in DOMAIN q.input
           /\ L \ {Min(L)} = (n + 1 + 1)..Len(q.input)
<1>1. Len(q.input) \in Nat /\ DOMAIN q.input = 1..Len(q.input)
  BY QueryAssumption, Elements
<1>2. L \in SUBSET Int /\ n + 1 \in L /\ \A j \in L : n + 1 <= j
  BY <1>1
<1>3. Min(L) = n + 1
  BY <1>2, Least
<1> QED BY <1>1, <1>2, <1>3

LEMMA RedisWriteFine ==
    ASSUME WorkInv, NEW s \in Stmt, RedisWrite(s) PROVE Fine(s)
<1> DEFINE b == begun[s]  q == query[s]  i == Min(left[s])
<1>1. /\ provider = "redis" /\ pc[s] = "writing" /\ Active(s)
      /\ Writes(s, Put(table, q.input[i].key, RedisStores(q.input[i].row)))
      /\ left' = Set(left, s, left[s] \ {i}) /\ count' = Set(count, s, count[s] + 1)
      /\ UNCHANGED <<query, found>> /\ pc'[s] \in {"inserting", "error"}
  BY DEF RedisWrite, Is, WorkInv, IInv, Shapes, Goto, Answered
<1>2. /\ table' = Put(table, q.input[i].key, RedisStores(q.input[i].row))
      /\ (alone'[s] <=> alone[s]) /\ UNCHANGED <<provider, begun>>
  BY <1>1, WritesOwn
<1>3. Kind(s) \in Inserts /\ left[s] # {} /\ Len(q.input) \in Nat /\ q \in Query /\ Places(s)
  BY <1>1, AtWork DEF Places
<1>4. left'[s] = left[s] \ {i} /\ count'[s] = count[s] + 1
  BY <1>1 DEF Set, WorkInv, Contents, IInv, Shapes
<1>5. \A n \in 0..Len(q.input) : left[s] = (n + 1)..Len(q.input) =>
          /\ n + 1 \in 0..Len(q.input) /\ i = n + 1 /\ i \in DOMAIN q.input
          /\ left'[s] = (n + 1 + 1)..Len(q.input)
  <2> SUFFICES ASSUME NEW n \in 0..Len(q.input), left[s] = (n + 1)..Len(q.input)
               PROVE  /\ n + 1 \in 0..Len(q.input) /\ i = n + 1 /\ i \in DOMAIN q.input
                      /\ left'[s] = (n + 1 + 1)..Len(q.input)
    OBVIOUS
  <2>1. /\ n + 1 \in 0..Len(q.input) /\ Min(left[s]) = n + 1 /\ n + 1 \in DOMAIN q.input
        /\ left[s] \ {Min(left[s])} = (n + 1 + 1)..Len(q.input)
    <3> PICK L : L = left[s]
      OBVIOUS
    <3> HIDE DEF q, i
    <3> QED BY <1>3, NextRow
  <2> QED BY <1>4, <2>1
<1>6. i \in DOMAIN q.input
  BY <1>1, <1>3, <1>5, AtWork DEF Remains
<1>7. q.input[i].key \in Key /\ RedisStores(q.input[i].row) \in Row
  BY <1>3, <1>6, InputRows
<1>8. OthersKept(s) /\ Contents'
  BY <1>1, <1>2, <1>7 DEF OthersKept, WorkInv, Contents, Set, Put, Table
<1>9. Places(s)'
  BY <1>1, <1>2, <1>3 DEF Places, Kind, RedisRefuses, Holding
<1>10. alone[s] => \E n \in 0..Len(q.input) :
           /\ left'[s] = (n + 1)..Len(q.input) /\ count'[s] = n
           /\ table' = After(Cleared(b, q), q, 1..n)
  <2> SUFFICES ASSUME alone[s]
               PROVE  \E n \in 0..Len(q.input) :
                        /\ left'[s] = (n + 1)..Len(q.input) /\ count'[s] = n
                        /\ table' = After(Cleared(b, q), q, 1..n)
    OBVIOUS
  <2>1. PICK n \in 0..Len(q.input) :
          /\ left[s] = (n + 1)..Len(q.input) /\ count[s] = n
          /\ table = After(Cleared(b, q), q, 1..n)
    BY <1>1, AtWork DEF InsertsInOrder
  <2>2. /\ n + 1 \in 0..Len(q.input) /\ i = n + 1 /\ i \in DOMAIN q.input
        /\ left'[s] = (n + 1 + 1)..Len(q.input)
    BY <1>5, <2>1
  <2>3. n \in Nat /\ n + 1 \in DOMAIN q.input /\ q \in Query
    BY <1>3, <2>2
  <2>4. \A t : After(t, q, 1..(n + 1)) =
                 Put(After(t, q, 1..n), q.input[n + 1].key, Stored(q.input[n + 1].row))
    BY <2>3, AfterPrefix
  <2>5. table' = After(Cleared(b, q), q, 1..(n + 1))
    BY <1>1, <1>2, <2>1, <2>2, <2>4 DEF Stored
  <2> QED BY <1>4, <2>1, <2>2, <2>5
<1>11. Progress(s)'
  <2>1. alone[s] => InsertsInOrder(s)'
    <3> HIDE DEF b, q
    <3> QED BY <1>1, <1>2, <1>10, Rigid DEF InsertsInOrder, b, q
  <2> QED BY <1>1, <1>2, <1>3, <2>1 DEF Progress, Untouched, Finds, Updates,
          InsertsInAnyOrder, Transacts, Kind, SqlServers, Inserts, Dml, Active, Ended
<1>12. Outcome(s)
  <2>1. alone[s] => LeftBy(table', b, q)
    BY <1>1, <1>3, <1>10 DEF LeftBy, SqlServers, Kind, Inserts
  <2> QED BY <1>1, <1>2, <2>1 DEF Outcome, EndsAs
<1> QED BY <1>8, <1>9, <1>11, <1>12 DEF Fine

LEMMA RedisInsertEndFine ==
    ASSUME WorkInv, NEW s \in Stmt, RedisInsertEnd(s) PROVE Fine(s)
<1> DEFINE b == begun[s]  q == query[s]
<1>1. /\ provider = "redis" /\ pc[s] = "inserting" /\ pc'[s] = "ok" /\ left[s] = {} /\ Active(s)
      /\ UNCHANGED <<provider, table, query, left, found, count, begun, alone>>
  BY DEF RedisInsertEnd, Is, WorkInv, IInv, Shapes, Goto, stores, locals, history
<1>2. OthersKept(s) /\ Contents'
  BY <1>1 DEF OthersKept, WorkInv, Contents
<1>3. Places(s)' /\ Progress(s)'
  BY <1>1 DEF Places, Progress, Active, Ended, Holding
<1>4. ASSUME alone[s] PROVE DoneRight(table, count[s], b, q)
  <2>1. PICK n \in 0..Len(q.input) :
          /\ left[s] = (n + 1)..Len(q.input) /\ count[s] = n
          /\ table = After(Cleared(b, q), q, 1..n)
    BY <1>1, <1>4, AtWork DEF InsertsInOrder
  <2>2. n = Len(q.input) /\ DOMAIN q.input = 1..n
    <3>1. Len(q.input) \in Nat /\ DOMAIN q.input = 1..Len(q.input)
      BY AtWork
    <3>2. n + 1 \notin left[s]
      BY <1>1
    <3> HIDE DEF q
    <3> QED BY <2>1, <3>1, <3>2
  <2>3. q \in Query /\ b \in Table /\ q.kind \in Inserts
    BY <1>1, AtWork DEF Places, Kind
  <2> QED BY <1>1, <2>1, <2>2, <2>3, RedisInserted
<1>5. Outcome(s)
  BY <1>1, <1>4 DEF Outcome, EndsAs
<1> QED BY <1>2, <1>3, <1>5 DEF Fine

LEMMA MongoPlanFine ==
    ASSUME WorkInv, NEW s \in Stmt, MongoPlan(s) PROVE Fine(s)
<1> DEFINE b == begun[s]  q == query[s]
<1>1. /\ provider = "mongo" /\ pc[s] = "planning" /\ Active(s)
      /\ UNCHANGED <<provider, table, query, found, count, begun, alone>>
  BY DEF MongoPlan, Is, stores, history
<1>2. OthersKept(s) /\ Contents'
  BY <1>1 DEF OthersKept, WorkInv, Contents
<1>3. CASE Kind(s) = "select" /\ Goto(s, "reading") /\ left' = Set(left, s, Present(table))
  <2>1. pc'[s] = "reading"
    BY <1>3 DEF Goto, WorkInv, IInv, Shapes
  <2>2. Places(s)' /\ Outcome(s)
    BY <1>1, <1>3, <2>1 DEF Places, Kind, RedisRefuses, Inserts, Holding, Outcome, EndsAs
  <2>3. Progress(s)'
    BY <1>1, <1>3, <2>1, AtWork DEF Progress, Untouched, Finds, Updates,
       InsertsInOrder, InsertsInAnyOrder, Transacts, Kind, SqlServers, Inserts, Dml
  <2> QED BY <1>2, <2>2, <2>3 DEF Fine
<1>4. CASE Kind(s) \in Inserts /\ UNCHANGED left /\ Goto(s, "inserting")
  <2>1. pc'[s] = "inserting"
    BY <1>4 DEF Goto, WorkInv, IInv, Shapes
  <2>2. Places(s)' /\ Outcome(s)
    BY <1>1, <1>4, <2>1 DEF Places, Kind, RedisRefuses, Inserts, Holding, Outcome, EndsAs
  <2>3. ASSUME alone[s]
        PROVE  /\ left[s] = DOMAIN q.input /\ table = b /\ count[s] = Cardinality({})
               /\ After(b, q, {}) = b
    <3>1. /\ left[s] = DOMAIN q.input /\ table = b /\ count[s] = 0 /\ b \in Table
      BY <1>1, <1>4, <2>3, AtWork DEF Untouched
    <3> QED BY <3>1, AfterNone, FS_EmptySet
  <2>4. alone[s] => InsertsInAnyOrder(s)'
    <3>1. \A S : S \ S = {}
      OBVIOUS
    <3> HIDE DEF b, q
    <3> QED BY <1>1, <1>4, <2>1, <2>3, <3>1, Rigid DEF InsertsInAnyOrder, b, q
  <2>5. Progress(s)'
    BY <1>1, <1>4, <2>1, <2>4, AtWork DEF Progress, Untouched, Finds, Updates,
       InsertsInOrder, Transacts, Kind, SqlServers, Inserts, Dml
  <2> QED BY <1>2, <2>2, <2>5 DEF Fine
<1>5. CASE /\ Kind(s) \in Dml /\ UNCHANGED left /\ pc'[s] = "planned"
           /\ Kind(s) = "update" => q.set.col # KeyColumn
  <2>1. Places(s)' /\ Outcome(s)
    BY <1>1, <1>5 DEF Places, Kind, RedisRefuses, Inserts, Holding, Outcome, EndsAs
  <2>2. Progress(s)'
    BY <1>1, <1>5, AtWork DEF Progress, Untouched, Finds, Updates,
       InsertsInOrder, InsertsInAnyOrder, Transacts, Kind, SqlServers, Inserts, Dml
  <2> QED BY <1>2, <2>1, <2>2 DEF Fine
<1>6. CASE Goto(s, "error")
  BY <1>1, <1>6, Stops
<1>7. \/ Kind(s) = "select" /\ Goto(s, "reading") /\ left' = Set(left, s, Present(table))
      \/ Kind(s) \in Inserts /\ UNCHANGED left /\ Goto(s, "inserting")
      \/ /\ Kind(s) \in Dml /\ UNCHANGED left
         /\ \/ Goto(s, "error")
            \/ Goto(s, "planned") /\ (Kind(s) = "update" => q.set.col # KeyColumn)
  BY DEF MongoPlan
<1> QED BY <1>3, <1>4, <1>5, <1>6, <1>7 DEF Goto, WorkInv, IInv, Shapes

LEMMA MongoReadFine ==
    ASSUME WorkInv, NEW s \in Stmt, MongoRead(s) PROVE Fine(s)
<1>1. /\ provider = "mongo" /\ pc[s] = "reading" /\ Active(s)
      /\ UNCHANGED <<pc, provider, table, query, found, count, begun, alone>>
  BY DEF MongoRead, Is, stores, history
<1>2. OthersKept(s) /\ Contents'
  BY <1>1 DEF OthersKept, WorkInv, Contents
<1>3. Kind(s) = "select"
  BY <1>1, AtWork DEF Places
<1>4. Places(s)' /\ Outcome(s)
  BY <1>1, <1>3, AtWork DEF Places, Kind, RedisRefuses, Inserts, Holding, Outcome, EndsAs
<1>5. Progress(s)'
  BY <1>1, <1>3, AtWork DEF Progress, Untouched, Finds, Updates, InsertsInOrder,
     InsertsInAnyOrder, Transacts, Kind, SqlServers, Inserts, Dml, Active
<1> QED BY <1>2, <1>4, <1>5 DEF Fine

LEMMA MongoReadEndFine ==
    ASSUME WorkInv, NEW s \in Stmt, MongoReadEnd(s) PROVE Fine(s)
<1>1. /\ provider = "mongo" /\ pc[s] = "reading" /\ pc'[s] = "ok" /\ Active(s)
      /\ UNCHANGED <<provider, table, query, left, found, count, begun, alone>>
  BY DEF MongoReadEnd, Is, WorkInv, IInv, Shapes, Goto, stores, locals, history
<1>2. OthersKept(s) /\ Contents'
  BY <1>1 DEF OthersKept, WorkInv, Contents
<1>3. Kind(s) = "select"
  BY <1>1, AtWork DEF Places
<1>4. Places(s)' /\ Progress(s)' /\ Outcome(s)
  BY <1>1, <1>3 DEF Places, Progress, Active, Ended, Holding, Outcome, EndsAs
<1> QED BY <1>2, <1>4 DEF Fine

LEMMA MongoInsertFine ==
    ASSUME WorkInv, NEW s \in Stmt, MongoInsert(s) PROVE Fine(s)
<1> DEFINE b == begun[s]  q == query[s]
<1>1. /\ provider = "mongo" /\ pc[s] = "inserting" /\ Active(s) /\ UNCHANGED <<query, found>>
  BY DEF MongoInsert, Is
<1>2. /\ Kind(s) \in Inserts /\ left[s] \subseteq DOMAIN q.input /\ q \in Query /\ Places(s)
      /\ b \in Table /\ Len(q.input) \in Nat /\ DOMAIN q.input = 1..Len(q.input)
  BY <1>1, AtWork DEF Places, Remains
<1>3. CASE Goto(s, "error") /\ UNCHANGED <<stores, left, count, history>>
  BY <1>1, <1>3, Stops DEF stores, history
<1>4. ASSUME NEW i \in left[s],
             /\ Writes(s, Put(table, q.input[i].key, q.input[i].row))
             /\ left' = Set(left, s, left[s] \ {i}) /\ count' = Set(count, s, count[s] + 1)
             /\ Answered(s, "inserting")
      PROVE  Fine(s)
  <2> DEFINE old == DOMAIN q.input \ left[s]  new == DOMAIN q.input \ left'[s]
  <2>1. /\ table' = Put(table, q.input[i].key, q.input[i].row)
        /\ (alone'[s] <=> alone[s]) /\ UNCHANGED <<provider, begun>>
    BY <1>4, WritesOwn
  <2>2. left'[s] = left[s] \ {i} /\ count'[s] = count[s] + 1 /\ pc'[s] \in {"inserting", "error"}
    BY <1>4 DEF Set, Answered, Goto, WorkInv, Contents, IInv, Shapes
  <2>3. i \in DOMAIN q.input /\ q.input[i].key \in Key /\ q.input[i].row \in Row
    BY <1>2, InputRows
  <2>4. OthersKept(s) /\ Contents'
    BY <1>1, <1>4, <2>1, <2>3 DEF OthersKept, WorkInv, Contents, Set, Put, Table
  <2>5. Places(s)'
    BY <1>1, <1>2, <2>1, <2>2 DEF Places, Kind, RedisRefuses, Holding
  <2>6. new = old \cup {i} /\ i \notin old /\ left'[s] \subseteq DOMAIN q.input
    BY <1>2, <2>2, <2>3
  <2>7. IsFiniteSet(old)
    <3>1. IsFiniteSet(DOMAIN q.input)
      BY <1>2, FS_Interval
    <3> QED BY <3>1, FS_Subset
  <2>8. Cardinality(new) = Cardinality(old) + 1
    <3> HIDE DEF old, new
    <3> QED BY <2>6, <2>7, FS_AddElement
  <2>9. ASSUME alone[s]
        PROVE  /\ count'[s] = Cardinality(new)
               /\ \A k \in Key : table'[k] \in {b[k]} \cup Offered(q, k)
               /\ Distinct(q) => table' = After(b, q, new)
    <3>1. /\ count[s] = Cardinality(old)
          /\ \A k \in Key : table[k] \in {b[k]} \cup Offered(q, k)
          /\ Distinct(q) => table = After(b, q, old)
      BY <1>1, <2>9, AtWork DEF InsertsInAnyOrder
    <3>2. q.input[i].row \in Offered(q, q.input[i].key)
      BY <2>3 DEF Offered
    <3>3. \A k \in Key : table'[k] \in {b[k]} \cup Offered(q, k)
      <4>1. \A k \in Key : table'[k] = IF k = q.input[i].key THEN q.input[i].row ELSE table[k]
        BY <2>1 DEF Put, WorkInv, Contents, Table
      <4> QED BY <3>1, <3>2, <4>1
    <3>4. ASSUME Distinct(q) PROVE table' = After(b, q, new)
      <4>1. LastOfKey(q, old, i) /\ old \in SUBSET DOMAIN q.input
        BY <1>2, <2>3, <2>6, <3>4, KeysOnce DEF LastOfKey
      <4>2. After(b, q, old \cup {i}) = Put(After(b, q, old), q.input[i].key, Stored(q.input[i].row))
        BY <1>2, <2>3, <4>1, AfterNext
      <4> QED BY <1>1, <2>1, <2>6, <3>1, <3>4, <4>2 DEF Stored
    <3> QED BY <2>2, <2>8, <3>1, <3>3, <3>4
  <2>10. Progress(s)'
    <3>1. alone[s] /\ pc'[s] = "inserting" => InsertsInAnyOrder(s)'
      <4> HIDE DEF b, q
      <4> QED BY <1>1, <2>1, <2>6, <2>9, Rigid DEF InsertsInAnyOrder, Distinct, InputKeys, b, q
    <3> QED BY <1>1, <1>2, <2>1, <2>2, <3>1 DEF Progress, Untouched, Finds, Updates,
            InsertsInOrder, Transacts, Kind, SqlServers, Inserts, Dml, Active, Ended
  <2>11. Outcome(s)
    <3>1. alone[s] => LeftBy(table', b, q)
      BY <1>1, <1>2, <2>9 DEF LeftBy, SqlServers, Kind, Inserts
    <3> QED BY <1>1, <2>1, <2>2, <3>1 DEF Outcome, EndsAs
  <2> QED BY <2>4, <2>5, <2>10, <2>11 DEF Fine
<1> QED BY <1>3, <1>4 DEF MongoInsert

LEMMA MongoInsertEndFine ==
    ASSUME WorkInv, NEW s \in Stmt, MongoInsertEnd(s) PROVE Fine(s)
<1> DEFINE b == begun[s]  q == query[s]
<1>1. /\ provider = "mongo" /\ pc[s] = "inserting" /\ pc'[s] = "ok" /\ left[s] = {} /\ Active(s)
      /\ UNCHANGED <<provider, table, query, left, found, count, begun, alone>>
  BY DEF MongoInsertEnd, Is, WorkInv, IInv, Shapes, Goto, stores, locals, history
<1>2. OthersKept(s) /\ Contents'
  BY <1>1 DEF OthersKept, WorkInv, Contents
<1>3. Places(s)' /\ Progress(s)'
  BY <1>1 DEF Places, Progress, Active, Ended, Holding
<1>4. ASSUME alone[s], FollowsSql(b, q) PROVE DoneRight(table, count[s], b, q)
  <2>1. q \in Query /\ b \in Table /\ q.kind \in Inserts
    BY <1>1, AtWork DEF Places, Kind
  <2>2. Distinct(q)
    BY <1>1, <1>4, <2>1 DEF FollowsSql
  <2>3. DOMAIN q.input \ left[s] = 1..Len(q.input) /\ DOMAIN q.input = 1..Len(q.input)
        /\ Len(q.input) \in Nat
    BY <1>1, AtWork
  <2>4. Cardinality(1..Len(q.input)) = Len(q.input)
    BY <2>3, FS_Interval
  <2>5. table = After(b, q, DOMAIN q.input) /\ count[s] = Len(q.input)
    BY <1>1, <1>4, <2>2, <2>3, <2>4, AtWork DEF InsertsInAnyOrder
  <2> QED BY <1>1, <2>1, <2>5, MongoInserted
<1>5. Outcome(s)
  BY <1>1, <1>4 DEF Outcome, EndsAs
<1> QED BY <1>2, <1>3, <1>5 DEF Fine

LEMMA MongoDmlFine ==
    ASSUME WorkInv, NEW s \in Stmt, MongoDml(s) PROVE Fine(s)
<1> DEFINE b == begun[s]  q == query[s]
<1>1. /\ provider = "mongo" /\ pc[s] = "planned" /\ Active(s) /\ UNCHANGED <<query, left, found>>
  BY DEF MongoDml, Is
<1>2. /\ Kind(s) \in Dml /\ (Kind(s) = "update" => q.set.col # KeyColumn)
      /\ q \in Query /\ b \in Table /\ table \in Table
  BY <1>1, AtWork DEF Places, WorkInv, Contents
<1>3. PICK done \in SUBSET MongoMatched(s) :
          /\ Writes(s, Many(table, q, done))
          /\ count' = Set(count, s, Cardinality({k \in done : table'[k] # table[k]}))
          /\ IF done = MongoMatched(s) THEN Answered(s, "ok") ELSE Goto(s, "error")
  BY DEF MongoDml, Many, Kind
<1>4. table' = Many(table, q, done) /\ (alone'[s] <=> alone[s]) /\ UNCHANGED <<provider, begun>>
  BY <1>3, WritesOwn
<1>5. /\ pc'[s] \in {"ok", "error"} /\ (pc'[s] = "ok" => done = MongoMatched(s))
      /\ count'[s] = Cardinality({k \in done : table'[k] # table[k]})
  BY <1>3 DEF Set, Answered, Goto, WorkInv, Contents, IInv, Shapes
<1>6. table' \in Table
  <2>1. ASSUME NEW k \in done
        PROVE  table[k] \in Row /\ k \in Key
    BY <1>2 DEF MongoMatched, Present, Table
  <2>2. ASSUME NEW k \in done, Kind(s) = "update"
        PROVE  MongoAssign(table[k], q.set) \in Row
    <3>1. Settable(q.set) /\ q.set \in Assignment /\ q.set.col \in Column
      BY <1>2, <2>2, QueryAssumption DEF Kind, Settable, Assignment, Operand
    <3> QED BY <2>1, <3>1, RowsStay
  <2> QED BY <1>2, <1>4, <2>2 DEF Many, Table, Kind, Dml
<1>7. OthersKept(s) /\ Contents'
  BY <1>1, <1>3, <1>4, <1>6 DEF OthersKept, WorkInv, Contents, Set
<1>8. Places(s)' /\ Progress(s)'
  BY <1>1, <1>4, <1>5, AtWork DEF Places, Progress, Active, Ended, Holding
<1>9. alone[s] => table = b
  BY <1>1, AtWork DEF Untouched
<1>10. MongoMatched(s) = {k \in Present(table) : MongoMatches(k, table[k], q.where)}
  BY DEF MongoMatched
<1>11. Outcome(s)
  <2> SUFFICES ASSUME alone'[s]
               PROVE  /\ EndsAs(s, "error") => LeftBy(table', b, q)
                      /\ EndsAs(s, "ok") /\ FollowsSql(b, q) => DoneRight(table', count'[s], b, q)
    BY DEF Outcome
  <2>1. table = b /\ q \in Query /\ q.kind \in Dml /\ provider = "mongo"
    BY <1>1, <1>2, <1>4, <1>9 DEF Kind
  <2>2. done \in SUBSET {k \in Present(table) : MongoMatches(k, table[k], q.where)}
    BY <1>2, <1>10
  <2> HIDE DEF b, q
  <2>3. LeftBy(Many(table, q, done), table, q)
    BY <1>2, <2>1, <2>2, MongoDone
  <2>4. ASSUME EndsAs(s, "ok"), FollowsSql(b, q)
        PROVE  DoneRight(table', count'[s], b, q)
    <3>1. done = {k \in Present(table) : MongoMatches(k, table[k], q.where)}
      BY <1>5, <1>10, <2>4 DEF EndsAs
    <3>2. DoneRight(Many(table, q, done), Cardinality({k \in done : Many(table, q, done)[k] # table[k]}), table, q)
      BY <1>2, <2>1, <2>2, <2>4, <3>1, MongoDone
    <3> QED BY <1>4, <1>5, <2>1, <3>1, <3>2
  <2> QED BY <1>4, <2>1, <2>3, <2>4
<1> QED BY <1>7, <1>8, <1>11 DEF Fine

LEMMA SqlPlanFine ==
    ASSUME WorkInv, NEW s \in Stmt, SqlPlan(s) PROVE Fine(s)
<1>1. /\ provider \in SqlServers /\ pc[s] = "planning" /\ Active(s)
      /\ pc'[s] = IF Kind(s) \in Inserts THEN "inserting" ELSE "planned"
      /\ UNCHANGED <<provider, table, query, left, found, count, begun, alone>>
  BY DEF SqlPlan, Sql, WorkInv, IInv, Shapes, Goto, stores, locals, history
<1>2. OthersKept(s) /\ Contents'
  BY <1>1 DEF OthersKept, WorkInv, Contents
<1>3. Places(s)' /\ Outcome(s)
  BY <1>1 DEF Places, Kind, RedisRefuses, Inserts, Holding, Outcome, EndsAs, SqlServers
<1>4. Progress(s)'
  BY <1>1, AtWork DEF Progress, Untouched, Finds, Updates, InsertsInOrder,
     InsertsInAnyOrder, Transacts, Kind, SqlServers
<1> QED BY <1>2, <1>3, <1>4 DEF Fine

LEMMA SqlSelectFine ==
    ASSUME WorkInv, NEW s \in Stmt, SqlSelect(s) PROVE Fine(s)
<1>1. /\ provider \in SqlServers /\ pc[s] = "planned" /\ pc'[s] = "ok" /\ Active(s)
      /\ Kind(s) = "select" /\ UNCHANGED <<provider, table, query, found, count, begun, alone>>
  BY DEF SqlSelect, Sql, WorkInv, IInv, Shapes, Goto, stores, history
<1>2. OthersKept(s) /\ Contents'
  BY <1>1 DEF OthersKept, WorkInv, Contents
<1>3. Places(s)' /\ Progress(s)' /\ Outcome(s)
  BY <1>1 DEF Places, Progress, Active, Ended, Holding, Outcome, EndsAs, SqlServers
<1> QED BY <1>2, <1>3 DEF Fine

\* The statement has ended by replacing begun, which the table still was, with t.
LEMMA SqlEnds ==
    ASSUME WorkInv, NEW s \in Stmt, Active(s), provider \in SqlServers, NEW t \in Table, NEW n,
           Writes(s, t), count' = Set(count, s, n), UNCHANGED <<query, found>>,
           Goto(s, "ok") \/ (Goto(s, "error") /\ provider # "sqlite"),
           alone[s] => t = SqlAnswer(begun[s], query[s]) /\ DoneRight(t, n, begun[s], query[s])
    PROVE  Fine(s)
<1>1. table' = t /\ (alone'[s] <=> alone[s]) /\ UNCHANGED <<provider, begun>>
  BY WritesOwn
<1>2. pc'[s] \in {"ok", "error"} /\ (pc'[s] = "error" => provider # "sqlite") /\ count'[s] = n
  BY DEF Set, Goto, WorkInv, Contents, IInv, Shapes
<1>3. OthersKept(s) /\ Contents'
  BY <1>1 DEF OthersKept, WorkInv, Contents, Set
<1>4. Places(s)' /\ Progress(s)'
  BY <1>1, <1>2 DEF Places, Progress, Active, Ended, Holding, SqlServers
<1>5. ASSUME alone[s], provider # "sqlite" PROVE LeftBy(t, begun[s], query[s])
  <2>1. begun[s] \in Table /\ Shown(begun[s]) = begun[s]
    BY AtWork, ShownRows DEF SqlServers
  <2> QED BY <1>5, <2>1 DEF LeftBy, SqlServers, View
<1>6. Outcome(s)
  BY <1>1, <1>2, <1>5 DEF Outcome, EndsAs
<1> QED BY <1>3, <1>4, <1>6 DEF Fine

LEMMA SqlDmlFine ==
    ASSUME WorkInv, NEW s \in Stmt, Active(s), provider \in SqlServers, NEW affected,
           SqlDml(s, affected),
           \/ provider \in {"sqlite", "postgres"} /\ affected = SqlMatched(table, query[s])
           \/ provider \in {"mysql", "seekdb"} /\ affected = RowsChanged(s)
    PROVE  Fine(s)
<1> DEFINE b == begun[s]  q == query[s]  new == SqlChanged(q)  n == Cardinality(affected)
<1>1. /\ pc[s] = "planned" /\ Kind(s) \in Dml /\ q.set.col # KeyColumn
      /\ Writes(s, new) /\ count' = Set(count, s, n) /\ UNCHANGED <<query, left, found>>
      /\ Goto(s, "ok") \/ (Goto(s, "error") /\ provider # "sqlite")
  BY DEF SqlDml, SqlAnswered, Answered
<1>2. q \in Query /\ b \in Table /\ table \in Table
  BY AtWork DEF WorkInv, Contents
<1>3. new = [k \in Key |-> IF k \notin SqlMatched(table, q) THEN table[k]
                           ELSE IF q.kind = "delete" THEN Absent ELSE SqlAssign(k, table[k], q.set)]
  BY DEF SqlChanged
<1>4. new \in Table
  <2>1. ASSUME NEW k \in SqlMatched(table, q), Kind(s) = "update"
        PROVE  SqlAssign(k, table[k], q.set) \in Row
    <3>1. table[k] \in Row /\ k \in Key
      BY <1>2 DEF SqlMatched, Present, Table
    <3>2. Settable(q.set) /\ q.set \in Assignment /\ q.set.col \in Column
      BY <1>1, <1>2, <2>1, QueryAssumption DEF Kind, Settable, Assignment, Operand
    <3> QED BY <3>1, <3>2, RowsStay
  <2> QED BY <1>1, <1>2, <1>3, <2>1 DEF Table, Kind, Dml
<1>5. ASSUME alone[s] PROVE new = SqlAnswer(b, q) /\ DoneRight(new, n, b, q)
  <2>1. table = b
    BY <1>1, <1>5, AtWork DEF Untouched
  <2>2. RowsChanged(s) = {k \in Key : new[k] # b[k]}
    BY <2>1 DEF RowsChanged
  <2>3. q.kind \in Dml
    BY <1>1 DEF Kind
  <2> HIDE DEF new
  <2> QED BY <1>2, <1>3, <2>1, <2>2, <2>3, SqlDone
<1> HIDE DEF new, n
<1> QED BY <1>1, <1>4, <1>5, SqlEnds

LEMMA SqlDmlsFine ==
    ASSUME WorkInv, NEW s \in Stmt, SqliteDml(s) \/ PostgresDml(s) \/ MySqlDml(s) \/ SeekDbDml(s)
    PROVE  Fine(s)
BY SqlDmlFine DEF SqliteDml, PostgresDml, MySqlDml, SeekDbDml, Is, SqlServers

LEMMA SqlInsertFine ==
    ASSUME WorkInv, NEW s \in Stmt, Active(s), provider \in SqlServers, SqlInsert(s)
    PROVE  Fine(s)
<1> DEFINE b == begun[s]  q == query[s]  n == Len(q.input)
           new == [k \in Key |-> IF k \in InputKeys(q) THEN RowFor(q, k) ELSE Remaining(s)[k]]
<1>1. /\ pc[s] = "inserting" /\ Distinct(q) /\ Writes(s, new) /\ count' = Set(count, s, n)
      /\ UNCHANGED <<query, found>>
      /\ Goto(s, "ok") \/ (Goto(s, "error") /\ provider # "sqlite")
  BY DEF SqlInsert, SqlAnswered, Answered
<1>2. q \in Query /\ b \in Table /\ table \in Table /\ q.kind \in Inserts
  BY <1>1, AtWork DEF WorkInv, Contents, Places, Kind
<1>3. new \in Table
  <2>1. ASSUME NEW k \in InputKeys(q) PROVE RowFor(q, k) \in Row
    <3>1. (CHOOSE i \in DOMAIN q.input : q.input[i].key = k) \in DOMAIN q.input
      BY DEF InputKeys
    <3> QED BY <1>2, <3>1, InputRows DEF RowFor
  <2>2. \A k \in Key : Remaining(s)[k] \in Row \cup {Absent}
    BY <1>2 DEF Remaining, Nothing, Table
  <2> QED BY <2>1, <2>2 DEF Table
<1>4. ASSUME alone[s] PROVE new = SqlAnswer(b, q) /\ DoneRight(new, n, b, q)
  <2>1. table = b
    BY <1>1, <1>4, AtWork DEF Transacts
  <2>2. new = [k \in Key |-> IF k \in InputKeys(q) THEN RowFor(q, k)
                             ELSE (IF q.kind = "overwrite" THEN Nothing ELSE b)[k]]
    BY <2>1 DEF Remaining, Kind
  <2> HIDE DEF new
  <2> QED BY <1>1, <1>2, <2>2, SqlInserted
<1> HIDE DEF new, n
<1> QED BY <1>1, <1>3, <1>4, SqlEnds

LEMMA SqlInsertsFine ==
    ASSUME WorkInv, NEW s \in Stmt, SqliteInsert(s) \/ PostgresInsert(s) \/ MySqlInsert(s)
    PROVE  Fine(s)
BY SqlInsertFine DEF SqliteInsert, PostgresInsert, MySqlInsert, Is, SqlServers

-----------------------------------------------------------------------------
(* The invariant is kept.                                                   *)

\* An INSERT that only moves on, from before its first row to there, or that ends.
LEMMA StillRemains ==
    ASSUME WorkInv, NEW s \in Stmt, Active(s), UNCHANGED <<provider, query, left>>,
           pc[s] \in {"inserting", "writing"} => pc'[s] \in {"inserting", "writing"} \cup Ended
    PROVE  Remains(s)'
<1> DEFINE q == query[s]
<1>1. q' = q /\ Remains(s) /\ Len(q.input) \in Nat /\ DOMAIN q.input = 1..Len(q.input)
  BY AtWork
<1>2. CASE pc[s] \in {"inserting", "writing"}
  BY <1>1, <1>2 DEF Remains, Kind, Active, Ended
<1>3. CASE pc[s] \notin {"inserting", "writing"} /\ Kind(s) \in Inserts
  <2>1. left[s] = (0 + 1)..Len(q.input) /\ left[s] = DOMAIN q.input /\ 0 \in 0..Len(q.input)
    BY <1>1, <1>3 DEF Remains
  <2> QED BY <1>1, <2>1 DEF Remains, Kind
<1>4. CASE Kind(s) \notin Inserts
  BY <1>4 DEF Remains, Kind
<1> QED BY <1>2, <1>3, <1>4

LEMMA RedisRemains ==
    ASSUME WorkInv, NEW s \in Stmt, Redis(s) PROVE Remains(s)'
<1>1. Shapes /\ Places(s) /\ query' = query /\ provider' = provider
  BY DEF WorkInv, IInv, Redis, RedisTake, RedisBusy, RedisPlan, RedisScan, RedisRead,
     RedisReadEnd, RedisDelete, RedisUpdate, RedisClear, RedisDrop, RedisInsert, RedisWrite,
     RedisInsertEnd, Writes, stores
<1>2. CASE RedisScan(s) \/ RedisRead(s) \/ RedisReadEnd(s) \/ RedisDelete(s) \/ RedisUpdate(s)
  <2>1. Kind(s) \notin Inserts
    BY <1>1, <1>2 DEF Places, RedisScan, RedisRead, RedisReadEnd, RedisDelete, RedisUpdate,
       Inserts, Is
  <2> QED BY <1>1, <2>1 DEF Remains, Kind
<1>3. CASE RedisTake(s)
  <2>1. Active(s) /\ UNCHANGED left /\ (pc[s] = "inserting" => pc'[s] = "writing")
        /\ pc[s] # "writing"
    BY <1>1, <1>3 DEF RedisTake, RedisNext, Asks, Asking, Is, Goto, Shapes, locals
  <2> QED BY <1>1, <2>1, StillRemains
<1>4. CASE RedisBusy(s) \/ RedisPlan(s) \/ RedisClear(s) \/ RedisInsert(s) \/ RedisInsertEnd(s)
  <2>1. Active(s) /\ UNCHANGED left /\ (pc[s] \in {"inserting", "writing"} => pc'[s] \in Ended)
    BY <1>1, <1>4 DEF RedisBusy, RedisPlan, RedisClear, RedisInsert, RedisInsertEnd, Asks, Asking,
       Is, Goto, Shapes, Ended, locals
  <2> QED BY <1>1, <2>1, StillRemains
<1>5. CASE RedisDrop(s)
  <2>1. Active(s) /\ UNCHANGED left /\ pc[s] = "dropping"
    BY <1>5 DEF RedisDrop, Is, locals
  <2> QED BY <1>1, <2>1, StillRemains
<1>6. CASE RedisWrite(s)
  <2> DEFINE q == query[s]
  <2>1. /\ provider = "redis" /\ pc[s] = "writing" /\ Kind(s) \in Inserts /\ left[s] # {}
        /\ left'[s] = left[s] \ {Min(left[s])} /\ pc'[s] \in {"inserting", "error"}
        /\ q \in Query /\ Remains(s) /\ DOMAIN q.input = 1..Len(q.input) /\ Active(s)
    BY <1>1, <1>6, AtWork DEF RedisWrite, Is, Goto, Answered, Set, Shapes, Places
  <2>2. PICK n \in 0..Len(q.input) : left[s] = (n + 1)..Len(q.input)
    BY <2>1 DEF Remains
  <2>3. n + 1 \in 0..Len(q.input) /\ left'[s] = (n + 1 + 1)..Len(q.input)
    BY <2>1, <2>2, NextRow
  <2>4. left'[s] \subseteq DOMAIN q.input
    BY <2>1 DEF Remains
  <2>5. \E m \in 0..Len(q.input) : left'[s] = (m + 1)..Len(q.input)
    BY <2>3
  <2> QED BY <1>1, <2>1, <2>4, <2>5 DEF Remains, Kind, Active, Ended
<1> QED BY <1>2, <1>3, <1>4, <1>5, <1>6 DEF Redis

LEMMA MongoRemains ==
    ASSUME WorkInv, NEW s \in Stmt, Mongo(s) PROVE Remains(s)'
<1>1. /\ Shapes /\ Places(s) /\ Remains(s) /\ query' = query /\ provider' = provider
      /\ provider = "mongo" /\ Active(s)
  BY DEF WorkInv, IInv, Mongo, MongoPlan, MongoRead, MongoReadEnd, MongoInsert, MongoInsertEnd,
     MongoDml, Writes, Is, stores
<1>2. CASE MongoPlan(s)
  <2>1. Kind(s) \in Inserts => UNCHANGED left /\ pc[s] = "planning"
    BY <1>2 DEF MongoPlan, Inserts
  <2>2. Kind(s) \notin Inserts => Remains(s)'
    BY <1>1 DEF Remains, Kind
  <2> QED BY <1>1, <2>1, <2>2, StillRemains
<1>3. CASE MongoRead(s) \/ MongoReadEnd(s) \/ MongoDml(s)
  <2>1. Kind(s) \notin Inserts
    BY <1>1, <1>3 DEF Places, MongoRead, MongoReadEnd, MongoDml, Inserts, Dml
  <2> QED BY <1>1, <2>1 DEF Remains, Kind
<1>4. CASE MongoInsert(s)
  <2>1. left'[s] \subseteq left[s] /\ pc'[s] \in {"inserting", "error"} /\ pc[s] = "inserting"
    BY <1>1, <1>4 DEF MongoInsert, Answered, Goto, Set, Shapes
  <2> QED BY <1>1, <2>1 DEF Remains, Kind, Active, Ended
<1>5. CASE MongoInsertEnd(s)
  <2>1. UNCHANGED left /\ pc'[s] = "ok"
    BY <1>1, <1>5 DEF MongoInsertEnd, Goto, Shapes, locals
  <2> QED BY <1>1, <2>1, StillRemains DEF Ended
<1> QED BY <1>2, <1>3, <1>4, <1>5 DEF Mongo

LEMMA OwnRemains ==
    ASSUME WorkInv, NEW s \in Stmt, Begin(s) \/ Works(s) \/ Fails(s) PROVE Remains(s)'
<1>1. CASE Begin(s)
  <2>1. /\ pc'[s] = "planning" /\ UNCHANGED <<provider, query>>
        /\ Kind(s) \in Inserts => left'[s] = DOMAIN query[s].input
    BY <1>1 DEF Begin, Goto, Set, WorkInv, IInv, Shapes, stores
  <2> QED BY <2>1 DEF Remains, Kind
<1>2. CASE Fails(s)
  <2>1. /\ Active(s) /\ UNCHANGED <<provider, query, left>> /\ pc'[s] = "error"
    BY <1>2 DEF Fails, RedisFails, MongoFails, SqlFails, Is, Sql, Goto, WorkInv, IInv, Shapes,
       stores, locals
  <2> QED BY <2>1, StillRemains DEF Ended
<1>3. CASE SqlPlan(s)
  <2>1. /\ Active(s) /\ UNCHANGED <<provider, query, left>> /\ pc[s] = "planning"
    BY <1>3 DEF SqlPlan, Sql, stores, locals
  <2> QED BY <2>1, StillRemains
<1>4. CASE SqlServer(s) /\ ~SqlPlan(s)
  <2>1. /\ pc'[s] \in Ended /\ UNCHANGED query
    BY <1>4 DEF SqlServer, SqlSelect, SqliteDml, PostgresDml, MySqlDml, SeekDbDml, SqlDml,
       SqliteInsert, PostgresInsert, MySqlInsert, SqlInsert, SqlAnswered, Answered, Goto,
       Ended, WorkInv, IInv, Shapes
  <2> QED BY <2>1 DEF Remains, Kind, Active, Ended
<1> QED BY <1>1, <1>2, <1>3, <1>4, RedisRemains, MongoRemains DEF Works

LEMMA OwnFine ==
    ASSUME WorkInv, NEW s \in Stmt, Begin(s) \/ Works(s) \/ Fails(s) PROVE Fine(s)
BY BeginFine, RedisTakeFine, RedisBusyFine, RedisPlanFine, RedisScanFine, RedisReadFine,
   RedisReadEndFine, RedisDeleteFine, RedisUpdateFine, RedisClearFine, RedisDropFine,
   RedisInsertFine, RedisWriteFine, RedisInsertEndFine, RedisFailsFine, MongoPlanFine,
   MongoReadFine, MongoReadEndFine, MongoInsertFine, MongoInsertEndFine, MongoDmlFine,
   MongoFailsFine, SqlPlanFine, SqlSelectFine, SqlDmlsFine, SqlInsertsFine, SqlFailsFine
   DEF Works, Fails, Redis, Mongo, SqlServer

LEMMA OutsideKeepsWork == WorkInv /\ Outside => WorkInv'
<1> SUFFICES ASSUME WorkInv, Outside PROVE WorkInv'
  OBVIOUS
<1>1. IInv'
  BY OutsideKeeps DEF WorkInv
<1>2. Contents'
  <2>1. PICK k \in Key, new \in {Absent, OutsideRow} : table' = Put(table, k, new)
    BY DEF Outside
  <2>2. new \in Row \cup {Absent}
    <3>1. OutsideRow \in [Column -> Value] /\ Value \subseteq Cell
      BY StatementAssumption DEF Cell, Number
    <3>2. OutsideRow \in Row
      BY <3>1 DEF Row
    <3> QED BY <3>2
  <2> QED BY <2>1, <2>2 DEF Outside, WorkInv, Contents, Put, Table, locals
<1>3. ASSUME NEW s \in Stmt PROVE Places(s)' /\ Remains(s)' /\ Progress(s)'
  <2>1. /\ UNCHANGED <<provider, conn, pc, query, left, found, count, begun>>
        /\ Active(s) => ~alone'[s]
    BY DEF Outside, locals
  <2>2. Places(s) /\ Remains(s)
    BY DEF WorkInv
  <2> QED BY <2>1, <2>2 DEF Places, Remains, Progress, Active, Kind, RedisRefuses
<1> QED BY <1>1, <1>2, <1>3 DEF WorkInv

LEMMA InitWork == Init => WorkInv
<1> SUFFICES ASSUME Init PROVE WorkInv
  OBVIOUS
<1>1. Contents
  BY StatementAssumption DEF Init, Contents, Table
<1>2. ASSUME NEW s \in Stmt PROVE Places(s) /\ Remains(s) /\ Progress(s)
  BY DEF Init, Places, Remains, Progress, Active, Holding
<1> QED BY <1>1, <1>2, InitIInv DEF WorkInv

LEMMA StepWork == WorkInv /\ [Next]_vars => WorkInv'
<1> SUFFICES ASSUME WorkInv, [Next]_vars PROVE WorkInv'
  OBVIOUS
<1>1. CASE Outside
  BY <1>1, OutsideKeepsWork
<1>2. CASE UNCHANGED vars
  <2>1. /\ UNCHANGED <<provider, table, pc, query, left, found, count, begun, alone, quiet>>
    BY <1>2 DEF vars, stores, locals, history
  <2>2. IInv' /\ Contents'
    BY <1>2, <2>1, StepIInv DEF WorkInv, Contents
  <2>3. ASSUME NEW s \in Stmt PROVE Places(s)' /\ Remains(s)' /\ Progress(s)'
    <3>1. Places(s) /\ Remains(s) /\ Progress(s)
      BY DEF WorkInv
    <3> QED BY <2>1, <3>1, SameProgress
  <2> QED BY <2>2, <2>3 DEF WorkInv
<1>3. ASSUME NEW x \in Stmt, Begin(x) \/ Works(x) \/ Fails(x) PROVE WorkInv'
  <2>1. IInv'
    BY <1>3, StepIInv DEF WorkInv, Next
  <2>2. Frame(x)
    BY <1>3, StepFrame DEF WorkInv, Good
  <2>3. Fine(x) /\ Remains(x)'
    BY <1>3, OwnFine, OwnRemains
  <2>4. \A s \in Stmt \ {x} : Places(s)' /\ Remains(s)' /\ Progress(s)'
    BY <2>2, <2>3, OthersProgress DEF Fine
  <2> QED BY <2>1, <2>3, <2>4 DEF Fine, WorkInv
<1> QED BY <1>1, <1>2, <1>3 DEF Next

\* What an action of s does when s ends.
LEMMA Ending ==
    ASSUME WorkInv, Next, NEW s \in Stmt, NEW how \in Ended, EndsAs(s, how)
    PROVE  Outcome(s)
<1>1. PICK x \in Stmt : Begin(x) \/ Works(x) \/ Fails(x)
  BY DEF Next, Outside, EndsAs
<1>2. x = s
  BY <1>1, StepFrame DEF Good, Frame, EndsAs, WorkInv
<1> QED BY <1>1, <1>2, OwnFine DEF Fine

\* A DELETE, UPDATE, INSERT or INSERT OVERWRITE that succeeds undisturbed has made of the
\* table what SQL says, and counts what its provider promises to count.
THEOREM AloneRight == Spec => AloneIsSql
<1> DEFINE Right(s) ==
      EndsAs(s, "ok") /\ alone'[s] /\ FollowsSql(begun[s], query[s]) /\ Kind(s) # "select" =>
          /\ Shown(table') = SqlAnswer(Shown(begun[s]), query[s])
          /\ count'[s] = IF Kind(s) \in Inserts THEN Len(query[s].input)
                         ELSE IF provider \in {"mongo", "mysql", "seekdb"} /\ Kind(s) = "update"
                         THEN Cardinality({k \in Key : table'[k] # begun[s][k]})
                         ELSE IF KeyEq(query[s].where) # {} /\ provider = "redis" THEN 1
                         ELSE Cardinality(SqlMatched(Shown(begun[s]), query[s]))
<1>1. WorkInv /\ [Next]_vars => [\A s \in Stmt : Right(s)]_vars
  <2> SUFFICES ASSUME WorkInv, Next, NEW s \in Stmt, EndsAs(s, "ok"), alone'[s],
                      FollowsSql(begun[s], query[s]), Kind(s) # "select"
               PROVE  Right(s)
    OBVIOUS
  <2>1. Outcome(s)
    BY Ending DEF Ended
  <2>2. DoneRight(table', count'[s], begun[s], query[s])
    BY <2>1 DEF Outcome
  <2> QED BY <2>2 DEF DoneRight, Kind
<1> QED BY <1>1, InitWork, StepWork, PTL DEF Spec, AloneIsSql, Right

\* A statement that fails undisturbed leaves of the table only what its provider may: SQLite
\* nothing, a SQL server all or nothing, Redis a prefix of an INSERT, and each row of any other
\* statement as it was or as the statement makes it.
THEOREM FailedRows == Spec => FailedRowsOldOrNew
<1> DEFINE Left(s) ==
      EndsAs(s, "error") /\ alone'[s] =>
         LET q == query[s]  old == begun[s]
         IN /\ provider = "sqlite" => table' = old
            /\ provider \in SqlServers => table' \in {old, SqlAnswer(old, q)}
            /\ provider = "redis" /\ q.kind \in Inserts =>
                  \/ table' = old
                  \/ \E n \in 0..Len(q.input) : table' = After(Cleared(old, q), q, 1..n)
            /\ provider = "mongo" /\ q.kind \in Inserts =>
                  \A k \in Key : table'[k] \in {old[k]} \cup Offered(q, k)
            /\ q.kind \notin Inserts /\ FollowsSql(old, q) =>
                  \A k \in Key : View(table'[k]) \in
                      {View(old[k]), SqlAnswer(Shown(old), q)[k]}
<1>1. WorkInv /\ [Next]_vars => [\A s \in Stmt : Left(s)]_vars
  <2> SUFFICES ASSUME WorkInv, Next, NEW s \in Stmt, EndsAs(s, "error"), alone'[s]
               PROVE  Left(s)
    OBVIOUS
  <2>1. Outcome(s)
    BY Ending DEF Ended
  <2>2. LeftBy(table', begun[s], query[s])
    BY <2>1 DEF Outcome
  <2> QED BY <2>2 DEF LeftBy
<1> QED BY <1>1, InitWork, StepWork, PTL DEF Spec, FailedRowsOldOrNew, Left

-----------------------------------------------------------------------------
(* Search beside the statements.                                            *)

\* A search writes nothing a statement reads: with searches beside them the statements do
\* what they do alone.
THEOREM SearchesLeaveRows == SearchSpec => Spec
<1>1. SearchInit => Init
  BY DEF SearchInit
<1>2. [SearchNext]_<<vars, searchVars>> => [Next]_vars
  BY DEF SearchNext, WriteStep, SearchStep, SearchPlan, FetchVector, RunSearch, SearchFails
<1> QED BY <1>1, <1>2, PTL DEF SearchSpec, Spec

-----------------------------------------------------------------------------
(* Filters of a search.                                                     *)

\* Conjuncts without an OR among those that stand without parentheses are one group, and an
\* OR that stands alone is its two sides: the text that is sent means what the conjuncts do.
LEMMA GroupsAreSql ==
    ASSUME NEW text \in Seq(Filter), NEW nested \in Seq(Filter), NEW k, NEW row,
           \/ Len(text) = 1 /\ Range(nested) = {}
           \/ \A f \in Range(text) : f.op # "or"
    PROVE  (\E group \in Groups(text, nested) : SqlMatches(k, row, group))
              <=> SqlMatches(k, row, Range(text) \cup Range(nested))
<1> DEFINE Ors       == {i \in DOMAIN text : text[i].op = "or"}
           Beside(i) == {IF j \in Ors THEN text[j].left ELSE text[j] :
                           j \in {j \in DOMAIN text : j > i /\ Ors \cap (i + 1)..j \subseteq {j}}}
           Group(i)  == Beside(i) \cup (IF i = 0 THEN {} ELSE {text[i].right})
                                  \cup (IF \E j \in Ors : j > i THEN {} ELSE Range(nested))
<1>1. Groups(text, nested) = {Group(i) : i \in Ors \cup {0}}
  BY DEF Groups
<1>2. DOMAIN text = 1..Len(text) /\ Len(text) \in Nat
  OBVIOUS
<1>3. \A i \in DOMAIN text : text[i] \in Filter
  OBVIOUS
<1>4. CASE \A f \in Range(text) : f.op # "or"
  <2>1. Ors = {}
    BY <1>4 DEF Range
  <2>2. Group(0) = Range(text) \cup Range(nested)
    <3>1. Beside(0) = Range(text)
      BY <2>1, <1>2 DEF Range
    <3> HIDE DEF Beside, Ors
    <3> QED BY <2>1, <3>1
  <2>3. Groups(text, nested) = {Group(0)}
    <3> HIDE DEF Group
    <3> QED BY <1>1, <2>1
  <2> HIDE DEF Group
  <2> QED BY <2>2, <2>3
<1>5. CASE Len(text) = 1 /\ Range(nested) = {} /\ text[1].op = "or"
  <2>1. DOMAIN text = {1} /\ Range(text) \cup Range(nested) = {text[1]}
    BY <1>2, <1>5 DEF Range
  <2>2. Ors = {1}
    BY <1>5, <2>1
  <2>3. Beside(0) = {text[1].left}
    BY <2>1, <2>2
  <2>4. Beside(1) = {}
    BY <2>1, <2>2
  <2> HIDE DEF Beside, Ors
  <2>5. Group(0) = {text[1].left} /\ Group(1) = {text[1].right}
    BY <2>2, <2>3, <2>4, <1>5 DEF Range
  <2> HIDE DEF Group
  <2>6. Groups(text, nested) = {Group(0), Group(1)}
    BY <1>1, <2>2
  <2>7. text[1].left.op # "or" /\ text[1].right.op # "or"
    BY <1>3, <1>5, <2>1, FilterKinds DEF Comparison
  <2>8. /\ SqlMatches(k, row, Group(0)) <=> SqlTrue(Cells(k, row), text[1].left)
        /\ SqlMatches(k, row, Group(1)) <=> SqlTrue(Cells(k, row), text[1].right)
    BY <2>5, <2>7 DEF SqlMatches
  <2>9. SqlMatches(k, row, {text[1]}) <=>
           SqlTrue(Cells(k, row), text[1].left) \/ SqlTrue(Cells(k, row), text[1].right)
    BY <1>5 DEF SqlMatches
  <2> QED BY <2>1, <2>6, <2>8, <2>9
<1>6. Len(text) = 1 /\ text[1].op # "or" => \A f \in Range(text) : f.op # "or"
  BY <1>2 DEF Range
<1> QED BY <1>4, <1>5, <1>6

\* Without "<>" on a missing field, what Mongo is sent and what DataFusion filters afterwards
\* are together what SQL asks for.
LEMMA PushedAndNotPushed ==
    ASSUME NEW k, NEW row, NEW F \in SUBSET Filter,
           \A f \in F : f.op = "<>" => Cells(k, row)[f.col] # Null
    PROVE  MongoMatches(k, row, Pushable(F)) /\ SqlMatches(k, row, F \ Pushable(F))
              <=> SqlMatches(k, row, F)
<1>1. SqlMatches(k, row, F) => MongoMatches(k, row, Pushable(F))
  BY MongoPushdownComplete
<1>2. SqlMatches(k, row, F) => SqlMatches(k, row, F \ Pushable(F))
  BY DEF SqlMatches
<1>3. ASSUME MongoMatches(k, row, Pushable(F)), SqlMatches(k, row, F \ Pushable(F)),
             NEW f \in F
      PROVE  IF f.op = "or" THEN SqlTrue(Cells(k, row), f.left) \/ SqlTrue(Cells(k, row), f.right)
                            ELSE SqlTrue(Cells(k, row), f)
  <2>1. CASE f \notin Pushable(F)
    BY <1>3, <2>1 DEF SqlMatches
  <2>2. CASE f \in Pushable(F)
    <3>1. f.op # "or" /\ f.rhs.kind = "literal" /\ f \in Comparison
      BY <2>2, FilterKinds DEF Pushable
    <3>2. f.rhs.of \in Value \cup Key /\ f.op \in {"=", "<>", "<"}
      BY <3>1 DEF Comparison, Operand
    <3>3. MongoCompare(k, row, f) /\ f.rhs.of # Null
      BY <1>3, <2>2, <3>2, RowsAssumption DEF MongoMatches
    <3>4. SqlTrue(Cells(k, row), f)
      BY <1>3, <3>1, <3>2, <3>3 DEF SqlTrue, MongoCompare, Rhs, Compare
    <3> QED BY <3>1, <3>4
  <2> QED BY <2>1, <2>2
<1> QED BY <1>1, <1>2, <1>3 DEF SqlMatches

-----------------------------------------------------------------------------
(* The nearest rows.                                                        *)

\* T is what may be answered of S: rows of it, and none left out that is nearer.
Near(T, S, rank) == T \subseteq S /\ \A i \in T, j \in S \ T : rank[i] <= rank[j]

LEMMA NearTop ==
    ASSUME NEW S, NEW n, NEW rank, NEW T \in Top(S, n, rank)
    PROVE  Near(T, S, rank)
BY DEF Top, Near

LEMMA NearLimited ==
    ASSUME NEW S, NEW rank, NEW T, Near(T, S, rank), NEW n, NEW U \in Top(T, n, rank)
    PROVE  Near(U, S, rank)
BY DEF Top, Near

LEMMA NearFiltered ==
    ASSUME NEW S, NEW rank, NEW T, Near(T, S, rank), NEW K
    PROVE  Near(T \cap K, S \cap K, rank)
BY DEF Near

LEMMA LookIs ==
    ASSUME NEW l \in Look
    PROVE  /\ l.inline \in Seq(Filter) /\ l.where \in Seq(Filter)
           /\ l.n \in Nat /\ l.limit \in Nat \cup {Null} /\ l.fn \in {"knn", "fts"}
           /\ Range(l.inline) \subseteq Filter /\ Range(l.where) \subseteq Filter
           /\ Range(<<>>) = {} /\ <<>> \in Seq(Filter)
<1>1. l.inline \in Seq(Filter) /\ l.where \in Seq(Filter)
  BY SearchAssumption
<1> QED BY <1>1, SearchAssumption DEF Range

Satisfying(G, t, rank) == {k \in Ranked(rank) : SqlMatches(k, t[k], G)}

LEMMA OneGroup ==
    ASSUME NEW G, NEW t, NEW rank
    PROVE  Kept({G}, t, rank) = Satisfying(G, t, rank)
BY DEF Kept, Satisfying

\* Two filters one after the other.
LEMMA KeptTwice ==
    ASSUME NEW F, NEW G, NEW t, NEW rank
    PROVE  Satisfying(F, t, rank) \cap Satisfying(G, t, rank) = Satisfying(F \cup G, t, rank)
<1>1. \A k : SqlMatches(k, t[k], F) /\ SqlMatches(k, t[k], G) <=> SqlMatches(k, t[k], F \cup G)
  BY DEF SqlMatches
<1> QED BY <1>1 DEF Satisfying

LEMMA NearSqlite ==
    ASSUME NEW l \in Look, NEW t, NEW rank, Accepts("sqlite", l),
           NEW T \in IF l.fn = "knn" THEN SqliteKnnExec(l, t, rank) ELSE SqliteFtsExec(l, t, rank)
    PROVE  Near(T, Hits(l, t, rank), rank)
<1>1. Filters(l) = Range(l.where)
  BY LookIs DEF Accepts, SqliteKnn, SqliteFts, NoInline, Filters
<1>2. Hits(l, t, rank) = Satisfying(Range(l.where), t, rank)
  BY <1>1 DEF Hits, Satisfying
<1>3. CASE l.fn = "knn"
  <2> DEFINE F == Range(l.where) \ NotIndexed(l)
  <2>1. PICK U \in Top(Satisfying(F, t, rank), Limited(l), rank) :
           T = U \cap Satisfying(NotIndexed(l), t, rank)
    BY <1>3, OneGroup DEF SqliteKnnExec, SqliteKnnFilter
  <2>2. F \cup NotIndexed(l) = Range(l.where)
    BY DEF NotIndexed
  <2> HIDE DEF F
  <2>3. Satisfying(F, t, rank) \cap Satisfying(NotIndexed(l), t, rank) = Hits(l, t, rank)
    BY <1>2, <2>2, KeptTwice
  <2> DEFINE S == Satisfying(F, t, rank)
             K == Satisfying(NotIndexed(l), t, rank)
  <2>4. U \in Top(S, Limited(l), rank) /\ T = U \cap K /\ S \cap K = Hits(l, t, rank)
    BY <2>1, <2>3
  <2> HIDE DEF S, K
  <2>5. Near(U, S, rank)
    BY <2>4, NearTop
  <2>6. Near(U \cap K, S \cap K, rank)
    BY <2>5, NearFiltered
  <2> QED BY <2>4, <2>6
<1>4. CASE l.fn # "knn"
  BY <1>2, <1>4, OneGroup, NearTop DEF SqliteFtsExec, SqliteFtsFilter, Where
<1> QED BY <1>3, <1>4

\* What the groups of a text keep.
LEMMA KeptByGroups ==
    ASSUME NEW text \in Seq(Filter), NEW nested \in Seq(Filter), NEW t, NEW rank,
           \/ Len(text) = 1 /\ Range(nested) = {}
           \/ \A f \in Range(text) : f.op # "or"
    PROVE  Kept(Groups(text, nested), t, rank) = Satisfying(Range(text) \cup Range(nested), t, rank)
BY GroupsAreSql DEF Kept, Satisfying

\* A text sent as it is, without parts that stand in parentheses.
LEMMA KeptByText ==
    ASSUME NEW text \in Seq(Filter), NEW t, NEW rank,
           Len(text) = 1 \/ \A f \in Range(text) : f.op # "or"
    PROVE  Kept(Groups(text, <<>>), t, rank) = Satisfying(Range(text), t, rank)
<1>0. <<>> \in Seq(Filter) /\ Range(<<>>) = {}
  BY DEF Range
<1>1. PICK none \in Seq(Filter) : none = <<>>
  BY ONLY <1>0, Zenon
<1>4. Range(none) = {}
  BY ONLY <1>0, <1>1, Zenon
<1>2. Kept(Groups(text, none), t, rank) = Satisfying(Range(text) \cup Range(none), t, rank)
  <2>1. \/ Len(text) = 1 /\ Range(none) = {}
        \/ \A f \in Range(text) : f.op # "or"
    BY <1>4
  <2>2. text \in Seq(Filter) /\ none \in Seq(Filter)
    OBVIOUS
  <2> QED BY ONLY <2>1, <2>2, KeptByGroups
<1>3. Range(text) \cup Range(none) = Range(text)
  BY <1>4
<1> QED BY <1>1, <1>2, <1>3

\* With the WHERE clause Postgres is sent, the rows it keeps are those SQL asks for.
LEMMA PostgresKeeps ==
    ASSUME NEW l \in Look, NEW t, NEW rank, Accepts("postgres", l),
           FiltersFollowSql("postgres", l, t)
    PROVE  Kept(IF l.fn = "knn" THEN PgKnnFilter(l) ELSE PgFtsFilter(l), t, rank)
              = Hits(l, t, rank)
<1>1. Hits(l, t, rank) = Satisfying(Filters(l), t, rank)
  BY DEF Hits, Satisfying
<1>2. CASE l.fn = "knn"
  <2>1. Kept(PgKnnFilter(l), t, rank) = Satisfying(Filters(l), t, rank)
    BY LookIs, KeptByGroups DEF PgKnnFilter, FiltersFollowSql, Filters
  <2> QED BY <1>1, <1>2, <2>1
<1>3. CASE l.fn # "knn"
  <2>1. Filters(l) = Range(l.where)
    BY <1>3, LookIs DEF Accepts, PgKnn, PgFts, NoInline, Filters
  <2> QED BY <1>1, <1>3, <2>1, OneGroup DEF PgFtsFilter, Where
<1> QED BY <1>2, <1>3

LEMMA NearPostgres ==
    ASSUME NEW l \in Look, NEW t, NEW rank, Accepts("postgres", l),
           FiltersFollowSql("postgres", l, t),
           NEW T \in IF l.fn = "knn" THEN PgKnnExec(l, t, rank) ELSE PgFtsExec(l, t, rank)
    PROVE  Near(T, Hits(l, t, rank), rank)
<1>1. CASE l.fn = "knn"
  BY <1>1, PostgresKeeps, NearTop DEF PgKnnExec
<1>2. CASE l.fn # "knn"
  BY <1>2, PostgresKeeps, NearTop DEF PgFtsExec
<1> QED BY <1>1, <1>2

LEMMA NearSeekDb ==
    ASSUME NEW l \in Look, NEW t, NEW rank, Accepts("seekdb", l),
           NEW T \in IF l.fn = "knn" THEN SeekDbKnnExec(l, t, rank) ELSE SeekDbFtsExec(l, t, rank)
    PROVE  Near(T, Hits(l, t, rank), rank)
<1>1. Filters(l) = Range(l.where)
  BY LookIs DEF Accepts, SeekDbKnn, SeekDbFts, NoInline, Filters
<1>2. Hits(l, t, rank) = Satisfying(Range(l.where), t, rank)
  BY <1>1 DEF Hits, Satisfying
<1> QED BY <1>2, OneGroup, NearTop
        DEF SeekDbKnnExec, SeekDbFtsExec, SeekDbKnnFilter, SeekDbFtsFilter, Where

LEMMA RangeOfTwo ==
    ASSUME NEW f \in Seq(Filter), NEW g \in Seq(Filter)
    PROVE  f \o g \in Seq(Filter) /\ Len(f \o g) = Len(f) + Len(g)
           /\ Range(f \o g) = Range(f) \cup Range(g)
<1>1. f \o g \in Seq(Filter) /\ Len(f \o g) = Len(f) + Len(g)
  OBVIOUS
<1>2. ASSUME NEW e \in Range(f \o g) PROVE e \in Range(f) \cup Range(g)
  <2>1. PICK i \in 1..(Len(f) + Len(g)) : e = (f \o g)[i]
    BY <1>2 DEF Range
  <2>2. CASE i <= Len(f)
    BY <2>1, <2>2 DEF Range
  <2>3. CASE i > Len(f)
    <3>1. i - Len(f) \in 1..Len(g) /\ e = g[i - Len(f)]
      BY <2>1, <2>3
    <3> QED BY <3>1 DEF Range
  <2> QED BY <2>1, <2>2, <2>3
<1>3. ASSUME NEW e \in Range(f) PROVE e \in Range(f \o g)
  BY <1>3 DEF Range
<1>4. ASSUME NEW e \in Range(g) PROVE e \in Range(f \o g)
  <2>1. PICK i \in 1..Len(g) : e = g[i]
    BY <1>4 DEF Range
  <2>2. Len(f) + i \in 1..(Len(f) + Len(g)) /\ e = (f \o g)[Len(f) + i]
    BY <2>1
  <2> QED BY <2>2 DEF Range
<1> QED BY <1>1, <1>2, <1>3, <1>4

\* With the filter text Lance is sent, the rows it keeps are those SQL asks for.
LEMMA LanceKeeps ==
    ASSUME NEW l \in Look, NEW t, NEW rank, Accepts("lance", l),
           FiltersFollowSql("lance", l, t)
    PROVE  Kept(IF l.fn = "knn" THEN LanceKnnFilter(l) ELSE LanceFtsFilter(l), t, rank)
              = Hits(l, t, rank)
<1>1. Hits(l, t, rank) = Satisfying(Filters(l), t, rank)
  BY DEF Hits, Satisfying
<1>2. Len(l.inline) + Len(l.where) = 1 \/ \A f \in Filters(l) : f.op # "or"
  BY DEF FiltersFollowSql
<1>3. CASE l.fn = "knn"
  <2> DEFINE text == l.inline \o l.where
  <2>1. text \in Seq(Filter) /\ Len(text) = Len(l.inline) + Len(l.where) /\ Range(text) = Filters(l)
    BY LookIs, RangeOfTwo DEF Filters
  <2>2. LanceKnnFilter(l) = Groups(text, <<>>)
    BY DEF LanceKnnFilter
  <2> HIDE DEF text
  <2>3. Kept(Groups(text, <<>>), t, rank) = Satisfying(Range(text), t, rank)
    BY <1>2, <2>1, KeptByText
  <2> QED BY <1>1, <1>3, <2>1, <2>2, <2>3
<1>4. CASE l.fn # "knn"
  <2>1. Len(l.inline) = 0 /\ Filters(l) = Range(l.where)
    BY <1>4, LookIs DEF Accepts, LanceKnn, LanceFts, NoInline, Filters
  <2>2. Len(l.where) = 1 \/ \A f \in Range(l.where) : f.op # "or"
    BY <1>2, <2>1, LookIs
  <2>3. Kept(Groups(l.where, <<>>), t, rank) = Satisfying(Range(l.where), t, rank)
    BY <2>2, LookIs, KeptByText
  <2> QED BY <1>1, <1>4, <2>1, <2>3 DEF LanceFtsFilter
<1> QED BY <1>3, <1>4

LEMMA NearLance ==
    ASSUME NEW l \in Look, NEW t, NEW rank, Accepts("lance", l),
           FiltersFollowSql("lance", l, t),
           NEW T \in IF l.fn = "knn" THEN LanceKnnExec(l, t, rank) ELSE LanceFtsExec(l, t, rank)
    PROVE  Near(T, Hits(l, t, rank), rank)
<1>1. CASE l.fn = "knn"
  <2>1. PICK U \in Top(Ranked(rank), l.n, rank) : T = U \cap Hits(l, t, rank)
    BY <1>1, LanceKeeps DEF LanceKnnExec
  <2>2. Ranked(rank) \cap Hits(l, t, rank) = Hits(l, t, rank)
    BY DEF Hits
  <2>3. Near(U, Ranked(rank), rank)
    BY <2>1, NearTop
  <2>4. Near(U \cap Hits(l, t, rank), Ranked(rank) \cap Hits(l, t, rank), rank)
    BY <2>3, NearFiltered
  <2> QED BY <2>1, <2>2, <2>4
<1>2. CASE l.fn # "knn"
  BY <1>2, LanceKeeps, NearTop DEF LanceFtsExec
<1> QED BY <1>1, <1>2

\* What Mongo finds and DataFusion keeps of it.
LEMMA MongoHits ==
    ASSUME NEW l \in Look, NEW t, NEW v, Accepts("mongo", l), FiltersFollowSql("mongo", l, t)
    PROVE  LET rank == Rank(l, t, v)
           IN  {k \in Ranked(rank) : MongoMatches(k, t[k], MongoFtsFilter(l))}
                  \cap {k \in Key : SqlMatches(k, t[k], NotPushed(l))} = Hits(l, t, rank)
<1> DEFINE rank == Rank(l, t, v)
<1>1. Filters(l) = Range(l.where) /\ Filters(l) \in SUBSET Filter
  BY LookIs DEF Accepts, MongoFts, NoInline, Filters
<1>2. ASSUME NEW k \in Ranked(rank)
      PROVE  MongoMatches(k, t[k], MongoFtsFilter(l)) /\ SqlMatches(k, t[k], NotPushed(l))
                <=> SqlMatches(k, t[k], Filters(l))
  <2>1. k \in Present(t)
    BY <1>2 DEF Ranked, Rank, Present
  <2>2. \A f \in Filters(l) : f.op = "<>" => Cells(k, t[k])[f.col] # Null
    BY <2>1 DEF FiltersFollowSql
  <2>3. MongoFtsFilter(l) = Pushable(Filters(l)) /\ NotPushed(l) = Filters(l) \ Pushable(Filters(l))
    BY <1>1 DEF MongoFtsFilter, NotPushed
  <2> QED BY <1>1, <2>2, <2>3, PushedAndNotPushed
<1> HIDE DEF rank
<1>3. {k \in Ranked(rank) : MongoMatches(k, t[k], MongoFtsFilter(l))}
         \cap {k \in Key : SqlMatches(k, t[k], NotPushed(l))} = Hits(l, t, rank)
  BY <1>2 DEF Hits, Ranked
<1> QED BY <1>3 DEF rank

LEMMA NearMongo ==
    ASSUME NEW l \in Look, NEW t, NEW v, Accepts("mongo", l), FiltersFollowSql("mongo", l, t),
           NEW T \in MongoFtsExec(l, t, Rank(l, t, v))
    PROVE  Near(T, Hits(l, t, Rank(l, t, v)), Rank(l, t, v))
<1> DEFINE rank == Rank(l, t, v)
           hits == {k \in Ranked(rank) : MongoMatches(k, t[k], MongoFtsFilter(l))}
           rest == {k \in Key : SqlMatches(k, t[k], NotPushed(l))}
           own  == IF l.n = 0 THEN 1 ELSE l.n
<1>1. PICK U \in Top(hits, own, rank) : T = {k \in U : SqlMatches(k, t[k], NotPushed(l))}
  BY DEF MongoFtsExec
<1>2. hits \cap rest = Hits(l, t, rank)
  BY MongoHits
<1>3. hits \subseteq Key
  BY DEF Ranked
<1> HIDE DEF hits, rank, own
<1>4. Near(U, hits, rank)
  BY <1>1, NearTop
<1>5. T = U \cap rest
  BY <1>1, <1>3, <1>4 DEF Near
<1> HIDE DEF rest
<1>6. Near(T, Hits(l, t, rank), rank)
  BY <1>2, <1>4, <1>5, NearFiltered
<1> QED BY <1>6 DEF rank

LEMMA NearAnswers ==
    ASSUME NEW p \in Provider, NEW l \in Look, NEW t, NEW v, Accepts(p, l), FiltersFollowSql(p, l, t),
           NEW U \in AnswersOf(p, l, t, v)
    PROVE  Near(U, Hits(l, t, Rank(l, t, v)), Rank(l, t, v))
<1> DEFINE rank == Rank(l, t, v)
<1>1. p \in {"sqlite", "postgres", "seekdb", "lance", "mongo"}
  BY StatementAssumption DEF Accepts
<1>2. CASE p = "sqlite"
  <2>1. PICK T \in IF l.fn = "knn" THEN SqliteKnnExec(l, t, rank) ELSE SqliteFtsExec(l, t, rank) :
           U \in Top(T, l.limit, rank)
    BY <1>2 DEF AnswersOf
  <2> HIDE DEF rank
  <2>2. Near(T, Hits(l, t, rank), rank)
    BY <1>2, <2>1, NearSqlite
  <2>3. Near(U, Hits(l, t, rank), rank)
    BY <2>1, <2>2, NearLimited
  <2> QED BY <2>3 DEF rank
<1>3. CASE p = "postgres"
  <2>1. PICK T \in IF l.fn = "knn" THEN PgKnnExec(l, t, rank) ELSE PgFtsExec(l, t, rank) :
           U \in Top(T, l.limit, rank)
    BY <1>3 DEF AnswersOf
  <2> HIDE DEF rank
  <2>2. Near(T, Hits(l, t, rank), rank)
    BY <1>3, <2>1, NearPostgres
  <2>3. Near(U, Hits(l, t, rank), rank)
    BY <2>1, <2>2, NearLimited
  <2> QED BY <2>3 DEF rank
<1>4. CASE p = "seekdb"
  <2>1. PICK T \in IF l.fn = "knn" THEN SeekDbKnnExec(l, t, rank) ELSE SeekDbFtsExec(l, t, rank) :
           U \in Top(T, l.limit, rank)
    BY <1>4 DEF AnswersOf
  <2> HIDE DEF rank
  <2>2. Near(T, Hits(l, t, rank), rank)
    BY <1>4, <2>1, NearSeekDb
  <2>3. Near(U, Hits(l, t, rank), rank)
    BY <2>1, <2>2, NearLimited
  <2> QED BY <2>3 DEF rank
<1>5. CASE p = "lance"
  <2>1. PICK T \in IF l.fn = "knn" THEN LanceKnnExec(l, t, rank) ELSE LanceFtsExec(l, t, rank) :
           U \in Top(T, l.limit, rank)
    BY <1>5 DEF AnswersOf
  <2> HIDE DEF rank
  <2>2. Near(T, Hits(l, t, rank), rank)
    BY <1>5, <2>1, NearLance
  <2>3. Near(U, Hits(l, t, rank), rank)
    BY <2>1, <2>2, NearLimited
  <2> QED BY <2>3 DEF rank
<1>6. CASE p = "mongo"
  <2>1. PICK T \in MongoFtsExec(l, t, rank) : U \in Top(T, l.limit, rank)
    BY <1>6 DEF AnswersOf
  <2>2. Near(T, Hits(l, t, rank), rank)
    BY <1>6, <2>1, NearMongo
  <2> HIDE DEF rank
  <2>3. Near(U, Hits(l, t, rank), rank)
    BY <2>1, <2>2, NearLimited
  <2> QED BY <2>3 DEF rank
<1> QED BY <1>1, <1>2, <1>3, <1>4, <1>5, <1>6

-----------------------------------------------------------------------------
(* How long an answer is.                                                   *)

\* The lower of two limits, either of which may be missing.
Lower(m, n) == IF n = Null THEN m ELSE IF m # Null /\ m < n THEN m ELSE n

LEMMA FiniteRows ==
    ASSUME NEW S \in SUBSET Key, NEW T \in SUBSET S
    PROVE  /\ Cardinality(S) \in Nat /\ Cardinality(T) \in Nat
           /\ Cardinality(T) <= Cardinality(S)
<1>1. IsFiniteSet(Key)
  BY SearchAssumption
<1>2. IsFiniteSet(S)
  BY <1>1, FS_Subset
<1>3. IsFiniteSet(T) /\ Cardinality(T) <= Cardinality(S)
  BY <1>2, FS_Subset
<1> QED BY <1>2, <1>3, FS_CardinalityType

LEMMA CappedIs ==
    ASSUME NEW S \in SUBSET Key, NEW n \in Nat \cup {Null}
    PROVE  /\ Capped(n, S) \in Nat /\ Capped(n, S) <= Cardinality(S)
           /\ n = Null => Capped(n, S) = Cardinality(S)
           /\ n # Null => n \in Nat /\ Capped(n, S) <= n
                          /\ (Capped(n, S) = n \/ Capped(n, S) = Cardinality(S))
BY FiniteRows, SearchAssumption DEF Capped

\* What two limits leave of S is what the lower leaves.
LEMMA TopOfTop ==
    ASSUME NEW S \in SUBSET Key, NEW n \in Nat \cup {Null}, NEW m \in Nat \cup {Null},
           NEW rank, NEW T \in Top(S, n, rank), NEW U \in Top(T, m, rank)
    PROVE  Cardinality(U) = Capped(Lower(m, n), S)
<1>1. T \in SUBSET S /\ U \in SUBSET T /\ T \in SUBSET Key
  BY DEF Top
<1>2. Cardinality(T) = Capped(n, S) /\ Cardinality(U) = Capped(m, T)
  BY DEF Top
<1>3. Cardinality(S) \in Nat /\ Cardinality(T) \in Nat /\ Cardinality(U) \in Nat
  BY <1>1, FiniteRows
<1> QED BY <1>2, <1>3, SearchAssumption DEF Capped, Lower

\* An answer is no longer than the lower limit, whatever is filtered in between.
LEMMA TopOfSome ==
    ASSUME NEW n \in Nat \cup {Null}, NEW m \in Nat \cup {Null}, NEW rank,
           NEW T \in SUBSET Key, Cardinality(T) <= Capped(n, Key), NEW U \in Top(T, m, rank)
    PROVE  Cardinality(U) <= Capped(Lower(m, n), Key)
<1>1. U \in SUBSET T /\ Cardinality(U) = Capped(m, T)
  BY DEF Top
<1>2. Cardinality(Key) \in Nat /\ Cardinality(T) \in Nat /\ Cardinality(U) \in Nat
      /\ Cardinality(T) <= Cardinality(Key)
  BY <1>1, FiniteRows
<1> QED BY <1>1, <1>2, SearchAssumption DEF Capped, Lower

\* Some of the first n rows of S are no more than n.
LEMMA SomeOfTop ==
    ASSUME NEW S \in SUBSET Key, NEW n \in Nat \cup {Null}, NEW rank,
           NEW V \in Top(S, n, rank), NEW T \in SUBSET V
    PROVE  T \in SUBSET Key /\ Cardinality(T) <= Capped(n, Key)
<1>1. V \in SUBSET S /\ V \in SUBSET Key /\ T \in SUBSET Key /\ Cardinality(V) = Capped(n, S)
  BY DEF Top
<1>2. /\ Cardinality(S) \in Nat /\ Cardinality(Key) \in Nat /\ Cardinality(S) <= Cardinality(Key)
      /\ Cardinality(T) \in Nat /\ Cardinality(V) \in Nat /\ Cardinality(T) <= Cardinality(V)
  BY <1>1, FiniteRows
<1> QED BY <1>1, <1>2, SearchAssumption DEF Capped

\* What a function hands to LIMIT: with LIMIT it is no more than the query asks for, and
\* where filters are the provider's, the first of all hits.
Sized(T, p, l, t, rank) ==
    \E n \in Nat \cup {Null} :
       /\ Lower(l.limit, n) = AskedFor(p, l)
       /\ T \in SUBSET Key /\ Cardinality(T) <= Capped(n, Key)
       /\ FiltersFollowSql(p, l, t) /\ ~FiltersFound(p, l) => T \in Top(Hits(l, t, rank), n, rank)

\* The first n of what is kept, if that is what the query asks for.
LEMMA SizedTop ==
    ASSUME NEW p, NEW l, NEW t, NEW rank, NEW n \in Nat \cup {Null}, NEW S \in SUBSET Key,
           NEW T \in Top(S, n, rank), Lower(l.limit, n) = AskedFor(p, l),
           FiltersFollowSql(p, l, t) => S = Hits(l, t, rank)
    PROVE  Sized(T, p, l, t, rank)
<1>1. T \in SUBSET Key /\ Cardinality(T) <= Capped(n, Key)
  BY SomeOfTop
<1> QED BY <1>1 DEF Sized

\* Of the first n of what is found, those that pass what is filtered afterwards.
LEMMA SizedFiltered ==
    ASSUME NEW p, NEW l, NEW t, NEW rank, NEW n \in Nat \cup {Null}, NEW S \in SUBSET Key,
           NEW V \in Top(S, n, rank), NEW T \in SUBSET V, Lower(l.limit, n) = AskedFor(p, l),
           FiltersFollowSql(p, l, t) /\ ~FiltersFound(p, l) => S = Hits(l, t, rank) /\ T = V
    PROVE  Sized(T, p, l, t, rank)
<1>1. T \in SUBSET Key /\ Cardinality(T) <= Capped(n, Key)
  BY SomeOfTop
<1> QED BY <1>1 DEF Sized

LEMMA LowerIs ==
    ASSUME NEW l \in Look
    PROVE  /\ l.n \in Nat \cup {Null} /\ Limited(l) \in Nat \cup {Null}
           /\ l.limit \in Nat \cup {Null} /\ Null \notin Nat
           /\ Lower(l.limit, l.n) = Limited(l) /\ Lower(l.limit, Limited(l)) = Limited(l)
           /\ Lower(l.limit, Null) = l.limit
           /\ Lower(l.limit, 1) = IF l.limit = 0 THEN 0 ELSE 1
BY LookIs, SearchAssumption DEF Lower, Limited

LEMMA AskedForIs ==
    ASSUME NEW l \in Look
    PROVE  /\ \A p \in {"sqlite", "postgres", "seekdb"} : AskedFor(p, l) = Limited(l)
           /\ AskedFor("mongo", l) = Lower(l.limit, IF l.n = 0 THEN 1 ELSE l.n)
           /\ AskedFor("lance", l) =
                 Lower(l.limit, IF l.fn = "fts" /\ l.where # <<>> THEN Null ELSE l.n)
BY LowerIs DEF AskedFor

LEMMA KeptKeys ==
    ASSUME NEW groups, NEW t, NEW rank, NEW l
    PROVE  /\ Kept(groups, t, rank) \in SUBSET Key /\ Ranked(rank) \in SUBSET Key
           /\ Hits(l, t, rank) \in SUBSET Key
BY DEF Kept, Ranked, Hits

LEMMA SizedSqlite ==
    ASSUME NEW l \in Look, NEW t, NEW rank, Accepts("sqlite", l),
           NEW T \in IF l.fn = "knn" THEN SqliteKnnExec(l, t, rank) ELSE SqliteFtsExec(l, t, rank)
    PROVE  Sized(T, "sqlite", l, t, rank)
<1>1. Filters(l) = Range(l.where)
  BY LookIs DEF Accepts, SqliteKnn, SqliteFts, NoInline, Filters
<1>2. Hits(l, t, rank) = Satisfying(Range(l.where), t, rank)
  BY <1>1 DEF Hits, Satisfying
<1>3. Lower(l.limit, Limited(l)) = AskedFor("sqlite", l) /\ Limited(l) \in Nat \cup {Null}
  BY LowerIs, AskedForIs
<1>4. CASE l.fn = "knn"
  <2> DEFINE S == Kept(SqliteKnnFilter(l), t, rank)
             K == Kept({NotIndexed(l)}, t, rank)
  <2>1. PICK V \in Top(S, Limited(l), rank) : T = V \cap K
    BY <1>4 DEF SqliteKnnExec
  <2>2. ASSUME ~FiltersFound("sqlite", l) PROVE S = Hits(l, t, rank) /\ S \subseteq K
    <3>1. NotIndexed(l) = {}
      BY <1>4, <2>2 DEF FiltersFound
    <3>2. S = Satisfying(Range(l.where), t, rank)
      BY <3>1, OneGroup DEF SqliteKnnFilter
    <3>3. K = Satisfying({}, t, rank)
      BY <3>1, OneGroup
    <3>4. S \subseteq K
      BY <3>2, <3>3 DEF Satisfying, SqlMatches
    <3> QED BY <1>2, <3>2, <3>4
  <2>3. S \in SUBSET Key
    BY KeptKeys
  <2> HIDE DEF S, K
  <2>4. V \subseteq S
    BY <2>1 DEF Top
  <2>5. ~FiltersFound("sqlite", l) => S = Hits(l, t, rank) /\ T = V
    BY <2>1, <2>2, <2>4
  <2> QED BY <1>3, <2>1, <2>3, <2>5, SizedFiltered
<1>5. CASE l.fn # "knn"
  <2>1. Kept(SqliteFtsFilter(l), t, rank) = Hits(l, t, rank)
    BY <1>2, OneGroup DEF SqliteFtsFilter, Where
  <2>2. T \in Top(Hits(l, t, rank), Limited(l), rank)
    BY <1>5, <2>1 DEF SqliteFtsExec
  <2> QED BY <1>3, <2>2, KeptKeys, SizedTop
<1> QED BY <1>4, <1>5

LEMMA SizedPostgres ==
    ASSUME NEW l \in Look, NEW t, NEW rank, Accepts("postgres", l),
           NEW T \in IF l.fn = "knn" THEN PgKnnExec(l, t, rank) ELSE PgFtsExec(l, t, rank)
    PROVE  Sized(T, "postgres", l, t, rank)
<1> DEFINE S == Kept(IF l.fn = "knn" THEN PgKnnFilter(l) ELSE PgFtsFilter(l), t, rank)
           n == IF l.fn = "knn" THEN l.n ELSE Limited(l)
<1>1. T \in Top(S, n, rank)
  BY DEF PgKnnExec, PgFtsExec
<1>2. FiltersFollowSql("postgres", l, t) => S = Hits(l, t, rank)
  BY PostgresKeeps
<1>3. n \in Nat \cup {Null} /\ Lower(l.limit, n) = AskedFor("postgres", l)
  BY LowerIs, AskedForIs
<1>4. S \in SUBSET Key
  BY KeptKeys
<1> HIDE DEF S, n
<1> QED BY <1>1, <1>2, <1>3, <1>4, SizedTop

LEMMA SizedSeekDb ==
    ASSUME NEW l \in Look, NEW t, NEW rank, Accepts("seekdb", l),
           NEW T \in IF l.fn = "knn" THEN SeekDbKnnExec(l, t, rank) ELSE SeekDbFtsExec(l, t, rank)
    PROVE  Sized(T, "seekdb", l, t, rank)
<1> DEFINE n == IF l.fn = "knn" THEN l.n ELSE Limited(l)
<1>1. Filters(l) = Range(l.where)
  BY LookIs DEF Accepts, SeekDbKnn, SeekDbFts, NoInline, Filters
<1>2. Hits(l, t, rank) = Kept({Range(l.where)}, t, rank)
  BY <1>1, OneGroup DEF Hits, Satisfying
<1>3. T \in Top(Hits(l, t, rank), n, rank)
  BY <1>2 DEF SeekDbKnnExec, SeekDbFtsExec, SeekDbKnnFilter, SeekDbFtsFilter, Where
<1>4. n \in Nat \cup {Null} /\ Lower(l.limit, n) = AskedFor("seekdb", l)
  BY LowerIs, AskedForIs
<1> HIDE DEF n
<1> QED BY <1>3, <1>4, KeptKeys, SizedTop

LEMMA SizedLance ==
    ASSUME NEW l \in Look, NEW t, NEW rank, Accepts("lance", l),
           NEW T \in IF l.fn = "knn" THEN LanceKnnExec(l, t, rank) ELSE LanceFtsExec(l, t, rank)
    PROVE  Sized(T, "lance", l, t, rank)
<1>1. CASE l.fn = "knn"
  <2> DEFINE S == Ranked(rank)
             K == Kept(LanceKnnFilter(l), t, rank)
  <2>1. PICK V \in Top(S, l.n, rank) : T = V \cap K
    BY <1>1 DEF LanceKnnExec
  <2>2. ASSUME FiltersFollowSql("lance", l, t), ~FiltersFound("lance", l)
        PROVE  S = Hits(l, t, rank) /\ S = K
    <3>1. Filters(l) = {}
      BY <1>1, <2>2 DEF FiltersFound
    <3>2. Hits(l, t, rank) = S
      BY <3>1 DEF Hits, SqlMatches
    <3>3. K = Hits(l, t, rank)
      BY <1>1, <2>2, LanceKeeps
    <3> QED BY <3>2, <3>3
  <2>3. S \in SUBSET Key
    BY KeptKeys
  <2>4. l.n \in Nat \cup {Null} /\ Lower(l.limit, l.n) = AskedFor("lance", l)
    BY <1>1, LowerIs, AskedForIs
  <2> HIDE DEF S, K
  <2>5. V \subseteq S
    BY <2>1 DEF Top
  <2>6. FiltersFollowSql("lance", l, t) /\ ~FiltersFound("lance", l)
           => S = Hits(l, t, rank) /\ T = V
    BY <2>1, <2>2, <2>5
  <2> QED BY <2>1, <2>3, <2>4, <2>6, SizedFiltered
<1>2. CASE l.fn # "knn"
  <2> DEFINE S == Kept(LanceFtsFilter(l), t, rank)
             n == IF l.where = <<>> THEN l.n ELSE Null
  <2>1. T \in Top(S, n, rank)
    BY <1>2 DEF LanceFtsExec
  <2>2. FiltersFollowSql("lance", l, t) => S = Hits(l, t, rank)
    BY <1>2, LanceKeeps
  <2>3. l.fn = "fts"
    BY <1>2, LookIs
  <2>4. n \in Nat \cup {Null} /\ Lower(l.limit, n) = AskedFor("lance", l)
    BY <2>3, LowerIs, AskedForIs
  <2>5. S \in SUBSET Key
    BY KeptKeys
  <2> HIDE DEF S, n
  <2> QED BY <2>1, <2>2, <2>4, <2>5, SizedTop
<1> QED BY <1>1, <1>2

LEMMA SizedMongo ==
    ASSUME NEW l \in Look, NEW t, NEW v, Accepts("mongo", l),
           NEW T \in MongoFtsExec(l, t, Rank(l, t, v))
    PROVE  Sized(T, "mongo", l, t, Rank(l, t, v))
<1> DEFINE rank == Rank(l, t, v)
           hits == {k \in Ranked(rank) : MongoMatches(k, t[k], MongoFtsFilter(l))}
           own  == IF l.n = 0 THEN 1 ELSE l.n
<1>1. PICK U \in Top(hits, own, rank) : T = {k \in U : SqlMatches(k, t[k], NotPushed(l))}
  BY DEF MongoFtsExec
<1>2. hits \in SUBSET Key
  BY DEF Ranked
<1>3. ASSUME FiltersFollowSql("mongo", l, t), ~FiltersFound("mongo", l)
      PROVE  hits = Hits(l, t, rank) /\ T = U
  <2>1. NotPushed(l) = {}
    BY <1>3 DEF FiltersFound
  <2>2. \A k : SqlMatches(k, t[k], NotPushed(l))
    BY <2>1 DEF SqlMatches
  <2>3. hits \cap {k \in Key : SqlMatches(k, t[k], NotPushed(l))} = Hits(l, t, rank)
    BY <1>3, MongoHits
  <2> HIDE DEF hits, rank
  <2> QED BY <1>1, <1>2, <2>2, <2>3
<1>4. own \in Nat \cup {Null} /\ Lower(l.limit, own) = AskedFor("mongo", l)
  BY LowerIs, AskedForIs
<1>5. T \in SUBSET U
  BY <1>1
<1> HIDE DEF hits, rank, own
<1>6. Sized(T, "mongo", l, t, rank)
  BY <1>1, <1>2, <1>3, <1>4, <1>5, SizedFiltered
<1> QED BY <1>6 DEF rank

\* An answer is as long as the query asks for.
Full(U, p, l, t, rank) ==
    /\ Cardinality(U) <= Capped(AskedFor(p, l), Key)
    /\ \/ ~FiltersFollowSql(p, l, t)
       \/ FiltersFound(p, l)
       \/ Cardinality(U) = Capped(AskedFor(p, l), Hits(l, t, rank))

LEMMA SizedFull ==
    ASSUME NEW p, NEW l \in Look, NEW t, NEW rank, NEW T, Sized(T, p, l, t, rank),
           NEW U \in Top(T, l.limit, rank)
    PROVE  Full(U, p, l, t, rank)
<1>1. PICK n \in Nat \cup {Null} :
         /\ Lower(l.limit, n) = AskedFor(p, l)
         /\ T \in SUBSET Key /\ Cardinality(T) <= Capped(n, Key)
         /\ FiltersFollowSql(p, l, t) /\ ~FiltersFound(p, l) => T \in Top(Hits(l, t, rank), n, rank)
  BY DEF Sized
<1>2. l.limit \in Nat \cup {Null}
  BY LookIs
<1>3. Cardinality(U) <= Capped(AskedFor(p, l), Key)
  BY <1>1, <1>2, TopOfSome
<1>4. ASSUME FiltersFollowSql(p, l, t), ~FiltersFound(p, l)
      PROVE  Cardinality(U) = Capped(AskedFor(p, l), Hits(l, t, rank))
  <2>1. Hits(l, t, rank) \in SUBSET Key
    BY KeptKeys
  <2>2. T \in Top(Hits(l, t, rank), n, rank)
    BY <1>1, <1>4
  <2>3. Cardinality(U) = Capped(Lower(l.limit, n), Hits(l, t, rank))
    BY <1>2, <2>1, <2>2, TopOfTop
  <2> QED BY <1>1, <2>3
<1> QED BY <1>3, <1>4 DEF Full

LEMMA FullAnswers ==
    ASSUME NEW p \in Provider, NEW l \in Look, NEW t, NEW v, Accepts(p, l),
           NEW U \in AnswersOf(p, l, t, v)
    PROVE  Full(U, p, l, t, Rank(l, t, v))
<1> DEFINE rank == Rank(l, t, v)
<1>1. p \in {"sqlite", "postgres", "seekdb", "lance", "mongo"}
  BY StatementAssumption DEF Accepts
<1>2. PICK T : Sized(T, p, l, t, rank) /\ U \in Top(T, l.limit, rank)
  <2>1. CASE p = "sqlite"
    <3>1. PICK T \in IF l.fn = "knn" THEN SqliteKnnExec(l, t, rank) ELSE SqliteFtsExec(l, t, rank) :
             U \in Top(T, l.limit, rank)
      BY <2>1 DEF AnswersOf
    <3> HIDE DEF rank
    <3> QED BY <2>1, <3>1, SizedSqlite
  <2>2. CASE p = "postgres"
    <3>1. PICK T \in IF l.fn = "knn" THEN PgKnnExec(l, t, rank) ELSE PgFtsExec(l, t, rank) :
             U \in Top(T, l.limit, rank)
      BY <2>2 DEF AnswersOf
    <3> HIDE DEF rank
    <3> QED BY <2>2, <3>1, SizedPostgres
  <2>3. CASE p = "seekdb"
    <3>1. PICK T \in IF l.fn = "knn" THEN SeekDbKnnExec(l, t, rank) ELSE SeekDbFtsExec(l, t, rank) :
             U \in Top(T, l.limit, rank)
      BY <2>3 DEF AnswersOf
    <3> HIDE DEF rank
    <3> QED BY <2>3, <3>1, SizedSeekDb
  <2>4. CASE p = "lance"
    <3>1. PICK T \in IF l.fn = "knn" THEN LanceKnnExec(l, t, rank) ELSE LanceFtsExec(l, t, rank) :
             U \in Top(T, l.limit, rank)
      BY <2>4 DEF AnswersOf
    <3> HIDE DEF rank
    <3> QED BY <2>4, <3>1, SizedLance
  <2>5. CASE p = "mongo"
    <3>1. PICK T \in MongoFtsExec(l, t, rank) : U \in Top(T, l.limit, rank)
      BY <2>5 DEF AnswersOf
    <3>2. Sized(T, "mongo", l, t, rank)
      BY <2>5, <3>1, SizedMongo
    <3> HIDE DEF rank
    <3> QED BY <2>5, <3>1, <3>2
  <2> QED BY <1>1, <2>1, <2>2, <2>3, <2>4, <2>5
<1> HIDE DEF rank
<1>3. Full(U, p, l, t, rank)
  BY <1>2, SizedFull
<1> QED BY <1>3 DEF rank

-----------------------------------------------------------------------------
(* The inductive invariant of the searches.                                 *)

SearchShapes ==
    /\ DOMAIN at = Searcher /\ DOMAIN vector = Searcher
    /\ DOMAIN answer = Searcher /\ DOMAIN still = Searcher
    /\ look \in [Searcher -> Look \cup {NoLook}]

\* A search that is under way is one its function accepts, and once it has its vector, that
\* is the one the query means.
Sought(x) ==
    at[x] \in {"fetching", "searching"} =>
       /\ look[x] \in Look /\ Accepts(provider, look[x])
       /\ at[x] = "fetching" => look[x].of.kind = "row"
       /\ at[x] = "searching" => vector[x] = Meant(x, Searched)

SearchInv == IInv /\ SearchShapes /\ \A x \in Searcher : Sought(x)

LEMMA InitSearchInv == SearchInit => SearchInv
<1> SUFFICES ASSUME SearchInit PROVE SearchInv
  OBVIOUS
<1>1. IInv
  BY InitIInv DEF SearchInit
<1>2. SearchShapes
  <2>1. PICK w \in Together : look = w[3]
    BY DEF SearchInit
  <2>2. look \in [Searcher -> Look \cup {NoLook}]
    BY <2>1, SearchAssumption
  <2> QED BY <2>2 DEF SearchInit, SearchShapes
<1>3. \A x \in Searcher : Sought(x)
  BY DEF SearchInit, Sought
<1> QED BY <1>1, <1>2, <1>3 DEF SearchInv

LEMMA ProviderStays == IInv /\ [Next]_vars => provider' = provider
<1> SUFFICES ASSUME IInv, [Next]_vars PROVE provider' = provider
  OBVIOUS
<1>1. CASE Outside
  BY <1>1 DEF Outside
<1>2. CASE UNCHANGED vars
  BY <1>2 DEF vars, stores
<1>3. ASSUME NEW s \in Stmt, Begin(s) \/ Works(s) \/ Fails(s) PROVE provider' = provider
  BY <1>3, StepFrame DEF Good, Frame
<1> QED BY <1>1, <1>2, <1>3 DEF Next

\* Others write what is searched only by telling the searches.
LEMMA WriteKeepsSought ==
    ASSUME SearchInv, WriteStep
    PROVE  SearchInv'
<1>1. IInv' /\ provider' = provider
  BY StepIInv, ProviderStays DEF SearchInv, WriteStep
<1>2. SearchShapes'
  BY DEF SearchInv, SearchShapes, WriteStep
<1>3. ASSUME NEW x \in Searcher PROVE Sought(x)'
  <2>1. /\ at' = at /\ look' = look /\ vector' = vector /\ opened' = opened
        /\ still'[x] => still[x] /\ (provider = "lance" \/ table' = table)
    BY DEF WriteStep
  <2>2. still'[x] => still[x] /\ Searched' = Searched
    BY <1>1, <2>1 DEF Searched
  <2>3. Sought(x)
    BY DEF SearchInv
  <2> HIDE DEF Searched
  <2>4. vector[x] = Meant(x, Searched) => vector'[x] = Meant(x, Searched)'
    BY <2>1, <2>2 DEF Meant
  <2> QED BY <1>1, <2>1, <2>3, <2>4 DEF Sought
<1> QED BY <1>1, <1>2, <1>3 DEF SearchInv

LEMMA SearchKeeps ==
    ASSUME SearchInv, NEW x \in Searcher, SearchStep(x)
    PROVE  /\ IInv' /\ SearchShapes' /\ provider' = provider /\ table' = table
           /\ Searched' = Searched /\ look' = look
           /\ \A y \in Searcher \ {x} : at'[y] = at[y] /\ vector'[y] = vector[y]
                                        /\ still'[y] = still[y] /\ answer'[y] = answer[y]
<1>1. UNCHANGED <<vars, opened, look>>
  BY DEF SearchStep, SearchPlan, FetchVector, RunSearch, SearchFails
<1>2. IInv'
  BY <1>1, StepIInv DEF SearchInv
<1>3. provider' = provider /\ table' = table /\ opened' = opened /\ look' = look
  BY <1>1 DEF vars, stores
<1>4. SearchShapes'
  BY <1>3 DEF SearchInv, SearchShapes, SearchStep, SearchPlan, FetchVector, RunSearch, SearchFails, Set
<1>5. \A y \in Searcher \ {x} : at'[y] = at[y] /\ vector'[y] = vector[y]
                                /\ still'[y] = still[y] /\ answer'[y] = answer[y]
  BY DEF SearchInv, SearchShapes, SearchStep, SearchPlan, FetchVector, RunSearch, SearchFails, Set
<1> QED BY <1>2, <1>3, <1>4, <1>5 DEF Searched

LEMMA SearchKeepsSought ==
    ASSUME SearchInv, NEW x \in Searcher, SearchStep(x)
    PROVE  SearchInv'
<1>1. /\ IInv' /\ SearchShapes' /\ provider' = provider /\ table' = table
      /\ Searched' = Searched /\ look' = look
  BY SearchKeeps
<1>2. ASSUME NEW y \in Searcher \ {x} PROVE Sought(y)'
  <2>1. at'[y] = at[y] /\ vector'[y] = vector[y] /\ still'[y] = still[y] /\ Sought(y)
    BY SearchKeeps DEF SearchInv
  <2> HIDE DEF Searched
  <2>2. Meant(y, Searched)' = Meant(y, Searched)
    BY <1>1, <2>1 DEF Meant
  <2> QED BY <1>1, <2>1, <2>2 DEF Sought
<1>3. Sought(x)'
  <2> DEFINE cell == Searched[look[x].of.of][look[x].col]
  <2>1. x \in DOMAIN at /\ x \in DOMAIN vector /\ x \in DOMAIN still /\ Sought(x)
    BY DEF SearchInv, SearchShapes
  <2>2. CASE SearchPlan(x)
    <3>1. look[x] \in Look
      BY <2>2 DEF SearchPlan, SearchInv, SearchShapes
    <3>2. CASE Accepts(provider, look[x]) /\ look[x].of.kind = "row" /\ at' = Set(at, x, "fetching")
      <4>1. at'[x] = "fetching"
        BY <2>1, <3>2 DEF Set
      <4> QED BY <1>1, <3>1, <3>2, <4>1 DEF Sought
    <3>3. CASE /\ Accepts(provider, look[x]) /\ look[x].of.kind = "literal"
               /\ at' = Set(at, x, "searching") /\ vector' = Set(vector, x, look[x].of.of)
      <4>1. at'[x] = "searching" /\ vector'[x] = look[x].of.of
        BY <2>1, <3>3 DEF Set
      <4>2. Meant(x, Searched)' = look[x].of.of
        BY <1>1, <3>3 DEF Meant
      <4> QED BY <1>1, <3>1, <3>3, <4>1, <4>2 DEF Sought
    <3>4. CASE at' = Set(at, x, "error")
      BY <2>1, <3>4 DEF Sought, Set
    <3> QED BY <2>2, <3>2, <3>3, <3>4 DEF SearchPlan
  <2>3. CASE FetchVector(x)
    <3>1. look[x] \in Look /\ Accepts(provider, look[x]) /\ look[x].of.kind = "row" /\ still' = still
      BY <2>1, <2>3 DEF FetchVector, Sought
    <3>2. CASE cell \in Number /\ vector' = Set(vector, x, cell) /\ at' = Set(at, x, "searching")
      <4>1. at'[x] = "searching" /\ vector'[x] = cell
        BY <2>1, <3>2 DEF Set
      <4>2. Meant(x, Searched)' = cell
        <5> HIDE DEF Searched
        <5> QED BY <1>1, <3>1, <4>1 DEF Meant
      <4> QED BY <1>1, <3>1, <4>1, <4>2 DEF Sought
    <3>3. CASE cell = Null /\ at' = Set(at, x, "searching")
      <4>1. at'[x] = "searching"
        BY <2>1, <3>3 DEF Set
      <4>2. Meant(x, Searched)' = vector'[x]
        <5> HIDE DEF Searched
        <5> QED BY <1>1, <3>1, <3>3 DEF Meant
      <4> QED BY <1>1, <3>1, <4>1, <4>2 DEF Sought
    <3>4. CASE at' = Set(at, x, "ok") \/ at' = Set(at, x, "error")
      BY <2>1, <3>4 DEF Sought, Set
    <3> HIDE DEF cell
    <3>5. \/ cell \in Number /\ vector' = Set(vector, x, cell) /\ at' = Set(at, x, "searching")
          \/ cell = Null /\ at' = Set(at, x, "searching")
          \/ at' = Set(at, x, "ok") \/ at' = Set(at, x, "error")
      BY <2>3 DEF FetchVector, cell
    <3> QED BY <3>2, <3>3, <3>4, <3>5
  <2>4. CASE RunSearch(x) \/ SearchFails(x)
    BY <2>1, <2>4 DEF RunSearch, SearchFails, Sought, Set
  <2> QED BY <2>2, <2>3, <2>4 DEF SearchStep
<1> QED BY <1>1, <1>2, <1>3 DEF SearchInv

LEMMA StepSearchInv == SearchInv /\ [SearchNext]_<<vars, searchVars>> => SearchInv'
<1> SUFFICES ASSUME SearchInv, [SearchNext]_<<vars, searchVars>> PROVE SearchInv'
  OBVIOUS
<1>1. CASE UNCHANGED <<vars, searchVars>>
  <2>1. IInv'
    BY <1>1, StepIInv DEF SearchInv
  <2>2. UNCHANGED <<provider, table, opened, look, at, vector, answer, still>>
    BY <1>1 DEF vars, stores, searchVars
  <2>3. SearchShapes' /\ \A x \in Searcher : Sought(x)'
    BY <2>2 DEF SearchInv, SearchShapes, Sought, Meant, Searched
  <2> QED BY <2>1, <2>3 DEF SearchInv
<1> QED BY <1>1, WriteKeepsSought, SearchKeepsSought DEF SearchNext

\* A search that ends with an answer has just taken it from what it searches.
LEMMA EndsWithAnswer ==
    ASSUME SearchInv, [SearchNext]_<<vars, searchVars>>, NEW x \in Searcher, SearchEnds(x)
    PROVE  /\ look[x] \in Look /\ Accepts(provider, look[x])
           /\ Meant(x, Searched) = vector[x]
           /\ answer'[x] \in AnswersOf(provider, look[x], Searched, vector[x])
<1>1. at[x] = "searching" /\ at'[x] # at[x]
  BY DEF SearchEnds
<1>2. Sought(x) /\ SearchShapes
  BY DEF SearchInv
<1>3. RunSearch(x)
  <2>1. ~WriteStep /\ ~UNCHANGED <<vars, searchVars>>
    BY <1>1 DEF WriteStep, searchVars
  <2>2. PICK y \in Searcher : SearchStep(y)
    BY <2>1 DEF SearchNext
  <2>3. y = x
    BY <1>1, <2>2, SearchKeeps
  <2> QED BY <1>1, <1>2, <2>2, <2>3
          DEF SearchStep, SearchPlan, FetchVector, SearchFails, SearchEnds, SearchShapes, Set
<1>4. answer'[x] \in AnswersOf(provider, look[x], Searched, vector[x])
  <2>1. PICK T \in AnswersOf(provider, look[x], Searched, vector[x]) : answer' = Set(answer, x, T)
    BY <1>3 DEF RunSearch
  <2> QED BY <1>2, <2>1 DEF SearchShapes, Set
<1> QED BY <1>1, <1>2, <1>4 DEF Sought

\* The function of each provider answers with the nearest rows that satisfy the filters, to
\* the vector the query means, for any rows, vectors, filters and limits.
THEOREM SearchNearest == SearchSpec => NearestMatches
<1> DEFINE Goal == \A x \in Searcher :
          SearchEnds(x) =>
             LET t == Searched  l == look[x]  rank == Rank(l, t, Meant(x, t))
             IN  FiltersFollowSql(provider, l, t) =>
                    /\ answer'[x] \subseteq Hits(l, t, rank)
                    /\ \A i \in answer'[x], j \in Hits(l, t, rank) \ answer'[x] :
                          rank[i] <= rank[j]
<1>1. ASSUME SearchInv, [SearchNext]_<<vars, searchVars>> PROVE Goal
  <2> SUFFICES ASSUME NEW x \in Searcher, SearchEnds(x),
                      FiltersFollowSql(provider, look[x], Searched)
               PROVE  LET rank == Rank(look[x], Searched, Meant(x, Searched))
                      IN  Near(answer'[x], Hits(look[x], Searched, rank), rank)
    BY DEF Near
  <2>1. /\ look[x] \in Look /\ Accepts(provider, look[x]) /\ provider \in Provider
        /\ Meant(x, Searched) = vector[x]
        /\ answer'[x] \in AnswersOf(provider, look[x], Searched, vector[x])
    BY <1>1, EndsWithAnswer DEF SearchInv, IInv, Shapes
  <2>2. Near(answer'[x], Hits(look[x], Searched, Rank(look[x], Searched, vector[x])),
             Rank(look[x], Searched, vector[x]))
    BY <2>1, NearAnswers
  <2> QED BY <2>1, <2>2
<1>2. SearchInv /\ [SearchNext]_<<vars, searchVars>> => [Goal]_<<vars, searchVars>>
  BY <1>1
<1> HIDE DEF Goal
<1>3. SearchSpec => [][Goal]_<<vars, searchVars>>
  BY <1>2, InitSearchInv, StepSearchInv, PTL DEF SearchSpec
<1> QED BY <1>3 DEF Goal, NearestMatches

\* An answer is never longer than k and LIMIT allow, and as long as that unless fewer rows
\* satisfy the filters or the provider filters what it has found: no provider cuts off rows
\* before it has filtered them otherwise.
THEOREM SearchFull == SearchSpec => AnswersAreFull
<1> DEFINE Goal == \A x \in Searcher :
          SearchEnds(x) =>
             LET t == Searched  l == look[x]  rank == Rank(l, t, vector[x])
                 most == AskedFor(provider, l)
             IN  /\ Cardinality(answer'[x]) <= Capped(most, Key)
                 /\ \/ ~FiltersFollowSql(provider, l, t)
                    \/ FiltersFound(provider, l)
                    \/ Cardinality(answer'[x]) = Capped(most, Hits(l, t, rank))
<1>1. ASSUME SearchInv, [SearchNext]_<<vars, searchVars>> PROVE Goal
  <2> SUFFICES ASSUME NEW x \in Searcher, SearchEnds(x)
               PROVE  Full(answer'[x], provider, look[x], Searched,
                           Rank(look[x], Searched, vector[x]))
    BY DEF Full
  <2>1. /\ look[x] \in Look /\ Accepts(provider, look[x]) /\ provider \in Provider
        /\ answer'[x] \in AnswersOf(provider, look[x], Searched, vector[x])
    BY <1>1, EndsWithAnswer DEF SearchInv, IInv, Shapes
  <2> QED BY <2>1, FullAnswers
<1>2. SearchInv /\ [SearchNext]_<<vars, searchVars>> => [Goal]_<<vars, searchVars>>
  BY <1>1
<1> HIDE DEF Goal
<1>3. SearchSpec => [][Goal]_<<vars, searchVars>>
  BY <1>2, InitSearchInv, StepSearchInv, PTL DEF SearchSpec
<1> QED BY <1>3 DEF Goal, AnswersAreFull
=============================================================================
