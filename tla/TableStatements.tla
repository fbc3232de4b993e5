-------------------------- MODULE TableStatements --------------------------
(***************************************************************************)
(* SQL statements at a table of one provider (crates/skardi/src/sources/   *)
(* providers): Redis, where keys are resolved when a plan is made and used *)
(* when it runs, every command needs the table's one connection and a busy *)
(* connection is an error; Mongo, where SELECT reads while it is planned   *)
(* and INSERT upserts one document after the other; the SQL servers, where *)
(* a statement is one transaction.  Statements of this server run          *)
(* concurrently, other clients write the same table, and any command may   *)
(* fail.                                                                   *)
(***************************************************************************)
EXTENDS SqlRows, Sequences, FiniteSetsExt

CONSTANTS Stmt,        \* statements
          Provider,    \* among "redis", "mongo", the SQL servers and "lance"
          Query,       \* what they may say
          Workload,    \* which statements run together
          FirstTable,  \* contents of the table at the start
          Free,        \* nobody holds the connection
          Partitions,  \* of an INSERT's input; only Mongo's plan keeps them apart
          OutsideRow,  \* a row another client may write
          MaxOutside   \* bound: writes of other clients

ASSUME StatementAssumption ==
    /\ Provider \subseteq {"redis", "mongo", "sqlite", "postgres", "mysql", "seekdb", "lance"}
    /\ FirstTable \subseteq [Key -> Row \cup {Absent}]
    /\ \A q \in Query : /\ q.kind \in {"select", "delete", "update", "insert", "overwrite"}
                       /\ q.where \subseteq Filter
    /\ Workload \subseteq [Stmt -> Query] /\ OutsideRow \in [Column -> Value]
    /\ Free \notin Stmt /\ Partitions \in Nat \ {0} /\ MaxOutside \in Nat

\* A SET gives a column one of its values, or what another column holds.
Settable(set) == set \in Assignment /\ (set.rhs.kind = "literal" => set.rhs.of \in Value)

ASSUME QueryAssumption ==
    \A q \in Query : /\ IsFiniteSet(q.where)
                     /\ q.input \in Seq([key : Key, row : Row])
                     /\ q.kind = "update" => Settable(q.set)

VARIABLES
    provider, \* the table's
    table,    \* its rows
    bare,     \* Mongo: documents of other clients with an _id but no primary_key field
    conn,     \* RedisTable::conn: the statement whose try_write holds it, or Free
    pc,       \* where each statement has got to
    query,    \* what it says
    left,     \* keys still to read, or positions of the input still to write
    found,    \* keys a DELETE or UPDATE resolved
    seen,     \* rows a SELECT has read: key to row, Absent if it was not read
    count,    \* the count it reports
    outside,  \* writes of other clients so far
    begun,    \* history: the table when the statement began
    alone,    \* history: has nobody else written the table since?
    quiet     \* history: has no other client written it since?

stores  == <<provider, table, bare, outside>>
locals  == <<left, found, seen, count>>
history == <<begun, alone, quiet>>
vars == <<stores, conn, pc, query, locals, history>>

Inserts   == {"insert", "overwrite"}
Dml       == {"delete", "update"}
Ended     == {"ok", "error"}
\* Where a Redis statement holds the connection.
Holding   == {"scanning", "reading", "deleting", "updating", "clearing", "dropping", "writing"}
\* Where it asks for it next.
Asking    == {"planning", "planned", "inserting"}
Active(s) == pc[s] \notin Ended \cup {"idle"}

Is(s, p) == provider = p /\ Active(s)
Kind(s)  == query[s].kind
Nothing  == [k \in Key |-> Absent]

Init ==
    /\ provider \in Provider /\ table \in FirstTable /\ bare = {} /\ outside = 0
    /\ conn = Free
    /\ pc = [s \in Stmt |-> "idle"]
    /\ query \in Workload
    /\ left = [s \in Stmt |-> {}] /\ found = [s \in Stmt |-> {}]
    /\ seen = [s \in Stmt |-> Nothing] /\ count = [s \in Stmt |-> 0]
    /\ begun = [s \in Stmt |-> table]
    /\ alone = [s \in Stmt |-> TRUE] /\ quiet = [s \in Stmt |-> TRUE]

Goto(s, label) == pc' = [pc EXCEPT ![s] = label]
\* A command is carried out; its answer arrives, or the connection breaks before it does.
Answered(s, label) == Goto(s, label) \/ Goto(s, "error")
Set(f, s, x)   == [f EXCEPT ![s] = x]

\* Statement s leaves the table as t; everyone else who is at work is no longer alone.
Writes(s, t) ==
    /\ table' = t
    /\ alone' = [x \in Stmt |-> alone[x] /\ (x = s \/ ~Active(x) \/ t = table)]
    /\ bare' = bare \cap Present(t)
    /\ UNCHANGED <<provider, outside, begun, quiet>>

Put(t, k, row) == [t EXCEPT ![k] = row]
Without(t, ks) == [k \in Key |-> IF k \in ks THEN Absent ELSE t[k]]

\* The statement begins: its input is at hand, nothing is planned yet.  A Lance dataset
\* takes no DELETE, UPDATE or INSERT and a SELECT of it is Lance's own: see Search.
Begin(s) ==
    /\ pc[s] = "idle" /\ provider # "lance"
    /\ Goto(s, "planning")
    /\ begun' = Set(begun, s, table)
    /\ left' = Set(left, s, IF Kind(s) \in Inserts THEN DOMAIN query[s].input ELSE {})
    /\ UNCHANGED <<stores, conn, query, found, seen, count, alone, quiet>>

-----------------------------------------------------------------------------
(* Redis.                                                                   *)

\* Mutant: a busy connection is shared.
TakesShared(s) == conn' = s

\* try_write on the RwLock around the connection.
Takes(s) == conn = Free /\ conn' = s

GivesBack == conn' = Free

\* What needs the connection next, and under which label it holds it.
RedisNext(s) ==
    CASE pc[s] = "planning"  -> "scanning"
      [] pc[s] = "planned"   -> (CASE Kind(s) = "select"    -> "scanning"
                                   [] Kind(s) = "delete"    -> "deleting"
                                   [] Kind(s) = "update"    -> "updating"
                                   [] Kind(s) = "overwrite" -> "clearing")
      [] pc[s] = "inserting" -> "writing"

\* assignments_to_redis_fields, before the connection is asked for.
RedisRefuses(s) ==
    Kind(s) = "update" /\ (query[s].set.col = KeyColumn \/ query[s].set.rhs.kind = "column")

Asks(s) ==
    /\ Is(s, "redis") /\ pc[s] \in Asking
    /\ pc[s] = "planning" => Kind(s) \in Dml /\ ~RedisRefuses(s)
    /\ ~(pc[s] = "planned" /\ Kind(s) = "insert")
    /\ pc[s] = "inserting" => left[s] # {}

RedisTake(s) ==
    /\ Asks(s) /\ Takes(s)
    /\ Goto(s, RedisNext(s))
    /\ UNCHANGED <<stores, query, locals, history>>

\* It does not wait: "failed to acquire write lock".
RedisBusy(s) ==
    /\ Asks(s) /\ conn \notin {Free, s}
    /\ Goto(s, "error")
    /\ UNCHANGED <<stores, conn, query, locals, history>>

\* Nothing to resolve: SELECT and INSERT make their plans without a command.
RedisPlan(s) ==
    /\ Is(s, "redis") /\ pc[s] = "planning"
    /\ \/ Kind(s) \in Inserts \cup {"select"} /\ Goto(s, "planned")
       \/ RedisRefuses(s) /\ Goto(s, "error")
    /\ UNCHANGED <<stores, conn, query, locals, history>>

\* resolve_matching_keys: one key by its name, or SCAN and read them all.
RedisScan(s) ==
    /\ Is(s, "redis") /\ pc[s] = "scanning"
    /\ IF Kind(s) \in Dml /\ (KeyEq(query[s].where) # {} \/ query[s].where = {})
       THEN /\ found' = Set(found, s, IF query[s].where = {} THEN Present(table)
                                                          ELSE KeyEq(query[s].where))
            /\ Goto(s, "planned") /\ GivesBack
            /\ UNCHANGED left
       ELSE /\ left' = Set(left, s, Present(table))
            /\ Goto(s, "reading")
            /\ UNCHANGED <<conn, found>>
    /\ UNCHANGED <<stores, query, seen, count, history>>

\* HGETALL of the next key.  A hash that is gone reads as one without fields.
RedisRead(s) ==
    /\ Is(s, "redis") /\ pc[s] = "reading"
    /\ \E k \in left[s] :
          LET row == IF table[k] = Absent THEN [c \in Column |-> Null] ELSE table[k]
          IN  /\ left' = Set(left, s, left[s] \ {k})
              /\ IF Kind(s) = "select"
                 THEN /\ seen' = [seen EXCEPT ![s][k] =
                             IF SqlMatches(k, RedisView(row), query[s].where)
                             THEN RedisView(row) ELSE Absent]
                      /\ UNCHANGED found
                 ELSE /\ found' = Set(found, s, found[s] \cup
                             (IF RedisMatches(k, row, query[s].where) THEN {k} ELSE {}))
                      /\ UNCHANGED seen
    /\ UNCHANGED <<stores, conn, pc, query, count, history>>

\* Mutant: a plan is not finished when no key matches.
RedisReadEndMatching(s) ==
    /\ Is(s, "redis") /\ pc[s] = "reading" /\ left[s] = {}
    /\ Kind(s) \in Dml => found[s] # {}
    /\ GivesBack
    /\ Goto(s, IF Kind(s) = "select" THEN "ok" ELSE "planned")
    /\ UNCHANGED <<stores, query, locals, history>>

\* All keys are read: a SELECT is answered, a DELETE or UPDATE is planned.
RedisReadEnd(s) ==
    /\ Is(s, "redis") /\ pc[s] = "reading" /\ left[s] = {}
    /\ GivesBack
    /\ Goto(s, IF Kind(s) = "select" THEN "ok" ELSE "planned")
    /\ UNCHANGED <<stores, query, locals, history>>

\* One DEL of all keys found when the plan was made.
RedisDelete(s) ==
    /\ Is(s, "redis") /\ pc[s] = "deleting"
    /\ Writes(s, Without(table, found[s]))
    /\ count' = Set(count, s, Cardinality(found[s]))
    /\ GivesBack /\ Answered(s, "ok")
    /\ UNCHANGED <<query, left, found, seen>>

\* HSET of one key after the other, whether or not it still exists.
RedisUpdate(s) ==
    /\ Is(s, "redis") /\ pc[s] = "updating"
    /\ IF found[s] = {}
       THEN /\ GivesBack /\ Goto(s, "ok")
            /\ UNCHANGED <<stores, found, count, history>>
       ELSE \E k \in found[s] :
               /\ Writes(s, Put(table, k, RedisAssign(table[k], query[s].set)))
               /\ found' = Set(found, s, found[s] \ {k})
               /\ count' = Set(count, s, count[s] + 1)
               /\ UNCHANGED <<conn, pc>> \/ (GivesBack /\ Goto(s, "error"))
    /\ UNCHANGED <<query, left, seen>>

\* OVERWRITE and REPLACE: SCAN for the table's keys, then one DEL of them.
RedisClear(s) ==
    /\ Is(s, "redis") /\ pc[s] = "clearing"
    /\ found' = Set(found, s, Present(table))
    /\ Goto(s, "dropping")
    /\ UNCHANGED <<stores, conn, query, left, seen, count, history>>

RedisDrop(s) ==
    /\ Is(s, "redis") /\ pc[s] = "dropping"
    /\ Writes(s, Without(table, found[s]))
    /\ GivesBack /\ Answered(s, "inserting")
    /\ UNCHANGED <<query, locals>>

RedisInsert(s) ==
    /\ Is(s, "redis") /\ pc[s] = "planned" /\ Kind(s) = "insert"
    /\ Goto(s, "inserting")
    /\ UNCHANGED <<stores, conn, query, locals, history>>

\* Mutant: the rows are written last to first.
RedisWriteBackwards(s) ==
    /\ Is(s, "redis") /\ pc[s] = "writing"
    /\ LET i == Max(left[s])  new == query[s].input[i]
       IN  /\ Writes(s, Put(table, new.key, RedisStores(new.row)))
           /\ left' = Set(left, s, left[s] \ {i})
    /\ count' = Set(count, s, count[s] + 1)
    /\ GivesBack /\ Answered(s, "inserting")
    /\ UNCHANGED <<query, found, seen>>

\* HSET of the next row, under a lock taken for this row alone.
RedisWrite(s) ==
    /\ Is(s, "redis") /\ pc[s] = "writing"
    /\ LET i == Min(left[s])  new == query[s].input[i]
       IN  /\ Writes(s, Put(table, new.key, RedisStores(new.row)))
           /\ left' = Set(left, s, left[s] \ {i})
    /\ count' = Set(count, s, count[s] + 1)
    /\ GivesBack /\ Answered(s, "inserting")
    /\ UNCHANGED <<query, found, seen>>

RedisInsertEnd(s) ==
    /\ Is(s, "redis") /\ pc[s] = "inserting" /\ left[s] = {}
    /\ Goto(s, "ok")
    /\ UNCHANGED <<stores, conn, query, locals, history>>

\* Mutant: the connection is not given back by an error.
RedisFailsHolding(s) ==
    /\ Is(s, "redis") /\ pc[s] \in Holding \cup {"inserting"}
    /\ Goto(s, "error")
    /\ UNCHANGED <<stores, conn, query, locals, history>>

\* A command fails, or the query feeding an INSERT does between two rows.
RedisFails(s) ==
    /\ Is(s, "redis") /\ pc[s] \in Holding \cup {"inserting"}
    /\ Goto(s, "error")
    /\ conn' = IF conn = s THEN Free ELSE conn
    /\ UNCHANGED <<stores, query, locals, history>>

Redis(s) ==
    \/ RedisTake(s) \/ RedisBusy(s) \/ RedisPlan(s) \/ RedisScan(s) \/ RedisRead(s)
    \/ RedisReadEnd(s) \/ RedisDelete(s) \/ RedisUpdate(s) \/ RedisClear(s) \/ RedisDrop(s)
    \/ RedisInsert(s) \/ RedisWrite(s) \/ RedisInsertEnd(s)

-----------------------------------------------------------------------------
(* Mongo.                                                                   *)

\* find() is part of making the plan, with the filters that can be pushed; an OR in a
\* DELETE or UPDATE, or a SET of the primary key, is refused.
MongoPlan(s) ==
    /\ Is(s, "mongo") /\ pc[s] = "planning"
    /\ \/ /\ Kind(s) = "select"
          /\ left' = Set(left, s, Present(table)) /\ Goto(s, "reading")
       \/ /\ Kind(s) \in Inserts /\ UNCHANGED left /\ Goto(s, "inserting")
       \/ /\ Kind(s) \in Dml /\ UNCHANGED left
          /\ Goto(s, IF \/ ~MongoSupports(query[s].where)
                        \/ Kind(s) = "update" /\ query[s].set.col = KeyColumn
                     THEN "error" ELSE "planned")
    /\ UNCHANGED <<stores, conn, query, found, seen, count, history>>

\* The cursor yields one document after the other, no snapshot of the collection;
\* DataFusion filters what it yields.
MongoRead(s) ==
    /\ Is(s, "mongo") /\ pc[s] = "reading"
    /\ \E k \in left[s] :
          /\ left' = Set(left, s, left[s] \ {k})
          /\ seen' = [seen EXCEPT ![s][k] =
                 IF /\ table[k] # Absent
                    /\ MongoMatches(k, table[k], Pushable(query[s].where))
                    /\ SqlMatches(k, table[k], query[s].where)
                 THEN table[k] ELSE Absent]
    /\ UNCHANGED <<stores, conn, pc, query, found, count, history>>

MongoReadEnd(s) ==
    /\ Is(s, "mongo") /\ pc[s] = "reading" /\ left[s] = {}
    /\ Goto(s, "ok")
    /\ UNCHANGED <<stores, conn, query, locals, history>>

\* Each partition of the input is executed by itself, its rows in order.
FirstOfPartition(s, i) ==
    \A j \in left[s] : j < i => j % Partitions # i % Partitions

\* replace_one({primary_key: k}, document with _id = k) with upsert: a document another
\* client put under that _id without the field makes the upsert a duplicate key.
MongoInsert(s) ==
    /\ Is(s, "mongo") /\ pc[s] = "inserting"
    /\ \E i \in left[s] :
          LET new == query[s].input[i]
          IN  /\ FirstOfPartition(s, i)
              /\ IF new.key \in bare
                 THEN Goto(s, "error") /\ UNCHANGED <<stores, left, count, history>>
                 ELSE /\ Writes(s, Put(table, new.key, new.row))
                      /\ left' = Set(left, s, left[s] \ {i})
                      /\ count' = Set(count, s, count[s] + 1)
                      /\ Answered(s, "inserting")
    /\ UNCHANGED <<conn, query, found, seen>>

MongoInsertEnd(s) ==
    /\ Is(s, "mongo") /\ pc[s] = "inserting" /\ left[s] = {}
    /\ Goto(s, "ok")
    /\ UNCHANGED <<stores, conn, query, locals, history>>

\* delete_many and update_many, document by document on the server; each key once.
MongoMatched(s) ==
    {k \in Present(table) : MongoMatches(k, table[k], query[s].where)}

MongoDml(s) ==
    /\ Is(s, "mongo") /\ pc[s] = "planned"
    /\ \E done \in SUBSET MongoMatched(s) :
          /\ Writes(s, [k \in Key |->
                 IF k \notin done THEN table[k]
                 ELSE IF Kind(s) = "delete" THEN Absent
                 ELSE MongoAssign(table[k], query[s].set)])
          /\ count' = Set(count, s, Cardinality({k \in done : table'[k] # table[k]}))
          /\ IF done = MongoMatched(s) THEN Answered(s, "ok") ELSE Goto(s, "error")
    /\ UNCHANGED <<conn, query, left, found, seen>>

MongoFails(s) ==
    /\ Is(s, "mongo")
    /\ Goto(s, "error")
    /\ UNCHANGED <<stores, conn, query, locals, history>>

Mongo(s) ==
    MongoPlan(s) \/ MongoRead(s) \/ MongoReadEnd(s) \/ MongoInsert(s) \/ MongoInsertEnd(s)
        \/ MongoDml(s)

-----------------------------------------------------------------------------
(* SQLite, Postgres, MySQL and SeekDB: the statement is sent as SQL.         *)

SqlServers == {"sqlite", "postgres", "mysql", "seekdb"}
Sql(s)     == provider \in SqlServers /\ Active(s)

\* The answer of a server over the network may be lost; SQLite runs in this process.
SqlAnswered(s) == IF provider = "sqlite" THEN Goto(s, "ok") ELSE Answered(s, "ok")

SqlPlan(s) ==
    /\ Sql(s) /\ pc[s] = "planning"
    /\ Goto(s, IF Kind(s) \in Inserts THEN "inserting" ELSE "planned")
    /\ UNCHANGED <<stores, conn, query, locals, history>>

SqlMatched(t, q) == {k \in Present(t) : SqlMatches(k, t[k], q.where)}

SqlSelect(s) ==
    /\ Sql(s) /\ pc[s] = "planned" /\ Kind(s) = "select"
    /\ seen' = Set(seen, s, Without(table, Key \ SqlMatched(table, query[s])))
    /\ Goto(s, "ok")
    /\ UNCHANGED <<stores, conn, query, left, found, count, history>>

\* What one DELETE or UPDATE, in a transaction of its own, makes of the table.
SqlChanged(q) ==
    [k \in Key |-> IF k \notin SqlMatched(table, q) THEN table[k]
                   ELSE IF q.kind = "delete" THEN Absent
                   ELSE SqlAssign(k, table[k], q.set)]

\* A SET of the key is modelled only where it is refused, by Redis and Mongo.
SqlDml(s, affected) ==
    /\ pc[s] = "planned" /\ Kind(s) \in Dml /\ query[s].set.col # KeyColumn
    /\ Writes(s, SqlChanged(query[s]))
    /\ count' = Set(count, s, Cardinality(affected))
    /\ SqlAnswered(s)
    /\ UNCHANGED <<conn, query, left, found, seen>>

SqliteDml(s)   == Is(s, "sqlite") /\ SqlDml(s, SqlMatched(table, query[s]))
PostgresDml(s) == Is(s, "postgres") /\ SqlDml(s, SqlMatched(table, query[s]))

\* affected_rows of the MySQL protocol leaves out the rows an UPDATE leaves as they are.
RowsChanged(s) == {k \in Key : SqlChanged(query[s])[k] # table[k]}
MySqlDml(s)    == Is(s, "mysql") /\ SqlDml(s, RowsChanged(s))
SeekDbDml(s)   == Is(s, "seekdb") /\ SqlDml(s, RowsChanged(s))

InputKeys(q)  == {q.input[i].key : i \in DOMAIN q.input}
Distinct(q)   == Cardinality(InputKeys(q)) = Len(q.input)
RowFor(q, k)  == q.input[CHOOSE i \in DOMAIN q.input : q.input[i].key = k].row
Remaining(s)  == IF Kind(s) = "overwrite" THEN Nothing ELSE table

\* BEGIN, DELETE if the rows are to be replaced, every INSERT, COMMIT: nobody sees the
\* steps.  A key that exists or comes twice is refused and everything is rolled back.
SqlInsert(s) ==
    /\ pc[s] = "inserting"
    /\ LET q == query[s]
       IN  /\ Distinct(q) /\ InputKeys(q) \cap Present(Remaining(s)) = {}
           /\ Writes(s, [k \in Key |-> IF k \in InputKeys(q) THEN RowFor(q, k)
                                      ELSE Remaining(s)[k]])
           /\ count' = Set(count, s, Len(q.input))
    /\ left' = Set(left, s, {})
    /\ SqlAnswered(s)
    /\ UNCHANGED <<conn, query, found, seen>>

SqliteInsert(s)   == Is(s, "sqlite") /\ SqlInsert(s)
PostgresInsert(s) == Is(s, "postgres") /\ SqlInsert(s)
\* insert_into of the table provider library that both wrap.
MySqlInsert(s)    == (Is(s, "mysql") \/ Is(s, "seekdb")) /\ SqlInsert(s)

\* The input, the server or a constraint fails: the transaction is rolled back.
SqlFails(s) ==
    /\ Sql(s) /\ pc[s] \in {"planned", "inserting"}
    /\ Goto(s, "error")
    /\ UNCHANGED <<stores, conn, query, locals, history>>

SqlServer(s) ==
    \/ SqlPlan(s) \/ SqlSelect(s)
    \/ SqliteDml(s) \/ PostgresDml(s) \/ MySqlDml(s) \/ SeekDbDml(s)
    \/ SqliteInsert(s) \/ PostgresInsert(s) \/ MySqlInsert(s)

-----------------------------------------------------------------------------

\* Another client of the same server writes or removes one row.
Outside ==
    /\ outside < MaxOutside
    /\ outside' = outside + 1
    /\ \E k \in Key, new \in {Absent, OutsideRow} :
          /\ table' = Put(table, k, new)
          /\ bare' \in IF provider = "mongo" /\ new # Absent
                       THEN {bare \ {k}, bare \cup {k}} ELSE {bare \ {k}}
    /\ alone' = [s \in Stmt |-> alone[s] /\ ~Active(s)]
    /\ quiet' = [s \in Stmt |-> quiet[s] /\ ~Active(s)]
    /\ UNCHANGED <<provider, conn, pc, query, locals, begun>>

Works(s) == Redis(s) \/ Mongo(s) \/ SqlServer(s)
Fails(s) == RedisFails(s) \/ MongoFails(s) \/ SqlFails(s)

Next == Outside \/ \E s \in Stmt : Begin(s) \/ Works(s) \/ Fails(s)

Spec == Init /\ [][Next]_vars

\* tokio polls a statement whose next command is answered.
FairSpec == Spec /\ \A s \in Stmt : WF_vars(Works(s) \/ SqlFails(s))

-----------------------------------------------------------------------------
(* Properties.                                                              *)

\* The one connection of a RedisTable is used by one statement at a time and given back
\* on every path, errors included: what is left taken makes every later statement fail.
ConnectionHeldInside ==
    provider = "redis" =>
        \A s \in Stmt : conn = s <=> pc[s] \in Holding

\* What an INSERT makes of table t when the input rows at positions D have been written.
After(t, q, D) ==
    [k \in Key |->
        LET mine == {i \in D : q.input[i].key = k}
        IN  IF mine = {} THEN t[k]
            ELSE IF provider = "redis" THEN RedisStores(q.input[Max(mine)].row)
            ELSE q.input[Max(mine)].row]

\* Mongo's plan does not look at the insert operation.
Cleared(t, q) == IF q.kind = "overwrite" /\ provider # "mongo" THEN Nothing ELSE t

View(row) == IF row # Absent /\ provider = "redis" THEN RedisView(row) ELSE row
Shown(t)  == [k \in Key |-> View(t[k])]

\* SQL's answer: a table for a change, the rows for a SELECT.
SqlAnswer(t, q) ==
    CASE q.kind \in Inserts -> After(Cleared(t, q), q, DOMAIN q.input)
      [] q.kind = "delete"  -> Without(t, SqlMatched(t, q))
      [] q.kind = "update"  -> [k \in Key |-> IF k \in SqlMatched(t, q)
                                              THEN SqlAssign(k, t[k], q.set) ELSE t[k]]
      [] q.kind = "select"  -> Without(t, Key \ SqlMatched(t, q))

\* Where the providers are known not to follow SQL: Redis creates the row an UPDATE names
\* by a key that does not exist; Mongo takes a column on the right for a string and "<>"
\* for true where the field is missing, and INSERT of one key in two partitions has no order.
FollowsSql(t, q) ==
    CASE provider = "redis" -> q.kind = "update" => KeyEq(q.where) \subseteq Present(t)
      [] provider = "mongo" ->
            /\ q.kind \in Dml => \A f \in q.where :
                  /\ f.op # "or" /\ f.rhs.kind = "literal"
                  /\ f.op = "<>" => \A k \in Present(t) : Cells(k, t[k])[f.col] # Null
            /\ q.kind = "update" => q.set.rhs.kind = "literal"
            /\ q.kind \in Inserts => Distinct(q)
      [] OTHER -> TRUE

\* A row the input may leave under key k.
Offered(q, k) == {q.input[i].row : i \in {j \in DOMAIN q.input : q.input[j].key = k}}

EndsAs(s, how) == pc[s] # how /\ pc'[s] = how

\* A statement that succeeds with nobody else writing since it began has done to the table
\* what SQL says, although Redis finds keys first and writes them later, one at a time, and
\* each provider evaluates the filter its own way; it counts the rows it has written.
AloneIsSql ==
    [][\A s \in Stmt :
          EndsAs(s, "ok") /\ alone'[s] /\ FollowsSql(begun[s], query[s]) /\ Kind(s) # "select" =>
              /\ Shown(table') = SqlAnswer(Shown(begun[s]), query[s])
              /\ count'[s] = IF Kind(s) \in Inserts THEN Len(query[s].input)
                             ELSE IF provider \in {"mongo", "mysql", "seekdb"} /\ Kind(s) = "update"
                             THEN Cardinality({k \in Key : table'[k] # begun[s][k]})
                             ELSE IF KeyEq(query[s].where) # {} /\ provider = "redis" THEN 1
                             ELSE Cardinality(SqlMatched(Shown(begun[s]), query[s]))]_vars

\* What a statement that fails leaves behind: SQLite nothing, a SQL server nothing or all of
\* it (the answer to COMMIT was lost), Redis a prefix of the input, and each row of a DELETE,
\* an UPDATE or Mongo's INSERT as it was or as the statement makes it, never in between.
FailedRowsOldOrNew ==
    [][\A s \in Stmt :
          EndsAs(s, "error") /\ alone'[s] =>
             LET q == query[s]  old == begun[s]
             IN /\ provider = "sqlite" => table' = old
                /\ provider \in SqlServers => table' \in {old, SqlAnswer(old, q)}
                /\ provider = "redis" /\ q.kind \in Inserts =>
                      \/ table' = old
                      \/ \E n \in 0..Len(q.input) : table' = After(Cleared(old, q), q, 1..n)
                /\ provider = "mongo" /\ q.kind \in Inserts =>
                      \A k \in Key : table'[k] \in {old[k]} \cup Offered(q, k)
                /\ q.kind \notin Inserts /\ FollowsSql(old, q) =>
                      \A k \in Key : View(table'[k]) \in
                          {View(old[k]), SqlAnswer(Shown(old), q)[k]}]_vars

\* A SELECT answers with the rows of one moment: at Redis the connection keeps every other
\* statement of this server out between SCAN and the last HGETALL, so that only another
\* client can disturb it; at Mongo any writer can.
SelectIsOneMoment ==
    [][\A s \in Stmt :
          /\ EndsAs(s, "ok") /\ Kind(s) = "select"
          /\ provider = "redis" => quiet[s]
          /\ provider = "mongo" => alone[s]
          => seen'[s] = SqlAnswer(Shown(table), query[s])]_vars

\* Every statement ends: a busy connection is an error and not a wait, so two statements
\* never wait for each other and a holder always moves on.
StatementsEnd == \A s \in Stmt : (pc[s] = "planning") ~> (pc[s] \in Ended)
=============================================================================
