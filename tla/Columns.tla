------------------------------ MODULE Columns ------------------------------
(***************************************************************************)
(* One column of a table, from the value an INSERT is given or another     *)
(* client writes to the value a SELECT or a search shows.  A provider      *)
(* reads the column's type when the table is registered and keeps it; the  *)
(* database underneath may hold values of other types: SQLite in any       *)
(* column, Mongo where no validator forbids it, Redis as text only.  A     *)
(* property that llm_extract extracts is such a column, too: its rows are  *)
(* what a language model answers, whatever the schema asks for.            *)
(*                                                                         *)
(* A value is [is, v]: how it is held and what it means, so that a         *)
(* conversion that loses nothing keeps v.  Numbers are counted in halves   *)
(* (3 is 1.5), TRUE means 1, and a text means the number it is the usual   *)
(* form of.                                                                *)
(***************************************************************************)
EXTENDS Integers

CONSTANTS Number,     \* numbers, in halves
          Half32,     \* an i32 is in -Half32..Half32-1
          Word,       \* other texts, blobs and dates
          Blank,      \* the empty text, one of them
          Reads,      \* texts that a database reads as a number though they are not its usual form
          Slot,       \* rows of the table
          Declaration \* columns: where they are, their declared type, are they required?

\* The types a column is declared with, of those that are told apart.
Types(at) ==
    CASE at = "sqlite" -> {"rowid", "untyped", "fts", "INT", "REAL", "BLOB", "BOOL", "TEXT", "DATE"}
      [] at = "mongo" -> {"int", "int or null", "long", "number", "bool", "string", "date", "any"}
      [] at = "redis" -> {"declared", "undeclared"}
      [] at = "postgres" -> {"smallint", "integer", "serial", "bigint", "real", "numeric",
                             "boolean", "text", "other"}
      [] at = "seekdb" -> {"tinyint(1)", "smallint", "int", "bigint", "double", "decimal",
                           "varchar", "vector", "blob", "date", "geometry"}
      [] at = "llm" -> {"number", "integer", "boolean", "string", "union"}

Everywhere == {"sqlite", "mongo", "redis", "postgres", "seekdb", "llm"}

ASSUME ColumnsAssumption ==
    /\ Number \subseteq Int /\ Half32 \in Nat \ {0}
    /\ Word \cap Int = {} /\ DOMAIN Reads \subseteq Word
    /\ \A t \in DOMAIN Reads : Reads[t] \in Number
    /\ Declaration \subseteq UNION {[at : {p}, type : Types(p), required : BOOLEAN] : p \in Everywhere}

VARIABLES
    column, \* the column's declaration upstream
    schema, \* what the provider has registered, or Unread
    cells,  \* row to the column's value: as given and as held
    answer  \* the last answer, until the table changes

columnVars == <<column, schema, cells, answer>>

Val(is, v) == [is |-> is, v |-> v]
Nil        == Val("null", 0)
Missing    == Val("missing", 0) \* a document or a hash without the field
Gap        == [by |-> "nobody", given |-> Nil, held |-> Missing]
NoAnswer   == [how |-> "none", ok |-> FALSE, shown |-> [s \in Slot |-> Nil]]
Unread     == [type |-> "unread", nullable |-> TRUE]
\* A schema of the key alone: no row was there to learn the other columns from.
KeyOnly    == [type |-> "key only", nullable |-> TRUE]
\* The column was not in the row the others were learned from.
Hidden     == [type |-> "hidden", nullable |-> TRUE]
Typed(t)   == [type |-> t, nullable |-> TRUE]

Ints   == {Val("int", n) : n \in {m \in Number : m % 2 = 0}}
Reals  == {Val("real", n) : n \in Number}
AllTexts == {Val("text", t) : t \in Number \cup Word}
Bools  == {Val("bool", n) : n \in {0, 2}}
Blobs  == {Val("blob", w) : w \in Word}
Dates  == {Val("date", w) : w \in Word}
Numeric == {"int32", "int", "real"}
In32(n) == n \div 2 \in -Half32..(Half32 - 1)
Ints32  == {Val("int32", x.v) : x \in {y \in Ints : In32(y.v)}}

At(p) == column.at = p

-----------------------------------------------------------------------------
(* SQLite.                                                                  *)

\* "rowid" and "untyped" stand for columns that virtual tables declare without a type, "fts"
\* for one of a full-text table; the other names stand for all types that contain them.
SqliteType(t) ==
    CASE t = "rowid" -> "Int64"
      [] t = "untyped" -> "Binary"
      [] t = "fts" -> "Utf8"
      [] t = "INT" -> "Int64"
      [] t = "REAL" -> "Float64"
      [] t = "BLOB" -> "Binary"
      [] t = "BOOL" -> "Boolean"
      [] t \in {"TEXT", "DATE"} -> "Utf8"

SqliteEncoded(x) == IF x.is = "bool" THEN Val("int", x.v) ELSE x

\* SQLite's own conversion of what is written to a column of a declared type.
Affine(t, x) ==
    LET n == IF x.v \in DOMAIN Reads THEN Reads[x.v] ELSE x.v
        number == x.is \in Numeric \/ (x.is = "text" /\ n \in Number)
    IN  CASE t \in {"INT", "BOOL", "DATE"} /\ number -> Val(IF n % 2 = 0 THEN "int" ELSE "real", n)
          [] t = "REAL" /\ number -> Val("real", n)
          [] t = "TEXT" /\ x.is \in Numeric -> Val("text", x.v)
          [] OTHER -> x

\* Mutant: a number in a column of text is not shown.
SqliteShowsTextsOnly(type, x) ==
    CASE type = "Int64" /\ x.is = "int" -> x
      [] type = "Float64" /\ x.is \in {"real", "int"} -> Val("real", x.v)
      [] type = "Boolean" /\ x.is = "int" -> Val("bool", IF x.v = 0 THEN 0 ELSE 2)
      [] type = "Binary" /\ x.is = "blob" -> x
      [] type = "Utf8" /\ x.is = "text" -> Val("text", x.v)
      [] OTHER -> Nil

\* A value of another class than the column's type is shown as NULL.
SqliteShows(type, x) ==
    CASE type = "Int64" /\ x.is = "int" -> x
      [] type = "Float64" /\ x.is \in {"real", "int"} -> Val("real", x.v)
      [] type = "Boolean" /\ x.is = "int" -> Val("bool", IF x.v = 0 THEN 0 ELSE 2)
      [] type = "Binary" /\ x.is = "blob" -> x
      [] type = "Utf8" /\ x.is \in {"text", "int", "real"} -> Val("text", x.v)
      [] OTHER -> Nil

-----------------------------------------------------------------------------
(* Mongo.                                                                   *)

\* The type a $jsonSchema validator gives a field; "int or null" stands for a list of types.
ValidatorType(t) ==
    CASE t \in {"int", "int or null"} -> "Int32"
      [] t = "long" -> "Int64"
      [] t = "number" -> "Float64"
      [] t = "bool" -> "Boolean"
      [] t \in {"string", "date"} -> "Utf8"

\* The type of a field in the document that was sampled.
SampledType(x) ==
    CASE x.is = "int32" -> "Int32"
      [] x.is = "int" -> "Int64"
      [] x.is = "real" -> "Float64"
      [] x.is = "bool" -> "Boolean"
      [] OTHER -> "Utf8"

MongoEncoded(type, x) ==
    CASE x = Nil -> Missing
      [] x # Nil /\ type = "Int32" -> Val("int32", x.v)
      [] OTHER -> x

\* as i32: an i64 wraps around, a double is cut off and stays within the range.
Wrapped(n)   == 2 * ((((n \div 2) + Half32) % (2 * Half32)) - Half32)
Saturated(n) == IF In32(n) THEN 2 * (n \div 2) ELSE 2 * (Half32 - 1)
Truncated(n) == 2 * (n \div 2)

MongoShows(type, x) ==
    CASE x = Missing -> Nil
      [] x # Missing /\ type = "Utf8" -> Val("text", IF x = Nil THEN Blank ELSE x.v)
      [] type = "Int32" /\ x.is = "int32" -> Val("int", x.v)
      [] type = "Int32" /\ x.is = "int" -> Val("int", Wrapped(x.v))
      [] type = "Int32" /\ x.is = "real" -> Val("int", Saturated(x.v))
      [] type = "Int64" /\ x.is \in {"int32", "int"} -> Val("int", x.v)
      [] type = "Int64" /\ x.is = "real" -> Val("int", Truncated(x.v))
      [] type = "Float64" /\ x.is \in Numeric -> Val("real", x.v)
      [] type = "Boolean" /\ x.is = "bool" -> x
      [] OTHER -> Nil

-----------------------------------------------------------------------------
(* Redis.                                                                   *)

RedisEncoded(x) == Val("text", IF x = Nil THEN Blank ELSE x.v)
RedisShows(x)   == IF x = Missing THEN Val("text", Blank) ELSE x

-----------------------------------------------------------------------------
(* Postgres and SeekDB: SELECT and INSERT are the library's; the searches   *)
(* decode rows themselves.                                                  *)

\* "other" stands for dates, uuids, JSON and vectors, which are registered as text.
PostgresType(t) ==
    CASE t \in {"smallint", "integer", "serial"} -> "Int32"
      [] t = "bigint" -> "Int64"
      [] t = "real" -> "Float64"
      [] t = "numeric" -> "Decimal"
      [] t = "boolean" -> "Boolean"
      [] t \in {"text", "other"} -> "Utf8"

SeekDbType(t) ==
    CASE t = "tinyint(1)" -> "Boolean"
      [] t = "smallint" -> "Int16"
      [] t = "int" -> "Int32"
      [] t = "bigint" -> "Int64"
      [] t = "double" -> "Float64"
      [] t = "decimal" -> "Decimal"
      [] t \in {"varchar", "vector"} -> "Utf8"
      [] t = "blob" -> "Binary"
      [] t = "date" -> "Date32"
      [] t = "geometry" -> "hidden" \* no type for it: the column is left out

\* Types for which the searches build an array; any other one gets an array of texts.
Decodable == {"Int32", "Int64", "Float64", "Boolean", "Decimal", "Utf8"}

\* smallint is registered as Int32, which sqlx does not decode it as; an error for text is
\* taken as NULL.
PostgresSearches(t, x) == IF t = "other" THEN Nil ELSE x
PostgresDecodes(t, x)  == t = "smallint" => x = Nil

\* detect_auto_generated_columns: such a column is never sent, whatever INSERT says.
PostgresStores(t, x) == IF t = "serial" THEN {y \in Ints : In32(y.v)} ELSE {x}

-----------------------------------------------------------------------------
(* A property of the entities that llm_extract returns.  "union" stands for  *)
(* a list of types or none; lists and nested objects are left out.          *)

PropertyType(t) ==
    CASE t = "number" -> "Float64"
      [] t = "integer" -> "Int64"
      [] t = "boolean" -> "Boolean"
      [] t \in {"string", "union"} -> "Utf8"

\* append_field_value: a property that is missing or of another JSON type is NULL; any JSON can be
\* shown as text.
LlmShows(type, x) ==
    CASE type = "Utf8" /\ x \notin {Nil, Missing} -> Val("text", x.v)
      [] type = "Float64" /\ x.is \in Numeric -> Val("real", x.v)
      [] type = "Int64" /\ x.is = "int" -> x
      [] type = "Boolean" /\ x.is = "bool" -> x
      [] OTHER -> Nil

-----------------------------------------------------------------------------
(* Values.                                                                  *)

\* Values of a registered type, as an INSERT is given them after its casts.
Given(type) ==
    CASE type = "Int64" -> Ints
      [] type \in {"Int32", "Int16"} -> {x \in Ints : In32(x.v)}
      [] type \in {"Float64", "Decimal"} -> Reals
      [] type = "Boolean" -> Bools
      [] type = "Binary" -> Blobs
      [] type = "Utf8" -> AllTexts
      [] type = "Date32" -> Dates
      [] OTHER -> {}

\* What other clients may have the database hold.
Admitted(c) ==
    CASE c.at = "sqlite" /\ c.type = "rowid" -> Ints
      [] c.at = "sqlite" /\ c.type = "untyped" -> Blobs
      [] c.at = "sqlite" /\ c.type \notin {"rowid", "untyped"} ->
            {Affine(c.type, x) : x \in Ints \cup Reals \cup AllTexts \cup Blobs}
            \cup (IF c.required THEN {} ELSE {Nil})
      [] c.at = "mongo" ->
            (CASE c.type = "int" -> Ints32
               [] c.type = "int or null" -> Ints32 \cup {Nil}
               [] c.type = "long" -> Ints
               [] c.type = "number" -> Ints32 \cup Ints \cup Reals
               [] c.type = "bool" -> Bools
               [] c.type = "string" -> AllTexts
               [] c.type = "date" -> Dates
               [] c.type = "any" -> Ints32 \cup Ints \cup Reals \cup Bools \cup AllTexts \cup Dates \cup {Nil})
            \cup (IF c.required THEN {} ELSE {Missing})
      [] c.at = "redis" -> AllTexts \cup {Missing}
      [] c.at = "postgres" ->
            (IF c.type = "other" THEN Dates ELSE Given(PostgresType(c.type))) \cup {Nil}
      [] c.at = "seekdb" -> Given(SeekDbType(c.type)) \cup {Nil}
      [] c.at = "llm" -> Ints \cup Reals \cup Bools \cup AllTexts \cup {Nil, Missing}

Held(x) ==
    CASE At("sqlite") -> {Affine(column.type, SqliteEncoded(x))}
      [] At("mongo") -> {MongoEncoded(schema.type, x)}
      [] At("redis") -> {RedisEncoded(x)}
      [] At("postgres") -> PostgresStores(column.type, x)
      [] At("seekdb") -> {x}

Shown(x) ==
    CASE At("sqlite") -> SqliteShows(schema.type, x)
      [] At("mongo") -> MongoShows(schema.type, x)
      [] At("redis") -> RedisShows(x)
      [] At("llm") -> LlmShows(schema.type, x)
      [] OTHER -> x

Occupied == {s \in Slot : cells[s] # Gap}

-----------------------------------------------------------------------------
(* Actions.                                                                 *)

ColumnsInit ==
    /\ column \in Declaration /\ schema = Unread
    /\ cells = [s \in Slot |-> Gap] /\ answer = NoAnswer

\* Another client writes a row of its own, or the language model answers one.
ClientWrites(s) ==
    \E x \in Admitted(column) :
       /\ cells' = [cells EXCEPT ![s] = [by |-> "client", given |-> x, held |-> x]]
       /\ answer' = NoAnswer
       /\ UNCHANGED <<column, schema>>

\* Another client drops a Mongo collection's validator.
Relax ==
    /\ At("mongo") /\ column.type # "any"
    /\ column' = [column EXCEPT !.type = "any", !.required = FALSE]
    /\ answer' = NoAnswer
    /\ UNCHANGED <<schema, cells>>

\* Mongo samples one document and Redis one hash, whichever the server finds first.
Learned(s) ==
    IF cells[s].held = Missing THEN Hidden
    ELSE Typed(IF At("mongo") THEN SampledType(cells[s].held) ELSE "Utf8")

\* At Redis, columns may be declared in the source's options, for a table that has no rows.
ReadSchema ==
    /\ schema = Unread
    /\ \/ /\ At("sqlite")
          /\ schema' = [type |-> SqliteType(column.type), nullable |-> ~column.required]
       \/ /\ At("mongo") /\ column.type # "any"
          /\ schema' = [type |-> ValidatorType(column.type), nullable |-> ~column.required]
       \/ /\ At("redis") \/ column = [at |-> "mongo", type |-> "any", required |-> FALSE]
          /\ \/ Occupied = {} /\ schema' = IF column.type = "declared" THEN Typed("Utf8") ELSE KeyOnly
             \/ \E s \in Occupied : schema' = Learned(s)
       \/ At("postgres") /\ schema' = Typed(PostgresType(column.type))
       \/ At("seekdb") /\ schema' = Typed(SeekDbType(column.type))
       \/ At("llm") /\ schema' = Typed(PropertyType(column.type))
    /\ UNCHANGED <<column, cells, answer>>

\* current_schema: a statement at Redis learns the columns as soon as there is a row, and then
\* keeps them for good; at Mongo there is no second look.
Relearn ==
    /\ At("redis") /\ schema = KeyOnly /\ Occupied # {}
    /\ \E s \in Occupied : schema' = Learned(s)
    /\ UNCHANGED <<column, cells, answer>>

\* A NOT NULL column or a required field takes no NULL; a NULL rowid asks for a new one.
InsertValue(s) ==
    \E x \in Given(schema.type) \cup (IF schema.nullable THEN {Nil} ELSE {}) :
       /\ ~At("llm") /\ Given(schema.type) # {} /\ ~(At("sqlite") /\ column.type = "rowid" /\ x = Nil)
       /\ \E held \in Held(x) :
             cells' = [cells EXCEPT ![s] = [by |-> "skardi", given |-> x, held |-> held]]
       /\ answer' = NoAnswer
       /\ UNCHANGED <<column, schema>>

Answer(how, ok, shown) ==
    /\ answer' = [how |-> how, ok |-> ok,
                  shown |-> [s \in Slot |-> IF ok /\ s \in Occupied THEN shown[s] ELSE Nil]]
    /\ UNCHANGED <<column, schema, cells>>

\* RecordBatch::try_new refuses a NULL in a column that is not nullable: no row is shown.
Scan ==
    /\ Given(schema.type) # {}
    /\ LET shown == [s \in Slot |-> Shown(cells[s].held)]
       IN  Answer("scan", schema.nullable \/ \A s \in Occupied : shown[s] # Nil, shown)

\* The search functions of Postgres and SeekDB; SQLite's and Mongo's show what a scan shows.
SearchRows ==
    /\ At("postgres") \/ At("seekdb")
    /\ Given(schema.type) # {}
    /\ LET x(s) == cells[s].held
           t == column.type
       IN  \/ /\ At("postgres")
              /\ Answer("search", \A s \in Occupied : PostgresDecodes(t, x(s)),
                          [s \in Slot |-> PostgresSearches(t, x(s))])
           \/ /\ At("seekdb")
              /\ Answer("search", schema.type \in Decodable, [s \in Slot |-> x(s)])

ColumnsNext ==
    \/ \E s \in Slot : ClientWrites(s) \/ InsertValue(s)
    \/ Relax \/ ReadSchema \/ Relearn \/ Scan \/ SearchRows

ColumnsSpec == ColumnsInit /\ [][ColumnsNext]_columnVars

-----------------------------------------------------------------------------
(* Properties.                                                              *)

Keeps(x, y) == x.v = y.v /\ (x = Nil <=> y \in {Nil, Missing})
NoValue(x)  == x \in {Nil, Missing}

\* A row INSERTed here is shown as it was given, with four exceptions: Redis has no NULL, SQLite
\* turns a text like 1.50 in a DATE or DECIMAL column into a number, Postgres fills its
\* generated columns itself, and its searches cannot read a date, which they show as NULL.
GivenIsShown(s) ==
    LET x == cells[s].given  y == answer.shown[s]
    IN  \/ Keeps(y, x)
        \/ At("redis") /\ x = Nil /\ y.v = Blank
        \/ At("sqlite") /\ column.type = "DATE" /\ x.v \in DOMAIN Reads /\ y.v = Reads[x.v]
        \/ At("postgres") /\ column.type = "serial" /\ Keeps(y, cells[s].held)
        \/ At("postgres") /\ column.type = "other" /\ answer.how = "search" /\ y = Nil

\* A row of another client is shown as it is, or as NULL if it is of another type than was
\* registered; only SQLite's booleans and Mongo's integers show another value than is there.
HeldIsShown(s) ==
    LET x == cells[s].held  y == answer.shown[s]
    IN  \/ Keeps(y, x)
        \/ NoValue(x) /\ y.v = Blank /\ (At("redis") \/ At("mongo"))
        \/ y = Nil /\ \/ At("sqlite") /\ SqliteEncoded(x) \notin {Affine(column.type, SqliteEncoded(g)) :
                                                                  g \in Given(schema.type)}
                      \/ At("mongo") /\ x \notin {MongoEncoded(schema.type, g) : g \in Given(schema.type)}
                      \/ At("postgres") /\ column.type = "other" /\ answer.how = "search"
                      \/ At("llm") /\ x \notin Given(schema.type)
                            \cup (IF schema.type = "Float64" THEN Ints ELSE {})
        \/ At("sqlite") /\ schema.type = "Boolean" /\ y = Val("bool", 2)
        \/ At("mongo") /\ schema.type \in {"Int32", "Int64"} /\ x.is \in Numeric

\* What is written is what is read: through the type read at registration, the database's own
\* conversions and the rows of other clients.  An answer fails only for a row of another client
\* that leaves a required column without a value that can be shown, or in a search over a column
\* of a type the search cannot decode.
RowsShowWhatWasWritten ==
    /\ answer.how # "none" /\ answer.ok =>
          \A s \in Occupied : IF cells[s].by = "skardi" THEN GivenIsShown(s) ELSE HeldIsShown(s)
    /\ answer.how # "none" /\ ~answer.ok =>
          \/ answer.how = "scan" /\ ~schema.nullable /\ \E s \in Occupied : cells[s].by = "client"
          \/ answer.how = "search" /\ At("postgres") /\ column.type = "smallint"
          \/ answer.how = "search" /\ At("seekdb") /\ column.type \in {"smallint", "blob", "date"}
=============================================================================
