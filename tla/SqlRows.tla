------------------------------ MODULE SqlRows ------------------------------
(***************************************************************************)
(* Rows and filters of the table providers (crates/skardi/src/sources/     *)
(* providers): what a WHERE clause means to DataFusion, which filters the  *)
(* rows a scan returns, and what each provider makes of the same clause    *)
(* when a DELETE or an UPDATE hands it over.                               *)
(***************************************************************************)
EXTENDS Integers, FiniteSets

CONSTANTS Key,       \* values of the key column
          Column,    \* the other columns
          Value,     \* their values, positive numbers
          KeyColumn, \* key_column, primary_key
          Null,      \* no value in this column
          Absent     \* no row under this key

Blank == 0           \* the empty string, which sorts before everything

ASSUME RowsAssumption ==
    /\ Value \subseteq Nat \ {Blank}
    /\ KeyColumn \notin Column
    /\ Absent \notin [Column -> Value \cup {Blank, Null} \cup Column]
    /\ Null \notin Key \cup Value \cup {Blank} \cup Column

Number == Value \cup {Blank}
\* A column may hold another column's name: expr_to_bson_value makes a string of it.
Cell  == Number \cup {Null} \cup Column
Row   == [Column -> Cell]
Table == [Key -> Row \cup {Absent}]

Present(table) == {k \in Key : table[k] # Absent}

\* One conjunct of a WHERE clause: a column compared with a literal or with a column,
\* or an OR of two such comparisons.
Operand    == [kind : {"literal"}, of : Value \cup Key] \cup [kind : {"column"}, of : Column]
Comparison == [op : {"=", "<>", "<"}, col : Column \cup {KeyColumn}, rhs : Operand]
Filter     == Comparison \cup [op : {"or"}, left : Comparison, right : Comparison]

Cells(k, row) == [c \in Column \cup {KeyColumn} |-> IF c = KeyColumn THEN k ELSE row[c]]
Rhs(cells, rhs) == IF rhs.kind = "literal" THEN rhs.of ELSE cells[rhs.of]

Below(x, y) == x \in Number /\ y \in Number /\ x < y
Compare(op, x, y) ==
    CASE op = "="  -> x = y
      [] op = "<>" -> x # y
      [] op = "<"  -> Below(x, y)

-----------------------------------------------------------------------------
(* SQL: a comparison with NULL is unknown, and only what is true is selected. *)

SqlTrue(cells, f) ==
    LET x == cells[f.col]  y == Rhs(cells, f.rhs)
    IN  x # Null /\ y # Null /\ Compare(f.op, x, y)

SqlMatches(k, row, filters) ==
    \A f \in filters :
        IF f.op = "or" THEN SqlTrue(Cells(k, row), f.left) \/ SqlTrue(Cells(k, row), f.right)
                       ELSE SqlTrue(Cells(k, row), f)

-----------------------------------------------------------------------------
(* Redis: evaluate_filters on the strings of one hash.                      *)

\* A scan shows a field the hash does not have as an empty string.
RedisView(row) == [c \in Column |-> IF row[c] = Null THEN Blank ELSE row[c]]

\* Mutant: a missing field makes the comparison false, as a NULL would.
RedisCompareSkipsMissing(k, row, f) ==
    LET cells == Cells(k, row)
    IN  SqlTrue(cells, f)

\* resolve_value reads a missing field as "".
RedisCompare(k, row, f) ==
    LET cells == Cells(k, RedisView(row))
    IN  Compare(f.op, cells[f.col], Rhs(cells, f.rhs))

RedisMatches(k, row, filters) ==
    \A f \in filters :
        IF f.op = "or" THEN RedisCompare(k, row, f.left) \/ RedisCompare(k, row, f.right)
                       ELSE RedisCompare(k, row, f)

\* The fast path: the only filter is key_column = literal, and its key is not looked up.
KeyEq(filters) ==
    {f.rhs.of : f \in {g \in filters : Cardinality(filters) = 1 /\ g.op = "="
                                        /\ g.col = KeyColumn /\ g.rhs.kind = "literal"}}

-----------------------------------------------------------------------------
(* Mongo: a filter document with one entry per conjunct.                    *)

\* A column on the right is sent as a string with its name; $ne also matches documents
\* without the field, $lt only values of the literal's type.
MongoCompare(k, row, f) ==
    LET x == Cells(k, row)[f.col]  y == f.rhs.of
    IN  IF f.op = "<" THEN x # Null /\ Below(x, y) ELSE Compare(f.op, x, y)

MongoMatches(k, row, filters) == \A f \in filters : MongoCompare(k, row, f)

\* Only comparisons with a column on one side; an OR is refused.
MongoSupports(filters) == \A f \in filters : f.op # "or"

\* is_pushable_binary_filter: what a scan sends along; DataFusion filters again above it.
Pushable(filters) == {f \in filters : f.op # "or" /\ f.rhs.kind = "literal"}

-----------------------------------------------------------------------------
(* SET column = expression.                                                 *)

Assignment == [col : Column \cup {KeyColumn}, rhs : Operand]

SqlAssign(k, row, a)  == [row EXCEPT ![a.col] = Rhs(Cells(k, row), a.rhs)]
MongoAssign(row, a)   == [row EXCEPT ![a.col] = a.rhs.of]
\* HSET creates the hash if there is none.
RedisAssign(row, a)   ==
    [IF row = Absent THEN [c \in Column |-> Null] ELSE row EXCEPT ![a.col] = a.rhs.of]

-----------------------------------------------------------------------------
(* What INSERT stores of one input row.                                     *)

\* Redis writes an empty string for NULL, Mongo leaves the field out.
RedisStores(row) == RedisView(row)
=============================================================================
