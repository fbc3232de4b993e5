----------------------------- MODULE Pipelines -----------------------------
(***************************************************************************)
(* Pipeline queries (crates/skardi/src/pipeline/inferencer.rs, sources/    *)
(* sql_validator.rs, crates/server/src/pipeline_handlers.rs): which of     *)
(* them the access modes admit, which column each parameter is taken to    *)
(* be compared with, and the statement that comes of a request's values.   *)
(*                                                                         *)
(* A query is [verb, target, reads, holes]: the table it writes, <<>> for  *)
(* none, the tables it reads, and its placeholders in the order of the     *)
(* text, each with the column beside it and the place it stands in.        *)
(***************************************************************************)
EXTENDS Integers, FiniteSets, SequencesExt

CONSTANTS Param,      \* parameter names; as a token of a text, the placeholder {name}
          NameLength, \* length of a parameter's name
          NamedAfter, \* column a parameter's name stands for: its name less min_ or max_
          Absent      \* no value given

Verb  == {"select", "insert", "update", "delete", "ddl"}
\* "comma" is the first place of LIMIT offset, limit.
Place == {"compared", "limit", "offset", "comma", "elsewhere"}

-----------------------------------------------------------------------------
(* Access modes.                                                            *)

\* Mutant: a write is looked up by its first name.
AllowedByFirstName(query, readOnly) ==
    CASE query.verb = "ddl" -> FALSE
      [] query.verb \in {"insert", "update", "delete"} -> Head(query.target) \notin readOnly
      [] OTHER -> TRUE

\* validate_statement: no DDL, no write to a name that is a read-only source's.  The last
\* part of a table's name counts, and a name that is no source's is let through.
Allowed(query, readOnly) ==
    CASE query.verb = "ddl" -> FALSE
      [] query.verb \in {"insert", "update", "delete"} -> Last(query.target) \notin readOnly
      [] OTHER -> TRUE

-----------------------------------------------------------------------------
(* Parameters and the columns they are compared with.                       *)

Params(query) == {query.holes[i].param : i \in DOMAIN query.holes}

FirstHole(query, p) ==
    CHOOSE i \in DOMAIN query.holes :
        query.holes[i].param = p /\ \A j \in 1..(i - 1) : query.holes[j].param # p

\* convert_named_to_placeholders: each name once, by its first place in the text.
ParameterOrder(query) == {FirstHole(query, p) : p \in Params(query)}

\* Mutant: a placeholder that is not beside a column is recorded as well.
RecordedEverywhere(query) == [i \in DOMAIN query.holes |-> query.holes[i].column]

OffsetFirst(query) ==
    \E i, j \in DOMAIN query.holes :
        i < j /\ query.holes[i].place = "offset" /\ query.holes[j].place = "limit"

Own(hole) == CASE hole.place \in {"limit", "offset"} -> hole.place
               [] hole.place = "comma" -> "offset"
               [] OTHER -> hole.column

\* LIMIT is visited before OFFSET, in whatever order they stand.
Visited(query, hole) ==
    CASE OffsetFirst(query) /\ hole.place = "limit" -> "offset"
      [] OffsetFirst(query) /\ hole.place = "offset" -> "limit"
      [] OTHER -> Own(hole)

\* extract_placeholder_columns: comparisons and IN lists of the WHERE clause, LIMIT and
\* OFFSET; placeholders of LIKE, BETWEEN, function calls, SET and VALUES leave no mark.
Recorded(query) ==
    [i \in {j \in DOMAIN query.holes : query.holes[j].place # "elsewhere"} |->
        Visited(query, query.holes[i])]

\* How many of the places S come up to i.
Nth(S, i) == Cardinality({j \in S : j <= i})

\* extract_named_parameters: the n-th name goes with the n-th mark.
InferredColumns(query) ==
    LET marks == Recorded(query)
    IN  [p \in Params(query) |->
            LET n == Nth(ParameterOrder(query), FirstHole(query, p))
            IN  IF n <= Cardinality(DOMAIN marks)
                THEN marks[CHOOSE i \in DOMAIN marks : Nth(DOMAIN marks, i) = n]
                ELSE NamedAfter[p]]

-----------------------------------------------------------------------------
(* Substitution.  A value is [shape, text]: what kind of JSON value it is   *)
(* and the tokens it is written with; a string may hold a placeholder.      *)

\* A sequence of tokens.
IsText(text) == text \in Seq(ToSet(text))

Unsupported == {"empty", "mixed", "ragged", "object"}

\* The text around the placeholders is the column before each of them.
Template(query) ==
    FlattenSeq([i \in DOMAIN query.holes |-> <<query.holes[i].column, query.holes[i].param>>])

\* Names come out of a hash map and are sorted, longest first.
Orders(query) ==
    {o \in SetToSeqs(Params(query)) :
        \A i \in 1..(Len(o) - 1) : NameLength[o[i]] >= NameLength[o[i + 1]]}

\* str::replace of one placeholder, wherever it stands by now.
Replaced(text, p, value) == [i \in DOMAIN text |-> IF text[i] = p THEN value ELSE <<text[i]>>]

\* substitute_sql_params: one name after the other, in the text the names before have left.
Substituted(text, order, given) ==
    FoldLeft(LAMBDA t, p : FlattenSeq(Replaced(t, p, given[p].text)), text, order)

Missing(query, given)     == {p \in Params(query) : given[p] = Absent}
Unrendered(query, given)  == {p \in Params(query) : given[p] # Absent /\ given[p].shape \in Unsupported}

-----------------------------------------------------------------------------
(* What the results ought to be.                                            *)

\* Every placeholder has its value at once.
AtOnce(query, given) ==
    FlattenSeq([i \in DOMAIN Template(query) |->
        IF Template(query)[i] \in Params(query) THEN given[Template(query)[i]].text
        ELSE <<Template(query)[i]>>])

\* No value holds a placeholder of the query.
Plain(query, given) ==
    \A p \in Params(query) : \A i \in DOMAIN given[p].text : given[p].text[i] \notin Params(query)

\* Every placeholder leaves a mark, no name is used twice, and OFFSET is not before LIMIT.
Marked(query) ==
    /\ ~OffsetFirst(query)
    /\ \A i \in DOMAIN query.holes : query.holes[i].place # "elsewhere"
    /\ Cardinality(Params(query)) = Len(query.holes)

OwnColumns(query) ==
    [p \in Params(query) |-> Own(query.holes[FirstHole(query, p)])]
=============================================================================
