------------------------- MODULE MCTableStatements -------------------------
(***************************************************************************)
(* Small instances of TableStatements and Search: two keys, two columns,   *)
(* the statements whose filters tell SQL, Redis and Mongo apart, two of    *)
(* them at a time; and one search beside an UPDATE and a SELECT.           *)
(***************************************************************************)
EXTENDS Search

CONSTANTS k1, k2, a, b, s1, s2, x1

Literal(v) == [kind |-> "literal", of |-> v]
Col(c)     == [kind |-> "column", of |-> c]
Is1(c)     == [op |-> "=", col |-> c, rhs |-> Literal(1)]
Not1       == [op |-> "<>", col |-> a, rhs |-> Literal(1)]
Below2     == [op |-> "<", col |-> b, rhs |-> Literal(2)]
Key1       == [op |-> "=", col |-> KeyColumn, rhs |-> Literal(k1)]
Either     == [op |-> "or", left |-> Is1(a), right |-> Below2]
Same       == [op |-> "=", col |-> a, rhs |-> Col(b)]

Pair(x, y)  == [c \in Column |-> IF c = a THEN x ELSE y]
New(k, row) == [key |-> k, row |-> row]
Two         == <<New(k1, Pair(2, 1)), New(k2, Pair(1, Null))>>
Twice       == <<New(k1, Pair(1, 1)), New(k1, Pair(2, Null))>>
To2(c)      == [col |-> c, rhs |-> Literal(2)]

Statement(kind, where, set, input) ==
    [kind |-> kind, where |-> where, set |-> set, input |-> input]

Queries ==
    {Statement("select", w, To2(b), <<>>) : w \in {{}, {Not1}, {Either}}}
    \cup {Statement("delete", w, To2(b), <<>>) :
             w \in {{}, {Key1}, {Not1}, {Is1(a), Below2}, {Same}, {Either}}}
    \cup {Statement("update", w, To2(b), <<>>) : w \in {{Key1}, {Is1(a)}}}
    \cup {Statement("update", {Is1(a)}, [col |-> b, rhs |-> Col(a)], <<>>)}
    \cup {Statement("update", {Is1(a)}, To2(KeyColumn), <<>>)}
    \cup {Statement("insert", {}, To2(b), input) : input \in {Two, Twice}}
    \cup {Statement("overwrite", {}, To2(b), Two)}

Tables ==
    {[k \in Key |-> IF k = k1 THEN x ELSE y] :
        x \in {Absent, Pair(1, 2)}, y \in {Pair(Null, 1)}}

OneOne == Pair(1, 1)

\* The second statement is there to interfere.
Update1   == Statement("update", {Is1(a)}, To2(b), <<>>)
SelectAll == Statement("select", {}, To2(b), <<>>)
Replace   == Statement("overwrite", {}, To2(b), Two)
Against(x, y) == [s \in {s1, s2} |-> IF s = s1 THEN x ELSE y]

Pairs == {Against(x, Update1) : x \in Queries}
         \cup {Against(x, SelectAll) : x \in {q \in Queries : q.where = {} /\ q.kind # "select"}}
         \cup {Against(x, Replace) : x \in {q \in Queries : q.where = {Not1}}}

From(k)   == [kind |-> "row", of |-> k]
Searching(fn, n, of, inline, where, limit) ==
    [fn |-> fn, col |-> b, n |-> n, of |-> of, inline |-> inline, where |-> where, limit |-> limit]

\* Nearest to 1 is k2, as far as WHERE and a filter argument allow it.
Looks ==
    {Searching("knn", n, Literal(1), <<>>, w, Null) : n \in {1, 2}, w \in {<<>>, <<Either, Not1>>}}
    \cup {Searching("knn", 1, From(k1), <<>>, w, Null) : w \in {<<>>, <<Is1(a)>>}}
    \cup {[Searching("knn", 1, From(k2), <<>>, <<>>, Null) EXCEPT !.col = a]}
    \cup {Searching("knn", 2, Literal(1), <<>>, <<Is1(a)>>, 1)}
    \cup {Searching("knn", 1, Literal(1), <<Either>>, w, Null) : w \in {<<>>, <<Not1>>}}
    \cup {Searching("fts", 1, Literal(1), <<>>, w, Null) : w \in {<<>>, <<Is1(a)>>, <<Not1>>, <<Either>>}}
    \cup {Searching("fts", 2, Literal(1), <<>>, <<Is1(a)>>, 1)}
    \cup {Searching(fn, n, Literal(1), <<>>, <<>>, Null) : fn \in {"knn", "fts"}, n \in {0, 3}}

Writers == Against(Update1, Statement("select", {Not1}, To2(b), <<>>))

Idle == [x \in {x1} |-> NoLook]
One(l) == [x \in {x1} |-> l]

Workloads == Pairs \cup {Writers}

\* Lance, where nobody writes what is searched, answers all searches.  Of the servers that
\* are sent the same SQL, Postgres answers the most; MySQL has no search.
Plain    == {l \in Looks : l.where = <<>> /\ l.n = 1 /\ l.inline = <<>>}
Filtered == {l \in Looks : l.fn = "knn" /\ l.n = 2 /\ l.where # <<>>}
Nested   == {l \in Looks : l.inline # <<>> \/ l.where = <<Either>>}

Sessions ==
    {<<p, w, Idle>> : p \in Provider \ {"lance"}, w \in Pairs}
    \cup {<<"lance", Writers, One(l)>> : l \in Looks}
    \cup {<<"postgres", Writers, One(l)>> : l \in Plain \cup Nested \cup Filtered}
    \cup {<<"sqlite", Writers, One(l)>> : l \in Plain \cup Filtered}
    \cup {<<"seekdb", Writers, One(l)>> : l \in {m \in Plain : m.of # From(k1)}}
    \cup {<<"mongo", Writers, One(l)>> : l \in {m \in Looks : m.fn = "fts" /\ m.where = <<Either>>}}
    \cup {<<"mongo", Writers, One(l)>> : l \in {m \in Looks : m.fn = "fts" /\ m.n = 0}}
    \cup {<<"mysql", Writers, One(l)>> : l \in {m \in Plain : m.fn = "fts"}}
=============================================================================
