------------------------------ MODULE MCValues ------------------------------
(* Small instances of the parts that turn values into other values: the      *)
(* functions that call models (ModelFunctions), onnx_predict (Onnx), a column *)
(* of a table (Columns), a directory of documents (Documents), the           *)
(* declaration of a source (Sources) and the tables of sign-ins (Auth).  They *)
(* share no state, so a behaviour is of one part, and the others stay as they *)
(* are at the beginning.                                                      *)
EXTENDS ModelFunctions, Columns, Onnx, Documents, Sources, Auth

VARIABLE part

-----------------------------------------------------------------------------
(* ModelFunctions: two batches at once, rows without text, with the empty    *)
(* text and with images, more texts than a request takes, and each way to    *)
(* set the functions up.                                                     *)

CONSTANTS e1, e2, p1, p2, t1, t2

R(text, image) == [text |-> text, image |-> image]
Of(rows, p)    == [rows |-> rows, model |-> p]

Local1(f)       == [function |-> f, api |-> "plain", cap |-> Null, vision |-> FALSE, fetch |-> FALSE,
                    required |-> FALSE]
Llm(api, cap, vision, fetch, required) ==
    [function |-> "llm_extract", api |-> api, cap |-> cap, vision |-> vision, fetch |-> fetch,
     required |-> required]

Settings == {Local1(f) : f \in Local \cup {"remote_embed"}}
            \cup {Llm("plain", 1, TRUE, FALSE, FALSE), Llm("compat", Null, TRUE, TRUE, TRUE),
                  Llm("plain", 0, FALSE, TRUE, TRUE)}

Mixed  == <<R(t1, "inline"), R(Null, "inline"), R(t2, "elsewhere")>>
Short  == <<R(t2, "inline"), R(Empty, "none")>>
Long   == <<R(t1, "none"), R(Null, "none"), R(t2, "none"), R(Empty, "none")>>
NoText == <<R(Null, "none")>>

Pair(x, y) == [e \in {e1, e2} |-> IF e = e1 THEN x ELSE y]
Batches == {Pair(Of(Mixed, p1), Of(NoText, p1)), Pair(Of(Mixed, p1), Of(Short, p2)),
            Pair(Of(NoText, p1), Of(Short, p1)), Pair(Of(Long, p1), Of(NoText, p2))}

Found == {<<>>, <<"bare">>, <<"strong", "weak">>, <<"error", "strong">>}

-----------------------------------------------------------------------------
(* Columns: every declared type, in every database that has it.              *)

CONSTANTS w, padded, blank

Padded == [x \in {padded} |-> 3]

D(at, types, required) == {[at |-> at, type |-> t, required |-> r] : t \in types, r \in required}

Declared ==
    D("sqlite", {"INT", "REAL", "BLOB", "BOOL", "TEXT", "DATE", "fts"}, BOOLEAN)
    \cup D("sqlite", {"rowid", "untyped"}, {FALSE})
    \cup D("mongo", {"int", "int or null", "long", "number", "bool", "string", "date"}, BOOLEAN)
    \cup D("mongo", {"any"}, {FALSE})
    \cup D("redis", {"declared", "undeclared"}, {FALSE})
    \cup D("postgres", {"smallint", "integer", "serial", "bigint", "real", "numeric", "boolean",
                        "text", "other"}, {FALSE})
    \cup D("seekdb", {"tinyint(1)", "smallint", "int", "bigint", "double", "decimal", "varchar",
                      "vector", "blob", "date", "geometry"}, {FALSE})
    \cup D("llm", {"number", "integer", "boolean", "string", "union"}, {FALSE})

-----------------------------------------------------------------------------
(* Onnx: columns, lists and literals, of one length and of several.          *)

Columns2(f, g) == <<[form |-> f, int |-> TRUE], [form |-> g, int |-> TRUE]>>
Floats(f)      == <<[form |-> f, int |-> FALSE]>>
Q(integers, inputs, literalPath, forms, rows) ==
    [integers |-> integers, inputs |-> inputs, literalPath |-> literalPath, forms |-> forms,
     rows |-> [i \in DOMAIN rows |-> [path |-> rows[i][1], args |-> rows[i][2]]]]

Args2(p, x, y) == <<p, <<x, y>>>>
Three    == <<Args2(p1, <<1>>, <<2>>), Args2(p1, <<3>>, <<NoNumber>>), Args2(p1, <<2>>, <<2>>)>>
TwoPaths == <<Args2(p1, <<1>>, <<2>>), Args2(p2, <<3>>, <<1>>)>>
Alike    == <<Args2(p1, <<1>>, <<5>>), Args2(p1, <<3>>, <<5>>)>>
FiveFive == <<Args2(p1, <<5>>, <<5>>), Args2(p1, <<5>>, <<5>>)>>
Lists    == <<Args2(p1, <<1, 2>>, <<3, 4, 5>>), Args2(p1, <<6>>, <<7, 8>>), Args2(p1, <<6, 9>>, <<7>>)>>
ListsAnd5    == <<Args2(p1, <<1, 2>>, <<5>>), Args2(p1, <<3>>, <<5>>)>>
FiveAndLists == <<Args2(p1, <<5>>, <<1, 2>>), Args2(p1, <<5>>, <<3>>)>>
Matrices == <<<<p1, <<<<1, 2>>>>>>, <<p1, <<<<3, NoNumber>>>>>>>>
Singles  == <<<<p1, <<<<1>>>>>>, <<p1, <<<<NoNumber>>>>>>, <<p1, <<<<3>>>>>>>>

Queries ==
    {Q(i, n, l, Columns2("column", "column"), rows) :
        i \in BOOLEAN, n \in 1..3, l \in BOOLEAN, rows \in {Three}}
    \cup {Q(i, n, FALSE, Columns2("column", "column"), TwoPaths) : i \in BOOLEAN, n \in 1..3}
    \cup {Q(i, 2, TRUE, Columns2("column", "literal"), Alike) : i \in BOOLEAN}
    \cup {Q(i, 2, l, Columns2("literal", "literal"), FiveFive) : i \in BOOLEAN, l \in BOOLEAN}
    \cup {Q(i, 2, TRUE, Columns2("list", "list"), Lists) : i \in BOOLEAN}
    \cup {Q(i, 2, TRUE, Columns2("list", "literal"), ListsAnd5) : i \in BOOLEAN}
    \cup {Q(i, 2, TRUE, Columns2("literal", "list"), FiveAndLists) : i \in BOOLEAN}
    \cup {Q(FALSE, 1, TRUE, Floats("list"), Matrices), Q(FALSE, 1, TRUE, Floats("column"), Singles)}

-----------------------------------------------------------------------------

(* Documents: a/b.pdf and a_b.pdf, whose images have the same names, and an   *)
(* image of two pages.  Two queries at a time read one file only.             *)

CONSTANTS nested, flat, picture, top, sub

Directories == [f \in {nested, flat, picture} |-> IF f = nested THEN sub ELSE top]
Ranks == [f \in {nested, flat, picture} |-> CASE f = nested -> 1 [] f = flat -> 2 [] OTHER -> 3]
Stems == [f \in {nested, flat, picture} |-> IF f = picture THEN 2 ELSE 1]
LinesOf == [f \in {nested, flat, picture} |->
    CASE f = nested -> <<<<"row", "rule", "row", "row", "text">>>>
      [] f = flat -> <<<<"text", "row", "row", "rule", "text", "rule", "rule">>>>
      [] OTHER -> <<<<"row", "rule", "row", "rule", "row">>,
                    <<"rule", "row", "rule", "text", "row", "rule">>>>]

O(recursive, globs, crops, render, to, ocr, server) ==
    [recursive |-> recursive, globs |-> globs, crops |-> crops, render |-> render, store |-> to,
     ocr |-> ocr, server |-> server]
ForTwo  == O(FALSE, {flat}, FALSE, TRUE, "local", "auto", TRUE)
Options == {ForTwo,
            O(TRUE, {nested, flat}, TRUE, TRUE, "local", "auto", TRUE),
            O(TRUE, {picture}, TRUE, TRUE, "local", "on", TRUE),
            O(FALSE, {nested, flat, picture}, TRUE, FALSE, "remote", "auto", FALSE),
            O(TRUE, {nested, flat}, TRUE, FALSE, "none", "on", FALSE),
            O(TRUE, {nested, flat, picture}, FALSE, FALSE, "none", "off", TRUE)}

-----------------------------------------------------------------------------
(* Sources: each kind, with what its options and environment may lack, logins *)
(* that hold the marks of a URL, every kind of table, and Iceberg's writers.  *)

Url(user, host, port, db) ==
    [user |-> user, pass |-> user, host |-> host, port |-> port, srv |-> FALSE, db |-> db,
     query |-> {"sslmode"}]
Remote == Url(<<"n">>, <<"h">>, 0, <<"d", "e">>)
NoHost == Url(Unset, Unset, 0, <<"d">>)
Srv    == [Url(Unset, <<"h">>, 0, <<>>) EXCEPT !.srv = TRUE]
Urls   == {Remote, NoHost, Url(Unset, <<"h">>, 7, <<>>)}

Source(kind, catalog, write, url, s3, given, allowed) ==
    [kind |-> kind, catalog |-> catalog, write |-> write, url |-> url, s3 |-> s3, given |-> given,
     allowed |-> allowed, size |-> 2]

Env(user, pass, token) ==
    [user |-> user, pass |-> pass, token |-> token, region |-> <<"r">>, region2 |-> Unset,
     key |-> Unset, secret |-> Unset, session |-> Unset, profile |-> Unset]
Marked == <<"a", ":", "@", "/">>
Bare   == Env(Unset, Unset, Unset)
Logins == {Env(u, p, Unset) : u \in {Unset, <<"a">>, Marked}, p \in {Unset, Marked}}
Aws    == {[Bare EXCEPT !.region = r, !.region2 = r2, !.key = k, !.secret = s, !.profile = p] :
              r \in {Unset, <<"r">>}, r2 \in {Unset, <<"r2">>}, k \in {Unset, <<"k">>},
              s \in {Unset, <<"s">>}, p \in {Unset, <<"p">>}}

T(in, first, rest, type, owner) ==
    [schema |-> in, name |-> <<first, rest>>, type |-> type, owner |-> owner]
Catalog1 ==
    {T(s, "t", "", y, "user") : s \in {"public", "shop"}, y \in {"table", "view", "other"}}
    \cup {T(s, "u", "", "table", "system") : s \in {"pg_catalog", "information_schema", "pg_temp_3"}}
Catalog2(system) ==
    {T(s, "t", "", "table", "user") : s \in {"public", "shop"}}
    \cup {T(s, "u", "", "view", "system") : s \in system}
Catalog3 ==
    {T("main", "t", "", "table", "user"), T("main", "sqlite", "foo", "view", "user"),
     T("main", "sqlite", "", "table", "user"), T("main", "sqlite", "_sequence", "table", "system"),
     T("main", "t", "_data", "table", "shadow"), T("main", "t", "_i", "other", "user")}
InnoDb == {"mysql", "information_schema", "performance_schema", "sys"}
Tables2(kind) == CASE kind = "postgres" -> Catalog1
                   [] kind = "mysql" -> Catalog2(InnoDb)
                   [] kind = "seekdb" -> Catalog2(InnoDb \cup {"oceanbase", "LBACSYS", "ORAAUDITOR"})
                   [] OTHER -> Catalog3

Up(there, tables)  == [there |-> there, key |-> <<"k">>, tables |-> tables]
Meta(named, sequenced, hint, hinted) ==
    [named |-> named, sequenced |-> sequenced, hint |-> hint, hinted |-> hinted]
NoMeta == Meta({}, {}, "none", 0)

P(source, env, up, meta) ==
    [declared |-> source, environment |-> env, upstream |-> up, metadata |-> meta]

LoginOptions == {"connection_string", "table", "key_space", "database", "collection",
                 "primary_key", "user_env", "pass_env"}
Without(S) == {S} \cup {S \ {o} : o \in S}

Plans ==
    \* files and stores
    {P(Source(k, FALSE, FALSE, NoHost, FALSE, {}, {}), Bare, Up(there, {}), NoMeta) :
        k \in {"csv", "parquet", "lance"}, there \in BOOLEAN}
    \cup {P(Source(k, FALSE, write, NoHost, TRUE, given, {}), e, Up(there, {}), NoMeta) :
        k \in {"csv", "lance"}, write \in BOOLEAN, given \in {{}, {"aws_session_token"}}, e \in Aws,
        there \in BOOLEAN}
    \* databases, a table each
    \cup {P(Source(k, FALSE, TRUE, u, FALSE, given, {}), e, Up(TRUE, {}), NoMeta) :
        k \in {"postgres", "mysql", "seekdb", "mongo", "redis"}, u \in Urls,
        given \in Without(LoginOptions), e \in Logins}
    \cup {P(Source("mongo", FALSE, TRUE, Srv, FALSE, LoginOptions, {}), e, Up(TRUE, {}), NoMeta) : e \in Logins}
    \cup {P(Source("influxdb", FALSE, FALSE, Remote, FALSE, {"connection_string", "table"} \cup given, {}),
            Env(Unset, Unset, token), Up(TRUE, {}), NoMeta) :
        given \in {{"database", "token_env"}, {"token_env"}, {"database", "blank token"},
                   {"database", "token"}, {"token_env", "flight.sql.header.database"},
                   {"database", "flight.sql.header.authorization"}},
        token \in {Unset, <<>>, <<"t">>}}
    \* catalogs
    \cup {P(Source(k, TRUE, write, Remote, FALSE, {"connection_string"} \cup given, allowed), Bare,
            Up(TRUE, Tables2(k)), NoMeta) :
        k \in {"postgres", "mysql", "seekdb", "sqlite"}, write \in BOOLEAN,
        given \in {{}, {"allowed_schemas"}, {"table"}}, allowed \in {{}, {"shop"}, {"shop", "main"}}}
    \cup {P([Source("sqlite", FALSE, write, NoHost, FALSE, given, {}) EXCEPT !.size = size], Bare,
            Up(there, {}), NoMeta) :
        write \in BOOLEAN, given \in {{}, {"table"}, {"table", "relative extension"}},
        size \in {0, 2}, there \in BOOLEAN}
    \* Iceberg
    \cup {P(Source("iceberg", FALSE, FALSE, NoHost, s3, {"namespace", "table"}, {}), Bare, Up(TRUE, {}), m) :
        s3 \in BOOLEAN,
        m \in {Meta(1..2, {}, "none", 0), Meta(1..2, {}, "number", 2), Meta(1..3, {}, "number", 2),
               Meta(1..2, {}, "garbled", 0), Meta({}, 1..2, "none", 0), NoMeta, Meta({4}, {}, "none", 0)}}

-----------------------------------------------------------------------------
(* Auth: nobody, or two users of whom one is signed in, and calls over either *)
(* table or both.                                                             *)

CONSTANTS k1, k2

V(reads, bearer, cookie) == [reads |-> reads, bearer |-> bearer, cookie |-> cookie]
Files2 ==
    {[users |-> [u \in {t1, t2} |-> 0], sessions |-> [k \in {k1, k2} |-> NoSession]],
     [users |-> [u \in {t1, t2} |-> 1],
      sessions |-> [k \in {k1, k2} |-> IF k = k1 THEN [is |-> "open", of |-> t1, late |-> FALSE] ELSE NoSession]]}
Visits ==
    {V(<<"users", "sessions">>, k1, NoTicket), V(<<"sessions", "users">>, NoTicket, k1),
     V(<<"sessions">>, k2, k1), V(<<>>, NoTicket, NoTicket)}

-----------------------------------------------------------------------------

All == <<vars, columnVars, onnxVars, documentVars, sourceVars, authVars, part>>

Still(p) ==
    CASE p = "models" -> registry = (CHOOSE r \in Registry : TRUE) /\ batch = (CHOOSE b \in Workload : TRUE)
      [] p = "columns" -> column = CHOOSE c \in Declaration : TRUE
      [] p = "onnx" -> asked = CHOOSE q \in Prediction : TRUE
      [] p = "documents" -> options = CHOOSE o \in Option : TRUE
      [] p = "sources" ->
            LET one == CHOOSE plan \in Plan : TRUE
            IN  /\ declared = one.declared /\ environment = one.environment
                /\ upstream = one.upstream /\ metadata = one.metadata
      [] p = "auth" -> enabled = FALSE /\ users = [u \in Person |-> 0]

Parts == {"models", "columns", "onnx", "documents", "sources", "auth"}

AllInit == /\ part \in Parts
           /\ \A p \in Parts \ {part} : Still(p)
           /\ Init /\ ColumnsInit /\ OnnxInit /\ DocumentsInit /\ SourcesInit /\ AuthInit

ModelsStep    == /\ part = "models" /\ Next
                 /\ UNCHANGED <<columnVars, onnxVars, documentVars, sourceVars, authVars, part>>
ColumnsStep   == /\ part = "columns" /\ ColumnsNext
                 /\ UNCHANGED <<vars, onnxVars, documentVars, sourceVars, authVars, part>>
OnnxStep      == /\ part = "onnx" /\ OnnxNext
                 /\ UNCHANGED <<vars, columnVars, documentVars, sourceVars, authVars, part>>
DocumentsStep == /\ part = "documents" /\ DocumentsNext
                 /\ scan'[2] # Idle => options = ForTwo
                 /\ UNCHANGED <<vars, columnVars, onnxVars, sourceVars, authVars, part>>
SourcesStep   == /\ part = "sources" /\ SourcesNext
                 /\ UNCHANGED <<vars, columnVars, onnxVars, documentVars, authVars, part>>
AuthStep      == /\ part = "auth" /\ AuthNext
                 /\ visit.at \notin Done \ {"idle"}
                 /\ UNCHANGED <<vars, columnVars, onnxVars, documentVars, sourceVars, part>>

AllNext == ModelsStep \/ ColumnsStep \/ OnnxStep \/ DocumentsStep \/ SourcesStep \/ AuthStep

\* The fairness is ModelFunctions' own.
AllSpec ==
    /\ AllInit /\ [][AllNext]_All
    /\ \A e \in Eval : WF_vars(Step(e) /\ UNCHANGED <<columnVars, onnxVars, documentVars, sourceVars, authVars,
                                                       part>>)
=============================================================================
