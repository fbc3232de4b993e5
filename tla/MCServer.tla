------------------------------ MODULE MCServer ------------------------------
(* Instances of Server and of Cli for TLC.                                  *)
EXTENDS Cli

\* A parameter is written as its placeholder, and so told apart from a column or a word.
MCAlphabet   == <<"{id}", "{id_to}", "{n}">>
MCParam      == ToSet(MCAlphabet)
MCNameLength == "{id}" :> 2 @@ "{id_to}" :> 5 @@ "{n}" :> 1
MCNamedAfter == "{id}" :> "id" @@ "{id_to}" :> "id_to" @@ "{n}" :> "n"
MCNumeral    == {"1", "2"}

Hole(p, column, place) == [param |-> p, column |-> column, place |-> place]
Select(reads, holes)   == [verb |-> "select", target |-> <<>>, reads |-> reads, holes |-> holes]
Write(verb, target, reads) == [verb |-> verb, target |-> target, reads |-> reads, holes |-> <<>>]
File(name, query) == [kind |-> "pipeline", name |-> name, query |-> query]
Job(name, query)  == [kind |-> "job", name |-> name, query |-> query]

Table(name, kind, write, cached) ==
    [name |-> name, kind |-> kind, catalog |-> FALSE, write |-> write, table |-> <<"main", name>>,
     allowed |-> {}, database |-> "main", cached |-> cached]
Catalog(name, kind, write, allowed) ==
    [name |-> name, kind |-> kind, catalog |-> TRUE, write |-> write, table |-> <<>>,
     allowed |-> allowed, database |-> "main", cached |-> FALSE]

A == <<"main", "a">>
B == <<"aux", "a">>
C == <<"main", "c">>

Entries(on, text) == [kind |-> "semantics", entries |-> <<[on |-> on, text |-> text]>>]

Base == [sources |-> <<>>, described |-> <<>>, auth |-> FALSE, files |-> <<>>, jobs |-> <<>>,
         ambiguous |-> FALSE, semantics |-> <<>>, upstream |-> <<>>, may |-> <<>>, bare |-> {}]

\* A Postgres catalog behind auth, and a Redis table; a write that only the provider refuses.
Federated ==
    [Base EXCEPT
        !.sources = <<Catalog("pg", "postgres", FALSE, {"main", "aux"}), Table("cache", "redis", FALSE, FALSE)>>,
        !.auth = TRUE,
        !.files = <<File("find", Select({<<"pg", "main", "a">>, <<"datafusion", "public", "cache">>},
                        <<Hole("{id}", "id", "compared"), Hole("{id_to}", "to", "compared"),
                          Hole("{n}", "n", "limit")>>)),
                    File("add", Write("insert", <<"pg", "main", "a">>, {<<"cache">>}))>>,
        !.upstream = <<{A, B, C}, {<<"main", "cache">>}>>, !.may = <<{A}, {}>>]

\* A write to a read-only Redis table under its full name.
Refused ==
    [Base EXCEPT
        !.sources = <<Table("cache", "redis", FALSE, FALSE)>>,
        !.files = <<File("add", Write("insert", <<"public", "cache">>, {<<"cache">>}))>>,
        !.upstream = <<{<<"main", "cache">>}>>, !.may = <<{}>>]

\* Tables of their own, a job, semantics that complete the context file's.
Local ==
    [Base EXCEPT
        !.sources = <<Table("log", "csv", FALSE, TRUE), Table("vecs", "lance", FALSE, FALSE),
                      Table("docs", "mongo", TRUE, FALSE)>>,
        !.described = [log |-> "t1", vecs |-> "t1", docs |-> NoText],
        !.files = <<File("find", Select({<<"log">>, <<"vecs">>},
                        <<Hole("{id}", "id", "compared"), Hole("{id}", "to", "elsewhere")>>)),
                    File("add", Write("insert", <<"docs">>, {<<"log">>}))>>,
        !.jobs = <<Job("nightly", Select({<<"log">>}, <<>>)), File("other", Select({<<"log">>}, <<>>))>>,
        !.semantics = <<Entries(<<<<"log">>>>, "t2"), Entries(<<<<"docs">>, "id">>, "t3")>>,
        !.upstream = <<{<<"main", "log">>}, {<<"main", "vecs">>}, {<<"main", "docs">>}>>,
        !.may = <<{<<"main", "log">>}, {<<"main", "vecs">>}, {}>>]

\* Catalogs of kinds that start in one schema and list others; a job named as a pipeline.
Qualified ==
    [Base EXCEPT
        !.sources = <<Catalog("my", "mysql", TRUE, {"main", "aux"}), Catalog("sk", "seekdb", TRUE, {"aux"})>>,
        !.files = <<File("add", Write("update", <<"my", "aux", "a">>, {}))>>,
        !.jobs = <<Job("add", Select({<<"my", "main", "a">>}, <<>>))>>,
        !.upstream = <<{A, B}, {A, B}>>, !.may = <<{A}, {B}>>]

\* The same without the job, and a SQLite catalog that may have no table.
Served ==
    [Qualified EXCEPT
        !.sources = <<Catalog("sk", "seekdb", TRUE, {"aux"}), Catalog("lite", "sqlite", TRUE, {"main"})>>,
        !.files = <<File("find", Select({<<"lite", "main", "a">>},
                        <<Hole("{id}", "id", "compared"), Hole("{id_to}", "to", "offset"),
                          Hole("{n}", "n", "limit")>>)),
                    File("add", Write("insert", <<"sk", "aux", "a">>, {}))>>,
        !.jobs = <<>>]

\* Files of semantics that describe a table twice; a name used by two sources.
Clashing ==
    [Base EXCEPT !.semantics = <<Entries(<<<<"log">>>>, "t1"), Entries(<<<<"log">>>>, "t2")>>]
Doubled ==
    [Base EXCEPT !.sources = <<Table("log", "csv", FALSE, FALSE), Table("log", "redis", FALSE, FALSE)>>,
                 !.upstream = <<{}, {}>>, !.may = <<{}, {}>>]

\* A query of a Lance dataset that a job may or may not have created by now.
Awaiting ==
    [Base EXCEPT !.sources = <<Table("vecs", "lance", FALSE, FALSE)>>,
                 !.files = <<File("find", Select({<<"vecs">>},
                                 <<Hole("{id_to}", "to", "comma"), Hole("{n}", "n", "limit")>>))>>,
                 !.upstream = <<{}>>, !.may = <<{<<"main", "vecs">>}>>]

\* Directories without a file, files of a wrong kind or that cannot be parsed.
Torn == [kind |-> "garbled", name |-> "nightly", query |-> Select({<<"log">>}, <<>>)]
Misplaced ==
    {[Base EXCEPT !.bare = {"pipelines"}], [Local EXCEPT !.bare = {"jobs"}, !.jobs = <<>>],
     [Local EXCEPT !.files = <<Torn>>], [Local EXCEPT !.files = Local.jobs],
     [Local EXCEPT !.jobs = <<Torn>>]}

Value(text)  == [shape |-> "scalar", text |-> text]
Given(id, id_to, n) == "{id}" :> id @@ "{id_to}" :> id_to @@ "{n}" :> n
Call(name, given)   == [route |-> "execute", name |-> name, session |-> TRUE, given |-> given]
Ask(route, name)    == [route |-> route, name |-> name, session |-> FALSE, given |-> <<>>]

MCCalls ==
    {Call("find", Given(Value(<<"v">>), Value(<<"w">>), Value(<<"1">>))),
     Call("find", Given(Value(<<"{n}">>), Value(<<"{id}">>), Value(<<"1">>))),
     Call("find", Given([shape |-> "empty", text |-> <<>>], Value(<<"w">>), Absent)),
     [Call("find", Given(Value(<<"v">>), Value(<<"w">>), Value(<<"1">>))) EXCEPT !.session = FALSE],
     Call("add", Given(Absent, Absent, Absent)),
     Call("none", Given(Absent, Absent, Absent)),
     Ask("health", "find"), Ask("pipeline", "find"), Ask("pipeline", "none"), Ask("pipelines", Nothing), Ask("data_source", Nothing),
     Ask("jobs", Nothing), Ask("submit", "nightly"), Ask("runs", Nothing), Ask("run", Nothing),
     Ask("cancel", Nothing)}

-----------------------------------------------------------------------------
(* The client.                                                              *)

NoFile == [is |-> "missing", aliases |-> <<>>]
Filed(aliases) == [is |-> "written", aliases |-> aliases]
Files(local, home, given) == [local |-> local, home |-> home, given |-> given]

Alias(pipeline, positional, defaults) ==
    [pipeline |-> pipeline, positional |-> positional, defaults |-> defaults]

\* Defaults that refer to a positional parameter, to one another, none; no such pipeline.
Grep == Alias("find", <<"{id}">>, "{id_to}" :> <<"x", "{id}">> @@ "{n}" :> <<"1">>)
Loop == Alias("find", <<>>, "{id}" :> <<"{n}">> @@ "{n}" :> <<"{id}">> @@ "{id_to}" :> <<"w">>)
Plainly == Alias("find", <<"{id}">>, <<>>)

Dangling == Alias("absent", <<"{id}">>, <<>>)

AtHome == "grep" :> Grep @@ "loop" :> Loop @@ "plain" :> Plainly @@ "gone" :> Dangling

Cmd(verb, name) ==
    [verb |-> verb, name |-> name, pipeline |-> "find", positional |-> <<>>, defaults |-> <<>>,
     force |-> FALSE, args |-> <<>>, query |-> Nothing, table |-> <<>>, route |-> Nothing,
     explicit |-> FALSE, dir |-> FALSE, place |-> Nothing]

Flag(flag, type, word) == [flag |-> flag, type |-> type, word |-> word]
Word(word) == Flag("", "", word)

\* Sources of each way to be registered, and tables that are and are not described.
Desk ==
    [Base EXCEPT
        !.sources = <<Table("log", "csv", FALSE, FALSE), Catalog("lite", "sqlite", FALSE, {"main", "aux"})>>,
        !.described = [log |-> "t1", lite |-> "t2"],
        !.files = <<File("find", Select({<<"log">>},
                        <<Hole("{id}", "id", "compared"), Hole("{id_to}", "to", "compared"),
                          Hole("{n}", "n", "limit"), Hole("{id}", "id", "compared")>>)),
                    File("other", Select({<<"lite", "main", "a">>}, <<>>))>>,
        !.semantics = <<Entries(<<<<"lite", "aux", "a">>>>, "t3")>>,
        !.upstream = <<{<<"main", "log">>}, {A, B}>>, !.may = <<{}, {B}>>]

Cached == [Desk EXCEPT !.sources = <<Table("log", "csv", FALSE, FALSE), Table("cache", "redis", FALSE, FALSE)>>,
                       !.upstream = <<{<<"main", "log">>}, {<<"main", "cache">>}>>, !.may = <<{}, {}>>]

AtDesk ==
    [config |-> Desk, server |-> FALSE, context |-> "there", readable |-> TRUE,
     files |-> Files(NoFile, Filed(AtHome), NoFile), commands |-> <<Nothing, Nothing>>]

Started(c) == [AtDesk EXCEPT !.config = c, !.server = TRUE]

Lines ==
    {<<>>, <<Word("v")>>, <<Word("{n}")>>, <<Word("1"), Flag("{n}", "str", "2")>>, <<Word("v"), Word("w")>>,
     <<Flag("{id}", "", "1"), Word("v"), Flag("{id}", "", "w")>>,
     <<Flag("{id}", "int", "v")>>, <<Flag("{id}", "", "v"), Flag("{id_to}", "", "w"), Flag("{n}", "int", "1")>>,
     <<Word("w"), Flag("{id}", "", "v"), Flag("{id_to}", "", "w"), Flag("{n}", "", "1")>>}

Adding ==
    {Cmd("add", "grep"), [Cmd("add", "mine") EXCEPT !.positional = <<"{id}">>],
     [Cmd("add", "grep") EXCEPT !.force = TRUE, !.pipeline = "absent"],
     [Cmd("add", "mine") EXCEPT !.positional = <<"{id}">>, !.pipeline = "other"],
     Cmd("remove", "loop"), Cmd("remove", "mine")}

Asking ==
    {Cmd("list", Nothing), Cmd("show", "grep"), Cmd("show", "gone"), Cmd("help", "none"), [Cmd("show", "mine") EXCEPT !.place = "given"]}

Running(lines, alias) == {[Cmd("call", alias) EXCEPT !.args = l] : l \in lines}
                         \cup {[Cmd("run", Nothing) EXCEPT !.args = l] : l \in {k \in lines : Words(k) = <<>>}}

Looking ==
    {[Cmd("query", Nothing) EXCEPT !.query = Select({<<"log">>}, <<>>), !.explicit = TRUE],
     [Cmd("query", Nothing) EXCEPT !.query = Write("insert", <<"lite", "main", "a">>, {<<"log">>})],
     Cmd("schema", Nothing), [Cmd("schema", Nothing) EXCEPT !.table = <<"a">>],
     [Cmd("schema", Nothing) EXCEPT !.table = <<"lite", "aux", "a">>]}

Ordering == {[Cmd("job", "nightly") EXCEPT !.route = r] : r \in {"submit", "jobs", "cancel"}}
            \cup {[Cmd("job", "nightly") EXCEPT !.route = "submit", !.args = <<Flag("{n}", "int", "v")>>]}

Alone(s, commands) == {[s EXCEPT !.commands = <<c, Nothing>>] : c \in commands}

MCSessions ==
    {Started(c) : c \in {Federated, Awaiting, Refused, Local, Qualified, Served, Clashing, Doubled} \cup Misplaced}
    \cup {[AtDesk EXCEPT !.commands = <<c, d>>] : c \in Adding, d \in Adding}
    \cup {[AtDesk EXCEPT !.commands = <<c, d>>] : c \in Asking, d \in {Cmd("remove", "grep")}}
    \cup Alone(AtDesk, UNION {Running(Lines, a) : a \in {"grep", "loop", "plain", "gone", "none"}})
    \cup Alone(AtDesk, Looking)
    \cup Alone([AtDesk EXCEPT !.config = Cached], Looking)
    \cup Alone([AtDesk EXCEPT !.context = "missing"],
               Looking \cup {[Cmd("call", "grep") EXCEPT !.args = <<Word("v")>>, !.dir = TRUE], Cmd("add", "mine"),
                          [Cmd("call", "grep") EXCEPT !.explicit = TRUE]})
    \cup Alone([AtDesk EXCEPT !.context = "garbled"], Looking \cup {Cmd("add", "mine"), Cmd("show", "grep")})
    \cup Alone([AtDesk EXCEPT !.readable = FALSE], {Cmd("add", "mine"), Cmd("call", "loop")})
    \cup Alone([AtDesk EXCEPT !.config = Clashing], Looking)
    \cup Alone([AtDesk EXCEPT !.files = Files([is |-> "garbled", aliases |-> <<>>], NoFile, NoFile)],
               Adding \cup Asking)
    \cup Alone([AtDesk EXCEPT !.files = Files([is |-> "empty", aliases |-> <<>>], NoFile, NoFile)],
               Adding \cup Asking)
    \cup Alone(Started(Local), Ordering)

MCConfigs == {s.config : s \in MCSessions}
=============================================================================
