------------------------------- MODULE Server -------------------------------
(***************************************************************************)
(* A server's life (crates/server/src/server.rs, config.rs): it reads its  *)
(* context file, registers every source in a planning context, checks and  *)
(* plans its pipelines and jobs there, loads the semantics, registers      *)
(* every source again in the context it will serve from, and then answers  *)
(* the calls of its pipelines, while tables come and go upstream.          *)
(***************************************************************************)
EXTENDS Pipelines, Semantics

CONSTANTS Configs,     \* configurations: see Config below
          Calls,       \* [route, name, session, given]: the requests that may arrive
          MaxRetries,  \* attempts at an operation of a source (3)
          Concurrency, \* tables of a catalog that are built at a time (8)
          MaxChanges   \* bound on the tables created or dropped upstream

(***************************************************************************)
(* A configuration is [sources, described, auth, files, jobs, ambiguous,   *)
(* semantics, upstream, may, bare]: bare are the directories given, for    *)
(* pipelines or jobs, that hold no file.  A source is [name, kind,         *)
(* catalog, write, table, allowed, database, cached]: a table is <<schema, *)
(* table>>, <<>> where none is given, allowed the schemas a catalog takes, *)
(* database the schema a connection starts in.  A pipeline or job is       *)
(* [kind, name, query], kind "garbled" for a file that cannot be parsed.   *)
(***************************************************************************)
ASSUME ServerAssumption ==
    /\ MaxRetries \in Nat \ {0} /\ Concurrency \in Nat \ {0} /\ MaxChanges \in Nat
    /\ \A c \in Configs :
          /\ Len(c.sources) \in Nat /\ DOMAIN c.sources = 1..Len(c.sources)
          /\ \A i \in DOMAIN c.files :
                /\ c.files[i].query.target \in Seq(STRING)
                /\ Len(c.files[i].query.holes) \in Nat
                /\ DOMAIN c.files[i].query.holes = 1..Len(c.files[i].query.holes)
          /\ Len(c.semantics) \in Nat /\ DOMAIN c.semantics = 1..Len(c.semantics)
          /\ \A i \in DOMAIN c.semantics : c.semantics[i].kind = "semantics" =>
                /\ Len(c.semantics[i].entries) \in Nat
                /\ DOMAIN c.semantics[i].entries = 1..Len(c.semantics[i].entries)
          /\ DOMAIN c.upstream = DOMAIN c.sources /\ DOMAIN c.may = DOMAIN c.sources
          /\ \A n \in DOMAIN c.upstream : \A t \in c.upstream[n] \cup c.may[n] : t = <<t[1], t[2]>>

\* A value that is given is written as a sequence of tokens; a column is no placeholder.
ASSUME ValueAssumption ==
    /\ \A call \in Calls : call.route = "execute" =>
          \A n \in Param : call.given[n] = Absent \/ IsText(call.given[n].text)
    /\ \A c \in Configs : \A i \in DOMAIN c.files : \A h \in DOMAIN c.files[i].query.holes :
          c.files[i].query.holes[h].param \in Param /\ c.files[i].query.holes[h].column \notin Param

\* No answer is none of the answers.
ASSUME AnswerAssumption == Absent \notin {"no table", "healthy"}

VARIABLES config,    \* the configuration
          upstream,  \* of each source, the tables there are
          changes,   \* number of tables created and dropped
          dropped,   \* tables dropped since the start, <<source, table>>
          pc,        \* what the server is doing
          which,     \* context it registers sources in
          at,        \* position in the sources, pipelines or jobs
          step,      \* step of a source's registration
          attempt,   \* number of the attempt at that step
          listing,   \* tables the catalog was found to have
          building,  \* tables whose providers are being built
          built,     \* tables whose providers are built
          tables,    \* of each context, the tables by their names
          datasets,  \* of each context, what the search functions find
          loaded,    \* pipelines, by name
          jobs,      \* names of the jobs
          overlay,   \* descriptions
          request,   \* the request being served
          written    \* tables that requests have written

progress == <<at, step, attempt, listing, building, built>>
vars == <<config, upstream, changes, dropped, pc, which, progress, tables, datasets, loaded,
          jobs, overlay, request, written>>

Sources  == config.sources
Source   == Sources[at]
Contexts == {"planning", "runtime"}
Serving  == pc = "serving"

CatalogKinds    == {"postgres", "mysql", "seekdb", "sqlite"}
WritableKinds   == CatalogKinds \cup {"mongo", "redis"}
SearchableKinds == {"lance", "postgres", "seekdb", "sqlite", "mongo"}

\* The hierarchy level of a kind that knows no catalogs is ignored.
IsCatalog(s) == s.catalog /\ s.kind \in CatalogKinds

Idle == [stage |-> "idle", call |-> Absent, statement |-> <<>>, answer |-> Absent, shown |-> <<>>]

\* Nothing has been read or registered.
Blank ==
    /\ upstream = config.upstream /\ changes = 0 /\ dropped = {}
    /\ which = "planning"
    /\ at = 1 /\ step = 1 /\ attempt = 1 /\ listing = {} /\ building = {} /\ built = {}
    /\ tables = [c \in Contexts |-> <<>>] /\ datasets = [c \in Contexts |-> <<>>]
    /\ loaded = <<>> /\ jobs = {} /\ overlay = <<>>
    /\ request = Idle /\ written = {}

Init == config \in Configs /\ Blank /\ pc = "context"

Moved(to) == pc' = to /\ at' = 1 /\ step' = 1 /\ attempt' = 1 /\ listing' = {} /\ building' = {} /\ built' = {}
Failed == pc' = "failed" /\ UNCHANGED progress

\* Whatever startup leaves alone outside registration.
Outside == UNCHANGED <<config, upstream, changes, dropped, request, written>>
Kept == Outside /\ UNCHANGED <<which, tables, datasets, loaded, jobs, overlay>>

-----------------------------------------------------------------------------
(* The context file and the sources.                                        *)

\* validate_data_sources.
ContextValid ==
    /\ \A i, j \in DOMAIN Sources : Sources[i].name = Sources[j].name => i = j
    /\ \A i \in DOMAIN Sources :
          /\ Sources[i].write => Sources[i].kind \in WritableKinds
          /\ IsCatalog(Sources[i]) => Sources[i].table = <<>> /\ Sources[i].allowed # {}

LoadContext ==
    /\ pc = "context"
    /\ IF ContextValid THEN Moved("sources") ELSE Failed
    /\ Kept

\* What the registration of a source goes through; a table is built alone.  Postgres has a
\* pool for reading and one for the rest, SQLite opens its connections at once.
PostgresSteps(list) == <<"connect", "pool">> \o list \o <<"build">>
MySqlSteps(list)    == <<"connect">> \o list \o <<"build">>
SeekDbSteps(list)   == <<"connect">> \o list \o <<"build">>
SqliteSteps(list)   == <<"open">> \o list \o <<"build">>

Steps(s) ==
    LET list == IF IsCatalog(s) THEN <<"list">> ELSE <<>>
    IN  CASE s.kind = "postgres" -> PostgresSteps(list)
          [] s.kind = "mysql"    -> MySqlSteps(list)
          [] s.kind = "seekdb"   -> SeekDbSteps(list)
          [] s.kind = "sqlite"   -> SqliteSteps(list)
          [] OTHER               -> <<"build">>

Registering(name) == pc = "sources" /\ at <= Len(Sources) /\ Steps(Source)[step] = name

\* Mutant: one attempt too many.
TriesOnceMore(op) == op \in {"connect", "pool", "list"} /\ attempt <= MaxRetries

\* retry_with_timeout: opening a SQLite file and building a table are tried once.
TriesAgain(op) == op \in {"connect", "pool", "list"} /\ attempt < MaxRetries

NextStep == step' = step + 1 /\ attempt' = 1 /\ UNCHANGED <<at, building, built>>

\* A pool is made, or a file opened.
Connect(op) ==
    /\ Registering(op)
    /\ NextStep
    /\ UNCHANGED <<listing, pc>> /\ Kept

\* list_*_tables_in_catalog.
List ==
    /\ Registering("list")
    /\ listing' = {t \in upstream[at] : t[1] \in Source.allowed}
    /\ NextStep
    /\ UNCHANGED pc /\ Kept

\* An attempt fails or runs out of time.
AttemptFails(op) ==
    /\ Registering(op)
    /\ IF TriesAgain(op)
       THEN attempt' = attempt + 1 /\ UNCHANGED <<at, step, listing, building, built, pc>>
       ELSE Failed
    /\ Kept

\* Tables to be built: what was listed, or the table of the options.
Wanted == IF IsCatalog(Source) THEN listing ELSE {Source.table}

\* Mutant: SeekDB's catalog leaves the schema out, as MySQL's does.
BareReference(s, t) ==
    IF IsCatalog(s) /\ s.kind \in {"mysql", "seekdb"} THEN <<s.database, t[2]>> ELSE t

\* Entries put into a registry, over those that are there.
Over(entries, registry) ==
    [k \in DOMAIN entries \cup DOMAIN registry |->
        IF k \in DOMAIN entries THEN entries[k] ELSE registry[k]]

\* The table a provider reads; MySQL's catalog leaves the schema out.
Reference(s, t) == IF IsCatalog(s) /\ s.kind = "mysql" THEN <<s.database, t[2]>> ELSE t

\* Building asks for the columns; SQLite, MongoDB and Redis let a table be missing.
Buildable(n, t) ==
    Sources[n].kind \in {"sqlite", "mongo", "redis"} \/ Reference(Sources[n], t) \in upstream[n]

\* Mutant: entries of the search functions go by the name of the table alone.
KeyOfTable(s, t) == IF IsCatalog(s) THEN <<t[2]>> ELSE <<s.name>>

\* The name a table is registered under, and its entry for the search functions.
Key(s, t) == IF IsCatalog(s) THEN <<s.name, t[1], t[2]>> ELSE <<s.name>>

Path(s, t) == IF IsCatalog(s) THEN <<s.name, t[1], t[2]>> ELSE <<s.name>>

\* Redis and MongoDB providers know no access mode; a directory of files takes inserts, and
\* so does the copy of one in memory.
Writes(s) == s.kind \in {"redis", "mongo", "csv"} \/ (s.write /\ s.kind \in CatalogKinds)

Provider(s, n, t) ==
    [source |-> n, reads |-> Reference(s, t), write |-> Writes(s), cached |-> s.cached /\ s.kind = "csv"]

\* A Lance dataset that is not there yet is left for a job to create.
SkipLance ==
    /\ Registering("build") /\ Source.kind = "lance" /\ building \cup built = {}
    /\ Source.table \notin upstream[at]
    /\ at' = at + 1 /\ UNCHANGED <<step, attempt, listing, building, built, pc>> /\ Kept

StartBuild(t) ==
    /\ Registering("build") /\ t \in Wanted \ (building \cup built)
    /\ Cardinality(building) < Concurrency
    /\ Source.kind = "lance" => t \in upstream[at]
    /\ building' = building \cup {t}
    /\ UNCHANGED <<at, step, attempt, listing, built, pc>> /\ Kept

\* build_and_register_table: the entry for the search functions is made with the provider.
FinishBuild(t) ==
    /\ Registering("build") /\ t \in building /\ Buildable(at, t)
    /\ building' = building \ {t} /\ built' = built \cup {t}
    /\ datasets' = IF Source.kind \notin SearchableKinds THEN datasets
                   ELSE [datasets EXCEPT ![which] =
                            Over([k \in {Key(Source, t)} |->
                                    [source |-> at, reads |-> Reference(Source, t)]], @)]
    /\ UNCHANGED <<at, step, attempt, listing, pc, which, tables, loaded, jobs, overlay>> /\ Outside

BuildFails(t) == Registering("build") /\ t \in building /\ Failed /\ Kept

\* Mutant: a catalog is registered with the tables built so far.
SomeBuilt == built # {} \/ Wanted = {}

\* Mutant: a catalog without a table is waited for.
BuiltSomething == built # {} /\ built = Wanted

AllBuilt == built = Wanted

Install ==
    /\ Registering("build") /\ AllBuilt
    /\ tables' = [tables EXCEPT ![which] =
                    Over([p \in {Path(Source, t) : t \in built} |->
                            Provider(Source, at, CHOOSE t \in built : Path(Source, t) = p)], @)]
    /\ at' = at + 1 /\ step' = 1 /\ attempt' = 1 /\ listing' = {} /\ building' = {} /\ built' = {}
    /\ UNCHANGED <<pc, which, datasets, loaded, jobs, overlay>> /\ Outside

SourcesDone == pc = "sources" /\ at > Len(Sources) /\ Moved("auth") /\ Kept

Register ==
    \/ SkipLance \/ List \/ Install \/ SourcesDone
    \/ \E op \in {"connect", "pool", "open"} : Connect(op)
    \/ \E op \in {"connect", "pool", "open", "list"} : AttemptFails(op)
    \/ \E t \in (IF pc = "sources" /\ at <= Len(Sources) THEN Wanted ELSE {}) :
          StartBuild(t) \/ FinishBuild(t) \/ BuildFails(t)

\* AuthLayer::build and register_auth_tables; the layer made for planning is thrown away.
BuildAuth ==
    /\ pc = "auth"
    /\ \/ /\ Moved(IF which = "planning" THEN "validate" ELSE "store")
          /\ tables' = IF ~config.auth THEN tables
                       ELSE [tables EXCEPT ![which] =
                                Over([p \in {<<"auth", "users">>, <<"auth", "sessions">>} |->
                                        [source |-> 0, reads |-> p, write |-> FALSE,
                                         cached |-> FALSE]], @)]
       \/ config.auth /\ Failed /\ UNCHANGED tables
    /\ UNCHANGED <<which, datasets, loaded, jobs, overlay>> /\ Outside

-----------------------------------------------------------------------------
(* Pipelines, jobs and semantics.                                           *)

ReadOnlyNames == {Sources[i].name : i \in {j \in DOMAIN Sources : ~Sources[j].write}}

\* resolve_pipeline_files: a path need not be given, but one that is must lead to a file.
Resolved(what) == what \notin config.bare

Legible(file) == file.kind # "garbled"

\* Every file is checked before the first is loaded.
ValidatePipelines ==
    /\ pc = "validate"
    /\ IF Resolved("pipelines")
          /\ \A i \in DOMAIN config.files :
                Legible(config.files[i]) /\ Allowed(config.files[i].query, ReadOnlyNames)
       THEN Moved("pipelines") ELSE Failed
    /\ Kept

\* Names in full: an unqualified table is one of datafusion.public.
Canonical(path) ==
    CASE Len(path) = 2 /\ path[1] = "public"                              -> <<path[2]>>
      [] Len(path) = 3 /\ path[1] = "datafusion" /\ path[2] = "public"    -> <<path[3]>>
      [] OTHER                                                            -> path

Known(context, paths) == \A r \in paths : Canonical(r) \in DOMAIN tables[context]

\* Mutant: a query is parsed and not planned.
NotPlanned(query) == TRUE

\* extract_response_fields: the answer of a write is its count, and it is not planned.
Plannable(query) == query.verb \in {"insert", "update", "delete"} \/ Known("planning", query.reads)

Advance == at' = at + 1 /\ UNCHANGED <<step, attempt, listing, building, built, pc>>

LoadPipeline ==
    /\ pc = "pipelines" /\ at <= Len(config.files)
    /\ LET file == config.files[at]
       IN  IF file.kind = "pipeline" /\ Plannable(file.query) /\ file.name \notin DOMAIN loaded
           THEN /\ loaded' = Over([n \in {file.name} |-> [query |-> file.query,
                                                     columns |-> InferredColumns(file.query)]], loaded)
                /\ Advance
           ELSE Failed /\ UNCHANGED loaded
    /\ UNCHANGED <<which, tables, datasets, jobs, overlay>> /\ Outside

PipelinesDone ==
    /\ pc = "pipelines" /\ at > Len(config.files)
    /\ IF Resolved("jobs") THEN Moved("jobs") ELSE Failed
    /\ Kept

\* A pipeline is passed over, any other kind is an error; a job's writes are not checked.
LoadJob ==
    /\ pc = "jobs" /\ at <= Len(config.jobs)
    /\ LET file == config.jobs[at]
       IN  \/ file.kind = "pipeline" /\ Advance /\ UNCHANGED jobs
           \/ /\ file.kind = "job" /\ Plannable(file.query)
              /\ file.name \notin DOMAIN loaded \cup jobs
              /\ jobs' = jobs \cup {file.name} /\ Advance
           \/ /\ file.kind # "pipeline"
              /\ file.kind = "job" => ~Plannable(file.query) \/ file.name \in DOMAIN loaded \cup jobs
              /\ Failed /\ UNCHANGED jobs
    /\ UNCHANGED <<which, tables, datasets, loaded, overlay>> /\ Outside

JobsDone == pc = "jobs" /\ at > Len(config.jobs) /\ Moved("semantics") /\ Kept

\* Semantics end the configuration; setup_app_state then registers everything again.
LoadSemantics ==
    /\ pc = "semantics"
    /\ LET result == Overlay(config.described, config.semantics)
       IN  IF config.ambiguous \/ result = Conflict
           THEN Failed /\ UNCHANGED <<overlay, which>>
           ELSE overlay' = result /\ which' = "runtime" /\ Moved("sources")
    /\ UNCHANGED <<tables, datasets, loaded, jobs>> /\ Outside

\* The ledger of the runs is opened and cleared of orphans, if there are jobs.
OpenStore ==
    /\ pc = "store"
    /\ Moved("bind") \/ (jobs # {} /\ Failed)
    /\ Kept

Bind == pc = "bind" /\ (Moved("serving") \/ Failed) /\ Kept

Startup ==
    \/ LoadContext \/ Register \/ BuildAuth \/ ValidatePipelines \/ LoadPipeline \/ PipelinesDone
    \/ LoadJob \/ JobsDone \/ LoadSemantics \/ OpenStore \/ Bind

-----------------------------------------------------------------------------
(* Requests: execute_pipeline_by_name, and the routes that show what there  *)
(* is or go to the jobs.                                                    *)

ServeOnly == UNCHANGED <<config, upstream, changes, dropped, pc, which, progress, tables, datasets,
                         loaded, jobs, overlay>>

Answered(status) == request' = [request EXCEPT !.stage = "answered", !.answer = status]

Arrive(call) ==
    /\ Serving /\ request.stage \in {"idle", "answered"}
    /\ request' = [Idle EXCEPT !.stage = IF call.route = "execute" THEN "verify" ELSE "inspect",
                               !.call = call]
    /\ UNCHANGED written /\ ServeOnly

\* Mutant: a session that does not hold is never answered.
VerifyOrDrop ==
    /\ request.stage = "verify" /\ (config.auth => request.call.session)
    /\ request' = [request EXCEPT !.stage = "lookup"]
    /\ UNCHANGED written /\ ServeOnly

\* verify_session.
Verify ==
    /\ request.stage = "verify"
    /\ IF config.auth => request.call.session
       THEN request' = [request EXCEPT !.stage = "lookup"]
       ELSE Answered("unauthorized")
    /\ UNCHANGED written /\ ServeOnly

\* The names of the values are taken from a hash map.
Lookup ==
    /\ request.stage = "lookup"
    /\ LET name  == request.call.name
           given == request.call.given
       IN  \/ name \notin DOMAIN loaded /\ Answered("not found")
           \/ /\ name \in DOMAIN loaded
              /\ Missing(loaded[name].query, given) \cup Unrendered(loaded[name].query, given) # {}
              /\ Answered("bad parameters")
           \/ /\ name \in DOMAIN loaded
              /\ Missing(loaded[name].query, given) \cup Unrendered(loaded[name].query, given) = {}
              /\ \E order \in Orders(loaded[name].query) :
                    request' = [request EXCEPT !.stage = "run",
                        !.statement = Substituted(Template(loaded[name].query), order, given)]
    /\ UNCHANGED written /\ ServeOnly

Query  == loaded[request.call.name].query
Target == tables["runtime"][Canonical(Query.target)]

IsWrite == Query.verb \in {"insert", "update", "delete"}

\* Tables the statement uses that are gone; SQLite's too, MongoDB's and Redis's come back.
Gone(registry, paths) ==
    \E r \in paths :
        LET entry == registry[Canonical(r)]
        IN  /\ entry.source # 0 /\ ~entry.cached
            /\ Sources[entry.source].kind \notin {"mongo", "redis"}
            /\ entry.reads \notin upstream[entry.source]

Used == Query.reads \cup (IF IsWrite THEN {Query.target} ELSE {})

\* The statement is planned in the serving context and run; a write that fails may have
\* written part of its rows.
Run ==
    /\ request.stage = "run"
    /\ \/ /\ ~Known("runtime", Used)
          /\ Answered("no table") /\ UNCHANGED written
       \/ /\ Known("runtime", Used)
          /\ Answered("failed")
          /\ \/ UNCHANGED written
             \/ /\ IsWrite /\ Target.write
                /\ written' = written \cup {<<Target.source, Target.reads>>}
       \/ /\ Known("runtime", Used) /\ ~Gone(tables["runtime"], Used) /\ (IsWrite => Target.write)
          /\ Answered("ok")
          /\ written' = IF IsWrite THEN written \cup {<<Target.source, Target.reads>>} ELSE written
    /\ ServeOnly

\* Mutant: a Lance dataset that a job is to create is not asked for.
ExpectedTables == \A i \in DOMAIN Sources : Sources[i].kind = "lance" \/ <<Sources[i].name>> \in DOMAIN tables["runtime"]

\* pipeline_health_check: every source is looked up as a table, those that are catalogs too.
AllTables == \A i \in DOMAIN Sources : <<Sources[i].name>> \in DOMAIN tables["runtime"]

\* What the jobs' routes may answer; the executor is JobExecutor's.
JobAnswers(route, name) ==
    IF jobs = {} THEN {"disabled"}
    ELSE CASE route \in {"jobs", "cancel"} -> {"ok"}
           [] route = "submit" ->
                 IF name \in jobs THEN {"accepted", "refused", "failed"} ELSE {"not found"}
           [] route = "run" -> {"ok", "not found", "failed"}
           [] OTHER -> {"ok", "failed"}

\* get_data_sources: the description of each source, and its columns if it is a table.
Shown ==
    [name \in {Sources[i].name : i \in DOMAIN Sources} |->
        [text    |-> TextOf(overlay, <<<<name>>>>),
         columns |-> <<name>> \in DOMAIN tables["runtime"]]]

\* The routes that run no statement; none of them asks for a session.
Inspect ==
    /\ request.stage = "inspect"
    /\ LET route == request.call.route
           name  == request.call.name
       IN  \/ route = "health" /\ name \in DOMAIN loaded /\ AllTables /\ Answered("healthy")
           \/ route = "health" /\ name \in DOMAIN loaded /\ ~AllTables /\ Answered("degraded")
           \/ route \in {"health", "pipeline"} /\ name \notin DOMAIN loaded /\ Answered("not found")
           \/ route = "pipeline" /\ name \in DOMAIN loaded /\ Answered("ok")
           \/ route = "pipelines" /\ Answered("ok")
           \/ /\ route = "data_source"
              /\ request' = [request EXCEPT !.stage = "answered", !.answer = "ok", !.shown = Shown]
           \/ /\ route \in {"jobs", "submit", "runs", "run", "cancel"}
              /\ \E answer \in JobAnswers(route, name) : Answered(answer)
    /\ UNCHANGED written /\ ServeOnly

-----------------------------------------------------------------------------
(* Tables come and go upstream, whatever the server is doing.               *)

UpstreamOnly == UNCHANGED <<config, pc, which, progress, tables, datasets, loaded, jobs, overlay,
                            request, written>>

Drop(n, t) ==
    /\ changes < MaxChanges /\ t \in upstream[n]
    /\ upstream' = [upstream EXCEPT ![n] = @ \ {t}]
    /\ dropped' = dropped \cup {<<n, t>>} /\ changes' = changes + 1
    /\ UpstreamOnly

Create(n, t) ==
    /\ changes < MaxChanges /\ t \notin upstream[n]
    /\ upstream' = [upstream EXCEPT ![n] = @ \cup {t}]
    /\ changes' = changes + 1
    /\ UNCHANGED dropped /\ UpstreamOnly

Serve == Verify \/ Lookup \/ Run \/ Inspect

Next ==
    \/ Startup \/ Serve
    \/ \E call \in Calls : Arrive(call)
    \/ \E n \in DOMAIN upstream : \E t \in config.may[n] : Drop(n, t) \/ Create(n, t)

\* Calls to a source return, and a task that can go on is polled.
Spec == Init /\ [][Next]_vars /\ WF_vars(Startup) /\ WF_vars(Serve)

-----------------------------------------------------------------------------
(* Properties.                                                              *)

\* Every variable is of its type: an operation is tried MaxRetries times at the most, and
\* no more than Concurrency tables are being built, none of them twice.
TypeOK ==
    /\ config \in Configs
    /\ \A n \in DOMAIN upstream : upstream[n] \subseteq config.may[n] \cup config.upstream[n]
    /\ changes \in 0..MaxChanges
    /\ pc \in {"context", "sources", "auth", "validate", "pipelines", "jobs", "semantics", "store",
              "bind", "serving", "failed"}
    /\ which \in Contexts /\ at \in 1..(Len(Sources) + Len(config.files) + Len(config.jobs) + 1)
    /\ step \in 1..4 /\ attempt \in 1..MaxRetries
    /\ building \cap built = {} /\ Cardinality(building) <= Concurrency
    /\ \A c \in Contexts : \A p \in DOMAIN tables[c] : tables[c][p].source \in 0..Len(Sources)
    /\ request.stage \in {"idle", "verify", "inspect", "lookup", "run", "answered"}

\* What the search functions find is a table of that name that reads the same table, and
\* they find every table of a kind that can be searched: the two registries are filled by
\* different code, one table after the other and all at once.
SearchableIsQueryable ==
    Serving => \A c \in Contexts :
        /\ \A k \in DOMAIN datasets[c] :
              /\ k \in DOMAIN tables[c]
              /\ datasets[c][k].source = tables[c][k].source
              /\ datasets[c][k].reads = tables[c][k].reads
        /\ \A p \in DOMAIN tables[c] :
              tables[c][p].source # 0 /\ Sources[tables[c][p].source].kind \in SearchableKinds
                  => p \in DOMAIN datasets[c]

\* A table that was there all along is served, however the builds of a catalog were
\* interleaved and whatever else was created or dropped meanwhile.
StableTablesServed ==
    Serving => \A n \in DOMAIN Sources : \A t \in config.upstream[n] :
        /\ <<n, t>> \notin dropped
        /\ IF IsCatalog(Sources[n]) THEN t[1] \in Sources[n].allowed ELSE t = Sources[n].table
        => Path(Sources[n], t) \in DOMAIN tables["runtime"]

\* A name of a catalog reads the table it names, but for MySQL's catalogs, where that holds
\* only in the schema the connection starts in.
NamesReadTheirTable ==
    \A c \in Contexts : \A p \in {q \in DOMAIN tables[c] : Len(q) = 3} :
        LET s == Sources[tables[c][p].source]
        IN  s.kind # "mysql" \/ p[2] = s.database => tables[c][p].reads = <<p[2], p[3]>>

\* No pipeline writes a source that is read_only: the validator knows the names of sources,
\* the providers of catalogs their access mode, and neither alone would do.
ReadOnlyKept ==
    \A w \in written : w[1] \in DOMAIN Sources /\ Sources[w[1]].write

\* A query that was planned at startup finds its tables when it is called, unless one was
\* dropped between the registration for planning and the one for serving.
PlannedIsServable ==
    request.answer = "no table" /\ ~IsWrite =>
        \E r \in Query.reads : \E d \in dropped : Path(Sources[d[1]], d[2]) = Canonical(r)

\* A query that is reported healthy finds its tables, although the check asks for the sources
\* and not for what the pipeline reads; a write, which is not planned, may still miss one.
HealthyServes ==
    request.answer = "healthy" /\ ~IsWrite => Known("runtime", Query.reads)

\* A statement is its query with every value in its place, in whatever order the names came
\* out of the map, as long as no value looks like a placeholder.
StatementIsTemplate ==
    request.stage = "run" /\ Plain(Query, request.call.given)
        => request.statement = AtOnce(Query, request.call.given)

\* A parameter is taken to be of the column it is compared with, or the limit or offset it is,
\* when every placeholder of the query leaves a mark, no name is used twice and no OFFSET comes
\* before its LIMIT.
ColumnsAreTheirOwn ==
    \A n \in DOMAIN loaded :
        Marked(loaded[n].query) => loaded[n].columns = OwnColumns(loaded[n].query)

\* Startup comes to an end, at a server that serves or at one that gave up.
StartupSettles == <>(pc \in {"serving", "failed"})

\* A request that arrived is answered.
RequestsAnswered == request.stage \in {"verify", "inspect"} ~> request.stage = "answered"
=============================================================================
