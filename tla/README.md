# Skardi in TLA+

Skardi (`src/crates`) is a SQL server over heterogeneous sources: a DataFusion
`SessionContext` with table providers for databases, lakes and files, SQL functions that search
and that call models, parameterised *pipelines* served over HTTP, *jobs* (queries that run in
the background and write their result into a destination table), and a command line client
that runs the same pipelines by itself.  This directory models it, checks the models with TLC
on small instances and proves the most important results with TLAPS for every value of the
constants.

## 1. Inventory

| Component (source) | State | Operations | Talks to | What is hard | What makes it correct |
|---|---|---|---|---|---|
| Run ledger (`skardi/src/jobs/store.rs`) | table `job_runs` in SQLite, one connection thread | `create_run`, `update_status`, `reconcile_orphaned`, reads | executor, HTTP handlers | unconditional UPDATE; calls that fail; rows that outlive the process | rows tell the truth, a terminal row is final, none stays open |
| Job executor (`jobs/executor.rs`) | `cancel_flags`, one spawned task per run | `submit`, `cancel`, `run_job_task`, `reconcile_on_startup` | ledger, destinations, session | cancel, deadline, panic and crash between any two awaits | the row agrees with the destination; a cancel is obeyed or answered truthfully; flags are given back |
| Destinations (`jobs/destination/*`), SQL insert plans (`sqlite/mod.rs`, `sqlx/pg/postgres.rs`, `mysql.rs`) | the dataset or table; a staging table in the session; one transaction | `schema`, `write`, COMMIT | Lance bridge, databases | commit at the end, carried out elsewhere; a dropped future; a lost COMMIT answer | all of a run or nothing, once |
| Lance bridge (`sources/providers/lance/registration.rs`) | channel of 2, `rows_seen`, pump task, blocking reader thread | `write_lance_stream`, `spawn_stream_pump`, `next` | query stream, Lance | three actors on one worker; early ends of each | no truncated commit, bounded memory, no deadlock, no leaked task |
| Table providers (`redis`, `mongo`, `sqlite`, `sqlx/pg`, `mysql.rs`, `seekdb`) | rows elsewhere; Redis: one connection | scan, INSERT, REPLACE INTO, DELETE, UPDATE | databases, other clients of them | plan time against run time; no transactions; each evaluates filters its own way | a statement does what SQL says, a failed one leaves rows old or new |
| Column types (the same, `model/llm_extract`) | the schema, read once | conversion of values both ways | databases whose values may be of any type | inferred types, other clients | what is shown is what was written |
| Searches (`*_knn`, `*_fts`) | the pinned Lance version | filter pushdown, k, LIMIT, a vector from a subquery | databases, Lance | filters before or after the nearest; two reads of a table | the nearest of those that match, as many as asked for |
| Documents (`providers/documents`) | image files beside the parsed ones | walk, parse, render, write | file system, people who edit it | files change while they are read; images are shared | a page shown is one of a file that was there |
| From declaration to data (`remote_storage.rs`, `iceberg.rs`, connection code of every provider) | pools, stores, the metadata chosen | validate, build a URL, open, list, probe | environment, databases, object stores | two spellings of one login; writers commit while versions are probed | what is read is what was declared |
| Catalog hierarchy (`sources/hierarchy`) | tables of a catalog | `retry_with_timeout`, `build_catalog` | remote catalogs | deadlines, retries, concurrent builds | bounded attempts, everything or an error |
| Models (`model/{gguf,candle,onnx,remote_embed,llm_extract}`) | registries of loaded models, a session lock, an escalation budget | get or load, predict, embed, extract | files, HTTP providers | double-checked load; batches, chunks, NULLs; 429 and fallbacks | one answer per row, made of that row |
| Pipelines, access control (`pipeline`, `sql_validator.rs`, `server/src/pipeline_handlers.rs`) | loaded definitions | validate, plan, infer parameters, substitute, run | session | substitution order; two guards for one rule | statements are templates; read-only is kept |
| Semantics (`semantics.rs`) | one overlay | merge files, resolve | configuration | order of files, clashes | the same whatever the order |
| Server (`server/src/{config,server,jobs_handlers}.rs`) | `AppState`: two contexts, pipelines, jobs, overlay | startup, every route | all of the above | planned in one context, run in another | what was planned can be served; requests are answered |
| Authentication (`server/src/auth`) | users and sessions in SQLite | handlers, session check, two virtual tables | better-auth | a table read user by user while people sign in and out | only live sessions pass; the tables are live |
| Client (`cli/src`) | an alias file | one command per process | file system, a session of its own, a server | load, change, save without a lock; defaults and flags | no alias lost, none invented, statements are templates |
| GUI, metrics, telemetry, text chunking | | rendering, counting, splitting | | | not modelled |

`PROJECT.json` lists every component with its status and, under `hazards`, what can go wrong at
which line and which property looks for it.

## 2. Modules

| Module | Models | Kind |
|---|---|---|
| `JobStore` | a row and the three statements that write it | helpers, extended by `JobExecutor` |
| `JobExecutor` | executor, ledger, destinations, clients, crashes | specification |
| `RunLedger` | what a client of the jobs API and a reader of a destination may rely on | abstract specification |
| `LanceStream` | one `write_lance_stream` call | specification |
| `SqlRows` | rows, filters and what each provider makes of a filter | operators |
| `TableStatements` | statements at a table of one provider, beside one another and other clients | specification |
| `Search` | the search functions, extends `TableStatements` | specification |
| `Columns` | one column, from the value written to the value shown | specification |
| `ModelFunctions` | registries, batches, HTTP providers, extraction with escalation | specification |
| `Onnx` | `onnx_predict`: columns, lists and literals to tensors and back | specification |
| `Documents` | a documents source with its images and people who edit the files | specification |
| `Sources` | from a declaration to connections, listed tables, Iceberg metadata | specification |
| `Auth` | sign-in, session check, `auth.users` and `auth.sessions` | specification |
| `Pipelines` | access modes, parameter inference, substitution | operators |
| `Semantics` | the overlay and its merge | operators |
| `Server` | startup, registration in two contexts, every route; extends `Pipelines`, `Semantics` | specification |
| `Cli` | commands of the client beside a server and beside one another; extends `Server` | specification |
| `MCJobExecutor`, `MCLanceStream`, `MCTableStatements`, `MCValues`, `MCServer` | instances for TLC | |
| `JobExecutorProofs`, `LanceStreamProofs`, `TableStatementsProofs`, `ModelFunctionsProofs`, `AuthProofs`, `ServerProofs`, `CliProofs`, `ValuesProofs` | inductive invariants, safety, the refinement | proofs |

Compositions: `Cli` runs beside `Server` over one configuration; `Search` beside
`TableStatements` over one table; `JobExecutor` implements `RunLedger` and takes from
`LanceStream` (`WholeStreamOrNothing`) when a commit is asked for: after the whole stream, or after
what was pulled before the pump panicked.
`MCValues` puts six specifications that share no state into one run, one of them per behaviour,
the others standing still.

### JobExecutor

A run is a value of `Run` (the uuid of a submit).  `pc[r]` follows first `submit`, then
`run_job_task`; the states between two actions are the awaits at which another actor can run:

```
idle -Submit-> creating -CreateRun-> creating -Spawn-> spawned -MarkRunning-> started
     -StartQuery-> planning -OpenWrite-> streaming -Poll*-> committing -WriteReturns-> finished
     -Decide-> reporting -Report-> reported -DropFlag-> done
```

with the exits `rejected` (the INSERT failed), `dropped` (the handler's future was dropped while it
awaited the INSERT), `dead` (the task unwound, or died with the process), the early ways into
`finished` (cancel, query error, deadline), and a second one from `streaming` into `committing`: at
a lake the query is polled by the pump, a task of its own, and when that one panics (`PumpPanics`)
the reader sees a stream that has ended.  `torn` remembers the runs this has happened to; they
commit what they were sent and report it as success.  `ledger[r]` is the row, `flags[r]` the entry
of `cancel_flags`; both `StartQuery`, every poll of `CancellableStream` and `Decide` read the flag,
as the code does, and nothing else does.  `Decide` (the `match` and its guard) and `Report` (the
`update_status` it chose) are two steps because a cancel fits between them.

A destination commits apart from the task: `PollEnd` asks for the commit (`inflight`),
`CommitLands` and `CommitAborts` carry it out, `WriteReturns` takes the answer.  `Timeout` and
`Crash` can fall between those.  A crash forgets the commits of this process (Lance, SQLite) and
not those of a SQL server (`Remote`), whose answer may also be lost.  `version` is the Lance
dataset's version, 0 for a dataset that does not exist; a `create` only lands at version 0.

What a message, a schema, a parameter or a timestamp says is abstracted: a row's error is one
name per place that writes it, a timestamp is whether it is set, a query is how many batches it
yields.  Schema checks at submit only matter through the existence of a Lance dataset.

### LanceStream

The pump, the reader's thread and Lance's writer, with the queue between each two of them.  Pump
and writer are tasks of one runtime worker: the pump holds it from the moment the stream is ready
until it awaits again, which is what makes the deadlock of a blocking `send` expressible.
Lance's side (`WriteBatch`, `WriteEnd`, `CommitManifest`, `WriteFails`, `LetGo`,
`OrphanReturns`) is external: it is modelled from how the bridge uses it and what the comments of
`write_lance_stream` say of it.  `JobExecutor` has the same write as `streaming` and
`committing`, and `WholeStreamOrNothing` names the two ways from one to the other: the whole query
has been pulled (`PollEnd`), or the pump has panicked (`PumpPanics`).

### SqlRows, TableStatements, Search

`SqlRows` has one filter language (comparisons with a literal or a column, `OR` of two) and its
meanings: `SqlMatches` is DataFusion's, with NULLs; `RedisMatches` is `evaluate_filters` over
the strings of a hash; `MongoMatches` the document a DELETE or UPDATE sends; `Pushable` what a
Mongo scan sends along.  `TableStatements` has a table of one provider, statements of this
server at any position (`pc`), and another client (`Outside`).  Redis: keys are resolved when the
plan is made, every command needs the one connection and a busy one is an error, an INSERT writes
key after key, REPLACE INTO clears first.  Mongo: the rows of a SELECT are read while it is
planned, an INSERT upserts document after document.  The SQL servers: one transaction, whose
answer may be lost.  Every command may fail (`SqlFails` and the failing disjuncts).  The history
variables `alone`, `quiet` and `begun` say whether anyone interfered and what the table was.

`Search` adds queries that search: the vector is read in a query of its own, then the search is
sent as each provider assembles it: filter argument and WHERE, k and LIMIT, before or after the
nearest are taken.  sqlite-vec is external: it takes no OR, so SQLite filters those after the
index.  Lance searches the version opened at registration.  MySQL and Redis have no search.

### Columns, ModelFunctions, Onnx, Documents, Sources, Auth

`Columns` follows one value through a column of each provider: declared or inferred type, the
database's own conversion on write, the rows of other clients, the conversion to Arrow.  A
number is counted in halves, a text is the number it is the usual form of.  A property of
`llm_extract` is such a column, filled by a model.

`ModelFunctions` evaluates one function on one batch per `Eval`; batches run concurrently on threads
of their own.  gguf, candle and onnx look a model up, load it and enter it in the registry under
their different locks; `remote_embed` sends chunks, whose answers may be short, long, out of order
or repeat a vector (`mixed` remembers where); `llm_extract` asks row by row, retries once after 429,
falls back from `response_format`, and escalates weak answers to an image within a budget.  An
answer is an array of anything (`Sort`): objects, some of which call themselves an error, and bare
values, which `stamp_status` cannot mark.  Tokenizers, pooling and inference are numerical library
code, so an answer is known by what it was asked for.  `Onnx` is the conversion around a session:
which of the arguments of which rows are in which tensor.  A model of integers is run row by row; a
model of floats is run once on a tensor of the whole batch and gives as many values as it likes
(`Emitted`).

`Documents` walks a directory, parses a file, reads it again to render its pages, writes images
under names made from the path, and collects rows; `Change` is what other people do.
`Sources` goes from a declaration and an environment to what is opened: validation, object
stores, one or two pools with the login and URL put together for each, listing, and for Iceberg
the hint, the versions probed one by one, and the metadata, while `Commit`, `NameNewest` and
`Expire` are its writers.  Any read of the hint or of a version may fail, and the code takes that for
a file that is not there.  `Auth` hands calls to better-auth (external: `SignUp` ... `DeleteUser`,
`Lapse`), checks the session of a pipeline's call, and reads the two tables: users at once,
sessions user by user.

### Pipelines, Semantics, Server, Cli

A query is its verb, the table it writes, the tables it reads and its placeholders, each with the
column beside it.  Placeholders are visited as the code visits them (`Visited`): LIMIT before
OFFSET, in whatever order they are written, and as written in `LIMIT {o}, {l}`.  `Server` walks
through `setup_app_state` and `load_server_config`: the context file, the registration of every
source step by step (`Steps`: connect, list, build, each with its retries), pipelines checked and
then planned in the *planning* context, jobs, semantics, then every source again in the *runtime*
context, the ledger, the listener.  Then requests come to every route.  `Drop` and `Create` change
the tables upstream at any time.  Kind `csv` stands for parquet, iceberg, influxdb and documents as
well: a source that is registered or fails.  It "takes writes" because a directory of files accepts
INSERT.  SQLite opens a missing table with an empty schema.

`Cli` adds processes: each loads the alias file, changes its copy and saves it (`Truncate`, then
`WriteOut`), or turns flags, positionals and defaults into the values of a pipeline, or plans a
statement in a session of its own, or shows the tables, or asks the server about jobs.  `Kill`
stops a process anywhere.

## 3. Runs

Every configuration says `CHECK_DEADLOCK FALSE`: when all runs, statements or evaluations are
over, or the write has settled and its pump has ended, the modelled system stops for good; a
server whose startup failed exits.

| Run | Instance | Checks | Result |
|---|---|---|---|
| `job_failures` | 1 run of 3 jobs, one per destination (Lance, SQLite, Postgres), 2 batches, 2 crashes, ledger errors and panics | `ReportedRowsLanded`, `DeniedCommitsExplained`, `TerminalRowsFrozen`, `ImplementsRunLedger` | holds, 61 156 states |
| `job_contention` | 2 runs (symmetric), 1 batch, 1 crash, panics | `AllOrNothing` | holds, 4.91 million states |
| `job_liveness` | 1 run, fairness, 1 crash, sources that stall | `EventuallyTerminal`, `CancelTakesEffect`, `FlagsReclaimed` | holds, 3 854 states |
| `lance_bridge` | up to 6 batches, channel of 2, fairness | `WholeStreamOrNothing`, `WindowBounded`, `WriteSettles`, `BridgeDrains` | holds, 16 254 states |
| `table_statements` | 7 providers; 2 statements out of 16 on 2 keys and 2 columns, 1 write of another client; or a search beside an UPDATE and a SELECT | `ConnectionHeldInside`, `AloneIsSql`, `FailedRowsOldOrNew`, `SelectIsOneMoment`, `StatementsEnd`, `NearestMatches`, `AnswersAreFull` | holds, 774 565 states |
| `values` | six parts: 2 concurrent evaluations of 2 rows; one column of 2 rows; 2 batches of `onnx_predict`; 3 files in 2 directories, 2 scans, 1 change; one declaration of each kind, 5 Iceberg versions; 2 users, 2 sessions, 3 changes, 1 call | `AnswersRows`, `GgufLoadsOnce`, `EscalationBudget`, `EvaluationsEnd`, `RowsShowWhatWasWritten`, `PredictionsAreTheirRows`, `DocumentsAsTheyAre`, `SourcesAsDeclared`, `AuthTablesLive` | holds, 483 179 states |
| `server` | 13 configurations of a server with every route, 2 tables changed upstream; 2 commands of the client at a time over one file of aliases | `SearchableIsQueryable`, `StableTablesServed`, `NamesReadTheirTable`, `ReadOnlyKept`, `PlannedIsServable`, `HealthyServes`, `ColumnsAreTheirOwn`, `DescriptionsByRule`, `AliasesKept`, `StatementsAreTemplates`, `StartupSettles`, `RequestsAnswered` | holds, 27 505 states |
| `cancel_answer` | as `job_failures`, smaller | `CancelTrueMeansCancelled` | violated |
| `timeout_commit` | as `job_failures`, smaller | `TimedOutLeavesNothing` | violated |
| `staging_leak` | as `job_failures`, smaller | `StagingDropped` | violated |
| `empty_stream` | as `lance_bridge` | `EmptyNeverCommitted` | violated |
| `pump_panic` | as `lance_bridge` | `NothingPartial` | violated |

What the properties say, where the name does not:

* `AllOrNothing`: a run lands once and whole.  The exception is stated, not left out: after a panic
  of the pump a lake holds the part that was sent, and nowhere else does a part ever land.
* `AnswersRows`: each row's answer is made of that row, but for an answer of `remote_embed` that comes
  out of order, which spoils the rows of that request and no others (`Spoilt`); an entity's status
  follows what it is, and only a value that is no object has none.
* `PredictionsAreTheirRows`: a prediction comes from the model its batch named; of integers it is that
  of the row's own arguments, of floats the row's place among the outputs of one run on the
  row's batch, every argument of every row of it being at its place in the tensor.
* `AloneIsSql`: a statement that succeeds with nobody else writing since it began has done what
  SQL says; `FailedRowsOldOrNew`: each row a failed DELETE or UPDATE touched is as it was or as
  the statement makes it (nothing at SQLite, all or nothing at a SQL server, a prefix at Redis).
* `NearestMatches`: no row of the answer fails the filters, and none left out satisfies them and
  is nearer, except where the code's filter does not say what SQL says (`FiltersFollowSql`);
  `AnswersAreFull`: as many rows as k and LIMIT allow and the filters leave, except also where
  filters are applied to the rows found (`FiltersFound`).
* `RowsShowWhatWasWritten`: through the inferred type, the database's conversions and the rows of
  others; its exceptions are the conversions that are listed under section 6.
* `EscalationBudget`: a weak row that had an image and was not escalated found the budget spent.
* `StableTablesServed`: a table that was there all along is served, however the concurrent builds
  of a catalog interleave; `SearchableIsQueryable`: the registry of the search functions and the
  catalog, filled by different code, agree.
* `ReadOnlyKept`: the validator knows the names of sources, the providers of catalogs their mode;
  neither alone would do.
* `PlannedIsServable`: the tables a pipeline was planned with are there in the other context.
* `StatementsAreTemplates`: what is run is the query written, with the values given, at the server
  unless a value contains another placeholder; at the client always.
* `AliasesKept`: as long as no two commands meet at the file and none is killed while it writes,
  it is what the successful ones made of it; a file that is not one of aliases is never written.
* `SourcesAsDeclared`: what is opened, and how, is what was declared; the Iceberg version is the one
  the hint names, or no older than any that was there when it was looked up, is within those probed
  and was not passed over because its read failed.
* `AuthTablesLive`: a caller's session was open and in time at a moment of the call, and the tables
  show what was there during it, and all that was there throughout.

The violated properties are sentences of the documentation or of comments that the code does not
keep; `PROJECT.json` quotes them under `findings`:

* **cancel_answer**: `cancel` answers `true` as long as the flag is in the map, also after the
  task has read it for the last time.
* **timeout_commit**: a deadline cannot call back a commit under way, so a row may be `failed`
  ("before commit") and its rows visible.  `DeniedCommitsExplained` shows the full list of
  such disagreements, and that there is no other.
* **staging_leak**: `tokio::time::timeout` drops `SqlDmlDestination::write` at its await; the line
  that deregisters the staging table never runs.
* **empty_stream**: the row count is checked after Lance has committed an empty version.
* **pump_panic**: a panic of the query on the pump task looks like the end of the stream; the
  batches sent so far are committed and reported as success.

**Bounds.**  `MaxBatches`: what a destination commits depends on whether the stream ended, not on
how long it was; 0 (empty), 1 and 2 (a prefix that is neither empty nor whole) are the cases.  In
`LanceStream` six batches fill the channel, the pump's hand, the reader's and the writer's slot and
leave one over.  `MaxCrashes` 2 lets a row be reconciled, and a late commit of a SQL server
arrive, in the second life and be seen in the third.  Two runs are enough for the interactions of
runs, which are pairwise: they share only a destination's version.  The constants `Timed` and
`Stalling` choose which jobs have a deadline and which sources may stop answering; `job_contention`
leaves ledger errors, which concern one run at a time, to `job_failures`.

`table_statements`: two keys tell "some" from "all" and give an order of writes, two columns a
comparison of columns, the values 1, 2 and NULL every outcome of a comparison; statements
interfere pairwise, the second is an UPDATE, a SELECT or a REPLACE INTO.  Lance and Postgres answer
all or most of the searches, the others those that their code treats differently.  `values`: the
parts share nothing, so each behaviour runs one of them and holds the rest at one initial value; a
batch has rows with and without text, and one has more texts than the 2 of a request, so that an
answer can be out of order and texts fall on either side of a seam; a float model emits 0 to 3
values for batches of 1 to 3 rows; numbers reach the edges
of 32 bits through `Half32`; a second scan runs only with the options that write images;
`Probed` 3 stands for the 100 versions that are tried, and writers go beyond it; `MaxActs` 3 is a
sign-up, a sign-in and its end during one call.  The drivers' own parsing of URLs is external, and a
URL's query parameters that would override its login are not in the instance; texts are not
empty, but for InfluxDB's token.  `server`: `Concurrency` 2 for 8 and catalogs of three tables, so
that one waits; `MaxRetries` is the code's 3; two changes upstream, of which one may undo the other;
three parameters, one of whose names begins another's; a client's command beside another one, since
all they share is one file.

**Fairness.**  Jobs: `WF` of the submit's and the task's own steps: tokio polls every ready task and
SQLite's thread serves its queue.  `WF` of `Poll` and `Resolve` only for jobs whose source and
destination answer (`job[r] \notin Stalling`); `WF` of `Timeout`, since tokio fires timers; `WF` of
`Restart`, since an operator restarts a dead server.  Nothing is assumed of cancels, crashes,
failures and panics, and the liveness run leaves out ledger errors and panics: after either the row
is left open until the next restart, as the code does.  `EventuallyTerminal` also excepts a row
whose handler was dropped before it spawned the task, which nobody will run.  In `LanceStream` each
of the three actors gets `WF`; strong fairness is not needed because the bounded channel parks the
pump. `TableStatements`: `WF` of a statement's next command, which succeeds or fails (`Works(s) \/
SqlFails(s)`).  `ModelFunctions`: `WF` of each evaluation's step (threads are scheduled, HTTP calls
have a timeout).  It includes the sleep after a 429, which the code makes as long as `Retry-After`
says, without an upper bound: that a provider names an end is assumed.  `Server`: `WF` of `Startup`
and of `Serve`, one sequential task each.  This assumes that calls upstream return: those inside
`retry_with_timeout` have 5 seconds, the queries that list and build tables outside it have no
timeout.  A person at a terminal, another client, a file or a database that changes need do nothing.

## 4. Proofs

`JobExecutorProofs` assumes only the named assumptions of `JobStore`
and `JobExecutor` on the constants (`NullAssumption`, `JobAssumption`, `NullReplyAssumption`): any
set of runs, jobs and destinations, finite or not, any bounds.

* `TypeCorrect`: `Spec => []TypeOK`
* `LedgerIsTrue`: `Spec => []ReportedRowsLanded`
* `Atomicity`: `Spec => []AllOrNothing`
* `DenialsExplained`: `Spec => []DeniedCommitsExplained`
* `RowsFreeze`: `Spec => TerminalRowsFrozen`
* `Refinement`: `Spec => ImplementsRunLedger`

All rest on one inductive invariant, `IInv == TypeInv /\ DataInv`.  `TypeInv` adds to `TypeOK` what
a run's position says (`Control`): which positions have a row, an outcome, an answer, and that a
terminal row is only found at positions from which nothing writes it again; that is why a statement
that never checks the old status still never overwrites a terminal row.  `DataInv` adds what cannot
be seen from the row alone: every commit belongs to a run whose commit was asked for and answered
(`CommitOK`), it was asked for at most once, with the whole stream drained or, at a lake whose pump
panicked, with what had been sent (`Flight`), and what an outcome or a finished row says of the
destination is true and stays true (`Honest`).  The last is the heart: an error of a task that never
asked for a commit must say that no answer will ever come, so that a later `CommitLands` of another
run cannot make it false. `TypeStep` and `DataStep` take `Next` apart into one step per action;
`QuietData`, `OneRowData` and `SettleData` deal with the many that leave the destinations alone.
For the refinement, five actions write the row or land a commit and map to `Admit`, `Begin`,
`Confirm` or `Deny`, `Land` and `Reconcile`; all others are stutters.

`LanceStreamProofs` assumes `StreamAssumption` only: any channel capacity above 0, any number of
batches.

* `StreamTypeCorrect`: `Spec => []TypeOK`
* `NoTruncatedManifest`: `Spec => []WholeStreamOrNothing`
* `BoundedWindow`: `Spec => []WindowBounded`

Its invariant says who waits for whom (`Shape`), where every batch the query has yielded is while the
write still waits for its reader (`Flow`: counted by the reader, in the channel, or in the pump's
hand) and that an error, once yielded, is in one of these places until the writer meets it; from
this the end of the reader can only be reached with the whole query written (`Sealed`), and nothing
after it can take that back (`Manifest`).  `WholeStreamOrNothing` is not inductive because it speaks of
the manifest only, when it is too late to know how the stream ended.

`TableStatementsProofs` assumes `RowsAssumption`, `StatementAssumption` and `QueryAssumption` (a query has
finitely many conjuncts, a sequence of rows to insert, and sets a column to one of its values or to
another column): any keys, columns, rows, filters and statements, any number of writes of other
clients.

* `RedisFilterIsSql`: the string comparison of `evaluate_filters` selects the rows SQL selects of
  what a scan shows, since a missing field is an empty string to both.
* `MongoPushdownComplete`: what a Mongo scan sends along loses no document the query asks for.
* `ConnectionHeld`: `Spec => []ConnectionHeldInside`
* `SelectOneMoment`: `Spec => SelectIsOneMoment`
* `AloneRight`: `Spec => AloneIsSql`
* `FailedRows`: `Spec => FailedRowsOldOrNew`
* `SearchNearest`: `SearchSpec => NearestMatches`
* `SearchFull`: `SearchSpec => AnswersAreFull`
* `SearchesLeaveRows`: `SearchSpec => Spec`, so that all of the above holds with searches around.

The invariant (`Reads`) says of each SELECT what it has read so far: at Redis the connection in
hand keeps every writer of this server out, so the keys read answer as the table now stands unless
another client wrote (`quiet`); at Mongo only unless anyone did (`alone`).  `Frame` is what a step
owes the other statements, `Good` what each action is shown to satisfy.

The last two are about a whole statement, which takes many commands, so nothing can be read off its
last step: `WorkInv` says of a statement nobody has interfered with what it has made so far of the
table it began with (`Progress`).  Before its first write the table is the old one (`Untouched`).
At Redis the keys found are those that match among the ones read (`Finds`), an UPDATE has changed
the keys it has dropped from its list and counted them (`Updates`), an INSERT has written the first
n rows of its input over a table that REPLACE INTO has emptied (`InsertsInOrder`).  At Mongo the
partitions write in any order: a row of the table is the old one or one of the input, and with
distinct keys the table is what the rows written make of it (`InsertsInAnyOrder`).  A SQL server
shows nothing until it commits (`Transacts`).  `Places` and `Remains` say who can be where
whether or not anyone interferes.  Each action is shown to keep this (`Fine`) and to break at
most `alone` of the others (`OthersKept`): two statements that are at work are not alone.
The lemmas on `After` (one more row, the last row of a key, a prefix) replace the recursion of
the code over its input: `After` is defined by the last row of each key.

The searches also assume `SearchAssumption` (any distances, finitely many keys).  `Sought` carries
what is known between the two reads of a search: its vector is the one the query means of the
version it searches, unless the row that holds it has been written since (`still`).  The answer
itself is made in one step; that it holds the nearest is shown of any set of rows ordered by a
distance with ties (a group of equals is kept whole, cut or dropped), that it is full by counting:
the largest admissible subset has the size asked for or all there is (`Sized`), and taking the top
of the top changes nothing (`TopOfTop`).

`ModelFunctionsProofs` assumes `ModelAssumption` and `RegistryAssumption` (settings and batches have
their fields, only `llm_extract` looks at images): any evaluations, models, batches, answers,
limits and caps.

* `LoadsOnce`: `Spec => []GgufLoadsOnce`
* `RowsAnswered`: `Spec => []AnswersRows`, with answers in any order and entities of any sort
* `BudgetKept`: `Spec => []EscalationBudget`

`ModelsInv` has one part per protocol.  `GgufInv`: who loads holds the write lock and has seen the
cache empty, and what is loaded is cached, so the second of two that were waiting finds it.
`Embedding`: the vectors so far are as many as the texts sent, each that of its own text or, in a
request answered out of order, that of another text of the same request; with the bijection between
rows with a text and positions among the texts (`Before`, `Texts`) the answers land on their rows,
and what is spoilt stays within its request (`BatchAnswered`).  `Extracting`: the rows done have an
answer each, made of them, its status what the sort of each entity makes it.  `Spending`:
escalations so far and those left add up to the cap, and the escalation of the row at hand is
counted once although it may take four requests; the property itself speaks only of batches that
ended.

`AuthProofs` assumes `AuthAssumption` (calls read the two tables; the file at the start is one that
better-auth has left): any people, tokens, calls and files.

* `TablesLive`: `Spec => []AuthTablesLive`

`AuthInv` ties the history to the file (`Followed`: what is there now has been there during the
call, what has been there throughout is there now) and what was read to the history (`Complete`):
a table that is finished has every row that was there throughout, one that is being read user by
user has those of the users already asked.  That needs `Owned`: an open session is that of a
user, so a deletion closes what the loop will no longer ask for.

`ServerProofs` assumes `ServerAssumption` and `AnswerAssumption` (no answer is not an answer), and
`CliAssumption` for the client: any configurations, requests and numbers of attempts.

* `ReadOnlySafe`: `Spec => []ReadOnlyKept`; `ReadOnlySafeWithClients`: the same for `CliSpec`.
* `CatalogNames`: `Spec => []NamesReadTheirTable`
* `SearchFindsTables`: `Spec => []SearchableIsQueryable`
* `StableServed`: `Spec => []StableTablesServed`
* `PlannedServed`: `Spec => []PlannedIsServable`
* `HealthServed`: `Spec => []HealthyServes`
* `RegistriesWithClients`: the last four and `NamesReadTheirTable` for `CliSpec`.
* `ColumnsOwn`: `[]ColumnsAreTheirOwn`, for `Spec` and for `CliSpec`.

`ReadOnlyKept` is not inductive: the write happens long after the check.  `TablesGuarded` says that
every registered table that takes writes belongs to a source that does or has its source's own
name, `LoadedAllowed` that every loaded pipeline passed the validator, which knows these names;
`CanonicalLast` closes the gap between the two: the last part of whatever a query calls a table is
its source's name.  `CliSteps` shows that a step of a client is a stutter of the server.  For the
names, `Found` follows a table from the listing to its provider.

The properties of the registries are about a server that serves and are decided while it starts,
twice over.  `RegistryInv` says at every point of both registrations which sources the context is
through with, that the tables at hand were listed and may be registered (`Gathered`), and that every
entry reads what its path says (`Entries`).  `SearchInv` adds the second registry: a dataset is that
of a registered table or of one built for the registration under way (`Agrees`), so that a catalog
whose builds are interleaved never leaves the two apart.  `PlannedInv` carries a table across the
two registrations: what was there at the start, or was found when the pipelines were planned, is
listed and registered again unless it has been dropped (`Awaited`).  `AskedInv` is about requests:
a health check asks for the sources, which says something of a pipeline's tables only
because a server whose sources are all found as tables has no catalog.
`ColumnsInv` says that what is recorded of a pipeline is what inference makes of its query;
`MarkedColumns` that counting names and counting marks agree where every placeholder leaves a mark,
none is used twice and no OFFSET stands before its LIMIT.

`CliProofs` assumes `CliAssumption`, `ServerAssumption`, `FileAssumption` (a file that is not one of
aliases holds none), `ValueAssumption` (values are texts, columns are no placeholders) and
`WordsAssumption` (aliases and arguments are made of parameter names, words and texts): any processes,
commands and files, queries with any number of placeholders, texts of any length.

* `AliasesSafe`: `CliSpec => []AliasesKept`
* `DescriptionsRule`: `CliSpec => []DescriptionsByRule`
* `StatementsTemplates`: `CliSpec => []StatementsAreTemplates`; `ServerTemplates`: its first part,
  `StatementIsTemplate`, for `Spec`.

Nothing locks the file; the property is about places where no two commands met and none was
stopped.  `AliasInv` says of these that one command at a time has the file in hand, that what it has
read is what was acknowledged, what it will save is that with its own change, and that the file is
empty exactly while it writes (`InHand`); a file nobody can read is never opened to be
written (`Untouchable`).

The overlay is a fold over files, each of them a fold over its entries.  `FoldExists` and `FoldInOrder`
show that the function the community module chooses for a fold exists and goes through the items in
order; `Told` is then an invariant of the merge: the entries read so far agree with one another, and
the overlay holds their texts and else what the context file says.  `OverlayRule` reads the
property off it, whatever the order.  `ShowsByRule` carries this to the table a client shows: the
first part of a table's path is the name of its source.

A statement is a template whose names were replaced one after the other, by a fold over a sorted list
each step of which puts a whole text together again.  `FlattenIs` says what `FlattenSeq` makes of
any sequences, `PutCat` that filling a text is filling its parts, `PutNext` that filling for some names
and then for one more is filling for all of them as long as no value holds that name; by induction over
the list (`SubstitutedAll`) every order of the names makes the statement that one pass makes
(`TemplateSubstituted`).  `Plain` is needed exactly there: a value that looks like a placeholder is
replaced in its turn.  For the client, `LastWins` says which of several flags, or of several places of
one parameter, is kept; `Completed` follows the defaults in the order of their names, each filled
with what was bound before it.  `BoundIs` reads from this that a default which only refers to what the
line gives once has the value that it ought to have, whatever other defaults came first.  `StatementInv`
and `CommandInv` carry query, values and statement to where they are run.

`ValuesProofs` assumes `OnnxAssumption`, `ColumnsAssumption`, `DocumentsAssumption` and
`SourcesAssumption`: any rows, columns and forms of arguments; any providers, types and numbers; any
files, pages, lines, images and options; any declarations, environments, stores and writers of
metadata.

* `OnnxPredicts`: `OnnxSpec => []PredictionsAreTheirRows`
* `ColumnsShow`: `ColumnsSpec => []RowsShowWhatWasWritten`
* `SourcesDeclared`: `SourcesSpec => []SourcesAsDeclared`
* `DocumentsShow`: `DocumentsSpec => []DocumentsAsTheyAre`

`OnnxInv`: what is predicted falls into batches, and each of them is `MadeOf` its own rows: the tensor
built of the batch's arguments is the one laid out row by row (`Laid`), whichever of them come as
columns, lists or literals, and the answers are spread back over the rows in their order.  Nothing
is assumed of the outputs of a float model but that each has a tensor and a place; `MadeOfStays`
carries the batches done past the next one.  `ColumnsInv`: a cell is what its
column's type and the database's own conversion can hold (`CellOK`), and the schema is one its
provider can have found (`SchemaOK`); then each way of showing a value is the inverse of a way of
writing it, or the value is another client's.  `SourcesInv`: the stage says which checks have been
passed (`StageInv`) and what is open (`OpenedInv`), and a version of the metadata that was promised is
there until the probe is below it, has failed to read it, or it has expired together with
everything up to it (`VersionInv`).  `DocumentsInv`: every image that exists is
one of its page at a version there has been (`ImageInv`), and a scan is part of the way through its
files, pages and rows (`ScanInv`: the rows so far are in order, none is lost, and each is of a page
that was there).  That tables are blocks of consecutive lines is shown for the walk over lines by
induction (`TablesOfLines`).

What the proofs changed in the models.  `Texts` and `Before` say by counting which row a text comes
from, `InferredColumns` which mark a name goes with, and the groups of equally distant rows are sets.
`HealthyServes` excludes pipelines that write: they are not planned at startup, so a
table they name may be missing although the check is green; no configuration of the run has
one, the proof asked for it.  `AnswersAreFull` asked a Mongo search with LIMIT 0 for one row; it gives
none.  The names of images are over a file's own pages.  `FailedRowsOldOrNew` was a CASE with
overlapping guards, of which TLA+ leaves open which one counts; it is now a conjunction and says more.
For the same reason the guards of the other CASE expressions (`MongoEncoded`, `MongoShows`,
`Token`, `Port`) are disjoint.  `FlagArgs` and `Words` take arguments by their places
(`ArgsAt`), for the prover cannot expand `SelectSeq`.

Induction.  The library's induction theorems take an operator and cannot be instantiated by the
provers that are used here.  `SetInduction` is induction for a set of numbers, by the pigeonhole
principle; what is defined by recursion over data is proved with it, after the recursive function
has been shown to exist.

Only model-checked:

* every liveness property, and with them every fairness condition: `ENABLED` is out of the
  prover's reach.

## 5. What is not modelled

* Text chunking (`chunk`): argument checks around the text-splitter crate, NULL in, NULL out;
  `vec_to_binary`; GUI, metrics and telemetry: no state that a request depends on.
* Schemas at submit: `executor.rs:245` compares them, the write comes later; a destination
  altered in between is a hazard without a property, and so is the positional
  `INSERT ... SELECT *` of `sql_dml.rs:127`, where preflight compares by name.
* A second server on the same `jobs.db` (the default path is shared): its start would rewrite the
  first one's running rows.
* Prompts, tokenizers, pooling, inference, nested JSON; Flight SQL, Iceberg's own scan, the document
  parser, MySQL's conversions, URL parsing of the drivers, better-auth: libraries, used as the
  code uses them.  better-auth's `list_users` is taken to return all users and `get_user_sessions`
  all open sessions and any of the revoked.
* Object stores and tables at URLs in the client; MySQL's multi-assignment order; the order of
  NULL vectors.
* The substitution of a job's parameters (`executor.rs:450`) has the hazard of a pipeline's, and the
  models have no job parameters: `StatementsAreTemplates` is about pipelines and the client.
* `panic = "abort"` is set only for the `release-cli` profile; the server unwinds, as `TaskPanics`
  and `PumpPanics` do.
* Overwrite mode of jobs: rejected when a job is loaded.

## 6. Known departures

What the models take over from the code although a reader may not expect it, and what the
properties therefore except.  None of it is a run of its own.

**Tables.**  Redis: an UPDATE of a key that has gone creates a row of the SET columns; REPLACE INTO
clears the whole table; the pattern `prefix:*` also matches another table's keys whose prefix begins
the same way; the schema is learned from the first hash and kept, so a column it lacks stays
hidden; NULL reads as the empty string.  Mongo: the schema comes from one document (later integers
are cut or wrapped, other types read NULL); a NULL that another client writes into a required
column fails every SELECT; INSERT OVERWRITE is an INSERT; a comparison with a column on the right
compares with a string; `$ne` matches missing fields; two documents without `_id` collide.  SQLite:
a value of another class reads NULL, a BOOLEAN 5 reads TRUE, text like `1.50` in a DATE or DECIMAL
column becomes 1.5, pushed filters compare the stored value.  Postgres: an INSERT drops explicit
values of generated columns.  MySQL and SeekDB count the rows changed, not the rows matched; a SET
of the key is modelled only where it is refused.

**Jobs.**  A panic on the pump task looks like the end of the stream (`registration.rs:256`): a lake
job then commits the batches sent so far, possibly none, and is reported as `succeeded` if there
was one.

**Searches.**  Lance (and an inline filter of `pg_knn`) joins filters without parentheses, so an
`OR` may bind wrongly; `lance_knn` filters after the nearest k (`lance/knn_exec.rs:54` says before,
`docs/lance/README.md:76` after); `lance_fts` drops its limit with WHERE and has no bound or sign check;
SQLite filters `OR` after the index; `pg_knn` ignores an inline filter that is not a string;
`pg_fts` refuses more than 500 only for a query that is not empty; a negative n of `mongo_fts`
wraps.  A NULL vector from a subquery gives no rows at SQLite and SeekDB, an error at Postgres,
and what lies under the NULL at Lance.  Postgres' searches fail on smallint and show NULL for
dates, uuids, JSON and vectors; SeekDB's fail on SmallInt, Date and Binary columns although a
comment of `fts_exec.rs` says that a catch-all covers dates.

**Models.**  candle and ONNX load without a lock and may load twice; a panic poisons an ONNX session
for good.  `onnx_predict` takes the path from the batch's first row, reads what lies under a NULL,
fails in list mode for batches of more than one row, cuts lists to the length of the first one and
panics on shorter ones.
A second 429 is taken for a server without `response_format` (up to four requests).  The cap on
escalations is per batch (`llm_extract/mod.rs:60` and `docs/llm_extract.md:105` say per query).  OpenAI's
`index` is ignored (`remote_embed/openai.rs:59`), so an answer that is out of order lands on the wrong
rows of its request.  An entity that is no JSON object is returned without `_status`
(`llm_extract/mod.rs:473`), though `docs/llm_extract.md:77` gives every entity one; it becomes a struct of
NULLs.  A float ONNX model is run once on all rows of a batch (`onnx/mod.rs:212`), so its predictions may
depend on how DataFusion cuts the query into batches, of which `docs/onnx_predict.md:22` and `:30` say
nothing.  An integer property answered as 2.0 reads NULL.  NULL becomes "" or 0 for candle
and ONNX.

**Pipelines and server.**  `docs/server.md:206` says a pipeline or job that writes a read-only
source is rejected: jobs are not validated, tables of catalogs are refused by the provider when the
statement runs, and the Redis and Mongo providers do not look at `access_mode` (the validator does,
by name).  MySQL's catalog refers to a table without its schema (a comment of `mysql.rs` and one of
`seekdb/mod.rs` disagree), so a name in another schema reads the default one.  Parameters are
matched with columns by counting, and LIKE, BETWEEN, SET, VALUES, function arguments, repeated names
or OFFSET before LIMIT (which are then exchanged) shift the later ones.  The server substitutes
again in values that contain `{param}`; the client does not.  The pipeline health check reports
catalogs and deferred Lance sources as unhealthy, and never asks the source.  The planning context's
pools live as long as the pipelines.

**Authentication.**  `docs/auth/README.md:166-167` says `auth.sessions` holds active sessions; expiry is
not looked at.  A wrong bearer token is not rescued by a right cookie; a database error while a session
is verified is answered with 401.

**Client.**  Two commands that change the alias file at once lose one of the changes; a crash between
`Truncate` and `WriteOut` leaves an empty file, which reads as no aliases, and a reader in that window
sees none; a local `aliases.yaml` that appears later shadows the one at home; defaults that refer to
one another are resolved in the order of names; a flag and a positional for one parameter leave
`{param}` in a default reading the positional; later pipeline directories shadow earlier ones, and the
order inside one is the file system's; access modes are not validated, so the client can write Mongo
and csv sources.

**Sources and documents.**  `docs/S3_USAGE.md` promises IAM roles without credentials and Lance on
S3: `remote_storage.rs` asks for `AWS_ACCESS_KEY_ID` or `AWS_PROFILE`, and `config.rs:1378` never
registers a remote Lance dataset.  `sqlite/mod.rs:421` says that shadow tables are hidden; those of
FTS5 are not, while `sqlite_%` hides a user's `sqlitefoo`.  Iceberg takes from its options the
credentials that csv refuses; a garbled hint is version 1; only versions 1 to 100 are probed; an
error while the hint or a version is read counts as its absence (`iceberg.rs:176-195`), so that a
passing failure silently selects an older version.  A password without a user is dropped by
Postgres' second pool and by Mongo; the path and options of a Mongo URI are dropped; MySQL, SeekDB
and Postgres ignore a login in the URL.  InfluxDB's passed-through options may replace the database
or the authorization.  Image names collide for paths that differ only in `/` and `_`; page images
come from a second read of the file and may show a newer version than the text; a write that fails
may leave empty an image that an earlier row refers to; references to a remote store are recorded
without an upload; a file that cannot be parsed is only logged.

## 7. Plan

Every module of the plan is written, and every safety property of the passing runs is a theorem.
Worth proving next: type correctness of `Server`,
`TableStatements` and `Cli` as theorems of their own; of `Sources`, what a declaration that is
refused never opens.
