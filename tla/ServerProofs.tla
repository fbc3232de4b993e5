---------------------------- MODULE ServerProofs ----------------------------
(***************************************************************************)
(* Proofs about Server, for every configuration.  That no pipeline writes  *)
(* a read-only source takes two guards: the provider of a catalog's table  *)
(* knows its access mode, and the table of any other source has the        *)
(* source's name, which is the last part of whatever a query calls it.     *)
(* A server beside commands of the client takes the steps of one alone.    *)
(***************************************************************************)
EXTENDS Cli, SequenceTheorems, FiniteSetTheorems, TLAPS

\* The server is somewhere, and registers in one of its contexts.
Placed ==
    /\ config \in Configs /\ at \in Nat \ {0} /\ which \in Contexts
    /\ DOMAIN tables = Contexts

\* A table that takes writes is of a source that does, or has its source's name.
TablesGuarded ==
    \A c \in Contexts : \A p \in DOMAIN tables[c] :
        tables[c][p].write =>
            /\ tables[c][p].source \in DOMAIN Sources
            /\ Sources[tables[c][p].source].write \/ p = <<Sources[tables[c][p].source].name>>

FilesAllowed == \A i \in DOMAIN config.files : Allowed(config.files[i].query, ReadOnlyNames)

LoadedAllowed ==
    /\ pc = "pipelines" => FilesAllowed
    /\ \A n \in DOMAIN loaded :
          /\ loaded[n].query.target \in Seq(STRING)
          /\ Allowed(loaded[n].query, ReadOnlyNames)

RequestFields == {"stage", "call", "statement", "answer", "shown"}

RequestKnown ==
    /\ DOMAIN request = RequestFields
    /\ request.stage = "run" => request.call.name \in DOMAIN loaded

IInv == Placed /\ TablesGuarded /\ LoadedAllowed /\ RequestKnown /\ ReadOnlyKept

USE DEF Contexts

-----------------------------------------------------------------------------
\* The last part of a name says which table of a source it may be.
LEMMA CanonicalLast ==
    ASSUME NEW path \in Seq(STRING), NEW name, Canonical(path) = <<name>>
    PROVE  Last(path) = name
<1>1. CASE Len(path) = 2 /\ path[1] = "public"
  BY <1>1 DEF Canonical, Last
<1>2. CASE Len(path) = 3 /\ path[1] = "datafusion" /\ path[2] = "public"
  BY <1>2 DEF Canonical, Last
<1>3. CASE ~(Len(path) = 2 /\ path[1] = "public")
           /\ ~(Len(path) = 3 /\ path[1] = "datafusion" /\ path[2] = "public")
  BY <1>3 DEF Canonical, Last
<1> QED BY <1>1, <1>2, <1>3

\* A server that starts, or none.
Began == config \in Configs /\ Blank /\ pc \in {"context", "failed"}

LEMMA InitBegan == Init => Began
BY DEF Init, Began

LEMMA CliBegan == CliInit => Began
BY CliAssumption DEF CliInit, Began

LEMMA CliSteps == [CliNext]_<<vars, cliVars>> => [Next]_vars
<1> SUFFICES ASSUME CliNext, NEW p \in Process, Client(p) PROVE UNCHANGED vars
  BY DEF CliNext
<1>1. CASE LoadAliases(p) \/ Truncate(p) \/ WriteOut(p) \/ WriteFails(p) \/ Kill(p)
  BY <1>1 DEF LoadAliases, Truncate, WriteOut, WriteFails, Kill, ClientOnly
<1>2. CASE AddAlias(p) \/ RemoveAlias(p) \/ ShowAliases(p) \/ CallAlias(p) \/ StartRun(p)
  BY <1>2 DEF AddAlias, RemoveAlias, ShowAliases, CallAlias, StartRun, FilesKept, ClientOnly
<1>3. CASE Prepare(p) \/ Open(p) \/ RegisterSource(p) \/ Registered(p)
  BY <1>3 DEF Prepare, Open, RegisterSource, Registered, FilesKept, ClientOnly
<1>4. CASE Execute(p) \/ Describe(p) \/ AskServer(p)
  BY <1>4 DEF Execute, Describe, AskServer, FilesKept, ClientOnly
<1> QED BY <1>1, <1>2, <1>3, <1>4 DEF Client

LEMMA InitIInv == Began => IInv
<1> SUFFICES ASSUME Began PROVE IInv
  OBVIOUS
<1>1. Placed
  BY DEF Began, Blank, Placed
<1>2. TablesGuarded
  BY DEF Began, Blank, TablesGuarded
<1>3. LoadedAllowed
  BY DEF Began, Blank, LoadedAllowed
<1>4. RequestKnown /\ ReadOnlyKept
  BY DEF Began, Blank, Idle, RequestKnown, RequestFields, ReadOnlyKept
<1> QED BY <1>1, <1>2, <1>3, <1>4 DEF IInv

\* What a context is after a source's tables were put in it.
LEMMA Extended ==
    ASSUME NEW c \in Contexts, NEW fresh, Placed,
           tables' = [tables EXCEPT ![which] = Over(fresh, @)], NEW p \in DOMAIN tables'[c]
    PROVE  IF c = which /\ p \in DOMAIN fresh THEN tables'[c][p] = fresh[p]
           ELSE p \in DOMAIN tables[c] /\ tables'[c][p] = tables[c][p]
<1>1. tables'[c] = IF c = which THEN Over(fresh, tables[c]) ELSE tables[c]
  BY DEF Placed
<1>2. CASE c = which
  <2>1. tables'[c] = [x \in DOMAIN fresh \cup DOMAIN tables[c] |->
                        IF x \in DOMAIN fresh THEN fresh[x] ELSE tables[c][x]]
    BY <1>1, <1>2 DEF Over
  <2> QED BY <2>1, <1>2
<1> QED BY <1>1, <1>2

LEMMA ExtendedOld ==
    ASSUME NEW c \in Contexts, NEW fresh, IInv, tables' = [tables EXCEPT ![which] = Over(fresh, @)],
           NEW p \in DOMAIN tables'[c], ~(c = which /\ p \in DOMAIN fresh)
    PROVE  p \in DOMAIN tables[c] /\ tables'[c][p] = tables[c][p]
<1>1. tables'[c] = IF c = which THEN Over(fresh, tables[c]) ELSE tables[c]
  BY DEF IInv, Placed
<1>2. CASE c = which
  <2>1. tables'[c] = [x \in DOMAIN fresh \cup DOMAIN tables[c] |->
                        IF x \in DOMAIN fresh THEN fresh[x] ELSE tables[c][x]]
    BY <1>1, <1>2 DEF Over
  <2> QED BY <2>1, <1>2
<1> QED BY <1>1, <1>2

-----------------------------------------------------------------------------
(* Startup.                                                                 *)

\* A step that leaves what the invariant is about alone, and does not begin the loading of
\* pipelines.
LEMMA Aside ==
    ASSUME IInv, at' \in Nat \ {0}, which' \in Contexts, pc' = "pipelines" => pc = "pipelines",
           UNCHANGED <<config, tables, loaded, request, written>>
    PROVE  IInv'
<1>1. Placed' /\ TablesGuarded' /\ RequestKnown' /\ ReadOnlyKept'
  BY DEF IInv, Placed, TablesGuarded, RequestKnown, ReadOnlyKept, Sources
<1>2. LoadedAllowed'
  BY DEF IInv, LoadedAllowed, FilesAllowed, ReadOnlyNames, Sources
<1> QED BY <1>1, <1>2 DEF IInv

LEMMA ProviderOf ==
    ASSUME NEW s, NEW n, NEW t
    PROVE  /\ Provider(s, n, t).source = n
           /\ Provider(s, n, t).write = Writes(s)
           /\ Provider(s, n, t).reads = Reference(s, t)
<1> DEFINE cached == s.cached /\ s.kind = "csv"
           write == Writes(s)
           reads == Reference(s, t)
<1>1. Provider(s, n, t) = [source |-> n, reads |-> reads, write |-> write, cached |-> cached]
  BY DEF Provider
<1> HIDE DEF cached, write, reads
<1>2. /\ Provider(s, n, t).source = n
      /\ Provider(s, n, t).write = write
      /\ Provider(s, n, t).reads = reads
  BY <1>1
<1> QED BY <1>2 DEF write, reads

\* A table that is registered is of the source at hand and has its name, or is one of a
\* catalog, whose provider knows the access mode.
LEMMA InstallGuarded == IInv /\ Install => IInv'
<1> SUFFICES ASSUME IInv, Install PROVE IInv'
  OBVIOUS
<1> DEFINE fresh == [p \in {Path(Source, t) : t \in built} |->
                        Provider(Source, at, CHOOSE t \in built : Path(Source, t) = p)]
<1>1. /\ at \in DOMAIN Sources /\ at' = at + 1 /\ which' = which /\ pc = "sources" /\ pc' = pc
      /\ UNCHANGED <<config, loaded, request, written>>
      /\ tables' = [tables EXCEPT ![which] = Over(fresh, @)]
  BY ServerAssumption DEF IInv, Placed, Install, Registering, Outside, Sources
<1>2. Placed'
  BY <1>1 DEF IInv, Placed
<1>3. TablesGuarded'
  <2> SUFFICES ASSUME NEW c \in Contexts, NEW p \in DOMAIN tables'[c], tables'[c][p].write
               PROVE  /\ tables'[c][p].source \in DOMAIN Sources
                      /\ \/ Sources[tables'[c][p].source].write
                         \/ p = <<Sources[tables'[c][p].source].name>>
    BY <1>1 DEF TablesGuarded, Sources
  <2>1. CASE c = which /\ p \in DOMAIN fresh
    <3>1. tables'[c][p] = fresh[p]
      <4>1. tables'[which] = Over(fresh, tables[which])
        BY <1>1 DEF IInv, Placed
      <4> QED BY <2>1, <4>1 DEF Over
    <3>2. PICK t \in built : p = Path(Source, t)
      BY <2>1
    <3>a. fresh[p] = Provider(Source, at, CHOOSE u \in built : Path(Source, u) = p)
      BY <2>1
    <3>3. /\ tables'[c][p].source = at
          /\ tables'[c][p].write = Writes(Source)
      <4>1. PICK u : fresh[p] = Provider(Source, at, u)
        BY <3>a
      <4>2. Provider(Source, at, u).source = at /\ Provider(Source, at, u).write = Writes(Source)
        BY ProviderOf
      <4> HIDE DEF fresh
      <4> QED BY <3>1, <4>1, <4>2, Zenon
    <3>4. CASE Source.write
      BY <1>1, <3>3, <3>4 DEF Source
    <3>5. CASE ~Source.write
      BY <1>1, <3>2, <3>3, <3>5 DEF Writes, Path, IsCatalog, CatalogKinds, Source
    <3> QED BY <3>4, <3>5
  <2>2. CASE ~(c = which /\ p \in DOMAIN fresh)
    <3>1. p \in DOMAIN tables[c] /\ tables'[c][p] = tables[c][p]
      BY <1>1, <2>2, ExtendedOld
    <3> QED BY <3>1 DEF IInv, TablesGuarded
  <2> QED BY <2>1, <2>2
<1>4. LoadedAllowed' /\ RequestKnown' /\ ReadOnlyKept'
  BY <1>1 DEF IInv, LoadedAllowed, RequestKnown, ReadOnlyKept, ReadOnlyNames, Sources, FilesAllowed
<1> QED BY <1>2, <1>3, <1>4 DEF IInv

LEMMA RegisterIInv == IInv /\ Register => IInv'
<1> SUFFICES ASSUME IInv, Register PROVE IInv'
  OBVIOUS
<1> at \in Nat \ {0} /\ which \in Contexts
  BY DEF IInv, Placed
<1> USE DEF Kept, Outside, Registering, progress
<1>1. CASE SkipLance
  BY <1>1, Aside DEF SkipLance
<1>2. CASE List
  BY <1>2, Aside DEF List, NextStep
<1>3. CASE Install
  BY <1>3, InstallGuarded
<1>4. CASE SourcesDone
  BY <1>4, Aside DEF SourcesDone, Moved
<1>5. ASSUME NEW op, Connect(op) PROVE IInv'
  BY <1>5, Aside DEF Connect, NextStep
<1>6. ASSUME NEW op, AttemptFails(op) PROVE IInv'
  BY <1>6, Aside DEF AttemptFails, Failed
<1>7. ASSUME NEW t, StartBuild(t) \/ FinishBuild(t) \/ BuildFails(t) PROVE IInv'
  BY <1>7, Aside DEF StartBuild, FinishBuild, BuildFails, Failed
<1> QED BY <1>1, <1>2, <1>3, <1>4, <1>5, <1>6, <1>7 DEF Register

LEMMA BuildAuthIInv == IInv /\ BuildAuth => IInv'
<1> SUFFICES ASSUME IInv, BuildAuth PROVE IInv'
  OBVIOUS
<1> DEFINE fresh == [p \in {<<"auth", "users">>, <<"auth", "sessions">>} |->
                        [source |-> 0, reads |-> p, write |-> FALSE, cached |-> FALSE]]
<1>1. /\ at' \in Nat \ {0} /\ which' = which /\ pc' # "pipelines"
      /\ UNCHANGED <<config, loaded, request, written>>
      /\ tables' = tables \/ tables' = [tables EXCEPT ![which] = Over(fresh, @)]
  BY DEF IInv, Placed, BuildAuth, Moved, Failed, Outside, progress
<1>2. CASE tables' = tables
  BY <1>1, <1>2, Aside DEF IInv, Placed
<1>3. CASE tables' = [tables EXCEPT ![which] = Over(fresh, @)]
  <2>1. Placed'
    BY <1>1, <1>3 DEF IInv, Placed
  <2>2. TablesGuarded'
    <3> SUFFICES ASSUME NEW c \in Contexts, NEW p \in DOMAIN tables'[c], tables'[c][p].write
                 PROVE  /\ tables'[c][p].source \in DOMAIN Sources
                        /\ \/ Sources[tables'[c][p].source].write
                           \/ p = <<Sources[tables'[c][p].source].name>>
      BY <1>1 DEF TablesGuarded, Sources
    <3>1. ~(c = which /\ p \in DOMAIN fresh)
      <4>1. \A x \in DOMAIN fresh : ~fresh[x].write
        OBVIOUS
      <4>2. tables'[which] = Over(fresh, tables[which])
        BY <1>3 DEF IInv, Placed
      <4> QED BY <4>1, <4>2 DEF Over
    <3>2. p \in DOMAIN tables[c] /\ tables'[c][p] = tables[c][p]
      BY <1>3, <3>1, ExtendedOld
    <3> QED BY <3>2 DEF IInv, TablesGuarded
  <2>3. LoadedAllowed' /\ RequestKnown' /\ ReadOnlyKept'
    BY <1>1 DEF IInv, LoadedAllowed, RequestKnown, ReadOnlyKept, ReadOnlyNames, Sources, FilesAllowed
  <2> QED BY <2>1, <2>2, <2>3 DEF IInv
<1> QED BY <1>1, <1>2, <1>3

\* Reading the context file, and what comes after the pipelines: neither a table nor a
\* pipeline is put anywhere.
LEMMA LoadContextIInv == IInv /\ LoadContext => IInv'
<1> SUFFICES ASSUME IInv, LoadContext PROVE IInv'
  OBVIOUS
<1> QED
  BY Aside DEF IInv, Placed, LoadContext, Moved, Failed, Kept, Outside, progress

LEMMA TailIInv == IInv /\ (PipelinesDone \/ LoadJob \/ JobsDone \/ LoadSemantics \/ OpenStore \/ Bind) => IInv'
<1> SUFFICES ASSUME IInv, PipelinesDone \/ LoadJob \/ JobsDone \/ LoadSemantics \/ OpenStore \/ Bind
             PROVE  IInv'
  OBVIOUS
<1> at \in Nat \ {0} /\ which \in Contexts
  BY DEF IInv, Placed
<1> USE DEF Kept, Outside, Moved, Failed, progress
<1>1. CASE PipelinesDone
  BY <1>1, Aside DEF PipelinesDone
<1>2. CASE LoadJob
  <2>1. /\ at' \in Nat \ {0} /\ which' = which /\ pc' # "pipelines"
        /\ UNCHANGED <<config, tables, loaded, request, written>>
    BY <1>2 DEF LoadJob, Advance
  <2> QED BY <2>1, Aside
<1>3. CASE JobsDone
  BY <1>3, Aside DEF JobsDone
<1>4. CASE LoadSemantics
  <2>1. /\ at' \in Nat \ {0} /\ which' \in Contexts /\ pc' # "pipelines"
        /\ UNCHANGED <<config, tables, loaded, request, written>>
    BY <1>4 DEF LoadSemantics
  <2> QED BY <2>1, Aside
<1>5. CASE OpenStore
  BY <1>5, Aside DEF OpenStore
<1>6. CASE Bind
  BY <1>6, Aside DEF Bind
<1> QED BY <1>1, <1>2, <1>3, <1>4, <1>5, <1>6

\* Pipelines are loaded only when every one of them is allowed.
LEMMA ValidateIInv == IInv /\ ValidatePipelines => IInv'
<1> SUFFICES ASSUME IInv, ValidatePipelines PROVE IInv'
  OBVIOUS
<1>1. /\ at' \in Nat \ {0} /\ which' = which
      /\ pc' = "pipelines" => FilesAllowed
      /\ UNCHANGED <<config, tables, loaded, request, written>>
  BY DEF IInv, Placed, ValidatePipelines, Moved, Failed, Kept, Outside, progress, FilesAllowed
<1>2. FilesAllowed' <=> FilesAllowed
  BY <1>1 DEF FilesAllowed, ReadOnlyNames, Sources
<1>3. LoadedAllowed'
  BY <1>1, <1>2 DEF IInv, LoadedAllowed, ReadOnlyNames, Sources
<1>4. Placed' /\ TablesGuarded' /\ RequestKnown' /\ ReadOnlyKept'
  BY <1>1 DEF IInv, Placed, TablesGuarded, RequestKnown, ReadOnlyKept, Sources
<1> QED BY <1>3, <1>4 DEF IInv

LEMMA LoadPipelineIInv == IInv /\ LoadPipeline => IInv'
<1> SUFFICES ASSUME IInv, LoadPipeline PROVE IInv'
  OBVIOUS
<1> DEFINE file == config.files[at]
           fresh == [n \in {file.name} |->
                       [query |-> file.query, columns |-> InferredColumns(file.query)]]
<1>1. /\ at' \in Nat \ {0} /\ which' = which /\ pc = "pipelines" /\ at <= Len(config.files)
      /\ UNCHANGED <<config, tables, request, written>>
      /\ loaded' = loaded \/ loaded' = Over(fresh, loaded)
  BY DEF IInv, Placed, LoadPipeline, Advance, Failed, Outside, progress
<1>2. file.query.target \in Seq(STRING) /\ Allowed(file.query, ReadOnlyNames)
  BY <1>1, ServerAssumption DEF IInv, Placed, LoadedAllowed, FilesAllowed
<1>3. \A n \in DOMAIN loaded' : loaded'[n].query = file.query
                                \/ (n \in DOMAIN loaded /\ loaded'[n] = loaded[n])
  BY <1>1 DEF Over
<1>4. DOMAIN loaded \subseteq DOMAIN loaded'
  BY <1>1 DEF Over
<1>5. ReadOnlyNames' = ReadOnlyNames /\ (FilesAllowed' <=> FilesAllowed)
  BY <1>1 DEF ReadOnlyNames, Sources, FilesAllowed
<1>6. LoadedAllowed'
  <2> SUFFICES ASSUME NEW n \in DOMAIN loaded'
               PROVE  /\ loaded'[n].query.target \in Seq(STRING)
                      /\ Allowed(loaded'[n].query, ReadOnlyNames)
    BY <1>1, <1>5 DEF IInv, LoadedAllowed
  <2>1. CASE loaded'[n].query = file.query
    BY <2>1, <1>2
  <2>2. CASE n \in DOMAIN loaded /\ loaded'[n] = loaded[n]
    BY <2>2 DEF IInv, LoadedAllowed
  <2> QED BY <2>1, <2>2, <1>3
<1>7. Placed' /\ TablesGuarded' /\ RequestKnown' /\ ReadOnlyKept'
  BY <1>1, <1>4 DEF IInv, Placed, TablesGuarded, RequestKnown, ReadOnlyKept, Sources
<1> QED BY <1>6, <1>7 DEF IInv

-----------------------------------------------------------------------------
(* Requests.                                                                *)

\* Arrivals, answers without a statement, and the changes upstream.
LEMMA RequestIInv ==
    ASSUME IInv, UNCHANGED <<config, tables, loaded, at, which, pc, written>>,
           DOMAIN request' = RequestFields,
           request'.stage = "run" => request'.call.name \in DOMAIN loaded
    PROVE  IInv'
<1>1. Placed' /\ TablesGuarded' /\ RequestKnown' /\ ReadOnlyKept'
  BY DEF IInv, Placed, TablesGuarded, RequestKnown, ReadOnlyKept, Sources
<1>2. LoadedAllowed'
  BY DEF IInv, LoadedAllowed, FilesAllowed, ReadOnlyNames, Sources
<1> QED BY <1>1, <1>2 DEF IInv

\* A statement that a pipeline was admitted with writes no read-only source.
LEMMA AllowedWrite ==
    ASSUME IInv, request.stage = "run", Known("runtime", Used), IsWrite, Target.write
    PROVE  Target.source \in DOMAIN Sources /\ Sources[Target.source].write
<1> DEFINE p == Canonical(Query.target)
<1>1. /\ Query.target \in Seq(STRING) /\ Allowed(Query, ReadOnlyNames)
  BY DEF IInv, RequestKnown, LoadedAllowed, Query
<1>2. p \in DOMAIN tables["runtime"]
  BY DEF Known, Used
<1>3. /\ Target.source \in DOMAIN Sources
      /\ Sources[Target.source].write \/ p = <<Sources[Target.source].name>>
  BY <1>2 DEF IInv, TablesGuarded, Target
<1>4. CASE p = <<Sources[Target.source].name>>
  <2>1. Last(Query.target) = Sources[Target.source].name
    BY <1>1, <1>4, CanonicalLast
  <2>2. Last(Query.target) \notin ReadOnlyNames
    BY <1>1 DEF Allowed, IsWrite
  <2> QED BY <1>3, <2>1, <2>2 DEF ReadOnlyNames
<1> QED BY <1>3, <1>4

LEMMA RunIInv == IInv /\ Run => IInv'
<1> SUFFICES ASSUME IInv, Run PROVE IInv'
  OBVIOUS
<1>1. /\ UNCHANGED <<config, tables, loaded, at, which, pc>>
      /\ request.stage = "run"
      /\ \E answer : request' = [request EXCEPT !.stage = "answered", !.answer = answer]
  BY DEF Run, ServeOnly, progress, Answered
<1>a. request'.stage # "run" /\ DOMAIN request' = RequestFields
  BY <1>1 DEF IInv, RequestKnown, RequestFields
<1>2. \/ written' = written
      \/ /\ Known("runtime", Used) /\ IsWrite /\ Target.write
         /\ written' = written \cup {<<Target.source, Target.reads>>}
  BY DEF Run
<1>3. CASE written' = written
  BY <1>1, <1>a, <1>3, RequestIInv
<1>4. CASE /\ Known("runtime", Used) /\ IsWrite /\ Target.write
           /\ written' = written \cup {<<Target.source, Target.reads>>}
  <2>1. Target.source \in DOMAIN Sources /\ Sources[Target.source].write
    BY <1>1, <1>4, AllowedWrite
  <2>2. ReadOnlyKept'
    BY <1>1, <1>4, <2>1 DEF IInv, ReadOnlyKept, Sources
  <2>3. Placed' /\ TablesGuarded' /\ RequestKnown'
    BY <1>1, <1>a DEF IInv, Placed, TablesGuarded, RequestKnown, Sources
  <2>4. LoadedAllowed'
    <3>1. UNCHANGED <<config, loaded, pc>>
      BY <1>1
    <3> QED BY <3>1 DEF IInv, LoadedAllowed, FilesAllowed, ReadOnlyNames, Sources
  <2> QED BY <2>2, <2>3, <2>4 DEF IInv
<1> QED BY <1>2, <1>3, <1>4

LEMMA ServeIInv == IInv /\ (Serve \/ \E call \in Calls : Arrive(call)) => IInv'
<1> SUFFICES ASSUME IInv, Serve \/ \E call \in Calls : Arrive(call)
             PROVE  IInv'
  OBVIOUS
<1>1. CASE Verify
  <2>1. /\ UNCHANGED <<config, tables, loaded, at, which, pc, written>>
        /\ \/ request' = [request EXCEPT !.stage = "lookup"]
           \/ request' = [request EXCEPT !.stage = "answered", !.answer = "unauthorized"]
    BY <1>1 DEF Verify, ServeOnly, progress, Answered
  <2>2. request'.stage # "run" /\ DOMAIN request' = RequestFields
    BY <2>1 DEF IInv, RequestKnown, RequestFields
  <2> QED BY <2>1, <2>2, RequestIInv
<1>2. CASE Lookup
  <2>1. /\ UNCHANGED <<config, tables, loaded, at, which, pc, written>>
        /\ \/ \E answer : request' = [request EXCEPT !.stage = "answered", !.answer = answer]
           \/ /\ request.call.name \in DOMAIN loaded
              /\ \E st : request' = [request EXCEPT !.stage = "run", !.statement = st]
    BY <1>2 DEF Lookup, ServeOnly, progress, Answered
  <2>2. ASSUME NEW answer, request' = [request EXCEPT !.stage = "answered", !.answer = answer]
        PROVE  IInv'
    <3>1. request'.stage # "run" /\ DOMAIN request' = RequestFields
      BY <2>2 DEF IInv, RequestKnown, RequestFields
    <3> QED BY <2>1, <3>1, RequestIInv
  <2>3. ASSUME request.call.name \in DOMAIN loaded, NEW st,
               request' = [request EXCEPT !.stage = "run", !.statement = st]
        PROVE  IInv'
    <3>1. request'.call = request.call /\ DOMAIN request' = RequestFields
      BY <2>3 DEF IInv, RequestKnown, RequestFields
    <3> QED BY <2>1, <2>3, <3>1, RequestIInv
  <2> QED BY <2>1, <2>2, <2>3
<1>3. ASSUME NEW call \in Calls, Arrive(call) PROVE IInv'
  <2>1. /\ request'.stage # "run" /\ DOMAIN request' = RequestFields
        /\ UNCHANGED <<config, tables, loaded, at, which, pc, written>>
    <3>1. \E stage \in {"verify", "inspect"} :
             request' = [Idle EXCEPT !.stage = stage, !.call = call]
      BY <1>3 DEF Arrive
    <3>2. UNCHANGED <<config, tables, loaded, at, which, pc, written>>
      BY <1>3 DEF Arrive, ServeOnly, progress
    <3> QED BY <3>1, <3>2 DEF Idle, RequestFields
  <2> QED BY <2>1, RequestIInv
<1>4. CASE Inspect
  <2>1. UNCHANGED <<config, tables, loaded, at, which, pc, written>>
    BY <1>4 DEF Inspect, ServeOnly, progress
  <2>2. \/ \E answer : request' = [request EXCEPT !.stage = "answered", !.answer = answer]
        \/ request' = [request EXCEPT !.stage = "answered", !.answer = "ok", !.shown = Shown]
    BY <1>4 DEF Inspect, Answered
  <2>3. request'.stage # "run" /\ DOMAIN request' = RequestFields
    BY <2>2 DEF IInv, RequestKnown, RequestFields
  <2> QED BY <2>1, <2>3, RequestIInv
<1> QED BY <1>1, <1>2, <1>3, <1>4, RunIInv DEF Serve

LEMMA NextIInv == IInv /\ [Next]_vars => IInv'
<1> SUFFICES ASSUME IInv, [Next]_vars PROVE IInv'
  OBVIOUS
<1>1. CASE Startup
  BY <1>1, LoadContextIInv, RegisterIInv, BuildAuthIInv, ValidateIInv, LoadPipelineIInv, TailIInv DEF Startup
<1>2. CASE Serve \/ \E call \in Calls : Arrive(call)
  BY <1>2, ServeIInv
<1>3. ASSUME NEW n, NEW t, Drop(n, t) \/ Create(n, t) PROVE IInv'
  <2>1. UNCHANGED <<config, tables, loaded, at, which, pc, written, request>>
    BY <1>3 DEF Drop, Create, UpstreamOnly, progress
  <2> QED BY <2>1, RequestIInv DEF IInv, RequestKnown
<1>4. CASE UNCHANGED vars
  <2>1. UNCHANGED <<config, tables, loaded, at, which, pc, written, request>>
    BY <1>4 DEF vars, progress
  <2> QED BY <2>1, RequestIInv DEF IInv, RequestKnown
<1> QED BY <1>1, <1>2, <1>3, <1>4 DEF Next

\* No pipeline writes a source whose access mode is read_only, whatever the sources are
\* called, the catalogs hold and the pipelines say.
THEOREM ReadOnlySafe == Spec => []ReadOnlyKept
<1>1. Spec => []IInv
  BY InitBegan, InitIInv, NextIInv, PTL DEF Spec
<1>2. IInv => ReadOnlyKept
  BY DEF IInv
<1> QED BY <1>1, <1>2, PTL

\* The same, with commands of the client around.
THEOREM ReadOnlySafeWithClients == CliSpec => []ReadOnlyKept
<1>1. CliSpec => []IInv
  BY CliBegan, CliSteps, InitIInv, NextIInv, PTL DEF CliSpec
<1>2. IInv => ReadOnlyKept
  BY DEF IInv
<1> QED BY <1>1, <1>2, PTL

-----------------------------------------------------------------------------
(* Names of catalogs.                                                       *)

Pair(t) == t = <<t[1], t[2]>>

\* What is known of a catalog's tables before they are registered.
Found ==
    /\ DOMAIN upstream = DOMAIN Sources
    /\ \A n \in DOMAIN upstream : \A t \in upstream[n] : Pair(t)
    /\ \A t \in listing : Pair(t)
    /\ pc = "sources" /\ at <= Len(Sources) /\ IsCatalog(Source) => \A t \in building \cup built : Pair(t)

NamesInv == Found /\ NamesReadTheirTable

LEMMA InitNames == Began => NamesInv
<1> SUFFICES ASSUME Began PROVE NamesInv
  OBVIOUS
<1>1. Found
  BY ServerAssumption DEF Began, Blank, Found, Pair, Sources
<1>2. NamesReadTheirTable
  BY DEF Began, Blank, NamesReadTheirTable
<1> QED BY <1>1, <1>2 DEF NamesInv

\* Outside registration and the changes upstream, no table is found or registered.
LEMMA NamesAside ==
    ASSUME NamesInv, UNCHANGED <<config, upstream, tables>>,
           \/ listing' = {} /\ building' = {} /\ built' = {}
           \/ UNCHANGED <<listing, building, built>>
              /\ (pc' # "sources" \/ (building = {} /\ built = {}) \/ UNCHANGED <<pc, at>>)
    PROVE  NamesInv'
<1>1. NamesReadTheirTable'
  BY DEF NamesInv, NamesReadTheirTable, Sources
<1>2. CASE listing' = {} /\ building' = {} /\ built' = {}
  BY <1>1, <1>2 DEF NamesInv, Found, Sources
<1>3. CASE UNCHANGED <<listing, building, built>> /\ pc' # "sources"
  BY <1>1, <1>3 DEF NamesInv, Found, Sources
<1>4. CASE UNCHANGED <<listing, building, built>> /\ building = {} /\ built = {}
  BY <1>1, <1>4 DEF NamesInv, Found, Sources
<1>5. CASE UNCHANGED <<listing, building, built, pc, at>>
  BY <1>1, <1>5 DEF NamesInv, Found, Source, Sources
<1> QED BY <1>1, <1>2, <1>3, <1>4, <1>5 DEF NamesInv

LEMMA InstallNames == IInv /\ NamesInv /\ Install => NamesInv'
<1> SUFFICES ASSUME IInv, NamesInv, Install PROVE NamesInv'
  OBVIOUS
<1> DEFINE fresh == [p \in {Path(Source, t) : t \in built} |->
                        Provider(Source, at, CHOOSE t \in built : Path(Source, t) = p)]
<1>1. /\ at \in DOMAIN Sources /\ pc = "sources"
      /\ UNCHANGED <<config, upstream>> /\ listing' = {} /\ building' = {} /\ built' = {}
      /\ tables' = [tables EXCEPT ![which] = Over(fresh, @)]
  BY ServerAssumption DEF IInv, Placed, Install, Registering, Outside, Sources
<1>2. Found'
  BY <1>1 DEF NamesInv, Found, Sources
<1>3. ASSUME NEW c \in Contexts, NEW p \in DOMAIN tables'[c], Len(p) = 3
      PROVE  LET s == Sources[tables'[c][p].source]
             IN  s.kind # "mysql" \/ p[2] = s.database => tables'[c][p].reads = <<p[2], p[3]>>
  <2>1. CASE c = which /\ p \in DOMAIN fresh
    <3>1. tables'[c][p] = fresh[p]
      <4>1. tables'[which] = Over(fresh, tables[which])
        BY <1>1 DEF IInv, Placed
      <4> QED BY <2>1, <4>1 DEF Over
    <3>2. PICK u \in built : p = Path(Source, u) /\ fresh[p] = Provider(Source, at, u)
      <4>1. PICK u \in built : p = Path(Source, u)
        BY <2>1
      <4>2. fresh[p] = Provider(Source, at, CHOOSE t \in built : Path(Source, t) = p)
        BY <2>1
      <4>3. \E t \in built : Path(Source, t) = p
        BY <4>1
      <4> HIDE DEF fresh
      <4> DEFINE v == CHOOSE t \in built : Path(Source, t) = p
      <4>4. v \in built /\ Path(Source, v) = p
        BY <4>3
      <4> QED BY <4>2, <4>4
    <3>3. /\ tables'[c][p].source = at
          /\ tables'[c][p].reads = Reference(Source, u)
      BY <3>1, <3>2, ProviderOf
    <3>4. IsCatalog(Source) /\ p = <<Source.name, u[1], u[2]>>
      BY <1>3, <3>2 DEF Path
    <3>5. p[2] = u[1] /\ p[3] = u[2] /\ Pair(u)
      BY <1>1, <3>4 DEF NamesInv, Found, Sources
    <3> QED BY <3>3, <3>4, <3>5 DEF Reference, Pair, Source
  <2>2. CASE ~(c = which /\ p \in DOMAIN fresh)
    <3>1. p \in DOMAIN tables[c] /\ tables'[c][p] = tables[c][p]
      BY <1>1, <2>2, ExtendedOld
    <3> QED BY <3>1, <1>3 DEF NamesInv, NamesReadTheirTable
  <2> QED BY <2>1, <2>2
<1>4. NamesReadTheirTable'
  BY <1>1, <1>3 DEF NamesReadTheirTable, Sources
<1> QED BY <1>2, <1>4 DEF NamesInv

LEMMA RegisterNames == IInv /\ NamesInv /\ Register => NamesInv'
<1> SUFFICES ASSUME IInv, NamesInv, Register PROVE NamesInv'
  OBVIOUS
<1> USE DEF Kept, Outside, progress
<1>1. CASE SkipLance
  BY <1>1, NamesAside DEF SkipLance
<1>2. CASE List
  <2>1. /\ UNCHANGED <<config, upstream, tables, at, building, built, pc>>
        /\ listing' \subseteq upstream[at]
        /\ at \in DOMAIN Sources
    BY <1>2, ServerAssumption DEF List, NextStep, IInv, Placed, Registering, Sources
  <2>2. \A t \in listing' : t \in upstream[at]
    BY <2>1
  <2>3. \A t \in listing' : Pair(t)
    BY <2>1, <2>2 DEF NamesInv, Found, Sources
  <2>4. Found'
    BY <2>1, <2>3 DEF NamesInv, Found, Source, Sources
  <2>5. NamesReadTheirTable'
    BY <2>1 DEF NamesInv, NamesReadTheirTable, Sources
  <2> QED BY <2>4, <2>5 DEF NamesInv
<1>3. CASE Install
  BY <1>3, InstallNames
<1>4. CASE SourcesDone
  BY <1>4, NamesAside DEF SourcesDone, Moved
<1>5. ASSUME NEW op, Connect(op) PROVE NamesInv'
  BY <1>5, NamesAside DEF Connect, NextStep
<1>6. ASSUME NEW op, AttemptFails(op) PROVE NamesInv'
  BY <1>6, NamesAside DEF AttemptFails, Failed
<1>7. ASSUME NEW t, StartBuild(t) \/ FinishBuild(t) PROVE NamesInv'
  <2>1. /\ UNCHANGED <<config, upstream, tables, at, listing>>
        /\ building' \cup built' \subseteq building \cup built \cup {t}
        /\ t \in Wanted \/ t \in building
        /\ pc = "sources" /\ at <= Len(Sources)
    BY <1>7 DEF StartBuild, FinishBuild, Registering
  <2>2. IsCatalog(Source) => Pair(t)
    BY <2>1 DEF Wanted, NamesInv, Found
  <2>3. Found'
    BY <2>1, <2>2 DEF NamesInv, Found, Source, Sources
  <2>4. NamesReadTheirTable'
    BY <2>1 DEF NamesInv, NamesReadTheirTable, Sources
  <2> QED BY <2>3, <2>4 DEF NamesInv
<1>8. ASSUME NEW t, BuildFails(t) PROVE NamesInv'
  BY <1>8, NamesAside DEF BuildFails, Failed
<1> QED BY <1>1, <1>2, <1>3, <1>4, <1>5, <1>6, <1>7, <1>8 DEF Register

LEMMA BuildAuthNames == IInv /\ NamesInv /\ BuildAuth => NamesInv'
<1> SUFFICES ASSUME IInv, NamesInv, BuildAuth PROVE NamesInv'
  OBVIOUS
<1> DEFINE fresh == [p \in {<<"auth", "users">>, <<"auth", "sessions">>} |->
                        [source |-> 0, reads |-> p, write |-> FALSE, cached |-> FALSE]]
<1>1. /\ UNCHANGED <<config, upstream>>
      /\ \/ listing' = {} /\ building' = {} /\ built' = {}
         \/ UNCHANGED <<listing, building, built>> /\ pc' # "sources"
      /\ tables' = tables \/ tables' = [tables EXCEPT ![which] = Over(fresh, @)]
  BY DEF BuildAuth, Moved, Failed, Outside, progress
<1>2. CASE tables' = tables
  BY <1>1, <1>2, NamesAside
<1>3. CASE tables' = [tables EXCEPT ![which] = Over(fresh, @)]
  <2>1. Found'
    BY <1>1 DEF NamesInv, Found, Source, Sources, progress
  <2>2. ASSUME NEW c \in Contexts, NEW p \in DOMAIN tables'[c], Len(p) = 3
        PROVE  p \in DOMAIN tables[c] /\ tables'[c][p] = tables[c][p]
    <3>1. p \notin DOMAIN fresh
      BY <2>2
    <3> QED BY <1>3, <3>1, ExtendedOld
  <2>3. NamesReadTheirTable'
    <3>1. NamesReadTheirTable /\ Sources' = Sources
      BY <1>1 DEF NamesInv, Sources
    <3> QED BY <2>2, <3>1 DEF NamesReadTheirTable
  <2> QED BY <2>1, <2>3 DEF NamesInv
<1> QED BY <1>1, <1>2, <1>3

LEMMA StartupNames == IInv /\ NamesInv /\ Startup => NamesInv'
<1> SUFFICES ASSUME IInv, NamesInv, Startup PROVE NamesInv'
  OBVIOUS
<1> USE DEF Kept, Outside, Moved, Failed, Advance, progress
<1>1. CASE LoadContext
  BY <1>1, NamesAside DEF LoadContext
<1>2. CASE Register
  BY <1>2, RegisterNames
<1>3. CASE BuildAuth
  BY <1>3, BuildAuthNames
<1>4. CASE ValidatePipelines
  BY <1>4, NamesAside DEF ValidatePipelines
<1>5. CASE LoadPipeline \/ LoadJob
  <2>1. UNCHANGED <<config, upstream, tables, listing, building, built>> /\ pc' # "sources"
    BY <1>5 DEF LoadPipeline, LoadJob
  <2> QED BY <2>1, NamesAside
<1>6. CASE PipelinesDone \/ JobsDone \/ OpenStore \/ Bind
  BY <1>6, NamesAside DEF PipelinesDone, JobsDone, OpenStore, Bind
<1>7. CASE LoadSemantics
  <2>1. /\ UNCHANGED <<config, upstream, tables>>
        /\ \/ listing' = {} /\ building' = {} /\ built' = {}
           \/ UNCHANGED <<listing, building, built>> /\ pc' # "sources"
    BY <1>7 DEF LoadSemantics
  <2> QED BY <2>1, NamesAside
<1> QED BY <1>1, <1>2, <1>3, <1>4, <1>5, <1>6, <1>7 DEF Startup

LEMMA NextNames == IInv /\ NamesInv /\ [Next]_vars => NamesInv'
<1> SUFFICES ASSUME IInv, NamesInv, [Next]_vars PROVE NamesInv'
  OBVIOUS
<1>1. CASE Startup
  BY <1>1, StartupNames
<1>2. CASE Serve \/ (\E call \in Calls : Arrive(call)) \/ UNCHANGED vars
  <2>1. UNCHANGED <<config, upstream, tables, listing, building, built, pc, at>>
    BY <1>2 DEF Serve, Verify, Lookup, Run, Inspect, Arrive, ServeOnly, vars, progress
  <2> QED BY <2>1, NamesAside
<1>3. ASSUME NEW n \in DOMAIN upstream, NEW t \in config.may[n], Drop(n, t) \/ Create(n, t)
      PROVE  NamesInv'
  <2>1. /\ UNCHANGED <<config, tables, listing, building, built, pc, at>>
        /\ \/ upstream' = [upstream EXCEPT ![n] = @ \ {t}]
           \/ upstream' = [upstream EXCEPT ![n] = @ \cup {t}]
    BY <1>3 DEF Drop, Create, UpstreamOnly, progress
  <2>2. Pair(t)
    BY ServerAssumption DEF IInv, Placed, NamesInv, Found, Pair, Sources
  <2>3. Found'
    BY <2>1, <2>2 DEF NamesInv, Found, Source, Sources
  <2>4. NamesReadTheirTable'
    BY <2>1 DEF NamesInv, NamesReadTheirTable, Sources
  <2> QED BY <2>3, <2>4 DEF NamesInv
<1> QED BY <1>1, <1>2, <1>3 DEF Next

\* A name of a catalog reads the table it names, whatever tables are created and dropped
\* while it is built; MySQL's only in the schema its connection starts in.
THEOREM CatalogNames == Spec => []NamesReadTheirTable
<1>1. Spec => []IInv
  BY InitBegan, InitIInv, NextIInv, PTL DEF Spec
<1>2. Spec => []NamesInv
  BY <1>1, InitBegan, InitNames, NextNames, PTL DEF Spec
<1>3. NamesInv => NamesReadTheirTable
  BY DEF NamesInv
<1> QED BY <1>2, <1>3, PTL

-----------------------------------------------------------------------------
(* The registries: what is known of them at every point of the             *)
(* registrations, as long as the server has not given up.                  *)

AuthPaths == {<<"auth", "users">>, <<"auth", "sessions">>}

\* A table that may be registered for a source, and the one that a path of it stands for.
Admissible(n, t) ==
    IF IsCatalog(Sources[n]) THEN Pair(t) /\ t[1] \in Sources[n].allowed ELSE t = Sources[n].table

TableAt(n, p) == IF IsCatalog(Sources[n]) THEN <<p[2], p[3]>> ELSE Sources[n].table

\* A source that is registered without its table being looked for.
Unasked(n) == ~IsCatalog(Sources[n]) /\ Sources[n].kind # "lance"

\* A table that is there, or was until it was dropped, or was not looked for.
Present(n, t) == t \in upstream[n] \/ <<n, t>> \in dropped \/ Unasked(n)

\* The registration of a context is done with a source.
Through(c, n) ==
    /\ n \in DOMAIN Sources
    /\ IF which = c THEN pc # "context" /\ (pc = "sources" => n < at) ELSE c = "planning"

SoleNames == \A i, j \in DOMAIN Sources : Sources[i].name = Sources[j].name => i = j

\* The source at hand: its step is one of its own, and only its last step has tables, all
\* of them tables that were listed or, without a catalog, the one of the options.
Gathered ==
    IF at <= Len(Sources)
    THEN /\ step \in DOMAIN Steps(Source)
         /\ listing # {} => IsCatalog(Source) /\ Steps(Source)[step] = "build"
         /\ building \cup built # {} => Steps(Source)[step] = "build"
         /\ building \cup built \subseteq Wanted
         /\ \A t \in listing \cup building \cup built : Admissible(at, t) /\ Present(at, t)
    ELSE listing = {} /\ building = {} /\ built = {}

\* A table of a context is one of the authentication's, or of a source the registration is
\* done with, and reads what its path says.
EntryOf(c, p) ==
    LET e == tables[c][p]
        t == TableAt(e.source, p)
    IN  \/ e.source = 0 /\ p \in AuthPaths /\ config.auth
        \/ /\ Through(c, e.source) /\ Admissible(e.source, t) /\ Present(e.source, t)
           /\ p = Path(Sources[e.source], t) /\ e.reads = Reference(Sources[e.source], t)

Entries == \A c \in Contexts : \A p \in DOMAIN tables[c] : EntryOf(c, p)

AuthThere == which = "runtime" /\ pc \in {"store", "bind", "serving"} /\ config.auth
                => AuthPaths \subseteq DOMAIN tables["runtime"]

\* The context that is registered, at each point of the startup.
Placement ==
    /\ pc \in {"context", "validate", "pipelines", "jobs", "semantics"} => which = "planning"
    /\ pc \in {"store", "bind", "serving"} => which = "runtime"

RegistryInv ==
    pc # "failed" =>
        /\ Placement
        /\ pc # "context" => SoleNames
        /\ pc = "sources" => Gathered
        /\ Entries /\ AuthThere

\* What the search functions find is registered, or built for the registration under way.
Agrees(c, k) ==
    LET d == datasets[c][k]
    IN  \/ /\ k \in DOMAIN tables[c] /\ tables[c][k].source # 0
           /\ tables[c][k].source = d.source /\ tables[c][k].reads = d.reads
        \/ /\ c = which /\ Registering("build")
           /\ \E t \in built : k = Path(Source, t) /\ d.source = at /\ d.reads = Reference(Source, t)

\* What is built for them can be found.
Findable ==
    Registering("build") /\ Source.kind \in SearchableKinds =>
        \A t \in built :
            /\ Path(Source, t) \in DOMAIN datasets[which]
            /\ datasets[which][Path(Source, t)].source = at
            /\ datasets[which][Path(Source, t)].reads = Reference(Source, t)

Searched(c, p) ==
    tables[c][p].source # 0 /\ Sources[tables[c][p].source].kind \in SearchableKinds
        => p \in DOMAIN datasets[c]

SearchInv ==
    /\ DOMAIN datasets = Contexts
    /\ pc # "failed" =>
        /\ \A c \in Contexts : \A k \in DOMAIN datasets[c] : Agrees(c, k)
        /\ Findable
        /\ \A c \in Contexts : \A p \in DOMAIN tables[c] : Searched(c, p)

\* The tables that were there at the start or when the pipelines were planned, and that may
\* be registered.
Expected(n) ==
    {t \in config.upstream[n]
           \cup {TableAt(n, p) : p \in {q \in DOMAIN tables["planning"] :
                                          tables["planning"][q].source = n}} : Admissible(n, t)}

\* Unless it is dropped, such a table is listed and then registered for serving.
Awaited(n, t) ==
    <<n, t>> \notin dropped =>
        /\ Through("runtime", n) => Path(Sources[n], t) \in DOMAIN tables["runtime"]
        /\ n = at /\ Registering("build") /\ IsCatalog(Sources[n]) => t \in listing

Undropped == \A n \in DOMAIN Sources : \A t \in config.upstream[n] :
                t \in upstream[n] \/ <<n, t>> \in dropped

LoadedPlanned ==
    \A n \in DOMAIN loaded :
        loaded[n].query.verb \in {"insert", "update", "delete"} \/ Known("planning", loaded[n].query.reads)

PlannedInv ==
    /\ Undropped /\ LoadedPlanned
    /\ pc # "failed" /\ which = "runtime" =>
          \A n \in DOMAIN Sources : \A t \in Expected(n) : Awaited(n, t)

\* Requests are served by a server that serves, and a pipeline is healthy when every source
\* was found.
AskedInv ==
    /\ ~Serving => request = Idle
    /\ PlannedIsServable
    /\ request.answer = "healthy" => request.call.name \in DOMAIN loaded /\ AllTables

-----------------------------------------------------------------------------
\* A short sequence is the tuple of its elements.
LEMMA Long ==
    ASSUME NEW S, NEW x \in Seq(S)
    PROVE  /\ Len(x) = 1 => x = <<x[1]>>
           /\ Len(x) = 2 => x = <<x[1], x[2]>>
           /\ Len(x) = 3 => x = <<x[1], x[2], x[3]>>
           /\ Len(x) = 4 => x = <<x[1], x[2], x[3], x[4]>>
OBVIOUS

\* Putting one more at the end of a short sequence.
LEMMA Joined ==
    ASSUME NEW S, NEW x \in Seq(S), NEW y \in S
    PROVE  /\ Len(x) = 1 => x \o <<y>> = <<x[1], y>>
           /\ Len(x) = 2 => x \o <<y>> = <<x[1], x[2], y>>
           /\ Len(x) = 3 => x \o <<y>> = <<x[1], x[2], x[3], y>>
<1>1. PICK z : z = Append(x, y)
  OBVIOUS
<1>2. z = x \o <<y>>
  BY <1>1, AppendIsConcat, Zenon
<1>3. z \in Seq(S) /\ Len(z) = Len(x) + 1 /\ z[Len(x) + 1] = y
  BY <1>1
<1>4. Len(x) \in Nat /\ \A i \in 1..Len(x) : z[i] = x[i]
  BY <1>1
<1>5. ASSUME Len(x) = 1 PROVE x \o <<y>> = <<x[1], y>>
  <2>1. Len(z) = 2 /\ z[2] = y /\ z[1] = x[1]
    BY <1>3, <1>4, <1>5
  <2>2. z = <<z[1], z[2]>>
    BY <1>3, <2>1, Long
  <2> QED BY <1>2, <2>1, <2>2
<1>6. ASSUME Len(x) = 2 PROVE x \o <<y>> = <<x[1], x[2], y>>
  <2>1. Len(z) = 3 /\ z[3] = y /\ z[1] = x[1] /\ z[2] = x[2]
    BY <1>3, <1>4, <1>6
  <2>2. z = <<z[1], z[2], z[3]>>
    BY <1>3, <2>1, Long
  <2> QED BY <1>2, <2>1, <2>2
<1>7. ASSUME Len(x) = 3 PROVE x \o <<y>> = <<x[1], x[2], x[3], y>>
  <2>1. Len(z) = 4 /\ z[4] = y /\ z[1] = x[1] /\ z[2] = x[2] /\ z[3] = x[3]
    BY <1>3, <1>4, <1>7
  <2>2. z = <<z[1], z[2], z[3], z[4]>>
    BY <1>3, <2>1, Long
  <2> QED BY <1>2, <2>1, <2>2
<1> QED BY <1>5, <1>6, <1>7

LEMMA Joined2 == \A a, b : <<a>> \o <<b>> = <<a, b>>
<1> TAKE a, b
<1>1. PICK x : x = <<a>>
  OBVIOUS
<1>2. x \in Seq({a, b}) /\ Len(x) = 1 /\ x[1] = a
  BY <1>1
<1>3. x \o <<b>> = <<a, b>>
  BY <1>2, Joined
<1> QED BY <1>1, <1>3

LEMMA Joined3 == \A a, b, c : <<a, b>> \o <<c>> = <<a, b, c>>
<1> TAKE a, b, c
<1>1. PICK x : x = <<a, b>>
  OBVIOUS
<1>2. x \in Seq({a, b, c}) /\ Len(x) = 2 /\ x[1] = a /\ x[2] = b
  BY <1>1
<1>3. x \o <<c>> = <<a, b, c>>
  BY <1>2, Joined
<1> QED BY <1>1, <1>3

LEMMA Joined4 == \A a, b, c, d : <<a, b, c>> \o <<d>> = <<a, b, c, d>>
<1> TAKE a, b, c, d
<1>1. PICK x : x = <<a, b, c>>
  OBVIOUS
<1>2. x \in Seq({a, b, c, d}) /\ Len(x) = 3 /\ x[1] = a /\ x[2] = b /\ x[3] = c
  BY <1>1
<1>3. x \o <<d>> = <<a, b, c, d>>
  BY <1>2, Joined
<1> QED BY <1>1, <1>3

LEMMA JoinedNone == \A a, b : /\ <<a>> \o <<>> = <<a>>
                             /\ <<a, b>> \o <<>> = <<a, b>>
<1> TAKE a, b
<1>1. PICK x : x = <<a>>
  OBVIOUS
<1>2. PICK y : y = <<a, b>>
  OBVIOUS
<1>3. x \in Seq({a, b}) /\ y \in Seq({a, b})
  BY <1>1, <1>2
<1>4. x \o <<>> = x /\ y \o <<>> = y
  BY <1>3, ConcatEmptySeq, Zenon
<1> QED BY <1>1, <1>2, <1>4

\* What the registration of a source goes through, one kind after the other.
LEMMA StepsShape ==
    ASSUME NEW s
    PROVE  IF IsCatalog(s)
           THEN \/ Steps(s) = <<"connect", "pool", "list", "build">>
                \/ Steps(s) = <<"connect", "list", "build">>
                \/ Steps(s) = <<"open", "list", "build">>
           ELSE \/ Steps(s) = <<"connect", "pool", "build">>
                \/ Steps(s) = <<"connect", "build">>
                \/ Steps(s) = <<"open", "build">>
                \/ Steps(s) = <<"build">>
<1>1. PostgresSteps(<<"list">>) = <<"connect", "pool", "list", "build">>
  <2>1. <<"connect", "pool">> \o <<"list">> = <<"connect", "pool", "list">>
    BY Joined3, Zenon
  <2>2. <<"connect", "pool", "list">> \o <<"build">> = <<"connect", "pool", "list", "build">>
    BY Joined4, Zenon
  <2> QED BY <2>1, <2>2, Zenon DEF PostgresSteps
<1>2. MySqlSteps(<<"list">>) = <<"connect", "list", "build">>
  <2>1. <<"connect">> \o <<"list">> = <<"connect", "list">>
    BY Joined2, Zenon
  <2>2. <<"connect", "list">> \o <<"build">> = <<"connect", "list", "build">>
    BY Joined3, Zenon
  <2> QED BY <2>1, <2>2, Zenon DEF MySqlSteps
<1>3. SeekDbSteps(<<"list">>) = <<"connect", "list", "build">>
  <2>1. <<"connect">> \o <<"list">> = <<"connect", "list">>
    BY Joined2, Zenon
  <2>2. <<"connect", "list">> \o <<"build">> = <<"connect", "list", "build">>
    BY Joined3, Zenon
  <2> QED BY <2>1, <2>2, Zenon DEF SeekDbSteps
<1>4. SqliteSteps(<<"list">>) = <<"open", "list", "build">>
  <2>1. <<"open">> \o <<"list">> = <<"open", "list">>
    BY Joined2, Zenon
  <2>2. <<"open", "list">> \o <<"build">> = <<"open", "list", "build">>
    BY Joined3, Zenon
  <2> QED BY <2>1, <2>2, Zenon DEF SqliteSteps
<1>5. PostgresSteps(<<>>) = <<"connect", "pool", "build">>
  <2>1. <<"connect", "pool">> \o <<>> = <<"connect", "pool">>
    BY JoinedNone, Zenon
  <2>2. <<"connect", "pool">> \o <<"build">> = <<"connect", "pool", "build">>
    BY Joined3, Zenon
  <2> QED BY <2>1, <2>2, Zenon DEF PostgresSteps
<1>6. MySqlSteps(<<>>) = <<"connect", "build">>
  <2>1. <<"connect">> \o <<>> = <<"connect">>
    BY JoinedNone, Zenon
  <2>2. <<"connect">> \o <<"build">> = <<"connect", "build">>
    BY Joined2, Zenon
  <2> QED BY <2>1, <2>2, Zenon DEF MySqlSteps
<1>7. SeekDbSteps(<<>>) = <<"connect", "build">>
  <2>1. <<"connect">> \o <<>> = <<"connect">>
    BY JoinedNone, Zenon
  <2>2. <<"connect">> \o <<"build">> = <<"connect", "build">>
    BY Joined2, Zenon
  <2> QED BY <2>1, <2>2, Zenon DEF SeekDbSteps
<1>8. SqliteSteps(<<>>) = <<"open", "build">>
  <2>1. <<"open">> \o <<>> = <<"open">>
    BY JoinedNone, Zenon
  <2>2. <<"open">> \o <<"build">> = <<"open", "build">>
    BY Joined2, Zenon
  <2> QED BY <2>1, <2>2, Zenon DEF SqliteSteps
<1>9. CASE IsCatalog(s)
  BY <1>1, <1>2, <1>3, <1>4, <1>9 DEF Steps, IsCatalog, CatalogKinds
<1>10. CASE ~IsCatalog(s)
  BY <1>5, <1>6, <1>7, <1>8, <1>10 DEF Steps
<1> QED BY <1>9, <1>10

\* The step after one that is not the last is one too; it is the last when the tables of a
\* catalog have been listed, and never before.
LEMMA StepAfter ==
    ASSUME NEW s, NEW k \in DOMAIN Steps(s), Steps(s)[k] # "build"
    PROVE  /\ k + 1 \in DOMAIN Steps(s)
           /\ Steps(s)[k] = "list" => IsCatalog(s) /\ Steps(s)[k + 1] = "build"
           /\ IsCatalog(s) /\ Steps(s)[k] # "list" => Steps(s)[k + 1] # "build"
<1>1. CASE IsCatalog(s)
  BY <1>1, StepsShape
<1>2. CASE ~IsCatalog(s)
  BY <1>2, StepsShape
<1> QED BY <1>1, <1>2

LEMMA StepFirst ==
    ASSUME NEW s
    PROVE  1 \in DOMAIN Steps(s) /\ (IsCatalog(s) => Steps(s)[1] # "build")
BY StepsShape

LEMMA AtHand == ASSUME IInv, at <= Len(Sources) PROVE at \in DOMAIN Sources
BY ServerAssumption DEF IInv, Placed, Sources

\* No source is at hand yet, or the next one is taken up.
LEMMA GatheredAfresh ==
    ASSUME step' = 1, listing' = {}, building' = {}, built' = {}
    PROVE  Gathered'
<1>1. 1 \in DOMAIN Steps(Source')
  BY StepFirst
<1>2. Steps(Source)' = Steps(Source')
  BY DEF Steps, IsCatalog, PostgresSteps, MySqlSteps, SeekDbSteps, SqliteSteps
<1>3. step' \in DOMAIN Steps(Source)'
  BY <1>1, <1>2
<1> QED BY <1>3 DEF Gathered

\* What makes an entry of a source, in the next state.
LEMMA EntryNext ==
    ASSUME NEW c, NEW p, NEW n, UNCHANGED config, tables'[c][p].source = n, Through(c, n)',
           Admissible(n, TableAt(n, p)), Present(n, TableAt(n, p))',
           p = Path(Sources[n], TableAt(n, p)),
           tables'[c][p].reads = Reference(Sources[n], TableAt(n, p))
    PROVE  EntryOf(c, p)'
BY DEF EntryOf, TableAt, Admissible, Sources

\* What a context has been through and what was present stays so.
Lasting ==
    /\ UNCHANGED config
    /\ \A c \in Contexts, n \in DOMAIN Sources : Through(c, n) => Through(c, n)'
    /\ \A n \in DOMAIN Sources : \A t : Present(n, t) => Present(n, t)'

\* An entry outlasts a step that registers something else.
LEMMA EntryKept ==
    ASSUME NEW c \in Contexts, NEW p, EntryOf(c, p), Lasting, tables'[c][p] = tables[c][p]
    PROVE  EntryOf(c, p)'
<1>1. CASE tables[c][p].source = 0 /\ p \in AuthPaths /\ config.auth
  BY <1>1 DEF EntryOf, Lasting
<1>2. CASE ~(tables[c][p].source = 0 /\ p \in AuthPaths /\ config.auth)
  <2>1. PICK n : n = tables[c][p].source
    OBVIOUS
  <2>2. /\ Through(c, n) /\ Admissible(n, TableAt(n, p)) /\ Present(n, TableAt(n, p))
        /\ p = Path(Sources[n], TableAt(n, p))
        /\ tables[c][p].reads = Reference(Sources[n], TableAt(n, p))
    BY <1>2, <2>1 DEF EntryOf
  <2>3. Through(c, n)'
    BY <2>2 DEF Through, Lasting
  <2>4. Present(n, TableAt(n, p))'
    BY <2>2 DEF Through, Lasting, TableAt, Sources
  <2> QED BY <2>1, <2>2, <2>3, <2>4, EntryNext DEF Lasting
<1> QED BY <1>1, <1>2

\* A step of the startup outside registration: the tables stay as they are, and so does what
\* the contexts have been through.
LEMMA RegistryAside ==
    ASSUME RegistryInv, pc # "failed", UNCHANGED <<config, tables, upstream, dropped>>,
           pc' # "context", pc = "context" => SoleNames,
           Placement', AuthThere', pc' = "sources" => Gathered',
           \A c \in Contexts, n \in DOMAIN Sources : Through(c, n) => Through(c, n)'
    PROVE  RegistryInv'
<1>1. Lasting
  BY DEF Lasting, Present, Unasked, Sources
<1>2. Entries'
  BY <1>1, EntryKept DEF RegistryInv, Entries
<1>3. SoleNames'
  BY DEF RegistryInv, SoleNames, Sources
<1> QED BY <1>2, <1>3 DEF RegistryInv

\* A table of the source at hand: what it is named and what it reads.
LEMMA TableOfPath ==
    ASSUME NEW n, NEW t, Admissible(n, t)
    PROVE  TableAt(n, Path(Sources[n], t)) = t
<1>1. CASE IsCatalog(Sources[n])
  BY <1>1 DEF Admissible, TableAt, Path, Pair
<1>2. CASE ~IsCatalog(Sources[n])
  BY <1>2 DEF Admissible, TableAt
<1> QED BY <1>1, <1>2

\* Paths of different sources are different.
LEMMA PathsApart ==
    ASSUME SoleNames, NEW m \in DOMAIN Sources, NEW n \in DOMAIN Sources, NEW t, NEW u,
           Path(Sources[m], t) = Path(Sources[n], u)
    PROVE  m = n
<1>1. \A i \in DOMAIN Sources : \A x : Path(Sources[i], x)[1] = Sources[i].name
  BY DEF Path
<1> QED BY <1>1 DEF SoleNames

\* What Install puts in a context.
Installed ==
    [p \in {Path(Source, t) : t \in built} |->
        Provider(Source, at, CHOOSE t \in built : Path(Source, t) = p)]

LEMMA InstalledEntry ==
    ASSUME IInv, RegistryInv, Install, NEW p \in DOMAIN Installed
    PROVE  /\ TableAt(at, p) \in built /\ p = Path(Source, TableAt(at, p))
           /\ Installed[p].source = at
           /\ Installed[p].reads = Reference(Source, TableAt(at, p))
<1>1. /\ at <= Len(Sources) /\ pc = "sources" /\ Gathered
  BY DEF Install, Registering, RegistryInv
<1>2. \A t \in built : Admissible(at, t)
  BY <1>1 DEF Gathered
<1>3. \A t \in built : TableAt(at, Path(Source, t)) = t
  BY <1>2, TableOfPath DEF Source
<1>4. PICK t \in built : p = Path(Source, t)
  BY DEF Installed
<1>5. PICK u : u = CHOOSE x \in built : Path(Source, x) = p
  OBVIOUS
<1>6. u \in built /\ Path(Source, u) = p
  BY <1>4, <1>5
<1>7. u = TableAt(at, p)
  BY <1>3, <1>6
<1>8. Installed[p] = Provider(Source, at, u)
  BY <1>5 DEF Installed
<1> QED BY <1>6, <1>7, <1>8, ProviderOf

LEMMA Installing ==
    ASSUME IInv, Install
    PROVE  /\ at \in DOMAIN Sources /\ at <= Len(Sources) /\ pc = "sources" /\ pc' = "sources"
           /\ at' = at + 1 /\ step' = 1 /\ listing' = {} /\ building' = {} /\ built' = {}
           /\ UNCHANGED <<config, upstream, dropped, which, datasets, loaded, request>>
           /\ tables' = [tables EXCEPT ![which] = Over(Installed, @)]
           /\ built = Wanted
<1>1. at <= Len(Sources) /\ pc = "sources" /\ built = Wanted
  BY DEF Install, Registering, AllBuilt
<1>2. at \in DOMAIN Sources
  BY <1>1, AtHand
<1>3. tables' = [tables EXCEPT ![which] = Over(Installed, @)]
  BY DEF Install, Installed
<1> QED BY <1>1, <1>2, <1>3 DEF Install, Outside

\* A context has what it had, and what was put in it.
LEMMA ExtendedDomain ==
    ASSUME NEW c \in Contexts, NEW fresh, Placed,
           tables' = [tables EXCEPT ![which] = Over(fresh, @)]
    PROVE  DOMAIN tables'[c] = DOMAIN tables[c] \cup (IF c = which THEN DOMAIN fresh ELSE {})
<1>1. tables'[c] = IF c = which THEN Over(fresh, tables[c]) ELSE tables[c]
  BY DEF Placed
<1>2. DOMAIN Over(fresh, tables[c]) = DOMAIN fresh \cup DOMAIN tables[c]
  BY DEF Over
<1> QED BY <1>1, <1>2

LEMMA InstallRegistry == IInv /\ RegistryInv /\ Install => RegistryInv'
<1> SUFFICES ASSUME IInv, RegistryInv, Install PROVE RegistryInv'
  OBVIOUS
<1>1. /\ at \in DOMAIN Sources /\ at <= Len(Sources) /\ pc = "sources" /\ pc' = "sources"
      /\ at' = at + 1 /\ step' = 1 /\ listing' = {} /\ building' = {} /\ built' = {}
      /\ UNCHANGED <<config, upstream, dropped, which>>
      /\ tables' = [tables EXCEPT ![which] = Over(Installed, @)]
  BY Installing
<1>2. SoleNames /\ Gathered /\ Entries
  BY <1>1 DEF RegistryInv
<1>3. Gathered'
  BY <1>1, GatheredAfresh
<1>4. Entries'
  <2> SUFFICES ASSUME NEW c \in Contexts, NEW p \in DOMAIN tables'[c] PROVE EntryOf(c, p)'
    BY DEF Entries
  <2>1. Lasting
    BY <1>1 DEF Lasting, Through, Present, Unasked, Sources, IInv, Placed
  <2>2. CASE c = which /\ p \in DOMAIN Installed
    <3>1. tables'[c][p] = Installed[p]
      <4>1. tables'[which] = Over(Installed, tables[which])
        BY <1>1 DEF IInv, Placed
      <4> QED BY <2>2, <4>1 DEF Over
    <3>2. /\ TableAt(at, p) \in built /\ p = Path(Source, TableAt(at, p))
          /\ Installed[p].source = at
          /\ Installed[p].reads = Reference(Source, TableAt(at, p))
      BY <2>2, InstalledEntry
    <3>3. Admissible(at, TableAt(at, p)) /\ Present(at, TableAt(at, p))
      BY <1>1, <1>2, <3>2 DEF Gathered
    <3>4. PICK n : n = at
      OBVIOUS
    <3>5. n < at'
      BY <1>1, <3>4 DEF IInv, Placed
    <3>6. Through(c, n)'
      BY <1>1, <2>2, <3>4, <3>5 DEF Through, Sources
    <3>7. Present(n, TableAt(n, p))'
      BY <1>1, <3>3, <3>4 DEF Present, Unasked, TableAt, Sources
    <3> QED BY <1>1, <3>1, <3>2, <3>3, <3>4, <3>6, <3>7, EntryNext DEF Source
  <2>3. CASE ~(c = which /\ p \in DOMAIN Installed)
    <3>1. p \in DOMAIN tables[c] /\ tables'[c][p] = tables[c][p]
      BY <1>1, <2>3, ExtendedOld
    <3>2. EntryOf(c, p)
      BY <1>2, <3>1 DEF Entries
    <3> QED BY <2>1, <3>1, <3>2, EntryKept
  <2> QED BY <2>2, <2>3
<1> QED BY <1>1, <1>2, <1>3, <1>4 DEF RegistryInv, Placement, AuthThere, SoleNames, Sources

\* A step of the registration of the source at hand.
LEMMA RegistryAt ==
    ASSUME RegistryInv, pc = "sources", pc' = "sources", Gathered',
           UNCHANGED <<config, upstream, dropped, tables, which>>,
           \A n \in DOMAIN Sources : n < at => n < at'
    PROVE  RegistryInv'
<1>1. \A c \in Contexts, n \in DOMAIN Sources : Through(c, n) => Through(c, n)'
  BY DEF Through, Sources
<1>2. Placement' /\ AuthThere'
  BY DEF Placement, AuthThere, RegistryInv
<1> QED BY <1>1, <1>2, RegistryAside

LEMMA SkipLanceRegistry == IInv /\ RegistryInv /\ SkipLance => RegistryInv'
<1> SUFFICES ASSUME IInv, RegistryInv, SkipLance PROVE RegistryInv'
  OBVIOUS
<1>1. /\ pc = "sources" /\ pc' = "sources" /\ at <= Len(Sources) /\ at' = at + 1
      /\ UNCHANGED <<config, upstream, dropped, tables, which, step, listing, building, built>>
      /\ building = {} /\ built = {} /\ Source.kind = "lance"
  BY DEF SkipLance, Registering, Kept, Outside
<1>2. Steps(Source) = <<"build">> /\ ~IsCatalog(Source)
  BY <1>1 DEF Steps, IsCatalog, CatalogKinds
<1>3. step = 1 /\ listing = {}
  BY <1>1, <1>2 DEF RegistryInv, Gathered
<1>4. Gathered'
  BY <1>1, <1>3, GatheredAfresh
<1>5. \A n \in DOMAIN Sources : n < at => n < at'
  BY <1>1, ServerAssumption DEF IInv, Placed, Sources
<1> QED BY <1>1, <1>4, <1>5, RegistryAt

\* The next step of the source at hand, with the tables it has found.
LEMMA GatheredOn ==
    ASSUME IInv, RegistryInv, NEW op, op # "build", Registering(op), NextStep,
           UNCHANGED <<config, upstream, dropped>>,
           listing' # {} => IsCatalog(Source) /\ Steps(Source)[step + 1] = "build",
           \A t \in listing' : Admissible(at, t) /\ Present(at, t)
    PROVE  Gathered'
<1>1. /\ pc = "sources" /\ at <= Len(Sources) /\ Steps(Source)[step] = op
      /\ step' = step + 1 /\ UNCHANGED <<at, building, built>> /\ Gathered
  BY DEF Registering, NextStep, RegistryInv
<1>2. step \in DOMAIN Steps(Source) /\ building = {} /\ built = {}
  BY <1>1 DEF Gathered
<1>3. step + 1 \in DOMAIN Steps(Source)
  BY <1>1, <1>2, StepAfter
<1>4. Source' = Source /\ Steps(Source)' = Steps(Source)
  BY <1>1 DEF Source, Sources, Steps, IsCatalog, PostgresSteps, MySqlSteps, SeekDbSteps, SqliteSteps
<1>5. \A t \in listing' : Admissible(at, t)' /\ Present(at, t)'
  BY <1>1 DEF Admissible, Present, Unasked, Sources
<1>6. Len(Sources)' = Len(Sources) /\ IsCatalog(Source)' = IsCatalog(Source)
  BY <1>4 DEF Sources, IsCatalog
<1> QED BY <1>1, <1>2, <1>3, <1>4, <1>5, <1>6 DEF Gathered

LEMMA ListRegistry == IInv /\ NamesInv /\ RegistryInv /\ List => RegistryInv'
<1> SUFFICES ASSUME IInv, NamesInv, RegistryInv, List PROVE RegistryInv'
  OBVIOUS
<1>1. /\ pc = "sources" /\ pc' = "sources" /\ at <= Len(Sources) /\ at' = at
      /\ UNCHANGED <<config, upstream, dropped, tables, which>>
      /\ listing' = {t \in upstream[at] : t[1] \in Source.allowed}
      /\ Registering("list") /\ NextStep /\ Gathered
  BY DEF List, Registering, NextStep, Kept, Outside, RegistryInv
<1>2. step \in DOMAIN Steps(Source) /\ Steps(Source)[step] = "list"
  BY <1>1 DEF Gathered, Registering
<1>3. IsCatalog(Source) /\ Steps(Source)[step + 1] = "build"
  BY <1>2, StepAfter
<1>4. at \in DOMAIN Sources
  BY <1>1, AtHand
<1>5. \A t \in listing' : Admissible(at, t) /\ Present(at, t)
  BY <1>1, <1>3, <1>4 DEF NamesInv, Found, Admissible, Present, Source
<1>6. Gathered'
  BY <1>1, <1>3, <1>5, GatheredOn
<1> QED BY <1>1, <1>6, RegistryAt

LEMMA ConnectRegistry ==
    ASSUME NEW op \in {"connect", "pool", "open"}
    PROVE  IInv /\ RegistryInv /\ Connect(op) => RegistryInv'
<1> SUFFICES ASSUME IInv, RegistryInv, Connect(op) PROVE RegistryInv'
  OBVIOUS
<1>1. /\ pc = "sources" /\ pc' = "sources" /\ at <= Len(Sources) /\ at' = at
      /\ UNCHANGED <<config, upstream, dropped, tables, which, listing>>
      /\ Registering(op) /\ NextStep /\ Gathered
  BY DEF Connect, Registering, NextStep, Kept, Outside, RegistryInv
<1>2. listing = {}
  BY <1>1 DEF Gathered, Registering
<1>3. Gathered'
  BY <1>1, <1>2, GatheredOn
<1> QED BY <1>1, <1>3, RegistryAt

\* A table of the source at hand is built, beside those that are or are being built.
LEMMA BuildRegistry ==
    ASSUME NEW t
    PROVE  IInv /\ RegistryInv /\ (StartBuild(t) \/ FinishBuild(t)) => RegistryInv'
<1> SUFFICES ASSUME IInv, RegistryInv, StartBuild(t) \/ FinishBuild(t) PROVE RegistryInv'
  OBVIOUS
<1>1. /\ pc = "sources" /\ pc' = "sources" /\ at <= Len(Sources) /\ Steps(Source)[step] = "build"
      /\ UNCHANGED <<config, upstream, dropped, tables, which, at, step, listing>>
      /\ Gathered
  BY DEF StartBuild, FinishBuild, Registering, Kept, Outside, RegistryInv
<1>2. building' \cup built' \subseteq building \cup built \cup {t}
  BY DEF StartBuild, FinishBuild
<1>3. t \in Wanted /\ (Source.kind = "lance" => Present(at, t))
  <2>1. CASE StartBuild(t)
    BY <2>1 DEF StartBuild, Present
  <2>2. CASE FinishBuild(t)
    BY <1>1, <2>2 DEF FinishBuild, Gathered
  <2> QED BY <2>1, <2>2
<1>4. Admissible(at, t) /\ Present(at, t)
  <2>1. CASE IsCatalog(Source)
    <3>1. t \in listing
      BY <1>3, <2>1 DEF Wanted
    <3> QED BY <1>1, <3>1 DEF Gathered
  <2>2. CASE ~IsCatalog(Source)
    BY <1>3, <2>2 DEF Wanted, Admissible, Present, Unasked, Source
  <2> QED BY <2>1, <2>2
<1>5. \A u \in listing \cup building' \cup built' : Admissible(at, u)' /\ Present(at, u)'
  <2> SUFFICES ASSUME NEW u \in listing \cup building' \cup built'
               PROVE  Admissible(at, u)' /\ Present(at, u)'
    OBVIOUS
  <2>1. Admissible(at, u) /\ Present(at, u)
    BY <1>1, <1>2, <1>4 DEF Gathered
  <2> QED BY <1>1, <2>1 DEF Admissible, Present, Unasked, Sources
<1>6. Source' = Source /\ Steps(Source)' = Steps(Source) /\ Wanted' = Wanted
  BY <1>1 DEF Source, Sources, Wanted, Steps, IsCatalog, PostgresSteps, MySqlSteps, SeekDbSteps, SqliteSteps
<1>7. Len(Sources)' = Len(Sources) /\ IsCatalog(Source)' = IsCatalog(Source)
  BY <1>1, <1>6 DEF Sources, IsCatalog
<1>8. building' \cup built' \subseteq Wanted'
  BY <1>1, <1>2, <1>3, <1>6 DEF Gathered
<1>9. Gathered'
  <2>1. step' \in DOMAIN Steps(Source)' /\ Steps(Source)'[step'] = "build"
    BY <1>1, <1>6 DEF Gathered
  <2>2. listing' # {} => IsCatalog(Source)'
    BY <1>1, <1>7 DEF Gathered
  <2> QED BY <1>1, <1>5, <1>7, <1>8, <2>1, <2>2 DEF Gathered
<1> QED BY <1>1, <1>9, RegistryAt

\* The same source is tried again, at most.
LEMMA AttemptRegistry ==
    ASSUME NEW op
    PROVE  IInv /\ RegistryInv /\ AttemptFails(op) => RegistryInv'
<1> SUFFICES ASSUME IInv, RegistryInv, AttemptFails(op), pc' # "failed" PROVE RegistryInv'
  BY DEF RegistryInv
<1>1. /\ pc = "sources" /\ pc' = "sources"
      /\ UNCHANGED <<config, upstream, dropped, tables, which, at, step, listing, building, built>>
      /\ Gathered
  BY DEF AttemptFails, Registering, Failed, Kept, Outside, RegistryInv
<1>2. Gathered'
  BY <1>1 DEF Gathered, Source, Sources, Wanted, Steps, IsCatalog, PostgresSteps, MySqlSteps,
     SeekDbSteps, SqliteSteps, Admissible, Present, Unasked
<1> QED BY <1>1, <1>2, RegistryAt

LEMMA SourcesDoneRegistry == IInv /\ RegistryInv /\ SourcesDone => RegistryInv'
<1> SUFFICES ASSUME IInv, RegistryInv, SourcesDone PROVE RegistryInv'
  OBVIOUS
<1>1. /\ pc = "sources" /\ pc' = "auth"
      /\ UNCHANGED <<config, upstream, dropped, tables, which>>
  BY DEF SourcesDone, Moved, Kept, Outside
<1>2. \A c \in Contexts, n \in DOMAIN Sources : Through(c, n) => Through(c, n)'
  BY <1>1 DEF Through, Sources
<1>3. Placement' /\ AuthThere'
  BY <1>1 DEF Placement, AuthThere
<1> QED BY <1>1, <1>2, <1>3, RegistryAside

LEMMA RegisterRegistry == IInv /\ NamesInv /\ RegistryInv /\ Register => RegistryInv'
<1> SUFFICES ASSUME IInv, NamesInv, RegistryInv, Register PROVE RegistryInv'
  OBVIOUS
<1>1. ASSUME NEW t, BuildFails(t) PROVE RegistryInv'
  BY <1>1 DEF BuildFails, Failed, RegistryInv
<1> QED
  BY <1>1, SkipLanceRegistry, ListRegistry, InstallRegistry, SourcesDoneRegistry, ConnectRegistry,
     AttemptRegistry, BuildRegistry DEF Register

LEMMA BuildAuthRegistry == IInv /\ RegistryInv /\ BuildAuth => RegistryInv'
<1> SUFFICES ASSUME IInv, RegistryInv, BuildAuth, pc' # "failed" PROVE RegistryInv'
  BY DEF RegistryInv
<1> DEFINE fresh == [p \in {<<"auth", "users">>, <<"auth", "sessions">>} |->
                        [source |-> 0, reads |-> p, write |-> FALSE, cached |-> FALSE]]
<1>1. /\ pc = "auth" /\ pc' = IF which = "planning" THEN "validate" ELSE "store"
      /\ UNCHANGED <<config, upstream, dropped, which>>
      /\ IF ~config.auth THEN tables' = tables
         ELSE tables' = [tables EXCEPT ![which] = Over(fresh, @)]
  BY DEF BuildAuth, Moved, Failed, Outside
<1>2. \A c \in Contexts, n \in DOMAIN Sources : Through(c, n) => Through(c, n)'
  BY <1>1 DEF Through, Sources
<1>3. Placement' /\ pc' # "sources" /\ pc' # "context"
  BY <1>1 DEF Placement, IInv, Placed
<1>4. CASE ~config.auth
  <2>1. AuthThere'
    BY <1>1, <1>4 DEF AuthThere
  <2> QED BY <1>1, <1>2, <1>3, <1>4, <2>1, RegistryAside
<1>5. CASE config.auth
  <2>1. tables' = [tables EXCEPT ![which] = Over(fresh, @)]
    BY <1>1, <1>5
  <2>2. AuthThere'
    BY <1>1, <2>1, ExtendedDomain DEF AuthThere, AuthPaths, IInv, Placed
  <2>3. Lasting
    BY <1>1, <1>2 DEF Lasting, Present, Unasked, Sources
  <2>4. Entries'
    <3> SUFFICES ASSUME NEW c \in Contexts, NEW p \in DOMAIN tables'[c] PROVE EntryOf(c, p)'
      BY DEF Entries
    <3>1. CASE c = which /\ p \in DOMAIN fresh
      <4>1. tables'[c][p] = fresh[p]
        <5>1. tables'[which] = Over(fresh, tables[which])
          BY <2>1 DEF IInv, Placed
        <5> QED BY <3>1, <5>1 DEF Over
      <4>2. fresh[p].source = 0 /\ p \in AuthPaths
        BY <3>1 DEF AuthPaths
      <4> QED BY <1>1, <1>5, <4>1, <4>2 DEF EntryOf
    <3>2. CASE ~(c = which /\ p \in DOMAIN fresh)
      <4>1. p \in DOMAIN tables[c] /\ tables'[c][p] = tables[c][p]
        BY <2>1, <3>2, ExtendedOld
      <4>2. EntryOf(c, p)
        BY <1>1, <4>1 DEF RegistryInv, Entries
      <4> QED BY <2>3, <4>1, <4>2, EntryKept
    <3> QED BY <3>1, <3>2
  <2>5. SoleNames'
    BY <1>1 DEF RegistryInv, SoleNames, Sources
  <2> QED BY <1>3, <2>2, <2>4, <2>5 DEF RegistryInv
<1> QED BY <1>4, <1>5

LEMMA StartupRegistry == IInv /\ NamesInv /\ RegistryInv /\ Startup => RegistryInv'
<1> SUFFICES ASSUME IInv, NamesInv, RegistryInv, Startup, pc' # "failed" PROVE RegistryInv'
  BY DEF RegistryInv
<1>1. CASE LoadContext
  <2>1. /\ pc = "context" /\ pc' = "sources" /\ ContextValid
        /\ at' = 1 /\ step' = 1 /\ listing' = {} /\ building' = {} /\ built' = {}
        /\ UNCHANGED <<config, upstream, dropped, tables, which>>
    BY <1>1 DEF LoadContext, Moved, Failed, Kept, Outside
  <2>2. SoleNames /\ Gathered'
    BY <2>1, GatheredAfresh DEF ContextValid, SoleNames
  <2>3. Placement' /\ AuthThere'
    BY <2>1 DEF Placement, AuthThere
  <2>4. \A c \in Contexts, n \in DOMAIN Sources : Through(c, n) => Through(c, n)'
    BY <2>1 DEF Through, Sources
  <2> QED BY <2>1, <2>2, <2>3, <2>4, RegistryAside
<1>2. CASE Register
  BY <1>2, RegisterRegistry
<1>3. CASE BuildAuth
  BY <1>3, BuildAuthRegistry
<1>4. CASE LoadSemantics
  <2>1. /\ pc = "semantics" /\ pc' = "sources" /\ which' = "runtime"
        /\ at' = 1 /\ step' = 1 /\ listing' = {} /\ building' = {} /\ built' = {}
        /\ UNCHANGED <<config, upstream, dropped, tables>>
    BY <1>4 DEF LoadSemantics, Moved, Failed, Outside
  <2>2. which = "planning"
    BY <2>1 DEF RegistryInv, Placement
  <2>3. Gathered' /\ Placement' /\ AuthThere'
    BY <2>1, GatheredAfresh DEF Placement, AuthThere
  <2>4. \A c \in Contexts, n \in DOMAIN Sources : Through(c, n) => Through(c, n)'
    BY <2>1, <2>2 DEF Through, Sources
  <2> QED BY <2>1, <2>3, <2>4, RegistryAside
<1>5. CASE ValidatePipelines \/ LoadPipeline \/ PipelinesDone \/ LoadJob \/ JobsDone
  <2>1. /\ {pc, pc'} \subseteq {"validate", "pipelines", "jobs", "semantics"}
        /\ UNCHANGED <<config, upstream, dropped, tables, which>>
    <3>1. CASE ValidatePipelines \/ PipelinesDone \/ JobsDone
      BY <1>5, <3>1 DEF ValidatePipelines, PipelinesDone, JobsDone, Moved, Failed, Kept, Outside
    <3>2. CASE LoadPipeline
      BY <3>2 DEF LoadPipeline, Advance, Failed, Outside
    <3>3. CASE LoadJob
      BY <3>3 DEF LoadJob, Advance, Failed, Outside
    <3> QED BY <1>5, <3>1, <3>2, <3>3
  <2>2. Placement' /\ AuthThere'
    BY <2>1 DEF RegistryInv, Placement, AuthThere
  <2>3. \A c \in Contexts, n \in DOMAIN Sources : Through(c, n) => Through(c, n)'
    BY <2>1 DEF Through, Sources
  <2> QED BY <2>1, <2>2, <2>3, RegistryAside
<1>6. CASE OpenStore \/ Bind
  <2>1. /\ pc \in {"store", "bind"} /\ pc' \in {"bind", "serving"}
        /\ UNCHANGED <<config, upstream, dropped, tables, which>>
    BY <1>6 DEF OpenStore, Bind, Moved, Failed, Kept, Outside
  <2>2. Placement' /\ AuthThere'
    BY <2>1 DEF RegistryInv, Placement, AuthThere
  <2>3. \A c \in Contexts, n \in DOMAIN Sources : Through(c, n) => Through(c, n)'
    BY <2>1 DEF Through, Sources
  <2> QED BY <2>1, <2>2, <2>3, RegistryAside
<1> QED BY <1>1, <1>2, <1>3, <1>4, <1>5, <1>6 DEF Startup

\* What startup works on, and requests, clients and changes upstream leave alone.
Startings == <<config, pc, which, progress, tables, datasets, loaded>>

\* A table that is dropped upstream is known to have been; nothing else goes.
Traced ==
    /\ dropped \subseteq dropped'
    /\ \A n \in DOMAIN Sources : \A t \in upstream[n] : t \in upstream'[n] \/ <<n, t>> \in dropped'

LEMMA OthersLeave ==
    ASSUME NamesInv, [Next]_vars, ~Startup
    PROVE  UNCHANGED Startings /\ Traced
<1>1. CASE Serve \/ (\E call \in Calls : Arrive(call)) \/ UNCHANGED vars
  <2>1. UNCHANGED <<Startings, upstream, dropped>>
    BY <1>1 DEF Serve, Verify, Lookup, Run, Inspect, Arrive, ServeOnly, vars, Startings, progress
  <2> QED BY <2>1 DEF Traced
<1>2. ASSUME NEW n \in DOMAIN upstream, NEW t, Drop(n, t) \/ Create(n, t)
      PROVE  UNCHANGED Startings /\ Traced
  <2>1. UNCHANGED Startings
    BY <1>2 DEF Drop, Create, UpstreamOnly, Startings, progress
  <2>2. /\ DOMAIN upstream = DOMAIN Sources
        /\ \/ /\ upstream' = [upstream EXCEPT ![n] = @ \ {t}]
              /\ dropped' = dropped \cup {<<n, t>>}
           \/ /\ upstream' = [upstream EXCEPT ![n] = @ \cup {t}]
              /\ dropped' = dropped
    BY <1>2 DEF Drop, Create, NamesInv, Found
  <2>3. Traced
    BY <2>2 DEF Traced
  <2> QED BY <2>1, <2>3
<1> QED BY <1>1, <1>2 DEF Next

LEMMA NextRegistry == IInv /\ NamesInv /\ RegistryInv /\ [Next]_vars => RegistryInv'
<1> SUFFICES ASSUME IInv, NamesInv, RegistryInv, [Next]_vars, ~Startup, pc # "failed"
             PROVE  RegistryInv'
  BY StartupRegistry, OthersLeave DEF Startings, RegistryInv
<1>1. /\ UNCHANGED <<config, pc, which, progress, tables>>
      /\ \A n \in DOMAIN Sources : \A t : Present(n, t) => Present(n, t)'
  BY OthersLeave DEF Startings, Traced, Present, Unasked, Sources
<1>2. \A c \in Contexts, n \in DOMAIN Sources : Through(c, n) => Through(c, n)'
  BY <1>1 DEF Through, Sources, progress
<1>3. Entries'
  BY <1>1, <1>2, EntryKept DEF RegistryInv, Entries, Lasting
<1>4. pc = "sources" => Gathered'
  <2> SUFFICES ASSUME Gathered PROVE Gathered'
    BY DEF RegistryInv
  <2>1. /\ Source' = Source /\ Steps(Source)' = Steps(Source) /\ Wanted' = Wanted
        /\ Len(Sources)' = Len(Sources) /\ IsCatalog(Source)' = IsCatalog(Source)
    BY <1>1 DEF Source, Sources, Wanted, Steps, IsCatalog, PostgresSteps, MySqlSteps, SeekDbSteps,
       SqliteSteps, progress
  <2>2. at <= Len(Sources) => \A t : (Admissible(at, t) /\ Present(at, t))
                                     => (Admissible(at, t) /\ Present(at, t))'
    <3>1. at' = at
      BY <1>1 DEF progress
    <3> QED BY <1>1, <3>1, AtHand DEF Admissible, Sources, Present, Unasked
  <2> QED BY <1>1, <2>1, <2>2 DEF Gathered, progress
<1> QED BY <1>1, <1>3, <1>4 DEF RegistryInv, Placement, AuthThere, SoleNames, Sources

LEMMA InitRegistry == Began => RegistryInv
<1> SUFFICES ASSUME Began PROVE RegistryInv
  OBVIOUS
<1>1. Entries
  BY DEF Began, Blank, Entries
<1> QED BY <1>1 DEF Began, Blank, RegistryInv, Placement, AuthThere

-----------------------------------------------------------------------------
(* What the search functions find.                                          *)

\* Outside the building of tables the second registry stays as it is.
LEMMA SearchAside ==
    ASSUME SearchInv, pc # "failed", UNCHANGED <<config, tables, datasets>>,
           \/ /\ ~Registering("build") \/ built = {}
              /\ ~Registering("build")' \/ built' = {}
           \/ UNCHANGED <<which, pc, at, step, built>>
    PROVE  SearchInv'
<1>1. /\ DOMAIN datasets = Contexts /\ Findable
      /\ \A c \in Contexts : \A k \in DOMAIN datasets[c] : Agrees(c, k)
      /\ \A c \in Contexts : \A p \in DOMAIN tables[c] : Searched(c, p)
  BY DEF SearchInv
<1>2. \A c \in Contexts : \A p \in DOMAIN tables'[c] : Searched(c, p)'
  <2> SUFFICES ASSUME NEW c \in Contexts, NEW p \in DOMAIN tables[c] PROVE Searched(c, p)'
    OBVIOUS
  <2>1. Searched(c, p)
    BY <1>1
  <2> QED BY <2>1 DEF Searched, Sources
<1>3. CASE UNCHANGED <<which, pc, at, step, built>>
  <2>1. Source' = Source /\ Registering("build")' = Registering("build")
    BY <1>3 DEF Source, Sources, Registering, Steps, IsCatalog, PostgresSteps, MySqlSteps, SeekDbSteps,
       SqliteSteps
  <2>2. \A t : Path(Source, t)' = Path(Source, t) /\ Reference(Source, t)' = Reference(Source, t)
    BY <2>1 DEF Path, Reference, IsCatalog
  <2>3. Findable'
    BY <1>1, <1>3, <2>1, <2>2 DEF Findable
  <2>4. \A c \in Contexts : \A k \in DOMAIN datasets'[c] : Agrees(c, k)'
    BY <1>1, <1>3, <2>1, <2>2 DEF Agrees
  <2> QED BY <1>1, <1>2, <2>3, <2>4 DEF SearchInv
<1>4. CASE /\ ~Registering("build") \/ built = {}
           /\ ~Registering("build")' \/ built' = {}
  <2>1. Findable'
    BY <1>4 DEF Findable
  <2>2. \A c \in Contexts : \A k \in DOMAIN datasets'[c] : Agrees(c, k)'
    BY <1>1, <1>4 DEF Agrees
  <2> QED BY <1>1, <1>2, <2>1, <2>2 DEF SearchInv
<1> QED BY <1>3, <1>4

\* A table is built, and with it the entry it is found by.
LEMMA FinishBuildSearch ==
    ASSUME NEW t
    PROVE  IInv /\ RegistryInv /\ SearchInv /\ FinishBuild(t) => SearchInv'
<1> SUFFICES ASSUME IInv, RegistryInv, SearchInv, FinishBuild(t) PROVE SearchInv'
  OBVIOUS
<1>1. /\ Registering("build") /\ pc = "sources" /\ at <= Len(Sources)
      /\ t \in building /\ built' = built \cup {t}
      /\ UNCHANGED <<config, tables, which, pc, at, step>>
  BY DEF FinishBuild, Registering, Outside
<1>2. Source' = Source /\ Registering("build")'
  BY <1>1 DEF Source, Sources, Registering, Steps, IsCatalog, PostgresSteps, MySqlSteps, SeekDbSteps,
     SqliteSteps
<1>3. \A u : Path(Source, u)' = Path(Source, u) /\ Reference(Source, u)' = Reference(Source, u)
  BY <1>2 DEF Path, Reference, IsCatalog
<1>4. /\ DOMAIN datasets = Contexts /\ Findable
      /\ \A c \in Contexts : \A k \in DOMAIN datasets[c] : Agrees(c, k)
      /\ \A c \in Contexts : \A p \in DOMAIN tables[c] : Searched(c, p)
  BY <1>1 DEF SearchInv
<1>5. CASE Source.kind \notin SearchableKinds
  <2>1. datasets' = datasets
    BY <1>5 DEF FinishBuild
  <2>2. Findable'
    BY <1>2, <1>5 DEF Findable
  <2>3. \A c \in Contexts : \A k \in DOMAIN datasets'[c] : Agrees(c, k)'
    BY <1>1, <1>2, <1>3, <1>4, <2>1 DEF Agrees
  <2>4. \A c \in Contexts : \A p \in DOMAIN tables'[c] : Searched(c, p)'
    BY <1>1, <1>4, <2>1 DEF Searched, Sources
  <2> QED BY <1>4, <2>1, <2>2, <2>3, <2>4 DEF SearchInv
<1>6. CASE Source.kind \in SearchableKinds
  <2>1. PICK entry : entry = [source |-> at, reads |-> Reference(Source, t)]
    OBVIOUS
  <2>2. PICK fresh : fresh = [k \in {Path(Source, t)} |-> entry]
    OBVIOUS
  <2>3. datasets' = [datasets EXCEPT ![which] = Over(fresh, @)]
    BY <1>6, <2>1, <2>2 DEF FinishBuild, Key, Path
  <2>4. which \in Contexts /\ DOMAIN datasets' = Contexts
        /\ \A c \in Contexts : datasets'[c] = IF c = which THEN Over(fresh, datasets[c]) ELSE datasets[c]
    BY <1>4, <2>3 DEF IInv, Placed
  <2>5. DOMAIN fresh = {Path(Source, t)} /\ fresh[Path(Source, t)] = entry
    BY <2>2
  <2>6. PICK over : over = Over(fresh, datasets[which])
    OBVIOUS
  <2>7. /\ DOMAIN over = {Path(Source, t)} \cup DOMAIN datasets[which]
        /\ \A k \in DOMAIN over : over[k] = IF k = Path(Source, t) THEN entry ELSE datasets[which][k]
    <3>1. /\ DOMAIN over = DOMAIN fresh \cup DOMAIN datasets[which]
          /\ \A k \in DOMAIN over : over[k] = IF k \in DOMAIN fresh THEN fresh[k] ELSE datasets[which][k]
      BY <2>6 DEF Over
    <3> QED BY <2>5, <3>1
  <2>8. \A c \in Contexts : datasets'[c] = IF c = which THEN over ELSE datasets[c]
    BY <2>4, <2>6
  <2>9. \A c \in Contexts : \A p \in DOMAIN tables'[c] : Searched(c, p)'
    <3> SUFFICES ASSUME NEW c \in Contexts, NEW p \in DOMAIN tables[c] PROVE Searched(c, p)'
      BY <1>1
    <3>1. Searched(c, p)
      BY <1>4
    <3>2. DOMAIN datasets[c] \subseteq DOMAIN datasets'[c]
      BY <2>7, <2>8
    <3> QED BY <1>1, <3>1, <3>2 DEF Searched, Sources
  <2>10. Findable'
    <3> SUFFICES ASSUME NEW u \in built'
                 PROVE  /\ Path(Source, u) \in DOMAIN datasets'[which]
                        /\ datasets'[which][Path(Source, u)].source = at
                        /\ datasets'[which][Path(Source, u)].reads = Reference(Source, u)
      BY <1>1, <1>2, <1>3 DEF Findable
    <3>1. CASE u = t
      BY <2>1, <2>4, <2>7, <2>8, <3>1
    <3>2. CASE u # t
      <4>1. Admissible(at, t) /\ Admissible(at, u)
        BY <1>1, <3>2 DEF RegistryInv, Gathered
      <4>2. Path(Source, u) # Path(Source, t)
        BY <3>2, <4>1, TableOfPath DEF Source
      <4>3. u \in built
        BY <1>1, <3>2
      <4> QED BY <1>1, <1>4, <1>6, <2>4, <2>7, <2>8, <4>2, <4>3 DEF Findable
    <3> QED BY <3>1, <3>2
  <2>11. ASSUME NEW c \in Contexts, NEW k \in DOMAIN datasets'[c] PROVE Agrees(c, k)'
    <3>1. CASE c = which /\ k = Path(Source, t)
      <4>1. datasets'[c][k] = entry /\ t \in built'
        BY <1>1, <2>7, <2>8, <3>1
      <4> QED BY <1>1, <1>2, <1>3, <2>1, <3>1, <4>1 DEF Agrees
    <3>2. CASE ~(c = which /\ k = Path(Source, t))
      <4>1. k \in DOMAIN datasets[c] /\ datasets'[c][k] = datasets[c][k]
        BY <2>7, <2>8, <3>2
      <4>2. Agrees(c, k)
        BY <1>4, <4>1
      <4> QED BY <1>1, <1>2, <1>3, <4>1, <4>2 DEF Agrees
    <3> QED BY <3>1, <3>2
  <2> QED BY <2>4, <2>9, <2>10, <2>11 DEF SearchInv
<1> QED BY <1>5, <1>6

\* A path of the source at hand is not one of a table that is registered already.
LEMMA NotRegistered ==
    ASSUME IInv, RegistryInv, pc = "sources", at <= Len(Sources), NEW t,
           Path(Source, t) \in DOMAIN tables[which]
    PROVE  tables[which][Path(Source, t)].source = 0
<1>1. at \in DOMAIN Sources /\ EntryOf(which, Path(Source, t)) /\ SoleNames
  BY AtHand DEF RegistryInv, Entries, IInv, Placed
<1>2. PICK n : n = tables[which][Path(Source, t)].source
  OBVIOUS
<1>3. n = 0 \/ (Through(which, n) /\ Path(Source, t) = Path(Sources[n], TableAt(n, Path(Source, t))))
  BY <1>1, <1>2 DEF EntryOf
<1>4. CASE Through(which, n) /\ Path(Source, t) = Path(Sources[n], TableAt(n, Path(Source, t)))
  <2>1. n \in DOMAIN Sources /\ n < at
    BY <1>4 DEF Through
  <2>2. Source = Sources[at]
    BY DEF Source
  <2>3. n = at
    BY <1>1, <1>4, <2>1, <2>2, PathsApart
  <2> QED BY <1>1, <2>1, <2>3, ServerAssumption DEF IInv, Placed
<1> QED BY <1>2, <1>3, <1>4

LEMMA InstallSearch == IInv /\ RegistryInv /\ SearchInv /\ Install => SearchInv'
<1> SUFFICES ASSUME IInv, RegistryInv, SearchInv, Install PROVE SearchInv'
  OBVIOUS
<1>1. /\ at \in DOMAIN Sources /\ at <= Len(Sources) /\ pc = "sources" /\ built' = {}
      /\ UNCHANGED <<config, which, datasets>>
      /\ tables' = [tables EXCEPT ![which] = Over(Installed, @)]
  BY Installing
<1>2. /\ DOMAIN datasets = Contexts /\ Findable
      /\ \A c \in Contexts : \A k \in DOMAIN datasets[c] : Agrees(c, k)
      /\ \A c \in Contexts : \A p \in DOMAIN tables[c] : Searched(c, p)
  BY <1>1 DEF SearchInv
<1>3. Registering("build")
  BY DEF Install
<1>4. at # 0
  BY DEF IInv, Placed
<1>5. Findable'
  BY <1>1 DEF Findable
<1>6. ASSUME NEW c \in Contexts, NEW k \in DOMAIN datasets'[c] PROVE Agrees(c, k)'
  <2>1. Agrees(c, k)
    BY <1>1, <1>2, <1>6
  <2>2. CASE c = which /\ k \in DOMAIN Installed
    <3>1. k \in DOMAIN tables'[c] /\ tables'[c][k] = Installed[k]
      <4>1. k \in DOMAIN tables'[c]
        BY <1>1, <2>2, ExtendedDomain DEF IInv
      <4>2. tables'[which] = Over(Installed, tables[which])
        BY <1>1, <4>1 DEF IInv, Placed
      <4> QED BY <2>2, <4>1, <4>2 DEF Over
    <3>2. /\ k = Path(Source, TableAt(at, k)) /\ TableAt(at, k) \in built
          /\ Installed[k].source = at /\ Installed[k].reads = Reference(Source, TableAt(at, k))
      BY <2>2, InstalledEntry
    <3>3. ~(k \in DOMAIN tables[c] /\ tables[c][k].source # 0)
      BY <1>1, <2>2, <3>2, NotRegistered
    <3>4. PICK t \in built : k = Path(Source, t) /\ datasets[c][k].source = at
                             /\ datasets[c][k].reads = Reference(Source, t)
      BY <2>1, <3>3 DEF Agrees
    <3>5. t = TableAt(at, k)
      <4>1. Admissible(at, t)
        BY <1>1 DEF RegistryInv, Gathered
      <4> QED BY <3>4, <4>1, TableOfPath DEF Source
    <3> QED BY <1>1, <1>4, <3>1, <3>2, <3>4, <3>5 DEF Agrees
  <2>3. CASE ~(c = which /\ k \in DOMAIN Installed)
    <3>1. k \in DOMAIN tables[c]
      BY <2>1, <2>3 DEF Agrees, Installed
    <3>2. k \in DOMAIN tables'[c]
      BY <1>1, <3>1, ExtendedDomain DEF IInv
    <3>3. tables'[c][k] = tables[c][k]
      BY <1>1, <2>3, <3>2, ExtendedOld
    <3>4. tables[c][k].source # 0 /\ tables[c][k].source = datasets[c][k].source
          /\ tables[c][k].reads = datasets[c][k].reads
      BY <2>1, <2>3 DEF Agrees, Installed
    <3> QED BY <1>1, <3>2, <3>3, <3>4 DEF Agrees
  <2> QED BY <2>2, <2>3
<1>7. ASSUME NEW c \in Contexts, NEW p \in DOMAIN tables'[c] PROVE Searched(c, p)'
  <2>1. CASE c = which /\ p \in DOMAIN Installed
    <3>1. tables'[c][p] = Installed[p]
      <4>1. tables'[which] = Over(Installed, tables[which])
        BY <1>1, <1>7 DEF IInv, Placed
      <4> QED BY <2>1, <4>1 DEF Over
    <3>2. /\ p = Path(Source, TableAt(at, p)) /\ TableAt(at, p) \in built
          /\ Installed[p].source = at
      BY <2>1, InstalledEntry
    <3>3. Source.kind \in SearchableKinds => p \in DOMAIN datasets[c]
      BY <1>2, <1>3, <2>1, <3>2 DEF Findable
    <3> QED BY <1>1, <3>1, <3>2, <3>3 DEF Searched, Source, Sources
  <2>2. CASE ~(c = which /\ p \in DOMAIN Installed)
    <3>1. p \in DOMAIN tables[c] /\ tables'[c][p] = tables[c][p]
      BY <1>1, <1>7, <2>2, ExtendedOld
    <3>2. Searched(c, p)
      BY <1>2, <3>1
    <3> QED BY <1>1, <3>1, <3>2 DEF Searched, Sources
  <2> QED BY <2>1, <2>2
<1> QED BY <1>1, <1>2, <1>5, <1>6, <1>7 DEF SearchInv

\* The tables of the authentication are under names of their own.
LEMMA BuildAuthSearch == IInv /\ RegistryInv /\ SearchInv /\ BuildAuth => SearchInv'
<1> SUFFICES ASSUME IInv, RegistryInv, SearchInv, BuildAuth, pc' # "failed" PROVE SearchInv'
  BY DEF SearchInv, BuildAuth
<1> DEFINE fresh == [p \in {<<"auth", "users">>, <<"auth", "sessions">>} |->
                        [source |-> 0, reads |-> p, write |-> FALSE, cached |-> FALSE]]
<1>1. /\ pc = "auth" /\ pc' \in {"validate", "store"}
      /\ UNCHANGED <<config, which, datasets>>
      /\ tables' = tables \/ tables' = [tables EXCEPT ![which] = Over(fresh, @)]
  BY DEF BuildAuth, Moved, Failed, Outside
<1>2. ~Registering("build") /\ ~Registering("build")'
  BY <1>1 DEF Registering
<1>3. CASE tables' = tables
  BY <1>1, <1>2, <1>3, SearchAside
<1>4. CASE tables' = [tables EXCEPT ![which] = Over(fresh, @)]
  <2>1. /\ DOMAIN datasets = Contexts
        /\ \A c \in Contexts : \A k \in DOMAIN datasets[c] : Agrees(c, k)
        /\ \A c \in Contexts : \A p \in DOMAIN tables[c] : Searched(c, p)
    BY <1>1 DEF SearchInv
  <2>2. Findable'
    BY <1>2 DEF Findable
  <2>3. ASSUME NEW c \in Contexts, NEW k \in DOMAIN datasets'[c] PROVE Agrees(c, k)'
    <3>1. /\ k \in DOMAIN tables[c] /\ tables[c][k].source # 0
          /\ tables[c][k].source = datasets[c][k].source /\ tables[c][k].reads = datasets[c][k].reads
      BY <1>1, <1>2, <2>1, <2>3 DEF Agrees
    <3>2. EntryOf(c, k)
      BY <1>1, <3>1 DEF RegistryInv, Entries
    <3>3. \E s, t : k = Path(s, t)
      BY <3>1, <3>2 DEF EntryOf
    <3>4. k \notin DOMAIN fresh
      BY <3>3 DEF Path
    <3>5. k \in DOMAIN tables'[c]
      BY <1>4, <3>1, ExtendedDomain DEF IInv
    <3>6. tables'[c][k] = tables[c][k]
      BY <1>4, <3>4, <3>5, ExtendedOld
    <3> QED BY <1>1, <3>1, <3>5, <3>6 DEF Agrees
  <2>4. ASSUME NEW c \in Contexts, NEW p \in DOMAIN tables'[c] PROVE Searched(c, p)'
    <3>1. CASE c = which /\ p \in DOMAIN fresh
      <4>1. tables'[c][p] = fresh[p]
        <5>1. tables'[which] = Over(fresh, tables[which])
          BY <1>4, <2>4 DEF IInv, Placed
        <5> QED BY <3>1, <5>1 DEF Over
      <4> QED BY <3>1, <4>1 DEF Searched
    <3>2. CASE ~(c = which /\ p \in DOMAIN fresh)
      <4>1. p \in DOMAIN tables[c] /\ tables'[c][p] = tables[c][p]
        BY <1>4, <2>4, <3>2, ExtendedOld
      <4>2. Searched(c, p)
        BY <2>1, <4>1
      <4> QED BY <1>1, <4>1, <4>2 DEF Searched, Sources
    <3> QED BY <3>1, <3>2
  <2> QED BY <1>1, <2>1, <2>2, <2>3, <2>4 DEF SearchInv
<1> QED BY <1>1, <1>3, <1>4

LEMMA RegisterSearch == IInv /\ RegistryInv /\ SearchInv /\ Register => SearchInv'
<1> SUFFICES ASSUME IInv, RegistryInv, SearchInv, Register PROVE SearchInv'
  OBVIOUS
<1>1. pc = "sources" /\ pc # "failed" /\ Gathered
  BY DEF Register, SkipLance, List, Install, SourcesDone, Connect, AttemptFails, StartBuild,
     FinishBuild, BuildFails, Registering, RegistryInv
<1>2. ~Registering("build") => built = {}
  BY <1>1 DEF Gathered, Registering
<1>3. CASE SkipLance
  <2>1. UNCHANGED <<config, tables, datasets, built>> /\ built = {}
    BY <1>3 DEF SkipLance, Kept, Outside
  <2> QED BY <1>1, <2>1, SearchAside
<1>4. CASE List \/ \E op \in {"connect", "pool", "open"} : Connect(op)
  <2>1. UNCHANGED <<config, tables, datasets, built>> /\ ~Registering("build")
    BY <1>4 DEF List, Connect, NextStep, Kept, Outside, Registering
  <2> QED BY <1>1, <1>2, <2>1, SearchAside
<1>5. CASE Install
  BY <1>5, InstallSearch
<1>6. CASE SourcesDone
  <2>1. UNCHANGED <<config, tables, datasets>> /\ built' = {} /\ ~Registering("build")
    BY <1>6 DEF SourcesDone, Moved, Kept, Outside, Registering, IInv, Placed
  <2> QED BY <1>1, <2>1, SearchAside
<1>7. ASSUME NEW op, AttemptFails(op) PROVE SearchInv'
  <2>1. UNCHANGED <<config, which, tables, datasets, at, step, built>>
        /\ pc' \in {pc, "failed"}
    BY <1>7 DEF AttemptFails, Failed, Kept, Outside, progress
  <2> QED BY <1>1, <2>1, SearchAside DEF SearchInv
<1>8. ASSUME NEW t, StartBuild(t) \/ BuildFails(t) PROVE SearchInv'
  <2>1. UNCHANGED <<config, which, tables, datasets, at, step, built>>
        /\ pc' \in {pc, "failed"}
    BY <1>8 DEF StartBuild, BuildFails, Failed, Kept, Outside, progress
  <2> QED BY <1>1, <2>1, SearchAside DEF SearchInv
<1> QED BY <1>3, <1>4, <1>5, <1>6, <1>7, <1>8, FinishBuildSearch DEF Register

LEMMA NextSearch == IInv /\ NamesInv /\ RegistryInv /\ SearchInv /\ [Next]_vars => SearchInv'
<1> SUFFICES ASSUME IInv, NamesInv, RegistryInv, SearchInv, [Next]_vars PROVE SearchInv'
  OBVIOUS
<1>1. CASE ~Startup
  <2>1. UNCHANGED <<config, which, pc, tables, datasets, at, step, built>>
    BY <1>1, OthersLeave DEF Startings, progress
  <2>2. CASE pc = "failed"
    BY <2>1, <2>2 DEF SearchInv
  <2>3. CASE pc # "failed"
    BY <2>1, <2>3, SearchAside
  <2> QED BY <2>2, <2>3
<1>2. CASE LoadContext \/ ValidatePipelines \/ PipelinesDone \/ JobsDone \/ OpenStore \/ Bind
  <2>1. /\ UNCHANGED <<config, tables, datasets>> /\ pc # "sources" /\ pc # "failed"
        /\ pc' = "sources" => built' = {}
    BY <1>2 DEF LoadContext, ValidatePipelines, PipelinesDone, JobsDone, OpenStore, Bind, Moved,
       Failed, Kept, Outside
  <2> QED BY <2>1, SearchAside DEF Registering
<1>3. CASE LoadPipeline \/ LoadJob
  <2>1. UNCHANGED <<config, tables, datasets>> /\ pc \in {"pipelines", "jobs"} /\ pc' # "sources"
    BY <1>3 DEF LoadPipeline, LoadJob, Advance, Failed, Outside
  <2> QED BY <2>1, SearchAside DEF Registering
<1>4. CASE LoadSemantics
  <2>1. /\ UNCHANGED <<config, tables, datasets>> /\ pc = "semantics"
        /\ pc' = "sources" => built' = {}
    BY <1>4 DEF LoadSemantics, Moved, Failed, Outside
  <2> QED BY <2>1, SearchAside DEF Registering
<1> QED BY <1>1, <1>2, <1>3, <1>4, RegisterSearch, BuildAuthSearch DEF Startup

LEMMA InitSearch == Began => SearchInv
<1> SUFFICES ASSUME Began PROVE SearchInv
  OBVIOUS
<1>1. /\ datasets = [c \in Contexts |-> <<>>] /\ tables = [c \in Contexts |-> <<>>]
      /\ pc \in {"context", "failed"}
  BY DEF Began, Blank
<1>2. \A c \in Contexts : DOMAIN datasets[c] = {} /\ DOMAIN tables[c] = {}
  BY <1>1
<1> QED BY <1>1, <1>2 DEF SearchInv, Findable, Registering

LEMMA SearchedServing == RegistryInv /\ SearchInv => SearchableIsQueryable
<1> SUFFICES ASSUME RegistryInv, SearchInv, Serving PROVE SearchableIsQueryable
  BY DEF SearchableIsQueryable
<1>1. ~Registering("build") /\ pc # "failed"
  BY DEF Serving, Registering
<1>2. \A c \in Contexts : \A k \in DOMAIN datasets[c] : Agrees(c, k)
  BY <1>1 DEF SearchInv
<1>3. \A c \in Contexts : \A p \in DOMAIN tables[c] : Searched(c, p)
  BY <1>1 DEF SearchInv
<1> QED BY <1>1, <1>2, <1>3 DEF SearchableIsQueryable, Agrees, Searched

\* What the search functions find is a table of that name that reads the same, and they find
\* every table that can be searched, whatever the sources are and however the builds of their
\* tables were interleaved with one another, with failures and with the changes upstream.
THEOREM SearchFindsTables == Spec => []SearchableIsQueryable
<1>1. Spec => [](IInv /\ NamesInv)
  BY InitBegan, InitIInv, NextIInv, InitNames, NextNames, PTL DEF Spec
<1>2. Spec => [](RegistryInv /\ SearchInv)
  BY <1>1, InitBegan, InitRegistry, NextRegistry, InitSearch, NextSearch, PTL DEF Spec
<1> QED BY <1>2, SearchedServing, PTL

-----------------------------------------------------------------------------
(* What was planned is served.                                              *)

\* A table that was there at the start, or that was planned with, is there unless it was
\* dropped; without a catalog, it is registered unseen.
LEMMA ExpectedThere ==
    ASSUME IInv, RegistryInv, Undropped, pc # "failed", NEW n \in DOMAIN Sources,
           NEW t \in Expected(n), <<n, t>> \notin dropped
    PROVE  Admissible(n, t) /\ (t \in upstream[n] \/ Unasked(n))
<1>1. Admissible(n, t)
  BY DEF Expected
<1>2. CASE t \in config.upstream[n]
  BY <1>1, <1>2 DEF Undropped
<1>3. CASE t \notin config.upstream[n]
  <2>1. PICK p \in DOMAIN tables["planning"] : tables["planning"][p].source = n /\ t = TableAt(n, p)
    BY <1>3 DEF Expected
  <2>2. n # 0 /\ EntryOf("planning", p)
    BY ServerAssumption DEF IInv, Placed, Sources, RegistryInv, Entries
  <2>3. Present(n, t)
    BY <2>1, <2>2 DEF EntryOf
  <2> QED BY <1>1, <2>3 DEF Present
<1> QED BY <1>2, <1>3

\* The names of a context are kept.
NamesKept == \A c \in Contexts : DOMAIN tables[c] \subseteq DOMAIN tables'[c]

LEMMA LoadedKept ==
    ASSUME LoadedPlanned, NamesKept, UNCHANGED loaded
    PROVE  LoadedPlanned'
<1> SUFFICES ASSUME NEW n \in DOMAIN loaded,
                    loaded[n].query.verb \notin {"insert", "update", "delete"}
             PROVE  Known("planning", loaded[n].query.reads)'
  BY DEF LoadedPlanned
<1>1. Known("planning", loaded[n].query.reads)
  BY DEF LoadedPlanned
<1>2. \A r : Canonical(r)' = Canonical(r)
  BY DEF Canonical
<1> QED BY <1>1, <1>2 DEF Known, NamesKept

\* What is awaited stays so in a step that registers nothing for serving and lists nothing.
LEMMA AwaitedKept ==
    ASSUME NEW n \in DOMAIN Sources, NEW t, Awaited(n, t), NamesKept, UNCHANGED config,
           dropped \subseteq dropped', Through("runtime", n)' => Through("runtime", n),
           n = at' /\ Registering("build")' /\ IsCatalog(Sources[n]) =>
               at' = at /\ Registering("build") /\ listing' = listing
    PROVE  Awaited(n, t)'
<1>1. Path(Sources[n], t)' = Path(Sources[n], t) /\ IsCatalog(Sources[n])' = IsCatalog(Sources[n])
  BY DEF Path, IsCatalog, Sources
<1> SUFFICES ASSUME <<n, t>> \notin dropped'
             PROVE  /\ Through("runtime", n)' => Path(Sources[n], t) \in DOMAIN tables'["runtime"]
                    /\ n = at' /\ Registering("build")' /\ IsCatalog(Sources[n]) => t \in listing'
  BY <1>1 DEF Awaited
<1>2. <<n, t>> \notin dropped
  OBVIOUS
<1> QED BY <1>2 DEF Awaited, NamesKept

\* When a source is taken up, none of its tables is about to be built if it is a catalog.
LEMMA NotBuilding ==
    ASSUME step' = 1, UNCHANGED config, IsCatalog(Source')
    PROVE  ~Registering("build")'
<1>1. Steps(Source')[1] # "build"
  BY StepFirst
<1>2. Steps(Source)' = Steps(Source')
  BY DEF Steps, IsCatalog, PostgresSteps, MySqlSteps, SeekDbSteps, SqliteSteps
<1> QED BY <1>1, <1>2 DEF Registering

\* Which steps leave what the contexts and the pipelines hold.
LEMMA StartupNamesKept == IInv /\ Startup => NamesKept
<1> SUFFICES ASSUME IInv, Startup PROVE NamesKept
  OBVIOUS
<1>1. CASE Install
  BY <1>1, Installing, ExtendedDomain DEF NamesKept, IInv
<1>2. CASE BuildAuth
  <2> DEFINE fresh == [p \in {<<"auth", "users">>, <<"auth", "sessions">>} |->
                          [source |-> 0, reads |-> p, write |-> FALSE, cached |-> FALSE]]
  <2>1. tables' = tables \/ tables' = [tables EXCEPT ![which] = Over(fresh, @)]
    BY <1>2 DEF BuildAuth
  <2>2. CASE tables' = tables
    BY <2>2 DEF NamesKept
  <2>3. CASE tables' = [tables EXCEPT ![which] = Over(fresh, @)]
    <3> HIDE DEF fresh
    <3> QED BY <2>3, ExtendedDomain DEF NamesKept, IInv
  <2> QED BY <2>1, <2>2, <2>3
<1>3. CASE Register /\ ~Install
  <2>1. tables' = tables
    BY <1>3 DEF Register, SkipLance, List, SourcesDone, Connect, AttemptFails, StartBuild, FinishBuild,
       BuildFails, Kept
  <2> QED BY <2>1 DEF NamesKept
<1>4. CASE ~Register /\ ~BuildAuth
  <2>1. tables' = tables
    BY <1>4 DEF Startup, LoadContext, ValidatePipelines, LoadPipeline, PipelinesDone, LoadJob, JobsDone,
       LoadSemantics, OpenStore, Bind, Kept
  <2> QED BY <2>1 DEF NamesKept
<1> QED BY <1>1, <1>2, <1>3, <1>4

LEMMA StartupOutside == Startup => UNCHANGED <<config, upstream, dropped, request>>
<1> USE DEF Kept, Outside
<1>1. Register => UNCHANGED <<config, upstream, dropped, request>>
  BY DEF Register, SkipLance, List, Install, SourcesDone, Connect, AttemptFails, StartBuild,
     FinishBuild, BuildFails
<1>2. LoadPipeline \/ LoadJob => UNCHANGED <<config, upstream, dropped, request>>
  BY DEF LoadPipeline, LoadJob
<1>3. BuildAuth \/ LoadSemantics => UNCHANGED <<config, upstream, dropped, request>>
  BY DEF BuildAuth, LoadSemantics
<1> QED
  BY <1>1, <1>2, <1>3 DEF Startup, LoadContext, ValidatePipelines, PipelinesDone, JobsDone,
     OpenStore, Bind

\* A pipeline is loaded when what it reads is known for planning.
LEMMA StartupPlanned == IInv /\ LoadedPlanned /\ Startup => LoadedPlanned'
<1> SUFFICES ASSUME IInv, LoadedPlanned, Startup PROVE LoadedPlanned'
  OBVIOUS
<1>1. NamesKept
  BY StartupNamesKept
<1>2. CASE UNCHANGED loaded
  BY <1>1, <1>2, LoadedKept
<1>3. CASE LoadPipeline
  <2>1. PICK file : file = config.files[at]
    OBVIOUS
  <2>2. PICK entry : entry = [query |-> file.query, columns |-> InferredColumns(file.query)]
    OBVIOUS
  <2>3. CASE loaded' = loaded
    BY <1>2, <2>3
  <2>4. CASE loaded' # loaded
    <3>1. loaded' = Over([n \in {file.name} |-> entry], loaded) /\ Plannable(file.query)
          /\ UNCHANGED tables
      BY <1>3, <2>1, <2>2, <2>4 DEF LoadPipeline
    <3> SUFFICES ASSUME NEW n \in DOMAIN loaded',
                        loaded'[n].query.verb \notin {"insert", "update", "delete"}
                 PROVE  \A r \in loaded'[n].query.reads : Canonical(r) \in DOMAIN tables'["planning"]
      <4>1. \A r : Canonical(r)' = Canonical(r)
        BY DEF Canonical
      <4> QED BY <4>1 DEF LoadedPlanned, Known
    <3>2. CASE n = file.name
      <4>1. loaded'[n] = entry
        BY <3>1, <3>2 DEF Over
      <4>2. loaded'[n].query = file.query
        BY <2>2, <4>1
      <4>3. Known("planning", file.query.reads)
        BY <3>1, <4>2 DEF Plannable
      <4> QED BY <3>1, <4>2, <4>3 DEF Known
    <3>3. CASE n # file.name
      <4>1. n \in DOMAIN loaded /\ loaded'[n] = loaded[n]
        BY <3>1, <3>3 DEF Over
      <4>2. Known("planning", loaded[n].query.reads)
        BY <4>1 DEF LoadedPlanned
      <4> QED BY <3>1, <4>1, <4>2 DEF Known
    <3> QED BY <3>2, <3>3
  <2> QED BY <2>3, <2>4
<1>4. CASE Register
  <2>1. UNCHANGED loaded
    BY <1>4 DEF Register, SkipLance, List, Install, SourcesDone, Connect, AttemptFails, StartBuild,
       FinishBuild, BuildFails, Kept
  <2> QED BY <1>2, <2>1
<1>5. CASE ~Register /\ ~LoadPipeline
  <2>1. UNCHANGED loaded
    BY <1>5 DEF Startup, LoadContext, BuildAuth, ValidatePipelines, PipelinesDone, LoadJob, JobsDone,
       LoadSemantics, OpenStore, Bind, Kept
  <2> QED BY <1>2, <2>1
<1> QED BY <1>3, <1>4, <1>5

\* What is awaited in the registration for serving, source by source.
PromisesKept ==
    \A n \in DOMAIN Sources : \A t \in Expected(n) : Awaited(n, t) => Awaited(n, t)'

LEMMA SkipLancePromises ==
    ASSUME IInv, RegistryInv, Undropped, which = "runtime", SkipLance
    PROVE  PromisesKept
<1> SUFFICES ASSUME NEW n \in DOMAIN Sources, NEW t \in Expected(n), Awaited(n, t)
             PROVE  Awaited(n, t)'
  BY DEF PromisesKept
<1>1. /\ pc = "sources" /\ pc' = "sources" /\ at <= Len(Sources) /\ at' = at + 1 /\ step' = step
      /\ UNCHANGED <<config, upstream, dropped, tables, which>>
      /\ Source.kind = "lance" /\ Source.table \notin upstream[at]
  BY DEF SkipLance, Registering, Kept, Outside
<1>2. step = 1 /\ ~IsCatalog(Source)
  <2>1. Steps(Source) = <<"build">> /\ ~IsCatalog(Source)
    BY <1>1 DEF Steps, IsCatalog, CatalogKinds
  <2> QED BY <1>1, <2>1 DEF RegistryInv, Gathered
<1>3. n = at => <<n, t>> \in dropped
  BY <1>1, <1>2, ExpectedThere DEF Admissible, Unasked, Source
<1>4. n = at' /\ IsCatalog(Sources[n]) => ~Registering("build")'
  <2>1. Source' = Sources[at'] /\ step' = 1
    BY <1>1, <1>2 DEF Source, Sources
  <2> QED BY <1>1, <2>1, NotBuilding
<1>5. CASE n = at
  <2>1. <<n, t>> \in dropped'
    BY <1>1, <1>3, <1>5
  <2> QED BY <2>1 DEF Awaited
<1>6. CASE n # at
  <2>1. n < at' => n < at
    BY <1>1, <1>6, ServerAssumption DEF IInv, Placed, Sources
  <2>2. Through("runtime", n)' => Through("runtime", n)
    BY <1>1, <2>1 DEF Through, Sources
  <2> QED BY <1>1, <1>4, <2>2, AwaitedKept DEF NamesKept
<1> QED BY <1>5, <1>6

LEMMA ListPromises ==
    ASSUME IInv, RegistryInv, Undropped, which = "runtime", List
    PROVE  PromisesKept
<1> SUFFICES ASSUME NEW n \in DOMAIN Sources, NEW t \in Expected(n), Awaited(n, t)
             PROVE  Awaited(n, t)'
  BY DEF PromisesKept
<1>1. /\ pc = "sources" /\ pc' = "sources" /\ at' = at
      /\ UNCHANGED <<config, upstream, dropped, tables, which>>
      /\ listing' = {u \in upstream[at] : u[1] \in Source.allowed}
  BY DEF List, Registering, NextStep, Kept, Outside
<1>2. Through("runtime", n)' => Through("runtime", n)
  BY <1>1 DEF Through, Sources
<1>3. CASE n # at
  BY <1>1, <1>2, <1>3, AwaitedKept DEF NamesKept
<1>4. CASE n = at
  <2>1. IsCatalog(Sources[n]) /\ <<n, t>> \notin dropped => t \in listing'
    BY <1>1, <1>4, ExpectedThere DEF Admissible, Unasked, Source
  <2>2. Path(Sources[n], t)' = Path(Sources[n], t) /\ IsCatalog(Sources[n])' = IsCatalog(Sources[n])
    BY <1>1 DEF Path, IsCatalog, Sources
  <2> QED BY <1>1, <1>2, <2>1, <2>2 DEF Awaited
<1> QED BY <1>3, <1>4

LEMMA InstallPromises ==
    ASSUME IInv, RegistryInv, Undropped, which = "runtime", Install
    PROVE  PromisesKept
<1> SUFFICES ASSUME NEW n \in DOMAIN Sources, NEW t \in Expected(n), Awaited(n, t)
             PROVE  Awaited(n, t)'
  BY DEF PromisesKept
<1>1. /\ at \in DOMAIN Sources /\ at <= Len(Sources) /\ pc = "sources" /\ pc' = "sources"
      /\ at' = at + 1 /\ step' = 1 /\ built = Wanted
      /\ UNCHANGED <<config, upstream, dropped, which>>
      /\ tables' = [tables EXCEPT ![which] = Over(Installed, @)]
  BY Installing
<1>2. NamesKept /\ DOMAIN tables'["runtime"] = DOMAIN tables["runtime"] \cup DOMAIN Installed
  BY <1>1, ExtendedDomain DEF NamesKept, IInv
<1>3. n = at' /\ IsCatalog(Sources[n]) => ~Registering("build")'
  <2>1. Source' = Sources[at']
    BY <1>1 DEF Source, Sources
  <2> QED BY <1>1, <2>1, NotBuilding
<1>4. CASE n # at
  <2>1. n < at' => n < at
    BY <1>1, <1>4, ServerAssumption DEF IInv, Placed, Sources
  <2>2. Through("runtime", n)' => Through("runtime", n)
    BY <1>1, <2>1 DEF Through, Sources
  <2> QED BY <1>1, <1>2, <1>3, <2>2, AwaitedKept
<1>5. CASE n = at
  <2>1. <<n, t>> \notin dropped => t \in built
    <3>1. CASE IsCatalog(Source)
      <4>1. Registering("build")
        BY DEF Install
      <4>2. <<n, t>> \notin dropped => t \in listing
        BY <1>5, <3>1, <4>1 DEF Awaited, Source
      <4> QED BY <1>1, <3>1, <4>2 DEF Wanted
    <3>2. CASE ~IsCatalog(Source)
      <4>1. Admissible(n, t)
        BY DEF Expected
      <4> QED BY <1>1, <1>5, <3>2, <4>1 DEF Wanted, Admissible, Source
    <3> QED BY <3>1, <3>2
  <2>2. <<n, t>> \notin dropped => Path(Sources[n], t) \in DOMAIN tables'["runtime"]
    BY <1>2, <1>5, <2>1 DEF Installed, Source
  <2>3. Path(Sources[n], t)' = Path(Sources[n], t) /\ IsCatalog(Sources[n])' = IsCatalog(Sources[n])
    BY <1>1 DEF Path, IsCatalog, Sources
  <2> QED BY <1>1, <1>3, <2>2, <2>3 DEF Awaited
<1> QED BY <1>4, <1>5

\* A source is connected, tried again or built.
LEMMA OtherPromises ==
    ASSUME IInv, RegistryInv, which = "runtime", pc' # "failed",
           Register, ~SkipLance, ~List, ~Install
    PROVE  PromisesKept
<1> SUFFICES ASSUME NEW n \in DOMAIN Sources, NEW t \in Expected(n), Awaited(n, t)
             PROVE  Awaited(n, t)'
  BY DEF PromisesKept
<1>1. CASE SourcesDone
  <2>1. /\ pc = "sources" /\ pc' = "auth" /\ at > Len(Sources)
        /\ UNCHANGED <<config, dropped, tables, which>>
    BY <1>1 DEF SourcesDone, Moved, Kept, Outside
  <2>2. Through("runtime", n)' => Through("runtime", n)
    BY <2>1, ServerAssumption DEF Through, Sources, IInv, Placed
  <2>3. ~Registering("build")'
    BY <2>1 DEF Registering
  <2> QED BY <2>1, <2>2, <2>3, AwaitedKept DEF NamesKept
<1>2. ASSUME NEW op \in {"connect", "pool", "open"}, Connect(op) PROVE Awaited(n, t)'
  <2>1. /\ pc = "sources" /\ pc' = "sources" /\ at <= Len(Sources) /\ at' = at /\ step' = step + 1
        /\ Steps(Source)[step] = op /\ step \in DOMAIN Steps(Source)
        /\ UNCHANGED <<config, dropped, tables, which>>
    BY <1>2 DEF Connect, Registering, NextStep, Kept, Outside, RegistryInv, Gathered
  <2>2. Through("runtime", n)' => Through("runtime", n)
    BY <2>1 DEF Through, Sources
  <2>3. IsCatalog(Source) => Steps(Source)[step + 1] # "build"
    BY <2>1, StepAfter
  <2>4. Steps(Source)' = Steps(Source)
    BY <2>1 DEF Source, Sources, Steps, IsCatalog, PostgresSteps, MySqlSteps, SeekDbSteps, SqliteSteps
  <2>5. n = at' /\ IsCatalog(Sources[n]) => ~Registering("build")'
    BY <2>1, <2>3, <2>4 DEF Registering, Source
  <2> QED BY <2>1, <2>2, <2>5, AwaitedKept DEF NamesKept
<1>3. CASE \/ \E op \in {"connect", "pool", "open", "list"} : AttemptFails(op)
           \/ \E u \in Wanted : StartBuild(u) \/ FinishBuild(u) \/ BuildFails(u)
  <2>1. /\ pc = "sources" /\ pc' = "sources" /\ at' = at /\ step' = step /\ listing' = listing
        /\ UNCHANGED <<config, dropped, tables, which>>
    BY <1>3 DEF AttemptFails, StartBuild, FinishBuild, BuildFails, Registering, Failed, Kept, Outside
  <2>2. Through("runtime", n)' => Through("runtime", n)
    BY <2>1 DEF Through, Sources
  <2>3. Registering("build")' => Registering("build")
    BY <2>1 DEF Registering, Source, Sources, Steps, IsCatalog, PostgresSteps, MySqlSteps, SeekDbSteps,
       SqliteSteps
  <2> QED BY <2>1, <2>2, <2>3, AwaitedKept DEF NamesKept
<1> QED BY <1>1, <1>2, <1>3 DEF Register

\* After the sources, and while they are served.
LEMMA LaterPromises ==
    ASSUME IInv, RegistryInv, which = "runtime", pc # "failed", pc' # "failed", Startup, ~Register
    PROVE  PromisesKept /\ which' = "runtime"
<1>1. pc \in {"auth", "store", "bind"} /\ (BuildAuth \/ OpenStore \/ Bind)
  BY DEF Startup, RegistryInv, Placement, LoadContext, ValidatePipelines, LoadPipeline, PipelinesDone,
     LoadJob, JobsDone, LoadSemantics, BuildAuth, OpenStore, Bind
<1>2. /\ pc' \in {"store", "bind", "serving"} /\ UNCHANGED <<config, dropped, which>>
  <2>1. CASE BuildAuth
    BY <2>1 DEF BuildAuth, Moved, Failed, Outside
  <2>2. CASE OpenStore \/ Bind
    BY <2>2 DEF OpenStore, Bind, Moved, Failed, Kept, Outside
  <2> QED BY <1>1, <2>1, <2>2
<1>3. ~Registering("build")'
  BY <1>2 DEF Registering
<1>4. \A n \in DOMAIN Sources : Through("runtime", n)' => Through("runtime", n)
  BY <1>1, <1>2 DEF Through, Sources
<1> QED BY <1>2, <1>3, <1>4, AwaitedKept, StartupNamesKept DEF PromisesKept

\* Serving begins to be prepared: nothing has been registered for it.
LEMMA SemanticsPromises ==
    ASSUME IInv, RegistryInv, LoadSemantics, which' = "runtime", pc' # "failed", pc # "failed"
    PROVE  \A n \in DOMAIN Sources : \A t : Awaited(n, t)'
<1>1. pc' = "sources" /\ at' = 1 /\ step' = 1 /\ UNCHANGED config
  BY DEF LoadSemantics, Moved, Failed, Outside
<1>2. \A n \in DOMAIN Sources : ~Through("runtime", n)'
  BY <1>1, ServerAssumption DEF Through, Sources, IInv, Placed
<1>3. \A n \in DOMAIN Sources : n = at' /\ IsCatalog(Sources[n])' => ~Registering("build")'
  <2>1. Source' = Sources[at']
    BY <1>1 DEF Source, Sources
  <2> QED BY <1>1, <2>1, NotBuilding DEF IsCatalog, Sources
<1> QED BY <1>2, <1>3 DEF Awaited

LEMMA StartupPromises ==
    ASSUME IInv, RegistryInv, PlannedInv, Startup, pc # "failed", pc' # "failed", which' = "runtime"
    PROVE  \A n \in DOMAIN Sources : \A t \in Expected(n)' : Awaited(n, t)'
<1>1. UNCHANGED config
  BY StartupOutside
<1>2. CASE which = "runtime"
  <2>1. PromisesKept
    <3>1. CASE Register
      BY <1>2, <3>1, SkipLancePromises, ListPromises, InstallPromises, OtherPromises DEF PlannedInv
    <3>2. CASE ~Register
      BY <1>2, <3>2, LaterPromises
    <3> QED BY <3>1, <3>2
  <2>2. tables'["planning"] = tables["planning"]
    <3>1. CASE Install
      BY <1>2, <3>1, Installing DEF IInv, Placed
    <3>2. CASE Register /\ ~Install
      BY <3>2 DEF Register, SkipLance, List, SourcesDone, Connect, AttemptFails, StartBuild, FinishBuild,
         BuildFails, Kept
    <3>3. CASE BuildAuth
      BY <1>2, <3>3 DEF BuildAuth, IInv, Placed
    <3>4. CASE ~Register /\ ~BuildAuth
      BY <3>4 DEF Startup, LoadContext, ValidatePipelines, LoadPipeline, PipelinesDone, LoadJob,
         JobsDone, LoadSemantics, OpenStore, Bind, Kept
    <3> QED BY <3>1, <3>2, <3>3, <3>4
  <2>3. \A n \in DOMAIN Sources : Expected(n)' = Expected(n)
    BY <1>1, <2>2 DEF Expected, TableAt, Admissible, Sources, IsCatalog
  <2> QED BY <1>2, <2>1, <2>3 DEF PlannedInv, PromisesKept
<1>3. CASE which # "runtime"
  <2>1. LoadSemantics
    <3>1. Register => UNCHANGED which
      BY DEF Register, SkipLance, List, Install, SourcesDone, Connect, AttemptFails, StartBuild,
         FinishBuild, BuildFails, Kept
    <3> QED
      BY <1>3, <3>1 DEF Startup, LoadContext, BuildAuth, ValidatePipelines, LoadPipeline, PipelinesDone,
         LoadJob, JobsDone, OpenStore, Bind, Kept
  <2> QED BY <2>1, SemanticsPromises
<1> QED BY <1>2, <1>3

LEMMA NextPlanned == IInv /\ NamesInv /\ RegistryInv /\ PlannedInv /\ [Next]_vars => PlannedInv'
<1> SUFFICES ASSUME IInv, NamesInv, RegistryInv, PlannedInv, [Next]_vars PROVE PlannedInv'
  OBVIOUS
<1>1. CASE Startup
  <2>1. UNCHANGED <<config, upstream, dropped>>
    BY <1>1, StartupOutside
  <2>2. Undropped'
    BY <2>1 DEF PlannedInv, Undropped, Sources
  <2>3. LoadedPlanned'
    BY <1>1, StartupPlanned DEF PlannedInv
  <2>4. pc # "failed"
    BY <1>1 DEF Startup, LoadContext, Register, SkipLance, List, Install, SourcesDone, Connect,
       AttemptFails, StartBuild, FinishBuild, BuildFails, Registering, BuildAuth, ValidatePipelines,
       LoadPipeline, PipelinesDone, LoadJob, JobsDone, LoadSemantics, OpenStore, Bind
  <2>5. DOMAIN Sources' = DOMAIN Sources
    BY <2>1 DEF Sources
  <2>6. pc' # "failed" /\ which' = "runtime" =>
            \A n \in DOMAIN Sources' : \A t \in Expected(n)' : Awaited(n, t)'
    BY <1>1, <2>4, <2>5, StartupPromises
  <2> QED BY <2>2, <2>3, <2>6 DEF PlannedInv
<1>2. CASE ~Startup
  <2>1. /\ UNCHANGED <<config, pc, which, progress, tables, loaded>> /\ Traced
    BY <1>2, OthersLeave DEF Startings
  <2>2. Undropped'
    <3> SUFFICES ASSUME NEW n \in DOMAIN Sources, NEW t \in config.upstream[n]
                 PROVE  t \in upstream'[n] \/ <<n, t>> \in dropped'
      BY <2>1 DEF Undropped, Sources
    <3>1. t \in upstream[n] \/ <<n, t>> \in dropped
      BY DEF PlannedInv, Undropped
    <3> QED BY <2>1, <3>1 DEF Traced
  <2>3. LoadedPlanned'
    BY <2>1, LoadedKept DEF PlannedInv, NamesKept
  <2>4. \A n \in DOMAIN Sources : Expected(n)' = Expected(n)
    BY <2>1 DEF Expected, TableAt, Admissible, Sources, IsCatalog
  <2>5. ASSUME pc # "failed", which = "runtime", NEW n \in DOMAIN Sources, NEW t \in Expected(n)
        PROVE  Awaited(n, t)'
    <3>1. Awaited(n, t)
      BY <2>5 DEF PlannedInv
    <3>2. Through("runtime", n)' => Through("runtime", n)
      BY <2>1 DEF Through, Sources, progress
    <3>3. Registering("build")' => Registering("build")
      BY <2>1 DEF Registering, Source, Sources, Steps, IsCatalog, PostgresSteps, MySqlSteps, SeekDbSteps,
         SqliteSteps, progress
    <3>4. at' = at /\ listing' = listing
      BY <2>1 DEF progress
    <3> QED BY <2>1, <3>1, <3>2, <3>3, <3>4, AwaitedKept DEF NamesKept, Traced
  <2>6. DOMAIN Sources' = DOMAIN Sources
    BY <2>1 DEF Sources
  <2> QED BY <2>1, <2>2, <2>3, <2>4, <2>5, <2>6 DEF PlannedInv
<1> QED BY <1>1, <1>2

LEMMA InitPlanned == Began => PlannedInv
<1> SUFFICES ASSUME Began PROVE PlannedInv
  OBVIOUS
<1>1. Undropped /\ LoadedPlanned /\ which = "planning"
  BY DEF Began, Blank, Undropped, LoadedPlanned
<1> QED BY <1>1 DEF PlannedInv

LEMMA StableServing == IInv /\ RegistryInv /\ PlannedInv => StableTablesServed
<1> SUFFICES ASSUME IInv, RegistryInv, PlannedInv, Serving, NEW n \in DOMAIN Sources,
                    NEW t \in config.upstream[n], <<n, t>> \notin dropped,
                    IF IsCatalog(Sources[n]) THEN t[1] \in Sources[n].allowed ELSE t = Sources[n].table
             PROVE  Path(Sources[n], t) \in DOMAIN tables["runtime"]
  BY DEF StableTablesServed
<1>1. t = <<t[1], t[2]>>
  BY ServerAssumption DEF IInv, Placed, Sources
<1>2. t \in Expected(n)
  BY <1>1 DEF Expected, Admissible, Pair
<1>3. which = "runtime" /\ Through("runtime", n)
  BY DEF RegistryInv, Placement, Serving, Through
<1> QED BY <1>2, <1>3 DEF PlannedInv, Awaited, Serving

\* A table that was there all along is served, whatever else was created or dropped while the
\* catalogs were listed and their tables built, eight or any number of them at a time.
THEOREM StableServed == Spec => []StableTablesServed
<1>1. Spec => [](IInv /\ NamesInv)
  BY InitBegan, InitIInv, NextIInv, InitNames, NextNames, PTL DEF Spec
<1>2. Spec => [](RegistryInv /\ PlannedInv)
  BY <1>1, InitBegan, InitRegistry, NextRegistry, InitPlanned, NextPlanned, PTL DEF Spec
<1> QED BY <1>1, <1>2, StableServing, PTL

-----------------------------------------------------------------------------
(* What is asked for is found.                                              *)

\* A path of planning that is missing for serving is one of a table that was dropped.
LEMMA MissedWasDropped ==
    ASSUME IInv, RegistryInv, PlannedInv, Serving, NEW p \in DOMAIN tables["planning"],
           p \notin DOMAIN tables["runtime"]
    PROVE  \E d \in dropped : Path(Sources[d[1]], d[2]) = p
<1>1. which = "runtime" /\ pc # "failed" /\ EntryOf("planning", p)
  BY DEF Serving, RegistryInv, Placement, Entries
<1>2. ~(p \in AuthPaths /\ config.auth)
  BY <1>1 DEF RegistryInv, AuthThere, Serving
<1>3. PICK n : n = tables["planning"][p].source
  OBVIOUS
<1>4. PICK t : t = TableAt(n, p)
  OBVIOUS
<1>5. n \in DOMAIN Sources /\ Admissible(n, t) /\ p = Path(Sources[n], t)
  BY <1>1, <1>2, <1>3, <1>4 DEF EntryOf, Through
<1>6. t \in Expected(n)
  BY <1>3, <1>4, <1>5 DEF Expected
<1>7. Through("runtime", n)
  BY <1>1, <1>5 DEF Through, Serving
<1>8. <<n, t>> \in dropped
  BY <1>1, <1>5, <1>6, <1>7 DEF PlannedInv, Awaited
<1>9. PICK d : d = <<n, t>>
  OBVIOUS
<1> QED BY <1>5, <1>8, <1>9

\* When every source is found as a table, no planned path is missing.
LEMMA HealthyFinds ==
    ASSUME IInv, RegistryInv, Serving, AllTables, NEW p \in DOMAIN tables["planning"]
    PROVE  p \in DOMAIN tables["runtime"]
<1>1. pc # "failed" /\ EntryOf("planning", p) /\ SoleNames
  BY DEF Serving, RegistryInv, Entries
<1>2. CASE p \in AuthPaths /\ config.auth
  BY <1>2 DEF RegistryInv, AuthThere, Placement, Serving
<1>3. CASE ~(p \in AuthPaths /\ config.auth)
  <2>1. PICK n : n = tables["planning"][p].source
    OBVIOUS
  <2>2. n \in DOMAIN Sources /\ p = Path(Sources[n], TableAt(n, p))
    BY <1>1, <1>3, <2>1 DEF EntryOf, Through
  <2>3. PICK q : q = <<Sources[n].name>>
    OBVIOUS
  <2>4. q \in DOMAIN tables["runtime"]
    BY <2>2, <2>3 DEF AllTables
  <2>5. EntryOf("runtime", q) /\ q \notin AuthPaths
    BY <1>1, <2>3, <2>4 DEF RegistryInv, Entries, AuthPaths
  <2>6. PICK m : m = tables["runtime"][q].source
    OBVIOUS
  <2>7. m \in DOMAIN Sources /\ q = Path(Sources[m], TableAt(m, q))
    BY <2>5, <2>6 DEF EntryOf, Through
  <2>8. ~IsCatalog(Sources[m]) /\ Sources[m].name = Sources[n].name
    BY <2>3, <2>7 DEF Path
  <2>9. m = n
    BY <1>1, <2>2, <2>7, <2>8 DEF SoleNames
  <2> QED BY <2>2, <2>3, <2>4, <2>8, <2>9 DEF Path
<1> QED BY <1>2, <1>3

\* What the query of the request reads was known for planning, unless it writes.
LEMMA QueryPlanned ==
    ASSUME PlannedInv, request.call.name \in DOMAIN loaded, ~IsWrite, NEW r \in Query.reads
    PROVE  Canonical(r) \in DOMAIN tables["planning"]
BY DEF PlannedInv, LoadedPlanned, IsWrite, Query, Known

\* A request is what it was, or it is answered with something else.
LEMMA AskedAside ==
    ASSUME AskedInv, UNCHANGED <<config, loaded, tables>>, dropped \subseteq dropped',
           ~Serving' => request' = Idle,
           \/ request'.answer \notin {"no table", "healthy"}
           \/ request'.answer = request.answer /\ request'.call = request.call
    PROVE  AskedInv'
<1>1. PlannedIsServable' /\ (request'.answer = "healthy" => request'.call.name \in DOMAIN loaded' /\ AllTables')
  <2>1. CASE request'.answer \notin {"no table", "healthy"}
    BY <2>1 DEF PlannedIsServable
  <2>2. CASE request'.answer = request.answer /\ request'.call = request.call
    <3>1. /\ Query' = Query /\ IsWrite' = IsWrite /\ AllTables' = AllTables
      BY <2>2 DEF Query, IsWrite, AllTables, Sources
    <3>2. \A r : Canonical(r)' = Canonical(r)
      BY DEF Canonical
    <3>3. \A d : Path(Sources[d[1]], d[2])' = Path(Sources[d[1]], d[2])
      BY DEF Path, IsCatalog, Sources
    <3>4. PlannedIsServable'
      BY <2>2, <3>1, <3>2, <3>3 DEF AskedInv, PlannedIsServable
    <3> QED BY <2>2, <3>1, <3>4 DEF AskedInv
  <2> QED BY <2>1, <2>2
<1> QED BY <1>1 DEF AskedInv

LEMMA IdleAsks == Idle.answer \notin {"no table", "healthy"} /\ Idle.stage = "idle"
BY AnswerAssumption DEF Idle

LEMMA RunAsked == IInv /\ RegistryInv /\ PlannedInv /\ AskedInv /\ Run => AskedInv'
<1> SUFFICES ASSUME IInv, RegistryInv, PlannedInv, AskedInv, Run PROVE AskedInv'
  OBVIOUS
<1>1. /\ UNCHANGED <<config, loaded, tables, dropped, pc>> /\ request.stage = "run"
  BY DEF Run, ServeOnly
<1>2. Serving /\ DOMAIN request = RequestFields /\ request.call.name \in DOMAIN loaded
  BY <1>1, IdleAsks DEF AskedInv, IInv, RequestKnown
<1>3. Serving'
  BY <1>1, <1>2 DEF Serving
<1>4. CASE \E status \in {"failed", "ok"} : Answered(status)
  <2>1. request'.answer \in {"failed", "ok"}
    BY <1>2, <1>4 DEF Answered, RequestFields
  <2> QED BY <1>1, <1>3, <2>1, AskedAside
<1>5. CASE ~Known("runtime", Used) /\ Answered("no table")
  <2>1. request'.answer = "no table" /\ request'.call = request.call
    BY <1>2, <1>5 DEF Answered, RequestFields
  <2>2. Query' = Query /\ IsWrite' = IsWrite
    BY <1>1, <2>1 DEF Query, IsWrite
  <2>3. ASSUME ~IsWrite
        PROVE  \E r \in Query.reads : \E d \in dropped : Path(Sources[d[1]], d[2]) = Canonical(r)
    <3>1. PICK r \in Query.reads : Canonical(r) \notin DOMAIN tables["runtime"]
      BY <1>5, <2>3 DEF Known, Used
    <3>2. Canonical(r) \in DOMAIN tables["planning"]
      BY <1>2, <2>3, QueryPlanned
    <3> QED BY <1>2, <3>1, <3>2, MissedWasDropped
  <2>4. \A r : Canonical(r)' = Canonical(r)
    BY DEF Canonical
  <2>5. \A d : Path(Sources[d[1]], d[2])' = Path(Sources[d[1]], d[2])
    BY <1>1 DEF Path, IsCatalog, Sources
  <2>6. PlannedIsServable'
    BY <1>1, <2>2, <2>3, <2>4, <2>5 DEF PlannedIsServable
  <2> QED BY <1>3, <2>1, <2>6 DEF AskedInv
<1> QED BY <1>4, <1>5 DEF Run

LEMMA InspectAsked == IInv /\ AskedInv /\ Inspect => AskedInv'
<1> SUFFICES ASSUME IInv, AskedInv, Inspect PROVE AskedInv'
  OBVIOUS
<1>1. /\ UNCHANGED <<config, loaded, tables, dropped, pc>> /\ request.stage = "inspect"
  BY DEF Inspect, ServeOnly
<1>2. Serving /\ DOMAIN request = RequestFields
  BY <1>1, IdleAsks DEF AskedInv, IInv, RequestKnown
<1>3. Serving'
  BY <1>1, <1>2 DEF Serving
<1>4. CASE request.call.name \in DOMAIN loaded /\ AllTables /\ Answered("healthy")
  <2>1. request'.answer = "healthy" /\ request'.call = request.call
    BY <1>2, <1>4 DEF Answered, RequestFields
  <2>2. AllTables'
    BY <1>1, <1>4 DEF AllTables, Sources
  <2>3. PlannedIsServable'
    BY <2>1 DEF PlannedIsServable
  <2> QED BY <1>1, <1>3, <1>4, <2>1, <2>2, <2>3 DEF AskedInv
<1>5. CASE \E status : status \notin {"no table", "healthy"} /\ Answered(status)
  <2>1. request'.answer \notin {"no table", "healthy"}
    BY <1>2, <1>5 DEF Answered, RequestFields
  <2> QED BY <1>1, <1>3, <2>1, AskedAside
<1>6. CASE request' = [request EXCEPT !.stage = "answered", !.answer = "ok", !.shown = Shown]
  <2>1. request'.answer = "ok"
    BY <1>2, <1>6 DEF RequestFields
  <2> QED BY <1>1, <1>3, <2>1, AskedAside
<1>7. \A route, name : \A answer \in JobAnswers(route, name) : answer \notin {"no table", "healthy"}
  BY DEF JobAnswers
<1> QED BY <1>4, <1>5, <1>6, <1>7 DEF Inspect

LEMMA LookupAsked == IInv /\ AskedInv /\ Lookup => AskedInv'
<1> SUFFICES ASSUME IInv, AskedInv, Lookup PROVE AskedInv'
  OBVIOUS
<1>1. /\ UNCHANGED <<config, loaded, tables, dropped, pc>> /\ request.stage = "lookup"
  BY DEF Lookup, ServeOnly
<1>2. Serving /\ DOMAIN request = RequestFields
  BY <1>1, IdleAsks DEF AskedInv, IInv, RequestKnown
<1>3. Serving'
  BY <1>1, <1>2 DEF Serving
<1>4. \/ Answered("not found") \/ Answered("bad parameters")
      \/ \E st : request' = [request EXCEPT !.stage = "run", !.statement = st]
  BY DEF Lookup
<1>5. CASE Answered("not found") \/ Answered("bad parameters")
  <2>1. request'.answer \notin {"no table", "healthy"}
    BY <1>2, <1>5 DEF Answered, RequestFields
  <2> QED BY <1>1, <1>3, <2>1, AskedAside
<1>6. ASSUME NEW st, request' = [request EXCEPT !.stage = "run", !.statement = st] PROVE AskedInv'
  <2>1. request'.answer = request.answer /\ request'.call = request.call
    BY <1>2, <1>6 DEF RequestFields
  <2> QED BY <1>1, <1>3, <2>1, AskedAside
<1> QED BY <1>4, <1>5, <1>6

LEMMA VerifyAsked == IInv /\ AskedInv /\ Verify => AskedInv'
<1> SUFFICES ASSUME IInv, AskedInv, Verify PROVE AskedInv'
  OBVIOUS
<1>1. /\ UNCHANGED <<config, loaded, tables, dropped, pc>> /\ request.stage = "verify"
  BY DEF Verify, ServeOnly
<1>2. Serving /\ DOMAIN request = RequestFields
  BY <1>1, IdleAsks DEF AskedInv, IInv, RequestKnown
<1>3. Serving'
  BY <1>1, <1>2 DEF Serving
<1>4. CASE Answered("unauthorized")
  <2>1. request'.answer \notin {"no table", "healthy"}
    BY <1>2, <1>4 DEF Answered, RequestFields
  <2> QED BY <1>1, <1>3, <2>1, AskedAside
<1>5. CASE request' = [request EXCEPT !.stage = "lookup"]
  <2>1. request'.answer = request.answer /\ request'.call = request.call
    BY <1>2, <1>5 DEF RequestFields
  <2> QED BY <1>1, <1>3, <2>1, AskedAside
<1> QED BY <1>4, <1>5 DEF Verify

LEMMA ArriveAsked == ASSUME NEW call PROVE IInv /\ AskedInv /\ Arrive(call) => AskedInv'
<1> SUFFICES ASSUME IInv, AskedInv, Arrive(call) PROVE AskedInv'
  OBVIOUS
<1>1. UNCHANGED <<config, loaded, tables, dropped, pc>> /\ Serving'
  BY DEF Arrive, ServeOnly, Serving
<1>2. \E stage : request' = [Idle EXCEPT !.stage = stage, !.call = call]
  BY DEF Arrive
<1>3. request'.answer = Absent
  BY <1>2 DEF Idle
<1> QED BY <1>1, <1>3, AnswerAssumption, AskedAside

LEMMA NextAsked ==
    IInv /\ NamesInv /\ RegistryInv /\ PlannedInv /\ AskedInv /\ [Next]_vars => AskedInv'
<1> SUFFICES ASSUME IInv, NamesInv, RegistryInv, PlannedInv, AskedInv, [Next]_vars PROVE AskedInv'
  OBVIOUS
<1>1. CASE Startup
  <2>1. request' = request /\ ~Serving
    <3>1. pc # "serving"
      BY <1>1 DEF Startup, LoadContext, Register, SkipLance, List, Install, SourcesDone, Connect,
         AttemptFails, StartBuild, FinishBuild, BuildFails, Registering, BuildAuth, ValidatePipelines,
         LoadPipeline, PipelinesDone, LoadJob, JobsDone, LoadSemantics, OpenStore, Bind
    <3> QED BY <1>1, <3>1, StartupOutside DEF Serving
  <2>2. request' = Idle
    BY <2>1 DEF AskedInv
  <2>3. Idle' = Idle
    BY DEF Idle
  <2>4. request'.answer \notin {"no table", "healthy"}
    BY <2>2, IdleAsks
  <2> QED BY <2>2, <2>3, <2>4 DEF AskedInv, PlannedIsServable
<1>2. CASE Serve \/ \E call \in Calls : Arrive(call)
  BY <1>2, VerifyAsked, LookupAsked, RunAsked, InspectAsked, ArriveAsked DEF Serve
<1>3. CASE ~Startup /\ ~Serve /\ ~\E call \in Calls : Arrive(call)
  <2>1. UNCHANGED <<config, loaded, tables, pc>> /\ dropped \subseteq dropped'
    BY <1>3, OthersLeave DEF Startings, Traced
  <2>2. UNCHANGED request
    BY <1>3 DEF Next, Drop, Create, UpstreamOnly, vars
  <2> QED BY <2>1, <2>2, AskedAside DEF AskedInv, Serving
<1> QED BY <1>1, <1>2, <1>3

LEMMA InitAsked == Began => AskedInv
<1> SUFFICES ASSUME Began PROVE AskedInv
  OBVIOUS
<1>1. request = Idle
  BY DEF Began, Blank
<1> QED BY <1>1, IdleAsks DEF AskedInv, PlannedIsServable

LEMMA HealthyAsked == IInv /\ RegistryInv /\ PlannedInv /\ AskedInv => HealthyServes
<1> SUFFICES ASSUME IInv, RegistryInv, PlannedInv, AskedInv, request.answer = "healthy", ~IsWrite,
                    NEW r \in Query.reads
             PROVE  Canonical(r) \in DOMAIN tables["runtime"]
  BY DEF HealthyServes, Known
<1>1. Serving /\ AllTables /\ request.call.name \in DOMAIN loaded
  BY IdleAsks DEF AskedInv
<1>2. Canonical(r) \in DOMAIN tables["planning"]
  BY <1>1, QueryPlanned
<1> QED BY <1>1, <1>2, HealthyFinds

\* Everything the registrations promise, at a server beside which commands of the client run.
RegistriesInv == IInv /\ NamesInv /\ RegistryInv /\ SearchInv /\ PlannedInv /\ AskedInv

LEMMA InitRegistries == Began => RegistriesInv
BY InitIInv, InitNames, InitRegistry, InitSearch, InitPlanned, InitAsked DEF RegistriesInv

LEMMA NextRegistries == RegistriesInv /\ [Next]_vars => RegistriesInv'
BY NextIInv, NextNames, NextRegistry, NextSearch, NextPlanned, NextAsked DEF RegistriesInv

\* A query that was planned finds its tables when it is called, unless one was dropped
\* between the two registrations, whatever the sources, the catalogs and the calls are.
THEOREM PlannedServed == Spec => []PlannedIsServable
<1>1. Spec => []RegistriesInv
  BY InitBegan, InitRegistries, NextRegistries, PTL DEF Spec
<1>2. RegistriesInv => PlannedIsServable
  BY DEF RegistriesInv, AskedInv
<1> QED BY <1>1, <1>2, PTL

\* A query that is reported healthy finds its tables: a server whose sources are all found
\* as tables has no catalog, and every path a query was planned with is one of a source.
THEOREM HealthServed == Spec => []HealthyServes
<1>1. Spec => []RegistriesInv
  BY InitBegan, InitRegistries, NextRegistries, PTL DEF Spec
<1>2. RegistriesInv => HealthyServes
  BY HealthyAsked DEF RegistriesInv
<1> QED BY <1>1, <1>2, PTL

\* All of it holds with commands of the client around, which share no variable with the
\* server's registries.
THEOREM RegistriesWithClients ==
    CliSpec => [](/\ SearchableIsQueryable /\ StableTablesServed /\ NamesReadTheirTable
                  /\ PlannedIsServable /\ HealthyServes)
<1>1. CliSpec => []RegistriesInv
  BY CliBegan, CliSteps, InitRegistries, NextRegistries, PTL DEF CliSpec
<1>2. RegistriesInv => /\ SearchableIsQueryable /\ StableTablesServed /\ NamesReadTheirTable
                       /\ PlannedIsServable /\ HealthyServes
  BY SearchedServing, StableServing, HealthyAsked DEF RegistriesInv, NamesInv, AskedInv
<1> QED BY <1>1, <1>2, PTL

-----------------------------------------------------------------------------
(* Columns of parameters.                                                   *)

LEMMA NthOfAll ==
    ASSUME NEW L \in Nat, NEW i \in 1..L
    PROVE  Nth(1..L, i) = i
<1>1. {j \in 1..L : j <= i} = 1..i
  OBVIOUS
<1>2. Cardinality(1..i) = i
  BY FS_Interval
<1> QED BY <1>1, <1>2 DEF Nth

\* When no name is used twice and every placeholder leaves a mark, the n-th name, the n-th
\* placeholder and the n-th mark are one.
LEMMA MarkedColumns ==
    ASSUME NEW query, Len(query.holes) \in Nat, DOMAIN query.holes = 1..Len(query.holes),
           Marked(query)
    PROVE  InferredColumns(query) = OwnColumns(query)
<1> DEFINE L == Len(query.holes)
           named == [i \in 1..L |-> query.holes[i].param]
<1>1. IsFiniteSet(1..L) /\ Cardinality(1..L) = L
  BY FS_Interval
<1>2. Params(query) = {query.holes[i].param : i \in 1..L}
  BY DEF Params
<1>3. named \in Surjection(1..L, Params(query))
  BY <1>2 DEF Surjection
<1>4. Cardinality(Params(query)) = L
  BY DEF Marked
<1>5. named \in Injection(1..L, Params(query))
  <2> HIDE DEF named, L
  <2> QED BY <1>1, <1>3, <1>4, FS_SurjSameCardinalityImpliesInj
<1>6. \A i, j \in 1..L : query.holes[i].param = query.holes[j].param => i = j
  <2>1. \A i \in 1..L : named[i] = query.holes[i].param
    OBVIOUS
  <2>2. \A i, j \in 1..L : named[i] = named[j] => i = j
    <3> HIDE DEF named, L
    <3> QED BY <1>5 DEF Injection, IsInjective
  <2> HIDE DEF named
  <2> QED BY <2>1, <2>2
<1>7. ASSUME NEW i \in 1..L PROVE FirstHole(query, query.holes[i].param) = i
  <2>1. \A j \in 1..(i - 1) : query.holes[j].param # query.holes[i].param
    BY <1>6
  <2> QED BY <1>6, <2>1 DEF FirstHole
<1>8. ParameterOrder(query) = 1..L
  <2>1. ASSUME NEW i \in 1..L PROVE i \in ParameterOrder(query)
    BY <1>2, <1>7 DEF ParameterOrder
  <2>2. ASSUME NEW e \in ParameterOrder(query) PROVE e \in 1..L
    <3>1. PICK p \in Params(query) : e = FirstHole(query, p)
      BY DEF ParameterOrder
    <3>2. PICK i \in 1..L : p = query.holes[i].param
      BY <1>2
    <3> QED BY <1>7, <3>1, <3>2
  <2> QED BY <2>1, <2>2
<1>9. DOMAIN Recorded(query) = 1..L
  BY DEF Recorded, Marked
<1>10. ASSUME NEW p \in Params(query)
       PROVE  InferredColumns(query)[p] = OwnColumns(query)[p]
  <2>1. PICK i \in 1..L : p = query.holes[i].param
    BY <1>2
  <2>2. FirstHole(query, p) = i
    BY <1>7, <2>1
  <2>3. Nth(ParameterOrder(query), FirstHole(query, p)) = i
    BY <1>8, <2>2, NthOfAll
  <2>4. (CHOOSE j \in 1..L : Nth(1..L, j) = i) = i
    BY NthOfAll
  <2>5. i <= Cardinality(DOMAIN Recorded(query))
    BY <1>1, <1>9
  <2>6. InferredColumns(query)[p] = Recorded(query)[i]
    BY <1>9, <2>3, <2>4, <2>5 DEF InferredColumns
  <2>7. Recorded(query)[i] = Own(query.holes[i])
    BY DEF Recorded, Visited, Marked
  <2>8. OwnColumns(query)[p] = Own(query.holes[i])
    BY <2>2 DEF OwnColumns
  <2> QED BY <2>6, <2>7, <2>8
<1>11. /\ InferredColumns(query) = [p \in Params(query) |-> InferredColumns(query)[p]]
       /\ OwnColumns(query) = [p \in Params(query) |-> OwnColumns(query)[p]]
  BY DEF InferredColumns, OwnColumns
<1> QED BY <1>10, <1>11

\* Every pipeline that is loaded has the columns that were inferred from its query, and its
\* placeholders are a sequence.
ColumnsInferred ==
    \A n \in DOMAIN loaded :
        /\ loaded[n].columns = InferredColumns(loaded[n].query)
        /\ Len(loaded[n].query.holes) \in Nat
        /\ DOMAIN loaded[n].query.holes = 1..Len(loaded[n].query.holes)

ColumnsInv == IInv /\ NamesInv /\ ColumnsInferred

LEMMA InitColumns == Began => ColumnsInv
BY InitIInv, InitNames DEF Began, Blank, ColumnsInv, ColumnsInferred

\* Only LoadPipeline adds to what is loaded.
LEMMA LoadedElsewhere == NamesInv /\ [Next]_vars /\ ~LoadPipeline => loaded' = loaded
<1> SUFFICES ASSUME NamesInv, [Next]_vars, ~LoadPipeline PROVE loaded' = loaded
  OBVIOUS
<1>1. CASE Startup
  BY <1>1 DEF Startup, LoadContext, Register, SkipLance, List, Install, SourcesDone, Connect,
     AttemptFails, StartBuild, FinishBuild, BuildFails, BuildAuth, ValidatePipelines,
     PipelinesDone, LoadJob, JobsDone, LoadSemantics, OpenStore, Bind, Kept
<1>2. CASE ~Startup
  BY <1>2, OthersLeave DEF Startings
<1> QED BY <1>1, <1>2

LEMMA NextColumns == ColumnsInv /\ [Next]_vars => ColumnsInv'
<1> SUFFICES ASSUME ColumnsInv, [Next]_vars PROVE ColumnsInv'
  OBVIOUS
<1>1. IInv' /\ NamesInv'
  BY NextIInv, NextNames DEF ColumnsInv
<1>2. CASE loaded' = loaded
  BY <1>1, <1>2 DEF ColumnsInv, ColumnsInferred
<1>3. CASE LoadPipeline /\ loaded' # loaded
  <2> DEFINE file == config.files[at]
  <2>1. loaded' = Over([n \in {file.name} |->
                          [query |-> file.query, columns |-> InferredColumns(file.query)]], loaded)
    BY <1>3 DEF LoadPipeline
  <2>2. /\ Len(file.query.holes) \in Nat
        /\ DOMAIN file.query.holes = 1..Len(file.query.holes)
    BY <1>3, ServerAssumption DEF LoadPipeline, ColumnsInv, IInv, Placed
  <2> HIDE DEF file
  <2>3. ASSUME NEW n \in DOMAIN loaded'
        PROVE  \/ loaded'[n] = [query |-> file.query, columns |-> InferredColumns(file.query)]
               \/ n \in DOMAIN loaded /\ loaded'[n] = loaded[n]
    BY <2>1 DEF Over
  <2>4. ColumnsInferred'
    <3> SUFFICES ASSUME NEW n \in DOMAIN loaded'
                 PROVE  /\ loaded'[n].columns = InferredColumns(loaded'[n].query)
                        /\ Len(loaded'[n].query.holes) \in Nat
                        /\ DOMAIN loaded'[n].query.holes = 1..Len(loaded'[n].query.holes)
      BY DEF ColumnsInferred
    <3> QED BY <2>2, <2>3 DEF ColumnsInv, ColumnsInferred
  <2> QED BY <1>1, <2>4 DEF ColumnsInv
<1> QED BY <1>2, <1>3, LoadedElsewhere DEF ColumnsInv

\* The column a parameter is taken to be compared with is its own, where every placeholder
\* leaves a mark, no name is used twice and no OFFSET comes before its LIMIT, for any query; at a server with or without
\* commands of the client.
THEOREM ColumnsOwn ==
    (Spec => []ColumnsAreTheirOwn) /\ (CliSpec => []ColumnsAreTheirOwn)
<1>1. ColumnsInv => ColumnsAreTheirOwn
  BY MarkedColumns DEF ColumnsInv, ColumnsInferred, ColumnsAreTheirOwn
<1>2. Spec => []ColumnsInv
  BY InitBegan, InitColumns, NextColumns, PTL DEF Spec
<1>3. CliSpec => []ColumnsInv
  BY CliBegan, CliSteps, InitColumns, NextColumns, PTL DEF CliSpec
<1> QED BY <1>1, <1>2, <1>3, PTL
=============================================================================
