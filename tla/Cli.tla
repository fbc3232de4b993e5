--------------------------------- MODULE Cli ---------------------------------
(***************************************************************************)
(* The command line client (crates/cli/src): commands that keep a file of  *)
(* aliases, run a pipeline or a statement in a session of their own over   *)
(* the sources of a context file, show the tables there are, or ask a      *)
(* server about its jobs.  A command is a process; several of them run at  *)
(* a time, and nothing locks the file of aliases.                          *)
(***************************************************************************)
EXTENDS Server

CONSTANTS Process,  \* processes of the client
          Sessions, \* see below
          Alphabet, \* the parameter names, sorted
          Numeral,  \* words that JSON reads as a number
          Nothing   \* no override, no answer yet

(***************************************************************************)
(* A session is [config, server, context, readable, files, commands]: the  *)
(* configuration there is, whether a server starts from it, whether the    *)
(* client's context file is "there", "missing" or "garbled", whether every *)
(* file of the pipelines' directory parses, the files of aliases by their  *)
(* place, and the command of each process.  A place is "local", beside the *)
(* context file, "home", the default, or "given" on the command line.      *)
(* A file is [is, aliases], an alias [pipeline, positional, defaults] with *)
(* templates for defaults, an argument [flag, type, word], flag "" when    *)
(* it is positional.                                                       *)
(***************************************************************************)
Location == {"local", "home", "given"}

ASSUME CliAssumption ==
    \A s \in Sessions : s.config \in Configs /\ DOMAIN s.files = Location /\ DOMAIN s.commands = Process

\* What an alias is made of: names of parameters, and templates for them.
IsAlias(alias) ==
    /\ alias.positional \in Seq(Param) /\ DOMAIN alias.defaults \subseteq Param
    /\ \A n \in DOMAIN alias.defaults : IsText(alias.defaults[n])

ASSUME WordsAssumption ==
    /\ Alphabet \in Seq(Param) /\ ToSet(Alphabet) = Param /\ Nothing # "missing"
    /\ \A s \in Sessions :
          /\ \A place \in Location : \A n \in DOMAIN s.files[place].aliases :
                IsAlias(s.files[place].aliases[n])
          /\ \A p \in Process : s.commands[p] # Nothing =>
                /\ s.commands[p].place \in Location \cup {Nothing}
                /\ s.commands[p].verb = "add" => IsAlias(s.commands[p])
                /\ s.commands[p].args \in Seq(ToSet(s.commands[p].args))
                /\ \A i \in DOMAIN s.commands[p].args : s.commands[p].args[i].flag \in Param \cup {""}

VARIABLES session,   \* the session
          files,     \* the files of aliases
          doing,     \* of each process, how far it is
          kept,      \* of each place, the aliases that were acknowledged
          disturbed  \* places where a process was killed or two of them met

cliVars == <<session, files, doing, kept, disturbed>>

Command(p) == session.commands[p]
Stage(p)   == doing[p].stage

Fresh == [stage |-> "start", place |-> Nothing, aliases |-> <<>>, pipeline |-> Nothing, bound |-> <<>>,
          query |-> Nothing, statement |-> <<>>, at |-> 1, tables |-> <<>>, shown |-> <<>>,
          answer |-> Nothing]

CliInit ==
    /\ session \in Sessions
    /\ config = session.config /\ Blank
    /\ pc = IF session.server THEN "context" ELSE "failed"
    /\ files = session.files
    /\ doing = [p \in Process |-> Fresh]
    /\ kept = [place \in Location |-> session.files[place].aliases]
    /\ disturbed = {}

Ends(p, answer) == doing' = [doing EXCEPT ![p].stage = "done", ![p].answer = answer]

ClientOnly == UNCHANGED <<session, vars>>
FilesKept  == UNCHANGED <<files, kept, disturbed>> /\ ClientOnly

-----------------------------------------------------------------------------
(* Values and aliases.                                                      *)

\* string_to_scalar.
Parsed(text) ==
    [kind |-> IF Len(text) = 1 /\ text[1] \in Numeral THEN "number" ELSE "string", text |-> text]

Bad == [kind |-> "bad", text |-> <<>>]

\* parse_param_flag: a type that is given is kept to.
Typed(arg) ==
    CASE arg.type = ""    -> Parsed(<<arg.word>>)
      [] arg.type = "str" -> [kind |-> "string", text |-> <<arg.word>>]
      [] arg.type = "int" /\ arg.word \in Numeral -> [kind |-> "number", text |-> <<arg.word>>]
      [] OTHER            -> Bad

\* The arguments at the places S, in their order.
ArgsAt(args, S) == FlattenSeq([i \in DOMAIN args |-> IF i \in S THEN <<args[i]>> ELSE <<>>])

FlagArgs(args) == ArgsAt(args, {i \in DOMAIN args : args[i].flag # ""})
Words(args)    == ArgsAt(args, {i \in DOMAIN args : args[i].flag = ""})

\* A flag that is given twice has its last value.
FlagValues(args) ==
    FoldLeft(LAMBDA acc, a : Over([n \in {a.flag} |-> Typed(a)], acc), <<>>, FlagArgs(args))

BadFlags(args) == \E i \in DOMAIN FlagArgs(args) : Typed(FlagArgs(args)[i]) = Bad

PositionalTexts(alias, args) ==
    FoldLeftDomain(LAMBDA acc, i : Over([n \in {alias.positional[i]} |-> <<Words(args)[i].word>>], acc),
                   <<>>, Words(args))

\* substitute_template: texts first, then flags; a name that has no value stays as it is.
Filled(template, texts, flags) ==
    FlattenSeq([i \in DOMAIN template |->
        CASE template[i] \in DOMAIN texts -> texts[template[i]]
          [] template[i] \in DOMAIN flags \ DOMAIN texts -> flags[template[i]].text
          [] OTHER -> <<template[i]>>])

\* Defaults come in the order of their names, each of them a text for those after it.
WithDefaults(alias, texts, flags) ==
    FoldLeft(LAMBDA acc, n :
                IF n \in DOMAIN alias.defaults \ (DOMAIN flags \cup DOMAIN acc)
                THEN Over([x \in {n} |-> Filled(alias.defaults[n], acc, flags)], acc) ELSE acc,
             texts, Alphabet)

\* Mutant: a positional argument wins over a flag.
BoundTextsFirst(alias, args) ==
    LET flags == FlagValues(args)
        texts == WithDefaults(alias, PositionalTexts(alias, args), flags)
    IN  Over([n \in DOMAIN texts |-> Parsed(texts[n])], flags)

\* resolve_alias: flags win over all else.
Bound(alias, args) ==
    LET flags == FlagValues(args)
        texts == WithDefaults(alias, PositionalTexts(alias, args), flags)
    IN  Over(flags, [n \in DOMAIN texts |-> Parsed(texts[n])])

BadArguments(alias, args) == Len(Words(args)) > Len(alias.positional) \/ BadFlags(args)

\* scalar_to_sql_literal.
Literal(value) ==
    [shape |-> "scalar",
     text  |-> IF value.kind = "string" THEN <<"'">> \o value.text \o <<"'">> ELSE value.text]

Literals(bound) == [n \in DOMAIN bound |-> Literal(bound[n])]

\* render_sql_with_inline_params: one pass over the template.
Rendered(query, bound) ==
    FlattenSeq([i \in DOMAIN Template(query) |->
        IF Template(query)[i] \in DOMAIN bound THEN Literal(bound[Template(query)[i]]).text
        ELSE <<Template(query)[i]>>])

\* annotate_alias_bindings, print_alias_help.
Notes(alias, params) ==
    [n \in params |-> CASE n \in ToSet(alias.positional) -> "positional"
                        [] n \in DOMAIN alias.defaults \ ToSet(alias.positional) -> "default"
                        [] OTHER -> "flag"]

-----------------------------------------------------------------------------
(* Pipelines the client finds: those of --pipeline-dir or of the context's. *)

HasPipelines(command) == command.dir \/ session.context = "there"

Unreadable(command) == session.context = "garbled" \/ (HasPipelines(command) /\ ~session.readable)

\* discover_pipelines: of two files with one name, whichever the directory lists later.
Discovered(command, name) ==
    IF HasPipelines(command)
    THEN {config.files[i].query : i \in {j \in DOMAIN config.files :
                                            config.files[j].kind = "pipeline" /\ config.files[j].name = name}}
    ELSE {}

-----------------------------------------------------------------------------
(* The file of aliases.                                                     *)

Keeping == {"add", "remove"}
AliasVerbs == Keeping \cup {"list", "show", "help", "call"}

\* resolve_aliases_path: a local file counts only if it exists.
AliasPlace(command) ==
    CASE command.place # Nothing -> command.place
      [] command.place = Nothing /\ files["local"].is # "missing" -> "local"
      [] OTHER -> "home"

\* A process that may write place has read it.
At(p, place) ==
    Stage(p) \in {"loaded", "save", "write"} /\ doing[p].place = place /\ Command(p).verb \in Keeping

\* Mutant: a file that cannot be read is taken for an empty one.
LoadableAnyhow(file) == TRUE

\* load: a missing or an empty file holds no alias, any other has to be one of aliases.
Loadable(file) == file.is # "garbled"

LoadAliases(p) ==
    /\ Stage(p) = "start" /\ Command(p).verb \in AliasVerbs
    /\ LET place == AliasPlace(Command(p))
       IN  /\ IF Loadable(files[place])
              THEN doing' = [doing EXCEPT ![p].stage = "loaded", ![p].place = place,
                                          ![p].aliases = files[place].aliases]
              ELSE Ends(p, "bad file")
           /\ disturbed' = IF Command(p).verb \in Keeping /\ \E q \in Process \ {p} : At(q, place)
                           THEN disturbed \cup {place} ELSE disturbed
    /\ UNCHANGED <<files, kept>> /\ ClientOnly

Named(command) ==
    [pipeline |-> command.pipeline, positional |-> command.positional, defaults |-> command.defaults]

Save(p, aliases) == doing' = [doing EXCEPT ![p].stage = "save", ![p].aliases = aliases]

\* alias_add: the parameters are checked if the pipeline is there.
AddAlias(p) ==
    /\ Stage(p) = "loaded" /\ Command(p).verb = "add"
    /\ LET command == Command(p)
           alias   == Named(command)
           names   == ToSet(alias.positional) \cup DOMAIN alias.defaults
           found   == Discovered(command, alias.pipeline)
           added   == Over([n \in {command.name} |-> alias], doing[p].aliases)
           taken   == command.name \in DOMAIN doing[p].aliases /\ ~command.force
       IN  \/ taken /\ Ends(p, "exists")
           \/ ~taken /\ Unreadable(command) /\ Ends(p, "bad pipelines")
           \/ ~taken /\ ~Unreadable(command) /\ found = {} /\ Save(p, added)
           \/ /\ ~taken /\ ~Unreadable(command)
              /\ \E query \in found :
                    IF names \subseteq Params(query) THEN Save(p, added) ELSE Ends(p, "no parameter")
    /\ FilesKept

RemoveAlias(p) ==
    /\ Stage(p) = "loaded" /\ Command(p).verb = "remove"
    /\ LET name == Command(p).name
           left == DOMAIN doing[p].aliases \ {name}
       IN  IF name \in DOMAIN doing[p].aliases
           THEN Save(p, [n \in left |-> doing[p].aliases[n]])
           ELSE Ends(p, "not found")
    /\ FilesKept

\* save: the file is opened and emptied, or cannot be.
Truncate(p) ==
    /\ Stage(p) = "save"
    /\ \/ Ends(p, "not saved") /\ UNCHANGED files
       \/ /\ doing' = [doing EXCEPT ![p].stage = "write"]
          /\ files' = [files EXCEPT ![doing[p].place] = [is |-> "empty", aliases |-> <<>>]]
    /\ UNCHANGED <<kept, disturbed>> /\ ClientOnly

Written(p) == [is |-> "written", aliases |-> doing[p].aliases]
Garbled    == [is |-> "garbled", aliases |-> <<>>]

\* A file that is not one of aliases holds none.
ASSUME FileAssumption ==
    \A s \in Sessions : \A place \in Location :
        s.files[place].is = "garbled" => s.files[place] = Garbled

\* What this process has acknowledged, over what was.
Acknowledged(p) ==
    LET before == kept[doing[p].place]
        name   == Command(p).name
    IN  IF Command(p).verb = "add" THEN Over([n \in {name} |-> doing[p].aliases[name]], before)
        ELSE [n \in DOMAIN before \ {name} |-> before[n]]

\* ... and is written; over the text of another process, a mixture of both may be left.
WriteOut(p) ==
    /\ Stage(p) = "write"
    /\ LET place == doing[p].place
       IN  /\ \/ files' = [files EXCEPT ![place] = Written(p)]
              \/ files[place].is # "empty" /\ files' = [files EXCEPT ![place] = Garbled]
           /\ kept' = [kept EXCEPT ![place] = Acknowledged(p)]
    /\ Ends(p, "saved")
    /\ UNCHANGED disturbed /\ ClientOnly

\* The disk is full: what is left is empty or cut short.
WriteFails(p) ==
    /\ Stage(p) = "write"
    /\ \/ UNCHANGED files
       \/ files' = [files EXCEPT ![doing[p].place] = Garbled]
    /\ disturbed' = disturbed \cup {doing[p].place}
    /\ Ends(p, "not saved")
    /\ UNCHANGED kept /\ ClientOnly

\* alias_list, alias_show, and --help of an alias.
ShowAliases(p) ==
    /\ Stage(p) = "loaded" /\ Command(p).verb \in {"list", "show", "help"}
    /\ LET command == Command(p)
           known   == command.name \in DOMAIN doing[p].aliases
       IN  \/ command.verb = "list" /\ Ends(p, "ok")
           \/ command.verb # "list" /\ ~known /\ Ends(p, "unknown")
           \/ command.verb # "list" /\ known /\ Unreadable(command) /\ Ends(p, "bad pipelines")
           \/ /\ command.verb # "list" /\ known /\ ~Unreadable(command)
              /\ LET alias == doing[p].aliases[command.name]
                     found == Discovered(command, alias.pipeline)
                 IN  \/ found = {} /\ Ends(p, "ok")
                     \/ \E query \in found :
                           doing' = [doing EXCEPT ![p].stage = "done", ![p].answer = "ok",
                                                  ![p].shown = Notes(alias, Params(query))]
    /\ FilesKept

-----------------------------------------------------------------------------
(* Running a pipeline or a statement.                                       *)

Prepares(p, pipeline, bound) ==
    doing' = [doing EXCEPT ![p].stage = "prepare", ![p].pipeline = pipeline, ![p].bound = bound]

CallAlias(p) ==
    /\ Stage(p) = "loaded" /\ Command(p).verb = "call"
    /\ LET name == Command(p).name
           args == Command(p).args
       IN  \/ name \notin DOMAIN doing[p].aliases /\ Ends(p, "unknown")
           \/ /\ name \in DOMAIN doing[p].aliases
              /\ LET alias == doing[p].aliases[name]
                 IN  IF BadArguments(alias, args) THEN Ends(p, "bad arguments")
                     ELSE Prepares(p, alias.pipeline, Bound(alias, args))
    /\ FilesKept

StartRun(p) ==
    /\ Stage(p) = "start" /\ Command(p).verb = "run"
    /\ IF BadFlags(Command(p).args) THEN Ends(p, "bad arguments")
       ELSE Prepares(p, Command(p).pipeline, FlagValues(Command(p).args))
    /\ FilesKept

NextSession == IF session.context = "there" THEN "register" ELSE "execute"

\* run_pipeline_with_params up to the statement: what is wrong with the pipeline comes out
\* before any source is asked.
Prepare(p) ==
    /\ Stage(p) = "prepare"
    /\ LET command == Command(p)
           bound   == doing[p].bound
           found   == Discovered(command, doing[p].pipeline)
           context == session.context = "missing" /\ command.explicit
       IN  \/ context /\ Ends(p, "no context")
           \/ ~context /\ Unreadable(command) /\ Ends(p, "bad pipelines")
           \/ ~context /\ ~Unreadable(command) /\ found = {} /\ Ends(p, "not found")
           \/ /\ ~context /\ ~Unreadable(command)
              /\ \E query \in found :
                    IF Params(query) \subseteq DOMAIN bound
                    THEN doing' = [doing EXCEPT ![p].stage = NextSession, ![p].query = query,
                                                ![p].statement = Rendered(query, bound)]
                    ELSE doing' = [doing EXCEPT ![p].stage = "done", ![p].query = query,
                                                ![p].answer = "missing"]
    /\ FilesKept

\* run_query and show_schema: only a query does without a context file.
Open(p) ==
    /\ Stage(p) = "start" /\ Command(p).verb \in {"query", "schema"}
    /\ LET command == Command(p)
       IN  \/ session.context = "garbled" /\ Ends(p, "bad context")
           \/ /\ session.context = "missing" /\ (command.explicit \/ command.verb = "schema")
              /\ Ends(p, "no context")
           \/ /\ session.context = "there" \/ (session.context = "missing" /\ ~command.explicit
                                               /\ command.verb = "query")
              /\ doing' = [doing EXCEPT ![p].stage = NextSession, ![p].query = command.query]
    /\ FilesKept

\* Types the client knows of.
ClientKinds == {"csv", "postgres", "mysql", "mongo", "influxdb", "lance", "sqlite", "iceberg"}

\* Only SQLite is told the access mode.
ClientWrites(s) == s.kind \in {"mongo", "csv"} \/ (s.write /\ s.kind = "sqlite")

\* The tables of source n: a catalog's there are now, or the one of the options.
TablesOf(n) ==
    LET s == Sources[n]
    IN  IF IsCatalog(s) THEN {t \in upstream[n] : t[1] \in s.allowed} ELSE {s.table}

Registrable(p, n) ==
    /\ Sources[n].kind \in ClientKinds
    /\ \A t \in TablesOf(n) : Buildable(n, t)
    /\ ~IsCatalog(Sources[n]) => <<Sources[n].name>> \notin DOMAIN doing[p].tables

\* register_source, one source after the other, none left out; what a source's attempts go
\* through is in Server.
RegisterSource(p) ==
    /\ Stage(p) = "register" /\ doing[p].at <= Len(Sources)
    /\ LET n     == doing[p].at
           fresh == [path \in {Path(Sources[n], t) : t \in TablesOf(n)} |->
                       [source |-> n, write |-> ClientWrites(Sources[n]), cached |-> FALSE,
                        reads |-> Reference(Sources[n],
                                            CHOOSE t \in TablesOf(n) : Path(Sources[n], t) = path)]]
       IN  \/ Ends(p, "no source")
           \/ /\ Registrable(p, n)
              /\ doing' = [doing EXCEPT ![p].at = n + 1, ![p].tables = Over(fresh, @)]
    /\ FilesKept

Registered(p) ==
    /\ Stage(p) = "register" /\ doing[p].at > Len(Sources)
    /\ doing' = [doing EXCEPT ![p].stage = IF Command(p).verb = "schema" THEN "describe" ELSE "execute"]
    /\ FilesKept

\* No statement is validated here, and what is planned is run at once.
Execute(p) ==
    /\ Stage(p) = "execute"
    /\ LET query  == doing[p].query
           writes == query.verb \in {"insert", "update", "delete"}
           used   == query.reads \cup (IF writes THEN {query.target} ELSE {})
           known  == {Canonical(r) : r \in used} \subseteq DOMAIN doing[p].tables
       IN  \/ ~known /\ Ends(p, "no table")
           \/ known /\ Ends(p, "failed")
           \/ /\ known /\ ~Gone(doing[p].tables, used)
              /\ (writes => doing[p].tables[Canonical(query.target)].write)
              /\ Ends(p, "ok")
    /\ FilesKept

-----------------------------------------------------------------------------
(* --schema.                                                                *)

InFull(path) == IF Len(path) = 1 THEN <<"datafusion", "public", path[1]>> ELSE path

\* select_tables: a name in full, or a bare one that is the only one.
Selected(paths, filter) ==
    CASE filter = <<>>    -> paths
      [] Len(filter) = 3  -> {path \in paths : InFull(path) = filter}
      [] Len(filter) = 1  -> {path \in paths : Last(path) = filter[1]}
      [] OTHER            -> {}

\* Mutant: a source's description hides that of the table.
DescribedBroadly(entries, path) ==
    IF TextOf(entries, <<<<path[1]>>>>) # NoText THEN TextOf(entries, <<<<path[1]>>>>)
    ELSE TextOf(entries, <<InFull(path)>>)

\* resolve_table_description: the table's, or its source's; the first part of a path is the
\* source either way.
Described(entries, path) ==
    IF TextOf(entries, <<InFull(path)>>) # NoText THEN TextOf(entries, <<InFull(path)>>)
    ELSE TextOf(entries, <<<<path[1]>>>>)

Describe(p) ==
    /\ Stage(p) = "describe"
    /\ LET entries == Overlay(config.described, config.semantics)
           filter  == Command(p).table
           chosen  == Selected(DOMAIN doing[p].tables, filter)
       IN  \/ (config.ambiguous \/ entries = Conflict) /\ Ends(p, "bad semantics")
           \/ /\ ~config.ambiguous /\ entries # Conflict
              /\ IF filter = <<>> \/ Cardinality(chosen) = 1
                 THEN doing' = [doing EXCEPT ![p].stage = "done", ![p].answer = "ok",
                                    ![p].shown = [path \in chosen |-> Described(entries, path)]]
                 ELSE Ends(p, "no such table")
    /\ FilesKept

-----------------------------------------------------------------------------
(* Jobs.                                                                    *)

\* handle_job_cmd: one request, one answer; nothing is tried again.
AskServer(p) ==
    /\ Stage(p) = "start" /\ Command(p).verb = "job"
    /\ \/ BadFlags(Command(p).args) /\ Ends(p, "bad arguments")
       \/ ~BadFlags(Command(p).args) /\ Ends(p, "no server")
       \/ /\ ~BadFlags(Command(p).args) /\ Serving
          /\ \E answer \in JobAnswers(Command(p).route, Command(p).name) : Ends(p, answer)
    /\ FilesKept

-----------------------------------------------------------------------------
\* A person stops a command: the file stays as it is.
Kill(p) ==
    /\ Stage(p) = "write"
    /\ disturbed' = disturbed \cup {doing[p].place}
    /\ Ends(p, "killed")
    /\ UNCHANGED <<files, kept>> /\ ClientOnly

Client(p) ==
    \/ LoadAliases(p) \/ AddAlias(p) \/ RemoveAlias(p) \/ Truncate(p) \/ WriteOut(p) \/ WriteFails(p)
    \/ ShowAliases(p) \/ CallAlias(p) \/ StartRun(p) \/ Prepare(p) \/ Open(p) \/ RegisterSource(p)
    \/ Registered(p) \/ Execute(p) \/ Describe(p) \/ AskServer(p) \/ Kill(p)

CliNext ==
    \/ \E p \in {q \in Process : Command(q) # Nothing} : Client(p)
    \/ Next /\ UNCHANGED cliVars

\* The server is as fair as ever; a person may do nothing at all.
CliSpec == CliInit /\ [][CliNext]_<<vars, cliVars>> /\ WF_vars(Startup) /\ WF_vars(Serve)

-----------------------------------------------------------------------------
(* What a command ought to do.                                              *)

Flagged(args, n) == \E i \in DOMAIN FlagArgs(args) : FlagArgs(args)[i].flag = n

LastFlag(args, n) ==
    CHOOSE a \in ToSet(FlagArgs(args)) :
        \E i \in DOMAIN FlagArgs(args) :
            /\ FlagArgs(args)[i] = a /\ a.flag = n
            /\ \A j \in (i + 1)..Len(FlagArgs(args)) : FlagArgs(args)[j].flag # n

Slots(alias, args, n) == {i \in 1..Len(Words(args)) : alias.positional[i] = n}

\* A parameter that the command line gives, once.
GivenOnce(alias, args, n) == Flagged(args, n) <=> Slots(alias, args, n) = {}

\* A value of the command line: a flag's before a positional one.
FromLine(alias, args, n) ==
    IF Flagged(args, n) THEN Typed(LastFlag(args, n))
    ELSE Parsed(<<Words(args)[CHOOSE i \in Slots(alias, args, n) :
                                \A j \in Slots(alias, args, n) : j <= i].word>>)

Unbound(alias, args) ==
    {n \in DOMAIN alias.defaults : ~Flagged(args, n) /\ Slots(alias, args, n) = {}}

\* Defaults only refer to what the command line gives, once.
Direct(alias, args) ==
    \A n \in Unbound(alias, args) : \A i \in DOMAIN alias.defaults[n] :
        alias.defaults[n][i] \in Param => GivenOnce(alias, args, alias.defaults[n][i])

Ought(alias, args, n) ==
    IF n \notin Unbound(alias, args) THEN FromLine(alias, args, n)
    ELSE LET template == alias.defaults[n]
         IN  Parsed(FlattenSeq([i \in DOMAIN template |->
                IF template[i] \in Param THEN FromLine(alias, args, template[i]).text
                ELSE <<template[i]>>]))

-----------------------------------------------------------------------------
(* Properties.                                                              *)

\* As long as no two commands meet at a file and none is stopped while it writes, the file
\* holds what the commands that succeeded made of it; a file that is not one of aliases is
\* never written.
AliasesKept ==
    \A place \in Location \ disturbed :
        IF session.files[place].is = "garbled" THEN files[place] = Garbled
        ELSE (\A p \in Process : doing[p].place = place => Stage(p) # "write")
                => files[place].is # "garbled" /\ files[place].aliases = kept[place]

\* A pipeline run by the client is its query with every value in its place, each of them
\* the one that the command line and the alias give it; the same values make the same
\* statement at the server, unless one looks like a placeholder.  It is refused only for
\* want of what the help of the alias asks for.
CommandRunsTemplate ==
    \A p \in {q \in Process : Command(q) # Nothing /\ Command(q).verb \in {"run", "call"}} :
        LET query == doing[p].query
            bound == doing[p].bound
            args  == Command(p).args
            alias == doing[p].aliases[Command(p).name]
        IN  /\ Stage(p) \in {"register", "execute"} =>
                  /\ doing[p].statement = AtOnce(query, Literals(bound))
                  /\ Plain(query, Literals(bound)) => \A order \in Orders(query) :
                        Substituted(Template(query), order, Literals(bound)) = doing[p].statement
                  /\ Command(p).verb = "call" /\ Direct(alias, args) =>
                        \A n \in Params(query) : bound[n] = Ought(alias, args, n)
            /\ Command(p).verb = "call" /\ doing[p].answer = "missing" =>
                  \E n \in Params(query) \ {FlagArgs(args)[i].flag : i \in DOMAIN FlagArgs(args)} :
                        \/ Notes(alias, Params(query))[n] = "flag"
                        \/ Notes(alias, Params(query))[n] = "positional" /\ Slots(alias, args, n) = {}

\* What is run, by the server or by the client, is what was written, with the values that were
\* given.
StatementsAreTemplates == StatementIsTemplate /\ CommandRunsTemplate

\* Descriptions are those of the semantics files, then of the context file, whatever the
\* order of the files; files that clash are not served.  The client shows a table with its
\* own description, or else with its source's.
DescriptionsByRule ==
    /\ which = "runtime" =>
          /\ ~Clash(config.semantics)
          /\ \A on \in DOMAIN overlay \cup DOMAIN Inline(config.described)
                        \cup {Entry(config.semantics, a).on : a \in Said(config.semantics)} :
                TextOf(overlay, on) = OughtToSay(config.described, config.semantics, on)
    /\ \A p \in {q \in Process : Command(q) # Nothing /\ Command(q).verb = "schema"} :
          doing[p].answer = "ok" => \A path \in DOMAIN doing[p].shown :
              LET own    == OughtToSay(config.described, config.semantics, <<InFull(path)>>)
                  source == OughtToSay(config.described, config.semantics, <<<<Sources[doing[p].tables[path].source].name>>>>)
              IN  doing[p].shown[path] = IF own # NoText THEN own ELSE source
=============================================================================
