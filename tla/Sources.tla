------------------------------ MODULE Sources ------------------------------
(***************************************************************************)
(* From the declaration of a data source to what it reads: the store and   *)
(* the connections it opens, with which login, the tables a catalog lists, *)
(* and the version of an Iceberg table, whose writers go on meanwhile.     *)
(* What comes after (retries, building the tables) is in Server.           *)
(***************************************************************************)
EXTENDS Integers, Sequences, FiniteSets

CONSTANTS Plan,    \* sources: the declaration, the environment and what is there
          Letter,  \* characters an encoder leaves alone
          Probed,  \* versions of an Iceberg table that are probed (100)
          Commits  \* the last version its writers commit

\* A text is a sequence of characters; one that is not given is Unset.
Unset     == <<"unset">>
Localhost == <<"localhost">>

Files     == {"csv", "parquet"}
Databases == {"postgres", "mysql", "seekdb", "mongo", "redis", "influxdb"}
Catalogs  == {"postgres", "mysql", "seekdb", "sqlite"}
Writable  == {"postgres", "mysql", "seekdb", "sqlite", "mongo", "redis"}

SystemSchemas(kind) ==
    CASE kind = "postgres" -> {"pg_catalog", "information_schema", "pg_toast", "pg_temp_3"}
      [] kind = "mysql" -> {"mysql", "information_schema", "performance_schema", "sys"}
      [] kind = "seekdb" -> {"mysql", "information_schema", "performance_schema", "sys",
                             "oceanbase", "LBACSYS", "ORAAUDITOR"}
      [] OTHER -> {}

\* A name is two texts.  NOT LIKE 'sqlite_%' hides any name that begins with sqlite and goes on.
LikeSqlite(t) == t.name[1] = "sqlite" /\ t.name[2] # ""

\* What a database keeps for itself is in schemas of its own, at SQLite under names of its own.
Placed(kind, t) ==
    /\ t.type \in {"table", "view", "other"}
    /\ \/ t.owner = "user" /\ t.schema \notin SystemSchemas(kind)
       \/ /\ t.owner = "system"
          /\ t.schema \in SystemSchemas(kind) \/ (kind = "sqlite" /\ LikeSqlite(t))
       \/ t.owner = "shadow" /\ kind = "sqlite" /\ t.type = "table" /\ ~LikeSqlite(t)

\* The encoder leaves no mark of a URL alone, and a host holds none of those that end a host or a
\* login.  Versions and sequence numbers are counted from 1, and the files of an Iceberg table
\* are named in one way.
ASSUME SourcesAssumption ==
    /\ Letter \cap {"/", ":", "@"} = {}
    /\ Probed \in Nat /\ Commits \in Nat
    /\ \A p \in Plan :
        /\ p.declared.write \in BOOLEAN /\ p.declared.size \in Nat
        /\ p.environment.user \in Seq(STRING) /\ p.environment.pass \in Seq(STRING)
        /\ p.declared.url.host \in Seq(STRING)
        /\ \A i \in DOMAIN p.declared.url.host : p.declared.url.host[i] \notin {"/", "@"}
        /\ p.declared.kind \in Catalogs => \A t \in p.upstream.tables : Placed(p.declared.kind, t)
        /\ p.metadata \in [named : SUBSET (1..Commits), sequenced : SUBSET (1..Commits),
                           hint : {"none", "number", "garbled"}, hinted : 0..Commits]
        /\ p.metadata.named = {} \/ p.metadata.sequenced = {}

VARIABLES
    declared,    \* declaration: kind, catalog, write, url, s3, given (its options), allowed, size
    environment, \* user, pass, token, region, region2, key, secret, session, profile
    upstream,    \* is the path there, with which key, and the tables of the database
    metadata,    \* versions of an Iceberg table: by name, by sequence, and the hint
    stage,       \* what is done next, or how it ended
    stores,      \* object stores of the session
    opened,      \* connections
    listed,      \* tables of the catalog
    version      \* Iceberg: which one is probed and was found; ghosts: which were promised, and
                 \* which of those there could not be read when they were probed

sourceVars == <<declared, environment, upstream, metadata, stage, stores, opened, listed, version>>

Opt(o)  == o \in declared.given
Kind(k) == declared.kind \in k

Least(S)    == CHOOSE i \in S : \A j \in S : i <= j
Greatest(S) == CHOOSE i \in S : \A j \in S : j <= i

Refuse == stage' = "refused" /\ UNCHANGED <<stores, opened, listed, version>>
Stay   == UNCHANGED <<declared, environment, upstream, metadata>>
Then(next) == stage' = next /\ UNCHANGED <<stores, opened, listed, version>>

-----------------------------------------------------------------------------
(* The declaration, and the place it names.                                 *)

SourcesInit ==
    /\ \E p \in Plan : /\ declared = p.declared /\ environment = p.environment
                       /\ upstream = p.upstream /\ metadata = p.metadata
    /\ stage = "declared" /\ stores = {} /\ opened = <<>> /\ listed = {}
    /\ version = [probe |-> 0, promised |-> {}, unread |-> {}, found |-> 0]

\* Credentials of a store are not taken from the file.
ForbiddenKeys == {"aws_access_key_id", "aws_secret_access_key", "aws_session_token", "aws_region"}
InStore == Kind(Files \cup {"lance"}) /\ declared.s3

Valid ==
    /\ declared.write => Kind(Writable)
    /\ Kind(Catalogs) /\ declared.catalog =>
          /\ ~Opt("table") /\ ~Opt("schema")
          /\ Opt("allowed_schemas") => declared.allowed # {}
    /\ InStore => declared.given \cap ForbiddenKeys = {}
    /\ Kind(Databases) => Opt("connection_string")

Validate == /\ stage = "declared" /\ Stay
            /\ IF Valid THEN Then("locate") ELSE Refuse

\* A local file must be there; a Lance dataset that is not, or is not a local directory, waits for
\* a job to make it.
Locate ==
    /\ stage = "locate" /\ Stay
    /\ IF InStore THEN Then("store")
       ELSE IF Kind(Files \cup {"sqlite"}) /\ ~declared.s3 /\ ~upstream.there THEN Refuse
       ELSE IF Kind({"lance"}) /\ ~upstream.there THEN Then("deferred")
       ELSE IF Kind(Files \cup {"lance"}) THEN Then("registered")
       ELSE Then("options")

\* The login of a store: the keys of the environment, or what the library finds for a profile.
Login(by, key, secret, session) == [by |-> by, key |-> key, secret |-> secret, session |-> session]
StoreLogin ==
    IF environment.key # Unset
    THEN Login("keys", environment.key, environment.secret, environment.session)
    ELSE Login("profile", environment.profile, Unset, Unset)

Region == IF environment.region # Unset THEN environment.region ELSE environment.region2

StoreSetUp ==
    /\ Region # Unset
    /\ environment.key # Unset \/ environment.profile # Unset
    /\ environment.key # Unset => environment.secret # Unset

Store(region, login, asked) == [region |-> region, login |-> login, asked |-> asked]

\* setup_object_store: the object is asked for before the store is registered.
SetUpStore ==
    /\ stage = "store" /\ Stay
    /\ \/ Refuse
       \/ /\ StoreSetUp /\ upstream.there
          /\ StoreLogin.by = "keys" => StoreLogin.key = upstream.key
          /\ stores' = stores \cup {Store(Region, StoreLogin, TRUE)}
          /\ stage' = IF Kind({"lance"}) THEN "deferred" ELSE "registered"
          /\ UNCHANGED <<opened, listed, version>>

-----------------------------------------------------------------------------
(* Options.                                                                 *)

Required ==
    CASE Kind({"postgres", "mysql", "seekdb", "sqlite"}) ->
            IF declared.catalog THEN {} ELSE {"table"}
      [] Kind({"mongo"}) -> {"database", "collection", "primary_key"}
      [] Kind({"redis"}) -> {"key_space", "table"}
      [] Kind({"iceberg"}) -> {"namespace", "table"}
      [] OTHER -> {}

\* A variable that is named must be set.
Var(o, text) == IF Opt(o) THEN text ELSE Unset
User == Var("user_env", environment.user)
Pass == Var("pass_env", environment.pass)
LoginSet == /\ Opt("user_env") => environment.user # Unset
            /\ Opt("pass_env") => environment.pass # Unset

\* build_flight_options: a passthrough header stands for the database, and wins over it.
InfluxOptions ==
    /\ \E o \in {"query", "measurement", "table"} : Opt(o)
    /\ Opt("database") \/ Opt("flight.sql.header.database")
    /\ IF Opt("token_env") THEN environment.token \notin {Unset, <<>>} ELSE ~Opt("blank token")

Token == CASE Opt("token_env") -> environment.token
           [] ~Opt("token_env") /\ Opt("token") -> <<"own token">>
           [] OTHER -> Unset
Header(o, text) == IF Opt(o) THEN <<"passed through">> ELSE text

OptionsGiven ==
    /\ Required \subseteq declared.given
    /\ Kind({"postgres", "mysql", "seekdb", "mongo"}) => LoginSet
    /\ Kind({"mongo"}) => declared.url.host # Unset
    /\ Kind({"influxdb"}) => InfluxOptions

\* build_file_io: keys and region of the options, the region also of the environment.
FileIo ==
    Store(IF Opt("aws_region") THEN <<"own region">> ELSE Region,
          Login("options", Var("aws_access_key_id", <<"own key">>),
                Var("aws_secret_access_key", <<"own secret">>), Unset),
          FALSE)

CheckOptions ==
    /\ stage = "options" /\ Stay
    /\ IF ~OptionsGiven THEN Refuse
       ELSE /\ stage' = IF Kind({"iceberg"}) THEN "hint" ELSE "open"
            /\ stores' = IF Kind({"iceberg"}) /\ declared.s3 THEN {FileIo} ELSE stores
            /\ UNCHANGED <<opened, listed, version>>

-----------------------------------------------------------------------------
(* Addresses.  The drivers of Postgres' second pool and of Mongo take one    *)
(* URL, put together here and taken apart there; the others take parameters. *)

Plain(t) == [i \in DOMAIN t |-> [char |-> t[i], escaped |-> FALSE]]

\* Mutant: the login is put into the URL as it is.
NotEncoded(t) == Plain(t)

Encoded(t) == [i \in DOMAIN t |-> [char |-> t[i], escaped |-> t[i] \notin Letter]]

LoginUrl(user, pass, host) ==
    IF user = Unset THEN Plain(host)
    ELSE Encoded(user) \o (IF pass = Unset THEN <<>> ELSE Plain(<<":">>) \o Encoded(pass))
            \o Plain(<<"@">> \o host)

\* How a driver reads it: the authority ends at the first /, the login at the last @ of it, the
\* name at the first : of the login.
ReadUrl(url) ==
    LET marks(c) == {i \in DOMAIN url : url[i].char = c /\ ~url[i].escaped}
        end   == IF marks("/") = {} THEN Len(url) ELSE Least(marks("/")) - 1
        at    == Greatest({0} \cup {i \in marks("@") : i <= end})
        colon == Least({at} \cup {i \in marks(":") : i < at})
        text(i, j) == [k \in 1..(j - i + 1) |-> url[i + k - 1].char]
    IN  [user |-> IF at = 0 THEN Unset ELSE text(1, colon - 1),
         pass |-> IF colon = at THEN Unset ELSE text(colon + 1, at - 1),
         host |-> text(at + 1, end)]

DefaultPort == CASE Kind({"postgres"}) -> 5432 [] Kind({"mysql"}) -> 3306
                 [] Kind({"seekdb"}) -> 2881 [] Kind({"mongo"}) -> 27017 [] OTHER -> 0

Port == CASE declared.url.port # 0 -> declared.url.port
          [] declared.url.port = 0 /\ declared.url.srv -> 0
          [] OTHER -> DefaultPort

\* The database of the URL: all of the path, for MySQL's protocol its first segment.
Database ==
    LET path == declared.url.db
    IN  IF Kind({"mysql", "seekdb"}) /\ path # <<>> THEN <<path[1]>> ELSE path

Connection(host, user, pass, db, query) ==
    [host |-> host, port |-> Port, user |-> user, pass |-> pass, db |-> db, query |-> query]

ByUrl(host, db, query) ==
    LET read == ReadUrl(LoginUrl(User, Pass, host))
    IN  Connection(read.host, read.user, read.pass, db, query)

FirstConnection ==
    LET url == declared.url
    IN  CASE Kind({"mongo"}) -> ByUrl(url.host, <<>>, {})
          [] Kind({"redis"}) -> Connection(url.host, url.user, url.pass, url.db, url.query)
          [] Kind({"influxdb"}) ->
                Connection(url.host, Unset, Header("flight.sql.header.authorization", Token),
                           Header("flight.sql.header.database", <<"database">>), {})
          [] Kind({"mysql", "seekdb"}) -> Connection(url.host, User, Pass, Database, {})
          [] OTHER -> Connection(url.host, User, Pass, Database, url.query)

\* A connection that cannot be made, or is refused, ends the registration.
Open(connection, next) ==
    \/ Refuse
    \/ /\ opened' = Append(opened, connection) /\ stage' = next
       /\ UNCHANGED <<stores, listed, version>>

Listing == IF declared.catalog THEN "list" ELSE "registered"

OpenFirst ==
    /\ stage = "open" /\ Kind(Databases) /\ Stay
    /\ Open(FirstConnection, IF Kind({"postgres"}) THEN "open second" ELSE Listing)

\* Postgres writes, lists and searches over a pool of its own.
OpenSecond ==
    /\ stage = "open second" /\ Stay
    /\ Open(ByUrl(IF declared.url.host = Unset THEN Localhost ELSE declared.url.host,
                  Database, declared.url.query), Listing)

\* init_connection: the paths of the extensions must be absolute and plain.
ExtensionsLoad == ~Opt("relative extension")

\* SQLite: readers, at least one, and a writer if it may write.
OpenSqlite ==
    /\ stage = "open" /\ Kind({"sqlite"}) /\ Stay
    /\ LET readers == Greatest({1, declared.size})
       IN  \/ Refuse
           \/ /\ ExtensionsLoad /\ stage' = Listing
              /\ opened' = [i \in 1..(readers + IF declared.write THEN 1 ELSE 0) |->
                               [write |-> i > readers]]
              /\ UNCHANGED <<stores, listed, version>>

-----------------------------------------------------------------------------
(* Tables of a catalog.                                                     *)

Allowed(t) == Opt("allowed_schemas") => t.schema \in declared.allowed

Listable(t) ==
    /\ t.type \in {"table", "view"} /\ t.schema \notin SystemSchemas(declared.kind) /\ Allowed(t)
    /\ Kind({"sqlite"}) => ~LikeSqlite(t)

ListTables ==
    /\ stage = "list" /\ Stay
    /\ \/ Refuse
       \/ /\ listed' = {t \in upstream.tables : Listable(t)}
          /\ stage' = "registered" /\ UNCHANGED <<stores, opened, version>>

-----------------------------------------------------------------------------
(* Iceberg: the latest metadata, while others commit and expire versions.    *)

Newest == Greatest({0} \cup metadata.named)
Hinted == IF metadata.hint = "garbled" THEN 1 ELSE metadata.hinted

\* The versions that one who finds no hint may count on: those that are there, as far as they are
\* probed.
Seen == IF metadata.named = {} THEN metadata.sequenced ELSE metadata.named \cap 1..Probed

FoundAt(v) == [version EXCEPT !.found = v]

\* A hint that cannot be read, or is no text, is as none.
ReadHint ==
    /\ stage = "hint" /\ Stay /\ UNCHANGED <<stores, opened, listed>>
    /\ \/ /\ metadata.hint # "none" /\ stage' = "metadata"
          /\ version' = [version EXCEPT !.promised = {Hinted}, !.found = Hinted]
       \/ stage' = "probe" /\ version' = [version EXCEPT !.promised = Seen, !.probe = Probed]

\* So is a version that is there and cannot be read.
ProbeVersion ==
    /\ stage = "probe" /\ version.probe > 0 /\ Stay /\ UNCHANGED <<stores, opened, listed>>
    /\ \/ version.probe \in metadata.named /\ stage' = "metadata" /\ version' = FoundAt(version.probe)
       \/ /\ stage' = "probe"
          /\ version' = [version EXCEPT !.probe = @ - 1,
                                        !.unread = @ \cup ({version.probe} \cap metadata.named)]

\* find_pyiceberg_metadata: the highest sequence number, of a local directory.
ReadSequence ==
    /\ stage = "probe" /\ version.probe = 0 /\ Stay
    /\ \/ Refuse
       \/ /\ ~declared.s3 /\ metadata.sequenced # {}
          /\ version' = FoundAt(Greatest(metadata.sequenced))
          /\ stage' = "registered" /\ UNCHANGED <<stores, opened, listed>>

\* The file may be gone by now.
LoadMetadata ==
    /\ stage = "metadata" /\ Stay
    /\ Refuse \/ (version.found \in metadata.named /\ Then("registered"))

Others == UNCHANGED <<declared, environment, upstream, stage, stores, opened, listed, version>>

\* A writer puts a version there and then lets the hint name it.
Commit ==
    /\ Kind({"iceberg"}) /\ metadata.named # {} /\ Newest < Commits /\ Others
    /\ metadata' = [metadata EXCEPT !.named = @ \cup {Newest + 1}]

NameNewest ==
    /\ Kind({"iceberg"}) /\ metadata.hint = "number" /\ metadata.hinted # Newest /\ Others
    /\ metadata' = [metadata EXCEPT !.hinted = Newest]

\* Expiry takes the oldest versions first, and leaves the one the hint names.
Expire ==
    /\ Kind({"iceberg"}) /\ Cardinality(metadata.named) > 1 /\ Others
    /\ metadata.hint = "number" => Least(metadata.named) < metadata.hinted
    /\ metadata' = [metadata EXCEPT !.named = @ \ {Least(@)}]

-----------------------------------------------------------------------------

SourcesNext ==
    \/ Validate \/ Locate \/ SetUpStore \/ CheckOptions \/ OpenFirst \/ OpenSecond \/ OpenSqlite
    \/ ListTables \/ ReadHint \/ ProbeVersion \/ ReadSequence \/ LoadMetadata
    \/ Commit \/ NameNewest \/ Expire

SourcesSpec == SourcesInit /\ [][SourcesNext]_sourceVars

-----------------------------------------------------------------------------
(* Properties.                                                              *)

\* Every connection goes to the host and port of the declaration, with the login of the variables
\* it names, whatever characters they hold, but for a password without a user, which a URL has no
\* place for; a login in the URL counts at Redis only.  Both connections of Postgres are alike.
ConnectionsDeclared ==
    LET own(c) == /\ declared.url.host # Unset => c.host = declared.url.host
                  /\ declared.url.port # 0 => c.port = declared.url.port
                  /\ Kind({"postgres", "mysql", "seekdb", "mongo"}) =>
                        /\ c.user = User
                        /\ c.pass = Pass \/ (c.pass = Unset /\ User = Unset)
                  /\ Kind({"influxdb"}) => c.pass # <<>>
    IN  /\ Kind(Databases) => \A i \in DOMAIN opened : own(opened[i])
        /\ Kind({"postgres"}) /\ Len(opened) = 2 /\ (Pass # Unset => User # Unset)
                /\ declared.url.host # Unset =>
              opened[1] = opened[2]

\* A store of the session has been asked for the object of its source, with a login that the
\* environment gives in full and nothing of the file.  An Iceberg table is not asked for, and its
\* keys are the file's.
StoresChecked ==
    \A s \in stores :
       /\ s.asked <=> ~Kind({"iceberg"})
       /\ s.asked => /\ upstream.there /\ Unset \notin {s.login.key, s.region}
                     /\ s.login.by = "keys" => s.login.secret # Unset
                     /\ declared.given \cap ForbiddenKeys = {}

\* The first connection to a SQLite database reads, and one writes only if the source may.
SqliteReadsFirst ==
    Kind({"sqlite"}) /\ opened # <<>> =>
        ~opened[1].write /\ ((\E i \in DOMAIN opened : opened[i].write) <=> declared.write)

\* A catalog lists the user's own tables and views in the schemas that are allowed and nothing of
\* the database's, except that SQLite hides a name like sqlitefoo and lists the shadow tables of
\* virtual ones.
CatalogsOwn ==
    stage = "registered" /\ declared.catalog /\ Kind(Catalogs) =>
        \A t \in upstream.tables :
           t \in listed <=> \/ t.owner = "user" /\ t.type # "other" /\ Allowed(t)
                                  /\ ~(Kind({"sqlite"}) /\ LikeSqlite(t))
                            \/ t.owner = "shadow" /\ Allowed(t)

\* An Iceberg table is read as of the version its hint names, or, when there is no hint or it
\* cannot be read, no earlier than any version that was there when it was looked up, is within
\* those probed and was not passed over because its read failed; also while versions are
\* committed and expire.
VersionsRecent ==
    stage = "registered" /\ Kind({"iceberg"}) =>
        version.found > 0 /\ \A v \in version.promised \ version.unread : version.found >= v

\* A source reads what its declaration says, or is refused.
SourcesAsDeclared ==
    ConnectionsDeclared /\ StoresChecked /\ SqliteReadsFirst /\ CatalogsOwn /\ VersionsRecent
=============================================================================
