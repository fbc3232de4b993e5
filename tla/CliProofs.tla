----------------------------- MODULE CliProofs -----------------------------
(***************************************************************************)
(* Proofs about Cli: the file of aliases, which every command reads whole, *)
(* changes in memory and writes back over a file it has emptied, with no   *)
(* lock and no rename.                                                     *)
(* Then the folds over data: what is said of a table by any number of      *)
(* files, and the statement that comes of a template and its values.       *)
(***************************************************************************)
EXTENDS ServerProofs

-----------------------------------------------------------------------------
(* The inductive invariant.                                                 *)

Busy == {"loaded", "save", "write"}

CliShapes ==
    /\ session \in Sessions /\ DOMAIN files = Location /\ DOMAIN kept = Location
    /\ DOMAIN doing = Process /\ \A p \in Process : DOMAIN doing[p] = DOMAIN Fresh

\* Only a command that adds or removes gets as far as saving.
Savers == \A p \in Process : Stage(p) \in {"save", "write"} => Command(p).verb \in Keeping

\* A file that nobody can read is never opened by a command that would write it.
Untouchable(place) ==
    session.files[place].is = "garbled" =>
        files[place] = Garbled /\ \A p \in Process : ~At(p, place)

\* One command at a time has the file in hand: what it has read is what was acknowledged,
\* what it is about to save is that with its own change, and while it writes the file is empty.
InHand(place) ==
    session.files[place].is # "garbled" =>
        /\ \A p, q \in Process : At(p, place) /\ At(q, place) => p = q
        /\ \A p \in Process : At(p, place) =>
              /\ Stage(p) = "loaded" => doing[p].aliases = kept[place]
              /\ Stage(p) \in {"save", "write"} => doing[p].aliases = Acknowledged(p)
              /\ Stage(p) = "write" => files[place].is = "empty"
        /\ (\A p \in Process : At(p, place) => Stage(p) # "write")
              => files[place].is # "garbled" /\ files[place].aliases = kept[place]

AliasInv ==
    /\ CliShapes /\ Savers
    /\ \A place \in Location \ disturbed : Untouchable(place) /\ InHand(place)

-----------------------------------------------------------------------------
(* Steps.                                                                   *)

LEMMA FreshFields ==
    DOMAIN Fresh = {"stage", "place", "aliases", "pipeline", "bound", "query", "statement",
                    "at", "tables", "shown", "answer"}
BY DEF Fresh

\* A step of p that leaves the files alone, and p beyond any hold of them.
Elsewhere(p) ==
    /\ UNCHANGED <<session, files, kept>> /\ disturbed \subseteq disturbed'
    /\ Stage(p) # "write"
    /\ DOMAIN doing' = Process /\ DOMAIN doing'[p] = DOMAIN Fresh
    /\ doing'[p].stage \notin Busy
    /\ \A q \in Process \ {p} : doing'[q] = doing[q]

LEMMA ElsewhereKeeps ==
    ASSUME AliasInv, NEW p \in Process, Elsewhere(p) PROVE AliasInv'
<1>1. CliShapes' /\ Savers'
  BY DEF AliasInv, CliShapes, Savers, Elsewhere, Stage, Command, Busy
<1>2. ASSUME NEW place \in Location \ disturbed' PROVE Untouchable(place)' /\ InHand(place)'
  <2>1. Untouchable(place) /\ InHand(place)
    BY <1>2 DEF AliasInv, Elsewhere
  <2>2. \A q \in Process : At(q, place)' => At(q, place) /\ q # p /\ doing'[q] = doing[q]
    BY DEF At, Elsewhere, Stage, Command, Busy
  <2>3. \A q \in Process : At(q, place) /\ q # p => At(q, place)'
    BY DEF At, Elsewhere, Stage, Command
  <2>4. \A q \in Process : q # p => (Acknowledged(q)' = Acknowledged(q) /\ Stage(q)' = Stage(q))
    BY DEF Acknowledged, Elsewhere, Command, Stage, Over
  <2>5. UNCHANGED <<session, files, kept>> /\ Stage(p) # "write"
    BY DEF Elsewhere
  <2>6. Untouchable(place)'
    BY <2>1, <2>2, <2>5 DEF Untouchable, Garbled
  <2>7. InHand(place)'
    <3>1. \A q \in Process : At(q, place) /\ q # p => doing'[q] = doing[q]
      BY DEF Elsewhere
    <3> QED BY <2>1, <2>2, <2>3, <2>4, <2>5, <3>1 DEF InHand
  <2> QED BY <2>6, <2>7
<1> QED BY <1>1, <1>2 DEF AliasInv

LEMMA QuietElsewhere ==
    ASSUME AliasInv, NEW p \in Process,
           \/ ShowAliases(p) \/ CallAlias(p) \/ StartRun(p) \/ Prepare(p) \/ Open(p)
           \/ RegisterSource(p) \/ Registered(p) \/ Execute(p) \/ Describe(p) \/ AskServer(p)
    PROVE  Elsewhere(p)
<1>1. DOMAIN doing = Process /\ DOMAIN doing[p] = DOMAIN Fresh
  BY DEF AliasInv, CliShapes
<1>2. UNCHANGED <<session, files, kept>> /\ disturbed \subseteq disturbed' /\ Stage(p) # "write"
  BY DEF ShowAliases, CallAlias, StartRun, Prepare, Open, RegisterSource, Registered, Execute,
     Describe, AskServer, FilesKept, ClientOnly
<1>3. \A answer : Ends(p, answer) => Elsewhere(p)
  BY <1>1, <1>2, FreshFields DEF Ends, Elsewhere, Busy
<1>4. \A pipeline, bound : Prepares(p, pipeline, bound) => Elsewhere(p)
  BY <1>1, <1>2, FreshFields DEF Prepares, Elsewhere, Busy
<1>5. CASE ShowAliases(p)
  <2>1. ASSUME NEW shown, doing' = [doing EXCEPT ![p].stage = "done", ![p].answer = "ok",
                                                 ![p].shown = shown]
        PROVE  Elsewhere(p)
    BY <1>1, <1>2, <2>1, FreshFields DEF Elsewhere, Busy
  <2> QED BY <1>3, <1>5, <2>1 DEF ShowAliases
<1>6. CASE CallAlias(p) \/ StartRun(p)
  BY <1>3, <1>4, <1>6 DEF CallAlias, StartRun
<1>7. CASE Prepare(p)
  <2>1. ASSUME NEW query, NEW statement,
               doing' = [doing EXCEPT ![p].stage = NextSession, ![p].query = query,
                                      ![p].statement = statement]
        PROVE  Elsewhere(p)
    BY <1>1, <1>2, <2>1, FreshFields DEF Elsewhere, Busy, NextSession
  <2>2. ASSUME NEW query, doing' = [doing EXCEPT ![p].stage = "done", ![p].query = query,
                                                 ![p].answer = "missing"]
        PROVE  Elsewhere(p)
    BY <1>1, <1>2, <2>2, FreshFields DEF Elsewhere, Busy
  <2> QED BY <1>3, <1>7, <2>1, <2>2 DEF Prepare
<1>8. CASE Open(p)
  <2>1. ASSUME NEW query, doing' = [doing EXCEPT ![p].stage = NextSession, ![p].query = query]
        PROVE  Elsewhere(p)
    BY <1>1, <1>2, <2>1, FreshFields DEF Elsewhere, Busy, NextSession
  <2> QED BY <1>3, <1>8, <2>1 DEF Open
<1>9. CASE RegisterSource(p)
  <2>1. ASSUME NEW n, NEW fresh,
               doing' = [doing EXCEPT ![p].at = n, ![p].tables = Over(fresh, @)]
        PROVE  Elsewhere(p)
    BY <1>1, <1>2, <1>9, <2>1, FreshFields DEF Elsewhere, Busy, RegisterSource, Stage
  <2> QED BY <1>3, <1>9, <2>1 DEF RegisterSource
<1>10. CASE Registered(p)
  <2>1. ASSUME NEW stage \in {"describe", "execute"}, doing' = [doing EXCEPT ![p].stage = stage]
        PROVE  Elsewhere(p)
    BY <1>1, <1>2, <2>1, FreshFields DEF Elsewhere, Busy
  <2> QED BY <1>10, <2>1 DEF Registered
<1>11. CASE Execute(p) \/ AskServer(p)
  BY <1>3, <1>11 DEF Execute, AskServer
<1>12. CASE Describe(p)
  <2>1. ASSUME NEW shown, doing' = [doing EXCEPT ![p].stage = "done", ![p].answer = "ok",
                                                 ![p].shown = shown]
        PROVE  Elsewhere(p)
    BY <1>1, <1>2, <2>1, FreshFields DEF Elsewhere, Busy
  <2> QED BY <1>3, <1>12, <2>1 DEF Describe
<1> QED BY <1>5, <1>6, <1>7, <1>8, <1>9, <1>10, <1>11, <1>12

\* A step of p at the file it has in hand, or at the one it takes in hand.
AtFile(p) ==
    /\ UNCHANGED session /\ disturbed \subseteq disturbed'
    /\ DOMAIN files' = Location /\ DOMAIN kept' = Location
    /\ DOMAIN doing' = Process /\ DOMAIN doing'[p] = DOMAIN Fresh
    /\ \A q \in Process \ {p} : doing'[q] = doing[q]
    /\ doing'[p].stage \in {"save", "write"} => Command(p).verb \in Keeping
    /\ \A place \in Location : files'[place] # files[place] \/ kept'[place] # kept[place]
          => At(p, place)

\* What it owes the place it has in hand, before or after.
Owes(p) ==
    \A place \in Location \ disturbed' :
        At(p, place) \/ At(p, place)' => Untouchable(place)' /\ InHand(place)'

LEMMA AtFileKeeps ==
    ASSUME AliasInv, NEW p \in Process, AtFile(p), Owes(p) PROVE AliasInv'
<1>1. CliShapes' /\ Savers'
  BY DEF AliasInv, CliShapes, Savers, AtFile, Stage, Command
<1>2. ASSUME NEW place \in Location \ disturbed', ~At(p, place), ~At(p, place)'
      PROVE  Untouchable(place)' /\ InHand(place)'
  <2>1. Untouchable(place) /\ InHand(place)
    BY <1>2 DEF AliasInv, AtFile
  <2>2. /\ UNCHANGED session /\ files'[place] = files[place] /\ kept'[place] = kept[place]
    BY <1>2 DEF AtFile
  <2>3. \A q \in Process : /\ At(q, place)' <=> At(q, place)
                           /\ At(q, place) => /\ doing'[q] = doing[q] /\ Stage(q)' = Stage(q)
                                              /\ doing[q].place = place
    BY <1>2 DEF At, AtFile, Stage, Command
  <2>4. \A q \in Process : At(q, place) => Acknowledged(q)' = Acknowledged(q)
    <3> SUFFICES ASSUME NEW q \in Process, At(q, place) PROVE Acknowledged(q)' = Acknowledged(q)
      OBVIOUS
    <3>1. /\ doing'[q] = doing[q] /\ doing[q].place = place /\ session' = session
          /\ kept'[place] = kept[place]
      BY <2>2, <2>3
    <3>2. Command(q)' = Command(q) /\ kept'[doing'[q].place] = kept[doing[q].place]
      BY <3>1 DEF Command
    <3> QED BY <3>1, <3>2 DEF Acknowledged
  <2> QED BY <2>1, <2>2, <2>3, <2>4 DEF Untouchable, InHand, Garbled
<1> QED BY <1>1, <1>2 DEF AliasInv, Owes

LEMMA LoadKeeps ==
    ASSUME AliasInv, NEW p \in Process, LoadAliases(p) PROVE AliasInv'
<1> DEFINE place == AliasPlace(Command(p))
<1>1. /\ DOMAIN doing = Process /\ DOMAIN doing[p] = DOMAIN Fresh
      /\ DOMAIN files = Location /\ DOMAIN kept = Location
      /\ Stage(p) = "start" /\ UNCHANGED <<session, files, kept>> /\ disturbed \subseteq disturbed'
  BY DEF LoadAliases, AliasInv, CliShapes, ClientOnly
<1>2. CASE Ends(p, "bad file")
  BY <1>1, <1>2, FreshFields, ElsewhereKeeps DEF Ends, Elsewhere, Busy
<1>3. CASE /\ Loadable(files[place])
           /\ doing' = [doing EXCEPT ![p].stage = "loaded", ![p].place = place,
                                     ![p].aliases = files[place].aliases]
  <2>1. /\ doing'[p].stage = "loaded" /\ doing'[p].place = place
        /\ doing'[p].aliases = files[place].aliases
        /\ DOMAIN doing' = Process /\ DOMAIN doing'[p] = DOMAIN Fresh
        /\ \A q \in Process \ {p} : doing'[q] = doing[q]
    BY <1>1, <1>3, FreshFields
  <2>2. AtFile(p)
    BY <1>1, <2>1 DEF AtFile
  <2>3. ASSUME NEW l \in Location \ disturbed', At(p, l) \/ At(p, l)'
        PROVE  Untouchable(l)' /\ InHand(l)'
    <3>1. l = place /\ Command(p).verb \in Keeping /\ ~At(p, l)
      BY <1>1, <2>1, <2>3 DEF At, Stage, Command
    <3>2. \A q \in Process \ {p} : ~At(q, l)
      BY <2>3, <3>1 DEF LoadAliases
    <3>3. Untouchable(l) /\ InHand(l) /\ session.files[l].is # "garbled"
      BY <1>1, <1>3, <2>3, <3>1 DEF AliasInv, Untouchable, Loadable, Garbled
    <3>4. files[l].aliases = kept[l] /\ files[l].is # "garbled"
      BY <3>1, <3>2, <3>3 DEF InHand
    <3>5. \A q \in Process : At(q, l)' => q = p
      BY <1>1, <2>1, <3>2 DEF At, Stage, Command
    <3>6. Stage(p)' = "loaded" /\ doing'[p].aliases = kept'[l]
      BY <1>1, <2>1, <3>1, <3>4 DEF Stage
    <3> QED BY <1>1, <3>3, <3>4, <3>5, <3>6 DEF Untouchable, InHand
  <2> QED BY <2>2, <2>3, AtFileKeeps DEF Owes
<1> QED BY <1>2, <1>3 DEF LoadAliases

\* The aliases a command is about to save are those that are acknowledged, with its change.
LEMMA SaveKeeps ==
    ASSUME AliasInv, NEW p \in Process, NEW new, Save(p, new), FilesKept,
           Stage(p) = "loaded", Command(p).verb \in Keeping,
           LET name == Command(p).name  old == doing[p].aliases
           IN  new = IF Command(p).verb = "add" THEN Over([n \in {name} |-> Named(Command(p))], old)
                     ELSE [n \in DOMAIN old \ {name} |-> old[n]]
    PROVE  AliasInv'
<1>1. /\ DOMAIN doing = Process /\ DOMAIN doing[p] = DOMAIN Fresh
      /\ DOMAIN files = Location /\ DOMAIN kept = Location
      /\ UNCHANGED <<session, files, kept, disturbed>>
  BY DEF FilesKept, AliasInv, CliShapes, ClientOnly
<1>2. /\ doing'[p].stage = "save" /\ doing'[p].place = doing[p].place /\ doing'[p].aliases = new
      /\ DOMAIN doing' = Process /\ DOMAIN doing'[p] = DOMAIN Fresh
      /\ \A q \in Process \ {p} : doing'[q] = doing[q]
  BY <1>1, FreshFields DEF Save
<1>3. AtFile(p)
  BY <1>1, <1>2 DEF AtFile
<1>4. ASSUME NEW l \in Location \ disturbed', At(p, l) \/ At(p, l)'
      PROVE  Untouchable(l)' /\ InHand(l)'
  <2>1. doing[p].place = l /\ At(p, l)
    BY <1>1, <1>2, <1>4 DEF At, Stage, Command
  <2>2. Untouchable(l) /\ InHand(l) /\ session.files[l].is # "garbled"
    BY <1>1, <1>4, <2>1 DEF AliasInv, Untouchable
  <2>3. doing[p].aliases = kept[l] /\ (\A q \in Process : At(q, l) => q = p)
        /\ files[l].is # "garbled" /\ files[l].aliases = kept[l]
    BY <2>1, <2>2 DEF InHand
  <2>4. \A q \in Process : At(q, l)' => q = p
    BY <1>1, <1>2, <2>3 DEF At, Stage, Command
  <2>5. Acknowledged(p)' = new
    <3>1. doing'[p].place = l /\ kept' = kept /\ Command(p)' = Command(p)
      BY <1>1, <1>2, <2>1 DEF Command
    <3>2. CASE Command(p).verb = "add"
      <4>1. new[Command(p).name] = Named(Command(p))
        BY <3>2 DEF Over
      <4> QED BY <1>2, <2>3, <3>1, <3>2, <4>1 DEF Acknowledged
    <3>3. CASE Command(p).verb # "add"
      BY <1>2, <2>3, <3>1, <3>3 DEF Acknowledged
    <3> QED BY <3>2, <3>3
  <2>6. Stage(p)' = "save"
    BY <1>2 DEF Stage
  <2> QED BY <1>1, <1>2, <2>2, <2>3, <2>4, <2>5, <2>6 DEF Untouchable, InHand
<1> QED BY <1>3, <1>4, AtFileKeeps DEF Owes

LEMMA AddKeeps ==
    ASSUME AliasInv, NEW p \in Process, AddAlias(p) \/ RemoveAlias(p) PROVE AliasInv'
<1>1. /\ DOMAIN doing = Process /\ DOMAIN doing[p] = DOMAIN Fresh
      /\ Stage(p) = "loaded" /\ Command(p).verb \in Keeping /\ FilesKept
  BY DEF AddAlias, RemoveAlias, AliasInv, CliShapes, Keeping
<1>2. \A answer : Ends(p, answer) => AliasInv'
  <2>1. \A answer : Ends(p, answer) => Elsewhere(p)
    BY <1>1, FreshFields DEF Ends, Elsewhere, Busy, FilesKept, ClientOnly
  <2> QED BY <2>1, ElsewhereKeeps
<1>3. CASE AddAlias(p)
  <2> DEFINE new == Over([n \in {Command(p).name} |-> Named(Command(p))], doing[p].aliases)
  <2>1. Command(p).verb = "add"
    BY <1>3 DEF AddAlias
  <2>2. Save(p, new) => AliasInv'
    BY <1>1, <2>1, SaveKeeps
  <2>3. Save(p, new) \/ \E answer \in {"exists", "bad pipelines", "no parameter"} : Ends(p, answer)
    BY <1>3 DEF AddAlias
  <2> QED BY <1>2, <2>2, <2>3
<1>4. CASE RemoveAlias(p)
  <2> DEFINE new == [n \in DOMAIN doing[p].aliases \ {Command(p).name} |-> doing[p].aliases[n]]
  <2>1. Command(p).verb = "remove"
    BY <1>4 DEF RemoveAlias
  <2>2. Save(p, new) => AliasInv'
    BY <1>1, <2>1, SaveKeeps
  <2>3. Save(p, new) \/ Ends(p, "not found")
    BY <1>4 DEF RemoveAlias
  <2> QED BY <1>2, <2>2, <2>3
<1> QED BY <1>3, <1>4

LEMMA TruncateKeeps ==
    ASSUME AliasInv, NEW p \in Process, Truncate(p) PROVE AliasInv'
<1> DEFINE place == doing[p].place
<1>1. /\ DOMAIN doing = Process /\ DOMAIN doing[p] = DOMAIN Fresh
      /\ DOMAIN files = Location /\ DOMAIN kept = Location
      /\ Stage(p) = "save" /\ Command(p).verb \in Keeping
      /\ UNCHANGED <<session, kept, disturbed>>
  BY DEF Truncate, AliasInv, CliShapes, Savers, ClientOnly
<1>2. CASE Ends(p, "not saved") /\ UNCHANGED files
  <2>1. Elsewhere(p)
    BY <1>1, <1>2, FreshFields DEF Ends, Elsewhere, Busy
  <2> QED BY <2>1, ElsewhereKeeps
<1>3. CASE /\ doing' = [doing EXCEPT ![p].stage = "write"]
           /\ files' = [files EXCEPT ![place] = [is |-> "empty", aliases |-> <<>>]]
  <2>1. /\ doing'[p].stage = "write" /\ doing'[p].place = place
        /\ doing'[p].aliases = doing[p].aliases
        /\ DOMAIN doing' = Process /\ DOMAIN doing'[p] = DOMAIN Fresh
        /\ \A q \in Process \ {p} : doing'[q] = doing[q]
    BY <1>1, <1>3, FreshFields
  <2>2. AtFile(p)
    BY <1>1, <1>3, <2>1 DEF AtFile, At
  <2>3. ASSUME NEW l \in Location \ disturbed', At(p, l) \/ At(p, l)'
        PROVE  Untouchable(l)' /\ InHand(l)'
    <3>1. place = l /\ At(p, l) /\ files'[l].is = "empty"
      BY <1>1, <1>3, <2>1, <2>3 DEF At, Stage, Command
    <3>2. Untouchable(l) /\ InHand(l) /\ session.files[l].is # "garbled"
      BY <1>1, <2>3, <3>1 DEF AliasInv, Untouchable
    <3>3. doing[p].aliases = Acknowledged(p) /\ (\A q \in Process : At(q, l) => q = p)
      BY <1>1, <3>1, <3>2 DEF InHand
    <3>4. \A q \in Process : At(q, l)' => q = p
      BY <1>1, <2>1, <3>3 DEF At, Stage, Command
    <3>5. Acknowledged(p)' = Acknowledged(p)
      BY <1>1, <2>1 DEF Acknowledged, Command
    <3>6. Stage(p)' = "write" /\ At(p, l)'
      BY <1>1, <2>1, <3>1 DEF Stage, At, Command
    <3> QED BY <1>1, <2>1, <3>1, <3>2, <3>3, <3>4, <3>5, <3>6 DEF Untouchable, InHand
  <2> QED BY <2>2, <2>3, AtFileKeeps DEF Owes
<1> QED BY <1>2, <1>3 DEF Truncate

LEMMA WriteOutKeeps ==
    ASSUME AliasInv, NEW p \in Process, WriteOut(p) PROVE AliasInv'
<1> DEFINE place == doing[p].place
<1>1. /\ DOMAIN doing = Process /\ DOMAIN doing[p] = DOMAIN Fresh
      /\ DOMAIN files = Location /\ DOMAIN kept = Location
      /\ Stage(p) = "write" /\ Command(p).verb \in Keeping
      /\ UNCHANGED <<session, disturbed>>
      /\ kept' = [kept EXCEPT ![place] = Acknowledged(p)]
      /\ \/ files' = [files EXCEPT ![place] = Written(p)]
         \/ files[place].is # "empty" /\ files' = [files EXCEPT ![place] = Garbled]
  BY DEF WriteOut, AliasInv, CliShapes, Savers, ClientOnly
<1>2. /\ doing'[p].stage = "done" /\ doing'[p].place = place
      /\ DOMAIN doing' = Process /\ DOMAIN doing'[p] = DOMAIN Fresh
      /\ \A q \in Process \ {p} : doing'[q] = doing[q]
  BY <1>1, FreshFields DEF WriteOut, Ends
<1>3. AtFile(p)
  BY <1>1, <1>2 DEF AtFile, At
<1>4. ASSUME NEW l \in Location \ disturbed', At(p, l) \/ At(p, l)'
      PROVE  Untouchable(l)' /\ InHand(l)'
  <2>1. place = l /\ At(p, l)
    BY <1>1, <1>2, <1>4 DEF At, Stage, Command
  <2>2. Untouchable(l) /\ InHand(l) /\ session.files[l].is # "garbled"
    BY <1>1, <1>4, <2>1 DEF AliasInv, Untouchable
  <2>3. /\ doing[p].aliases = Acknowledged(p) /\ (\A q \in Process : At(q, l) => q = p)
        /\ files[l].is = "empty"
    BY <1>1, <2>1, <2>2 DEF InHand
  <2>4. files'[l] = Written(p) /\ kept'[l] = Acknowledged(p)
    BY <1>1, <1>4, <2>1, <2>3
  <2>5. files'[l].is # "garbled" /\ files'[l].aliases = kept'[l]
    BY <2>3, <2>4 DEF Written
  <2>6. \A q \in Process : ~At(q, l)'
    BY <1>1, <1>2, <2>3 DEF At, Stage, Command
  <2> QED BY <1>1, <2>2, <2>5, <2>6 DEF Untouchable, InHand
<1> QED BY <1>3, <1>4, AtFileKeeps DEF Owes

\* A command that is stopped, or fails, while it writes leaves the place disturbed.
LEMMA BreaksKeep ==
    ASSUME AliasInv, NEW p \in Process, WriteFails(p) \/ Kill(p) PROVE AliasInv'
<1> DEFINE place == doing[p].place
<1>1. /\ DOMAIN doing = Process /\ DOMAIN doing[p] = DOMAIN Fresh
      /\ DOMAIN files = Location /\ DOMAIN kept = Location
      /\ Stage(p) = "write" /\ Command(p).verb \in Keeping
      /\ UNCHANGED <<session, kept>> /\ disturbed' = disturbed \cup {place}
      /\ UNCHANGED files \/ files' = [files EXCEPT ![place] = Garbled]
  BY DEF WriteFails, Kill, AliasInv, CliShapes, Savers, ClientOnly
<1>2. /\ doing'[p].stage = "done" /\ doing'[p].place = place
      /\ DOMAIN doing' = Process /\ DOMAIN doing'[p] = DOMAIN Fresh
      /\ \A q \in Process \ {p} : doing'[q] = doing[q]
  <2>1. \E answer : Ends(p, answer)
    BY DEF WriteFails, Kill
  <2> QED BY <1>1, <2>1, FreshFields DEF Ends
<1>3. AtFile(p)
  BY <1>1, <1>2 DEF AtFile, At
<1>4. Owes(p)
  BY <1>1, <1>2 DEF Owes, At, Stage, Command
<1> QED BY <1>3, <1>4, AtFileKeeps

LEMMA InitAlias == CliInit => AliasInv
<1> SUFFICES ASSUME CliInit PROVE AliasInv
  OBVIOUS
<1>1. \A p \in Process : doing[p] = Fresh /\ Stage(p) = "start"
  BY DEF CliInit, Stage, Fresh
<1>2. CliShapes /\ Savers
  BY <1>1, CliAssumption DEF CliInit, CliShapes, Savers
<1>3. ASSUME NEW place \in Location PROVE Untouchable(place) /\ InHand(place)
  <2>1. \A p \in Process : ~At(p, place)
    BY <1>1 DEF At
  <2>2. files[place] = session.files[place] /\ kept[place] = session.files[place].aliases
    BY DEF CliInit
  <2> QED BY <2>1, <2>2, FileAssumption DEF Untouchable, InHand, CliInit
<1> QED BY <1>2, <1>3 DEF AliasInv

LEMMA StepAlias == AliasInv /\ [CliNext]_<<vars, cliVars>> => AliasInv'
<1> SUFFICES ASSUME AliasInv, [CliNext]_<<vars, cliVars>> PROVE AliasInv'
  OBVIOUS
<1>1. CASE UNCHANGED cliVars
  <2>1. UNCHANGED <<session, files, doing, kept, disturbed>>
    BY <1>1 DEF cliVars
  <2>2. CliShapes' /\ Savers'
    BY <2>1 DEF AliasInv, CliShapes, Savers, Stage, Command
  <2>3. ASSUME NEW place \in Location \ disturbed' PROVE Untouchable(place)' /\ InHand(place)'
    <3>1. Untouchable(place) /\ InHand(place)
      BY <2>1 DEF AliasInv
    <3>2. \A p \in Process : /\ At(p, place)' <=> At(p, place)
                             /\ Stage(p)' = Stage(p) /\ Acknowledged(p)' = Acknowledged(p)
      BY <2>1 DEF At, Stage, Command, Acknowledged, Over
    <3> QED BY <2>1, <3>1, <3>2 DEF Untouchable, InHand, Garbled
  <2> QED BY <2>2, <2>3 DEF AliasInv
<1>2. ASSUME NEW p \in Process, Client(p) PROVE AliasInv'
  BY <1>2, LoadKeeps, AddKeeps, TruncateKeeps, WriteOutKeeps, BreaksKeep, QuietElsewhere,
     ElsewhereKeeps DEF Client
<1> QED BY <1>1, <1>2 DEF CliNext, cliVars

\* Whatever commands run, in whatever order, and whatever the server does meanwhile: a file of
\* aliases that no two commands met at and none was stopped at holds what they acknowledged.
THEOREM AliasesSafe == CliSpec => []AliasesKept
<1>1. AliasInv => AliasesKept
  <2> SUFFICES ASSUME AliasInv, NEW place \in Location \ disturbed
               PROVE  IF session.files[place].is = "garbled" THEN files[place] = Garbled
                      ELSE (\A p \in Process : doing[p].place = place => Stage(p) # "write")
                              => files[place].is # "garbled" /\ files[place].aliases = kept[place]
    BY DEF AliasesKept
  <2>1. Untouchable(place) /\ InHand(place)
    BY DEF AliasInv
  <2> QED BY <2>1 DEF Untouchable, InHand, At
<1> QED BY <1>1, InitAlias, StepAlias, PTL DEF CliSpec

-----------------------------------------------------------------------------
(* Induction over the natural numbers, for a set: a number it leaves out     *)
(* would leave more numbers below it than it has successors there.           *)

LEMMA SetInduction ==
    ASSUME NEW S, 0 \in S, \A n \in Nat : n \in S => n + 1 \in S
    PROVE  Nat \subseteq S
<1> SUFFICES ASSUME NEW n \in Nat, n \notin S PROVE FALSE
  OBVIOUS
<1> DEFINE A == S \cap (0..n)
           f == [x \in A |-> x + 1]
<1>1. IsFiniteSet(A) /\ 0 \in A
  <2>1. IsFiniteSet(0..n)
    BY FS_Interval
  <2> QED BY <2>1, FS_Subset
<1>2. f \in [A -> A \ {0}]
  <2>1. ASSUME NEW x \in A PROVE x + 1 \in A \ {0}
    <3>1. x \in Nat /\ x <= n /\ x # n /\ x \in S
      OBVIOUS
    <3>2. x + 1 \in S
      BY <3>1
    <3> QED BY <3>1, <3>2
  <2> QED BY <2>1
<1>3. IsFiniteSet(A \ {0}) /\ Cardinality(A \ {0}) = Cardinality(A) - 1
  <2> HIDE DEF A
  <2> QED BY <1>1, FS_RemoveElement
<1>4. Cardinality(A \ {0}) < Cardinality(A)
  <2> HIDE DEF A
  <2>1. Cardinality(A) \in Nat
    BY <1>1, FS_CardinalityType
  <2> QED BY <1>3, <2>1
<1>5. \E x, y \in A : x # y /\ f[x] = f[y]
  <2> HIDE DEF A, f
  <2> QED BY <1>1, <1>2, <1>3, <1>4, FS_PigeonHole
<1> QED BY <1>5

-----------------------------------------------------------------------------
(* Folds.  A fold of the community modules is a function of the sets of      *)
(* positions that takes the last of them off; here it goes through the       *)
(* positions in their order.                                                 *)

\* What is left of a non-empty set of positions without its last.
LEMMA LastOf ==
    ASSUME NEW k \in Nat, NEW s \in SUBSET (1..(k + 1)), k + 1 \in s
    PROVE  Max(s) = k + 1 /\ s \ {Max(s)} \subseteq 1..k
<1>1. \A x \in s : (\A y \in s : x >= y) <=> x = k + 1
  <2>1. \A y \in s : y \in 1..(k + 1)
    OBVIOUS
  <2> QED BY <2>1
<1>2. Max(s) = k + 1
  BY <1>1 DEF Max
<1> QED BY <1>2

LEMMA LastIn ==
    ASSUME NEW k \in Nat, NEW s \in SUBSET (1..k), s # {}
    PROVE  Max(s) \in s
<1> DEFINE T == {n \in Nat : \A u \in SUBSET (1..n) : u # {} => Max(u) \in u}
<1>1. 0 \in T
  <2>1. 1..0 = {}
    OBVIOUS
  <2> QED BY <2>1
<1>2. ASSUME NEW n \in Nat, n \in T PROVE n + 1 \in T
  <2> SUFFICES ASSUME NEW u \in SUBSET (1..(n + 1)), u # {} PROVE Max(u) \in u
    OBVIOUS
  <2>1. CASE n + 1 \in u
    BY <2>1, LastOf
  <2>2. CASE n + 1 \notin u
    <3>1. u \in SUBSET (1..n)
      BY <2>2
    <3> QED BY <1>2, <3>1
  <2> QED BY <2>1, <2>2
<1>3. k \in T
  <2> HIDE DEF T
  <2> QED BY <1>1, <1>2, SetInduction
<1> QED BY <1>3

\* What a fold makes of acc at position i of items.
Folded(fold, acc, items, n, i) ==
    CASE fold = "entries" -> Merged(acc, items[i], n)
      [] fold = "files"   -> MergedFile(acc, items[i], i)
      [] fold = "names"   -> FlattenSeq(Replaced(acc, items[i], n[items[i]].text))
      [] fold = "flags"   -> Over([x \in {items[i].flag} |-> Typed(items[i])], acc)
      [] fold = "words"   -> Over([x \in {n.positional[i]} |-> <<items[i].word>>], acc)
      [] fold = "defaults" ->
            IF items[i] \in DOMAIN n.alias.defaults \ (DOMAIN n.flags \cup DOMAIN acc)
            THEN Over([x \in {items[i]} |-> Filled(n.alias.defaults[items[i]], acc, n.flags)], acc) ELSE acc

FoldStep(fold, f, base, items, n, s) ==
    IF s = {} THEN base ELSE Folded(fold, f[s \ {Max(s)}], items, n, Max(s))

LEMMA FoldExists ==
    ASSUME NEW fold, NEW base, NEW items, NEW n, NEW L \in Nat
    PROVE  \E f : f = [s \in SUBSET (1..L) |-> FoldStep(fold, f, base, items, n, s)]
<1> DEFINE Done(k) == \E f : f = [s \in SUBSET (1..k) |-> FoldStep(fold, f, base, items, n, s)]
           T == {k \in Nat : Done(k)}
<1>1. 0 \in T
  <2> DEFINE f == [s \in SUBSET (1..0) |-> base]
  <2>1. \A s \in SUBSET (1..0) : FoldStep(fold, f, base, items, n, s) = base
    BY DEF FoldStep
  <2>2. f = [s \in SUBSET (1..0) |-> FoldStep(fold, f, base, items, n, s)]
    BY <2>1
  <2> QED BY <2>2
<1>2. ASSUME NEW k \in Nat, k \in T PROVE k + 1 \in T
  <2>1. PICK f : f = [s \in SUBSET (1..k) |-> FoldStep(fold, f, base, items, n, s)]
    BY <1>2
  <2> DEFINE g == [s \in SUBSET (1..(k + 1)) |-> IF k + 1 \in s THEN FoldStep(fold, f, base, items, n, s)
                                                ELSE f[s]]
  <2>2. \A s \in SUBSET (1..k) : g[s] = f[s] /\ f[s] = FoldStep(fold, f, base, items, n, s)
    <3> SUFFICES ASSUME NEW s \in SUBSET (1..k)
                 PROVE  g[s] = f[s] /\ f[s] = FoldStep(fold, f, base, items, n, s)
      OBVIOUS
    <3>1. s \in SUBSET (1..(k + 1)) /\ k + 1 \notin s
      OBVIOUS
    <3>2. f[s] = FoldStep(fold, f, base, items, n, s)
      BY <2>1
    <3> QED BY <3>1, <3>2
  <2>3. ASSUME NEW s \in SUBSET (1..(k + 1)) PROVE g[s] = FoldStep(fold, g, base, items, n, s)
    <3>1. CASE k + 1 \in s
      <4>1. s \ {Max(s)} \in SUBSET (1..k)
        BY <3>1, LastOf
      <4>2. g[s] = FoldStep(fold, f, base, items, n, s)
        BY <3>1
      <4>3. g[s \ {Max(s)}] = f[s \ {Max(s)}]
        BY <2>2, <4>1
      <4> HIDE DEF g
      <4> QED BY <4>2, <4>3 DEF FoldStep
    <3>2. CASE k + 1 \notin s
      <4>1. s \in SUBSET (1..k)
        BY <3>2
      <4>2. g[s] = FoldStep(fold, f, base, items, n, s)
        BY <2>2, <4>1
      <4>3. s # {} => g[s \ {Max(s)}] = f[s \ {Max(s)}]
        <5>1. s \ {Max(s)} \in SUBSET (1..k)
          BY <4>1
        <5> HIDE DEF g
        <5> QED BY <2>2, <5>1
      <4> HIDE DEF g
      <4> QED BY <4>2, <4>3 DEF FoldStep
    <3> QED BY <3>1, <3>2
  <2>4. g = [s \in SUBSET (1..(k + 1)) |-> FoldStep(fold, g, base, items, n, s)]
    <3>1. g = [s \in SUBSET (1..(k + 1)) |-> g[s]]
      BY Zenon
    <3> HIDE DEF g
    <3>2. \A s \in SUBSET (1..(k + 1)) : g[s] = FoldStep(fold, g, base, items, n, s)
      BY <2>3
    <3> QED BY <3>1, <3>2, Zenon
  <2>5. Done(k + 1)
    <3> HIDE DEF g
    <3> QED BY <2>4
  <2> HIDE DEF Done
  <2> QED BY <2>5
<1> HIDE DEF T
<1>3. L \in T
  BY <1>1, <1>2, SetInduction
<1> QED BY <1>3 DEF T

Folds(fold, base, items, n, L, F) == F = [s \in SUBSET (1..L) |-> FoldStep(fold, F, base, items, n, s)]

\* f goes through the items in their order, and ends as F does.
InOrder(fold, base, items, n, L, F, f) ==
    /\ f[0] = base /\ f[L] = F[1..L]
    /\ \A k \in 1..L : f[k] = Folded(fold, f[k - 1], items, n, k)

LEMMA FoldInOrder ==
    ASSUME NEW fold, NEW base, NEW items, NEW n, NEW L \in Nat, NEW F,
           Folds(fold, base, items, n, L, F)
    PROVE  \E f : InOrder(fold, base, items, n, L, F, f)
<1> DEFINE h == [k \in 0..L |-> F[1..k]]
<1>1. h[0] = base
  <2>1. F[{}] = base
    BY DEF FoldStep, Folds
  <2> QED BY <2>1
<1>2. ASSUME NEW k \in 1..L PROVE h[k] = Folded(fold, h[k - 1], items, n, k)
  <2>1. 1..k \in SUBSET (1..L) /\ 1..k # {} /\ k - 1 \in 0..L /\ k \in 0..L
    <3>1. k \in 1..k /\ k \in Nat /\ k - 1 \in 0..L /\ k \in 0..L
      OBVIOUS
    <3>2. \A y \in 1..k : y \in 1..L
      OBVIOUS
    <3>3. 1..k \subseteq 1..L
      BY <3>2, Zenon
    <3> QED BY <3>1, <3>3, Zenon
  <2>2. Max(1..k) = k
    <3>1. k = (k - 1) + 1 /\ k - 1 \in Nat /\ k \in 1..k
      OBVIOUS
    <3> QED BY <3>1, LastOf
  <2>3. (1..k) \ {k} = 1..(k - 1)
    OBVIOUS
  <2>4. F[1..k] = Folded(fold, F[1..(k - 1)], items, n, k)
    <3>1. F[1..k] = FoldStep(fold, F, base, items, n, 1..k)
      BY <2>1, Zenon DEF Folds
    <3> QED BY <2>1, <2>2, <2>3, <3>1 DEF FoldStep
  <2> QED BY <2>1, <2>4
<1>3. h[L] = F[1..L]
  OBVIOUS
<1> HIDE DEF h
<1>4. InOrder(fold, base, items, n, L, F, h)
  BY <1>1, <1>2, <1>3 DEF InOrder
<1> QED BY <1>4

LEMMA EntriesMerged ==
    ASSUME NEW base, NEW file, NEW n, file.kind = "semantics",
           Len(file.entries) \in Nat, DOMAIN file.entries = 1..Len(file.entries)
    PROVE  \E f : /\ f[0] = base
                  /\ \A k \in 1..Len(file.entries) : f[k] = Merged(f[k - 1], file.entries[k], n)
                  /\ MergedFile(base, file, n) = f[Len(file.entries)]
<1> DEFINE items == file.entries
           L == Len(items)
           F == CHOOSE f : f = [s \in SUBSET DOMAIN items |-> FoldStep("entries", f, base, items, n, s)]
<1>0. L \in Nat /\ DOMAIN items = 1..L
  OBVIOUS
<1>1. F = [s \in SUBSET DOMAIN items |-> FoldStep("entries", F, base, items, n, s)]
  BY FoldExists
<1>2. MergedFile(base, file, n) = F[DOMAIN items]
  <2> DEFINE A(f) == [s \in SUBSET DOMAIN items |->
                        IF s = {} THEN base ELSE LET x == Max(s) IN Merged(f[s \ {x}], items[x], n)]
             B(f) == [s \in SUBSET DOMAIN items |-> FoldStep("entries", f, base, items, n, s)]
  <2>1. MergedFile(base, file, n) = (CHOOSE f : f = A(f))[DOMAIN items]
    BY ZenonT(30) DEF MergedFile, FoldLeft, MapThenFoldSet
  <2>2. \A acc, i : Folded("entries", acc, items, n, i) = Merged(acc, items[i], n)
    BY DEF Folded
  <2>3. ASSUME NEW f PROVE A(f) = B(f)
    BY <2>2 DEF FoldStep
  <2>4. (CHOOSE f : f = A(f)) = F
    <3> HIDE DEF A
    <3>1. F = CHOOSE f : f = B(f)
      OBVIOUS
    <3> HIDE DEF B, F
    <3> QED BY <2>3, <3>1, Zenon
  <2> QED BY <2>1, <2>4
<1> HIDE DEF F
<1>4. items = file.entries /\ L = Len(items)
  OBVIOUS
<1> HIDE DEF items, L
<1>5. F = [s \in SUBSET (1..L) |-> FoldStep("entries", F, base, items, n, s)]
  BY <1>0, <1>1
<1>3. PICK f : InOrder("entries", base, items, n, L, F, f)
  BY <1>0, <1>5, FoldInOrder, Zenon DEF Folds
<1>6. MergedFile(base, file, n) = f[L]
  BY <1>0, <1>2, <1>3 DEF InOrder
<1>7. \A k \in 1..L : f[k] = Merged(f[k - 1], items[k], n)
  BY <1>3 DEF Folded, InOrder
<1> QED BY <1>3, <1>4, <1>6, <1>7 DEF InOrder

LEMMA FilesMerged ==
    ASSUME NEW described, NEW fs, Len(fs) \in Nat, DOMAIN fs = 1..Len(fs)
    PROVE  \E f : /\ f[0] = Inline(described)
                  /\ \A k \in 1..Len(fs) : f[k] = MergedFile(f[k - 1], fs[k], k)
                  /\ Overlay(described, fs) = f[Len(fs)]
<1> DEFINE base == Inline(described)
           L == Len(fs)
           place == [i \in DOMAIN fs |-> i]
           A(f) == [s \in SUBSET DOMAIN place |->
                      IF s = {} THEN base
                      ELSE LET x == Max(s) IN MergedFile(f[s \ {x}], fs[place[x]], place[x])]
           B(f) == [s \in SUBSET (1..L) |-> FoldStep("files", f, base, fs, 0, s)]
           G == CHOOSE f : f = A(f)
           F == CHOOSE f : f = B(f)
<1>1. F = [s \in SUBSET (1..L) |-> FoldStep("files", F, base, fs, 0, s)]
  BY FoldExists
<1>2. Overlay(described, fs) = G[DOMAIN place]
  BY Zenon DEF Overlay, FoldLeftDomain, FoldLeft, MapThenFoldSet
<1>3. ASSUME NEW f PROVE A(f) = B(f)
  <2>1. DOMAIN place = 1..L /\ \A i \in 1..L : place[i] = i
    OBVIOUS
  <2> HIDE DEF place
  <2>2. ASSUME NEW s \in SUBSET (1..L), s # {}
        PROVE  place[Max(s)] = Max(s)
    <3>1. Max(s) \in s
      BY <2>2, LastIn
    <3> QED BY <2>1, <3>1
  <2>3. ASSUME NEW s \in SUBSET (1..L)
        PROVE  (IF s = {} THEN base
                ELSE LET x == Max(s) IN MergedFile(f[s \ {x}], fs[place[x]], place[x]))
               = FoldStep("files", f, base, fs, 0, s)
    BY <2>2 DEF FoldStep, Folded
  <2> QED BY <2>1, <2>3
<1>4. G = F
  <2> HIDE DEF A, B
  <2> QED BY <1>3, Zenon
<1>7. L \in Nat /\ L = Len(fs) /\ DOMAIN place = 1..L /\ base = Inline(described)
  OBVIOUS
<1> HIDE DEF F, G, base, L, place
<1>5. PICK f : InOrder("files", base, fs, 0, L, F, f)
  BY <1>1, <1>7, FoldInOrder, Zenon DEF Folds
<1>6. Overlay(described, fs) = f[L]
  BY <1>2, <1>4, <1>5, <1>7 DEF InOrder
<1>8. \A k \in 1..L : f[k] = MergedFile(f[k - 1], fs[k], k)
  BY <1>5 DEF Folded, InOrder
<1> QED BY <1>5, <1>6, <1>7, <1>8 DEF InOrder

-----------------------------------------------------------------------------
(* The descriptions: what the files read so far say, and nothing else.      *)

Telling(fs, X) == {a \in X : Entry(fs, a).text # NoText}

\* The entries X are merged into the descriptions of the context file.
Told(described, fs, X, entries) ==
    /\ \A a \in X : Len(Entry(fs, a).on[1]) \in {1, 3}
    /\ \A a, b \in Telling(fs, X) : Entry(fs, a).on = Entry(fs, b).on => a = b
    /\ DOMAIN entries = DOMAIN Inline(described) \cup {Entry(fs, a).on : a \in Telling(fs, X)}
    /\ \A a \in Telling(fs, X) :
          entries[Entry(fs, a).on] = [text |-> Entry(fs, a).text, origin |-> a[1]]
    /\ \A on \in DOMAIN Inline(described) :
          (\A a \in Telling(fs, X) : Entry(fs, a).on # on) => entries[on] = Inline(described)[on]

Telled(described, fs, X, entries) == entries # Conflict => Told(described, fs, X, entries)

LEMMA OneMore ==
    ASSUME NEW described, NEW fs, NEW X, NEW entries, Telled(described, fs, X, entries),
           NEW a, \A b \in X \cup {a} : b[1] \in Nat \ {0}
    PROVE  Telled(described, fs, X \cup {a}, Merged(entries, Entry(fs, a), a[1]))
<1> DEFINE e == Entry(fs, a)
           Z == X \cup {a}
<1> SUFFICES ASSUME Merged(entries, e, a[1]) # Conflict
             PROVE  Told(described, fs, Z, Merged(entries, e, a[1]))
  BY DEF Telled
<1>1. entries # Conflict /\ Len(e.on[1]) \in {1, 3}
  BY Zenon DEF Merged
<1>2. Told(described, fs, X, entries)
  BY <1>1 DEF Telled
<1>3. \A b \in Z : Len(Entry(fs, b).on[1]) \in {1, 3}
  BY <1>1, <1>2 DEF Told
<1>4. CASE e.text = NoText
  <2>1. Merged(entries, e, a[1]) = entries
    BY <1>1, <1>4, Zenon DEF Merged
  <2>2. Telling(fs, Z) = Telling(fs, X)
    BY <1>4 DEF Telling
  <2> HIDE DEF Z
  <2> QED BY <1>2, <1>3, <2>1, <2>2 DEF Told
<1>5. CASE e.text # NoText
  <2>1. ~(e.on \in DOMAIN entries /\ entries[e.on].origin # 0)
    BY <1>1, <1>5, Zenon DEF Merged
  <2> DEFINE told == [text |-> e.text, origin |-> a[1]]
             result == With(entries, e.on, told)
  <2>2. Merged(entries, e, a[1]) = result
    BY <1>1, <1>5, <2>1, Zenon DEF Merged
  <2>3. Telling(fs, Z) = Telling(fs, X) \cup {a}
    BY <1>5 DEF Telling
  <2>4. \A b \in Telling(fs, X) : Entry(fs, b).on # e.on
    <3> SUFFICES ASSUME NEW b \in Telling(fs, X), Entry(fs, b).on = e.on PROVE FALSE
      OBVIOUS
    <3>1. entries[e.on] = [text |-> Entry(fs, b).text, origin |-> b[1]] /\ e.on \in DOMAIN entries
      BY <1>2 DEF Told
    <3>2. b[1] # 0
      BY DEF Telling
    <3> HIDE DEF e
    <3> QED BY <2>1, <3>1, <3>2
  <2>5. /\ DOMAIN result = DOMAIN entries \cup {e.on} /\ result[e.on] = told
        /\ \A on \in DOMAIN entries : on # e.on => result[on] = entries[on]
    <3> HIDE DEF told, e
    <3> QED BY DEF With
  <2> HIDE DEF result, told
  <2>6. \A b, c \in Telling(fs, Z) : Entry(fs, b).on = Entry(fs, c).on => b = c
    BY <1>2, <2>3, <2>4 DEF Told
  <2>7. DOMAIN result = DOMAIN Inline(described) \cup {Entry(fs, b).on : b \in Telling(fs, Z)}
    BY <1>2, <2>3, <2>5 DEF Told
  <2>8. ASSUME NEW b \in Telling(fs, Z)
        PROVE  result[Entry(fs, b).on] = [text |-> Entry(fs, b).text, origin |-> b[1]]
    <3>1. CASE b = a
      BY <2>5, <3>1 DEF told
    <3>2. CASE b \in Telling(fs, X)
      <4>1. Entry(fs, b).on \in DOMAIN entries
        BY <1>2, <3>2 DEF Told
      <4> QED BY <1>2, <2>4, <2>5, <3>2, <4>1 DEF Told
    <3> QED BY <2>3, <3>1, <3>2
  <2>9. ASSUME NEW on \in DOMAIN Inline(described),
               \A b \in Telling(fs, Z) : Entry(fs, b).on # on
        PROVE  result[on] = Inline(described)[on]
    <3>1. on # e.on /\ \A b \in Telling(fs, X) : Entry(fs, b).on # on
      BY <2>3, <2>9
    <3>2. on \in DOMAIN entries /\ entries[on] = Inline(described)[on]
      BY <1>2, <3>1 DEF Told
    <3> QED BY <2>5, <3>1, <3>2
  <2> HIDE DEF Z, e
  <2> QED BY <1>3, <2>2, <2>6, <2>7, <2>8, <2>9 DEF Told
<1> QED BY <1>4, <1>5

\* The entries before position j of file n.
Upto(fs, n, j) == {a \in Said(fs) : a[1] < n \/ (a[1] = n /\ a[2] <= j)}

\* The files, in the order of their paths, and their entries.
FilesAreLists(fs) ==
    /\ Len(fs) \in Nat /\ DOMAIN fs = 1..Len(fs)
    /\ \A n \in DOMAIN fs :
          fs[n].kind = "semantics" =>
              Len(fs[n].entries) \in Nat /\ DOMAIN fs[n].entries = 1..Len(fs[n].entries)

LEMMA Places ==
    ASSUME NEW fs, FilesAreLists(fs)
    PROVE  \A a : a \in Said(fs) <=>
              /\ a = <<a[1], a[2]>> /\ a[1] \in 1..Len(fs) /\ fs[a[1]].kind = "semantics"
              /\ a[2] \in 1..Len(fs[a[1]].entries)
<1> SUFFICES ASSUME NEW a
             PROVE  a \in Said(fs) <=>
                      /\ a = <<a[1], a[2]>> /\ a[1] \in 1..Len(fs) /\ fs[a[1]].kind = "semantics"
                      /\ a[2] \in 1..Len(fs[a[1]].entries)
  OBVIOUS
<1>1. a \in Said(fs) <=> \E n \in DOMAIN fs : /\ fs[n].kind = "semantics"
                                              /\ a \in {n} \X DOMAIN fs[n].entries
  BY DEF Said
<1>2. \A n : a \in {n} \X DOMAIN fs[n].entries
                 <=> a = <<a[1], a[2]>> /\ a[1] = n /\ a[2] \in DOMAIN fs[n].entries
  OBVIOUS
<1> QED BY <1>1, <1>2 DEF FilesAreLists

LEMMA OneFurther ==
    ASSUME NEW n \in Nat, NEW k \in Nat, NEW x \in Nat, NEW y \in Nat
    PROVE  (x < n \/ (x = n /\ y <= k + 1)) <=> (x < n \/ (x = n /\ y <= k)) \/ (x = n /\ y = k + 1)
<1>1. y <= k + 1 <=> y <= k \/ y = k + 1
  OBVIOUS
<1> QED BY <1>1, Zenon

LEMMA NextFile ==
    ASSUME NEW n \in Nat, NEW l \in Nat, NEW x \in Nat, NEW y \in Nat, y # 0, x = n => y <= l
    PROVE  (x < n + 1 \/ (x = n + 1 /\ y <= 0)) <=> (x < n \/ (x = n /\ y <= l))
<1>1. (x < n + 1 <=> x < n \/ x = n) /\ ~(y <= 0)
  OBVIOUS
<1> QED BY <1>1, Zenon

LEMMA FileTold ==
    ASSUME NEW described, NEW fs, FilesAreLists(fs), NEW n \in DOMAIN fs, NEW entries,
           Telled(described, fs, Upto(fs, n, 0), entries)
    PROVE  Telled(described, fs, Upto(fs, n + 1, 0), MergedFile(entries, fs[n], n))
<1>0. n \in Nat \ {0} /\ Len(fs) \in Nat
  BY DEF FilesAreLists
<1>1. CASE fs[n].kind # "semantics"
  <2>1. MergedFile(entries, fs[n], n) = entries
    BY <1>1 DEF MergedFile
  <2>2. Upto(fs, n + 1, 0) = Upto(fs, n, 0)
    <3>1. ASSUME NEW a \in Said(fs) PROVE (a[1] < n + 1 \/ (a[1] = n + 1 /\ a[2] <= 0))
                                          <=> (a[1] < n \/ (a[1] = n /\ a[2] <= 0))
      <4>1. a[1] \in 1..Len(fs) /\ a[1] # n /\ a[2] \in 1..Len(fs[a[1]].entries)
        BY <1>1, Places
      <4>2. Len(fs[a[1]].entries) \in Nat
        BY <4>1, Places DEF FilesAreLists
      <4> QED BY <1>0, <4>1, <4>2
    <3> QED BY <3>1 DEF Upto
  <2> QED BY <2>1, <2>2
<1>2. CASE fs[n].kind = "semantics"
  <2> DEFINE L == Len(fs[n].entries)
  <2>1. L \in Nat /\ DOMAIN fs[n].entries = 1..L
    BY <1>2 DEF FilesAreLists
  <2>2. PICK f : /\ f[0] = entries
                 /\ \A k \in 1..L : f[k] = Merged(f[k - 1], fs[n].entries[k], n)
                 /\ MergedFile(entries, fs[n], n) = f[L]
    BY <1>2, <2>1, EntriesMerged
  <2> HIDE DEF L
  <2> DEFINE S == {k \in Nat : k <= L => Telled(described, fs, Upto(fs, n, k), f[k])}
  <2>3. 0 \in S
    BY <2>2
  <2>4. ASSUME NEW k \in Nat, k \in S PROVE k + 1 \in S
    <3> SUFFICES ASSUME k + 1 <= L PROVE Telled(described, fs, Upto(fs, n, k + 1), f[k + 1])
      OBVIOUS
    <3> DEFINE a == <<n, k + 1>>
    <3>1. Telled(described, fs, Upto(fs, n, k), f[k])
      BY <2>1, <2>4
    <3>2. k + 1 \in 1..L /\ (k + 1) - 1 = k
      BY <2>1
    <3>3. a \in Said(fs)
      BY <1>2, <3>2, Places DEF L, FilesAreLists
    <3>4. Upto(fs, n, k + 1) = Upto(fs, n, k) \cup {a}
      <4>1. ASSUME NEW b \in Said(fs)
            PROVE  (b[1] < n \/ (b[1] = n /\ b[2] <= k + 1))
                   <=> (b[1] < n \/ (b[1] = n /\ b[2] <= k)) \/ b = a
        <5>1. b = <<b[1], b[2]>> /\ b[1] \in 1..Len(fs) /\ b[2] \in 1..Len(fs[b[1]].entries)
          BY Places
        <5>2. Len(fs[b[1]].entries) \in Nat
          BY <4>1, Places DEF FilesAreLists
        <5>3. b = a <=> b[1] = n /\ b[2] = k + 1
          BY <5>1
        <5>4. b[1] \in Nat /\ b[2] \in Nat
          BY <5>1, <5>2
        <5>5. \A x, y \in Nat : (x < n \/ (x = n /\ y <= k + 1))
                                 <=> (x < n \/ (x = n /\ y <= k)) \/ (x = n /\ y = k + 1)
          BY <1>0, OneFurther
        <5> HIDE DEF a
        <5> QED BY <5>3, <5>4, <5>5, Zenon
      <4> HIDE DEF a
      <4> QED BY <3>3, <4>1 DEF Upto
    <3>5. \A b \in Upto(fs, n, k) \cup {a} : b[1] \in Nat \ {0}
      <4>1. \A b \in Said(fs) : b[1] \in 1..Len(fs)
        BY Places
      <4> HIDE DEF a
      <4> QED BY <1>0, <3>3, <4>1 DEF Upto
    <3>6. Entry(fs, a) = fs[n].entries[k + 1] /\ a[1] = n
      BY DEF Entry
    <3> HIDE DEF a
    <3>7. Telled(described, fs, Upto(fs, n, k) \cup {a}, Merged(f[k], Entry(fs, a), a[1]))
      BY <3>1, <3>5, OneMore
    <3>8. f[k + 1] = Merged(f[k], Entry(fs, a), a[1])
      BY <2>2, <3>2, <3>6
    <3> QED BY <3>4, <3>7, <3>8
  <2> HIDE DEF S
  <2>5. L \in S
    BY <2>1, <2>3, <2>4, SetInduction
  <2>6. Telled(described, fs, Upto(fs, n, L), f[L])
    BY <2>1, <2>5 DEF S
  <2>7. Upto(fs, n + 1, 0) = Upto(fs, n, L)
    <3>1. ASSUME NEW a \in Said(fs)
          PROVE  (a[1] < n + 1 \/ (a[1] = n + 1 /\ a[2] <= 0)) <=> (a[1] < n \/ (a[1] = n /\ a[2] <= L))
      <4>1. a[1] \in 1..Len(fs) /\ a[2] \in 1..Len(fs[a[1]].entries)
        BY Places
      <4>2. Len(fs[a[1]].entries) \in Nat
        BY <3>1, Places DEF FilesAreLists
      <4>3. a[1] = n => a[2] <= L
        BY <4>1, <4>2 DEF L
      <4>4. a[1] \in Nat /\ a[2] \in Nat /\ a[2] # 0
        BY <4>1, <4>2
      <4>5. \A x, y \in Nat : y # 0 /\ (x = n => y <= L) =>
                ((x < n + 1 \/ (x = n + 1 /\ y <= 0)) <=> (x < n \/ (x = n /\ y <= L)))
        BY <1>0, <2>1, NextFile
      <4> QED BY <4>3, <4>4, <4>5, Zenon
    <3> QED BY <3>1 DEF Upto
  <2> QED BY <2>2, <2>6, <2>7
<1> QED BY <1>1, <1>2

LEMMA OverlayTold ==
    ASSUME NEW described, NEW fs, FilesAreLists(fs)
    PROVE  Telled(described, fs, Said(fs), Overlay(described, fs))
<1> DEFINE L == Len(fs)
<1>1. L \in Nat /\ DOMAIN fs = 1..L
  BY DEF FilesAreLists
<1>2. PICK f : /\ f[0] = Inline(described)
               /\ \A k \in 1..L : f[k] = MergedFile(f[k - 1], fs[k], k)
               /\ Overlay(described, fs) = f[L]
  BY <1>1, FilesMerged
<1>3. \A a \in Said(fs) : a[1] \in 1..L /\ a[2] \in Nat \ {0}
  <2> SUFFICES ASSUME NEW a \in Said(fs) PROVE a[1] \in 1..L /\ a[2] \in Nat \ {0}
    OBVIOUS
  <2>1. a[1] \in 1..L /\ a[2] \in 1..Len(fs[a[1]].entries) /\ fs[a[1]].kind = "semantics"
    BY Places
  <2>2. Len(fs[a[1]].entries) \in Nat
    BY <1>1, <2>1 DEF FilesAreLists
  <2> QED BY <2>1, <2>2
<1> HIDE DEF L
<1> DEFINE S == {k \in Nat : k <= L => Telled(described, fs, Upto(fs, k + 1, 0), f[k])}
<1>4. 0 \in S
  <2>1. Upto(fs, 1, 0) = {}
    <3>1. \A x, y \in Nat : x # 0 /\ y # 0 => ~(x < 1 \/ (x = 1 /\ y <= 0))
      OBVIOUS
    <3>2. \A a \in Said(fs) : a[1] \in Nat \ {0}
      BY <1>1, <1>3
    <3> QED BY <1>3, <3>1, <3>2 DEF Upto
  <2>2. Told(described, fs, {}, Inline(described))
    BY DEF Told, Telling
  <2>3. Telled(described, fs, {}, f[0])
    BY <1>2, <2>2 DEF Telled
  <2> QED BY <2>1, <2>3
<1>5. ASSUME NEW k \in Nat, k \in S PROVE k + 1 \in S
  <2> SUFFICES ASSUME k + 1 <= L PROVE Telled(described, fs, Upto(fs, (k + 1) + 1, 0), f[k + 1])
    OBVIOUS
  <2>1. Telled(described, fs, Upto(fs, k + 1, 0), f[k])
    BY <1>1, <1>5
  <2>2. k + 1 \in 1..L /\ (k + 1) - 1 = k
    BY <1>1
  <2>3. f[k + 1] = MergedFile(f[k], fs[k + 1], k + 1)
    BY <1>2, <2>2
  <2> QED BY <1>1, <2>1, <2>2, <2>3, FileTold
<1> HIDE DEF S
<1>6. L \in S
  BY <1>1, <1>4, <1>5, SetInduction
<1>7. Telled(described, fs, Upto(fs, L + 1, 0), f[L])
  BY <1>1, <1>6 DEF S
<1>8. Upto(fs, L + 1, 0) = Said(fs)
  <2>1. \A a \in Said(fs) : a[1] < L + 1
    <3>1. \A x \in 1..L : x < L + 1
      BY <1>1
    <3> QED BY <1>3, <3>1, Zenon
  <2> QED BY <2>1 DEF Upto
<1> QED BY <1>2, <1>7, <1>8

LEMMA OverlayRule ==
    ASSUME NEW described, NEW fs, FilesAreLists(fs), Overlay(described, fs) # Conflict
    PROVE  /\ ~Clash(fs)
           /\ \A on : TextOf(Overlay(described, fs), on) = OughtToSay(described, fs, on)
<1> DEFINE entries == Overlay(described, fs)
           X == Said(fs)
<1>1. Told(described, fs, X, entries)
  BY OverlayTold DEF Telled
<1>2. ~Clash(fs)
  <2> HIDE DEF entries
  <2> QED BY <1>1 DEF Clash, Told, Telling
<1>3. ASSUME NEW on PROVE TextOf(entries, on) = OughtToSay(described, fs, on)
  <2> DEFINE words == {Entry(fs, a).text : a \in {x \in X : Entry(fs, x).on = on}} \ {NoText}
  <2>1. OughtToSay(described, fs, on) = IF words # {} THEN CHOOSE w \in words : TRUE
                                        ELSE TextOf(Inline(described), on)
    BY Zenon DEF OughtToSay
  <2>2. \A w : w \in words <=> \E a \in Telling(fs, X) : Entry(fs, a).on = on /\ w = Entry(fs, a).text
    BY DEF Telling
  <2> HIDE DEF words, X, entries
  <2>3. CASE words # {}
    <3>1. PICK a \in Telling(fs, X) : Entry(fs, a).on = on /\ (CHOOSE w \in words : TRUE) = Entry(fs, a).text
      BY <2>2, <2>3
    <3>2. entries[on] = [text |-> Entry(fs, a).text, origin |-> a[1]] /\ on \in DOMAIN entries
      BY <1>1, <3>1 DEF Told
    <3> QED BY <2>1, <2>3, <3>1, <3>2 DEF TextOf
  <2>4. CASE words = {}
    <3>1. \A a \in Telling(fs, X) : Entry(fs, a).on # on
      BY <2>2, <2>4
    <3>2. on \in DOMAIN entries <=> on \in DOMAIN Inline(described)
      BY <1>1, <3>1 DEF Told
    <3>3. on \in DOMAIN Inline(described) => entries[on] = Inline(described)[on]
      BY <1>1, <3>1 DEF Told
    <3> QED BY <2>1, <2>4, <3>2, <3>3 DEF TextOf
  <2> QED BY <2>3, <2>4
<1> HIDE DEF X
<1> QED BY <1>2, <1>3

-----------------------------------------------------------------------------
(* What the server and the client show.                                     *)

OverlayInv ==
    /\ config \in Configs
    /\ which = "runtime" => /\ overlay = Overlay(config.described, config.semantics)
                            /\ overlay # Conflict

LEMMA InitOverlay == Began => OverlayInv
BY DEF Began, Blank, OverlayInv

LEMMA NextOverlay == NamesInv /\ OverlayInv /\ [Next]_vars => OverlayInv' /\ config' = config
<1> SUFFICES ASSUME NamesInv, OverlayInv, [Next]_vars PROVE OverlayInv' /\ config' = config
  OBVIOUS
<1>1. CASE LoadSemantics
  BY <1>1 DEF LoadSemantics, OverlayInv, Outside
<1>2. CASE Startup /\ ~LoadSemantics
  <2>1. UNCHANGED <<config, which, overlay>>
    BY <1>2 DEF Startup, LoadContext, Register, SkipLance, List, Install, SourcesDone, Connect,
       AttemptFails, StartBuild, FinishBuild, BuildFails, BuildAuth, ValidatePipelines, LoadPipeline,
       PipelinesDone, LoadJob, JobsDone, OpenStore, Bind, Kept, Outside
  <2> QED BY <2>1 DEF OverlayInv
<1>3. CASE ~Startup
  <2>1. UNCHANGED <<config, which, overlay>>
    BY <1>3 DEF Next, Serve, Verify, Lookup, Run, Inspect, Arrive, Drop, Create, ServeOnly,
       UpstreamOnly, vars
  <2> QED BY <2>1 DEF OverlayInv
<1> QED BY <1>1, <1>2, <1>3 DEF Startup

Rule == Overlay(config.described, config.semantics)

\* A command that shows the tables.
Schema(p) == Command(p) # Nothing /\ Command(p).verb = "schema"

ShowsByRule(p) ==
    /\ Stage(p) \in {"start", "register", "describe", "done"}
    /\ \A path \in DOMAIN doing[p].tables : path[1] = Sources[doing[p].tables[path].source].name
    /\ doing[p].answer = "ok" =>
          /\ DOMAIN doing[p].shown \subseteq DOMAIN doing[p].tables
          /\ \A path \in DOMAIN doing[p].shown :
                Rule # Conflict /\ doing[p].shown[path] = Described(Rule, path)

RuleInv == AliasInv /\ OverlayInv /\ (\A p \in Process : Schema(p) => ShowsByRule(p))

LEMMA OnlyOwn ==
    ASSUME AliasInv, NEW p \in Process, Client(p)
    PROVE  /\ session' = session /\ UNCHANGED vars
           /\ \A q \in Process \ {p} : doing'[q] = doing[q]
<1>0. DOMAIN doing = Process
  BY DEF AliasInv, CliShapes
<1>1. CASE \/ ShowAliases(p) \/ CallAlias(p) \/ StartRun(p) \/ Prepare(p) \/ Open(p)
           \/ RegisterSource(p) \/ Registered(p) \/ Execute(p) \/ Describe(p) \/ AskServer(p)
  <2>1. Elsewhere(p)
    BY <1>1, QuietElsewhere
  <2>2. UNCHANGED <<session, vars>>
    BY <1>1 DEF ShowAliases, CallAlias, StartRun, Prepare, Open, RegisterSource, Registered, Execute,
       Describe, AskServer, FilesKept, ClientOnly
  <2> QED BY <2>1, <2>2 DEF Elsewhere
<1>2. CASE \/ LoadAliases(p) \/ AddAlias(p) \/ RemoveAlias(p) \/ Truncate(p) \/ WriteOut(p)
           \/ WriteFails(p) \/ Kill(p)
  <2>1. UNCHANGED <<session, vars>>
    BY <1>2 DEF LoadAliases, AddAlias, RemoveAlias, Truncate, WriteOut, WriteFails, Kill, FilesKept,
       ClientOnly
  <2>2. \E new : doing' = [doing EXCEPT ![p] = new]
    <3>1. \A result : Ends(p, result) => \E new : doing' = [doing EXCEPT ![p] = new]
      BY DEF Ends
    <3>2. \A aliases : Save(p, aliases) => \E new : doing' = [doing EXCEPT ![p] = new]
      BY DEF Save
    <3>3. LoadAliases(p) \/ Truncate(p) => \E new : doing' = [doing EXCEPT ![p] = new]
      BY <3>1 DEF LoadAliases, Truncate
    <3>4. AddAlias(p) \/ RemoveAlias(p) => \E new : doing' = [doing EXCEPT ![p] = new]
      BY <3>1, <3>2 DEF AddAlias, RemoveAlias
    <3>5. WriteOut(p) \/ WriteFails(p) \/ Kill(p) => \E new : doing' = [doing EXCEPT ![p] = new]
      BY <3>1 DEF WriteOut, WriteFails, Kill
    <3> QED BY <1>2, <3>3, <3>4, <3>5
  <2> QED BY <1>0, <2>1, <2>2
<1> QED BY <1>1, <1>2 DEF Client

LEMMA SchemaSteps ==
    ASSUME NEW p \in Process, Client(p), Schema(p), ShowsByRule(p)
    PROVE  Open(p) \/ RegisterSource(p) \/ Registered(p) \/ Describe(p)
<1>1. /\ Command(p).verb = "schema" /\ Stage(p) \in {"start", "register", "describe", "done"}
  BY DEF Schema, ShowsByRule
<1>2. ~(LoadAliases(p) \/ AddAlias(p) \/ RemoveAlias(p) \/ Truncate(p) \/ WriteOut(p))
  BY <1>1 DEF LoadAliases, AddAlias, RemoveAlias, Truncate, WriteOut, AliasVerbs, Keeping
<1>3. ~(WriteFails(p) \/ Kill(p) \/ ShowAliases(p) \/ CallAlias(p) \/ StartRun(p))
  BY <1>1 DEF WriteFails, Kill, ShowAliases, CallAlias, StartRun
<1>4. ~(Prepare(p) \/ Execute(p) \/ AskServer(p))
  BY <1>1 DEF Prepare, Execute, AskServer
<1> QED BY <1>2, <1>3, <1>4 DEF Client

LEMMA SchemaKeeps ==
    ASSUME RuleInv, NEW p \in Process, Client(p), Schema(p) PROVE ShowsByRule(p)'
<1>1. ShowsByRule(p) /\ DOMAIN doing = Process /\ DOMAIN doing[p] = DOMAIN Fresh
  BY DEF RuleInv, AliasInv, CliShapes
<1>2. session' = session /\ UNCHANGED vars
  BY OnlyOwn DEF RuleInv
<1>3. Rule' = Rule /\ Sources' = Sources /\ Command(p).verb = "schema"
  BY <1>2 DEF Rule, Sources, vars, Schema
<1>4. ASSUME NEW result, Ends(p, result), result # "ok" PROVE ShowsByRule(p)'
  <2>1. /\ doing'[p].stage = "done" /\ doing'[p].answer = result
        /\ doing'[p].tables = doing[p].tables /\ doing'[p].shown = doing[p].shown
    BY <1>1, <1>4, FreshFields DEF Ends
  <2> QED BY <1>1, <1>3, <1>4, <2>1 DEF ShowsByRule, Stage
<1>5. CASE Open(p)
  <2>1. ASSUME NEW query, session.context = "there",
               doing' = [doing EXCEPT ![p].stage = NextSession, ![p].query = query]
        PROVE  ShowsByRule(p)'
    <3>1. /\ doing'[p].stage = "register" /\ doing'[p].answer = doing[p].answer
          /\ doing'[p].tables = doing[p].tables /\ doing'[p].shown = doing[p].shown
      BY <1>1, <2>1, FreshFields DEF NextSession
    <3> QED BY <1>1, <1>3, <3>1 DEF ShowsByRule, Stage
  <2> QED BY <1>3, <1>4, <1>5, <2>1 DEF Open
<1>6. CASE RegisterSource(p)
  <2> DEFINE n == doing[p].at
             fresh == [path \in {Path(Sources[n], t) : t \in TablesOf(n)} |->
                       [source |-> n, write |-> ClientWrites(Sources[n]), cached |-> FALSE,
                        reads |-> Reference(Sources[n],
                                            CHOOSE t \in TablesOf(n) : Path(Sources[n], t) = path)]]
  <2>1. \/ Ends(p, "no source")
        \/ doing' = [doing EXCEPT ![p].at = n + 1, ![p].tables = Over(fresh, doing[p].tables)]
    BY <1>1, <1>6 DEF RegisterSource
  <2>2. Stage(p) = "register"
    BY <1>6 DEF RegisterSource
  <2>3. \A path \in DOMAIN fresh : fresh[path].source = n /\ path[1] = Sources[n].name
    <3>1. \A s, t : Path(s, t)[1] = s.name
      BY DEF Path
    <3> HIDE DEF n
    <3>2. \A path \in DOMAIN fresh : \E t : path = Path(Sources[n], t)
      OBVIOUS
    <3>3. \A path \in DOMAIN fresh : fresh[path].source = n
      OBVIOUS
    <3> HIDE DEF fresh
    <3> QED BY <3>1, <3>2, <3>3, Zenon
  <2> HIDE DEF n, fresh
  <2>4. CASE doing' = [doing EXCEPT ![p].at = n + 1, ![p].tables = Over(fresh, doing[p].tables)]
    <3>1. /\ doing'[p].stage = doing[p].stage /\ doing'[p].answer = doing[p].answer
          /\ doing'[p].tables = Over(fresh, doing[p].tables) /\ doing'[p].shown = doing[p].shown
      BY <1>1, <2>4, FreshFields
    <3>2. /\ DOMAIN doing[p].tables \subseteq DOMAIN doing'[p].tables
          /\ \A path \in DOMAIN doing'[p].tables :
                \/ path \in DOMAIN fresh /\ doing'[p].tables[path] = fresh[path]
                \/ path \in DOMAIN doing[p].tables /\ doing'[p].tables[path] = doing[p].tables[path]
      BY <3>1 DEF Over
    <3>3. \A path \in DOMAIN doing'[p].tables :
              path[1] = Sources[doing'[p].tables[path].source].name
      BY <1>1, <2>3, <3>2 DEF ShowsByRule
    <3>4. doing[p].answer = "ok" =>
              /\ DOMAIN doing[p].shown \subseteq DOMAIN doing'[p].tables
              /\ \A path \in DOMAIN doing[p].shown :
                    Rule # Conflict /\ doing[p].shown[path] = Described(Rule, path)
      BY <1>1, <3>2 DEF ShowsByRule
    <3> QED BY <1>3, <2>2, <3>1, <3>3, <3>4 DEF ShowsByRule, Stage
  <2> QED BY <1>4, <2>1, <2>4
<1>7. CASE Registered(p)
  <2>1. /\ doing'[p].stage = "describe" /\ doing'[p].answer = doing[p].answer
        /\ doing'[p].tables = doing[p].tables /\ doing'[p].shown = doing[p].shown
    BY <1>1, <1>3, <1>7, FreshFields DEF Registered
  <2> QED BY <1>1, <1>3, <2>1 DEF ShowsByRule, Stage
<1>8. CASE Describe(p)
  <2> DEFINE chosen == Selected(DOMAIN doing[p].tables, Command(p).table)
  <2>1. CASE /\ Rule # Conflict
             /\ doing' = [doing EXCEPT ![p].stage = "done", ![p].answer = "ok",
                                       ![p].shown = [path \in chosen |-> Described(Rule, path)]]
    <3>1. chosen \subseteq DOMAIN doing[p].tables
      BY DEF Selected
    <3> HIDE DEF chosen
    <3>2. /\ doing'[p].stage = "done" /\ doing'[p].tables = doing[p].tables
          /\ doing'[p].shown = [path \in chosen |-> Described(Rule, path)]
      BY <1>1, <2>1, FreshFields
    <3>3. /\ DOMAIN doing'[p].shown \subseteq DOMAIN doing'[p].tables
          /\ \A path \in DOMAIN doing'[p].shown : doing'[p].shown[path] = Described(Rule, path)
      BY <3>1, <3>2
    <3>4. Stage(p)' = "done"
      BY <3>2 DEF Stage
    <3>5. \A path \in DOMAIN doing'[p].tables : path[1] = Sources'[doing'[p].tables[path].source].name
      BY <1>1, <1>3, <3>2 DEF ShowsByRule
    <3>6. Rule' # Conflict /\ \A path : Described(Rule, path)' = Described(Rule', path)
      BY <1>3, <2>1
    <3> QED BY <1>3, <3>3, <3>4, <3>5, <3>6 DEF ShowsByRule
  <2>2. \/ Ends(p, "bad semantics") \/ Ends(p, "no such table")
        \/ /\ Rule # Conflict
           /\ doing' = [doing EXCEPT ![p].stage = "done", ![p].answer = "ok",
                                     ![p].shown = [path \in chosen |-> Described(Rule, path)]]
    BY <1>8, Zenon DEF Describe, Rule
  <2> QED BY <1>4, <2>1, <2>2
<1> QED BY <1>1, <1>5, <1>6, <1>7, <1>8, SchemaSteps

LEMMA InitRule == CliInit => RuleInv
<1> SUFFICES ASSUME CliInit, NEW p \in Process PROVE ShowsByRule(p)
  BY InitAlias, InitOverlay, CliBegan DEF RuleInv
<1>1. doing[p] = Fresh
  BY DEF CliInit
<1>2. doing[p].stage = "start" /\ DOMAIN doing[p].tables = {} /\ DOMAIN doing[p].shown = {}
  BY <1>1 DEF Fresh
<1> QED BY <1>2 DEF ShowsByRule, Stage

LEMMA NextRule == NamesInv /\ RuleInv /\ [CliNext]_<<vars, cliVars>> => RuleInv'
<1> SUFFICES ASSUME NamesInv, RuleInv, [CliNext]_<<vars, cliVars>> PROVE RuleInv'
  OBVIOUS
<1>1. AliasInv' /\ OverlayInv' /\ config' = config
  BY StepAlias, NextOverlay, CliSteps DEF RuleInv
<1>2. ASSUME NEW p \in Process, session' = session, doing'[p] = doing[p], Schema(p)'
      PROVE  ShowsByRule(p)'
  <2>1. Schema(p) /\ Rule' = Rule /\ Sources' = Sources /\ Stage(p)' = Stage(p)
    BY <1>1, <1>2 DEF Schema, Command, Rule, Sources, Stage
  <2>2. ShowsByRule(p)
    BY <2>1 DEF RuleInv
  <2> QED BY <1>2, <2>1, <2>2 DEF ShowsByRule
<1>3. CASE UNCHANGED cliVars
  BY <1>1, <1>2, <1>3 DEF RuleInv, cliVars
<1>4. ASSUME NEW p \in Process, Client(p) PROVE RuleInv'
  <2>1. session' = session /\ \A q \in Process \ {p} : doing'[q] = doing[q]
    BY <1>4, OnlyOwn DEF RuleInv
  <2>2. Schema(p)' => ShowsByRule(p)'
    BY <1>4, <2>1, SchemaKeeps DEF Schema, Command
  <2> QED BY <1>1, <1>2, <2>1, <2>2 DEF RuleInv
<1> QED BY <1>3, <1>4 DEF CliNext, cliVars

\* What the server and the client show of any set of files, in any order, is what the one file
\* that says something of it says, or else the context file; files that clash are refused.
THEOREM DescriptionsRule == CliSpec => []DescriptionsByRule
<1>1. CliSpec => [](NamesInv /\ IInv)
  BY CliBegan, CliSteps, InitIInv, NextIInv, InitNames, NextNames, PTL DEF CliSpec
<1>2. CliSpec => []RuleInv
  BY <1>1, InitRule, NextRule, PTL DEF CliSpec
<1>3. ASSUME RuleInv PROVE DescriptionsByRule
  <2>1. FilesAreLists(config.semantics)
    BY <1>3, ServerAssumption DEF RuleInv, OverlayInv, FilesAreLists
  <2>2. Rule # Conflict =>
            /\ ~Clash(config.semantics)
            /\ \A on : TextOf(Rule, on) = OughtToSay(config.described, config.semantics, on)
    BY <2>1, OverlayRule DEF Rule
  <2>3. which = "runtime" => overlay = Rule /\ Rule # Conflict
    BY <1>3 DEF RuleInv, OverlayInv, Rule
  <2>4. ASSUME NEW p \in Process, Schema(p), doing[p].answer = "ok", NEW path \in DOMAIN doing[p].shown
        PROVE  LET own    == OughtToSay(config.described, config.semantics, <<InFull(path)>>)
                   source == OughtToSay(config.described, config.semantics,
                                        <<<<Sources[doing[p].tables[path].source].name>>>>)
               IN  doing[p].shown[path] = IF own # NoText THEN own ELSE source
    <3>1. ShowsByRule(p)
      BY <1>3, <2>4 DEF RuleInv
    <3>2. /\ Rule # Conflict /\ doing[p].shown[path] = Described(Rule, path)
          /\ path[1] = Sources[doing[p].tables[path].source].name
      BY <2>4, <3>1 DEF ShowsByRule
    <3>3. \A on : TextOf(Rule, on) = OughtToSay(config.described, config.semantics, on)
      BY <2>2, <3>2
    <3> QED BY <3>2, <3>3 DEF Described
  <2> QED BY <2>2, <2>3, <2>4 DEF DescriptionsByRule, Schema
<1> QED BY <1>2, <1>3, PTL

-----------------------------------------------------------------------------
(* Texts that are put together: FlattenSeq goes through its sequences.      *)

Cat(s, t) == s \o t

LEMMA CatIs ==
    ASSUME NEW W, NEW s \in Seq(W), NEW t \in Seq(W)
    PROVE  Cat(s, t) \in Seq(W) /\ Len(Cat(s, t)) = Len(s) + Len(t)
BY ConcatProperties DEF Cat

LEMMA CatAt ==
    ASSUME NEW W, NEW s \in Seq(W), NEW t \in Seq(W), NEW i \in 1..(Len(s) + Len(t))
    PROVE  Cat(s, t)[i] = IF i <= Len(s) THEN s[i] ELSE t[i - Len(s)]
BY ConcatProperties DEF Cat

LEMMA CatNone ==
    ASSUME NEW W, NEW s \in Seq(W)
    PROVE  Cat(<<>>, s) = s /\ Cat(s, <<>>) = s
BY ConcatEmptySeq DEF Cat

LEMMA CatCat ==
    ASSUME NEW W, NEW s \in Seq(W), NEW t \in Seq(W), NEW u \in Seq(W)
    PROVE  Cat(Cat(s, t), u) = Cat(s, Cat(t, u))
BY ConcatAssociative DEF Cat

Walks(W, ss, f) ==
    /\ f[0] = <<>> /\ \A k \in 1..Len(ss) : f[k] = Cat(f[k - 1], ss[k])
    /\ \A k \in 0..Len(ss) : f[k] \in Seq(W)

\* What FlattenSeq makes of the sequences up to i.
Glued(g, ss, i) == IF i = 1 THEN ss[i] ELSE g[i - 1] \o ss[i]

LEMMA GlueExists ==
    ASSUME NEW ss, NEW L \in Nat
    PROVE  \E g : g = [i \in 1..L |-> Glued(g, ss, i)]
<1> DEFINE Done(k) == \E g : g = [i \in 1..k |-> Glued(g, ss, i)]
           T == {k \in Nat : Done(k)}
<1>1. 0 \in T
  <2> DEFINE g == [i \in 1..0 |-> ss[i]]
  <2>1. g = [i \in 1..0 |-> Glued(g, ss, i)]
    OBVIOUS
  <2> QED BY <2>1
<1>2. ASSUME NEW k \in Nat, k \in T PROVE k + 1 \in T
  <2>1. PICK g : g = [i \in 1..k |-> Glued(g, ss, i)]
    BY <1>2
  <2> DEFINE h == [i \in 1..(k + 1) |-> IF i = k + 1 THEN Glued(g, ss, k + 1) ELSE g[i]]
  <2>2. \A i \in 1..k : h[i] = g[i] /\ g[i] = Glued(g, ss, i)
    <3>1. \A i \in 1..k : g[i] = Glued(g, ss, i)
      BY <2>1, Zenon
    <3>2. \A i \in 1..k : i \in 1..(k + 1) /\ i # k + 1
      OBVIOUS
    <3> QED BY <3>1, <3>2
  <2>3. ASSUME NEW i \in 1..(k + 1) PROVE h[i] = Glued(h, ss, i)
    <3>1. i = 1 \/ i - 1 \in 1..k
      OBVIOUS
    <3>2. h[i] = Glued(g, ss, i)
      <4>1. CASE i = k + 1
        BY <4>1
      <4>2. CASE i # k + 1
        <5>1. i \in 1..k
          BY <4>2
        <5> QED BY <2>2, <5>1
      <4> QED BY <4>1, <4>2
    <3> HIDE DEF h
    <3> QED BY <2>2, <3>1, <3>2 DEF Glued
  <2>4. h = [i \in 1..(k + 1) |-> Glued(h, ss, i)]
    <3>1. h = [i \in 1..(k + 1) |-> h[i]]
      BY Zenon
    <3> HIDE DEF h
    <3> QED BY <2>3, <3>1, Zenon
  <2>5. Done(k + 1)
    <3> HIDE DEF h
    <3> QED BY <2>4
  <2> HIDE DEF Done
  <2> QED BY <2>5
<1> HIDE DEF T
<1>3. L \in T
  BY <1>1, <1>2, SetInduction
<1> QED BY <1>3 DEF T

LEMMA Walked ==
    ASSUME NEW W, NEW ss \in Seq(Seq(W))
    PROVE  \E f : Walks(W, ss, f) /\ FlattenSeq(ss) = f[Len(ss)]
<1> DEFINE L == Len(ss)
<1>0. L \in Nat /\ \A k \in 1..L : ss[k] \in Seq(W)
  OBVIOUS
<1>1. CASE L = 0
  <2> DEFINE f == [k \in 0..0 |-> ss]
  <2>1. ss = <<>> /\ ss \in Seq(W)
    BY <1>1, EmptySeq
  <2>2. FlattenSeq(ss) = ss
    BY <1>1 DEF FlattenSeq
  <2>3. f[0] = ss
    OBVIOUS
  <2> HIDE DEF f
  <2>4. Walks(W, ss, f)
    <3>1. Len(ss) = 0 /\ 1..0 = {} /\ 0..0 = {0}
      BY <1>1
    <3> QED BY <2>1, <2>3, <3>1 DEF Walks
  <2> QED BY <1>1, <2>2, <2>3, <2>4
<1>2. CASE L # 0
  <2> DEFINE g == CHOOSE g : g = [i \in 1..L |-> Glued(g, ss, i)]
  <2>1. g = [i \in 1..L |-> Glued(g, ss, i)]
    BY <1>0, GlueExists
  <2>2. FlattenSeq(ss) = g[L]
    BY <1>2, Zenon DEF FlattenSeq, Glued
  <2> HIDE DEF g
  <2> DEFINE f == [k \in 0..L |-> IF k = 0 THEN <<>> ELSE g[k]]
  <2>3. \A k \in 1..L : g[k] = Glued(g, ss, k)
    BY <2>1, Zenon
  <2>4. f[0] = <<>> /\ \A k \in 1..L : f[k] = g[k]
    BY <1>0
  <2> HIDE DEF f
  <2>5. ASSUME NEW k \in 1..L PROVE f[k] = Cat(f[k - 1], ss[k])
    <3>1. CASE k = 1
      <4>1. f[k] = ss[1] /\ f[k - 1] = <<>> /\ ss[1] \in Seq(W)
        BY <1>0, <2>3, <2>4, <3>1 DEF Glued
      <4> QED BY <3>1, <4>1, CatNone
    <3>2. CASE k # 1
      <4>1. k - 1 \in 1..L
        BY <1>0, <3>2
      <4> QED BY <2>3, <2>4, <3>2, <4>1 DEF Glued, Cat
    <3> QED BY <3>1, <3>2
  <2> DEFINE T == {k \in Nat : k <= L => f[k] \in Seq(W)}
  <2>6. 0 \in T
    BY <2>4, EmptySeq
  <2>7. ASSUME NEW k \in Nat, k \in T PROVE k + 1 \in T
    <3> SUFFICES ASSUME k + 1 <= L PROVE f[k + 1] \in Seq(W)
      OBVIOUS
    <3>1. k + 1 \in 1..L /\ (k + 1) - 1 = k /\ f[k] \in Seq(W)
      BY <1>0, <2>7
    <3>2. f[k + 1] = Cat(f[k], ss[k + 1]) /\ ss[k + 1] \in Seq(W)
      BY <1>0, <2>5, <3>1
    <3> QED BY <3>1, <3>2, CatIs
  <2> HIDE DEF T
  <2>8. Nat \subseteq T
    BY <2>6, <2>7, SetInduction
  <2>9. \A k \in 0..L : f[k] \in Seq(W)
    BY <1>0, <2>8 DEF T
  <2>10. Walks(W, ss, f)
    BY <2>4, <2>5, <2>9 DEF Walks
  <2>11. L \in 1..L
    BY <1>0, <1>2
  <2> QED BY <2>2, <2>4, <2>10, <2>11
<1> QED BY <1>1, <1>2

LEMMA FlattenIs ==
    ASSUME NEW W, NEW ss \in Seq(Seq(W)), NEW f, Walks(W, ss, f)
    PROVE  FlattenSeq(ss) = f[Len(ss)] /\ FlattenSeq(ss) \in Seq(W)
<1>1. PICK g : Walks(W, ss, g) /\ FlattenSeq(ss) = g[Len(ss)]
  BY Walked
<1> DEFINE T == {k \in Nat : k <= Len(ss) => f[k] = g[k]}
<1>2. 0 \in T
  BY <1>1 DEF Walks
<1>3. ASSUME NEW k \in Nat, k \in T PROVE k + 1 \in T
  <2> SUFFICES ASSUME k + 1 <= Len(ss) PROVE f[k + 1] = g[k + 1]
    OBVIOUS
  <2>1. k + 1 \in 1..Len(ss) /\ (k + 1) - 1 = k /\ f[k] = g[k]
    BY <1>3
  <2> QED BY <1>1, <2>1 DEF Walks
<1> HIDE DEF T
<1>4. Len(ss) \in T
  BY <1>2, <1>3, SetInduction
<1>5. f[Len(ss)] = g[Len(ss)] /\ Len(ss) \in 0..Len(ss)
  BY <1>4 DEF T
<1> QED BY <1>1, <1>5 DEF Walks

LEMMA FlattenCat ==
    ASSUME NEW W, NEW ss \in Seq(Seq(W)), NEW tt \in Seq(Seq(W))
    PROVE  FlattenSeq(Cat(ss, tt)) = Cat(FlattenSeq(ss), FlattenSeq(tt))
<1>1. PICK f : Walks(W, ss, f) /\ FlattenSeq(ss) = f[Len(ss)]
  BY Walked
<1>2. PICK g : Walks(W, tt, g) /\ FlattenSeq(tt) = g[Len(tt)]
  BY Walked
<1> DEFINE L == Len(ss)
           M == Len(tt)
           h == [k \in 0..(L + M) |-> IF k <= L THEN f[k] ELSE Cat(f[L], g[k - L])]
<1>3. /\ L \in Nat /\ M \in Nat /\ Cat(ss, tt) \in Seq(Seq(W)) /\ Len(Cat(ss, tt)) = L + M
      /\ \A k \in 1..L : Cat(ss, tt)[k] = ss[k]
      /\ \A k \in (L + 1)..(L + M) : Cat(ss, tt)[k] = tt[k - L]
      /\ \A k \in 1..M : tt[k] \in Seq(W)
  <2>1. L \in Nat /\ M \in Nat /\ Cat(ss, tt) \in Seq(Seq(W)) /\ Len(Cat(ss, tt)) = L + M
    <3> DEFINE V == Seq(W)
    <3>1. ss \in Seq(V) /\ tt \in Seq(V) /\ L \in Nat /\ M \in Nat
      OBVIOUS
    <3> HIDE DEF V
    <3>2. Cat(ss, tt) \in Seq(V) /\ Len(Cat(ss, tt)) = L + M
      BY <3>1, CatIs
    <3> QED BY <3>1, <3>2 DEF V
  <2>2. \A k \in 1..(L + M) : Cat(ss, tt)[k] = IF k <= L THEN ss[k] ELSE tt[k - L]
    <3> DEFINE V == Seq(W)
    <3>1. ss \in Seq(V) /\ tt \in Seq(V)
      OBVIOUS
    <3> HIDE DEF V
    <3> QED BY <3>1, CatAt
  <2>3. \A k \in 1..M : tt[k] \in Seq(W)
    OBVIOUS
  <2>4. \A k \in 1..L : k \in 1..(L + M) /\ k <= L
    BY <2>1
  <2>5. \A k \in (L + 1)..(L + M) : k \in 1..(L + M) /\ ~(k <= L)
    BY <2>1
  <2> HIDE DEF L, M
  <2> QED BY <2>1, <2>2, <2>3, <2>4, <2>5
<1>4. L = Len(ss) /\ M = Len(tt)
  OBVIOUS
<1> HIDE DEF L, M
<1>5. /\ f[0] = <<>> /\ \A k \in 1..L : f[k] = Cat(f[k - 1], ss[k])
      /\ \A k \in 0..L : f[k] \in Seq(W)
      /\ g[0] = <<>> /\ \A k \in 1..M : g[k] = Cat(g[k - 1], tt[k])
      /\ \A k \in 0..M : g[k] \in Seq(W)
  BY <1>1, <1>2, <1>4 DEF Walks
<1>6. /\ \A k \in 0..L : h[k] = f[k]
      /\ \A k \in (L + 1)..(L + M) : h[k] = Cat(f[L], g[k - L])
      /\ f[L] \in Seq(W)
  <2>1. \A k \in 0..(L + M) : h[k] = IF k <= L THEN f[k] ELSE Cat(f[L], g[k - L])
    BY Zenon
  <2>2. L \in 0..L /\ \A k \in 0..L : k \in 0..(L + M) /\ k <= L
    BY <1>3
  <2>3. \A k \in (L + 1)..(L + M) : k \in 0..(L + M) /\ ~(k <= L)
    BY <1>3
  <2> HIDE DEF h
  <2> QED BY <1>5, <2>1, <2>2, <2>3, Zenon
<1>7. \A k \in L..(L + M) : h[k] = Cat(f[L], g[k - L])
  <2>1. h[L] = f[L] /\ Cat(f[L], <<>>) = f[L] /\ L - L = 0
    BY <1>3, <1>6, CatNone
  <2>2. \A k \in L..(L + M) : k = L \/ k \in (L + 1)..(L + M)
    BY <1>3
  <2> HIDE DEF h
  <2> QED BY <1>5, <1>6, <2>1, <2>2
<1> HIDE DEF h
<1>8. ASSUME NEW k \in 1..(L + M) PROVE h[k] = Cat(h[k - 1], Cat(ss, tt)[k])
  <2>1. CASE k \in 1..L
    <3>1. k \in 0..L /\ k - 1 \in 0..L
      BY <1>3, <2>1
    <3> QED BY <1>3, <1>5, <1>6, <2>1, <3>1
  <2>2. CASE k \in (L + 1)..(L + M)
    <3>1. k - 1 \in L..(L + M) /\ k \in L..(L + M) /\ k - L \in 1..M /\ (k - 1) - L = (k - L) - 1
          /\ (k - L) - 1 \in 0..M
      BY <1>3, <2>2
    <3>2. g[k - L] = Cat(g[(k - L) - 1], tt[k - L]) /\ tt[k - L] \in Seq(W) /\ g[(k - L) - 1] \in Seq(W)
      BY <1>3, <1>5, <3>1
    <3>3. Cat(Cat(f[L], g[(k - L) - 1]), tt[k - L]) = Cat(f[L], Cat(g[(k - L) - 1], tt[k - L]))
      BY <1>6, <3>2, CatCat
    <3>4. h[k] = Cat(f[L], g[k - L]) /\ h[k - 1] = Cat(f[L], g[(k - L) - 1])
      BY <1>7, <3>1
    <3>5. Cat(ss, tt)[k] = tt[k - L]
      BY <1>3, <2>2
    <3> QED BY <3>2, <3>3, <3>4, <3>5, Zenon
  <2> QED BY <1>3, <2>1, <2>2
<1>9. \A k \in 0..(L + M) : h[k] \in Seq(W)
  <2> SUFFICES ASSUME NEW k \in 0..(L + M) PROVE h[k] \in Seq(W)
    OBVIOUS
  <2>1. CASE k \in 0..L
    BY <1>5, <1>6, <2>1
  <2>2. CASE k \in L..(L + M)
    <3>1. k - L \in 0..M
      BY <1>3, <2>2
    <3>2. h[k] = Cat(f[L], g[k - L])
      BY <1>7, <2>2
    <3>3. g[k - L] \in Seq(W) /\ f[L] \in Seq(W)
      BY <1>5, <1>6, <3>1
    <3> QED BY <3>2, <3>3, CatIs
  <2> QED BY <1>3, <2>1, <2>2
<1>10. Walks(W, Cat(ss, tt), h)
  <2>1. h[0] = <<>>
    BY <1>3, <1>5, <1>6
  <2> QED BY <1>3, <1>8, <1>9, <2>1 DEF Walks
<1>11. FlattenSeq(Cat(ss, tt)) = h[L + M]
  BY <1>3, <1>10, FlattenIs
<1>12. h[L + M] = Cat(f[L], g[M])
  <2>1. L + M \in L..(L + M) /\ (L + M) - L = M
    BY <1>3
  <2> QED BY <1>7, <2>1
<1> QED BY <1>1, <1>2, <1>4, <1>11, <1>12

LEMMA FlattenOne ==
    ASSUME NEW W, NEW s \in Seq(W) PROVE FlattenSeq(<<s>>) = s
<1> DEFINE ss == <<s>>
           f == [k \in 0..1 |-> IF k = 0 THEN <<>> ELSE s]
<1>1. ss \in Seq(Seq(W)) /\ Len(ss) = 1 /\ ss[1] = s
  OBVIOUS
<1>2. f[0] = <<>> /\ f[1] = s
  OBVIOUS
<1> HIDE DEF ss, f
<1>3. Cat(<<>>, s) = s /\ <<>> \in Seq(W)
  BY CatNone, EmptySeq
<1>4. 1..1 = {1} /\ 0..1 = {0, 1} /\ 1 - 1 = 0
  OBVIOUS
<1>5. Walks(W, ss, f)
  BY <1>1, <1>2, <1>3, <1>4 DEF Walks
<1>6. FlattenSeq(ss) = f[1]
  BY <1>1, <1>5, FlattenIs
<1> QED BY <1>2, <1>6 DEF ss

\* Sequences one element at a time.
LEMMA TextInduction ==
    ASSUME NEW W, NEW S, <<>> \in S,
           \A s \in Seq(W), x \in W : s \in S => Cat(s, <<x>>) \in S
    PROVE  Seq(W) \subseteq S
<1> DEFINE T == {k \in Nat : \A s \in Seq(W) : Len(s) = k => s \in S}
<1>1. 0 \in T
  BY EmptySeq
<1>2. ASSUME NEW k \in Nat, k \in T PROVE k + 1 \in T
  <2> SUFFICES ASSUME NEW s \in Seq(W), Len(s) = k + 1 PROVE s \in S
    OBVIOUS
  <2>1. s # <<>>
    BY EmptySeq
  <2>2. PICK t \in Seq(W), x \in W : s = Append(t, x)
    BY <2>1, SequenceEmptyOrAppend
  <2>3. Len(t) = k /\ s = Cat(t, <<x>>)
    BY <2>2, AppendProperties, AppendIsConcat DEF Cat
  <2> QED BY <1>2, <2>3
<1> HIDE DEF T
<1>3. Nat \subseteq T
  BY <1>1, <1>2, SetInduction
<1> QED BY <1>3, LenProperties DEF T

-----------------------------------------------------------------------------
(* A text with values put in the place of names.                            *)

Piece(x, P, texts) == IF x \in P THEN texts[x] ELSE <<x>>

Put(text, P, texts) == FlattenSeq([i \in DOMAIN text |-> Piece(text[i], P, texts)])

Fills(W, P, texts) == \A n \in P : texts[n] \in Seq(W)

LEMMA PutIs ==
    ASSUME NEW W, NEW P, NEW texts, Fills(W, P, texts), NEW text \in Seq(W)
    PROVE  /\ [i \in DOMAIN text |-> Piece(text[i], P, texts)] \in Seq(Seq(W))
           /\ Put(text, P, texts) \in Seq(W)
<1> DEFINE ss == [i \in DOMAIN text |-> Piece(text[i], P, texts)]
<1>1. Len(text) \in Nat /\ DOMAIN text = 1..Len(text) /\ \A i \in 1..Len(text) : text[i] \in W
  BY LenProperties
<1>2. \A i \in 1..Len(text) : Piece(text[i], P, texts) \in Seq(W)
  BY <1>1 DEF Piece, Fills
<1>3. ss \in Seq(Seq(W))
  <2>1. ss \in [1..Len(text) -> Seq(W)]
    BY <1>1, <1>2
  <2> HIDE DEF ss
  <2> QED BY <1>1, <2>1
<1> HIDE DEF ss
<1>4. FlattenSeq(ss) \in Seq(W)
  <2>1. PICK f : Walks(W, ss, f)
    BY <1>3, Walked
  <2> QED BY <1>3, <2>1, FlattenIs
<1> QED BY <1>3, <1>4 DEF ss, Put

LEMMA PutCat ==
    ASSUME NEW W, NEW P, NEW texts, Fills(W, P, texts), NEW s \in Seq(W), NEW t \in Seq(W)
    PROVE  Put(Cat(s, t), P, texts) = Cat(Put(s, P, texts), Put(t, P, texts))
<1> DEFINE A == [i \in DOMAIN s |-> Piece(s[i], P, texts)]
           B == [i \in DOMAIN t |-> Piece(t[i], P, texts)]
           C == [i \in DOMAIN Cat(s, t) |-> Piece(Cat(s, t)[i], P, texts)]
<1>1. /\ Cat(s, t) \in Seq(W) /\ Len(s) \in Nat /\ Len(t) \in Nat /\ Len(Cat(s, t)) = Len(s) + Len(t)
      /\ DOMAIN s = 1..Len(s) /\ DOMAIN t = 1..Len(t) /\ DOMAIN Cat(s, t) = 1..(Len(s) + Len(t))
      /\ \A i \in 1..(Len(s) + Len(t)) : Cat(s, t)[i] = IF i <= Len(s) THEN s[i] ELSE t[i - Len(s)]
  <2>1. Cat(s, t) \in Seq(W) /\ Len(Cat(s, t)) = Len(s) + Len(t)
    BY CatIs
  <2>2. \A i \in 1..(Len(s) + Len(t)) : Cat(s, t)[i] = IF i <= Len(s) THEN s[i] ELSE t[i - Len(s)]
    BY CatAt
  <2> QED BY <2>1, <2>2, LenProperties
<1>2. A \in Seq(Seq(W)) /\ B \in Seq(Seq(W)) /\ C \in Seq(Seq(W))
  <2> DEFINE Q(u) == [i \in DOMAIN u |-> Piece(u[i], P, texts)]
  <2>1. \A u \in Seq(W) : Q(u) \in Seq(Seq(W))
    BY PutIs
  <2>2. A = Q(s) /\ B = Q(t) /\ C = Q(Cat(s, t))
    OBVIOUS
  <2> HIDE DEF Q, A, B, C
  <2> QED BY <1>1, <2>1, <2>2
<1>3. Len(A) = Len(s) /\ Len(B) = Len(t) /\ Len(C) = Len(s) + Len(t)
  <2>1. DOMAIN A = 1..Len(s) /\ DOMAIN B = 1..Len(t) /\ DOMAIN C = 1..(Len(s) + Len(t))
    BY <1>1
  <2> HIDE DEF A, B, C
  <2> QED BY <1>1, <1>2, <2>1
<1>5. /\ Cat(A, B) \in Seq(Seq(W)) /\ Len(Cat(A, B)) = Len(s) + Len(t)
      /\ \A i \in 1..(Len(s) + Len(t)) : Cat(A, B)[i] = IF i <= Len(A) THEN A[i] ELSE B[i - Len(A)]
  <2> HIDE DEF A, B
  <2>1. /\ Cat(A, B) \in Seq(Seq(W)) /\ Len(Cat(A, B)) = Len(A) + Len(B)
        /\ \A i \in 1..(Len(A) + Len(B)) : Cat(A, B)[i] = IF i <= Len(A) THEN A[i] ELSE B[i - Len(A)]
    BY <1>2, CatIs, CatAt
  <2> QED BY <1>3, <2>1
<1>4. ASSUME NEW i \in 1..(Len(s) + Len(t)) PROVE C[i] = Cat(A, B)[i]
  <2>1. C[i] = Piece(Cat(s, t)[i], P, texts)
    BY <1>1
  <2>2. CASE i <= Len(s)
    <3>1. i \in DOMAIN s
      BY <1>1, <2>2
    <3>2. A[i] = Piece(s[i], P, texts)
      BY <3>1
    <3> HIDE DEF A, B, C
    <3>3. Cat(A, B)[i] = A[i]
      BY <1>3, <1>5, <2>2
    <3> QED BY <1>1, <2>1, <2>2, <3>2, <3>3
  <2>3. CASE ~(i <= Len(s))
    <3>1. i - Len(s) \in DOMAIN t
      BY <1>1, <2>3
    <3>2. B[i - Len(s)] = Piece(t[i - Len(s)], P, texts)
      BY <3>1
    <3> HIDE DEF A, B, C
    <3>3. Cat(A, B)[i] = B[i - Len(s)]
      BY <1>3, <1>5, <2>3
    <3> QED BY <1>1, <2>1, <2>3, <3>2, <3>3
  <2> QED BY <2>2, <2>3
<1>6. Put(Cat(s, t), P, texts) = FlattenSeq(C) /\ Put(s, P, texts) = FlattenSeq(A)
      /\ Put(t, P, texts) = FlattenSeq(B)
  BY DEF Put
<1> HIDE DEF A, B, C
<1>7. C = Cat(A, B)
  <2>1. Len(C) = Len(Cat(A, B)) /\ \A i \in 1..Len(C) : C[i] = Cat(A, B)[i]
    BY <1>3, <1>4, <1>5
  <2> QED BY <1>2, <1>5, <2>1, SeqEqual
<1>8. FlattenSeq(Cat(A, B)) = Cat(FlattenSeq(A), FlattenSeq(B))
  BY <1>2, FlattenCat
<1> QED BY <1>6, <1>7, <1>8

LEMMA PutOne ==
    ASSUME NEW W, NEW P, NEW texts, Fills(W, P, texts), NEW x \in W
    PROVE  Put(<<x>>, P, texts) = Piece(x, P, texts)
<1> DEFINE ss == [i \in DOMAIN <<x>> |-> Piece(<<x>>[i], P, texts)]
<1>1. Piece(x, P, texts) \in Seq(W)
  BY DEF Piece, Fills
<1>2. ss = <<Piece(x, P, texts)>>
  <2>1. DOMAIN <<x>> = 1..1 /\ 1..1 = {1} /\ <<x>>[1] = x
    OBVIOUS
  <2>2. ss = [i \in {1} |-> Piece(x, P, texts)]
    BY <2>1
  <2>3. <<Piece(x, P, texts)>> = [i \in {1} |-> Piece(x, P, texts)]
    OBVIOUS
  <2> QED BY <2>2, <2>3
<1>3. FlattenSeq(<<Piece(x, P, texts)>>) = Piece(x, P, texts)
  BY <1>1, FlattenOne
<1> QED BY <1>2, <1>3 DEF Put

LEMMA PutEmpty == \A P, texts : Put(<<>>, P, texts) = <<>>
<1> SUFFICES ASSUME NEW P, NEW texts PROVE Put(<<>>, P, texts) = <<>>
  OBVIOUS
<1>1. [i \in DOMAIN <<>> |-> Piece(<<>>[i], P, texts)] = <<>>
  OBVIOUS
<1>2. Put(<<>>, P, texts) = FlattenSeq(<<>>)
  BY <1>1 DEF Put
<1> QED BY <1>2 DEF FlattenSeq

\* A text that holds none of the names stays as it is.
LEMMA PutNone ==
    ASSUME NEW W, NEW P, NEW texts, Fills(W, P, texts), NEW text \in Seq(W),
           \A i \in DOMAIN text : text[i] \notin P
    PROVE  Put(text, P, texts) = text
<1> DEFINE S == {s \in Seq(W) : (\A i \in DOMAIN s : s[i] \notin P) => Put(s, P, texts) = s}
<1>1. <<>> \in S
  BY PutEmpty, EmptySeq
<1>2. ASSUME NEW s \in Seq(W), NEW x \in W, s \in S PROVE Cat(s, <<x>>) \in S
  <2>1. Cat(s, <<x>>) \in Seq(W) /\ <<x>> \in Seq(W) /\ DOMAIN s = 1..Len(s) /\ Len(s) \in Nat
        /\ DOMAIN Cat(s, <<x>>) = 1..(Len(s) + 1)
        /\ \A i \in 1..(Len(s) + 1) : Cat(s, <<x>>)[i] = IF i <= Len(s) THEN s[i] ELSE x
    <3> DEFINE one == <<x>>
    <3>1. one \in Seq(W) /\ Len(one) = 1 /\ one[1] = x /\ Len(s) \in Nat /\ DOMAIN s = 1..Len(s)
      OBVIOUS
    <3> HIDE DEF one
    <3>2. Cat(s, one) \in Seq(W) /\ Len(Cat(s, one)) = Len(s) + 1
      BY <3>1, CatIs
    <3>3. \A i \in 1..(Len(s) + 1) : Cat(s, one)[i] = IF i <= Len(s) THEN s[i] ELSE one[i - Len(s)]
      BY <3>1, CatAt
    <3>4. \A i \in 1..(Len(s) + 1) : ~(i <= Len(s)) => i - Len(s) = 1
      BY <3>1
    <3>5. \A i \in 1..(Len(s) + 1) : Cat(s, one)[i] = IF i <= Len(s) THEN s[i] ELSE x
      BY <3>1, <3>3, <3>4
    <3> QED BY <3>1, <3>2, <3>5, LenProperties DEF one
  <2> SUFFICES ASSUME \A i \in DOMAIN Cat(s, <<x>>) : Cat(s, <<x>>)[i] \notin P
               PROVE  Put(Cat(s, <<x>>), P, texts) = Cat(s, <<x>>)
    BY <2>1
  <2>2. \A i \in DOMAIN s : s[i] \notin P
    <3> DEFINE longer == Cat(s, <<x>>)
    <3>1. \A i \in DOMAIN longer : longer[i] \notin P
      OBVIOUS
    <3>2. /\ Len(s) \in Nat /\ DOMAIN s = 1..Len(s) /\ DOMAIN longer = 1..(Len(s) + 1)
          /\ \A i \in 1..(Len(s) + 1) : longer[i] = IF i <= Len(s) THEN s[i] ELSE x
      BY <2>1
    <3> HIDE DEF longer
    <3>3. \A i \in 1..Len(s) : i \in 1..(Len(s) + 1) /\ i <= Len(s)
      BY <3>2
    <3> QED BY <3>1, <3>2, <3>3
  <2>3. x \notin P
    <3>1. Len(s) + 1 \in 1..(Len(s) + 1) /\ ~(Len(s) + 1 <= Len(s))
      BY <2>1
    <3> QED BY <2>1, <3>1
  <2>4. Put(s, P, texts) = s
    BY <1>2, <2>2
  <2>5. Put(<<x>>, P, texts) = <<x>>
    BY <2>3, PutOne DEF Piece
  <2>6. Put(Cat(s, <<x>>), P, texts) = Cat(Put(s, P, texts), Put(<<x>>, P, texts))
    <3> DEFINE one == <<x>>
    <3>1. one \in Seq(W)
      BY <2>1
    <3> HIDE DEF one
    <3>2. Put(Cat(s, one), P, texts) = Cat(Put(s, P, texts), Put(one, P, texts))
      BY <3>1, PutCat
    <3> QED BY <3>2 DEF one
  <2> QED BY <2>4, <2>5, <2>6
<1> HIDE DEF S
<1>3. text \in S
  BY <1>1, <1>2, TextInduction
<1> QED BY <1>3 DEF S

\* One more name: if no value holds it, it is as if it had been put in place with the others.
LEMMA PutNext ==
    ASSUME NEW W, NEW A, NEW p, NEW texts, Fills(W, A \cup {p}, texts), NEW text \in Seq(W), p \notin A,
           \A n \in A : \A i \in DOMAIN texts[n] : texts[n][i] # p
    PROVE  Put(Put(text, A, texts), {p}, texts) = Put(text, A \cup {p}, texts)
<1> DEFINE B == A \cup {p}
           S == {s \in Seq(W) : Put(Put(s, A, texts), {p}, texts) = Put(s, B, texts)}
<1>0. Fills(W, A, texts) /\ Fills(W, {p}, texts) /\ Fills(W, B, texts)
  BY DEF Fills
<1>1. <<>> \in S
  BY PutEmpty, EmptySeq
<1>2. ASSUME NEW s \in Seq(W), NEW x \in W, s \in S PROVE Cat(s, <<x>>) \in S
  <2> DEFINE one == <<x>>
  <2>1. one \in Seq(W) /\ Cat(s, one) \in Seq(W)
    <3>1. one \in Seq(W)
      OBVIOUS
    <3> HIDE DEF one
    <3> QED BY <3>1, CatIs
  <2>2. Put(s, A, texts) \in Seq(W) /\ Put(one, A, texts) \in Seq(W)
    BY <1>0, <2>1, PutIs
  <2>3. Put(Put(one, A, texts), {p}, texts) = Put(one, B, texts)
    <3>1. Put(one, A, texts) = Piece(x, A, texts) /\ Put(one, B, texts) = Piece(x, B, texts)
      BY <1>0, PutOne
    <3>2. CASE x \in A
      <4>1. Put(one, A, texts) = texts[x] /\ Put(one, B, texts) = texts[x] /\ texts[x] \in Seq(W)
        BY <3>1, <3>2, <1>0 DEF Piece, Fills
      <4>2. \A i \in DOMAIN texts[x] : texts[x][i] \notin {p}
        BY <3>2
      <4>3. Put(texts[x], {p}, texts) = texts[x]
        BY <1>0, <4>1, <4>2, PutNone
      <4> QED BY <4>1, <4>3
    <3>3. CASE x \notin A
      <4>1. Put(one, A, texts) = one
        BY <3>1, <3>3 DEF Piece
      <4>2. Put(one, {p}, texts) = Piece(x, {p}, texts)
        BY <1>0, PutOne
      <4>3. Piece(x, {p}, texts) = Piece(x, B, texts)
        BY <3>3 DEF Piece
      <4> QED BY <3>1, <4>1, <4>2, <4>3
    <3> QED BY <3>2, <3>3
  <2> HIDE DEF one, B
  <2>4. Put(Cat(s, one), A, texts) = Cat(Put(s, A, texts), Put(one, A, texts))
    BY <1>0, <2>1, PutCat
  <2>5. Put(Cat(Put(s, A, texts), Put(one, A, texts)), {p}, texts)
            = Cat(Put(Put(s, A, texts), {p}, texts), Put(Put(one, A, texts), {p}, texts))
    BY <1>0, <2>2, PutCat
  <2>6. Put(Cat(s, one), B, texts) = Cat(Put(s, B, texts), Put(one, B, texts))
    BY <1>0, <2>1, PutCat
  <2>7. Put(Put(s, A, texts), {p}, texts) = Put(s, B, texts)
    BY <1>2
  <2>8. Cat(s, one) \in S
    BY <2>1, <2>3, <2>4, <2>5, <2>6, <2>7
  <2> QED BY <2>8 DEF one
<1> HIDE DEF S
<1>3. text \in S
  BY <1>1, <1>2, TextInduction
<1> QED BY <1>3 DEF S

-----------------------------------------------------------------------------
(* A statement: every name of the query in its turn.                         *)

Columns(query) == {query.holes[i].column : i \in DOMAIN query.holes}

HolesAreList(query) == Len(query.holes) \in Nat /\ DOMAIN query.holes = 1..Len(query.holes)

LEMMA TemplateIs ==
    ASSUME NEW query, HolesAreList(query)
    PROVE  Template(query) \in Seq(Params(query) \cup Columns(query))
<1> DEFINE W == Params(query) \cup Columns(query)
           ss == [i \in DOMAIN query.holes |-> <<query.holes[i].column, query.holes[i].param>>]
<1>1. \A i \in DOMAIN query.holes : query.holes[i].column \in W /\ query.holes[i].param \in W
  BY DEF Params, Columns
<1> HIDE DEF W
<1>2. \A i \in DOMAIN query.holes : <<query.holes[i].column, query.holes[i].param>> \in Seq(W)
  BY <1>1
<1>3. ss \in Seq(Seq(W))
  <2>1. ss \in [1..Len(query.holes) -> Seq(W)] /\ Len(query.holes) \in Nat
    BY <1>2 DEF HolesAreList
  <2> HIDE DEF ss
  <2> QED BY <2>1
<1> HIDE DEF ss
<1>4. PICK f : Walks(W, ss, f)
  BY <1>3, Walked
<1>5. FlattenSeq(ss) \in Seq(W)
  BY <1>3, <1>4, FlattenIs
<1> QED BY <1>5 DEF ss, Template, W

LEMMA FiniteImage ==
    ASSUME NEW n \in Nat, NEW S, NEW f \in [1..n -> S] PROVE IsFiniteSet({f[i] : i \in 1..n})
<1> DEFINE T == {k \in Nat : k <= n => IsFiniteSet({f[i] : i \in 1..k})}
<1>1. 0 \in T
  <2>1. {f[i] : i \in 1..0} = {}
    OBVIOUS
  <2> QED BY <2>1, FS_EmptySet
<1>2. ASSUME NEW k \in Nat, k \in T PROVE k + 1 \in T
  <2> SUFFICES ASSUME k + 1 <= n PROVE IsFiniteSet({f[i] : i \in 1..(k + 1)})
    OBVIOUS
  <2>1. {f[i] : i \in 1..(k + 1)} = {f[i] : i \in 1..k} \cup {f[k + 1]}
    <3>1. 1..(k + 1) = (1..k) \cup {k + 1}
      OBVIOUS
    <3> QED BY <3>1
  <2>2. IsFiniteSet({f[i] : i \in 1..k})
    BY <1>2
  <2> DEFINE S1 == {f[i] : i \in 1..k}
             x1 == f[k + 1]
  <2>3. IsFiniteSet(S1 \cup {x1})
    <3>1. IsFiniteSet(S1)
      BY <2>2
    <3> HIDE DEF S1, x1
    <3> QED BY <3>1, FS_AddElement
  <2> QED BY <2>1, <2>3
<1> HIDE DEF T
<1>3. n \in T
  BY <1>1, <1>2, SetInduction
<1> QED BY <1>3 DEF T

LEMMA FiniteParams ==
    ASSUME NEW query, HolesAreList(query) PROVE IsFiniteSet(Params(query))
<1> DEFINE n == Len(query.holes)
           f == [i \in 1..n |-> query.holes[i].param]
<1>1. Params(query) = {f[i] : i \in 1..n} /\ n \in Nat /\ f \in [1..n -> Params(query)]
  BY DEF Params, HolesAreList
<1> HIDE DEF n, f
<1> QED BY <1>1, FiniteImage

\* The names of a query in some order, each of them once.
InTurn(order, P) ==
    /\ Len(order) \in Nat /\ DOMAIN order = 1..Len(order)
    /\ P = {order[i] : i \in 1..Len(order)}
    /\ \A i, j \in 1..Len(order) : i # j => order[i] # order[j]

LEMMA OrderCovers ==
    ASSUME NEW query, HolesAreList(query), NEW order \in Orders(query)
    PROVE  InTurn(order, Params(query))
<1> DEFINE P == Params(query)
           n == Cardinality(P)
<1>1. /\ order \in [1..n -> P] /\ \A i, j \in 1..n : i # j => order[i] # order[j]
  BY DEF Orders, SetToSeqs
<1>2. IsFiniteSet(P) /\ n \in Nat
  BY FiniteParams, FS_CardinalityType
<1> HIDE DEF P, n
<1>3. Len(order) = n /\ DOMAIN order = 1..n
  BY <1>1, <1>2
<1>4. ASSUME NEW p \in P, \A i \in 1..n : order[i] # p PROVE FALSE
  <2>1. IsFiniteSet(P \ {p}) /\ Cardinality(P \ {p}) = n - 1
    BY <1>2, FS_RemoveElement DEF n
  <2>2. IsFiniteSet(1..n) /\ Cardinality(1..n) = n
    BY <1>2, FS_Interval
  <2>3. order \in [1..n -> P \ {p}] /\ Cardinality(P \ {p}) < Cardinality(1..n)
    BY <1>1, <1>2, <1>4, <2>1, <2>2
  <2>4. \E x, y \in 1..n : x # y /\ order[x] = order[y]
    BY <2>1, <2>2, <2>3, FS_PigeonHole
  <2> QED BY <1>1, <2>4
<1>5. P = {order[i] : i \in 1..n}
  BY <1>1, <1>4
<1> QED BY <1>1, <1>2, <1>3, <1>5 DEF P, InTurn

LEMMA ReplacedIs ==
    ASSUME NEW text, NEW p, NEW texts
    PROVE  FlattenSeq(Replaced(text, p, texts[p])) = Put(text, {p}, texts)
<1>1. \A x : (IF x = p THEN texts[p] ELSE <<x>>) = Piece(x, {p}, texts)
  BY DEF Piece
<1>2. Replaced(text, p, texts[p]) = [i \in DOMAIN text |-> Piece(text[i], {p}, texts)]
  BY <1>1 DEF Replaced
<1> QED BY <1>2 DEF Put

LEMMA NamesInTurn ==
    ASSUME NEW text, NEW order, NEW given, Len(order) \in Nat, DOMAIN order = 1..Len(order)
    PROVE  \E f : /\ f[0] = text /\ Substituted(text, order, given) = f[Len(order)]
                  /\ \A k \in 1..Len(order) :
                        f[k] = FlattenSeq(Replaced(f[k - 1], order[k], given[order[k]].text))
<1> DEFINE L == Len(order)
           F == CHOOSE f : f = [s \in SUBSET DOMAIN order |-> FoldStep("names", f, text, order, given, s)]
<1>1. F = [s \in SUBSET DOMAIN order |-> FoldStep("names", F, text, order, given, s)]
  BY FoldExists
<1>2. Substituted(text, order, given) = F[DOMAIN order]
  BY Zenon DEF Substituted, FoldLeft, MapThenFoldSet, FoldStep, Folded
<1>3. L \in Nat /\ L = Len(order) /\ DOMAIN order = 1..L
  OBVIOUS
<1> HIDE DEF F, L
<1>4. PICK f : InOrder("names", text, order, given, L, F, f)
  BY <1>1, <1>3, FoldInOrder, Zenon DEF Folds
<1>5. Substituted(text, order, given) = f[L] /\ f[0] = text
  BY <1>2, <1>3, <1>4 DEF InOrder
<1>6. \A k \in 1..L : f[k] = FlattenSeq(Replaced(f[k - 1], order[k], given[order[k]].text))
  BY <1>4 DEF Folded, InOrder
<1> QED BY <1>3, <1>5, <1>6

\* What str::replace makes of one name after the other is every name replaced at once.
LEMMA SubstitutedAll ==
    ASSUME NEW W, NEW P, NEW order, InTurn(order, P), NEW given, NEW text \in Seq(W),
           \A n \in P : given[n].text \in Seq(W),
           \A n \in P : \A i \in DOMAIN given[n].text : given[n].text[i] \notin P
    PROVE  Substituted(text, order, given) = Put(text, P, [n \in P |-> given[n].text])
<1> DEFINE texts == [n \in P |-> given[n].text]
           L == Len(order)
           Upper(k) == {order[i] : i \in 1..k}
<1>1. \A n \in P : texts[n] = given[n].text
  OBVIOUS
<1> HIDE DEF texts
<1>2. L \in Nat /\ DOMAIN order = 1..L /\ P = Upper(L)
      /\ \A i, j \in 1..L : i # j => order[i] # order[j]
  BY DEF InTurn
<1>3. PICK f : /\ f[0] = text /\ Substituted(text, order, given) = f[L]
               /\ \A k \in 1..L : f[k] = FlattenSeq(Replaced(f[k - 1], order[k], given[order[k]].text))
  BY <1>2, NamesInTurn
<1> HIDE DEF L
<1> DEFINE T == {k \in Nat : k <= L => f[k] = Put(text, Upper(k), texts)}
<1>4. 0 \in T
  <2>1. Upper(0) = {}
    OBVIOUS
  <2>2. Put(text, {}, texts) = text
    BY PutNone DEF Fills
  <2> HIDE DEF Upper
  <2> QED BY <1>3, <2>1, <2>2
<1>5. ASSUME NEW k \in Nat, k \in T PROVE k + 1 \in T
  <2> SUFFICES ASSUME k + 1 <= L PROVE f[k + 1] = Put(text, Upper(k + 1), texts)
    OBVIOUS
  <2> DEFINE p == order[k + 1]
             A == Upper(k)
  <2>1. k + 1 \in 1..L /\ (k + 1) - 1 = k /\ \A i \in 1..k : i \in 1..L /\ i # k + 1
    BY <1>2
  <2>2. p \in P /\ A \subseteq P /\ p \notin A
    BY <1>2, <2>1
  <2>3. Upper(k + 1) = A \cup {p}
    <3>1. 1..(k + 1) = (1..k) \cup {k + 1}
      OBVIOUS
    <3> QED BY <3>1
  <2>4. f[k] = Put(text, A, texts)
    BY <1>2, <1>5, <2>1
  <2>5. f[k + 1] = FlattenSeq(Replaced(f[k], p, given[p].text))
    BY <1>3, <2>1
  <2> HIDE DEF A, p, Upper, T
  <2>6. f[k + 1] = Put(Put(text, A, texts), {p}, texts)
    <3>1. texts[p] = given[p].text
      BY <1>1, <2>2
    <3>2. FlattenSeq(Replaced(f[k], p, texts[p])) = Put(f[k], {p}, texts)
      BY ReplacedIs
    <3> QED BY <2>4, <2>5, <3>1, <3>2
  <2>7. Fills(W, A \cup {p}, texts)
    BY <1>1, <2>2 DEF Fills
  <2>8. \A n \in A : \A i \in DOMAIN texts[n] : texts[n][i] # p
    BY <1>1, <2>2
  <2>9. Put(Put(text, A, texts), {p}, texts) = Put(text, A \cup {p}, texts)
    BY <2>2, <2>7, <2>8, PutNext
  <2> QED BY <2>3, <2>6, <2>9
<1>6. L \in T
  <2> HIDE DEF T
  <2> QED BY <1>2, <1>4, <1>5, SetInduction
<1>7. f[L] = Put(text, Upper(L), texts)
  BY <1>2, <1>6
<1> HIDE DEF Upper
<1> QED BY <1>2, <1>3, <1>7 DEF texts

Tokens(query, given) == Params(query) \cup Columns(query) \cup UNION {ToSet(given[n].text) : n \in Params(query)}

LEMMA TemplateSubstituted ==
    ASSUME NEW query, HolesAreList(query), NEW given, \A n \in Params(query) : IsText(given[n].text),
           Plain(query, given), NEW order \in Orders(query)
    PROVE  Substituted(Template(query), order, given) = AtOnce(query, given)
<1> DEFINE W == Tokens(query, given)
           P == Params(query)
           texts == [n \in P |-> given[n].text]
           T == Template(query)
<1>1. T \in Seq(W)
  <2>1. P \cup Columns(query) \subseteq W
    BY DEF Tokens
  <2> HIDE DEF W
  <2> QED BY <2>1, TemplateIs, SeqMonotonic
<1>2. \A n \in P : given[n].text \in Seq(W)
  <2> SUFFICES ASSUME NEW n \in P PROVE given[n].text \in Seq(W)
    OBVIOUS
  <2>1. ToSet(given[n].text) \subseteq W /\ given[n].text \in Seq(ToSet(given[n].text))
    BY DEF Tokens, IsText
  <2> HIDE DEF W
  <2> QED BY <2>1, SeqMonotonic
<1>3. InTurn(order, P)
  BY OrderCovers
<1>4. \A n \in P : \A i \in DOMAIN given[n].text : given[n].text[i] \notin P
  BY DEF Plain
<1>5. AtOnce(query, given) = Put(T, P, texts)
  <2>1. \A x : (IF x \in P THEN given[x].text ELSE <<x>>) = Piece(x, P, texts)
    BY DEF Piece
  <2>2. AtOnce(query, given) = FlattenSeq([i \in DOMAIN T |-> IF T[i] \in P THEN given[T[i]].text ELSE <<T[i]>>])
    BY DEF AtOnce
  <2> HIDE DEF T, P, texts
  <2>3. [i \in DOMAIN T |-> IF T[i] \in P THEN given[T[i]].text ELSE <<T[i]>>]
            = [i \in DOMAIN T |-> Piece(T[i], P, texts)]
    BY <2>1
  <2> QED BY <2>2, <2>3 DEF Put
<1> HIDE DEF W, P, T
<1>6. Substituted(T, order, given) = Put(T, P, texts)
  BY <1>1, <1>2, <1>3, <1>4, SubstitutedAll
<1> QED BY <1>5, <1>6 DEF T

-----------------------------------------------------------------------------
(* Statements of the server.                                                *)

LoadedFromFiles ==
    \A n \in DOMAIN loaded : \E i \in DOMAIN config.files : loaded[n].query = config.files[i].query

\* A request that has come as far as its statement has a value for every parameter, and the
\* statement that the replacements made of the template, in some order of the names.
RequestStated ==
    /\ ~Serving => request = Idle
    /\ request.stage \in {"verify", "lookup", "run"} =>
          request.call \in Calls /\ request.call.route = "execute"
    /\ request.stage = "run" =>
          /\ request.call.name \in DOMAIN loaded
          /\ Missing(Query, request.call.given) = {}
          /\ \E order \in Orders(Query) :
                request.statement = Substituted(Template(Query), order, request.call.given)

StatementInv == IInv /\ NamesInv /\ LoadedFromFiles /\ RequestStated

LEMMA InitStatement == Began => StatementInv
<1> SUFFICES ASSUME Began PROVE LoadedFromFiles /\ RequestStated
  BY InitIInv, InitNames DEF StatementInv
<1>1. DOMAIN loaded = {} /\ request = Idle
  BY DEF Began, Blank
<1> QED BY <1>1, IdleAsks DEF LoadedFromFiles, RequestStated

LEMMA NextLoaded == StatementInv /\ [Next]_vars => config' = config /\ LoadedFromFiles'
<1> SUFFICES ASSUME StatementInv, [Next]_vars PROVE config' = config /\ LoadedFromFiles'
  OBVIOUS
<1>1. config' = config
  BY StartupOutside, OthersLeave DEF StatementInv, Startings
<1>2. CASE ~LoadPipeline
  <2>1. loaded' = loaded
    BY <1>2, LoadedElsewhere DEF StatementInv
  <2> QED BY <1>1, <2>1 DEF StatementInv, LoadedFromFiles
<1>3. CASE LoadPipeline
  <2> DEFINE file == config.files[at]
  <2>1. \/ loaded' = loaded
        \/ loaded' = Over([n \in {file.name} |->
                          [query |-> file.query, columns |-> InferredColumns(file.query)]], loaded)
    BY <1>3 DEF LoadPipeline, Failed
  <2>2. at \in DOMAIN config.files
    BY <1>3 DEF LoadPipeline, StatementInv, IInv, Placed
  <2>3. ASSUME NEW n \in DOMAIN loaded' PROVE \E i \in DOMAIN config.files : loaded'[n].query = config.files[i].query
    <3>1. loaded'[n].query = file.query \/ (n \in DOMAIN loaded /\ loaded'[n] = loaded[n])
      BY <2>1, <2>3 DEF Over
    <3> QED BY <2>2, <3>1 DEF StatementInv, LoadedFromFiles
  <2> QED BY <1>1, <2>3 DEF LoadedFromFiles
<1> QED BY <1>1, <1>2, <1>3

LEMMA NextRequest == StatementInv /\ [Next]_vars => RequestStated'
<1> SUFFICES ASSUME StatementInv, [Next]_vars PROVE RequestStated'
  OBVIOUS
<1>0. DOMAIN request = RequestFields /\ RequestStated
  BY DEF StatementInv, IInv, RequestKnown
<1>1. CASE Startup
  <2>1. request' = request
    BY <1>1, StartupOutside
  <2>2. ~Serving
    BY <1>1 DEF Startup, LoadContext, Register, SkipLance, List, Install, SourcesDone, Connect,
       AttemptFails, StartBuild, FinishBuild, BuildFails, Registering, BuildAuth, ValidatePipelines,
       LoadPipeline, PipelinesDone, LoadJob, JobsDone, LoadSemantics, OpenStore, Bind, Serving
  <2>3. request' = Idle
    BY <1>0, <2>1, <2>2 DEF RequestStated
  <2> QED BY <2>3, IdleAsks DEF RequestStated
<1>2. CASE request' = request /\ pc' = pc /\ loaded' = loaded
  BY <1>0, <1>2 DEF RequestStated, Serving, Query
<1>3. ASSUME NEW status, Answered(status), ServeOnly, Serving PROVE RequestStated'
  <2>1. request'.stage = "answered" /\ pc' = pc
    BY <1>0, <1>3 DEF Answered, ServeOnly, RequestFields
  <2> QED BY <1>3, <2>1 DEF RequestStated, Serving
<1>4. request.stage \in {"verify", "lookup", "run", "inspect"} => Serving
  BY <1>0, IdleAsks DEF RequestStated
<1>5. ASSUME NEW call \in Calls, Arrive(call) PROVE RequestStated'
  <2>1. /\ Serving /\ pc' = pc /\ request'.call = call
        /\ request'.stage = IF call.route = "execute" THEN "verify" ELSE "inspect"
    BY <1>5 DEF Arrive, ServeOnly, Idle
  <2> QED BY <2>1 DEF RequestStated, Serving
<1>6. CASE Verify
  <2>1. Serving /\ ServeOnly /\ pc' = pc
    BY <1>4, <1>6 DEF Verify, ServeOnly
  <2>2. CASE request' = [request EXCEPT !.stage = "lookup"]
    <3>1. request'.stage = "lookup" /\ request'.call = request.call
      BY <1>0, <2>2 DEF RequestFields
    <3> QED BY <1>0, <1>6, <2>1, <3>1 DEF RequestStated, Serving, Verify
  <2> QED BY <1>3, <1>6, <2>1, <2>2 DEF Verify
<1>7. CASE Lookup
  <2> DEFINE query == loaded[request.call.name].query
             given == request.call.given
  <2>1. Serving /\ ServeOnly /\ pc' = pc /\ loaded' = loaded
    BY <1>4, <1>7 DEF Lookup, ServeOnly
  <2>2. ASSUME NEW order \in Orders(query), request.call.name \in DOMAIN loaded, Missing(query, given) = {},
               request' = [request EXCEPT !.stage = "run",
                                          !.statement = Substituted(Template(query), order, given)]
        PROVE  RequestStated'
    <3>1. /\ request'.stage = "run" /\ request'.call = request.call
          /\ request'.statement = Substituted(Template(query), order, given)
      BY <1>0, <2>2 DEF RequestFields
    <3>2. Query' = query /\ request'.call.given = given
      BY <2>1, <3>1 DEF Query
    <3>3. request.call \in Calls /\ request.call.route = "execute"
      BY <1>0, <1>7 DEF RequestStated, Lookup
    <3> HIDE DEF query, given
    <3> QED BY <2>1, <2>2, <3>1, <3>2, <3>3 DEF RequestStated, Serving
  <2>3. \/ Answered("not found") \/ Answered("bad parameters")
        \/ /\ request.call.name \in DOMAIN loaded
           /\ Missing(query, given) \cup Unrendered(query, given) = {}
           /\ \E order \in Orders(query) :
                 request' = [request EXCEPT !.stage = "run",
                                            !.statement = Substituted(Template(query), order, given)]
    BY <1>7, Zenon DEF Lookup
  <2> HIDE DEF query, given
  <2>4. Missing(query, given) \cup Unrendered(query, given) = {} => Missing(query, given) = {}
    OBVIOUS
  <2> QED BY <1>3, <2>1, <2>2, <2>3, <2>4
<1>8. CASE Run
  <2>1. Serving /\ ServeOnly /\ \E status : Answered(status)
    BY <1>4, <1>8 DEF Run
  <2> QED BY <1>3, <2>1
<1>9. CASE Inspect
  <2>1. Serving /\ ServeOnly
    BY <1>4, <1>9 DEF Inspect
  <2>2. (\E status : Answered(status)) \/ request'.stage = "answered"
    BY <1>0, <1>9 DEF Inspect, RequestFields
  <2>3. CASE request'.stage = "answered"
    BY <2>1, <2>3 DEF RequestStated, ServeOnly, Serving
  <2> QED BY <1>3, <2>1, <2>2, <2>3
<1>10. CASE \E n \in DOMAIN upstream : \E t \in config.may[n] : Drop(n, t) \/ Create(n, t)
  <2>1. request' = request /\ pc' = pc /\ loaded' = loaded
    BY <1>10 DEF Drop, Create, UpstreamOnly
  <2> QED BY <1>2, <2>1
<1>11. CASE UNCHANGED vars
  BY <1>2, <1>11 DEF vars
<1> QED BY <1>1, <1>5, <1>6, <1>7, <1>8, <1>9, <1>10, <1>11 DEF Next, Serve

LEMMA NextStatement == StatementInv /\ [Next]_vars => StatementInv'
BY NextIInv, NextNames, NextLoaded, NextRequest DEF StatementInv

LEMMA QueryOfFile ==
    ASSUME config \in Configs, NEW i \in DOMAIN config.files
    PROVE  /\ HolesAreList(config.files[i].query) /\ Params(config.files[i].query) \subseteq Param
           /\ Columns(config.files[i].query) \cap Param = {}
<1> DEFINE query == config.files[i].query
<1>1. HolesAreList(query)
  BY ServerAssumption DEF HolesAreList
<1>2. \A h \in DOMAIN query.holes : query.holes[h].param \in Param /\ query.holes[h].column \notin Param
  BY ValueAssumption
<1> HIDE DEF query
<1>3. Params(query) \subseteq Param /\ Columns(query) \cap Param = {}
  BY <1>2 DEF Params, Columns
<1> QED BY <1>1, <1>3 DEF query

LEMMA StatementOfTemplate == StatementInv => StatementIsTemplate
<1> SUFFICES ASSUME StatementInv, request.stage = "run", Plain(Query, request.call.given)
             PROVE  request.statement = AtOnce(Query, request.call.given)
  BY DEF StatementIsTemplate
<1> DEFINE given == request.call.given
<1>1. /\ request.call.name \in DOMAIN loaded /\ Missing(Query, given) = {}
      /\ request.call \in Calls /\ request.call.route = "execute"
  BY DEF StatementInv, RequestStated
<1>2. PICK order \in Orders(Query) : request.statement = Substituted(Template(Query), order, given)
  BY DEF StatementInv, RequestStated
<1>3. PICK i \in DOMAIN config.files : Query = config.files[i].query
  BY <1>1 DEF StatementInv, LoadedFromFiles, Query
<1>4. HolesAreList(Query) /\ Params(Query) \subseteq Param
  BY <1>3, QueryOfFile DEF StatementInv, IInv, Placed
<1>5. \A n \in Params(Query) : IsText(given[n].text)
  BY <1>1, <1>4, ValueAssumption DEF Missing
<1> HIDE DEF given
<1>6. Substituted(Template(Query), order, given) = AtOnce(Query, given)
  BY <1>4, <1>5, TemplateSubstituted DEF given
<1> QED BY <1>2, <1>6 DEF given

-----------------------------------------------------------------------------
(* Arguments of a command.                                                  *)

ArgsAreList(args) ==
    /\ args \in Seq(ToSet(args)) /\ \A i \in DOMAIN args : args[i].flag \in Param \cup {""}

IsList(s) == Len(s) \in Nat /\ DOMAIN s = 1..Len(s)

LEMMA ArgsAtAre ==
    ASSUME NEW args, args \in Seq(ToSet(args)), NEW S \in SUBSET DOMAIN args
    PROVE  ArgsAt(args, S) \in Seq({args[i] : i \in S})
<1> DEFINE W == {args[i] : i \in S}
           ss == [i \in DOMAIN args |-> IF i \in S THEN <<args[i]>> ELSE <<>>]
<1>1. \A i \in S : args[i] \in W
  OBVIOUS
<1>2. Len(args) \in Nat /\ DOMAIN args = 1..Len(args)
  OBVIOUS
<1> HIDE DEF W
<1>3. \A i \in DOMAIN args : (IF i \in S THEN <<args[i]>> ELSE <<>>) \in Seq(W)
  BY <1>1, EmptySeq
<1>4. ss \in Seq(Seq(W))
  <2>1. ss \in [1..Len(args) -> Seq(W)]
    BY <1>2, <1>3
  <2> HIDE DEF ss
  <2> QED BY <1>2, <2>1
<1> HIDE DEF ss
<1>5. PICK f : Walks(W, ss, f)
  BY <1>4, Walked
<1>6. FlattenSeq(ss) \in Seq(W)
  BY <1>4, <1>5, FlattenIs
<1> QED BY <1>6 DEF ss, ArgsAt, W

LEMMA LineIs ==
    ASSUME NEW args, ArgsAreList(args)
    PROVE  /\ IsList(FlagArgs(args)) /\ IsList(Words(args))
           /\ \A i \in DOMAIN FlagArgs(args) : FlagArgs(args)[i].flag \in Param
<1> DEFINE S == {i \in DOMAIN args : args[i].flag # ""}
           R == {i \in DOMAIN args : args[i].flag = ""}
<1>1. ArgsAt(args, S) \in Seq({args[i] : i \in S}) /\ ArgsAt(args, R) \in Seq({args[i] : i \in R})
  <2>1. S \in SUBSET DOMAIN args /\ R \in SUBSET DOMAIN args /\ args \in Seq(ToSet(args))
    BY DEF ArgsAreList
  <2> HIDE DEF S, R
  <2> QED BY <2>1, ArgsAtAre
<1>2. FlagArgs(args) = ArgsAt(args, S) /\ Words(args) = ArgsAt(args, R)
  BY DEF FlagArgs, Words
<1>3. \A a \in {args[i] : i \in S} : a.flag \in Param
  BY DEF ArgsAreList
<1> HIDE DEF S, R
<1>4. ASSUME NEW X, NEW s \in Seq(X) PROVE IsList(s) /\ \A i \in DOMAIN s : s[i] \in X
  BY DEF IsList
<1> QED BY <1>1, <1>2, <1>3, <1>4

LEMMA FlagsInTurn ==
    ASSUME NEW args, IsList(FlagArgs(args))
    PROVE  \E f : /\ f[0] = <<>> /\ FlagValues(args) = f[Len(FlagArgs(args))]
                  /\ \A k \in 1..Len(FlagArgs(args)) :
                        f[k] = Over([x \in {FlagArgs(args)[k].flag} |-> Typed(FlagArgs(args)[k])], f[k - 1])
<1> DEFINE items == FlagArgs(args)
           L == Len(items)
           F == CHOOSE f : f = [s \in SUBSET DOMAIN items |-> FoldStep("flags", f, <<>>, items, 0, s)]
<1>1. F = [s \in SUBSET DOMAIN items |-> FoldStep("flags", F, <<>>, items, 0, s)]
  BY FoldExists DEF IsList
<1>2. FlagValues(args) = F[DOMAIN items]
  BY Zenon DEF FlagValues, FoldLeft, MapThenFoldSet, FoldStep, Folded
<1>3. L \in Nat /\ L = Len(items) /\ DOMAIN items = 1..L /\ items = FlagArgs(args)
  BY DEF IsList
<1> HIDE DEF F, L, items
<1>4. PICK f : InOrder("flags", <<>>, items, 0, L, F, f)
  BY <1>1, <1>3, FoldInOrder, Zenon DEF Folds
<1>5. FlagValues(args) = f[L] /\ f[0] = <<>>
  BY <1>2, <1>3, <1>4 DEF InOrder
<1>6. \A k \in 1..L : f[k] = Over([x \in {items[k].flag} |-> Typed(items[k])], f[k - 1])
  BY <1>4 DEF Folded, InOrder
<1> QED BY <1>3, <1>5, <1>6

\* The positional arguments one after the other.
WordsPut(alias, args, f) ==
    /\ f[0] = <<>> /\ PositionalTexts(alias, args) = f[Len(Words(args))]
    /\ \A k \in 1..Len(Words(args)) :
          f[k] = Over([x \in {alias.positional[k]} |-> <<Words(args)[k].word>>], f[k - 1])

LEMMA WordsInTurn ==
    ASSUME NEW alias, NEW args, IsList(Words(args))
    PROVE  \E f : WordsPut(alias, args, f)
<1> DEFINE items == Words(args)
           L == Len(items)
           place == [i \in DOMAIN items |-> i]
           A(f) == [s \in SUBSET DOMAIN place |->
                      IF s = {} THEN <<>>
                      ELSE LET x == Max(s) IN Over([n \in {alias.positional[place[x]]} |-> <<items[place[x]].word>>],
                                                   f[s \ {x}])]
           B(f) == [s \in SUBSET (1..L) |-> FoldStep("words", f, <<>>, items, alias, s)]
           G == CHOOSE f : f = A(f)
           F == CHOOSE f : f = B(f)
<1>0. L \in Nat /\ DOMAIN items = 1..L
  BY DEF IsList
<1>1. F = [s \in SUBSET (1..L) |-> FoldStep("words", F, <<>>, items, alias, s)]
  BY <1>0, FoldExists
<1>2. PositionalTexts(alias, args) = G[DOMAIN place]
  BY Zenon DEF PositionalTexts, FoldLeftDomain, FoldLeft, MapThenFoldSet
<1>3. ASSUME NEW f PROVE A(f) = B(f)
  <2>1. DOMAIN place = 1..L /\ \A i \in 1..L : place[i] = i
    BY <1>0
  <2> HIDE DEF place, items, L
  <2>2. ASSUME NEW s \in SUBSET (1..L), s # {}
        PROVE  place[Max(s)] = Max(s)
    <3>1. Max(s) \in s
      BY <1>0, <2>2, LastIn
    <3> QED BY <2>1, <3>1
  <2>3. ASSUME NEW s \in SUBSET (1..L)
        PROVE  (IF s = {} THEN <<>>
                ELSE LET x == Max(s) IN Over([n \in {alias.positional[place[x]]} |-> <<items[place[x]].word>>],
                                             f[s \ {x}]))
               = FoldStep("words", f, <<>>, items, alias, s)
    BY <2>2 DEF FoldStep, Folded
  <2> QED BY <2>1, <2>3
<1>4. G = F
  <2> HIDE DEF A, B
  <2> QED BY <1>3, Zenon
<1>7. L \in Nat /\ L = Len(items) /\ DOMAIN place = 1..L /\ items = Words(args)
  BY <1>0
<1> HIDE DEF F, G, L, place, items
<1>5. PICK f : InOrder("words", <<>>, items, alias, L, F, f)
  BY <1>1, <1>7, FoldInOrder, Zenon DEF Folds
<1>6. PositionalTexts(alias, args) = f[L] /\ f[0] = <<>>
  BY <1>2, <1>4, <1>5, <1>7 DEF InOrder
<1>8. \A k \in 1..L : f[k] = Over([x \in {alias.positional[k]} |-> <<items[k].word>>], f[k - 1])
  BY <1>5 DEF Folded, InOrder
<1> QED BY <1>6, <1>7, <1>8 DEF WordsPut

\* One default more, for the name n.
OneDefault(alias, flags, acc, n) ==
    IF n \in DOMAIN alias.defaults \ (DOMAIN flags \cup DOMAIN acc)
    THEN Over([x \in {n} |-> Filled(alias.defaults[n], acc, flags)], acc) ELSE acc

LEMMA DefaultsInTurn ==
    ASSUME NEW alias, NEW texts, NEW flags
    PROVE  \E f : /\ f[0] = texts /\ WithDefaults(alias, texts, flags) = f[Len(Alphabet)]
                  /\ \A k \in 1..Len(Alphabet) : f[k] = OneDefault(alias, flags, f[k - 1], Alphabet[k])
<1> DEFINE L == Len(Alphabet)
           n == [alias |-> alias, flags |-> flags]
           A(f) == [s \in SUBSET DOMAIN Alphabet |->
                      IF s = {} THEN texts
                      ELSE LET x == Max(s) IN OneDefault(alias, flags, f[s \ {x}], Alphabet[x])]
           B(f) == [s \in SUBSET (1..L) |-> FoldStep("defaults", f, texts, Alphabet, n, s)]
           G == CHOOSE f : f = A(f)
           F == CHOOSE f : f = B(f)
<1>0. L \in Nat /\ DOMAIN Alphabet = 1..L
  <2>1. Alphabet \in Seq(Param)
    BY WordsAssumption
  <2> QED BY <2>1
<1>1. F = [s \in SUBSET (1..L) |-> FoldStep("defaults", F, texts, Alphabet, n, s)]
  BY <1>0, FoldExists
<1>2. WithDefaults(alias, texts, flags) = G[DOMAIN Alphabet]
  BY Zenon DEF WithDefaults, FoldLeft, MapThenFoldSet, OneDefault
<1>8. \A acc, i : Folded("defaults", acc, Alphabet, n, i) = OneDefault(alias, flags, acc, Alphabet[i])
  <2>1. n.alias = alias /\ n.flags = flags
    OBVIOUS
  <2> HIDE DEF n
  <2> QED BY <2>1 DEF Folded, OneDefault
<1> HIDE DEF n
<1>3. ASSUME NEW f PROVE A(f) = B(f)
  <2>1. ASSUME NEW s \in SUBSET (1..L)
        PROVE  (IF s = {} THEN texts ELSE LET x == Max(s) IN OneDefault(alias, flags, f[s \ {x}], Alphabet[x]))
               = FoldStep("defaults", f, texts, Alphabet, n, s)
    BY <1>8 DEF FoldStep
  <2> HIDE DEF L
  <2> QED BY <1>0, <2>1
<1>4. G = F
  <2> HIDE DEF A, B
  <2> QED BY <1>3, Zenon
<1>7. L \in Nat /\ L = Len(Alphabet)
  BY <1>0
<1> HIDE DEF F, G, L
<1>5. PICK f : InOrder("defaults", texts, Alphabet, n, L, F, f)
  BY <1>1, <1>7, FoldInOrder, Zenon DEF Folds
<1>6. WithDefaults(alias, texts, flags) = f[L] /\ f[0] = texts
  BY <1>0, <1>2, <1>4, <1>5 DEF InOrder
<1>9. \A k \in 1..L : f[k] = OneDefault(alias, flags, f[k - 1], Alphabet[k])
  BY <1>5, <1>8 DEF InOrder
<1> QED BY <1>6, <1>7, <1>9

\* One key after the other is given its value.
Keyed(L, key, val, f) ==
    f[0] = <<>> /\ \A k \in 1..L : f[k] = Over([x \in {key[k]} |-> val[k]], f[k - 1])

\* Of two values that one key is given, the last is kept.
LEMMA LastWins ==
    ASSUME NEW L \in Nat, NEW key, NEW val, NEW f, Keyed(L, key, val, f)
    PROVE  /\ DOMAIN f[L] = {key[i] : i \in 1..L}
           /\ \A n \in DOMAIN f[L] : \E i \in 1..L :
                 key[i] = n /\ f[L][n] = val[i] /\ \A j \in (i + 1)..L : key[j] # n
<1> DEFINE LastGiven(k, g) == /\ DOMAIN g = {key[i] : i \in 1..k}
                         /\ \A n \in DOMAIN g : \E i \in 1..k :
                               key[i] = n /\ g[n] = val[i] /\ \A j \in (i + 1)..k : key[j] # n
           T == {k \in Nat : k <= L => LastGiven(k, f[k])}
<1>0. f[0] = <<>> /\ \A k \in 1..L : f[k] = Over([x \in {key[k]} |-> val[k]], f[k - 1])
  BY DEF Keyed
<1>1. 0 \in T
  <2>1. DOMAIN f[0] = {} /\ {key[i] : i \in 1..0} = {}
    BY <1>0
  <2> QED BY <2>1
<1>2. ASSUME NEW k \in Nat, k \in T PROVE k + 1 \in T
  <2> SUFFICES ASSUME k + 1 <= L PROVE LastGiven(k + 1, f[k + 1])
    OBVIOUS
  <2>1. k + 1 \in 1..L /\ (k + 1) - 1 = k /\ k <= L
    OBVIOUS
  <2>2. LastGiven(k, f[k])
    BY <1>2, <2>1
  <2>3. f[k + 1] = Over([x \in {key[k + 1]} |-> val[k + 1]], f[k])
    BY <1>0, <2>1
  <2>4. /\ DOMAIN f[k + 1] = {key[k + 1]} \cup DOMAIN f[k] /\ f[k + 1][key[k + 1]] = val[k + 1]
        /\ \A n \in DOMAIN f[k + 1] : n # key[k + 1] => f[k + 1][n] = f[k][n]
    BY <2>3 DEF Over
  <2>5. 1..(k + 1) = (1..k) \cup {k + 1}
    OBVIOUS
  <2>6. DOMAIN f[k + 1] = {key[i] : i \in 1..(k + 1)}
    BY <2>2, <2>4, <2>5
  <2>7. ASSUME NEW n \in DOMAIN f[k + 1]
        PROVE  \E i \in 1..(k + 1) : key[i] = n /\ f[k + 1][n] = val[i] /\ \A j \in (i + 1)..(k + 1) : key[j] # n
    <3>1. CASE n = key[k + 1]
      <4>1. ((k + 1) + 1)..(k + 1) = {} /\ k + 1 \in 1..(k + 1)
        OBVIOUS
      <4> QED BY <2>4, <3>1, <4>1
    <3>2. CASE n # key[k + 1]
      <4>1. n \in DOMAIN f[k] /\ f[k + 1][n] = f[k][n]
        BY <2>4, <3>2
      <4>2. PICK i \in 1..k : key[i] = n /\ f[k][n] = val[i] /\ \A j \in (i + 1)..k : key[j] # n
        BY <2>2, <4>1
      <4>3. i \in 1..(k + 1) /\ \A j \in (i + 1)..(k + 1) : j = k + 1 \/ j \in (i + 1)..k
        OBVIOUS
      <4> QED BY <3>2, <4>1, <4>2, <4>3
    <3> QED BY <3>1, <3>2
  <2> QED BY <2>6, <2>7
<1> HIDE DEF T
<1>3. L \in T
  BY <1>1, <1>2, SetInduction
<1> QED BY <1>3 DEF T

\* A flag has its last value.
LEMMA FlagNames ==
    ASSUME NEW args, ArgsAreList(args)
    PROVE  /\ \A n : n \in DOMAIN FlagValues(args) <=> Flagged(args, n)
           /\ DOMAIN FlagValues(args) \subseteq Param
<1> DEFINE L == Len(FlagArgs(args))
           key == [k \in 1..L |-> FlagArgs(args)[k].flag]
           val == [k \in 1..L |-> Typed(FlagArgs(args)[k])]
<1>1. L \in Nat /\ DOMAIN FlagArgs(args) = 1..L /\ \A i \in 1..L : FlagArgs(args)[i].flag \in Param
  BY LineIs DEF IsList
<1>2. PICK f : /\ f[0] = <<>> /\ FlagValues(args) = f[L]
               /\ \A k \in 1..L :
                     f[k] = Over([x \in {FlagArgs(args)[k].flag} |-> Typed(FlagArgs(args)[k])], f[k - 1])
  BY LineIs, FlagsInTurn
<1>3. \A k \in 1..L : key[k] = FlagArgs(args)[k].flag /\ val[k] = Typed(FlagArgs(args)[k])
  OBVIOUS
<1> HIDE DEF L, key, val
<1>4. Keyed(L, key, val, f)
  BY <1>2, <1>3 DEF Keyed
<1>5. DOMAIN f[L] = {key[i] : i \in 1..L}
  BY <1>1, <1>4, LastWins
<1> QED BY <1>1, <1>2, <1>3, <1>5 DEF Flagged

LEMMA FlagsAre ==
    ASSUME NEW args, ArgsAreList(args), NEW n \in DOMAIN FlagValues(args)
    PROVE  FlagValues(args)[n] = Typed(LastFlag(args, n))
<1> DEFINE L == Len(FlagArgs(args))
           key == [k \in 1..L |-> FlagArgs(args)[k].flag]
           val == [k \in 1..L |-> Typed(FlagArgs(args)[k])]
           IsLast(a) == \E i \in DOMAIN FlagArgs(args) :
                           /\ FlagArgs(args)[i] = a /\ a.flag = n
                           /\ \A j \in (i + 1)..L : FlagArgs(args)[j].flag # n
<1>1. L \in Nat /\ DOMAIN FlagArgs(args) = 1..L
  BY LineIs DEF IsList
<1>2. PICK f : /\ f[0] = <<>> /\ FlagValues(args) = f[L]
               /\ \A k \in 1..L :
                     f[k] = Over([x \in {FlagArgs(args)[k].flag} |-> Typed(FlagArgs(args)[k])], f[k - 1])
  BY LineIs, FlagsInTurn
<1>3. \A k \in 1..L : key[k] = FlagArgs(args)[k].flag /\ val[k] = Typed(FlagArgs(args)[k])
  OBVIOUS
<1>9. LastFlag(args, n) = CHOOSE a \in ToSet(FlagArgs(args)) : IsLast(a)
  BY DEF LastFlag
<1>10. \A a : IsLast(a) <=> \E i \in DOMAIN FlagArgs(args) :
                           /\ FlagArgs(args)[i] = a /\ a.flag = n
                           /\ \A j \in (i + 1)..L : FlagArgs(args)[j].flag # n
  OBVIOUS
<1> HIDE DEF L, key, val, IsLast
<1>4. Keyed(L, key, val, f)
  BY <1>2, <1>3 DEF Keyed
<1>5. \A m \in DOMAIN f[L] : \E i \in 1..L :
          key[i] = m /\ f[L][m] = val[i] /\ \A j \in (i + 1)..L : key[j] # m
  BY <1>1, <1>4, LastWins
<1>6. PICK i \in 1..L : key[i] = n /\ f[L][n] = val[i] /\ \A j \in (i + 1)..L : key[j] # n
  BY <1>2, <1>5
<1>7. \A j \in (i + 1)..L : j \in 1..L
  BY <1>1
<1>8. IsLast(FlagArgs(args)[i]) /\ FlagArgs(args)[i] \in ToSet(FlagArgs(args))
  BY <1>1, <1>3, <1>6, <1>7, <1>10 DEF ToSet
<1>11. ASSUME NEW a, IsLast(a) PROVE a = FlagArgs(args)[i]
  <2>1. PICK k \in 1..L : FlagArgs(args)[k] = a /\ a.flag = n /\ \A j \in (k + 1)..L : FlagArgs(args)[j].flag # n
    BY <1>1, <1>10, <1>11
  <2>2. key[k] = n
    BY <1>3, <2>1
  <2>3. ~(k \in (i + 1)..L)
    BY <1>6, <2>2
  <2>4. ~(i \in (k + 1)..L)
    BY <1>3, <1>6, <2>1
  <2>5. k = i
    BY <1>1, <2>3, <2>4
  <2> QED BY <2>1, <2>5
<1>12. LastFlag(args, n) = FlagArgs(args)[i]
  BY <1>8, <1>9, <1>11
<1> QED BY <1>2, <1>3, <1>6, <1>12

\* A positional argument is the one at the parameter's last place.
LEMMA WordNames ==
    ASSUME NEW alias, IsAlias(alias), NEW args, ArgsAreList(args), Len(Words(args)) <= Len(alias.positional)
    PROVE  /\ \A n : n \in DOMAIN PositionalTexts(alias, args) <=> Slots(alias, args, n) # {}
           /\ DOMAIN PositionalTexts(alias, args) \subseteq Param
<1> DEFINE L == Len(Words(args))
           key == [k \in 1..L |-> alias.positional[k]]
           val == [k \in 1..L |-> <<Words(args)[k].word>>]
<1>1. L \in Nat /\ \A i \in 1..L : alias.positional[i] \in Param
  <2>1. L \in Nat /\ Len(alias.positional) \in Nat /\ alias.positional \in Seq(Param)
    BY LineIs DEF IsList, IsAlias
  <2> QED BY <2>1
<1>0. IsList(Words(args))
  BY LineIs
<1>2. PICK f : WordsPut(alias, args, f)
  BY <1>0, WordsInTurn
<1>3. \A k \in 1..L : key[k] = alias.positional[k] /\ val[k] = <<Words(args)[k].word>>
  OBVIOUS
<1>6. \A n : Slots(alias, args, n) = {i \in 1..L : alias.positional[i] = n}
  BY DEF Slots
<1> HIDE DEF L, key, val
<1>4. Keyed(L, key, val, f)
  BY <1>2, <1>3 DEF Keyed, L, WordsPut
<1>5. DOMAIN f[L] = {key[i] : i \in 1..L}
  BY <1>1, <1>4, LastWins
<1>7. ASSUME NEW n PROVE (\E i \in 1..L : key[i] = n) <=> Slots(alias, args, n) # {}
  <2>1. \A i \in 1..L : key[i] = alias.positional[i]
    BY <1>3
  <2>2. Slots(alias, args, n) = {i \in 1..L : key[i] = n}
    BY <1>6, <2>1
  <2> QED BY <2>2, Zenon
<1>8. PositionalTexts(alias, args) = f[L]
  BY <1>2 DEF L, WordsPut
<1>9. \A i \in 1..L : key[i] \in Param
  BY <1>1, <1>3
<1> QED BY <1>5, <1>7, <1>8, <1>9

LEMMA WordsAre ==
    ASSUME NEW alias, NEW args, ArgsAreList(args), NEW n \in DOMAIN PositionalTexts(alias, args)
    PROVE  PositionalTexts(alias, args)[n]
           = <<Words(args)[CHOOSE i \in Slots(alias, args, n) :
                                \A j \in Slots(alias, args, n) : j <= i].word>>
<1> DEFINE L == Len(Words(args))
           key == [k \in 1..L |-> alias.positional[k]]
           val == [k \in 1..L |-> <<Words(args)[k].word>>]
           S == Slots(alias, args, n)
<1>1. L \in Nat
  BY LineIs DEF IsList
<1>0. IsList(Words(args))
  BY LineIs
<1>2. PICK f : WordsPut(alias, args, f)
  BY <1>0, WordsInTurn
<1>3. \A k \in 1..L : key[k] = alias.positional[k] /\ val[k] = <<Words(args)[k].word>>
  OBVIOUS
<1>6. S = {i \in 1..L : alias.positional[i] = n}
  BY DEF Slots
<1> HIDE DEF L, key, val, S
<1>4. Keyed(L, key, val, f)
  BY <1>2, <1>3 DEF Keyed, L, WordsPut
<1>5. \A m \in DOMAIN f[L] : \E i \in 1..L :
          key[i] = m /\ f[L][m] = val[i] /\ \A j \in (i + 1)..L : key[j] # m
  BY <1>1, <1>4, LastWins
<1>7. PICK i \in 1..L : key[i] = n /\ f[L][n] = val[i] /\ \A j \in (i + 1)..L : key[j] # n
  BY <1>2, <1>5 DEF WordsPut, L
<1>8. i \in S /\ \A j \in S : j <= i
  <2>1. i \in S
    BY <1>3, <1>6, <1>7
  <2>2. ASSUME NEW j \in S PROVE j <= i
    <3>1. j \in 1..L /\ key[j] = n
      BY <1>3, <1>6
    <3>2. ~(j \in (i + 1)..L)
      BY <1>7, <3>1
    <3> QED BY <1>1, <3>1, <3>2
  <2> QED BY <2>1, <2>2
<1>9. (CHOOSE k \in S : \A j \in S : j <= k) = i
  <2>1. \A k \in S : (\A j \in S : j <= k) => k = i
    <3>1. \A k \in S : k \in Nat
      BY <1>1, <1>6
    <3> QED BY <1>8, <3>1
  <2> QED BY <1>8, <2>1
<1> QED BY <1>2, <1>3, <1>7, <1>9 DEF S, L, WordsPut

-----------------------------------------------------------------------------
(* Texts, and the defaults that are filled with them.                       *)

LEMMA TextIn ==
    ASSUME NEW W, NEW text \in Seq(W) PROVE IsText(text)
<1>1. Len(text) \in Nat /\ DOMAIN text = 1..Len(text) /\ text = [i \in 1..Len(text) |-> text[i]]
  OBVIOUS
<1>2. \A i \in 1..Len(text) : text[i] \in ToSet(text)
  BY <1>1 DEF ToSet
<1>3. text \in [1..Len(text) -> ToSet(text)]
  BY <1>1, <1>2, Zenon
<1> QED BY <1>1, <1>3 DEF IsText

LEMMA OneText == \A w : IsText(<<w>>) /\ IsText(<<>>)
<1> SUFFICES ASSUME NEW w PROVE IsText(<<w>>) /\ IsText(<<>>)
  OBVIOUS
<1> DEFINE one == <<w>>
           none == <<>>
<1>1. one \in Seq({w}) /\ none \in Seq({w})
  OBVIOUS
<1> HIDE DEF one, none
<1>2. IsText(one) /\ IsText(none)
  BY <1>1, TextIn
<1> QED BY <1>2 DEF one, none

\* Texts that are put together make a text.
LEMMA PiecesText ==
    ASSUME NEW n \in Nat, NEW ss, DOMAIN ss = 1..n, ss = [i \in 1..n |-> ss[i]], \A i \in 1..n : IsText(ss[i])
    PROVE  IsText(FlattenSeq(ss))
<1> DEFINE W == UNION {ToSet(ss[i]) : i \in 1..n}
<1>1. \A i \in 1..n : ToSet(ss[i]) \subseteq W
  OBVIOUS
<1> HIDE DEF W
<1>2. ASSUME NEW i \in 1..n PROVE ss[i] \in Seq(W)
  <2>1. ss[i] \in Seq(ToSet(ss[i])) /\ ToSet(ss[i]) \subseteq W
    BY <1>1 DEF IsText
  <2> QED BY <2>1, SeqMonotonic
<1>3. ss \in Seq(Seq(W))
  <2> DEFINE V == Seq(W)
  <2>1. \A i \in 1..n : ss[i] \in V
    BY <1>2
  <2> HIDE DEF V
  <2>2. ss \in [1..n -> V]
    BY <2>1, Zenon
  <2>3. ss \in Seq(V)
    BY <2>2
  <2> QED BY <2>3 DEF V
<1>4. PICK f : Walks(W, ss, f)
  BY <1>3, Walked
<1>5. FlattenSeq(ss) \in Seq(W)
  BY <1>3, <1>4, FlattenIs
<1> QED BY <1>5, TextIn

\* What the command line gives, in texts and flags.
GivenTexts(texts, flags) ==
    (\A n \in DOMAIN texts : IsText(texts[n])) /\ \A n \in DOMAIN flags : IsText(flags[n].text)

LEMMA FilledText ==
    ASSUME NEW template, IsText(template), NEW texts, NEW flags, GivenTexts(texts, flags)
    PROVE  IsText(Filled(template, texts, flags))
<1> DEFINE piece(t) == CASE t \in DOMAIN texts -> texts[t]
                         [] t \in DOMAIN flags \ DOMAIN texts -> flags[t].text
                         [] OTHER -> <<t>>
           ss == [i \in DOMAIN template |-> piece(template[i])]
           n == Len(template)
<1>1. n \in Nat /\ DOMAIN template = 1..n
  BY DEF IsText
<1>2. \A t : IsText(piece(t))
  <2> SUFFICES ASSUME NEW t PROVE IsText(piece(t))
    OBVIOUS
  <2>1. t \in DOMAIN texts => piece(t) = texts[t] /\ IsText(texts[t])
    BY DEF GivenTexts
  <2>2. t \in DOMAIN flags \ DOMAIN texts => piece(t) = flags[t].text /\ IsText(flags[t].text)
    BY DEF GivenTexts
  <2>3. t \notin DOMAIN texts /\ t \notin DOMAIN flags => piece(t) = <<t>>
    OBVIOUS
  <2>4. IsText(<<t>>)
    BY OneText
  <2> HIDE DEF piece
  <2> QED BY <2>1, <2>2, <2>3, <2>4
<1>3. Filled(template, texts, flags) = FlattenSeq(ss)
  BY DEF Filled
<1> HIDE DEF piece, n
<1>4. DOMAIN ss = 1..n /\ ss = [i \in 1..n |-> ss[i]] /\ \A i \in 1..n : IsText(ss[i])
  BY <1>1, <1>2
<1> HIDE DEF ss
<1>5. IsText(FlattenSeq(ss))
  BY <1>1, <1>4, PiecesText
<1> QED BY <1>3, <1>5

\* Texts with some of the defaults among them.
Grown(alias, texts, flags, acc) ==
    /\ DOMAIN texts \subseteq DOMAIN acc /\ \A n \in DOMAIN texts : acc[n] = texts[n]
    /\ DOMAIN acc \subseteq DOMAIN texts \cup (DOMAIN alias.defaults \ DOMAIN flags)
    /\ GivenTexts(acc, flags)

\* Each of them was filled with the texts that there were.
Completed(alias, texts, flags, k, g) ==
    /\ Grown(alias, texts, flags, g)
    /\ \A n \in DOMAIN g \ DOMAIN texts : \E acc :
          Grown(alias, texts, flags, acc) /\ g[n] = Filled(alias.defaults[n], acc, flags)
    /\ \A i \in 1..k : Alphabet[i] \in DOMAIN alias.defaults \ DOMAIN flags => Alphabet[i] \in DOMAIN g

LEMMA OneMoreDefault ==
    ASSUME NEW alias, IsAlias(alias), NEW texts, NEW flags, NEW k \in Nat, NEW g,
           Completed(alias, texts, flags, k, g)
    PROVE  Completed(alias, texts, flags, k + 1, OneDefault(alias, flags, g, Alphabet[k + 1]))
<1> DEFINE n == Alphabet[k + 1]
           value == Filled(alias.defaults[n], g, flags)
           h == OneDefault(alias, flags, g, n)
<1>1. \A i \in 1..(k + 1) : i \in 1..k \/ i = k + 1
  OBVIOUS
<1>2. CASE n \notin DOMAIN alias.defaults \ (DOMAIN flags \cup DOMAIN g)
  <2>1. h = g
    BY <1>2 DEF OneDefault
  <2> HIDE DEF h
  <2>2. Completed(alias, texts, flags, k + 1, h)
    BY <1>1, <1>2, <2>1 DEF Completed
  <2> QED BY <2>2 DEF h
<1>3. CASE n \in DOMAIN alias.defaults \ (DOMAIN flags \cup DOMAIN g)
  <2>1. Grown(alias, texts, flags, g) /\ GivenTexts(g, flags)
    BY DEF Completed, Grown
  <2>2. IsText(alias.defaults[n])
    BY <1>3 DEF IsAlias
  <2>3. IsText(value)
    BY <2>1, <2>2, FilledText
  <2>4. h = Over([x \in {n} |-> value], g)
    BY <1>3 DEF OneDefault
  <2> HIDE DEF value
  <2>5. /\ DOMAIN h = {n} \cup DOMAIN g /\ h[n] = value
        /\ \A m \in DOMAIN g : h[m] = g[m]
    BY <1>3, <2>4 DEF Over
  <2> HIDE DEF h, n
  <2>6. Grown(alias, texts, flags, h)
    BY <1>3, <2>1, <2>3, <2>5 DEF Grown, GivenTexts
  <2>7. \A m \in DOMAIN h \ DOMAIN texts : \E acc :
            Grown(alias, texts, flags, acc) /\ h[m] = Filled(alias.defaults[m], acc, flags)
    <3> SUFFICES ASSUME NEW m \in DOMAIN h \ DOMAIN texts
                 PROVE  \E acc : Grown(alias, texts, flags, acc) /\ h[m] = Filled(alias.defaults[m], acc, flags)
      OBVIOUS
    <3>1. CASE m = n
      BY <2>1, <2>5, <3>1 DEF value
    <3>2. CASE m # n
      BY <2>5, <3>2 DEF Completed
    <3> QED BY <3>1, <3>2
  <2>8. \A i \in 1..(k + 1) : Alphabet[i] \in DOMAIN alias.defaults \ DOMAIN flags => Alphabet[i] \in DOMAIN h
    BY <1>1, <2>5 DEF Completed, n
  <2>9. Completed(alias, texts, flags, k + 1, h)
    BY <2>6, <2>7, <2>8 DEF Completed
  <2> QED BY <2>9 DEF h, n
<1> QED BY <1>2, <1>3

LEMMA DefaultsAre ==
    ASSUME NEW alias, IsAlias(alias), NEW texts, NEW flags, GivenTexts(texts, flags)
    PROVE  Completed(alias, texts, flags, Len(Alphabet), WithDefaults(alias, texts, flags))
<1> DEFINE L == Len(Alphabet)
<1>1. PICK f : /\ f[0] = texts /\ WithDefaults(alias, texts, flags) = f[L]
               /\ \A k \in 1..L : f[k] = OneDefault(alias, flags, f[k - 1], Alphabet[k])
  BY DefaultsInTurn
<1>2. L \in Nat
  <2>1. Alphabet \in Seq(Param)
    BY WordsAssumption
  <2> QED BY <2>1
<1> HIDE DEF L
<1> DEFINE T == {k \in Nat : k <= L => Completed(alias, texts, flags, k, f[k])}
<1>3. 0 \in T
  <2>1. Grown(alias, texts, flags, texts) /\ 1..0 = {} /\ DOMAIN texts \ DOMAIN texts = {}
    BY DEF Grown
  <2> QED BY <1>1, <2>1 DEF Completed
<1>4. ASSUME NEW k \in Nat, k \in T PROVE k + 1 \in T
  <2> SUFFICES ASSUME k + 1 <= L PROVE Completed(alias, texts, flags, k + 1, f[k + 1])
    OBVIOUS
  <2>1. k + 1 \in 1..L /\ (k + 1) - 1 = k /\ k <= L
    BY <1>2
  <2>2. f[k + 1] = OneDefault(alias, flags, f[k], Alphabet[k + 1])
    BY <1>1, <2>1
  <2>3. Completed(alias, texts, flags, k, f[k])
    BY <1>4, <2>1
  <2> QED BY <2>2, <2>3, OneMoreDefault
<1> HIDE DEF T
<1>5. L \in T
  BY <1>2, <1>3, <1>4, SetInduction
<1>6. Completed(alias, texts, flags, L, f[L])
  BY <1>2, <1>5 DEF T
<1> QED BY <1>1, <1>6 DEF L

\* An alias, and arguments that it takes.
Taken(alias, args) == IsAlias(alias) /\ ArgsAreList(args) /\ ~BadArguments(alias, args)

LEMMA LineGives ==
    ASSUME NEW alias, NEW args, Taken(alias, args)
    PROVE  /\ \A n : n \in DOMAIN FlagValues(args) <=> Flagged(args, n)
           /\ \A n : n \in DOMAIN PositionalTexts(alias, args) <=> Slots(alias, args, n) # {}
           /\ DOMAIN FlagValues(args) \subseteq Param /\ DOMAIN PositionalTexts(alias, args) \subseteq Param
           /\ GivenTexts(PositionalTexts(alias, args), FlagValues(args))
<1>1. Len(Words(args)) <= Len(alias.positional)
  <2>1. Len(Words(args)) \in Nat /\ Len(alias.positional) \in Nat
    BY LineIs DEF Taken, IsList, IsAlias
  <2>2. ~(Len(Words(args)) > Len(alias.positional))
    BY DEF Taken, BadArguments
  <2> QED BY <2>1, <2>2
<1>2. ArgsAreList(args) /\ IsAlias(alias)
  BY DEF Taken
<1>3. \A n : n \in DOMAIN FlagValues(args) <=> Flagged(args, n)
  BY <1>2, FlagNames
<1>4. \A n : n \in DOMAIN PositionalTexts(alias, args) <=> Slots(alias, args, n) # {}
  BY <1>1, <1>2, WordNames
<1>5. DOMAIN FlagValues(args) \subseteq Param /\ DOMAIN PositionalTexts(alias, args) \subseteq Param
  BY <1>1, <1>2, FlagNames, WordNames
<1>6. ASSUME NEW n \in DOMAIN FlagValues(args) PROVE IsText(FlagValues(args)[n].text)
  <2>1. FlagValues(args)[n] = Typed(LastFlag(args, n))
    BY <1>2, FlagsAre
  <2>2. ASSUME NEW a PROVE IsText(Typed(a).text)
    <3>1. Typed(a).text = <<a.word>> \/ Typed(a).text = <<>>
      BY DEF Typed, Parsed, Bad
    <3> QED BY <3>1, OneText
  <2> QED BY <2>1, <2>2
<1>7. ASSUME NEW n \in DOMAIN PositionalTexts(alias, args) PROVE IsText(PositionalTexts(alias, args)[n])
  BY <1>2, WordsAre, OneText
<1> QED BY <1>3, <1>4, <1>5, <1>6, <1>7 DEF GivenTexts

LEMMA LineOf ==
    ASSUME NEW alias, NEW args, Taken(alias, args), NEW n
    PROVE  /\ n \in DOMAIN FlagValues(args) => FromLine(alias, args, n) = FlagValues(args)[n]
           /\ n \in DOMAIN PositionalTexts(alias, args) \ DOMAIN FlagValues(args) =>
                 FromLine(alias, args, n) = Parsed(PositionalTexts(alias, args)[n])
<1>1. n \in DOMAIN FlagValues(args) <=> Flagged(args, n)
  BY LineGives
<1>2. ASSUME n \in DOMAIN FlagValues(args) PROVE FromLine(alias, args, n) = FlagValues(args)[n]
  BY <1>1, <1>2, FlagsAre DEF FromLine, Taken
<1>3. ASSUME n \in DOMAIN PositionalTexts(alias, args), n \notin DOMAIN FlagValues(args)
      PROVE  FromLine(alias, args, n) = Parsed(PositionalTexts(alias, args)[n])
  <2>1. PositionalTexts(alias, args)[n]
           = <<Words(args)[CHOOSE i \in Slots(alias, args, n) :
                                \A j \in Slots(alias, args, n) : j <= i].word>>
    BY <1>3, WordsAre DEF Taken
  <2>2. FromLine(alias, args, n)
           = Parsed(<<Words(args)[CHOOSE i \in Slots(alias, args, n) :
                                \A j \in Slots(alias, args, n) : j <= i].word>>)
    BY <1>1, <1>3, Zenon DEF FromLine
  <2> QED BY <2>1, <2>2, Zenon
<1> QED BY <1>2, <1>3

\* Everything that the line or a default gives is bound, to a text.
LEMMA BoundNames ==
    ASSUME NEW alias, NEW args, Taken(alias, args)
    PROVE  /\ DOMAIN Bound(alias, args) \subseteq Param
           /\ \A n \in Param : Flagged(args, n) \/ Slots(alias, args, n) # {} \/ n \in DOMAIN alias.defaults
                 => n \in DOMAIN Bound(alias, args)
           /\ \A n \in DOMAIN Bound(alias, args) : IsText(Bound(alias, args)[n].text)
<1> DEFINE flags == FlagValues(args)
           first == PositionalTexts(alias, args)
           texts == WithDefaults(alias, first, flags)
           bound == Bound(alias, args)
<1>1. /\ \A n : n \in DOMAIN flags <=> Flagged(args, n)
      /\ \A n : n \in DOMAIN first <=> Slots(alias, args, n) # {}
      /\ DOMAIN flags \subseteq Param /\ DOMAIN first \subseteq Param /\ GivenTexts(first, flags)
  BY LineGives
<1>2. IsAlias(alias)
  BY DEF Taken
<1> HIDE DEF flags, first
<1>3. Completed(alias, first, flags, Len(Alphabet), texts)
  BY <1>1, <1>2, DefaultsAre
<1>4. bound = Over(flags, [n \in DOMAIN texts |-> Parsed(texts[n])])
  BY DEF Bound, flags, first
<1> HIDE DEF texts
<1>5. /\ DOMAIN bound = DOMAIN flags \cup DOMAIN texts
      /\ \A n \in DOMAIN flags : bound[n] = flags[n]
      /\ \A n \in DOMAIN texts \ DOMAIN flags : bound[n] = Parsed(texts[n])
  BY <1>4 DEF Over
<1> HIDE DEF bound
<1>6. Grown(alias, first, flags, texts)
  BY <1>3 DEF Completed
<1>7. DOMAIN bound \subseteq Param
  BY <1>1, <1>2, <1>5, <1>6 DEF Grown, IsAlias
<1>8. ASSUME NEW n \in Param, Flagged(args, n) \/ Slots(alias, args, n) # {} \/ n \in DOMAIN alias.defaults
      PROVE  n \in DOMAIN bound
  <2>1. PICK i \in 1..Len(Alphabet) : Alphabet[i] = n
    <3>1. Alphabet \in Seq(Param) /\ n \in ToSet(Alphabet)
      BY WordsAssumption
    <3>2. DOMAIN Alphabet = 1..Len(Alphabet)
      BY <3>1
    <3> QED BY <3>1, <3>2 DEF ToSet
  <2>2. n \in DOMAIN alias.defaults \ DOMAIN flags => n \in DOMAIN texts
    BY <1>3, <2>1 DEF Completed
  <2> QED BY <1>1, <1>5, <1>6, <1>8, <2>2 DEF Grown
<1>9. ASSUME NEW n \in DOMAIN bound PROVE IsText(bound[n].text)
  <2>1. \A text : Parsed(text).text = text
    BY DEF Parsed
  <2>2. GivenTexts(texts, flags)
    BY <1>6 DEF Grown
  <2>3. CASE n \in DOMAIN flags
    BY <1>5, <2>2, <2>3 DEF GivenTexts
  <2>4. CASE n \in DOMAIN texts \ DOMAIN flags
    BY <1>5, <2>1, <2>2, <2>4 DEF GivenTexts
  <2> QED BY <1>5, <2>3, <2>4
<1> QED BY <1>7, <1>8, <1>9 DEF bound

\* As long as defaults only refer to what the line gives once, each value is the one it ought
\* to be.
LEMMA BoundIs ==
    ASSUME NEW alias, NEW args, Taken(alias, args), Direct(alias, args), NEW n \in DOMAIN Bound(alias, args)
    PROVE  Bound(alias, args)[n] = Ought(alias, args, n)
<1> DEFINE flags == FlagValues(args)
           first == PositionalTexts(alias, args)
           texts == WithDefaults(alias, first, flags)
           bound == Bound(alias, args)
           line(m) == FromLine(alias, args, m)
<1>1. /\ \A m : m \in DOMAIN flags <=> Flagged(args, m)
      /\ \A m : m \in DOMAIN first <=> Slots(alias, args, m) # {}
      /\ DOMAIN flags \subseteq Param /\ DOMAIN first \subseteq Param /\ GivenTexts(first, flags)
  BY LineGives
<1>2. IsAlias(alias)
  BY DEF Taken
<1>3. /\ \A m \in DOMAIN flags : line(m) = flags[m]
      /\ \A m \in DOMAIN first \ DOMAIN flags : line(m) = Parsed(first[m])
  BY LineOf
<1> HIDE DEF flags, first
<1>4. Completed(alias, first, flags, Len(Alphabet), texts)
  BY <1>1, <1>2, DefaultsAre
<1>5. bound = Over(flags, [m \in DOMAIN texts |-> Parsed(texts[m])])
  BY DEF Bound, flags, first
<1> HIDE DEF texts
<1>6. /\ DOMAIN bound = DOMAIN flags \cup DOMAIN texts
      /\ \A m \in DOMAIN flags : bound[m] = flags[m]
      /\ \A m \in DOMAIN texts \ DOMAIN flags : bound[m] = Parsed(texts[m])
  BY <1>5 DEF Over
<1>7. n \in DOMAIN bound
  OBVIOUS
<1>12. \A m : m \in Unbound(alias, args) <=> m \in DOMAIN alias.defaults /\ ~Flagged(args, m) /\ Slots(alias, args, m) = {}
  BY DEF Unbound
<1>13. Ought(alias, args, n) =
          IF n \notin Unbound(alias, args) THEN line(n)
          ELSE Parsed(FlattenSeq([i \in DOMAIN alias.defaults[n] |->
                         IF alias.defaults[n][i] \in Param THEN line(alias.defaults[n][i]).text
                         ELSE <<alias.defaults[n][i]>>]))
  BY DEF Ought
<1> HIDE DEF bound, line
<1>8. Grown(alias, first, flags, texts)
  BY <1>4 DEF Completed
<1>9. CASE n \in DOMAIN flags
  BY <1>1, <1>3, <1>6, <1>9, <1>12, <1>13 DEF bound
<1>10. CASE n \in DOMAIN first \ DOMAIN flags
  <2>1. n \in DOMAIN texts /\ texts[n] = first[n]
    BY <1>8, <1>10 DEF Grown
  <2> QED BY <1>1, <1>3, <1>6, <1>10, <1>12, <1>13, <2>1 DEF bound
<1>11. CASE n \notin DOMAIN first /\ n \notin DOMAIN flags
  <2> DEFINE template == alias.defaults[n]
  <2>1. n \in DOMAIN texts /\ n \in DOMAIN alias.defaults /\ n \in Unbound(alias, args)
    BY <1>1, <1>6, <1>7, <1>8, <1>11, <1>12 DEF Grown
  <2>2. PICK acc : Grown(alias, first, flags, acc) /\ texts[n] = Filled(template, acc, flags)
    BY <1>4, <1>11, <2>1 DEF Completed
  <2>3. /\ DOMAIN first \subseteq DOMAIN acc /\ \A m \in DOMAIN first : acc[m] = first[m]
        /\ DOMAIN acc \subseteq DOMAIN first \cup (DOMAIN alias.defaults \ DOMAIN flags)
        /\ DOMAIN acc \subseteq Param
    BY <1>1, <1>2, <2>2 DEF Grown, IsAlias
  <2>4. \A i \in DOMAIN template : template[i] \in Param =>
            (template[i] \in DOMAIN flags <=> template[i] \notin DOMAIN first)
    BY <1>1, <2>1 DEF Direct, GivenOnce
  <2> HIDE DEF template
  <2>5. \A text : Parsed(text).text = text
    BY DEF Parsed
  <2>6. ASSUME NEW i \in DOMAIN template
        PROVE  (CASE template[i] \in DOMAIN acc -> acc[template[i]]
                  [] template[i] \in DOMAIN flags \ DOMAIN acc -> flags[template[i]].text
                  [] OTHER -> <<template[i]>>)
               = IF template[i] \in Param THEN line(template[i]).text ELSE <<template[i]>>
    <3> DEFINE t == template[i]
    <3>1. CASE t \notin Param
      <4>1. t \notin DOMAIN acc /\ t \notin DOMAIN flags
        BY <1>1, <2>3, <3>1
      <4> QED BY <3>1, <4>1
    <3>2. CASE t \in Param /\ t \in DOMAIN first
      <4>1. t \notin DOMAIN flags /\ t \in DOMAIN acc /\ acc[t] = first[t]
        BY <2>3, <2>4, <3>2
      <4>2. line(t).text = first[t]
        BY <1>3, <2>5, <3>2, <4>1
      <4> QED BY <3>2, <4>1, <4>2
    <3>3. CASE t \in Param /\ t \notin DOMAIN first
      <4>1. t \in DOMAIN flags /\ t \notin DOMAIN acc
        BY <2>3, <2>4, <3>3
      <4>2. line(t).text = flags[t].text
        BY <1>3, <4>1
      <4> QED BY <3>3, <4>1, <4>2
    <3> QED BY <3>1, <3>2, <3>3
  <2>7. Filled(template, acc, flags)
        = FlattenSeq([i \in DOMAIN template |->
                         IF template[i] \in Param THEN line(template[i]).text ELSE <<template[i]>>])
    BY <2>6 DEF Filled
  <2>8. Ought(alias, args, n) = Parsed(Filled(template, acc, flags))
    BY <1>13, <2>1, <2>7 DEF template
  <2> QED BY <1>6, <1>11, <2>1, <2>2, <2>8 DEF bound
<1> QED BY <1>9, <1>10, <1>11

-----------------------------------------------------------------------------
(* The statement that a command makes.                                      *)

LEMMA LiteralText ==
    ASSUME NEW value, IsText(value.text) PROVE IsText(Literal(value).text)
<1> DEFINE W == {"'"} \cup ToSet(value.text)
           mark == <<"'">>
           text == value.text
<1>1. mark \in Seq(W)
  OBVIOUS
<1>2. text \in Seq(W)
  <2>1. text \in Seq(ToSet(text)) /\ ToSet(text) \subseteq W
    BY DEF IsText
  <2> HIDE DEF W
  <2> QED BY <2>1, SeqMonotonic
<1>3. Literal(value).text = Cat(Cat(mark, text), mark) \/ Literal(value).text = text
  BY DEF Literal, Cat
<1> HIDE DEF W, mark
<1>4. Cat(mark, text) \in Seq(W)
  BY <1>1, <1>2, CatIs
<1>5. Cat(Cat(mark, text), mark) \in Seq(W)
  BY <1>1, <1>4, CatIs
<1>6. IsText(Cat(Cat(mark, text), mark))
  BY <1>5, TextIn
<1> QED BY <1>3, <1>6

\* A value for every parameter of a query, and none for its other words.
Complete(query, bound) == Params(query) \subseteq DOMAIN bound /\ DOMAIN bound \subseteq Param

\* A query that a file may hold.
Wellformed(query) ==
    HolesAreList(query) /\ Params(query) \subseteq Param /\ Columns(query) \cap Param = {}

LEMMA RenderedIs ==
    ASSUME NEW query, Wellformed(query), NEW bound, Complete(query, bound)
    PROVE  Rendered(query, bound) = AtOnce(query, Literals(bound))
<1> DEFINE T == Template(query)
<1>1. T \in Seq(Params(query) \cup Columns(query))
  BY TemplateIs DEF Wellformed
<1>2. \A i \in DOMAIN T : T[i] \in Params(query) \cup Columns(query)
  <2> DEFINE V == Params(query) \cup Columns(query)
  <2> HIDE DEF T, V
  <2>1. T \in Seq(V)
    BY <1>1 DEF V
  <2>2. \A i \in DOMAIN T : T[i] \in V
    BY <2>1
  <2> QED BY <2>2 DEF V
<1> HIDE DEF T
<1>3. ASSUME NEW i \in DOMAIN T
      PROVE  (IF T[i] \in DOMAIN bound THEN Literal(bound[T[i]]).text ELSE <<T[i]>>)
             = IF T[i] \in Params(query) THEN Literals(bound)[T[i]].text ELSE <<T[i]>>
  <2>1. T[i] \in DOMAIN bound <=> T[i] \in Params(query)
    BY <1>2 DEF Wellformed, Complete
  <2>2. T[i] \in DOMAIN bound => Literals(bound)[T[i]] = Literal(bound[T[i]])
    BY DEF Literals
  <2> QED BY <2>1, <2>2
<1>4. Rendered(query, bound)
      = FlattenSeq([i \in DOMAIN T |->
                       IF T[i] \in DOMAIN bound THEN Literal(bound[T[i]]).text ELSE <<T[i]>>])
  BY DEF Rendered, T
<1>5. AtOnce(query, Literals(bound))
      = FlattenSeq([i \in DOMAIN T |->
                       IF T[i] \in Params(query) THEN Literals(bound)[T[i]].text ELSE <<T[i]>>])
  BY DEF AtOnce, T
<1>6. [i \in DOMAIN T |-> IF T[i] \in DOMAIN bound THEN Literal(bound[T[i]]).text ELSE <<T[i]>>]
      = [i \in DOMAIN T |-> IF T[i] \in Params(query) THEN Literals(bound)[T[i]].text ELSE <<T[i]>>]
  BY <1>3
<1> QED BY <1>4, <1>5, <1>6

\* The server's replacements make the same of it, unless a value looks like a placeholder.
LEMMA RenderedAlike ==
    ASSUME NEW query, Wellformed(query), NEW bound, Complete(query, bound),
           \A n \in DOMAIN bound : IsText(bound[n].text), Plain(query, Literals(bound)),
           NEW order \in Orders(query)
    PROVE  Substituted(Template(query), order, Literals(bound)) = AtOnce(query, Literals(bound))
<1>1. ASSUME NEW n \in Params(query) PROVE IsText(Literals(bound)[n].text)
  <2>1. n \in DOMAIN bound /\ Literals(bound)[n] = Literal(bound[n])
    BY DEF Complete, Literals
  <2> QED BY <2>1, LiteralText
<1> DEFINE given == Literals(bound)
<1>2. \A n \in Params(query) : IsText(given[n].text)
  BY <1>1
<1>3. HolesAreList(query) /\ Plain(query, given)
  BY DEF Wellformed
<1> HIDE DEF given
<1>4. Substituted(Template(query), order, given) = AtOnce(query, given)
  BY <1>2, <1>3, TemplateSubstituted
<1> QED BY <1>4 DEF given

-----------------------------------------------------------------------------
(* Commands that run a pipeline.                                            *)

\* Every alias is one that the session's files or commands hold.
AliasesShaped ==
    /\ \A place \in Location : \A n \in DOMAIN files[place].aliases : IsAlias(files[place].aliases[n])
    /\ \A p \in Process : \A n \in DOMAIN doing[p].aliases : IsAlias(doing[p].aliases[n])

Shaped(aliases) == \A n \in DOMAIN aliases : IsAlias(aliases[n])

\* A step of p that leaves files and aliases in their shape.
KeepsShape(p) ==
    /\ \A q \in Process \ {p} : doing'[q] = doing[q]
    /\ Shaped(doing'[p].aliases)
    /\ \A place \in Location : Shaped(files'[place].aliases)

LEMMA ShapeKept == ASSUME AliasInv, AliasesShaped, NEW p \in Process, KeepsShape(p) PROVE AliasesShaped'
BY DEF AliasesShaped, KeepsShape, Shaped

LEMMA EndsShaped ==
    ASSUME AliasInv, AliasesShaped, NEW p \in Process, NEW result, Ends(p, result)
    PROVE  Shaped(doing'[p].aliases)
<1>1. DOMAIN doing = Process /\ DOMAIN doing[p] = DOMAIN Fresh
  BY DEF AliasInv, CliShapes
<1>2. doing'[p].aliases = doing[p].aliases
  BY <1>1, FreshFields DEF Ends
<1> QED BY <1>2 DEF AliasesShaped, Shaped

LEMMA CommandsAre ==
    ASSUME AliasInv, NEW p \in Process, Command(p) # Nothing
    PROVE  /\ Command(p).place \in Location \cup {Nothing}
           /\ Command(p).verb = "add" => IsAlias(Command(p))
           /\ ArgsAreList(Command(p).args)
<1>1. session \in Sessions
  BY DEF AliasInv, CliShapes
<1> QED BY <1>1, WordsAssumption DEF Command, ArgsAreList

LEMMA ClientShapes ==
    ASSUME AliasInv, AliasesShaped, NEW p \in Process, Client(p), Command(p) # Nothing
    PROVE  AliasesShaped'
<1>1. /\ DOMAIN doing = Process /\ DOMAIN doing[p] = DOMAIN Fresh /\ DOMAIN files = Location
  BY DEF AliasInv, CliShapes
<1>2. \A q \in Process \ {p} : doing'[q] = doing[q]
  BY OnlyOwn
<1>3. Shaped(doing[p].aliases) /\ \A place \in Location : Shaped(files[place].aliases)
  BY DEF AliasesShaped, Shaped
<1>4. \A result : Ends(p, result) => Shaped(doing'[p].aliases)
  BY EndsShaped
<1>5. Shaped(<<>>)
  BY DEF Shaped
<1>14. ASSUME NEW pl, NEW file, files' = [files EXCEPT ![pl] = file], file.aliases = <<>>, NEW place \in Location
       PROVE  files'[place].aliases = files[place].aliases \/ files'[place].aliases = <<>>
  <2>1. files'[place] = files[place] \/ files'[place] = file
    BY <1>1, <1>14
  <2> QED BY <1>14, <2>1
<1>15. [is |-> "empty", aliases |-> <<>>].aliases = <<>> /\ Garbled.aliases = <<>>
  BY DEF Garbled
<1>6. CASE LoadAliases(p)
  <2> DEFINE place == AliasPlace(Command(p))
  <2>1. place \in Location
    BY CommandsAre DEF AliasPlace, Location
  <2>2. files' = files
    BY <1>6 DEF LoadAliases
  <2>3. \/ \E result : Ends(p, result)
        \/ doing' = [doing EXCEPT ![p].stage = "loaded", ![p].place = place, ![p].aliases = files[place].aliases]
    BY <1>6 DEF LoadAliases
  <2> HIDE DEF place
  <2>4. ASSUME doing' = [doing EXCEPT ![p].stage = "loaded", ![p].place = place,
                                      ![p].aliases = files[place].aliases]
        PROVE  Shaped(doing'[p].aliases)
    <3>1. doing'[p].aliases = files[place].aliases
      BY <1>1, <2>4, FreshFields
    <3> QED BY <1>3, <2>1, <3>1
  <2>5. Shaped(doing'[p].aliases)
    BY <1>4, <2>3, <2>4
  <2> QED BY <1>2, <1>3, <2>2, <2>5, ShapeKept DEF KeepsShape
<1>7. ASSUME NEW aliases, Save(p, aliases), Shaped(aliases) PROVE Shaped(doing'[p].aliases)
  <2>1. doing'[p].aliases = aliases
    BY <1>1, <1>7, FreshFields DEF Save
  <2> QED BY <1>7, <2>1
<1>8. CASE AddAlias(p)
  <2> DEFINE added == Over([n \in {Command(p).name} |-> Named(Command(p))], doing[p].aliases)
  <2>1. Command(p).verb = "add" /\ files' = files
    BY <1>8 DEF AddAlias, FilesKept
  <2>2. IsAlias(Named(Command(p)))
    BY <2>1, CommandsAre DEF Named, IsAlias
  <2>3. Shaped(added)
    BY <1>3, <2>2 DEF Shaped, Over
  <2>4. Save(p, added) \/ \E result : Ends(p, result)
    BY <1>8 DEF AddAlias
  <2> HIDE DEF added
  <2>5. Shaped(doing'[p].aliases)
    BY <1>4, <1>7, <2>3, <2>4
  <2> QED BY <1>2, <1>3, <2>1, <2>5, ShapeKept DEF KeepsShape
<1>9. CASE RemoveAlias(p)
  <2> DEFINE left == [n \in DOMAIN doing[p].aliases \ {Command(p).name} |-> doing[p].aliases[n]]
  <2>1. files' = files /\ (Save(p, left) \/ \E result : Ends(p, result))
    BY <1>9 DEF RemoveAlias, FilesKept
  <2>2. Shaped(left)
    BY <1>3 DEF Shaped
  <2> HIDE DEF left
  <2>3. Shaped(doing'[p].aliases)
    BY <1>4, <1>7, <2>1, <2>2
  <2> QED BY <1>2, <1>3, <2>1, <2>3, ShapeKept DEF KeepsShape
<1>10. CASE Truncate(p)
  <2>1. Shaped(doing'[p].aliases)
    <3>1. (\E result : Ends(p, result)) \/ doing' = [doing EXCEPT ![p].stage = "write"]
      BY <1>10 DEF Truncate
    <3>2. doing' = [doing EXCEPT ![p].stage = "write"] => doing'[p].aliases = doing[p].aliases
      BY <1>1, FreshFields
    <3> QED BY <1>3, <1>4, <3>1, <3>2
  <2>2. \A place \in Location : files'[place].aliases = files[place].aliases \/ files'[place].aliases = <<>>
    <3>1. files' = files \/ \E pl : files' = [files EXCEPT ![pl] = [is |-> "empty", aliases |-> <<>>]]
      BY <1>10 DEF Truncate
    <3> QED BY <1>14, <1>15, <3>1
  <2>3. \A place \in Location : Shaped(files'[place].aliases)
    BY <1>3, <1>5, <2>2
  <2> QED BY <1>2, <2>1, <2>3, ShapeKept DEF KeepsShape
<1>11. CASE WriteOut(p)
  <2>1. \A place \in Location : \/ files'[place].aliases = files[place].aliases
                                \/ files'[place].aliases = <<>> \/ files'[place].aliases = doing[p].aliases
    BY <1>1, <1>11 DEF WriteOut, Written, Garbled
  <2>2. \A place \in Location : Shaped(files'[place].aliases)
    BY <1>3, <1>5, <2>1
  <2>3. Ends(p, "saved")
    BY <1>11 DEF WriteOut
  <2> QED BY <1>2, <1>4, <2>2, <2>3, ShapeKept DEF KeepsShape
<1>12. CASE WriteFails(p) \/ Kill(p)
  <2>1. \A place \in Location : files'[place].aliases = files[place].aliases \/ files'[place].aliases = <<>>
    <3>1. files' = files \/ \E pl : files' = [files EXCEPT ![pl] = Garbled]
      BY <1>12 DEF WriteFails, Kill
    <3> QED BY <1>14, <1>15, <3>1
  <2>2. \A place \in Location : Shaped(files'[place].aliases)
    BY <1>3, <1>5, <2>1
  <2>3. \E result : Ends(p, result)
    BY <1>12 DEF WriteFails, Kill
  <2> QED BY <1>2, <1>4, <2>2, <2>3, ShapeKept DEF KeepsShape
<1>13. CASE \/ ShowAliases(p) \/ CallAlias(p) \/ StartRun(p) \/ Prepare(p) \/ Open(p)
            \/ RegisterSource(p) \/ Registered(p) \/ Execute(p) \/ Describe(p) \/ AskServer(p)
  <2>1. files' = files
    BY <1>13 DEF ShowAliases, CallAlias, StartRun, Prepare, Open, RegisterSource, Registered, Execute,
       Describe, AskServer, FilesKept
  <2>2. doing'[p].aliases = doing[p].aliases
    <3>1. ASSUME NEW result, Ends(p, result) PROVE doing'[p].aliases = doing[p].aliases
      BY <1>1, <3>1, FreshFields DEF Ends
    <3>9. ASSUME NEW shown, doing' = [doing EXCEPT ![p].stage = "done", ![p].answer = "ok", ![p].shown = shown]
          PROVE  doing'[p].aliases = doing[p].aliases
      BY <1>1, <3>9, FreshFields
    <3>2. CASE ShowAliases(p)
      <4>1. \/ \E result : Ends(p, result)
            \/ \E shown : doing' = [doing EXCEPT ![p].stage = "done", ![p].answer = "ok", ![p].shown = shown]
        BY <3>2, Zenon DEF ShowAliases
      <4> QED BY <3>1, <3>9, <4>1
    <3>3. CASE CallAlias(p) \/ StartRun(p)
      <4>1. (\E result : Ends(p, result)) \/ \E pipeline, bound : Prepares(p, pipeline, bound)
        BY <3>3, Zenon DEF CallAlias, StartRun
      <4>2. \A pipeline, bound : Prepares(p, pipeline, bound) => doing'[p].aliases = doing[p].aliases
        BY <1>1, FreshFields DEF Prepares
      <4> QED BY <3>1, <4>1, <4>2
    <3>4. CASE Prepare(p)
      <4>1. \/ \E result : Ends(p, result)
            \/ \E stage, query, text :
                  doing' = [doing EXCEPT ![p].stage = stage, ![p].query = query, ![p].statement = text]
            \/ \E query : doing' = [doing EXCEPT ![p].stage = "done", ![p].query = query, ![p].answer = "missing"]
        BY <3>4, Zenon DEF Prepare
      <4>2. \A stage, query, text :
                doing' = [doing EXCEPT ![p].stage = stage, ![p].query = query, ![p].statement = text]
                    => doing'[p].aliases = doing[p].aliases
        <5> SUFFICES ASSUME NEW stage, NEW query, NEW text,
                 doing' = [doing EXCEPT ![p].stage = stage, ![p].query = query, ![p].statement = text]
                     PROVE  doing'[p].aliases = doing[p].aliases
          OBVIOUS
        <5> QED BY <1>1, FreshFields
      <4>3. ASSUME NEW query,
                   doing' = [doing EXCEPT ![p].stage = "done", ![p].query = query, ![p].answer = "missing"]
            PROVE  doing'[p].aliases = doing[p].aliases
        BY <1>1, <4>3, FreshFields
      <4> QED BY <3>1, <4>1, <4>2, <4>3
    <3>5. CASE Open(p) \/ Registered(p)
      BY <1>1, <3>1, <3>5, FreshFields DEF Open, Registered
    <3>6. CASE RegisterSource(p)
      <4>1. \/ \E result : Ends(p, result)
            \/ \E n, shown : doing' = [doing EXCEPT ![p].at = n, ![p].tables = shown]
        BY <3>6, Zenon DEF RegisterSource
      <4>2. \A n, shown : doing' = [doing EXCEPT ![p].at = n, ![p].tables = shown]
                => doing'[p].aliases = doing[p].aliases
        BY <1>1, FreshFields
      <4> QED BY <3>1, <4>1, <4>2
    <3>7. CASE Execute(p) \/ AskServer(p)
      BY <3>1, <3>7 DEF Execute, AskServer
    <3>8. CASE Describe(p)
      <4>1. \/ \E result : Ends(p, result)
            \/ \E shown : doing' = [doing EXCEPT ![p].stage = "done", ![p].answer = "ok", ![p].shown = shown]
        BY <3>8, Zenon DEF Describe
      <4> QED BY <3>1, <3>9, <4>1
    <3> QED BY <1>13, <3>2, <3>3, <3>4, <3>5, <3>6, <3>7, <3>8
  <2> QED BY <1>2, <1>3, <2>1, <2>2, ShapeKept DEF KeepsShape
<1> QED BY <1>6, <1>8, <1>9, <1>10, <1>11, <1>12, <1>13 DEF Client

Runs(p) == Command(p) # Nothing /\ Command(p).verb \in {"run", "call"}

FromFile(query) == \E i \in DOMAIN config.files : query = config.files[i].query

\* The values that a command has bound are those of its line, and its alias is in its hands.
BoundByLine(p) ==
    /\ Command(p).verb = "call" =>
          /\ Command(p).name \in DOMAIN doing[p].aliases
          /\ ~BadArguments(doing[p].aliases[Command(p).name], Command(p).args)
          /\ doing[p].bound = Bound(doing[p].aliases[Command(p).name], Command(p).args)
    /\ Command(p).verb = "run" => doing[p].bound = FlagValues(Command(p).args)

\* How far a command that runs a pipeline has come, and what it has in hand.
RunsByRule(p) ==
    /\ Stage(p) \in {"start", "loaded", "prepare", "register", "execute", "done"}
    /\ Stage(p) # "done" => doing[p].answer = Nothing
    /\ Stage(p) \in {"prepare", "register", "execute"} \/ doing[p].answer = "missing" => BoundByLine(p)
    /\ Stage(p) \in {"register", "execute"} =>
          /\ FromFile(doing[p].query) /\ Params(doing[p].query) \subseteq DOMAIN doing[p].bound
          /\ doing[p].statement = Rendered(doing[p].query, doing[p].bound)
    /\ doing[p].answer = "missing" =>
          FromFile(doing[p].query) /\ ~(Params(doing[p].query) \subseteq DOMAIN doing[p].bound)

CommandInv == AliasInv /\ AliasesShaped /\ \A p \in Process : Runs(p) => RunsByRule(p)

LEMMA RunSteps ==
    ASSUME NEW p \in Process, Client(p), Runs(p), RunsByRule(p)
    PROVE  LoadAliases(p) \/ CallAlias(p) \/ StartRun(p) \/ Prepare(p) \/ RegisterSource(p)
           \/ Registered(p) \/ Execute(p)
<1>1. /\ Command(p).verb \in {"run", "call"}
      /\ Stage(p) \in {"start", "loaded", "prepare", "register", "execute", "done"}
  BY DEF Runs, RunsByRule
<1>2. ~(AddAlias(p) \/ RemoveAlias(p) \/ Truncate(p) \/ WriteOut(p) \/ WriteFails(p) \/ Kill(p))
  BY <1>1 DEF AddAlias, RemoveAlias, Truncate, WriteOut, WriteFails, Kill
<1>3. ~(ShowAliases(p) \/ Open(p) \/ Describe(p) \/ AskServer(p))
  BY <1>1 DEF ShowAliases, Open, Describe, AskServer
<1> QED BY <1>2, <1>3 DEF Client

LEMMA RunKeeps ==
    ASSUME CommandInv, NEW p \in Process, Client(p), Runs(p), config' = config
    PROVE  RunsByRule(p)'
<1>1. RunsByRule(p) /\ DOMAIN doing = Process /\ DOMAIN doing[p] = DOMAIN Fresh
  BY DEF CommandInv, AliasInv, CliShapes
<1>2. session' = session
  BY OnlyOwn DEF CommandInv
<1>3. Command(p)' = Command(p) /\ Command(p).verb \in {"run", "call"}
      /\ \A query : FromFile(query) => FromFile(query)'
  BY <1>2 DEF Command, Runs, FromFile
<1>4. Nothing # "missing"
  BY WordsAssumption
<1>5. ASSUME NEW result, Ends(p, result), result # "missing" PROVE RunsByRule(p)'
  <2>1. doing'[p].stage = "done" /\ doing'[p].answer = result
    BY <1>1, <1>5, FreshFields DEF Ends
  <2> QED BY <1>5, <2>1 DEF RunsByRule, Stage
<1>6. ASSUME NEW pipeline, NEW bound, Stage(p) # "done", Prepares(p, pipeline, bound),
             /\ Command(p).verb = "call" =>
                   /\ Command(p).name \in DOMAIN doing[p].aliases
                   /\ ~BadArguments(doing[p].aliases[Command(p).name], Command(p).args)
                   /\ bound = Bound(doing[p].aliases[Command(p).name], Command(p).args)
             /\ Command(p).verb = "run" => bound = FlagValues(Command(p).args)
      PROVE  RunsByRule(p)'
  <2>1. /\ doing'[p].stage = "prepare" /\ doing'[p].bound = bound /\ doing'[p].answer = doing[p].answer
        /\ doing'[p].aliases = doing[p].aliases
    BY <1>1, <1>6, FreshFields DEF Prepares
  <2>2. doing'[p].answer = Nothing
    BY <1>1, <1>6, <2>1 DEF RunsByRule
  <2>3. BoundByLine(p)'
    BY <1>3, <1>6, <2>1 DEF BoundByLine
  <2> QED BY <1>4, <2>1, <2>2, <2>3 DEF RunsByRule, Stage
<1>7. CASE LoadAliases(p)
  <2>1. \/ Ends(p, "bad file")
        \/ \E place, aliases :
              doing' = [doing EXCEPT ![p].stage = "loaded", ![p].place = place, ![p].aliases = aliases]
    BY <1>7, Zenon DEF LoadAliases
  <2>2. ASSUME NEW place, NEW aliases,
               doing' = [doing EXCEPT ![p].stage = "loaded", ![p].place = place, ![p].aliases = aliases]
        PROVE  RunsByRule(p)'
    <3>1. doing'[p].stage = "loaded" /\ doing'[p].answer = doing[p].answer
      BY <1>1, <2>2, FreshFields
    <3>2. doing'[p].answer = Nothing
      BY <1>1, <1>7, <3>1 DEF RunsByRule, LoadAliases
    <3> QED BY <1>4, <3>1, <3>2 DEF RunsByRule, Stage
  <2> QED BY <1>5, <2>1, <2>2
<1>8. CASE CallAlias(p)
  <2>1. Stage(p) # "done" /\ Command(p).verb = "call"
    BY <1>8 DEF CallAlias
  <2>2. \/ Ends(p, "unknown") \/ Ends(p, "bad arguments")
        \/ /\ Command(p).name \in DOMAIN doing[p].aliases
           /\ ~BadArguments(doing[p].aliases[Command(p).name], Command(p).args)
           /\ Prepares(p, doing[p].aliases[Command(p).name].pipeline,
                       Bound(doing[p].aliases[Command(p).name], Command(p).args))
    BY <1>8 DEF CallAlias
  <2> QED BY <1>5, <1>6, <2>1, <2>2
<1>9. CASE StartRun(p)
  <2>1. Stage(p) # "done" /\ Command(p).verb = "run"
    BY <1>9 DEF StartRun
  <2>2. \/ Ends(p, "bad arguments")
        \/ Prepares(p, Command(p).pipeline, FlagValues(Command(p).args))
    BY <1>9 DEF StartRun
  <2> QED BY <1>5, <1>6, <2>1, <2>2
<1>10. CASE Prepare(p)
  <2> DEFINE bound == doing[p].bound
  <2>1. BoundByLine(p) /\ doing[p].answer = Nothing
    BY <1>1, <1>10 DEF RunsByRule, Prepare
  <2>2. \/ Ends(p, "no context") \/ Ends(p, "bad pipelines") \/ Ends(p, "not found")
        \/ \E query \in Discovered(Command(p), doing[p].pipeline) :
              IF Params(query) \subseteq DOMAIN bound
              THEN doing' = [doing EXCEPT ![p].stage = NextSession, ![p].query = query,
                                          ![p].statement = Rendered(query, bound)]
              ELSE doing' = [doing EXCEPT ![p].stage = "done", ![p].query = query, ![p].answer = "missing"]
    BY <1>10 DEF Prepare
  <2>3. ASSUME NEW query \in Discovered(Command(p), doing[p].pipeline) PROVE FromFile(query)'
    <3>1. FromFile(query)
      BY DEF Discovered, FromFile
    <3> QED BY <1>3, <3>1
  <2>4. ASSUME NEW query, FromFile(query)', Params(query) \subseteq DOMAIN bound,
               doing' = [doing EXCEPT ![p].stage = NextSession, ![p].query = query,
                                      ![p].statement = Rendered(query, bound)]
        PROVE  RunsByRule(p)'
    <3>1. /\ doing'[p].stage = NextSession /\ doing'[p].query = query /\ doing'[p].answer = Nothing
          /\ doing'[p].statement = Rendered(query, bound) /\ doing'[p].bound = bound
          /\ doing'[p].aliases = doing[p].aliases
      BY <1>1, <2>1, <2>4, FreshFields
    <3>2. NextSession \in {"register", "execute"}
      BY DEF NextSession
    <3>3. BoundByLine(p)'
      BY <1>3, <2>1, <3>1 DEF BoundByLine
    <3> HIDE DEF bound
    <3>4. Stage(p)' \in {"register", "execute"}
      BY <3>1, <3>2 DEF Stage
    <3> QED BY <1>4, <2>4, <3>1, <3>3, <3>4 DEF RunsByRule
  <2>5. ASSUME NEW query, FromFile(query)', ~(Params(query) \subseteq DOMAIN bound),
               doing' = [doing EXCEPT ![p].stage = "done", ![p].query = query, ![p].answer = "missing"]
        PROVE  RunsByRule(p)'
    <3>1. /\ doing'[p].stage = "done" /\ doing'[p].query = query /\ doing'[p].bound = bound
          /\ doing'[p].aliases = doing[p].aliases
      BY <1>1, <2>5, FreshFields
    <3>2. BoundByLine(p)'
      BY <1>3, <2>1, <3>1 DEF BoundByLine
    <3> HIDE DEF bound
    <3>3. Stage(p)' = "done"
      BY <3>1 DEF Stage
    <3> QED BY <2>5, <3>1, <3>2, <3>3 DEF RunsByRule
  <2> QED BY <1>5, <2>2, <2>3, <2>4, <2>5
<1>11. CASE RegisterSource(p)
  <2>1. \/ Ends(p, "no source")
        \/ \E n, shown : doing' = [doing EXCEPT ![p].at = n, ![p].tables = shown]
    BY <1>11, Zenon DEF RegisterSource
  <2>2. ASSUME NEW n, NEW shown, doing' = [doing EXCEPT ![p].at = n, ![p].tables = shown]
        PROVE  RunsByRule(p)'
    <3>1. /\ doing'[p].stage = doing[p].stage /\ doing'[p].query = doing[p].query
          /\ doing'[p].bound = doing[p].bound /\ doing'[p].aliases = doing[p].aliases
          /\ doing'[p].statement = doing[p].statement /\ doing'[p].answer = doing[p].answer
      BY <1>1, <2>2, FreshFields
    <3>2. BoundByLine(p) => BoundByLine(p)'
      BY <1>3, <3>1 DEF BoundByLine
    <3> QED BY <1>1, <1>3, <3>1, <3>2 DEF RunsByRule, Stage
  <2> QED BY <1>5, <2>1, <2>2
<1>12. CASE Registered(p)
  <2>1. /\ doing'[p].stage = "execute" /\ doing'[p].query = doing[p].query
        /\ doing'[p].bound = doing[p].bound /\ doing'[p].aliases = doing[p].aliases
        /\ doing'[p].statement = doing[p].statement /\ doing'[p].answer = doing[p].answer
    BY <1>1, <1>3, <1>12, FreshFields DEF Registered
  <2>2. Stage(p) = "register"
    BY <1>12 DEF Registered
  <2>3. BoundByLine(p) => BoundByLine(p)'
    BY <1>3, <2>1 DEF BoundByLine
  <2> QED BY <1>1, <1>3, <2>1, <2>2, <2>3 DEF RunsByRule, Stage
<1>13. CASE Execute(p)
  BY <1>5, <1>13 DEF Execute
<1> QED BY <1>1, <1>7, <1>8, <1>9, <1>10, <1>11, <1>12, <1>13, RunSteps

LEMMA InitCommand == CliInit => CommandInv
<1> SUFFICES ASSUME CliInit PROVE AliasesShaped /\ \A p \in Process : RunsByRule(p)
  BY InitAlias DEF CommandInv
<1>1. \A p \in Process : /\ doing[p].stage = "start" /\ doing[p].answer = Nothing
                         /\ DOMAIN doing[p].aliases = {}
  <2>1. Fresh.stage = "start" /\ Fresh.answer = Nothing /\ DOMAIN Fresh.aliases = {}
    BY DEF Fresh
  <2> QED BY <2>1 DEF CliInit
<1>2. AliasesShaped
  BY <1>1, WordsAssumption DEF CliInit, AliasesShaped
<1>3. ASSUME NEW p \in Process PROVE RunsByRule(p)
  BY <1>1, WordsAssumption DEF RunsByRule, Stage
<1> QED BY <1>2, <1>3

LEMMA NextCommand == StatementInv /\ CommandInv /\ [CliNext]_<<vars, cliVars>> => CommandInv'
<1> SUFFICES ASSUME StatementInv, CommandInv, [CliNext]_<<vars, cliVars>> PROVE CommandInv'
  OBVIOUS
<1>1. AliasInv' /\ config' = config
  BY StepAlias, NextLoaded, CliSteps DEF CommandInv
<1>2. ASSUME NEW p \in Process, session' = session, doing'[p] = doing[p], Runs(p)'
      PROVE  RunsByRule(p)'
  <2>1. Runs(p) /\ Command(p)' = Command(p) /\ Stage(p)' = Stage(p)
        /\ \A query : FromFile(query) => FromFile(query)'
    BY <1>1, <1>2 DEF Runs, Command, Stage, FromFile
  <2>2. RunsByRule(p)
    BY <2>1 DEF CommandInv
  <2>3. BoundByLine(p) => BoundByLine(p)'
    BY <1>2, <2>1 DEF BoundByLine
  <2> QED BY <1>2, <2>1, <2>2, <2>3 DEF RunsByRule
<1>3. CASE UNCHANGED cliVars
  <2>1. session' = session /\ doing' = doing /\ files' = files
    BY <1>3 DEF cliVars
  <2>2. AliasesShaped'
    BY <2>1 DEF CommandInv, AliasesShaped
  <2> QED BY <1>1, <1>2, <2>1, <2>2 DEF CommandInv
<1>4. ASSUME NEW p \in Process, Client(p), Command(p) # Nothing PROVE CommandInv'
  <2>1. session' = session /\ \A q \in Process \ {p} : doing'[q] = doing[q]
    BY <1>4, OnlyOwn DEF CommandInv
  <2>2. Runs(p)' => RunsByRule(p)'
    BY <1>1, <1>4, <2>1, RunKeeps DEF Runs, Command
  <2>3. AliasesShaped'
    BY <1>4, ClientShapes DEF CommandInv
  <2> QED BY <1>1, <1>2, <2>1, <2>2, <2>3 DEF CommandInv
<1> QED BY <1>3, <1>4 DEF CliNext, cliVars

LEMMA CommandOfTemplate ==
    ASSUME StatementInv, CommandInv, NEW p \in Process, Runs(p)
    PROVE  LET query == doing[p].query
               bound == doing[p].bound
               args  == Command(p).args
               alias == doing[p].aliases[Command(p).name]
           IN  /\ Stage(p) \in {"register", "execute"} =>
                     /\ doing[p].statement = AtOnce(query, Literals(bound))
                     /\ Plain(query, Literals(bound)) => \A order \in Orders(query) :
                           Substituted(Template(query), order, Literals(bound)) = doing[p].statement
                     /\ Command(p).verb = "call" /\ Direct(alias, args) =>
                           \A n \in Params(query) : bound[n] = Ought(alias, args, n)
               /\ Command(p).verb = "call" /\ doing[p].answer = "missing" =>
                     \E n \in Params(query) \ {FlagArgs(args)[i].flag : i \in DOMAIN FlagArgs(args)} :
                           \/ Notes(alias, Params(query))[n] = "flag"
                           \/ Notes(alias, Params(query))[n] = "positional" /\ Slots(alias, args, n) = {}
<1> DEFINE query == doing[p].query
           bound == doing[p].bound
           args  == Command(p).args
           alias == doing[p].aliases[Command(p).name]
<1>1. RunsByRule(p) /\ Command(p).verb \in {"run", "call"}
  BY DEF CommandInv, Runs
<1>2. ArgsAreList(args)
  BY CommandsAre DEF CommandInv, Runs
<1>3. ASSUME BoundByLine(p), Command(p).verb = "call"
      PROVE  Taken(alias, args) /\ bound = Bound(alias, args)
  BY <1>2, <1>3 DEF BoundByLine, Taken, CommandInv, AliasesShaped
<1>4. ASSUME BoundByLine(p)
      PROVE  DOMAIN bound \subseteq Param /\ \A n \in DOMAIN bound : IsText(bound[n].text)
  <2>1. CASE Command(p).verb = "call"
    <3>1. Taken(alias, args) /\ bound = Bound(alias, args)
      BY <1>3, <1>4, <2>1
    <3> HIDE DEF bound, alias, args
    <3> QED BY <3>1, BoundNames
  <2>2. CASE Command(p).verb = "run"
    <3>1. bound = FlagValues(args)
      BY <1>4, <2>2 DEF BoundByLine
    <3> HIDE DEF bound, args
    <3>2. DOMAIN bound \subseteq Param /\ \A n \in DOMAIN bound : bound[n] = Typed(LastFlag(args, n))
      BY <1>2, <3>1, FlagNames, FlagsAre
    <3>3. ASSUME NEW a PROVE IsText(Typed(a).text)
      <4>1. Typed(a).text = <<a.word>> \/ Typed(a).text = <<>>
        BY DEF Typed, Parsed, Bad
      <4> QED BY <4>1, OneText
    <3> QED BY <3>2, <3>3
  <2> QED BY <1>1, <2>1, <2>2
<1>5. ASSUME FromFile(query) PROVE Wellformed(query)
  <2>1. PICK i \in DOMAIN config.files : query = config.files[i].query
    BY <1>5 DEF FromFile
  <2>2. config \in Configs
    BY DEF StatementInv, IInv, Placed
  <2> HIDE DEF query
  <2> QED BY <2>1, <2>2, QueryOfFile DEF Wellformed
<1>6. ASSUME Stage(p) \in {"register", "execute"}
      PROVE  /\ BoundByLine(p) /\ Wellformed(query) /\ Complete(query, bound)
             /\ doing[p].statement = Rendered(query, bound)
  <2>1. /\ BoundByLine(p) /\ FromFile(query) /\ Params(query) \subseteq DOMAIN bound
        /\ doing[p].statement = Rendered(query, bound)
    BY <1>1, <1>6 DEF RunsByRule
  <2> QED BY <1>4, <1>5, <2>1 DEF Complete
<1>7. ASSUME Command(p).verb = "call", doing[p].answer = "missing"
      PROVE  /\ Taken(alias, args) /\ bound = Bound(alias, args) /\ Wellformed(query)
             /\ ~(Params(query) \subseteq DOMAIN bound)
  BY <1>1, <1>3, <1>5, <1>7 DEF RunsByRule
<1> HIDE DEF query, bound, args, alias
<1>8. ASSUME Stage(p) \in {"register", "execute"} PROVE doing[p].statement = AtOnce(query, Literals(bound))
  BY <1>6, <1>8, RenderedIs
<1>9. ASSUME Stage(p) \in {"register", "execute"}, Plain(query, Literals(bound)), NEW order \in Orders(query)
      PROVE  Substituted(Template(query), order, Literals(bound)) = doing[p].statement
  <2>1. /\ Wellformed(query) /\ Complete(query, bound)
        /\ \A n \in DOMAIN bound : IsText(bound[n].text)
    BY <1>4, <1>6, <1>9
  <2>2. Substituted(Template(query), order, Literals(bound)) = AtOnce(query, Literals(bound))
    BY <1>9, <2>1, RenderedAlike
  <2> QED BY <1>8, <1>9, <2>2
<1>10. ASSUME Stage(p) \in {"register", "execute"}, Command(p).verb = "call", Direct(alias, args),
              NEW n \in Params(query)
       PROVE  bound[n] = Ought(alias, args, n)
  <2>1. Taken(alias, args) /\ bound = Bound(alias, args) /\ n \in DOMAIN bound
    BY <1>3, <1>6, <1>10 DEF Complete
  <2> QED BY <1>10, <2>1, BoundIs
<1>11. ASSUME Command(p).verb = "call", doing[p].answer = "missing"
       PROVE  \E n \in Params(query) \ {FlagArgs(args)[i].flag : i \in DOMAIN FlagArgs(args)} :
                 \/ Notes(alias, Params(query))[n] = "flag"
                 \/ Notes(alias, Params(query))[n] = "positional" /\ Slots(alias, args, n) = {}
  <2>1. PICK n \in Params(query) : n \notin DOMAIN bound
    BY <1>7, <1>11
  <2>2. n \in Param /\ Taken(alias, args) /\ bound = Bound(alias, args)
    BY <1>7, <1>11 DEF Wellformed
  <2>3. ~Flagged(args, n) /\ Slots(alias, args, n) = {} /\ n \notin DOMAIN alias.defaults
    BY <2>1, <2>2, BoundNames
  <2>4. n \notin {FlagArgs(args)[i].flag : i \in DOMAIN FlagArgs(args)}
    BY <2>3 DEF Flagged
  <2>5. \/ Notes(alias, Params(query))[n] = "flag"
        \/ Notes(alias, Params(query))[n] = "positional" /\ Slots(alias, args, n) = {}
    <3>1. CASE n \in ToSet(alias.positional)
      BY <2>3, <3>1 DEF Notes
    <3>2. CASE n \notin ToSet(alias.positional)
      BY <2>3, <3>2 DEF Notes
    <3> QED BY <3>1, <3>2
  <2> QED BY <2>4, <2>5
<1>12. /\ Stage(p) \in {"register", "execute"} =>
            /\ doing[p].statement = AtOnce(query, Literals(bound))
            /\ Plain(query, Literals(bound)) => \A order \in Orders(query) :
                  Substituted(Template(query), order, Literals(bound)) = doing[p].statement
            /\ Command(p).verb = "call" /\ Direct(alias, args) =>
                  \A n \in Params(query) : bound[n] = Ought(alias, args, n)
       /\ Command(p).verb = "call" /\ doing[p].answer = "missing" =>
            \E n \in Params(query) \ {FlagArgs(args)[i].flag : i \in DOMAIN FlagArgs(args)} :
                  \/ Notes(alias, Params(query))[n] = "flag"
                  \/ Notes(alias, Params(query))[n] = "positional" /\ Slots(alias, args, n) = {}
  BY <1>8, <1>9, <1>10, <1>11
<1> QED BY <1>12, Zenon DEF query, bound, args, alias

\* Whatever the values, the names and the order in which they are replaced: what the server or
\* the client runs is the template with its values in their places, the client's values are those
\* of the command line, then of the alias, and a command is refused only for want of a value
\* that its help asks for.
THEOREM StatementsTemplates == CliSpec => []StatementsAreTemplates
<1>1. CliSpec => []StatementInv
  BY CliBegan, CliSteps, InitStatement, NextStatement, PTL DEF CliSpec
<1>2. CliSpec => []CommandInv
  BY <1>1, InitCommand, NextCommand, PTL DEF CliSpec
<1>3. StatementInv /\ CommandInv => StatementsAreTemplates
  <2> SUFFICES ASSUME StatementInv, CommandInv PROVE StatementsAreTemplates
    OBVIOUS
  <2>1. StatementIsTemplate
    BY StatementOfTemplate
  <2>2. CommandRunsTemplate
    BY CommandOfTemplate, Zenon DEF CommandRunsTemplate, Runs
  <2> QED BY <2>1, <2>2 DEF StatementsAreTemplates
<1> QED BY <1>1, <1>2, <1>3, PTL

\* The server's part of it, without any client.
THEOREM ServerTemplates == Spec => []StatementIsTemplate
BY InitBegan, InitStatement, NextStatement, StatementOfTemplate, PTL DEF Spec
=============================================================================
