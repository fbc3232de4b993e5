----------------------------- MODULE Documents -----------------------------
(***************************************************************************)
(* A documents source: a directory of files that a query reads and parses  *)
(* as it runs, a row per page, with images written to a store beside it.   *)
(* Queries run at the same time, and people change the files.  The parser  *)
(* is a library: it may fail on any file.                                  *)
(***************************************************************************)
EXTENDS Integers, Sequences, FiniteSets

CONSTANTS File,     \* paths
          Root, Sub, \* the directory of the source and one in it
          DirOf,    \* path to directory
          Rank,     \* path to its place in the order of paths
          Stem,     \* path to the path with every / turned into _
          Pages,    \* path to the kinds of lines of each of its pages
          Scanned,  \* files with a page that has no text of its own
          Scans,    \* queries
          Option,   \* settings: recursive, globs, crops, render, store, ocr, server
          Limit,    \* limits of the queries
          MaxEdits, \* changes to the files
          None, Torn \* no image; one whose writing failed half way

\* A path has one place in the order; every page has a kind for each line; what is no image, or
\* half of one, shows no page.
ASSUME DocumentsAssumption ==
    /\ DirOf \in [File -> {Root, Sub}]
    /\ Rank \in [File -> Nat] /\ \A f, g \in File : Rank[f] = Rank[g] => f = g
    /\ \A f \in File : Pages[f] \in Seq(Seq({"row", "rule", "text"})) /\ Pages[f] # <<>>
    /\ Option \subseteq [recursive : BOOLEAN, globs : SUBSET File, crops : BOOLEAN, render : BOOLEAN,
                         store : {"local", "remote", "none"}, ocr : {"on", "auto", "off"},
                         server : BOOLEAN]
    /\ Limit \subseteq Nat
    /\ None # Torn
    /\ {None, Torn} \cap [file : File, page : Nat, version : Nat] = {}

VARIABLES
    options,    \* settings of the source
    registered, \* "no", "yes" or "refused"
    disk,       \* path to the version of its file, 0 if there is none
    unreadable, \* directories that cannot be read
    edits,      \* changes so far
    store,      \* images: name to the page it shows
    scan        \* query to what it has done

documentVars == <<options, registered, disk, unreadable, edits, store, scan>>

Idle == [at |-> "idle", limit |-> 0, dirs |-> {}, todo |-> {}, skipped |-> {}, ocr |-> FALSE,
         text |-> 0, shots |-> 0, page |-> 0, refs |-> {}, lost |-> {}, rows |-> <<>>]

ImageName(f, kind, page) == <<Stem[f], kind, page>>
Names == UNION {{ImageName(f, kind, page) : kind \in {"page", "crop"}, page \in DOMAIN Pages[f]} :
                   f \in File}

Set1(s, r) == scan' = [scan EXCEPT ![s] = r]

\* The file a query is at: they are parsed in the order of their paths.
Now(s) == CHOOSE f \in scan[s].todo : \A g \in scan[s].todo : Rank[f] <= Rank[g]

-----------------------------------------------------------------------------
(* Tables of a page: lines are a "row", a "rule" (which looks like a row) or *)
(* "text".                                                                  *)

IsRow(lines, i)  == lines[i] # "text"
IsRule(lines, i) == lines[i] = "rule"

BlockEnd(lines, i) ==
    CHOOSE j \in i..Len(lines) :
       /\ \A k \in i..j : IsRow(lines, k)
       /\ j < Len(lines) => ~IsRow(lines, j + 1)

TablesFromMarkdown(lines) ==
    LET from[i \in 1..(Len(lines) + 1)] ==
            IF i >= Len(lines) THEN {}
            ELSE IF IsRow(lines, i) /\ IsRule(lines, i + 1)
                 THEN {[first |-> i, last |-> BlockEnd(lines, i)]} \cup from[BlockEnd(lines, i) + 1]
                 ELSE from[i + 1]
    IN  from[1]

-----------------------------------------------------------------------------
(* Registration and the files.                                              *)

DocumentsInit ==
    /\ options \in Option /\ registered = "no"
    /\ disk = [f \in File |-> 1] /\ unreadable = {} /\ edits = 0
    /\ store = [n \in Names |-> None] /\ scan = [s \in Scans |-> Idle]

\* preflight: without an OCR server ocr=on is refused, and ocr=auto goes without.
Register ==
    /\ registered = "no"
    /\ registered' = IF options.ocr = "on" /\ ~options.server THEN "refused" ELSE "yes"
    /\ UNCHANGED <<options, disk, unreadable, edits, store, scan>>

\* A person replaces, adds or removes a file, or makes a directory readable or not.
Change ==
    /\ edits < MaxEdits /\ edits' = edits + 1
    /\ \/ /\ \E f \in File : disk' = [disk EXCEPT ![f] = IF @ = 0 THEN edits + 2 ELSE 0]
          /\ UNCHANGED unreadable
       \/ /\ \E f \in File : disk[f] # 0 /\ disk' = [disk EXCEPT ![f] = edits + 2]
          /\ UNCHANGED unreadable
       \/ /\ \E d \in {Root, Sub} : unreadable' = (unreadable \ {d}) \cup ({d} \ unreadable)
          /\ UNCHANGED disk
    /\ UNCHANGED <<options, registered, store, scan>>

-----------------------------------------------------------------------------
(* A query.                                                                 *)

\* A root that cannot be read is an error, of which the query is told.
Start(s) ==
    /\ registered = "yes" /\ scan[s].at = "idle"
    /\ \E limit \in Limit :
          Set1(s, IF Root \in unreadable THEN [Idle EXCEPT !.at = "error"]
                  ELSE [Idle EXCEPT !.at = "walk", !.limit = limit, !.dirs = {Root}])
    /\ UNCHANGED <<options, registered, disk, unreadable, edits, store>>

\* collect_files, a directory at a time: one that cannot be read is left out.
Walk(s) ==
    /\ scan[s].at = "walk" /\ scan[s].dirs # {}
    /\ \E d \in scan[s].dirs :
          LET files == {f \in File : disk[f] # 0 /\ DirOf[f] = d /\ f \in options.globs}
              below == IF d = Root /\ options.recursive THEN {Sub} ELSE {}
          IN  Set1(s, IF d \in unreadable THEN [scan[s] EXCEPT !.dirs = @ \ {d}]
                      ELSE [scan[s] EXCEPT !.dirs = (@ \ {d}) \cup below, !.todo = @ \cup files])
    /\ UNCHANGED <<options, registered, disk, unreadable, edits, store>>

\* The limit is applied to the rows of all files.
Walked(s) ==
    /\ \/ scan[s].at = "walk" /\ scan[s].dirs = {}
       \/ scan[s].at = "next"
    /\ Set1(s, IF scan[s].todo = {}
               THEN [scan[s] EXCEPT !.at = "ended",
                                    !.rows = SubSeq(@, 1, IF scan[s].limit < Len(@) THEN scan[s].limit
                                                          ELSE Len(@))]
               ELSE [scan[s] EXCEPT !.at = "probe"])
    /\ UNCHANGED <<options, registered, disk, unreadable, edits, store>>

\* OCR of a file: always, or if a page of it needs it and it can be read.
Probe(s) ==
    /\ scan[s].at = "probe"
    /\ \E ok \in BOOLEAN :
          LET seen == ok /\ disk[Now(s)] # 0
          IN  Set1(s, [scan[s] EXCEPT
                 !.at = "parse",
                 !.ocr = options.server /\ \/ options.ocr = "on"
                                           \/ options.ocr = "auto" /\ seen /\ Now(s) \in Scanned])
    /\ UNCHANGED <<options, registered, disk, unreadable, edits, store>>

\* A file that cannot be parsed is left out, and the log says so.
Skip(s) ==
    /\ scan[s].at = "parse"
    /\ Set1(s, [scan[s] EXCEPT !.at = "next", !.todo = @ \ {Now(s)}, !.skipped = @ \cup {Now(s)}])
    /\ UNCHANGED <<options, registered, disk, unreadable, edits, store>>

Parse(s) ==
    /\ scan[s].at = "parse" /\ disk[Now(s)] # 0
    /\ Set1(s, [scan[s] EXCEPT !.at = IF options.render THEN "render" ELSE "rows",
                               !.text = disk[Now(s)], !.page = 1, !.refs = {}])
    /\ UNCHANGED <<options, registered, disk, unreadable, edits, store>>

\* The pages are rendered from the file as it is now; without them there are no references.
Render(s) ==
    /\ scan[s].at = "render"
    /\ \/ Set1(s, [scan[s] EXCEPT !.at = "rows"])
       \/ disk[Now(s)] # 0 /\ Set1(s, [scan[s] EXCEPT !.at = "shots", !.shots = disk[Now(s)]])
    /\ UNCHANGED <<options, registered, disk, unreadable, edits, store>>

Shows(s, version) == [file |-> Now(s), page |-> scan[s].page, version |-> version]

\* Mutant: the reference stays when the image cannot be written.
WriteImageRegardless(s, kind, version) ==
    LET name == ImageName(Now(s), kind, scan[s].page)
    IN  {[ref |-> {name}, lost |-> {}, store |-> store]} \cup
        (IF options.store = "local"
         THEN {[ref |-> {name}, lost |-> {}, store |-> [store EXCEPT ![name] = Shows(s, version)]]}
         ELSE {})

\* What writing an image leads to.  A store elsewhere is not written; a local one may refuse, and
\* may have emptied the file by then.
WriteImage(s, kind, version) ==
    LET name == ImageName(Now(s), kind, scan[s].page)
        fails(left) == [ref |-> {}, lost |-> {name}, store |-> left]
    IN  IF options.store # "local" THEN {[ref |-> {name}, lost |-> {}, store |-> store]}
        ELSE {[ref |-> {name}, lost |-> {}, store |-> [store EXCEPT ![name] = Shows(s, version)]],
              fails(store), fails([store EXCEPT ![name] = Torn])}

WritePage(s) ==
    /\ scan[s].at = "shots"
    /\ \E w \in WriteImage(s, "page", scan[s].shots) :
          LET last == scan[s].page = Len(Pages[Now(s)])
          IN  /\ Set1(s, [scan[s] EXCEPT !.refs = @ \cup w.ref, !.lost = @ \cup w.lost,
                                         !.page = IF last THEN 1 ELSE @ + 1,
                                         !.at = IF last THEN "rows" ELSE "shots"])
              /\ store' = w.store
    /\ UNCHANGED <<options, registered, disk, unreadable, edits>>

\* The row of a page; its crops come from what was parsed.
Row1(s, crop) ==
    LET f == Now(s)  page == scan[s].page
    IN  [path |-> f, page |-> page, version |-> scan[s].text, ocr |-> scan[s].ocr,
         tables |-> TablesFromMarkdown(Pages[f][page]),
         refs |-> crop \cup (scan[s].refs \cap {ImageName(f, "page", page)})]

PageRow(s) ==
    /\ scan[s].at = "rows"
    /\ \E w \in IF options.crops THEN WriteImage(s, "crop", scan[s].text)
                ELSE {[ref |-> {}, lost |-> {}, store |-> store]} :
          LET last == scan[s].page = Len(Pages[Now(s)])
          IN  /\ Set1(s, [scan[s] EXCEPT !.rows = Append(@, Row1(s, w.ref)),
                                         !.lost = @ \cup w.lost,
                                         !.page = @ + 1,
                                         !.todo = IF last THEN @ \ {Now(s)} ELSE @,
                                         !.at = IF last THEN "next" ELSE "rows"])
              /\ store' = w.store
    /\ UNCHANGED <<options, registered, disk, unreadable, edits>>

ScanStep(s) ==
    \/ Start(s) \/ Walk(s) \/ Walked(s) \/ Probe(s) \/ Skip(s) \/ Parse(s)
    \/ Render(s) \/ WritePage(s) \/ PageRow(s)

DocumentsNext == Register \/ Change \/ \E s \in Scans : ScanStep(s)

DocumentsSpec == DocumentsInit /\ [][DocumentsNext]_documentVars

-----------------------------------------------------------------------------
(* Properties.                                                              *)

Alone(f) == \A g \in File : Stem[g] = Stem[f] => g = f
Reached(f) == disk[f] # 0 /\ f \in options.globs /\ (options.recursive \/ DirOf[f] = Root)

\* Rows come in the order of paths and pages, all pages of a file or none of them; if no file was
\* changed, a file that could be reached has its rows unless the log says why.
RowsOfFiles(s) ==
    LET rows == scan[s].rows
    IN  /\ \A i \in 1..(Len(rows) - 1) :
              \/ Rank[rows[i].path] < Rank[rows[i + 1].path]
                    /\ rows[i].page = Len(Pages[rows[i].path]) /\ rows[i + 1].page = 1
              \/ rows[i].path = rows[i + 1].path /\ rows[i + 1].page = rows[i].page + 1
        /\ edits = 0 /\ Len(rows) < scan[s].limit =>
              \A f \in File : Reached(f) => f \in scan[s].skipped \cup {rows[i].path : i \in DOMAIN rows}

\* A reference to a local store names an image that is there, of the same page of the row's file,
\* in the version the row was parsed from if nobody has changed the file.  Only files whose paths
\* differ in nothing but / and _ write over each other's images, and only a query that fails to
\* write the same image again damages one.
RefsShowTheirPage(s, r) ==
    \A name \in r.refs :
       LET image == store[name]
           again == \E t \in Scans \ {s} : name \in scan[t].lost
       IN  options.store = "local" =>
              /\ image # None
              /\ image = Torn => again \/ ~Alone(r.path)
              /\ image # Torn =>
                    /\ image.page = r.page
                    /\ Alone(r.path) => image.file = r.path
                    /\ Alone(r.path) /\ r.version = 1 /\ disk[r.path] = 1 => image.version = 1

\* Tables do not overlap, end only where the lines do not look like rows, and leave no row that is
\* followed by a rule outside.
TablesAreBlocks(r) ==
    LET lines == Pages[r.path][r.page]
    IN  /\ \A t \in r.tables :
              /\ IsRule(lines, t.first + 1) /\ \A k \in t.first..t.last : IsRow(lines, k)
              /\ t.last < Len(lines) => ~IsRow(lines, t.last + 1)
              /\ \A u \in r.tables : t.first < u.first => t.last < u.first
        /\ \A i \in 1..(Len(lines) - 1) :
              IsRow(lines, i) /\ IsRule(lines, i + 1) => \E t \in r.tables : i \in t.first..t.last

\* Where ocr=on, every page was parsed with OCR.
OcrAsAsked(r) == options.ocr = "on" => r.ocr

\* What a query over documents shows, however many run at once.
DocumentsAsTheyAre ==
    \A s \in Scans : scan[s].at = "ended" =>
        /\ RowsOfFiles(s)
        /\ \A i \in DOMAIN scan[s].rows :
              LET r == scan[s].rows[i]
              IN  RefsShowTheirPage(s, r) /\ TablesAreBlocks(r) /\ OcrAsAsked(r)
=============================================================================
