--------------------------- MODULE ModelFunctions ---------------------------
(***************************************************************************)
(* The model functions of a query (crates/skardi/src/model): gguf, candle  *)
(* and onnx_predict, which run a model of this process that is loaded on   *)
(* the first call and shared through a registry, and remote_embed and      *)
(* llm_extract, which ask an HTTP API.  DataFusion evaluates a function on *)
(* one record batch at a time, and on several batches concurrently, each   *)
(* on a thread of its own.                                                 *)
(***************************************************************************)
EXTENDS Integers, FiniteSets, SequencesExt

CONSTANTS Eval,       \* evaluations: one call of the function on one batch
          Path,       \* models on disk
          Text,       \* texts in a batch
          Empty,      \* the empty text
          Null,       \* no text, or no cap on the escalations
          Free,       \* nobody holds the write lock of the registry
          Registry,   \* functions and how the environment sets them up
          Workload,   \* batches evaluated together
          ChunkLimit, \* batch_limit of the embedding provider
          Answers     \* what a completion finds

\* What the array of entities may hold: objects sure of themselves, unsure or lacking a field,
\* objects that call themselves an error, and bare values, which are no objects at all.
Sort == {"strong", "weak", "error", "bare"}

ASSUME ModelAssumption ==
    /\ Null \notin Text \cup Nat /\ Empty \notin Text \cup {Null} /\ Free \notin Eval
    /\ ChunkLimit \in Nat \ {0}
    /\ Answers \subseteq Seq(Sort)

Local   == {"gguf", "candle", "onnx"}
Image   == {"none", "inline", "elsewhere"}
Row     == [text : Text \cup {Empty, Null}, image : Image]
Batch   == [rows : Seq(Row), model : Path]
\* api: "plain" for Anthropic and the embedding APIs, "compat" for the OpenAI-compatible ones.
\* required: the schema given to llm_extract requires fields.
Setting == [function : Local \cup {"remote_embed", "llm_extract"}, api : {"plain", "compat"},
            cap : Nat \cup {Null}, vision : BOOLEAN, fetch : BOOLEAN, required : BOOLEAN]

\* Only llm_extract looks at images.
ASSUME RegistryAssumption ==
    /\ Registry \subseteq Setting /\ Workload \subseteq [Eval -> Batch]
    /\ \A r \in Registry : r.vision => r.function = "llm_extract"

VARIABLES
    registry, \* which function is called, and its settings
    batch,    \* input of each evaluation
    cache,    \* models: the instance cached for a path, 0 if none
    loaded,   \* instances loaded so far
    writer,   \* who holds the registry's lock to write
    poisoned, \* sessions whose lock a panic has poisoned
    pc,       \* where each evaluation has got to
    mine,     \* the instance it uses
    call,     \* its HTTP call: which body, which try, with an image?
    done,     \* texts embedded or rows extracted
    found,    \* embeddings so far, or entities of the row at hand
    result,   \* its answer so far
    budget,   \* escalations it may still make, Null if unlimited
    grown,    \* history: rows it escalated
    unseen,   \* history: rows whose image it could not fetch
    mixed     \* history: its requests answered out of order, by the texts embedded before each

shared == <<cache, loaded, writer, poisoned>>
work   == <<mine, call, done, found, result, budget, grown, unseen, mixed>>
vars   == <<registry, batch, shared, pc, work>>

Ended   == {"ok", "error"}
Rows(e) == batch[e].rows
Model(e) == batch[e].model
Calls(e, f) == registry.function = f /\ pc[e] \notin Ended \cup {"idle"}
Goto(e, label) == pc' = [pc EXCEPT ![e] = label]
Set(f, e, x)   == [f EXCEPT ![e] = x]

FirstCall(image) ==
    [body |-> IF registry.api = "compat" THEN "format" ELSE "plain", try |-> 1, image |-> image]

Init ==
    /\ registry \in Registry /\ batch \in Workload
    /\ cache = [p \in Path |-> 0] /\ loaded = [p \in Path |-> 0]
    /\ writer = Free /\ poisoned = {}
    /\ pc = [e \in Eval |-> "idle"] /\ mine = [e \in Eval |-> 0]
    /\ call = [e \in Eval |-> FirstCall(FALSE)]
    /\ done = [e \in Eval |-> 0] /\ found = [e \in Eval |-> <<>>]
    /\ result = [e \in Eval |-> <<>>]
    /\ budget = [e \in Eval |-> registry.cap]
    /\ grown = [e \in Eval |-> {}] /\ unseen = [e \in Eval |-> {}] /\ mixed = [e \in Eval |-> {}]

-----------------------------------------------------------------------------
(* The local functions.                                                     *)

\* get_or_load, under the read lock: a load under way at gguf keeps everyone waiting.
Look(e) ==
    /\ pc[e] = "looking" /\ writer = Free
    /\ IF cache[Model(e)] # 0
       THEN Goto(e, "running") /\ mine' = Set(mine, e, cache[Model(e)])
       ELSE Goto(e, IF registry.function = "gguf" THEN "locking" ELSE "loading") /\ UNCHANGED mine
    /\ UNCHANGED <<registry, batch, shared, call, done, found, result, budget, grown, unseen, mixed>>

\* Mutant: the cache is not looked at again.
GgufLockBlindly(e) ==
    /\ pc[e] = "locking" /\ writer = Free
    /\ Goto(e, "loading") /\ writer' = e
    /\ UNCHANGED mine
    /\ UNCHANGED <<registry, batch, cache, loaded, poisoned, call, done, found, result, budget,
                   grown, unseen, mixed>>

\* The write lock, and a second look in case another thread was faster.
GgufLock(e) ==
    /\ pc[e] = "locking" /\ writer = Free
    /\ IF cache[Model(e)] # 0
       THEN Goto(e, "running") /\ mine' = Set(mine, e, cache[Model(e)]) /\ UNCHANGED writer
       ELSE Goto(e, "loading") /\ writer' = e /\ UNCHANGED mine
    /\ UNCHANGED <<registry, batch, cache, loaded, poisoned, call, done, found, result, budget,
                   grown, unseen, mixed>>

\* from_dir with the lock held; a poisoned lock is taken over by into_inner.
GgufLoad(e) ==
    /\ Calls(e, "gguf") /\ pc[e] = "loading"
    /\ \/ /\ loaded' = [loaded EXCEPT ![Model(e)] = @ + 1]
          /\ cache' = Set(cache, Model(e), loaded'[Model(e)])
          /\ mine' = Set(mine, e, loaded'[Model(e)])
          /\ Goto(e, "running")
       \/ Goto(e, "error") /\ UNCHANGED <<cache, loaded, mine>>
    /\ writer' = Free
    /\ UNCHANGED <<registry, batch, poisoned, call, done, found, result, budget, grown, unseen, mixed>>

\* candle and onnx load without a lock, so two evaluations may load the same model.
Load(e) ==
    /\ Calls(e, "candle") \/ Calls(e, "onnx")
    /\ pc[e] = "loading"
    /\ \/ /\ loaded' = [loaded EXCEPT ![Model(e)] = @ + 1]
          /\ mine' = Set(mine, e, loaded'[Model(e)])
          /\ Goto(e, "caching")
       \/ Goto(e, "error") /\ UNCHANGED <<loaded, mine>>
    /\ UNCHANGED <<registry, batch, cache, writer, poisoned, call, done, found, result, budget,
                   grown, unseen, mixed>>

\* The last one to insert replaces the instance of the others; each goes on with its own.
Insert(e) ==
    /\ pc[e] = "caching" /\ writer = Free
    /\ cache' = Set(cache, Model(e), mine[e])
    /\ Goto(e, "running")
    /\ UNCHANGED <<registry, batch, loaded, writer, poisoned, work>>

WithText(rows)  == {i \in DOMAIN rows : rows[i].text # Null}
Before(rows, i) == Cardinality(WithText(rows) \cap 1..i)

\* The texts in the order of their rows: the k-th is of the row that closes the first k of them.
Texts(rows) == [k \in 1..Before(rows, Len(rows)) |->
                  rows[CHOOSE i \in WithText(rows) : Before(rows, i) = k].text]

\* Mutant: the i-th embedding goes to the i-th row.
ReassembledByRow(rows, vectors) ==
    [i \in DOMAIN rows |-> IF rows[i].text = Null \/ i > Len(vectors) THEN Null ELSE vectors[i]]

\* Embeddings of the texts go back to the rows that have one.  A vector is known by its text.
Reassembled(rows, vectors) ==
    [i \in DOMAIN rows |-> IF rows[i].text = Null THEN Null ELSE vectors[Before(rows, i)]]

GgufRun(e) ==
    /\ Calls(e, "gguf") /\ pc[e] = "running"
    /\ \/ result' = Set(result, e, Reassembled(Rows(e), Texts(Rows(e)))) /\ Goto(e, "ok")
       \/ Goto(e, "error") /\ UNCHANGED result
    /\ UNCHANGED <<registry, batch, shared, mine, call, done, found, budget, grown, unseen, mixed>>

\* A row without text is embedded as the empty text.
Filled(rows) == [i \in DOMAIN rows |-> IF rows[i].text = Null THEN Empty ELSE rows[i].text]

CandleRun(e) ==
    /\ Calls(e, "candle") /\ pc[e] = "running"
    /\ \/ result' = Set(result, e, Filled(Rows(e))) /\ Goto(e, "ok")
       \/ Goto(e, "error") /\ UNCHANGED result
    /\ UNCHANGED <<registry, batch, shared, mine, call, done, found, budget, grown, unseen, mixed>>

Session(e) == <<Model(e), mine[e]>>

\* predict takes the session's lock: a run that panics poisons it, and unlike the registry's
\* lock it is not taken over, so that every later prediction of this instance fails.
OnnxRun(e) ==
    /\ Calls(e, "onnx") /\ pc[e] = "running"
    /\ \/ /\ Session(e) \notin poisoned
          /\ result' = Set(result, e, Filled(Rows(e))) /\ Goto(e, "ok")
          /\ UNCHANGED poisoned
       \/ poisoned' \in {poisoned, poisoned \cup {Session(e)}} /\ Goto(e, "error")
          /\ UNCHANGED result
    /\ UNCHANGED <<registry, batch, cache, loaded, writer, mine, call, done, found, budget, grown,
                   unseen, mixed>>

LocalStep(e) ==
    \/ Look(e) \/ GgufLock(e) \/ GgufLoad(e) \/ Load(e) \/ Insert(e)
    \/ GgufRun(e) \/ CandleRun(e) \/ OnnxRun(e)

-----------------------------------------------------------------------------
(* HTTP calls.                                                              *)

\* Arguments are checked and the batch is taken apart: without any text, remote_embed
\* needs no call.
Begin(e) ==
    /\ pc[e] = "idle"
    /\ \/ /\ registry.function = "remote_embed" /\ Texts(Rows(e)) = <<>>
          /\ result' = Set(result, e, Reassembled(Rows(e), <<>>)) /\ Goto(e, "ok")
       \/ /\ registry.function = "remote_embed" /\ Texts(Rows(e)) # <<>>
          /\ Goto(e, "sending") /\ UNCHANGED result
       \/ registry.function = "llm_extract" /\ Goto(e, "row") /\ UNCHANGED result
       \/ registry.function \in Local /\ Goto(e, "looking") /\ UNCHANGED result
       \/ Goto(e, "error") /\ UNCHANGED result
    /\ UNCHANGED <<registry, batch, shared, mine, call, done, found, budget, grown, unseen, mixed>>

\* Mutant: a call is tried again for as long as the server is busy.
RateLimitedForever(e) ==
    /\ pc[e] = "sending"
    /\ call' = [call EXCEPT ![e].try = IF @ = 1 THEN 2 ELSE 1]
    /\ UNCHANGED <<registry, batch, shared, pc, mine, done, found, result, budget, grown, unseen, mixed>>

\* Mutant: the tries are not counted.
RateLimitedOnAnyTry(e) ==
    /\ pc[e] = "sending" /\ call[e].try \in 1..2
    /\ call' = [call EXCEPT ![e].try = @ + 1]
    /\ UNCHANGED <<registry, batch, shared, pc, mine, done, found, result, budget, grown, unseen, mixed>>

\* 429 to the first try: sleep for Retry-After and send the same request once more.
RateLimited(e) ==
    /\ pc[e] = "sending" /\ call[e].try = 1
    /\ call' = [call EXCEPT ![e].try = 2]
    /\ UNCHANGED <<registry, batch, shared, pc, mine, done, found, result, budget, grown, unseen, mixed>>

\* Any other 4xx, or a second 429, is taken for a server that does not know response_format:
\* a forced tool call is tried instead, with a second try of its own.
FallBack(e) ==
    /\ pc[e] = "sending" /\ call[e].body = "format"
    /\ call' = [call EXCEPT ![e].body = "tool", ![e].try = 1]
    /\ UNCHANGED <<registry, batch, shared, pc, mine, done, found, result, budget, grown, unseen, mixed>>

\* status is "none" where the answer holds no _status.
Entity(e, sort) ==
    [row |-> done[e] + 1, sort |-> sort, status |-> IF sort = "error" THEN "error" ELSE "none"]

\* The row at hand has its entities; on to the next one.
RowDone(e, list) ==
    /\ result' = Set(result, e, Append(result[e], list))
    /\ done' = Set(done, e, done[e] + 1)
    /\ found' = Set(found, e, <<>>)
    /\ Goto(e, "row")

\* No connection, a deadline, an error status, or an answer that cannot be parsed: the whole
\* query fails in remote_embed, the row becomes an error entity in llm_extract.
CallFails(e) ==
    /\ pc[e] = "sending"
    /\ \/ registry.function = "remote_embed" /\ Goto(e, "error") /\ UNCHANGED <<result, done, found>>
       \/ registry.function = "llm_extract" /\ RowDone(e, <<Entity(e, "error")>>)
    /\ UNCHANGED <<registry, batch, shared, mine, call, budget, grown, unseen, mixed>>

-----------------------------------------------------------------------------
(* remote_embed.                                                            *)

Chunk(e) == SubSeq(Texts(Rows(e)), done[e] + 1,
                   IF done[e] + ChunkLimit > Len(Texts(Rows(e))) THEN Len(Texts(Rows(e)))
                   ELSE done[e] + ChunkLimit)

LengthRight(given, chunk) == Len(given) = Len(chunk)

\* The answer may have too few vectors or too many; those of a right number are taken in its
\* order, whatever it says of theirs (the index of an OpenAI answer is not read).
EmbedAnswer(e) ==
    /\ Calls(e, "remote_embed") /\ pc[e] = "sending"
    /\ \E given \in [DOMAIN Chunk(e) -> Range(Chunk(e))] \cup {Front(Chunk(e)), <<Empty>> \o Chunk(e)} :
          LET all == found[e] \o given
              last == done[e] + Len(Chunk(e)) = Len(Texts(Rows(e)))
          IN  \/ /\ LengthRight(given, Chunk(e))
                 /\ found' = Set(found, e, all)
                 /\ done' = Set(done, e, done[e] + Len(Chunk(e)))
                 /\ mixed' = Set(mixed, e, mixed[e] \cup {c \in {done[e]} : given # Chunk(e)})
                 /\ call' = Set(call, e, FirstCall(FALSE))
                 /\ IF last THEN result' = Set(result, e, Reassembled(Rows(e), all)) /\ Goto(e, "ok")
                            ELSE UNCHANGED <<result, pc>>
              \/ /\ ~LengthRight(given, Chunk(e))
                 /\ Goto(e, "error") /\ UNCHANGED <<found, done, mixed, call, result>>
    /\ UNCHANGED <<registry, batch, shared, mine, budget, grown, unseen>>

-----------------------------------------------------------------------------
(* llm_extract.                                                             *)

Here(e) == Rows(e)[done[e] + 1]

\* is_weak: a bare value has none of the fields.
IsWeak(sort) == sort \in {"weak", "error"} \/ (sort = "bare" /\ registry.required)

\* stamp_status: only an object can be marked, and one that says "error" is left alone.
Stamp(list) ==
    [i \in DOMAIN list |->
        IF list[i].sort \in {"error", "bare"} THEN list[i]
        ELSE [list[i] EXCEPT !.status = IF IsWeak(list[i].sort) THEN "low_confidence" ELSE "ok"]]

\* The next row: nothing to extract without text, and no call is made.
NextRow(e) ==
    /\ Calls(e, "llm_extract") /\ pc[e] = "row" /\ done[e] < Len(Rows(e))
    /\ IF Here(e).text \in {Null, Empty}
       THEN RowDone(e, <<>>) /\ UNCHANGED call
       ELSE /\ call' = Set(call, e, FirstCall(FALSE)) /\ Goto(e, "sending")
            /\ UNCHANGED <<result, done, found>>
    /\ UNCHANGED <<registry, batch, shared, mine, budget, grown, unseen, mixed>>

MayEscalate(e, list) ==
    /\ \E i \in DOMAIN list : IsWeak(list[i].sort)
    /\ registry.vision /\ budget[e] # 0 /\ Here(e).image # "none"

\* The entities of the text, or of the text with its image, which replace them.
LlmAnswer(e) ==
    /\ Calls(e, "llm_extract") /\ pc[e] = "sending"
    /\ \E answer \in Answers :
          LET list == [i \in DOMAIN answer |-> Entity(e, answer[i])]
          IN  IF ~call[e].image /\ MayEscalate(e, list)
              THEN /\ found' = Set(found, e, list) /\ Goto(e, "fetching")
                   /\ UNCHANGED <<result, done>>
              ELSE RowDone(e, Stamp(list))
    /\ UNCHANGED <<registry, batch, shared, mine, call, budget, grown, unseen, mixed>>

Spent(n) == IF n = Null THEN Null ELSE n - 1

\* Mutant: the budget is spent before the image is there.
FetchSpendsFirst(e) ==
    /\ Calls(e, "llm_extract") /\ pc[e] = "fetching"
    /\ budget' = Set(budget, e, Spent(budget[e]))
    /\ \/ /\ Here(e).image = "inline" \/ registry.fetch
          /\ grown' = Set(grown, e, grown[e] \cup {done[e] + 1})
          /\ call' = Set(call, e, FirstCall(TRUE)) /\ Goto(e, "sending")
          /\ UNCHANGED <<result, done, found, unseen>>
       \/ /\ unseen' = Set(unseen, e, unseen[e] \cup {done[e] + 1})
          /\ RowDone(e, Stamp(found[e]))
          /\ UNCHANGED <<call, grown>>
    /\ UNCHANGED <<registry, batch, shared, mine, mixed>>

\* A data URI is always read, anything else only if fetching is allowed; an escalation is
\* paid for once its image is there.  Without the image the entities stay as they are.
Fetch(e) ==
    /\ Calls(e, "llm_extract") /\ pc[e] = "fetching"
    /\ \/ /\ Here(e).image = "inline" \/ registry.fetch
          /\ budget' = Set(budget, e, Spent(budget[e]))
          /\ grown' = Set(grown, e, grown[e] \cup {done[e] + 1})
          /\ call' = Set(call, e, FirstCall(TRUE)) /\ Goto(e, "sending")
          /\ UNCHANGED <<result, done, found, unseen>>
       \/ /\ unseen' = Set(unseen, e, unseen[e] \cup {done[e] + 1})
          /\ RowDone(e, Stamp(found[e]))
          /\ UNCHANGED <<call, budget, grown>>
    /\ UNCHANGED <<registry, batch, shared, mine, mixed>>

Extracted(e) ==
    /\ Calls(e, "llm_extract") /\ pc[e] = "row" /\ done[e] = Len(Rows(e))
    /\ Goto(e, "ok")
    /\ UNCHANGED <<registry, batch, shared, work>>

RemoteStep(e) ==
    \/ RateLimited(e) \/ FallBack(e) \/ CallFails(e)
    \/ EmbedAnswer(e) \/ NextRow(e) \/ LlmAnswer(e) \/ Fetch(e) \/ Extracted(e)

Step(e) == LocalStep(e) \/ RemoteStep(e)
Next == \E e \in Eval : Begin(e) \/ Step(e)

Spec == Init /\ [][Next]_vars

\* A thread goes on; an API answers or the client's deadline expires.
FairSpec == Spec /\ \A e \in Eval : WF_vars(Step(e))

-----------------------------------------------------------------------------
(* Properties.                                                              *)

TypeOK ==
    /\ registry \in Setting /\ batch \in [Eval -> Batch]
    /\ cache \in [Path -> Nat] /\ loaded \in [Path -> Nat] /\ writer \in Eval \cup {Free}
    /\ poisoned \subseteq {<<p, n>> : p \in Path, n \in 1..Cardinality(Eval)}
    /\ pc \in [Eval -> Ended \cup {"idle", "looking", "locking", "loading", "caching", "running",
                                 "sending", "row", "fetching"}]
    /\ \A e \in Eval : /\ call[e].try \in 1..2 /\ done[e] \in 0..Len(Rows(e))
                       /\ budget[e] \in Nat \cup {Null}
                       /\ grown[e] \cup unseen[e] \subseteq DOMAIN Rows(e)
                       /\ mixed[e] \subseteq Nat

\* A request answered out of order spoils its own texts at most: the answer to a row of it
\* embeds one of them, and every other row of the batch has its own.
Spoilt(e, i, answer) ==
    \E c \in mixed[e], j \in WithText(Rows(e)) :
        /\ {Before(Rows(e), i), Before(Rows(e), j)} \subseteq c + 1..c + ChunkLimit
        /\ answer = Rows(e)[j].text

\* The answer has one entry per row, made of that row and no other, although rows without
\* text are left out of what the model is given and answers come in chunks: remote_embed
\* keeps to this but within a request whose answer was out of order.  An entity of
\* llm_extract says "ok", "low_confidence" or "error" as it is sure, unsure or failed, and
\* only a value that is no object says nothing.
AnswersRows ==
    \A e \in Eval : pc[e] = "ok" =>
        /\ Len(result[e]) = Len(Rows(e))
        /\ \A i \in DOMAIN Rows(e) :
              LET text == Rows(e)[i].text  answer == result[e][i]
              IN  CASE registry.function = "gguf" -> answer = text
                    [] registry.function = "remote_embed" ->
                          answer = text \/ (text # Null /\ Spoilt(e, i, answer))
                    [] registry.function \in {"candle", "onnx"} ->
                          answer = IF text = Null THEN Empty ELSE text
                    [] registry.function = "llm_extract" ->
                          /\ text \in {Null, Empty} => answer = <<>>
                          /\ \A n \in DOMAIN answer :
                                /\ answer[n].row = i
                                /\ answer[n].status = CASE answer[n].sort = "strong" -> "ok"
                                                        [] answer[n].sort = "weak" -> "low_confidence"
                                                        [] answer[n].sort = "error" -> "error"
                                                        [] OTHER -> "none"

\* gguf holds its lock over a load so that a model, gigabytes of it, is in memory once.
GgufLoadsOnce == registry.function = "gguf" => \A p \in Path : loaded[p] <= 1

\* Escalations of a batch stay within the cap, and a row whose entities stay weak although
\* an image could have been sent is one the cap has left nothing for.
EscalationBudget ==
    \A e \in Eval :
        /\ registry.cap # Null => Cardinality(grown[e]) <= registry.cap
        /\ \A i \in DOMAIN result[e] \ (grown[e] \cup unseen[e]) :
              /\ registry.vision /\ Rows(e)[i].image # "none"
              /\ \E n \in DOMAIN result[e][i] : LET sort == result[e][i][n].sort
                                               IN  sort # "error" /\ IsWeak(sort)
              => registry.cap # Null /\ Cardinality(grown[e] \cap 1..i) = registry.cap

\* Every evaluation ends: the registry's lock is never left taken, a busy server is asked
\* again once, and a failed row does not stop the batch.
EvaluationsEnd == \A e \in Eval : (pc[e] # "idle") ~> (pc[e] \in Ended)
=============================================================================
