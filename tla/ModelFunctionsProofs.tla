------------------------ MODULE ModelFunctionsProofs ------------------------
(***************************************************************************)
(* Proofs about ModelFunctions, for any evaluations, models, batches and   *)
(* settings: a gguf model is loaded once, an answer has a row for each row *)
(* it was asked for, made of that row, and escalations stay in the cap.    *)
(***************************************************************************)
EXTENDS ModelFunctions, FiniteSetTheorems, TLAPS

-----------------------------------------------------------------------------
(* Texts and the rows they come from.                                       *)

LEMMA BeforeCounts ==
    ASSUME NEW rows \in Seq(Row)
    PROVE  /\ DOMAIN rows = 1..Len(rows) /\ Len(rows) \in Nat
           /\ \A i \in Nat : IsFiniteSet(WithText(rows) \cap 1..i) /\ Before(rows, i) \in Nat
           /\ \A i \in WithText(rows) : Before(rows, i) \in 1..Before(rows, Len(rows))
           /\ \A i, j \in WithText(rows) : i < j => Before(rows, i) < Before(rows, j)
<1>1. DOMAIN rows = 1..Len(rows) /\ Len(rows) \in Nat
  OBVIOUS
<1>2. \A i \in Nat : IsFiniteSet(WithText(rows) \cap 1..i) /\ Before(rows, i) \in Nat
  <2> TAKE i \in Nat
  <2>1. IsFiniteSet(1..i)
    BY FS_Interval
  <2>2. IsFiniteSet(WithText(rows) \cap 1..i)
    BY <2>1, FS_Subset
  <2> QED
    BY <2>2, FS_CardinalityType DEF Before
<1>3. \A i, j \in Nat : i <= j => Before(rows, i) <= Before(rows, j)
  <2> SUFFICES ASSUME NEW i \in Nat, NEW j \in Nat, i <= j PROVE Before(rows, i) <= Before(rows, j)
    OBVIOUS
  <2>1. WithText(rows) \cap 1..i \in SUBSET (WithText(rows) \cap 1..j)
    OBVIOUS
  <2> QED
    BY <1>2, <2>1, FS_Subset DEF Before
<1>4. \A i \in WithText(rows) : i \in 1..Len(rows) /\ 1 <= Before(rows, i)
  <2> TAKE i \in WithText(rows)
  <2>1. i \in 1..Len(rows)
    BY <1>1 DEF WithText
  <2>2. i \in WithText(rows) \cap 1..i
    BY <2>1
  <2>3. i \in Nat /\ IsFiniteSet(WithText(rows) \cap 1..i) /\ Before(rows, i) \in Nat
    BY <1>1, <1>2, <2>1
  <2>4. Before(rows, i) # 0
    BY <2>2, <2>3, FS_EmptySet DEF Before
  <2> QED
    BY <2>1, <2>3, <2>4
<1>5. \A i, j \in WithText(rows) : i < j => Before(rows, i) < Before(rows, j)
  <2> SUFFICES ASSUME NEW i \in WithText(rows), NEW j \in WithText(rows), i < j
               PROVE  Before(rows, i) < Before(rows, j)
    OBVIOUS
  <2>1. i \in Nat /\ j \in Nat
    BY <1>1, <1>4
  <2>2. /\ WithText(rows) \cap 1..i \in SUBSET (WithText(rows) \cap 1..j)
        /\ j \in WithText(rows) \cap 1..j /\ j \notin WithText(rows) \cap 1..i
    BY <1>4, <2>1
  <2>3. Before(rows, i) # Before(rows, j)
    BY <1>2, <2>1, <2>2, FS_Subset DEF Before
  <2>4. Before(rows, i) \in Nat /\ Before(rows, j) \in Nat
    BY <1>2, <2>1
  <2>5. Before(rows, i) <= Before(rows, j)
    BY <1>3, <2>1
  <2> QED
    BY <2>3, <2>4, <2>5
<1>6. \A i \in WithText(rows) : Before(rows, i) \in 1..Before(rows, Len(rows))
  <2> TAKE i \in WithText(rows)
  <2>1. i \in Nat /\ i <= Len(rows) /\ 1 <= Before(rows, i)
    BY <1>1, <1>4
  <2>2. Before(rows, i) \in Nat /\ Before(rows, Len(rows)) \in Nat
    BY <1>1, <1>2, <2>1
  <2>3. Before(rows, i) <= Before(rows, Len(rows))
    BY <1>1, <1>3, <2>1
  <2> QED
    BY <2>1, <2>2, <2>3
<1> QED
  BY <1>1, <1>2, <1>5, <1>6

Sent(rows) == {Texts(rows)[k] : k \in 1..Before(rows, Len(rows))} \cup {Empty}

LEMMA TextOfRow ==
    ASSUME NEW rows \in Seq(Row)
    PROVE  /\ Texts(rows) \in Seq(Sent(rows))
           /\ Len(Texts(rows)) = Before(rows, Len(rows)) /\ Len(Texts(rows)) \in Nat
           /\ \A i \in WithText(rows) : Texts(rows)[Before(rows, i)] = rows[i].text
<1>1. \A i \in WithText(rows) : (CHOOSE j \in WithText(rows) : Before(rows, j) = Before(rows, i)) = i
  <2> TAKE i \in WithText(rows)
  <2> DEFINE c == CHOOSE j \in WithText(rows) : Before(rows, j) = Before(rows, i)
  <2>1. c \in WithText(rows) /\ Before(rows, c) = Before(rows, i)
    OBVIOUS
  <2>2. WithText(rows) \subseteq Nat
    BY BeforeCounts DEF WithText
  <2>3. Before(rows, i) \in Nat
    BY <2>2, BeforeCounts
  <2> HIDE DEF c
  <2>4. ~(c < i) /\ ~(i < c)
    BY <2>1, <2>2, <2>3, BeforeCounts
  <2>5. c = i
    BY <2>1, <2>2, <2>4
  <2> QED
    BY <2>5 DEF c
<1>2. \A i \in WithText(rows) : Texts(rows)[Before(rows, i)] = rows[i].text
  BY <1>1, BeforeCounts DEF Texts
<1>3. Texts(rows) \in [1..Before(rows, Len(rows)) -> Sent(rows)]
  BY DEF Texts, Sent
<1>4. Before(rows, Len(rows)) \in Nat
  BY BeforeCounts
<1>5. Texts(rows) \in Seq(Sent(rows)) /\ Len(Texts(rows)) = Before(rows, Len(rows))
  BY <1>3, <1>4
<1> QED
  BY <1>2, <1>4, <1>5

(* remote_embed: as many vectors as texts sent, each that of its text or, in a request answered   *)
(* out of order, that of another text of the request.                                            *)
Close(texts, spoilt, k, vector) ==
    \/ vector = texts[k]
    \/ \E c \in spoilt, l \in 1..Len(texts) : {k, l} \subseteq c + 1..c + ChunkLimit /\ vector = texts[l]
Embeds(texts, spoilt, vectors, n) ==
    vectors \in Seq(Range(texts)) /\ Len(vectors) = n /\ \A k \in 1..n : Close(texts, spoilt, k, vectors[k])

EmbeddedRows(rows, spoilt, answer) ==
    /\ Len(answer) = Len(rows)
    /\ \A i \in DOMAIN rows :
          IF rows[i].text = Null THEN answer[i] = Null ELSE Close(Texts(rows), spoilt, Before(rows, i), answer[i])

(* Every text sent is that of a row. *)
LEMMA TextsHaveRows ==
    ASSUME NEW rows \in Seq(Row)
    PROVE  \A l \in 1..Before(rows, Len(rows)) : \E j \in WithText(rows) : Before(rows, j) = l
<1> DEFINE S == WithText(rows)
           n == Before(rows, Len(rows))
           f == [i \in S |-> Before(rows, i)]
<1>1. n \in Nat /\ \A i \in S : Before(rows, i) \in 1..n
  BY BeforeCounts
<1>2. S \subseteq Nat /\ \A i, j \in S : i < j => Before(rows, i) < Before(rows, j)
  BY BeforeCounts DEF WithText
<1>3. S \cap 1..Len(rows) = S
  BY BeforeCounts DEF WithText
<1>4. Cardinality(S) = n
  BY <1>3 DEF Before
<1>5. f \in Injection(S, 1..n)
  <2>1. f \in [S -> 1..n]
    BY <1>1
  <2>2. \A i, j \in S : f[i] = f[j] => i = j
    <3> SUFFICES ASSUME NEW i \in S, NEW j \in S, f[i] = f[j] PROVE i = j
      OBVIOUS
    <3>1. i \in Nat /\ j \in Nat /\ Before(rows, i) \in Nat /\ ~(i < j) /\ ~(j < i)
      BY <1>1, <1>2
    <3> QED
      BY <3>1
  <2> QED
    BY <2>1, <2>2 DEF Injection, IsInjective
<1>6. IsFiniteSet(1..n) /\ Cardinality(1..n) = n
  BY <1>1, FS_Interval
<1> HIDE DEF f, S, n
<1>7. f \in Surjection(S, 1..n)
  BY <1>4, <1>5, <1>6, FS_Injection
<1>8. \A l \in 1..n : \E j \in S : f[j] = l
  BY <1>7 DEF Surjection
<1> QED
  BY <1>8 DEF f, S, n

(* What is embedded for a row comes back to it: the vectors of the texts, in the order of the   *)
(* texts, are put where the texts came from.                                                    *)
LEMMA Reassembly ==
    ASSUME NEW S, NEW rows \in Seq(Row), NEW vectors \in Seq(S), Len(vectors) = Before(rows, Len(rows))
    PROVE  /\ Len(Reassembled(rows, vectors)) = Len(rows)
           /\ \A i \in DOMAIN rows : Reassembled(rows, vectors)[i] =
                 IF rows[i].text = Null THEN Null ELSE vectors[Before(rows, i)]
<1> DEFINE r == Reassembled(rows, vectors)
<1>1. \A i \in DOMAIN rows : r[i] = IF rows[i].text = Null THEN Null ELSE vectors[Before(rows, i)]
  BY DEF Reassembled
<1>2. r \in [1..Len(rows) -> {r[i] : i \in 1..Len(rows)}] /\ Len(rows) \in Nat
  BY BeforeCounts DEF Reassembled
<1>3. Len(r) = Len(rows)
  <2> HIDE DEF r
  <2> QED
    BY <1>2
<1> QED
  BY <1>1, <1>3

LEMMA TextsReassembled ==
    ASSUME NEW rows \in Seq(Row)
    PROVE  /\ Len(Reassembled(rows, Texts(rows))) = Len(rows)
           /\ \A i \in DOMAIN rows : Reassembled(rows, Texts(rows))[i] = rows[i].text
<1>1. Texts(rows) \in Seq(Sent(rows)) /\ Len(Texts(rows)) = Before(rows, Len(rows))
  BY TextOfRow
<1>2. /\ Len(Reassembled(rows, Texts(rows))) = Len(rows)
      /\ \A i \in DOMAIN rows : Reassembled(rows, Texts(rows))[i] =
            IF rows[i].text = Null THEN Null ELSE Texts(rows)[Before(rows, i)]
  BY <1>1, Reassembly
<1>3. \A i \in DOMAIN rows : rows[i].text # Null => Texts(rows)[Before(rows, i)] = rows[i].text
  BY TextOfRow DEF WithText
<1> QED
  BY <1>2, <1>3

LEMMA NothingToEmbed ==
    ASSUME NEW rows \in Seq(Row), Texts(rows) = <<>>, NEW spoilt
    PROVE  EmbeddedRows(rows, spoilt, Reassembled(rows, <<>>))
<1>1. /\ Len(Reassembled(rows, Texts(rows))) = Len(rows)
      /\ \A i \in DOMAIN rows : Reassembled(rows, Texts(rows))[i] = rows[i].text
  BY TextsReassembled
<1>2. \A i \in DOMAIN rows : rows[i].text # Null => rows[i].text = Texts(rows)[Before(rows, i)]
  BY TextOfRow DEF WithText
<1> QED
  BY <1>1, <1>2 DEF EmbeddedRows, Close

LEMMA FilledRows ==
    ASSUME NEW rows \in Seq(Row)
    PROVE  /\ Len(Filled(rows)) = Len(rows)
           /\ \A i \in DOMAIN rows : Filled(rows)[i] = IF rows[i].text = Null THEN Empty ELSE rows[i].text
<1>1. DOMAIN rows = 1..Len(rows) /\ Len(rows) \in Nat /\ \A i \in DOMAIN rows : rows[i] \in Row
  OBVIOUS
<1>2. \A i \in DOMAIN rows : rows[i].text \in Text \cup {Empty, Null}
  BY <1>1 DEF Row
<1>3. Filled(rows) \in [1..Len(rows) -> Text \cup {Empty}]
  BY <1>1, <1>2 DEF Filled
<1> QED
  BY <1>1, <1>3 DEF Filled

-----------------------------------------------------------------------------
(* The invariant.                                                           *)

EntityRecord == [row: Nat, sort: Sort, status: {"none", "ok", "low_confidence", "error"}]
Places == Ended \cup {"idle", "looking", "locking", "loading", "caching", "running", "sending", "row", "fetching"}
CallRecord == [body: {"format", "tool", "plain"}, try: 1..2, image: BOOLEAN]
Each(f) == f = [e \in Eval |-> f[e]]

ModelsTypeOK ==
    /\ registry \in Registry /\ batch \in Workload
    /\ cache \in [Path -> Nat] /\ loaded \in [Path -> Nat] /\ writer \in Eval \cup {Free}
    /\ pc \in [Eval -> Places] /\ mine \in [Eval -> Nat]
    /\ call \in [Eval -> CallRecord]
    /\ done \in [Eval -> Nat] /\ Each(found) /\ Each(result)
    /\ budget \in [Eval -> Nat \cup {Null}]
    /\ grown \in [Eval -> SUBSET Nat] /\ unseen \in [Eval -> SUBSET Nat] /\ mixed \in [Eval -> SUBSET Nat]

(* gguf: what is loaded is cached, and who loads holds the lock and has seen that it is missing. *)
GgufInv ==
    registry.function = "gguf" =>
        /\ \A p \in Path : loaded[p] <= 1 /\ cache[p] = loaded[p]
        /\ \A e \in Eval : /\ pc[e] # "caching"
                           /\ pc[e] = "loading" <=> writer = e
                           /\ pc[e] = "loading" => cache[Model(e)] = 0

(* Where an evaluation of the function may be, and what it has before it begins. *)
Place(e) ==
    /\ pc[e] \in {"looking", "locking", "loading", "caching", "running"} => registry.function \in Local
    /\ pc[e] = "caching" => registry.function \in {"candle", "onnx"}
    /\ pc[e] \in {"row", "fetching"} => registry.function = "llm_extract"
    /\ pc[e] = "sending" => registry.function \in {"remote_embed", "llm_extract"}
    /\ pc[e] = "idle" => /\ done[e] = 0 /\ found[e] = <<>> /\ result[e] = <<>>
    /\ registry.function # "llm_extract" => grown[e] = {} /\ unseen[e] = {} /\ budget[e] = registry.cap

Embedding(e) ==
    registry.function = "remote_embed" /\ pc[e] = "sending" =>
        /\ done[e] < Len(Texts(Rows(e)))
        /\ Embeds(Texts(Rows(e)), mixed[e], found[e], done[e])

(* The answer of a function other than llm_extract. *)
Shown(e) ==
    pc[e] = "ok" /\ registry.function # "llm_extract" =>
        IF registry.function = "remote_embed" THEN EmbeddedRows(Rows(e), mixed[e], result[e])
        ELSE /\ Len(result[e]) = Len(Rows(e))
             /\ \A i \in DOMAIN Rows(e) :
                   result[e][i] = IF registry.function \in {"candle", "onnx"} /\ Rows(e)[i].text = Null
                                  THEN Empty ELSE Rows(e)[i].text

(* llm_extract: the rows done so far, and the one at hand. *)
OfRow(list, i) == \A n \in DOMAIN list : list[n].row = i
Fresh(list) == \A n \in DOMAIN list : list[n].status = IF list[n].sort = "error" THEN "error" ELSE "none"
Says(entity) ==
    entity.status = CASE entity.sort = "strong" -> "ok"
                      [] entity.sort = "weak" -> "low_confidence"
                      [] entity.sort = "error" -> "error"
                      [] OTHER -> "none"
RowMade(text, answer, i) ==
    /\ answer \in Seq(EntityRecord) /\ OfRow(answer, i)
    /\ text \in {Null, Empty} => answer = <<>>
    /\ \A n \in DOMAIN answer : Says(answer[n])

Extracting(e) ==
    registry.function = "llm_extract" =>
        /\ result[e] \in Seq(Seq(EntityRecord)) /\ done[e] = Len(result[e]) /\ done[e] <= Len(Rows(e))
        /\ pc[e] \in {"sending", "fetching"} => done[e] < Len(Rows(e)) /\ Here(e).text \notin {Null, Empty}
        /\ pc[e] = "fetching" => found[e] \in Seq(EntityRecord) /\ OfRow(found[e], done[e] + 1) /\ Fresh(found[e])
        /\ pc[e] = "ok" => done[e] = Len(Rows(e))
        /\ \A i \in DOMAIN result[e] : RowMade(Rows(e)[i].text, result[e][i], i)

(* Escalations so far and those left add up to the cap; the row at hand is escalated once. *)
Weak(answer, required) ==
    \E n \in DOMAIN answer : answer[n].sort = "weak" \/ (answer[n].sort = "bare" /\ required)
Spending(e) ==
    registry.function = "llm_extract" =>
        /\ IsFiniteSet(grown[e]) /\ grown[e] \subseteq 1..done[e] + 1
        /\ IF pc[e] = "sending" /\ call[e].image THEN done[e] + 1 \in grown[e]
           ELSE pc[e] = "error" \/ grown[e] \subseteq 1..done[e]
        /\ unseen[e] \subseteq 1..done[e]
        /\ IF registry.cap = Null THEN budget[e] = Null
           ELSE budget[e] \in Nat /\ Cardinality(grown[e]) + budget[e] = registry.cap
        /\ pc[e] = "fetching" => budget[e] # 0
        /\ \A i \in DOMAIN result[e] \ (grown[e] \cup unseen[e]) :
              registry.vision /\ Rows(e)[i].image # "none" /\ Weak(result[e][i], registry.required) =>
                  registry.cap # Null /\ Cardinality(grown[e] \cap 1..i) = registry.cap

EvalInv(e) == Place(e) /\ Embedding(e) /\ Shown(e) /\ Extracting(e) /\ Spending(e)
ModelsInv == ModelsTypeOK /\ GgufInv /\ \A e \in Eval : EvalInv(e)

LEMMA BatchTypes ==
    ASSUME ModelsTypeOK, NEW e \in Eval
    PROVE  /\ Rows(e) \in Seq(Row) /\ Model(e) \in Path
           /\ registry \in Setting /\ registry.cap \in Nat \cup {Null}
           /\ registry.vision => registry.function = "llm_extract"
<1>1. batch[e] \in Batch /\ registry \in Setting
  BY RegistryAssumption DEF ModelsTypeOK
<1>2. registry.vision => registry.function = "llm_extract"
  BY RegistryAssumption DEF ModelsTypeOK
<1> QED
  BY <1>1, <1>2 DEF Batch, Setting, Rows, Model

LEMMA ModelsInitially == Init => ModelsInv
<1> SUFFICES ASSUME Init PROVE ModelsInv
  OBVIOUS
<1> USE DEF Init
<1>1. registry \in Setting /\ registry.cap \in Nat \cup {Null}
  BY RegistryAssumption DEF Setting
<1>2. FirstCall(FALSE) \in CallRecord
  BY DEF FirstCall, CallRecord
<1>3. ModelsTypeOK
  BY <1>1, <1>2 DEF ModelsTypeOK, Places, Ended, Each
<1>4. GgufInv
  BY ModelAssumption DEF GgufInv
<1>5. ASSUME NEW e \in Eval PROVE EvalInv(e)
  <2>1. Rows(e) \in Seq(Row)
    BY <1>3, BatchTypes
  <2>2. Place(e) /\ Embedding(e) /\ Shown(e)
    BY DEF Place, Embedding, Shown, Ended
  <2>3. Extracting(e)
    BY <2>1 DEF Extracting
  <2>4. Cardinality(grown[e]) = 0 /\ IsFiniteSet(grown[e])
    BY FS_EmptySet
  <2>5. Spending(e)
    BY <1>1, <2>4, ModelAssumption DEF Spending, FirstCall
  <2> QED
    BY <2>2, <2>3, <2>5 DEF EvalInv
<1> QED
  BY <1>3, <1>4, <1>5 DEF ModelsInv

(* A step of one evaluation leaves the others where they are. *)
Mine(e) == <<pc[e], call[e], done[e], found[e], result[e], budget[e], grown[e], unseen[e], mixed[e]>>

LEMMA OthersKeep ==
    ASSUME NEW d \in Eval, EvalInv(d), UNCHANGED <<registry, batch>>, Mine(d)' = Mine(d)
    PROVE  EvalInv(d)'
<1> USE DEF EvalInv
<1>1. /\ UNCHANGED <<registry, batch>> /\ Rows(d)' = Rows(d) /\ Here(d)' = Here(d)
      /\ pc'[d] = pc[d] /\ call'[d] = call[d] /\ done'[d] = done[d] /\ found'[d] = found[d]
      /\ result'[d] = result[d] /\ budget'[d] = budget[d] /\ grown'[d] = grown[d]
      /\ unseen'[d] = unseen[d] /\ mixed'[d] = mixed[d]
  BY DEF Mine, Rows, Here
<1>2. Place(d)'
  BY <1>1 DEF Place
<1>3. Embedding(d)' /\ Shown(d)'
  BY <1>1 DEF Embedding, Shown
<1>4. Extracting(d)'
  BY <1>1 DEF Extracting
<1>5. Spending(d)'
  BY <1>1 DEF Spending
<1> QED
  BY <1>2, <1>3, <1>4, <1>5

(* What one evaluation leaves in the shared state. *)
LEMMA GgufKeeps ==
    ASSUME ModelsTypeOK, GgufInv, NEW e \in Eval, UNCHANGED <<registry, batch, cache, loaded, writer>>,
           NEW label, pc' = [pc EXCEPT ![e] = label], pc[e] # "loading", label \notin {"loading", "caching"}
    PROVE  GgufInv'
BY DEF GgufInv, ModelsTypeOK, Model

LEMMA LocalKeeps ==
    ASSUME NEW e \in Eval, EvalInv(e), registry.function \in Local, UNCHANGED <<registry, batch>>,
           /\ call'[e] = call[e] /\ done'[e] = done[e] /\ found'[e] = found[e] /\ result'[e] = result[e]
           /\ budget'[e] = budget[e] /\ grown'[e] = grown[e] /\ unseen'[e] = unseen[e] /\ mixed'[e] = mixed[e],
           pc'[e] \in {"looking", "locking", "loading", "caching", "running", "error"},
           pc'[e] = "caching" => registry.function \in {"candle", "onnx"}
    PROVE  EvalInv(e)'
BY DEF EvalInv, Place, Embedding, Shown, Extracting, Spending, Local

(* Loading.                                                                 *)
LEMMA LoadingKeeps ==
    ASSUME ModelsInv, NEW e \in Eval, Look(e) \/ GgufLock(e) \/ GgufLoad(e) \/ Load(e) \/ Insert(e)
    PROVE  ModelsInv'
<1> USE DEF ModelsInv, Goto, Set
<1>1. Model(e) \in Path
  BY BatchTypes
<1>2. registry.function \in Local
  BY DEF EvalInv, Place, Look, GgufLock, GgufLoad, Load, Insert, Calls, Local
<1>3. /\ UNCHANGED <<registry, batch, call, done, found, result, budget, grown, unseen, mixed>>
      /\ \E label \in {"running", "locking", "loading", "caching", "error"} :
            /\ pc' = [pc EXCEPT ![e] = label]
            /\ label = "caching" => registry.function \in {"candle", "onnx"}
  BY DEF Look, GgufLock, GgufLoad, Load, Insert, Calls, work
<1>4. ModelsTypeOK'
  <2>1. mine' \in [Eval -> Nat] /\ cache' \in [Path -> Nat] /\ loaded' \in [Path -> Nat]
        /\ writer' \in Eval \cup {Free}
    BY <1>1 DEF ModelsTypeOK, Look, GgufLock, GgufLoad, Load, Insert, shared, work
  <2> QED
    BY <1>3, <2>1 DEF ModelsTypeOK, Places, Ended, Each
<1>5. GgufInv'
  <2> SUFFICES ASSUME registry.function = "gguf" PROVE GgufInv'
    BY <1>3 DEF GgufInv
  <2> USE <1>1, ModelAssumption DEF GgufInv, ModelsTypeOK, Model
  <2>1. CASE Look(e)
    BY <2>1 DEF Look, shared
  <2>2. CASE GgufLock(e)
    BY <2>2 DEF GgufLock
  <2>3. CASE GgufLoad(e)
    <3>1. pc[e] = "loading" /\ writer = e /\ cache[Model(e)] = 0 /\ loaded[Model(e)] = 0 /\ writer' = Free
      BY <2>3 DEF GgufLoad
    <3>a. PICK label \in {"running", "error"} : pc' = [pc EXCEPT ![e] = label]
      BY <2>3 DEF GgufLoad
    <3>2. /\ \A d \in Eval : pc'[d] # "loading" /\ pc'[d] # "caching"
          /\ \A d \in Eval : writer' # d
      BY <3>1, <3>a
    <3>3. \A p \in Path : loaded'[p] <= 1 /\ cache'[p] = loaded'[p]
      <4>1. CASE UNCHANGED <<cache, loaded>>
        BY <4>1
      <4>2. CASE /\ loaded' = [loaded EXCEPT ![Model(e)] = @ + 1]
                 /\ cache' = [cache EXCEPT ![Model(e)] = loaded'[Model(e)]]
        <5>1. loaded'[Model(e)] = 1 /\ cache'[Model(e)] = 1
          BY <3>1, <4>2
        <5>2. \A p \in Path \ {Model(e)} : loaded'[p] = loaded[p] /\ cache'[p] = cache[p]
          BY <4>2
        <5>3. \A p \in Path : loaded[p] <= 1 /\ cache[p] = loaded[p]
          OBVIOUS
        <5> HIDE DEF GgufInv, ModelsTypeOK, Model, ModelsInv
        <5> QED
          BY <5>1, <5>2, <5>3
      <4> QED
        BY <2>3, <4>1, <4>2 DEF GgufLoad
    <3> QED
      BY <3>2, <3>3
  <2>4. CASE Load(e) \/ Insert(e)
    BY <2>4 DEF Load, Insert, Calls
  <2> QED
    BY <2>1, <2>2, <2>3, <2>4
<1>6. EvalInv(e)'
  BY <1>2, <1>3, LocalKeeps DEF ModelsTypeOK
<1>7. \A d \in Eval \ {e} : EvalInv(d)'
  BY <1>3, OthersKeep DEF Mine, ModelsTypeOK
<1> QED
  BY <1>4, <1>5, <1>6, <1>7

(* Running a local model.                                                   *)
LEMMA RunningKeeps ==
    ASSUME ModelsInv, NEW e \in Eval, GgufRun(e) \/ CandleRun(e) \/ OnnxRun(e)
    PROVE  ModelsInv'
<1> USE DEF ModelsInv, Goto, Set
<1>1. Rows(e) \in Seq(Row)
  BY BatchTypes
<1>2. /\ UNCHANGED <<registry, batch, cache, loaded, writer, mine, call, done, found, budget, grown, unseen, mixed>>
      /\ pc[e] = "running" /\ registry.function \in Local /\ result' = [result EXCEPT ![e] = result'[e]]
      /\ \/ pc' = [pc EXCEPT ![e] = "error"] /\ result'[e] = result[e]
         \/ /\ pc' = [pc EXCEPT ![e] = "ok"]
            /\ \/ registry.function = "gguf" /\ result'[e] = Reassembled(Rows(e), Texts(Rows(e)))
               \/ registry.function \in {"candle", "onnx"} /\ result'[e] = Filled(Rows(e))
  BY DEF GgufRun, CandleRun, OnnxRun, Calls, shared, Local, ModelsTypeOK, Each
<1>3. ModelsTypeOK'
  BY <1>2 DEF ModelsTypeOK, Places, Ended, Each
<1>4. GgufInv'
  BY <1>2, GgufKeeps DEF ModelsTypeOK
<1>5. EvalInv(e)'
  <2>1. CASE pc'[e] = "error" /\ result'[e] = result[e]
    BY <1>2, <2>1, LocalKeeps
  <2>2. CASE pc'[e] = "ok" /\ registry.function = "gguf" /\ result'[e] = Reassembled(Rows(e), Texts(Rows(e)))
    <3>1. Shown(e)'
      BY <1>1, <1>2, <2>2, TextsReassembled DEF Shown, Rows
    <3> QED
      BY <1>2, <2>2, <3>1 DEF EvalInv, Place, Embedding, Extracting, Spending
  <2>3. CASE pc'[e] = "ok" /\ registry.function \in {"candle", "onnx"} /\ result'[e] = Filled(Rows(e))
    <3>1. Shown(e)'
      BY <1>1, <1>2, <2>3, FilledRows DEF Shown, Rows
    <3> QED
      BY <1>2, <2>3, <3>1 DEF EvalInv, Place, Embedding, Extracting, Spending
  <2> QED
    BY <1>2, <2>1, <2>2, <2>3 DEF ModelsTypeOK
<1>6. \A d \in Eval \ {e} : EvalInv(d)'
  BY <1>2, OthersKeep DEF Mine, ModelsTypeOK, Each
<1> QED
  BY <1>3, <1>4, <1>5, <1>6

LEMMA BeginKeeps ==
    ASSUME ModelsInv, NEW e \in Eval, Begin(e)
    PROVE  ModelsInv'
<1> USE DEF ModelsInv, Goto, Set
<1>1. Rows(e) \in Seq(Row) /\ Len(Rows(e)) \in Nat
  BY BatchTypes
<1>2. /\ UNCHANGED <<registry, batch, cache, loaded, writer, mine, call, done, found, budget, grown, unseen, mixed>>
      /\ pc[e] = "idle" /\ result' = [result EXCEPT ![e] = result'[e]]
      /\ done[e] = 0 /\ found[e] = <<>> /\ result[e] = <<>>
      /\ \/ /\ registry.function = "remote_embed" /\ Texts(Rows(e)) = <<>> /\ pc' = [pc EXCEPT ![e] = "ok"]
            /\ result'[e] = Reassembled(Rows(e), <<>>)
         \/ /\ registry.function = "remote_embed" /\ Texts(Rows(e)) # <<>> /\ pc' = [pc EXCEPT ![e] = "sending"]
            /\ result'[e] = result[e]
         \/ /\ registry.function = "llm_extract" /\ pc' = [pc EXCEPT ![e] = "row"] /\ result'[e] = result[e]
         \/ /\ registry.function \in Local /\ pc' = [pc EXCEPT ![e] = "looking"] /\ result'[e] = result[e]
         \/ pc' = [pc EXCEPT ![e] = "error"] /\ result'[e] = result[e]
  BY DEF Begin, shared, ModelsTypeOK, Each, EvalInv, Place
<1>3. ModelsTypeOK'
  BY <1>2 DEF ModelsTypeOK, Places, Ended, Each
<1>4. GgufInv'
  <2>1. PICK label \in {"ok", "sending", "row", "looking", "error"} : pc' = [pc EXCEPT ![e] = label]
    BY <1>2
  <2> QED
    BY <1>2, <2>1, GgufKeeps
<1>5. EvalInv(e)'
  <2> USE DEF EvalInv
  <2>1. Place(e)'
    BY <1>2 DEF Place, ModelsTypeOK
  <2>2. Embedding(e)'
    <3>1. Texts(Rows(e)) # <<>> => 0 < Len(Texts(Rows(e))) /\ Embeds(Texts(Rows(e)), mixed[e], <<>>, 0)
      BY <1>1, TextOfRow DEF Embeds
    <3> QED
      BY <1>2, <3>1 DEF Embedding, ModelsTypeOK, Rows
  <2>3. Shown(e)'
    BY <1>1, <1>2, NothingToEmbed DEF Shown, ModelsTypeOK, Rows, Local
  <2>4. Extracting(e)'
    BY <1>1, <1>2 DEF Extracting, ModelsTypeOK, Rows, Local
  <2>5. Spending(e)'
    BY <1>2 DEF Spending, ModelsTypeOK, Local, Rows
  <2> QED
    BY <2>1, <2>2, <2>3, <2>4, <2>5
<1>6. \A d \in Eval \ {e} : EvalInv(d)'
  BY <1>2, OthersKeep DEF Mine, ModelsTypeOK, Each
<1> QED
  BY <1>3, <1>4, <1>5, <1>6

-----------------------------------------------------------------------------
(* llm_extract.                                                             *)

LEMMA Stamped ==
    ASSUME NEW list \in Seq(EntityRecord), NEW i \in Nat, OfRow(list, i), Fresh(list),
           NEW text, text \notin {Null, Empty}
    PROVE  /\ RowMade(text, Stamp(list), i)
           /\ Weak(Stamp(list), registry.required) => \E n \in DOMAIN list : IsWeak(list[n].sort)
<1>1. DOMAIN list = 1..Len(list) /\ Len(list) \in Nat /\ \A n \in DOMAIN list : list[n] \in EntityRecord
  OBVIOUS
<1>2. DOMAIN Stamp(list) = DOMAIN list
  BY DEF Stamp
<1>3. \A n \in DOMAIN list :
         /\ Stamp(list)[n] \in EntityRecord /\ Stamp(list)[n].row = i
         /\ Stamp(list)[n].sort = list[n].sort /\ Says(Stamp(list)[n])
  <2> TAKE n \in DOMAIN list
  <2>1. PICK r : r = list[n]
    OBVIOUS
  <2>2. /\ r \in EntityRecord /\ r.row = i /\ r.sort \in {"strong", "weak", "error", "bare"}
        /\ r.status = IF r.sort = "error" THEN "error" ELSE "none"
    BY <1>1, <2>1 DEF EntityRecord, OfRow, Fresh, Sort
  <2>3. Stamp(list)[n] = IF r.sort \in {"error", "bare"} THEN r
                         ELSE [r EXCEPT !.status = IF IsWeak(r.sort) THEN "low_confidence" ELSE "ok"]
    BY <2>1 DEF Stamp
  <2>4. CASE r.sort \in {"error", "bare"}
    BY <2>1, <2>2, <2>3, <2>4 DEF Says
  <2>5. CASE r.sort = "weak"
    <3>1. Stamp(list)[n] = [r EXCEPT !.status = "low_confidence"]
      BY <2>3, <2>5 DEF IsWeak
    <3> QED
      BY <2>1, <2>2, <2>5, <3>1 DEF Says, EntityRecord
  <2>6. CASE r.sort = "strong"
    <3>1. Stamp(list)[n] = [r EXCEPT !.status = "ok"]
      BY <2>3, <2>6 DEF IsWeak
    <3> QED
      BY <2>1, <2>2, <2>6, <3>1 DEF Says, EntityRecord
  <2> QED
    BY <2>2, <2>4, <2>5, <2>6
<1>4. Stamp(list) \in Seq(EntityRecord)
  <2>1. Stamp(list) \in [1..Len(list) -> EntityRecord]
    BY <1>1, <1>3 DEF Stamp
  <2> QED
    BY <1>1, <2>1
<1> QED
  BY <1>1, <1>2, <1>3, <1>4 DEF RowMade, OfRow, Weak, IsWeak

LEMMA RowDoneKeeps ==
    ASSUME ModelsInv, NEW e \in Eval, registry.function = "llm_extract",
           pc[e] \in {"row", "sending", "fetching"}, done[e] < Len(Rows(e)),
           NEW list, RowMade(Here(e).text, list, done[e] + 1), RowDone(e, list),
           UNCHANGED <<registry, batch, shared, mine, call, budget, grown, mixed>>,
           unseen' = [unseen EXCEPT ![e] = unseen'[e]],
           unseen'[e] \in {unseen[e], unseen[e] \cup {done[e] + 1}},
           /\ done[e] + 1 \notin grown[e] \cup unseen'[e]
           /\ registry.vision /\ Here(e).image # "none" /\ Weak(list, registry.required)
           => registry.cap # Null /\ Cardinality(grown[e] \cap 1..done[e] + 1) = registry.cap
    PROVE  ModelsInv'
<1> USE DEF ModelsInv, shared
<1>1. /\ result' = [result EXCEPT ![e] = Append(result[e], list)]
      /\ done' = [done EXCEPT ![e] = done[e] + 1] /\ found' = [found EXCEPT ![e] = <<>>]
      /\ pc' = [pc EXCEPT ![e] = "row"]
  BY DEF RowDone, Set, Goto
<1>2. ModelsTypeOK'
  <2>1. unseen' \in [Eval -> SUBSET Nat]
    <3>1. unseen[e] \in SUBSET Nat /\ done[e] + 1 \in Nat
      BY DEF ModelsTypeOK
    <3>2. unseen'[e] \in SUBSET Nat
      BY <3>1
    <3> QED
      BY <3>2 DEF ModelsTypeOK
  <2>2. pc' \in [Eval -> Places] /\ done' \in [Eval -> Nat]
    BY <1>1 DEF ModelsTypeOK, Places
  <2>3. Each(result)' /\ Each(found)'
    BY <1>1 DEF ModelsTypeOK, Each
  <2> QED
    BY <2>1, <2>2, <2>3 DEF ModelsTypeOK
<1>3. GgufInv'
  BY <1>1 DEF GgufInv
<1>4. /\ result[e] \in Seq(Seq(EntityRecord)) /\ done[e] = Len(result[e]) /\ list \in Seq(EntityRecord)
      /\ done[e] \in Nat /\ Len(Rows(e)) \in Nat
  BY BatchTypes DEF EvalInv, Extracting, RowMade, ModelsTypeOK
<1>5. /\ result'[e] = Append(result[e], list) /\ done'[e] = done[e] + 1 /\ pc'[e] = "row"
      /\ Rows(e)' = Rows(e) /\ found'[e] = <<>>
  BY <1>1 DEF ModelsTypeOK, Each, Rows
<1>6. /\ result'[e] \in Seq(Seq(EntityRecord)) /\ done'[e] = Len(result'[e])
      /\ DOMAIN result[e] = 1..done[e] /\ DOMAIN result'[e] = 1..done[e] + 1
      /\ \A i \in 1..done[e] : result'[e][i] = result[e][i]
      /\ result'[e][done[e] + 1] = list
  BY <1>4, <1>5
<1>7. Extracting(e)'
  <2>1. \A i \in 1..done[e] : RowMade(Rows(e)[i].text, result[e][i], i)
    BY <1>6 DEF EvalInv, Extracting
  <2>2. \A i \in DOMAIN result'[e] : RowMade(Rows(e)[i].text, result'[e][i], i)
    <3> TAKE i \in DOMAIN result'[e]
    <3>1. CASE i = done[e] + 1
      BY <1>6, <3>1 DEF Here
    <3>2. CASE i \in 1..done[e]
      BY <1>6, <2>1, <3>2
    <3> QED
      BY <1>4, <1>6, <3>1, <3>2
  <2> QED
    BY <1>4, <1>5, <1>6, <2>2 DEF Extracting
<1>8. Spending(e)'
  <2>1. /\ IsFiniteSet(grown[e]) /\ grown[e] \subseteq 1..done[e] + 1
        /\ unseen[e] \subseteq 1..done[e]
        /\ IF registry.cap = Null THEN budget[e] = Null
           ELSE budget[e] \in Nat /\ Cardinality(grown[e]) + budget[e] = registry.cap
        /\ \A i \in DOMAIN result[e] \ (grown[e] \cup unseen[e]) :
              registry.vision /\ Rows(e)[i].image # "none" /\ Weak(result[e][i], registry.required) =>
                  registry.cap # Null /\ Cardinality(grown[e] \cap 1..i) = registry.cap
    BY DEF EvalInv, Spending
  <2>2. unseen'[e] \subseteq 1..done[e] + 1 /\ unseen[e] \subseteq unseen'[e]
    BY <1>4, <2>1
  <2>3. \A i \in DOMAIN result'[e] \ (grown[e] \cup unseen'[e]) :
           registry.vision /\ Rows(e)[i].image # "none" /\ Weak(result'[e][i], registry.required) =>
               registry.cap # Null /\ Cardinality(grown[e] \cap 1..i) = registry.cap
    <3> TAKE i \in DOMAIN result'[e] \ (grown[e] \cup unseen'[e])
    <3>1. CASE i = done[e] + 1
      BY <1>6, <3>1 DEF Here
    <3>2. CASE i \in 1..done[e]
      BY <1>6, <2>1, <2>2, <3>2
    <3> QED
      BY <1>4, <1>6, <3>1, <3>2
  <2>4. grown[e] \subseteq 1..(done[e] + 1) + 1
    BY <1>4, <2>1
  <2> QED
    BY <1>5, <2>1, <2>2, <2>3, <2>4 DEF Spending
<1>9. EvalInv(e)'
  BY <1>5, <1>7, <1>8 DEF EvalInv, Place, Embedding, Shown
<1>10. \A d \in Eval \ {e} : EvalInv(d)'
  BY <1>1, OthersKeep DEF Mine, ModelsTypeOK, Each
<1> QED
  BY <1>2, <1>3, <1>9, <1>10

LEMMA CallingKeeps ==
    ASSUME ModelsInv, NEW e \in Eval, RateLimited(e) \/ FallBack(e)
    PROVE  ModelsInv'
<1> USE DEF ModelsInv, shared
<1>1. /\ UNCHANGED <<registry, batch, cache, loaded, writer, pc, mine, done, found, result, budget, grown, unseen, mixed>>
      /\ call' \in [Eval -> CallRecord] /\ call'[e].image = call[e].image
      /\ \A d \in Eval \ {e} : call'[d] = call[d]
  <2>1. call[e] \in CallRecord
    BY DEF ModelsTypeOK
  <2>2. CASE RateLimited(e)
    <3>1. call' = [call EXCEPT ![e] = [call[e] EXCEPT !.try = 2]]
      BY <2>1, <2>2 DEF RateLimited, CallRecord
    <3> QED
      BY <2>1, <2>2, <3>1 DEF RateLimited, CallRecord, ModelsTypeOK
  <2>3. CASE FallBack(e)
    <3>1. call' = [call EXCEPT ![e] = [call[e] EXCEPT !.body = "tool", !.try = 1]]
      BY <2>1, <2>3 DEF FallBack, CallRecord
    <3> QED
      BY <2>1, <2>3, <3>1 DEF FallBack, CallRecord, ModelsTypeOK
  <2> QED
    BY <2>2, <2>3
<1>2. ModelsTypeOK'
  BY <1>1 DEF ModelsTypeOK, Each
<1>3. GgufInv'
  BY <1>1 DEF GgufInv, Model
<1>4. EvalInv(e)'
  <2>1. Place(e)' /\ Embedding(e)' /\ Shown(e)'
    BY <1>1 DEF EvalInv, Place, Embedding, Shown, Rows
  <2>2. Extracting(e)' /\ Spending(e)'
    BY <1>1 DEF EvalInv, Extracting, Spending, Rows, Here
  <2> QED
    BY <2>1, <2>2 DEF EvalInv
<1>5. \A d \in Eval \ {e} : EvalInv(d)'
  BY <1>1, OthersKeep DEF Mine
<1> QED
  BY <1>2, <1>3, <1>4, <1>5

(* A step to an error ends the evaluation. *)
LEMMA ErrorKeeps ==
    ASSUME ModelsInv, NEW e \in Eval, pc[e] # "loading", pc' = [pc EXCEPT ![e] = "error"],
           UNCHANGED <<registry, batch, shared, mine, call, done, found, result, budget, grown, unseen, mixed>>
    PROVE  ModelsInv'
<1> USE DEF ModelsInv, shared
<1>1. ModelsTypeOK'
  BY DEF ModelsTypeOK, Places, Ended, Each
<1>2. GgufInv'
  <2>1. "error" \notin {"loading", "caching"} /\ UNCHANGED <<registry, batch, cache, loaded, writer>>
    OBVIOUS
  <2> QED
    BY <2>1, GgufKeeps
<1>3. EvalInv(e)'
  <2>1. pc'[e] = "error"
    BY DEF ModelsTypeOK
  <2> QED
    BY <2>1 DEF EvalInv, Place, Embedding, Shown, Extracting, Spending, Rows
<1>4. \A d \in Eval \ {e} : EvalInv(d)'
  BY OthersKeep DEF Mine, ModelsTypeOK
<1> QED
  BY <1>1, <1>2, <1>3, <1>4

LEMMA CallFailsKeeps ==
    ASSUME ModelsInv, NEW e \in Eval, CallFails(e)
    PROVE  ModelsInv'
<1>1. pc[e] = "sending" /\ UNCHANGED <<registry, batch, shared, mine, call, budget, grown, unseen, mixed>>
  BY DEF CallFails
<1>2. CASE registry.function = "remote_embed" /\ Goto(e, "error") /\ UNCHANGED <<result, done, found>>
  BY <1>1, <1>2, ErrorKeeps DEF Goto
<1>3. CASE registry.function = "llm_extract" /\ RowDone(e, <<Entity(e, "error")>>)
  <2>1. done[e] \in Nat /\ done[e] < Len(Rows(e)) /\ Here(e).text \notin {Null, Empty}
    BY <1>1, <1>3 DEF ModelsInv, ModelsTypeOK, EvalInv, Extracting
  <2> DEFINE one == <<Entity(e, "error")>>
  <2>2. /\ one \in Seq(EntityRecord) /\ DOMAIN one = {1}
        /\ one[1].row = done[e] + 1 /\ one[1].sort = "error" /\ one[1].status = "error"
    BY <2>1 DEF Entity, EntityRecord, Sort
  <2> HIDE DEF one
  <2>3. RowMade(Here(e).text, one, done[e] + 1) /\ ~Weak(one, registry.required)
    BY <2>1, <2>2 DEF RowMade, OfRow, Weak, Says
  <2>4. unseen' = [unseen EXCEPT ![e] = unseen'[e]] /\ unseen'[e] = unseen[e]
    BY <1>1 DEF ModelsInv, ModelsTypeOK
  <2>5. RowDone(e, one)
    BY <1>3 DEF one
  <2> QED
    BY <1>1, <1>3, <2>1, <2>3, <2>4, <2>5, RowDoneKeeps
<1> QED
  BY <1>2, <1>3 DEF CallFails

LEMMA NextRowKeeps ==
    ASSUME ModelsInv, NEW e \in Eval, NextRow(e)
    PROVE  ModelsInv'
<1>1. /\ pc[e] = "row" /\ registry.function = "llm_extract" /\ done[e] < Len(Rows(e))
      /\ UNCHANGED <<registry, batch, shared, mine, budget, grown, unseen, mixed>>
  BY DEF NextRow, Calls
<1>2. CASE Here(e).text \in {Null, Empty} /\ RowDone(e, <<>>) /\ UNCHANGED call
  <2>1. RowMade(Here(e).text, <<>>, done[e] + 1) /\ ~Weak(<<>>, registry.required)
    BY DEF RowMade, OfRow, Weak
  <2>2. unseen' = [unseen EXCEPT ![e] = unseen'[e]] /\ unseen'[e] = unseen[e]
    BY <1>1 DEF ModelsInv, ModelsTypeOK
  <2> QED
    BY <1>1, <1>2, <2>1, <2>2, RowDoneKeeps
<1>3. CASE /\ Here(e).text \notin {Null, Empty}
           /\ call' = Set(call, e, FirstCall(FALSE)) /\ Goto(e, "sending") /\ UNCHANGED <<result, done, found>>
  <2> USE DEF ModelsInv, shared
  <2>1. FirstCall(FALSE) \in CallRecord /\ FirstCall(FALSE).image = FALSE
    BY DEF FirstCall, CallRecord
  <2>2. /\ call' = [call EXCEPT ![e] = FirstCall(FALSE)] /\ pc' = [pc EXCEPT ![e] = "sending"]
    BY <1>3 DEF Set, Goto
  <2>3. pc'[e] = "sending" /\ call'[e].image = FALSE /\ call' \in [Eval -> CallRecord]
    BY <2>1, <2>2 DEF ModelsTypeOK
  <2>4. ModelsTypeOK'
    BY <1>1, <1>3, <2>2, <2>3 DEF ModelsTypeOK, Places, Ended, Each
  <2>5. GgufInv'
    BY <1>1 DEF GgufInv
  <2>6. EvalInv(e)'
    BY <1>1, <1>3, <2>3 DEF EvalInv, Place, Embedding, Shown, Extracting, Spending, Rows, Here
  <2>7. \A d \in Eval \ {e} : EvalInv(d)'
    BY <1>1, <1>3, <2>2, OthersKeep DEF Mine, ModelsTypeOK
  <2> QED
    BY <2>4, <2>5, <2>6, <2>7
<1> QED
  BY <1>2, <1>3 DEF NextRow

LEMMA LlmAnswerKeeps ==
    ASSUME ModelsInv, NEW e \in Eval, LlmAnswer(e)
    PROVE  ModelsInv'
<1>1. /\ pc[e] = "sending" /\ registry.function = "llm_extract"
      /\ UNCHANGED <<registry, batch, shared, mine, call, budget, grown, unseen, mixed>>
  BY DEF LlmAnswer, Calls
<1>2. PICK answer \in Answers :
         LET list == [i \in DOMAIN answer |-> Entity(e, answer[i])]
         IN  IF ~call[e].image /\ MayEscalate(e, list)
             THEN /\ found' = Set(found, e, list) /\ Goto(e, "fetching")
                  /\ UNCHANGED <<result, done>>
             ELSE RowDone(e, Stamp(list))
  BY DEF LlmAnswer
<1> DEFINE list == [i \in DOMAIN answer |-> Entity(e, answer[i])]
<1>3. done[e] \in Nat /\ done[e] < Len(Rows(e)) /\ Here(e).text \notin {Null, Empty}
  BY <1>1 DEF ModelsInv, ModelsTypeOK, EvalInv, Extracting
<1>4. list \in Seq(EntityRecord) /\ OfRow(list, done[e] + 1) /\ Fresh(list)
  <2>1. answer \in Seq(Sort)
    BY ModelAssumption
  <2>2. \A i \in DOMAIN answer : Entity(e, answer[i]) \in EntityRecord
    BY <1>3, <2>1 DEF Entity, EntityRecord
  <2>3. list \in [1..Len(answer) -> EntityRecord] /\ Len(answer) \in Nat
    BY <2>1, <2>2
  <2>4. OfRow(list, done[e] + 1) /\ Fresh(list)
    BY DEF OfRow, Fresh, Entity
  <2> HIDE DEF list
  <2> QED
    BY <2>3, <2>4
<1>5. CASE ~call[e].image /\ MayEscalate(e, list)
  <2> USE DEF ModelsInv, shared
  <2>1. found' = [found EXCEPT ![e] = list] /\ pc' = [pc EXCEPT ![e] = "fetching"] /\ UNCHANGED <<result, done>>
    BY <1>2, <1>5 DEF Set, Goto
  <2> HIDE DEF list
  <2>2. pc'[e] = "fetching" /\ found'[e] = list /\ budget[e] # 0
    BY <1>5, <2>1 DEF ModelsTypeOK, Each, MayEscalate
  <2>3. ModelsTypeOK'
    BY <1>1, <2>1 DEF ModelsTypeOK, Places, Ended, Each
  <2>4. GgufInv'
    BY <1>1 DEF GgufInv
  <2>5. EvalInv(e)'
    BY <1>1, <1>3, <1>4, <1>5, <2>1, <2>2
       DEF EvalInv, Place, Embedding, Shown, Extracting, Spending, Rows, Here
  <2>6. \A d \in Eval \ {e} : EvalInv(d)'
    BY <1>1, <2>1, OthersKeep DEF Mine, ModelsTypeOK, Each
  <2> QED
    BY <2>3, <2>4, <2>5, <2>6
<1>6. CASE ~(~call[e].image /\ MayEscalate(e, list))
  <2>1. RowDone(e, Stamp(list))
    BY <1>2, <1>6
  <2> HIDE DEF list
  <2>2. done[e] + 1 \in Nat
    BY <1>3
  <2>3. /\ RowMade(Here(e).text, Stamp(list), done[e] + 1)
        /\ Weak(Stamp(list), registry.required) => \E n \in DOMAIN list : IsWeak(list[n].sort)
    BY <1>3, <1>4, <2>2, Stamped
  <2>4. unseen' = [unseen EXCEPT ![e] = unseen'[e]] /\ unseen'[e] = unseen[e]
    BY <1>1 DEF ModelsInv, ModelsTypeOK
  <2>5. ASSUME done[e] + 1 \notin grown[e], registry.vision, Here(e).image # "none", Weak(Stamp(list), registry.required)
        PROVE  registry.cap # Null /\ Cardinality(grown[e] \cap 1..done[e] + 1) = registry.cap
    <3>1. Spending(e) /\ registry.cap \in Nat \cup {Null}
      BY BatchTypes DEF ModelsInv, EvalInv
    <3>2. ~call[e].image
      BY <1>1, <2>5, <3>1 DEF Spending
    <3>3. budget[e] = 0
      BY <1>6, <2>3, <2>5, <3>2 DEF MayEscalate
    <3>4. registry.cap # Null /\ Cardinality(grown[e]) + budget[e] = registry.cap /\ IsFiniteSet(grown[e])
      BY <1>1, <3>1, <3>3, ModelAssumption DEF Spending
    <3>5. grown[e] \cap 1..done[e] + 1 = grown[e]
      BY <1>1, <3>1 DEF Spending
    <3>6. Cardinality(grown[e]) \in Nat
      BY <3>4, FS_CardinalityType
    <3> QED
      BY <3>3, <3>4, <3>5, <3>6
  <2> QED
    BY <1>1, <1>3, <2>1, <2>3, <2>4, <2>5, RowDoneKeeps
<1> QED
  BY <1>5, <1>6

LEMMA FetchKeeps ==
    ASSUME ModelsInv, NEW e \in Eval, Fetch(e)
    PROVE  ModelsInv'
<1>1. /\ pc[e] = "fetching" /\ registry.function = "llm_extract"
      /\ UNCHANGED <<registry, batch, shared, mine, mixed>>
  BY DEF Fetch, Calls
<1>2. /\ done[e] \in Nat /\ done[e] < Len(Rows(e)) /\ Here(e).text \notin {Null, Empty}
      /\ found[e] \in Seq(EntityRecord) /\ OfRow(found[e], done[e] + 1) /\ Fresh(found[e])
      /\ Spending(e) /\ registry.cap \in Nat \cup {Null}
  BY <1>1, BatchTypes DEF ModelsInv, ModelsTypeOK, EvalInv, Extracting
<1>3. CASE /\ budget' = Set(budget, e, Spent(budget[e]))
           /\ grown' = Set(grown, e, grown[e] \cup {done[e] + 1})
           /\ call' = Set(call, e, FirstCall(TRUE)) /\ Goto(e, "sending")
           /\ UNCHANGED <<result, done, found, unseen>>
  <2> USE DEF ModelsInv, shared
  <2>1. /\ budget' = [budget EXCEPT ![e] = Spent(budget[e])]
        /\ grown' = [grown EXCEPT ![e] = grown[e] \cup {done[e] + 1}]
        /\ call' = [call EXCEPT ![e] = FirstCall(TRUE)] /\ pc' = [pc EXCEPT ![e] = "sending"]
    BY <1>3 DEF Set, Goto
  <2>2. FirstCall(TRUE) \in CallRecord /\ FirstCall(TRUE).image = TRUE
    BY DEF FirstCall, CallRecord
  <2>3. /\ IsFiniteSet(grown[e]) /\ grown[e] \subseteq 1..done[e] /\ done[e] + 1 \notin grown[e]
        /\ grown[e] \subseteq Nat /\ unseen[e] \subseteq 1..done[e] /\ budget[e] # 0
    BY <1>1, <1>2 DEF Spending
  <2>4. Spent(budget[e]) \in Nat \cup {Null}
    BY <2>3, ModelAssumption DEF ModelsTypeOK, Spent
  <2>5. /\ budget'[e] = Spent(budget[e]) /\ grown'[e] = grown[e] \cup {done[e] + 1}
        /\ call'[e].image = TRUE /\ pc'[e] = "sending"
    BY <2>1, <2>2 DEF ModelsTypeOK
  <2>6. ModelsTypeOK'
    <3>1. budget' \in [Eval -> Nat \cup {Null}] /\ grown' \in [Eval -> SUBSET Nat]
      BY <1>2, <2>1, <2>3, <2>4 DEF ModelsTypeOK
    <3>2. call' \in [Eval -> CallRecord]
      BY <2>1, <2>2 DEF ModelsTypeOK
    <3>3. pc' \in [Eval -> Places]
      BY <2>1 DEF ModelsTypeOK, Places
    <3> QED
      BY <1>1, <1>3, <3>1, <3>2, <3>3 DEF ModelsTypeOK, Each
  <2>7. GgufInv'
    BY <1>1 DEF GgufInv
  <2>8. IsFiniteSet(grown'[e]) /\ Cardinality(grown'[e]) = Cardinality(grown[e]) + 1
    <3> DEFINE g == grown[e]  n == done[e] + 1
    <3>1. IsFiniteSet(g) /\ n \notin g
      BY <2>3
    <3> HIDE DEF g, n
    <3>2. IsFiniteSet(g \cup {n}) /\ Cardinality(g \cup {n}) = Cardinality(g) + 1
      BY <3>1, FS_AddElement
    <3> USE DEF g, n
    <3> QED
      BY <2>5, <3>2
  <2>9. IF registry.cap = Null THEN budget'[e] = Null
        ELSE budget'[e] \in Nat /\ Cardinality(grown'[e]) + budget'[e] = registry.cap
    <3>1. CASE registry.cap = Null
      BY <1>1, <1>2, <2>5, <3>1 DEF Spending, Spent
    <3>2. CASE registry.cap # Null
      <4>1. budget[e] \in Nat /\ Cardinality(grown[e]) + budget[e] = registry.cap
        BY <1>1, <1>2, <3>2 DEF Spending
      <4>2. Cardinality(grown[e]) \in Nat
        BY <2>3, FS_CardinalityType
      <4>3. budget'[e] = budget[e] - 1
        BY <2>5, <4>1, ModelAssumption DEF Spent
      <4> QED
        BY <2>3, <2>8, <3>2, <4>1, <4>2, <4>3
    <3> QED
      BY <3>1, <3>2
  <2>10. \A i \in DOMAIN result[e] : grown'[e] \cap 1..i = grown[e] \cap 1..i
    <3>1. DOMAIN result[e] = 1..done[e]
      BY <1>1 DEF EvalInv, Extracting
    <3> QED
      BY <1>2, <2>5, <3>1
  <2>11. Spending(e)'
    <3>1. grown'[e] \subseteq 1..done[e] + 1 /\ done[e] + 1 \in grown'[e]
      BY <1>2, <2>3, <2>5
    <3>2. \A i \in DOMAIN result[e] \ (grown'[e] \cup unseen[e]) :
             registry.vision /\ Rows(e)[i].image # "none" /\ Weak(result[e][i], registry.required) =>
                 registry.cap # Null /\ Cardinality(grown'[e] \cap 1..i) = registry.cap
      BY <1>1, <1>2, <2>5, <2>10 DEF Spending
    <3> QED
      BY <1>1, <1>3, <2>3, <2>5, <2>8, <2>9, <3>1, <3>2 DEF Spending, Rows
  <2>12. EvalInv(e)'
    BY <1>1, <1>2, <1>3, <2>5, <2>11 DEF EvalInv, Place, Embedding, Shown, Extracting, Rows, Here
  <2>13. \A d \in Eval \ {e} : EvalInv(d)'
    BY <1>1, <1>3, <2>1, OthersKeep DEF Mine, ModelsTypeOK
  <2> QED
    BY <2>6, <2>7, <2>12, <2>13
<1>4. CASE /\ unseen' = Set(unseen, e, unseen[e] \cup {done[e] + 1})
           /\ RowDone(e, Stamp(found[e])) /\ UNCHANGED <<call, budget, grown>>
  <2>1. done[e] + 1 \in Nat
    BY <1>2
  <2>2. RowMade(Here(e).text, Stamp(found[e]), done[e] + 1)
    BY <1>2, <2>1, Stamped
  <2>3. unseen' = [unseen EXCEPT ![e] = unseen'[e]] /\ unseen'[e] = unseen[e] \cup {done[e] + 1}
    BY <1>4 DEF ModelsInv, ModelsTypeOK, Set
  <2> QED
    BY <1>1, <1>2, <1>4, <2>2, <2>3, RowDoneKeeps
<1> QED
  BY <1>3, <1>4 DEF Fetch

LEMMA ExtractedKeeps ==
    ASSUME ModelsInv, NEW e \in Eval, Extracted(e)
    PROVE  ModelsInv'
<1> USE DEF ModelsInv, shared, work
<1>1. /\ registry.function = "llm_extract" /\ pc[e] = "row" /\ done[e] = Len(Rows(e))
      /\ pc' = [pc EXCEPT ![e] = "ok"] /\ pc'[e] = "ok"
      /\ UNCHANGED <<registry, batch, cache, loaded, writer, poisoned, mine, call, done, found, result, budget,
                     grown, unseen, mixed>>
  BY DEF Extracted, Calls, Goto, ModelsTypeOK
<1>2. ModelsTypeOK'
  BY <1>1 DEF ModelsTypeOK, Places, Ended, Each
<1>3. GgufInv'
  BY <1>1 DEF GgufInv
<1>4. EvalInv(e)'
  BY <1>1 DEF EvalInv, Place, Embedding, Shown, Extracting, Spending, Rows, Here
<1>5. \A d \in Eval \ {e} : EvalInv(d)'
  BY <1>1, OthersKeep DEF Mine, ModelsTypeOK
<1> QED
  BY <1>2, <1>3, <1>4, <1>5

-----------------------------------------------------------------------------
(* remote_embed.                                                            *)

LEMMA ChunkOf ==
    ASSUME NEW S, NEW s \in Seq(S), NEW n \in Nat, NEW m \in Nat, n <= m, m <= Len(s)
    PROVE  /\ SubSeq(s, n + 1, m) \in Seq(S) /\ Len(SubSeq(s, n + 1, m)) = m - n
           /\ DOMAIN SubSeq(s, n + 1, m) = 1..m - n
           /\ \A i \in 1..m - n : SubSeq(s, n + 1, m)[i] = s[n + i]
OBVIOUS

LEMMA Lined ==
    ASSUME NEW S, NEW k \in Nat, NEW f \in [1..k -> S]
    PROVE  f \in Seq(S) /\ Len(f) = k
OBVIOUS

Together(u, v) == u \o v

LEMMA Joined ==
    ASSUME NEW S, NEW u \in Seq(S), NEW v \in Seq(S), NEW both, both = Together(u, v), NEW n \in Nat, n = Len(u),
           NEW m \in Nat, m = n + Len(v)
    PROVE  /\ both \in Seq(S) /\ Len(both) = m
           /\ \A k \in 1..n : both[k] = u[k]
           /\ \A k \in n + 1..m : both[k] = v[k - n]
BY DEF Together

(* What has been embedded and the next chunk: in the order of the texts, or, if the answer was not, *)
(* with the texts of the chunk mixed.                                                               *)
Lengthened(T, n, m, spoilt, vectors, given, more, all) ==
    LET chunk == SubSeq(T, n + 1, m)
    IN  /\ n \in Nat /\ m \in Nat /\ n < m /\ m <= Len(T) /\ m <= n + ChunkLimit
        /\ Embeds(T, spoilt, vectors, n)
        /\ given \in [DOMAIN chunk -> Range(chunk)]
        /\ more = spoilt \cup {c \in {n} : given # chunk} /\ all = vectors \o given

LEMMA NextChunk ==
    ASSUME NEW S, NEW T \in Seq(S), NEW n, NEW m, NEW spoilt, NEW vectors, NEW given, NEW more, NEW all,
           Lengthened(T, n, m, spoilt, vectors, given, more, all)
    PROVE  Embeds(T, more, all, m)
<1>a. PICK chunk : chunk = SubSeq(T, n + 1, m)
  OBVIOUS
<1>b. /\ n \in Nat /\ m \in Nat /\ n < m /\ m <= Len(T) /\ m <= n + ChunkLimit
      /\ Embeds(T, spoilt, vectors, n) /\ given \in [DOMAIN chunk -> Range(chunk)]
      /\ more = spoilt \cup {c \in {n} : given # chunk} /\ all = vectors \o given
  BY <1>a DEF Lengthened
<1> USE <1>a, <1>b
<1>1. ChunkLimit \in Nat \ {0}
  BY ModelAssumption
<1>2. chunk \in Seq(S) /\ DOMAIN chunk = 1..m - n /\ \A i \in 1..m - n : chunk[i] = T[n + i]
  BY ChunkOf
<1>3. \A i \in 1..m - n : \E l \in n + 1..m : given[i] = T[l]
  <2> TAKE i \in 1..m - n
  <2>0. given[i] \in Range(chunk)
    BY <1>2
  <2>1. PICK k \in 1..m - n : given[i] = chunk[k]
    BY <1>2, <2>0 DEF Range
  <2>a. n + k \in n + 1..m
    OBVIOUS
  <2>b. chunk[k] = T[n + k]
    BY <1>2
  <2>2. n + k \in n + 1..m /\ given[i] = T[n + k]
    BY <2>1, <2>a, <2>b
  <2> QED
    BY <2>2
<1>4. \A l \in 1..Len(T) : T[l] \in Range(T)
  BY DEF Range
<1>5. given \in Seq(Range(T)) /\ Len(given) = m - n
  <2>1. ASSUME NEW i \in 1..m - n PROVE given[i] \in Range(T)
    <3>1. PICK l \in n + 1..m : given[i] = T[l]
      BY <1>3
    <3>2. l \in 1..Len(T)
      OBVIOUS
    <3> QED
      BY <1>4, <3>1, <3>2
  <2>2. PICK k \in Nat : k = m - n
    OBVIOUS
  <2>3. given \in [1..k -> Range(T)]
    BY <1>2, <2>1, <2>2
  <2>4. given \in Seq(Range(T)) /\ Len(given) = k
    BY <2>3, Lined
  <2> QED
    BY <2>2, <2>4
<1>6. vectors \in Seq(Range(T)) /\ Len(vectors) = n /\ \A k \in 1..n : Close(T, spoilt, k, vectors[k])
  BY DEF Embeds
<1>7. /\ all \in Seq(Range(T)) /\ Len(all) = m
      /\ \A k \in 1..n : all[k] = vectors[k]
      /\ \A k \in n + 1..m : all[k] = given[k - n]
  <2>1. m = n + Len(given) /\ n = Len(vectors)
    BY <1>5, <1>6
  <2>2. all = Together(vectors, given)
    BY DEF Together
  <2> QED
    BY <1>5, <1>6, <2>1, <2>2, Joined
<1>8. \A k \in 1..n : Close(T, more, k, vectors[k])
  BY <1>6 DEF Close
<1>9. \A k \in n + 1..m : Close(T, more, k, given[k - n])
  <2> TAKE k \in n + 1..m
  <2>1. k - n \in 1..m - n /\ n + (k - n) = k
    OBVIOUS
  <2>2. CASE given = chunk
    BY <1>2, <2>1, <2>2 DEF Close
  <2>3. CASE given # chunk
    <3>1. PICK l \in n + 1..m : given[k - n] = T[l]
      BY <1>3, <2>1
    <3>2. n \in more
      BY <2>3
    <3>3. l \in 1..Len(T) /\ {k, l} \subseteq n + 1..n + ChunkLimit
      BY <1>1
    <3> QED
      BY <3>1, <3>2, <3>3 DEF Close
  <2> QED
    BY <2>2, <2>3
<1>10. \A k \in 1..m : Close(T, more, k, all[k])
  <2> TAKE k \in 1..m
  <2>1. k \in 1..n \/ k \in n + 1..m
    OBVIOUS
  <2> QED
    BY <1>7, <1>8, <1>9, <2>1
<1> QED
  BY <1>7, <1>10 DEF Embeds

LEMMA EmbedAnswerKeeps ==
    ASSUME ModelsInv, NEW e \in Eval, EmbedAnswer(e)
    PROVE  ModelsInv'
<1>a. PICK T : T = Texts(Rows(e))
  OBVIOUS
<1>b. PICK m : m = IF done[e] + ChunkLimit > Len(T) THEN Len(T) ELSE done[e] + ChunkLimit
  OBVIOUS
<1>1. /\ pc[e] = "sending" /\ registry.function = "remote_embed"
      /\ UNCHANGED <<registry, batch, shared, mine, budget, grown, unseen>>
  BY DEF EmbedAnswer, Calls
<1>2. /\ Rows(e) \in Seq(Row) /\ done[e] \in Nat /\ done[e] < Len(T) /\ Embeds(T, mixed[e], found[e], done[e])
      /\ T \in Seq(Sent(Rows(e))) /\ Len(T) \in Nat /\ Len(T) = Before(Rows(e), Len(Rows(e)))
  BY <1>1, <1>a, BatchTypes, TextOfRow DEF ModelsInv, ModelsTypeOK, EvalInv, Embedding
<1>3. m \in Nat /\ done[e] < m /\ m <= Len(T) /\ m <= done[e] + ChunkLimit /\ Chunk(e) = SubSeq(T, done[e] + 1, m)
  BY <1>2, <1>a, <1>b, ModelAssumption DEF Chunk
<1>4. /\ Len(Chunk(e)) = m - done[e] /\ Chunk(e) \in Seq(Sent(Rows(e)))
      /\ Len(Chunk(e)) \in Nat \ {0} /\ done[e] + Len(Chunk(e)) = m
  <2>1. Len(Chunk(e)) = m - done[e] /\ Chunk(e) \in Seq(Sent(Rows(e)))
    BY <1>2, <1>3, ChunkOf
  <2>2. done[e] \in Nat /\ m \in Nat /\ done[e] < m
    BY <1>2, <1>3
  <2>3. m - done[e] \in Nat \ {0} /\ done[e] + (m - done[e]) = m
    BY <2>2
  <2> QED
    BY <2>1, <2>3
<1>5. PICK given \in [DOMAIN Chunk(e) -> Range(Chunk(e))] \cup {Front(Chunk(e)), <<Empty>> \o Chunk(e)} :
         LET all == found[e] \o given
             last == done[e] + Len(Chunk(e)) = Len(Texts(Rows(e)))
         IN  \/ /\ LengthRight(given, Chunk(e))
                /\ found' = Set(found, e, all)
                /\ done' = Set(done, e, done[e] + Len(Chunk(e)))
                /\ mixed' = Set(mixed, e, mixed[e] \cup {c \in {done[e]} : given # Chunk(e)})
                /\ call' = Set(call, e, FirstCall(FALSE))
                /\ IF last THEN result' = Set(result, e, Reassembled(Rows(e), all)) /\ Goto(e, "ok")
                           ELSE UNCHANGED <<result, pc>>
             \/ /\ ~LengthRight(given, Chunk(e))
                /\ Goto(e, "error") /\ UNCHANGED <<found, done, mixed, call, result>>
  BY DEF EmbedAnswer
<1>6. CASE ~LengthRight(given, Chunk(e))
  <2>1. pc' = [pc EXCEPT ![e] = "error"] /\ UNCHANGED <<found, done, mixed, call, result>>
    BY <1>5, <1>6 DEF Goto
  <2> QED
    BY <1>1, <2>1, ErrorKeeps
<1>7. CASE LengthRight(given, Chunk(e))
  <2>1. given \in [DOMAIN Chunk(e) -> Range(Chunk(e))]
    <3>1. Len(Front(Chunk(e))) # Len(Chunk(e))
      BY <1>4 DEF Front
    <3>2. Len(<<Empty>> \o Chunk(e)) # Len(Chunk(e))
      <4>1. <<Empty>> \in Seq(Sent(Rows(e)))
        BY DEF Sent
      <4>2. Len(<<Empty>> \o Chunk(e)) = 1 + Len(Chunk(e))
        BY <1>4, <4>1
      <4> QED
        BY <1>4, <4>2
    <3> QED
      BY <1>7, <3>1, <3>2 DEF LengthRight
  <2>a. PICK all : all = found[e] \o given
    OBVIOUS
  <2>b. PICK spoilt : spoilt = mixed[e] \cup {c \in {done[e]} : given # Chunk(e)}
    OBVIOUS
  <2>2. Embeds(T, spoilt, all, m)
    <3>1. Lengthened(T, done[e], m, mixed[e], found[e], given, spoilt, all)
      BY <1>2, <1>3, <2>1, <2>a, <2>b DEF Lengthened
    <3>2. T \in Seq(Sent(Rows(e)))
      BY <1>2
    <3> QED
      BY <3>1, <3>2, NextChunk
  <2>3. /\ found' = [found EXCEPT ![e] = all] /\ done' = [done EXCEPT ![e] = m]
        /\ mixed' = [mixed EXCEPT ![e] = spoilt] /\ call' = [call EXCEPT ![e] = FirstCall(FALSE)]
        /\ IF m = Len(T) THEN /\ result' = [result EXCEPT ![e] = Reassembled(Rows(e), all)]
                              /\ pc' = [pc EXCEPT ![e] = "ok"]
                         ELSE UNCHANGED <<result, pc>>
    BY <1>4, <1>5, <1>7, <1>a, <2>a, <2>b DEF Set, Goto
  <2> USE DEF ModelsInv, shared
  <2>4. FirstCall(FALSE) \in CallRecord
    BY DEF FirstCall, CallRecord
  <2>5. ModelsTypeOK'
    <3>1. done' \in [Eval -> Nat] /\ call' \in [Eval -> CallRecord]
      BY <1>3, <2>3, <2>4 DEF ModelsTypeOK
    <3>2. Each(found)' /\ Each(result)' /\ pc' \in [Eval -> Places]
      BY <2>3 DEF ModelsTypeOK, Each, Places, Ended
    <3>3. spoilt \in SUBSET Nat
      BY <1>2, <2>b DEF ModelsTypeOK
    <3>4. mixed' \in [Eval -> SUBSET Nat]
      BY <2>3, <3>3 DEF ModelsTypeOK
    <3> QED
      BY <1>1, <3>1, <3>2, <3>4 DEF ModelsTypeOK
  <2>6. GgufInv'
    BY <1>1, <2>3 DEF GgufInv
  <2>7. found'[e] = all /\ done'[e] = m /\ mixed'[e] = spoilt /\ Rows(e)' = Rows(e)
    BY <1>1, <2>3 DEF ModelsTypeOK, Each, Rows
  <2>8. EvalInv(e)'
    <3>1. CASE m = Len(T)
      <4>1. pc'[e] = "ok" /\ result'[e] = Reassembled(Rows(e), all)
        BY <2>3, <3>1 DEF ModelsTypeOK, Each
      <4>2. EmbeddedRows(Rows(e), spoilt, result'[e])
        <5>1. all \in Seq(Range(T)) /\ Len(all) = Len(T) /\ \A k \in 1..m : Close(T, spoilt, k, all[k])
          BY <2>2, <3>1 DEF Embeds
        <5>2. /\ Len(result'[e]) = Len(Rows(e))
              /\ \A i \in DOMAIN Rows(e) : result'[e][i] =
                    IF Rows(e)[i].text = Null THEN Null ELSE all[Before(Rows(e), i)]
          BY <1>2, <4>1, <5>1, Reassembly
        <5>3. \A i \in DOMAIN Rows(e) : Rows(e)[i].text # Null => Before(Rows(e), i) \in 1..m
          BY <1>2, <3>1, BeforeCounts DEF WithText
        <5> QED
          BY <1>a, <5>1, <5>2, <5>3 DEF EmbeddedRows
      <4>3. Shown(e)'
        BY <1>1, <2>7, <4>1, <4>2 DEF Shown
      <4> QED
        BY <1>1, <4>1, <4>3 DEF EvalInv, Place, Embedding, Extracting, Spending
    <3>2. CASE m # Len(T)
      <4>1. m < Len(T) /\ UNCHANGED <<result, pc>>
        BY <1>2, <1>3, <2>3, <3>2
      <4>2. Embedding(e)'
        BY <1>1, <1>a, <2>2, <2>7, <4>1 DEF Embedding
      <4> QED
        BY <1>1, <4>1, <4>2 DEF EvalInv, Place, Shown, Extracting, Spending
    <3> QED
      BY <3>1, <3>2
  <2>9. \A d \in Eval \ {e} : EvalInv(d)'
    BY <1>1, <2>3, OthersKeep DEF Mine, ModelsTypeOK, Each
  <2> QED
    BY <2>5, <2>6, <2>8, <2>9
<1> QED
  BY <1>6, <1>7

-----------------------------------------------------------------------------
(* Results.                                                                 *)

LEMMA ModelsStep == ModelsInv /\ [Next]_vars => ModelsInv'
<1> SUFFICES ASSUME ModelsInv, [Next]_vars PROVE ModelsInv'
  OBVIOUS
<1>1. ASSUME NEW e \in Eval, Begin(e) PROVE ModelsInv'
  BY <1>1, BeginKeeps
<1>2. ASSUME NEW e \in Eval, LocalStep(e) PROVE ModelsInv'
  BY <1>2, LoadingKeeps, RunningKeeps DEF LocalStep
<1>3. ASSUME NEW e \in Eval, RemoteStep(e) PROVE ModelsInv'
  BY <1>3, CallingKeeps, CallFailsKeeps, EmbedAnswerKeeps, NextRowKeeps, LlmAnswerKeeps, FetchKeeps,
     ExtractedKeeps DEF RemoteStep
<1>4. CASE UNCHANGED vars
  <2>1. \A e \in Eval : EvalInv(e)'
    BY <1>4, OthersKeep DEF vars, work, Mine, ModelsInv
  <2> QED
    BY <1>4, <2>1 DEF vars, shared, work, ModelsInv, ModelsTypeOK, GgufInv, Model, Each
<1> QED
  BY <1>1, <1>2, <1>3, <1>4 DEF Next, Step

LEMMA ModelsAlways == Spec => []ModelsInv
BY ModelsInitially, ModelsStep, PTL DEF Spec

(* However many evaluations ask for a gguf model at once, it is loaded once: the write lock is *)
(* held from the second look at the cache to the insertion (GgufModelRegistry::get_or_load).   *)
THEOREM LoadsOnce == Spec => []GgufLoadsOnce
<1>1. ModelsInv => GgufLoadsOnce
  BY DEF ModelsInv, GgufInv, GgufLoadsOnce
<1> QED
  BY <1>1, ModelsAlways, PTL

(* Every function answers with a row for each row of its batch, made of that row, for batches  *)
(* of any length and any limit of the provider's requests: rows without text are left out and  *)
(* put back (gguf, remote_embed), the chunks of remote_embed keep their order and a request    *)
(* answered out of order spoils its own rows only, and the entities llm_extract gives a row    *)
(* name it and say how sure they are, values that are no objects alone saying nothing.         *)
THEOREM RowsAnswered == Spec => []AnswersRows
<1>1. ModelsInv => AnswersRows
  <2> DEFINE Answered(e) ==
        /\ Len(result[e]) = Len(Rows(e))
        /\ \A i \in DOMAIN Rows(e) :
              LET text == Rows(e)[i].text  answer == result[e][i]
              IN  CASE registry.function = "gguf" -> answer = text
                    [] registry.function = "remote_embed" ->
                          answer = text \/ (text # Null /\ Spoilt(e, i, answer))
                    [] registry.function \in {"candle", "onnx"} ->
                          answer = IF text = Null THEN Empty ELSE text
                    [] registry.function = "llm_extract" ->
                          /\ text \in {Null, Empty} => answer = <<>>
                          /\ \A n \in DOMAIN answer :
                                /\ answer[n].row = i
                                /\ answer[n].status = CASE answer[n].sort = "strong" -> "ok"
                                                        [] answer[n].sort = "weak" -> "low_confidence"
                                                        [] answer[n].sort = "error" -> "error"
                                                        [] OTHER -> "none"
  <2> SUFFICES ASSUME ModelsInv, NEW e \in Eval, pc[e] = "ok" PROVE Answered(e)
    BY DEF AnswersRows
  <2>1. Rows(e) \in Seq(Row) /\ registry \in Setting
    BY BatchTypes DEF ModelsInv
  <2>2. registry.function \in Local \cup {"remote_embed", "llm_extract"}
    BY <2>1 DEF Setting
  <2>3. Shown(e) /\ Extracting(e)
    BY DEF ModelsInv, EvalInv
  <2>4. CASE registry.function = "gguf"
    BY <2>3, <2>4 DEF Shown
  <2>5. CASE registry.function \in {"candle", "onnx"}
    BY <2>3, <2>5 DEF Shown
  <2>6. CASE registry.function = "llm_extract"
    <3>1. /\ result[e] \in Seq(Seq(EntityRecord)) /\ Len(result[e]) = Len(Rows(e))
          /\ \A i \in DOMAIN result[e] : RowMade(Rows(e)[i].text, result[e][i], i)
      BY <2>3, <2>6 DEF Extracting
    <3>2. DOMAIN result[e] = DOMAIN Rows(e)
      BY <2>1, <3>1
    <3>3. \A i \in DOMAIN Rows(e) :
             /\ Rows(e)[i].text \in {Null, Empty} => result[e][i] = <<>>
             /\ \A n \in DOMAIN result[e][i] : result[e][i][n].row = i /\ Says(result[e][i][n])
      BY <3>1, <3>2 DEF RowMade, OfRow
    <3> QED
      BY <2>6, <3>1, <3>3 DEF Says
  <2>7. CASE registry.function = "remote_embed"
    <3>1. EmbeddedRows(Rows(e), mixed[e], result[e])
      BY <2>3, <2>7 DEF Shown
    <3>2. ASSUME NEW i \in DOMAIN Rows(e)
          PROVE  result[e][i] = Rows(e)[i].text \/ (Rows(e)[i].text # Null /\ Spoilt(e, i, result[e][i]))
      <4>1. CASE Rows(e)[i].text = Null
        BY <3>1, <4>1 DEF EmbeddedRows
      <4>2. CASE Rows(e)[i].text # Null
        <5>1. i \in WithText(Rows(e)) /\ Close(Texts(Rows(e)), mixed[e], Before(Rows(e), i), result[e][i])
          BY <3>1, <4>2 DEF EmbeddedRows, WithText
        <5>2. Texts(Rows(e))[Before(Rows(e), i)] = Rows(e)[i].text
          BY <2>1, <5>1, TextOfRow
        <5>3. CASE \E c \in mixed[e], l \in 1..Len(Texts(Rows(e))) :
                     /\ {Before(Rows(e), i), l} \subseteq c + 1..c + ChunkLimit
                     /\ result[e][i] = Texts(Rows(e))[l]
          <6>1. PICK c \in mixed[e], l \in 1..Len(Texts(Rows(e))) :
                     /\ {Before(Rows(e), i), l} \subseteq c + 1..c + ChunkLimit
                     /\ result[e][i] = Texts(Rows(e))[l]
            BY <5>3
          <6>2. l \in 1..Before(Rows(e), Len(Rows(e)))
            BY <2>1, TextOfRow
          <6>3. PICK j \in WithText(Rows(e)) : Before(Rows(e), j) = l
            BY <2>1, <6>2, TextsHaveRows
          <6>4. result[e][i] = Rows(e)[j].text
            BY <2>1, <6>1, <6>3, TextOfRow
          <6> QED
            BY <4>2, <6>1, <6>3, <6>4 DEF Spoilt
        <5> QED
          BY <5>1, <5>2, <5>3 DEF Close
      <4> QED
        BY <4>1, <4>2
    <3> QED
      BY <2>7, <3>1, <3>2 DEF EmbeddedRows
  <2> QED
    BY <2>2, <2>4, <2>5, <2>6, <2>7 DEF Local
<1> QED
  BY <1>1, ModelsAlways, PTL

(* Escalations of a batch stay within the cap, and a row left weak with an image at hand is one*)
(* the cap had nothing left for: an escalation is paid for when its image is there, not before *)
(* (LlmExtractUdf::invoke_with_args, extract_row).                                             *)
THEOREM BudgetKept == Spec => []EscalationBudget
<1>1. ModelsInv => EscalationBudget
  <2> SUFFICES ASSUME ModelsInv, NEW e \in Eval
               PROVE  /\ registry.cap # Null => Cardinality(grown[e]) <= registry.cap
                      /\ \A i \in DOMAIN result[e] \ (grown[e] \cup unseen[e]) :
                            /\ registry.vision /\ Rows(e)[i].image # "none"
                            /\ \E n \in DOMAIN result[e][i] : LET sort == result[e][i][n].sort
                                                             IN  sort # "error" /\ IsWeak(sort)
                            => registry.cap # Null /\ Cardinality(grown[e] \cap 1..i) = registry.cap
    BY DEF EscalationBudget
  <2>1. Spending(e) /\ Place(e) /\ registry.cap \in Nat \cup {Null}
        /\ (registry.vision => registry.function = "llm_extract")
    BY BatchTypes DEF ModelsInv, EvalInv
  <2>2. CASE registry.function = "llm_extract"
    <3>1. IsFiniteSet(grown[e])
      BY <2>1, <2>2 DEF Spending
    <3>2. Cardinality(grown[e]) \in Nat
      BY <3>1, FS_CardinalityType
    <3>3. registry.cap # Null => Cardinality(grown[e]) <= registry.cap
      BY <2>1, <2>2, <3>2 DEF Spending
    <3> QED
      BY <2>1, <2>2, <3>3 DEF Spending, Weak, IsWeak
  <2>3. CASE registry.function # "llm_extract"
    <3>1. grown[e] = {} /\ ~registry.vision
      BY <2>1, <2>3 DEF Place
    <3>2. Cardinality(grown[e]) = 0
      BY <3>1, FS_EmptySet
    <3> QED
      BY <2>1, <3>1, <3>2
  <2> QED
    BY <2>2, <2>3
<1> QED
  BY <1>1, ModelsAlways, PTL
=============================================================================
