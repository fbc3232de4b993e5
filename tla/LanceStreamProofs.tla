------------------------- MODULE LanceStreamProofs -------------------------
(***************************************************************************)
(* Proofs about LanceStream, for any channel capacity and any query.       *)
(***************************************************************************)
EXTENDS LanceStream, TLAPS

\* The write still waits for what its reader returns.
Attached == rxOpen /\ reader # "orphaned"

\* Which of the three actors waits for which.
Shape ==
    /\ write \in {"writing", "committing", "landed"} =>
          rxOpen /\ reader \in {"receiving", "returned"}
    /\ write \in {"late"} \cup Settled => ~Attached
    /\ reader = "receiving" => slot = "none"
    /\ reader = "returned" => slot # "none"
    /\ slot = "end" => pump \in Ended

Hand == IF pump = "sending" THEN 1 ELSE 0
Taken == IF slot = "batch" THEN 1 ELSE 0

\* Where the batches are, and that an error is on its way until it has arrived.
Flow ==
    /\ ~failed =>
          /\ \A i \in 1..Len(chan) : chan[i] = "batch"
          /\ pump = "sending" => item = "batch"
          /\ slot # "error"
    /\ Attached /\ ~failed =>
          /\ yielded = seen + Len(chan) + Hand
          /\ pump = "exited" => yielded = size
    /\ Attached /\ slot # "error" => yielded <= seen + Len(chan) + Hand
    /\ Attached /\ failed =>
          \/ \E i \in 1..Len(chan) : chan[i] = "error"
          \/ pump = "sending" /\ item = "error"
          \/ slot = "error"
    /\ Attached => seen = written + Taken
    /\ Attached /\ slot = "end" => chan = <<>>

\* What is true once the manifest has been asked for stays true.
Sealed ==
    /\ slot = "end" /\ ~failed
    /\ seen = written
    /\ pump = "exited" => seen = size

Manifest ==
    /\ write \in {"committing", "late", "landed", "ok"} => Sealed /\ reader # "receiving"
    /\ dataset # Null => Sealed /\ reader # "receiving" /\ dataset = written
    /\ write \in {"landed", "ok"} => dataset # Null
    /\ write \in {"writing", "committing", "late"} => dataset = Null
    /\ write = "ok" => seen > 0
    /\ write = "error" => dataset \in {Null, 0}

IInv == TypeOK /\ Shape /\ Flow /\ Manifest

USE DEF Item, Settled, Ended, vars, sourceVars, pumpVars, readerVars, writerVars

LEMMA EmptyChannel == <<>> \in Seq(Item) /\ Len(<<>>) = 0
OBVIOUS

\* What blocking_recv takes is the first item; the others move up.
LEMMA TakeFirst ==
    ASSUME NEW c \in Seq(Item), c # <<>>
    PROVE  /\ Head(c) = c[1] /\ Head(c) \in Item
           /\ Tail(c) \in Seq(Item) /\ Len(c) \in Nat \ {0} /\ Len(Tail(c)) = Len(c) - 1
           /\ \A i \in 1..Len(Tail(c)) : i + 1 \in 1..Len(c) /\ Tail(c)[i] = c[i + 1]
           /\ \A i \in 1..Len(c) : i = 1 \/ (i - 1 \in 1..Len(Tail(c)) /\ Tail(c)[i - 1] = c[i])
OBVIOUS

LEMMA InitInv == Init => IInv
<1> SUFFICES ASSUME Init PROVE IInv
  OBVIOUS
<1>1. TypeOK
  <2>1. chan \in Seq(Item) /\ Len(chan) <= Capacity
    <3>1. chan = <<>>
      BY DEF Init
    <3>2. Len(chan) = 0
      BY <3>1, EmptyChannel
    <3> QED
      BY <3>1, <3>2, EmptyChannel, StreamAssumption
  <2>2. failed \in BOOLEAN /\ cancelled \in BOOLEAN /\ rxOpen \in BOOLEAN
    BY Zenon DEF Init
  <2>3. /\ size \in Nat /\ yielded = 0
        /\ pump = "polling" /\ item = "batch" /\ worker = "free"
        /\ reader = "receiving" /\ slot = "none" /\ seen = 0
        /\ written = 0 /\ write = "writing" /\ dataset = Null
    BY StreamAssumption DEF Init
  <2> QED
    BY <2>1, <2>2, <2>3 DEF TypeOK
<1>2. Shape
  BY DEF Init, Shape, Attached
<1>3. Flow
  BY EmptyChannel DEF Init, Flow, Attached, Hand, Taken
<1>4. Manifest
  BY DEF Init, Manifest
<1> QED
  BY <1>1, <1>2, <1>3, <1>4 DEF IInv

\* Letting go of the reader detaches it, whether its thread is in next() or not.
LEMMA LettingGo ==
    ASSUME IInv, LetGo, write \in {"writing", "committing", "landed"}
    PROVE  /\ chan' \in Seq(Item) /\ Len(chan') <= Capacity /\ rxOpen' \in BOOLEAN
           /\ reader' \in {"orphaned", "gone"} /\ ~Attached'
           /\ ~failed => \A i \in 1..Len(chan') : chan'[i] = "batch"
<1>1. CASE reader = "receiving"
  BY <1>1, StreamAssumption DEF LetGo, IInv, TypeOK, Flow, Attached
<1>2. CASE reader # "receiving"
  <2>1. chan' = <<>>
    BY <1>2 DEF LetGo
  <2>2. reader' = "gone" /\ rxOpen' = FALSE
    BY <1>2 DEF LetGo
  <2>3. chan' \in Seq(Item) /\ Len(chan') = 0
    BY <2>1, EmptyChannel
  <2>4. rxOpen' \in BOOLEAN
    BY <2>2, Zenon
  <2> QED
    BY <2>2, <2>3, <2>4, StreamAssumption DEF Attached
<1> QED
  BY <1>1, <1>2

THEOREM StepInv == IInv /\ [Next]_vars => IInv'
<1> SUFFICES ASSUME IInv, [Next]_vars PROVE IInv'
  OBVIOUS
<1> USE StreamAssumption DEF IInv
<1>1. CASE PumpBatch
  BY <1>1 DEF PumpBatch, Yields, TypeOK, Shape, Attached, Flow, Sealed, Manifest, Hand, Taken
<1>2. CASE PumpError
  BY <1>2 DEF PumpError, Yields, TypeOK, Shape, Attached, Flow, Sealed, Manifest, Hand, Taken
<1>3. CASE PumpEnd
  BY <1>3 DEF PumpEnd, TypeOK, Shape, Attached, Flow, Sealed, Manifest, Hand, Taken
<1>4. CASE PumpPanics
  BY <1>4 DEF PumpPanics, TypeOK, Shape, Attached, Flow, Sealed, Manifest, Hand, Taken
<1>5. CASE PumpSend
  BY <1>5 DEF PumpSend, Room, TypeOK, Shape, Attached, Flow, Sealed, Manifest, Hand, Taken
<1>6. CASE PumpParks
  BY <1>6 DEF PumpParks, TypeOK, Shape, Attached, Flow, Sealed, Manifest, Hand, Taken
<1>7. CASE PumpGivesUp
  BY <1>7 DEF PumpGivesUp, TypeOK, Shape, Attached, Flow, Sealed, Manifest, Hand, Taken
<1>8. CASE Receive
  <2>1. TypeOK'
    BY <1>8, TakeFirst DEF Receive, TypeOK
  <2>2. Shape'
    BY <1>8, TakeFirst DEF Receive, TypeOK, Shape, Attached
  <2>3. Flow'
    <3>1. /\ slot' = chan[1] /\ chan[1] \in Item /\ reader = "receiving" /\ slot = "none"
          /\ Len(chan') = Len(chan) - 1 /\ Len(chan) \in Nat \ {0}
          /\ \A i \in 1..Len(chan') : i + 1 \in 1..Len(chan) /\ chan'[i] = chan[i + 1]
          /\ \A i \in 1..Len(chan) :
                i = 1 \/ (i - 1 \in 1..Len(chan') /\ chan'[i - 1] = chan[i])
          /\ seen' = IF slot' = "batch" THEN seen + 1 ELSE seen
          /\ UNCHANGED <<sourceVars, pumpVars, rxOpen, writerVars>>
      BY <1>8, TakeFirst DEF Receive, TypeOK, Shape
    <3>3. Attached' => Attached /\ slot' # "end"
      BY <3>1 DEF Attached
    <3>4. ~failed' => /\ \A i \in 1..Len(chan') : chan'[i] = "batch"
                      /\ pump' = "sending" => item' = "batch"
                      /\ slot' = "batch"
      BY <3>1 DEF Flow, TypeOK
    <3>5. Attached' /\ failed' =>
             \/ \E i \in 1..Len(chan') : chan'[i] = "error"
             \/ pump' = "sending" /\ item' = "error"
             \/ slot' = "error"
      BY <3>1, <3>3 DEF Flow, TypeOK
    <3>6. Attached' => seen' = (written + Taken)'
      BY <3>1, <3>3 DEF Flow, Taken, TypeOK
    <3>7. Attached' /\ slot' # "error" => (yielded <= seen + Len(chan) + Hand)'
      BY <3>1, <3>3 DEF Flow, Hand, TypeOK
    <3>8. Attached' /\ ~failed' => (yielded = seen + Len(chan) + Hand)'
      BY <3>1, <3>3, <3>4 DEF Flow, Hand, TypeOK
    <3>9. Attached' /\ ~failed' => (pump' = "exited" => yielded' = size')
      BY <3>1, <3>3 DEF Flow
    <3> QED
      BY <3>3, <3>4, <3>5, <3>6, <3>7, <3>8, <3>9 DEF Flow
  <2>4. Manifest'
    BY <1>8, TakeFirst DEF Receive, TypeOK, Shape, Flow, Attached, Manifest, Sealed, Taken
  <2> QED
    BY <2>1, <2>2, <2>3, <2>4
<1>9. CASE ReceiveEnd
  BY <1>9 DEF ReceiveEnd, TypeOK, Shape, Attached, Flow, Sealed, Manifest, Hand, Taken
<1>10. CASE OrphanReturns
  <2>1. TypeOK'
    <3>1. chan' = <<>>
      BY <1>10 DEF OrphanReturns
    <3>2. chan' \in Seq(Item) /\ Len(chan') = 0
      BY <3>1, EmptyChannel
    <3>3. /\ reader' = "gone" /\ rxOpen' = FALSE
          /\ UNCHANGED <<sourceVars, pumpVars, slot, seen, writerVars>>
      BY <1>10 DEF OrphanReturns
    <3>4. rxOpen' \in BOOLEAN
      BY <3>3, Zenon
    <3> QED
      BY <3>2, <3>3, <3>4 DEF TypeOK
  <2>2. Shape'
    BY <1>10, EmptyChannel DEF OrphanReturns, TypeOK, Shape, Attached
  <2>3. Flow'
    BY <1>10, EmptyChannel DEF OrphanReturns, TypeOK, Flow, Shape, Attached, Hand, Taken
  <2>4. Manifest'
    BY <1>10, EmptyChannel DEF OrphanReturns, TypeOK, Shape, Flow, Attached, Manifest, Sealed, Taken
  <2> QED
    BY <2>1, <2>2, <2>3, <2>4
<1>11. CASE WriteBatch
  BY <1>11 DEF WriteBatch, TypeOK, Shape, Attached, Flow, Sealed, Manifest, Hand, Taken
<1>12. CASE WriteFails
  <2>1. TypeOK'
    BY <1>12, LettingGo DEF WriteFails, TypeOK
  <2>2. Shape'
    BY <1>12, LettingGo DEF WriteFails, TypeOK, Shape, Attached
  <2>3. Flow'
    BY <1>12, LettingGo DEF WriteFails, TypeOK, Flow, Shape, Attached, Hand, Taken
  <2>4. Manifest'
    BY <1>12, LettingGo DEF WriteFails, TypeOK, Shape, Flow, Attached, Manifest, Sealed, Taken
  <2> QED
    BY <2>1, <2>2, <2>3, <2>4
<1>13. CASE WriteEnd
  <2>1. TypeOK'
    BY <1>13 DEF WriteEnd, TypeOK
  <2>2. Shape'
    BY <1>13 DEF WriteEnd, TypeOK, Shape, Attached
  <2>3. Flow'
    BY <1>13 DEF WriteEnd, TypeOK, Flow, Shape, Attached, Hand, Taken
  <2>4. Manifest'
    <3>1. /\ Attached /\ reader = "returned" /\ slot = "end" /\ write = "writing"
          /\ pump \in Ended /\ dataset = Null
      BY <1>13 DEF WriteEnd, Shape, Attached, Manifest
    <3>2. chan = <<>>
      BY <3>1 DEF Flow
    <3>3. Len(chan) = 0
      BY <3>2, EmptyChannel
    <3>4. ~failed /\ seen = written
      BY <3>1, <3>3 DEF Flow, Taken, TypeOK
    <3>5. pump = "exited" => seen = size
      BY <3>1, <3>3, <3>4 DEF Flow, Hand, TypeOK
    <3> QED
      BY <1>13, <3>1, <3>4, <3>5 DEF WriteEnd, Manifest, Sealed
  <2> QED
    BY <2>1, <2>2, <2>3, <2>4
<1>14. CASE CommitManifest
  BY <1>14 DEF CommitManifest, TypeOK, Shape, Attached, Flow, Sealed, Manifest, Hand, Taken
<1>15. CASE CheckRowsSeen
  <2>1. TypeOK'
    BY <1>15, LettingGo DEF CheckRowsSeen, TypeOK
  <2>2. Shape'
    BY <1>15, LettingGo DEF CheckRowsSeen, TypeOK, Shape, Attached
  <2>3. Flow'
    BY <1>15, LettingGo DEF CheckRowsSeen, TypeOK, Flow, Shape, Attached, Hand, Taken
  <2>4. Manifest'
    BY <1>15, LettingGo DEF CheckRowsSeen, TypeOK, Shape, Flow, Attached, Manifest, Sealed, Taken
  <2> QED
    BY <2>1, <2>2, <2>3, <2>4
<1>16. CASE Drop
  <2>1. TypeOK'
    BY <1>16, LettingGo DEF Drop, TypeOK
  <2>2. Shape'
    BY <1>16, LettingGo DEF Drop, TypeOK, Shape, Attached
  <2>3. Flow'
    BY <1>16, LettingGo DEF Drop, TypeOK, Flow, Shape, Attached, Hand, Taken
  <2>4. Manifest'
    BY <1>16, LettingGo DEF Drop, TypeOK, Shape, Flow, Attached, Manifest, Sealed, Taken
  <2> QED
    BY <2>1, <2>2, <2>3, <2>4
<1>17. CASE Cancel
  BY <1>17 DEF Cancel, TypeOK, Shape, Attached, Flow, Sealed, Manifest, Hand, Taken
<1>18. CASE UNCHANGED vars
  BY <1>18 DEF TypeOK, Shape, Attached, Flow, Sealed, Manifest, Hand, Taken
<1> QED
  BY <1>1, <1>2, <1>3, <1>4, <1>5, <1>6, <1>7, <1>8, <1>9, <1>10, <1>11, <1>12, <1>13,
     <1>14, <1>15, <1>16, <1>17, <1>18 DEF Next, Pump, Reader, Writer

LEMMA StreamInvariant == Spec => []IInv
BY InitInv, StepInv, PTL DEF Spec

\* Every variable of the bridge keeps its type, and the channel its bound.
THEOREM StreamTypeCorrect == Spec => []TypeOK
<1>1. IInv => TypeOK
  BY DEF IInv
<1> QED
  BY <1>1, StreamInvariant, PTL

\* A manifest holds the whole query, of a stream that never failed, and the write
\* reports what it committed (write_lance_stream), short of a panic of the query.
THEOREM NoTruncatedManifest == Spec => []WholeStreamOrNothing
<1>1. IInv => WholeStreamOrNothing
  BY DEF IInv, TypeOK, Manifest, Sealed, Shape, WholeStreamOrNothing
<1> QED
  BY <1>1, StreamInvariant, PTL

\* The query is never more than the channel and one batch ahead of Lance.
THEOREM BoundedWindow == Spec => []WindowBounded
<1>1. IInv => WindowBounded
  BY StreamAssumption DEF IInv, TypeOK, Flow, Attached, Hand, WindowBounded
<1> QED
  BY <1>1, StreamInvariant, PTL
=============================================================================
