---------------------------- MODULE LanceStream ----------------------------
(***************************************************************************)
(* write_lance_stream (crates/skardi/src/sources/providers/lance): how one *)
(* job's record batches get into one Lance dataset.  A pump task polls the *)
(* query and sends what it yields into a bounded channel, a blocking       *)
(* thread of Lance's receives it, and Lance's async writer takes it from   *)
(* there, writes data files and commits one manifest at the end.  The pump *)
(* and the writer share one runtime worker, the hardest case the source's  *)
(* comment names; cancel, a query error, a deadline that drops the write,  *)
(* a failure of Lance and a panic of the query fall between any two steps. *)
(***************************************************************************)
EXTENDS Integers, Sequences

CONSTANTS Capacity,      \* of the channel: 2
          MaxBatches,    \* bound: batches a query yields; each has rows in it
          Null           \* no manifest committed by this write

ASSUME StreamAssumption ==
    Capacity \in Nat \ {0} /\ MaxBatches \in Nat /\ Null \notin Nat

VARIABLES
    size,       \* batches the query yields if it does not fail
    yielded,    \* batches it has yielded
    failed,     \* has the stream yielded an error, the query's or a cancel's?
    cancelled,  \* the run's cancel flag
    pump,       \* the pump task: "polling" the stream, "sending" an item,
                \* "exited", or "panicked": unwound by a panic of the query
    item,       \* the item the pump is sending
    worker,     \* the runtime's worker: "free", or held by the "pump" between awaits
    chan,       \* the channel
    rxOpen,     \* is its receiver alive?
    reader,     \* the thread in ChannelRecordBatchReader::next: "receiving",
                \* "returned", "orphaned" (nobody waits for it any more), "gone"
    slot,       \* what next() last returned, until the writer takes it
    seen,       \* rows_seen, in batches
    written,    \* batches in Lance's uncommitted data files
    write,      \* the future of write_lance_stream
    dataset     \* batches of the manifest this write committed, or Null

sourceVars == <<size, yielded, failed, cancelled>>
pumpVars   == <<pump, item, worker>>
readerVars == <<reader, slot, seen>>
writerVars == <<written, write, dataset>>
vars == <<sourceVars, pumpVars, chan, rxOpen, readerVars, writerVars>>

Item    == {"batch", "error"}
Settled == {"ok", "error", "dropped"}
Ended   == {"exited", "panicked"}   \* the pump has dropped its sender

Init ==
    /\ size \in 0..MaxBatches
    /\ yielded = 0 /\ failed = FALSE /\ cancelled = FALSE
    /\ pump = "polling" /\ item = "batch" /\ worker = "free"
    /\ chan = <<>> /\ rxOpen = TRUE
    /\ reader = "receiving" /\ slot = "none" /\ seen = 0
    /\ written = 0 /\ write = "writing" /\ dataset = Null

\* JobExecutor::cancel flips the flag that CancellableStream looks at.
Cancel ==
    /\ ~cancelled
    /\ cancelled' = TRUE
    /\ UNCHANGED <<size, yielded, failed, pumpVars, chan, rxOpen, readerVars, writerVars>>

-----------------------------------------------------------------------------
(* The pump: while let Some(item) = stream.next().await { tx.send(item).await } *)

\* The stream is ready; the pump runs on with the item until it awaits again.
Yields(i) ==
    /\ pump = "polling" /\ worker = "free"
    /\ pump' = "sending" /\ item' = i /\ worker' = "pump"
    /\ UNCHANGED <<size, cancelled, chan, rxOpen, readerVars, writerVars>>

PumpBatch ==
    /\ ~cancelled /\ yielded < size
    /\ Yields("batch")
    /\ yielded' = yielded + 1
    /\ UNCHANGED failed

\* A cancelled stream answers every poll with an error; a query may fail at any poll.
PumpError ==
    /\ Yields("error")
    /\ failed' = TRUE
    /\ UNCHANGED yielded

\* The stream ends, at the end of the query or after an error of it; dropping the
\* sender is how the reader learns of it.
PumpEnd ==
    /\ pump = "polling" /\ worker = "free" /\ ~cancelled
    /\ yielded = size \/ failed
    /\ pump' = "exited"
    /\ UNCHANGED <<sourceVars, item, worker, chan, rxOpen, readerVars, writerVars>>

\* Unwinding drops the sender as well.
PumpPanics ==
    /\ pump = "polling" /\ worker = "free"
    /\ pump' = "panicked"
    /\ UNCHANGED <<sourceVars, item, worker, chan, rxOpen, readerVars, writerVars>>

\* Mutant: the channel holds one batch more than its bound.
RoomForOneMore == Len(chan) <= Capacity

Room == Len(chan) < Capacity

PumpSend ==
    /\ pump = "sending" /\ rxOpen /\ Room
    /\ chan' = Append(chan, item)
    /\ pump' = "polling" /\ worker' = "free"
    /\ UNCHANGED <<sourceVars, item, rxOpen, readerVars, writerVars>>

\* Mutant: std::sync::mpsc's blocking send, which never gives the worker back.
PumpBlocks ==
    /\ pump = "sending" /\ worker = "pump" /\ rxOpen /\ ~Room
    /\ UNCHANGED vars

\* send().await on a full channel gives the worker back.
PumpParks ==
    /\ pump = "sending" /\ worker = "pump" /\ rxOpen /\ ~Room
    /\ worker' = "free"
    /\ UNCHANGED <<sourceVars, pump, item, chan, rxOpen, readerVars, writerVars>>

\* Mutant: the result of send() is not looked at.
PumpIgnoresClosed ==
    /\ pump = "sending" /\ ~rxOpen
    /\ pump' = "polling" /\ worker' = "free"
    /\ UNCHANGED <<sourceVars, item, chan, rxOpen, readerVars, writerVars>>

\* send() fails: the receiver is gone, so the rest of the stream is dropped.
PumpGivesUp ==
    /\ pump = "sending" /\ ~rxOpen
    /\ pump' = "exited" /\ worker' = "free"
    /\ UNCHANGED <<sourceVars, item, chan, rxOpen, readerVars, writerVars>>

-----------------------------------------------------------------------------
(* ChannelRecordBatchReader::next, on a blocking thread.                    *)

\* Mutant: an error ends the iterator.
ReceiveEndsOnError ==
    /\ reader = "receiving" /\ chan # <<>>
    /\ slot' = IF Head(chan) = "error" THEN "end" ELSE "batch"
    /\ seen' = IF Head(chan) = "batch" THEN seen + 1 ELSE seen
    /\ reader' = "returned"
    /\ chan' = Tail(chan)
    /\ UNCHANGED <<sourceVars, pumpVars, rxOpen, writerVars>>

Receive ==
    /\ reader = "receiving" /\ chan # <<>>
    /\ slot' = Head(chan)
    /\ seen' = IF Head(chan) = "batch" THEN seen + 1 ELSE seen
    /\ reader' = "returned"
    /\ chan' = Tail(chan)
    /\ UNCHANGED <<sourceVars, pumpVars, rxOpen, writerVars>>

\* blocking_recv returns None: the sender is gone and the channel is drained.
ReceiveEnd ==
    /\ reader = "receiving" /\ chan = <<>> /\ pump \in Ended
    /\ slot' = "end"
    /\ reader' = "returned"
    /\ UNCHANGED <<sourceVars, pumpVars, chan, rxOpen, seen, writerVars>>

\* A next() nobody waits for any more still takes an item before the reader is dropped.
OrphanReturns ==
    /\ reader = "orphaned" /\ (chan # <<>> \/ pump \in Ended)
    /\ reader' = "gone" /\ rxOpen' = FALSE /\ chan' = <<>>
    /\ UNCHANGED <<sourceVars, pumpVars, slot, seen, writerVars>>

-----------------------------------------------------------------------------
(* Dataset::write, an async task on the shared worker, and the code after it. *)

\* The future lets go of the reader, which lives on while next() is running.
LetGo ==
    IF reader = "receiving"
    THEN reader' = "orphaned" /\ UNCHANGED <<rxOpen, chan>>
    ELSE reader' = "gone" /\ rxOpen' = FALSE /\ chan' = <<>>

WriteBatch ==
    /\ write = "writing" /\ worker = "free" /\ slot = "batch"
    /\ written' = written + 1
    /\ slot' = "none" /\ reader' = "receiving"
    /\ UNCHANGED <<sourceVars, pumpVars, chan, rxOpen, seen, write, dataset>>

\* The reader returned an error, or Lance has one of its own: no manifest.
WriteFails ==
    /\ write \in {"writing", "committing"} /\ worker = "free"
    /\ write' = "error"
    /\ LetGo
    /\ UNCHANGED <<sourceVars, pumpVars, slot, seen, written, dataset>>

WriteEnd ==
    /\ write = "writing" /\ worker = "free" /\ slot = "end"
    /\ write' = "committing"
    /\ UNCHANGED <<sourceVars, pumpVars, chan, rxOpen, readerVars, written, dataset>>

\* The manifest is put in place, even if the future was dropped meanwhile.
CommitManifest ==
    /\ write \in {"committing", "late"} /\ worker = "free"
    /\ dataset' = written
    /\ write' = IF write = "late" THEN "dropped" ELSE "landed"
    /\ UNCHANGED <<sourceVars, pumpVars, chan, rxOpen, readerVars, written>>

\* Dataset::write has returned; only now is rows_seen looked at.
CheckRowsSeen ==
    /\ write = "landed" /\ worker = "free"
    /\ write' = IF seen = 0 THEN "error" ELSE "ok"
    /\ LetGo
    /\ UNCHANGED <<sourceVars, pumpVars, slot, seen, written, dataset>>

\* A deadline drops the future at an await; a commit under way may still land.
Drop ==
    /\ write \in {"writing", "committing"} /\ worker = "free"
    /\ \/ write' = "dropped"
       \/ write = "committing" /\ write' = "late"
    /\ LetGo
    /\ UNCHANGED <<sourceVars, pumpVars, slot, seen, written, dataset>>

-----------------------------------------------------------------------------

Pump   == PumpBatch \/ PumpError \/ PumpEnd
             \/ PumpSend \/ PumpParks \/ PumpGivesUp
Reader == Receive \/ ReceiveEnd \/ OrphanReturns
\* An error in the slot can only fail the write.
Writer == WriteBatch \/ (WriteFails /\ slot = "error") \/ WriteEnd
             \/ CommitManifest \/ CheckRowsSeen

Next == Pump \/ Reader \/ Writer \/ Cancel \/ PumpPanics \/ WriteFails \/ Drop

Spec == Init /\ [][Next]_vars

\* The query keeps answering, tokio polls its ready tasks, the thread runs.
FairSpec == Spec /\ WF_vars(Pump) /\ WF_vars(Reader) /\ WF_vars(Writer)

-----------------------------------------------------------------------------
(* Properties.                                                              *)

TypeOK ==
    /\ size \in Nat /\ yielded \in 0..size /\ failed \in BOOLEAN /\ cancelled \in BOOLEAN
    /\ pump \in {"polling", "sending"} \cup Ended /\ item \in Item
    /\ worker \in {"free", "pump"}
    /\ chan \in Seq(Item) /\ Len(chan) <= Capacity /\ rxOpen \in BOOLEAN
    /\ reader \in {"receiving", "returned", "orphaned", "gone"}
    /\ slot \in Item \cup {"none", "end"} /\ seen \in Nat
    /\ written \in Nat /\ dataset \in Nat \cup {Null}
    /\ write \in {"writing", "committing", "late", "landed"} \cup Settled

\* A manifest holds the whole query and nothing of one that failed or was cancelled
\* before it ended (a panic of the query is NothingPartial's), and a write that reports success reports what it committed:
\* rows_seen, which the reader's thread counts, is the manifest's content.
WholeStreamOrNothing ==
    /\ dataset # Null => (dataset = size \/ pump = "panicked") /\ ~failed
    /\ write = "ok" => dataset # Null /\ dataset = seen /\ seen > 0
    /\ write = "error" => dataset \in {Null, 0}

\* What the query has yielded and Lance has not asked for is the channel and the batch
\* the pump holds, however slow Lance is (registration.rs:183, "~2 batches"), until an
\* error or a deadline ends the write.
WindowBounded ==
    rxOpen /\ reader # "orphaned" /\ slot # "error" => yielded - seen <= Capacity + 1

\* The write never waits for ever on one worker: the pump waiting for the reader, the
\* reader for the writer, the writer for the worker (registration.rs:165, 172).
WriteSettles == <>(write \in Settled)

\* Whatever happens to the write, its pump task and its reading thread end: no job
\* leaves a task or a blocking thread behind while its query keeps answering.
BridgeDrains == <>[](pump \in Ended /\ reader = "gone" /\ ~rxOpen)

-----------------------------------------------------------------------------
(* What the repository says, and the code does not keep.                    *)

\* registration.rs:157: "Refuses to commit an empty stream, same as the batch variant."
EmptyNeverCommitted == dataset # 0

\* destination/mod.rs:70 and docs/jobs.md:321: nothing is visible on error; either the
\* whole run lands or nothing does, so a write that succeeds is the whole query.
NothingPartial == write = "ok" => dataset = size
=============================================================================
