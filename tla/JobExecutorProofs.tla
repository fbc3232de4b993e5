------------------------- MODULE JobExecutorProofs -------------------------
(***************************************************************************)
(* Proofs about JobExecutor, for any runs, jobs, destinations and bounds.  *)
(***************************************************************************)
EXTENDS JobExecutor, TLAPS

(* Where a run may be once its stream has ended. *)
PastStream == {"committing", "finished", "reporting", "reported", "done", "dead"}

(* How far a run has got bounds what the rest of the state knows of it. *)
Control(r) ==
    /\ pc[r] # "idle" => job[r] \in Job
    /\ pc[r] \in {"idle", "rejected"} => ledger[r] = Null
    /\ pc[r] \in Live => ledger[r] # Null
    /\ IsTerminal(r) => pc[r] \in {"reported", "done", "dead"}
    /\ pc[r] \in AfterWrite => outcome[r] # Null
    /\ pc[r] = "finished" => outcome[r].status = "running"
    /\ pc[r] \in {"reporting", "reported"} => outcome[r].status \in Terminal
    /\ pc[r] \in {"creating", "spawned"} /\ HasRow(r) => ledger[r].status = "pending"
    /\ outcome[r] # Null => pc[r] \in AfterWrite \cup {"done", "dead"}
    /\ r \in inflight \/ reply[r] # Null => pc[r] \in PastStream /\ HasRow(r)
    /\ ~up => pc[r] \in {"idle", "rejected", "done", "dead"}
    /\ pc[r] \in {"idle", "creating", "dropped", "rejected"} \cup BeforeWrite => pulled[r] = 0
    /\ pulled[r] <= size[r]
    /\ r \in torn => pc[r] \in PastStream

TypeInv == TypeOK /\ \A r \in Run : Control(r)

USE DEF TypeInv, BeforeWrite, Writing, AfterWrite, Live, PC, PastStream,
        ledgerVars, taskVars, destVars, serverVars, vars

LEMMA UpdateStatusType ==
    ASSUME NEW row \in Row, NEW new \in Row
    PROVE  /\ UpdateStatus(row, new) \in Row
           /\ UpdateStatus(row, new).status = new.status
BY DEF UpdateStatus, Coalesce, Row

LEMMA UpdateTypes ==
    /\ NewRow \in Row /\ NewRow.status = "pending"
    /\ RunningUpdate \in Row /\ RunningUpdate.status = "running"
BY DEF NewRow, RunningUpdate, Row, Status, Terminal

LEMMA ReconcileType ==
    ASSUME NEW rows \in [Run -> Row \cup {Null}]
    PROVE  /\ ReconcileOrphaned(rows) \in [Run -> Row \cup {Null}]
           /\ \A r \in Run : /\ rows[r] = Null => ReconcileOrphaned(rows)[r] = Null
                             /\ rows[r] # Null => ReconcileOrphaned(rows)[r] # Null
<1> SUFFICES ASSUME NEW r \in Run
             PROVE  /\ ReconcileOrphaned(rows)[r] \in Row \cup {Null}
                    /\ rows[r] = Null <=> ReconcileOrphaned(rows)[r] = Null
  BY DEF ReconcileOrphaned
<1>1. CASE Orphaned(rows[r])
  <2>1. rows[r] \in Row /\ rows[r] # Null
    BY <1>1 DEF Orphaned
  <2>2. [rows[r] EXCEPT !.status = "failed", !.finished = TRUE, !.error = "server restarted"] \in Row
    BY <2>1 DEF Row, Status, Terminal, ErrorText
  <2> QED
    BY <1>1, <2>1, <2>2, NullAssumption DEF ReconcileOrphaned
<1>2. CASE ~Orphaned(rows[r])
  BY <1>2 DEF ReconcileOrphaned
<1> QED
  BY <1>1, <1>2

LEMMA VerdictType ==
    ASSUME NEW o \in Row, NEW flag
    PROVE  Verdict(o, flag) \in Row /\ Verdict(o, flag).status \in Terminal
BY DEF Verdict, Row, Status, Terminal, ErrorText

LEMMA ResultType ==
    ASSUME NEW rows \in Nat \cup {Null}, NEW snapshot \in Nat \cup {Null},
           NEW error \in ErrorText \cup {Null}
    PROVE  /\ Result(rows, snapshot, error) \in Row /\ Result(rows, snapshot, error) # Null
           /\ Result(rows, snapshot, error).status = "running"
<1>1. Result(rows, snapshot, error) \in Row
  BY DEF Result, Row, Status
<1> QED
  BY <1>1, NullAssumption DEF Result

LEMMA SettleTypeInv ==
    ASSUME TypeInv, NEW r \in Run, up, pc[r] \in BeforeWrite \cup Writing,
           NEW rows \in Nat \cup {Null}, NEW snapshot \in Nat \cup {Null},
           NEW error \in ErrorText \cup {Null}, Settle(r, rows, snapshot, error),
           staging' \subseteq staging,
           UNCHANGED <<ledger, flags, job, mode, size, pulled, torn, destVars, serverVars, told>>
    PROVE  TypeInv'
BY ResultType DEF Settle, TypeOK, Control, IsTerminal, HasRow

LEMMA InitTypeInv == Init => TypeInv
BY NullAssumption, JobAssumption
   DEF Init, TypeOK, Control, IsTerminal, HasRow, Terminal

THEOREM TypeStep == TypeInv /\ [Next]_vars => TypeInv'
<1> SUFFICES ASSUME TypeInv, [Next]_vars PROVE TypeInv'
  OBVIOUS
<1> USE NullAssumption, NullReplyAssumption, JobAssumption
<1>1. ASSUME NEW r \in Run, NEW j \in Job, Submit(r, j) PROVE TypeInv'
  BY <1>1 DEF Submit, TypeOK, Control, IsTerminal, HasRow
<1>2. ASSUME NEW r \in Run, CreateRun(r) PROVE TypeInv'
  BY <1>2, UpdateTypes DEF CreateRun, TypeOK, Control, IsTerminal, HasRow, Terminal
<1>3. ASSUME NEW r \in Run, CreateRunFails(r) PROVE TypeInv'
  BY <1>3 DEF CreateRunFails, TypeOK, Control, IsTerminal, HasRow
<1>4. ASSUME NEW r \in Run, DropSubmit(r) PROVE TypeInv'
  BY <1>4 DEF DropSubmit, TypeOK, Control, IsTerminal, HasRow
<1>5. ASSUME NEW r \in Run, Spawn(r) PROVE TypeInv'
  BY <1>5 DEF Spawn, TypeOK, Control, IsTerminal, HasRow
<1>6. ASSUME NEW r \in Run, Cancel(r) PROVE TypeInv'
  BY <1>6 DEF Cancel, TypeOK, Control, IsTerminal, HasRow
<1>7. ASSUME NEW r \in Run, MarkRunning(r) PROVE TypeInv'
  BY <1>7, UpdateTypes, UpdateStatusType DEF MarkRunning, TypeOK, Control, IsTerminal, HasRow, Terminal
<1>8. ASSUME NEW r \in Run, StartQuery(r) PROVE TypeInv'
  <2>1. CASE flags[r] = "set"
    <3>1. Settle(r, Null, Null, "cancelled before execution")
      BY <1>8, <2>1 DEF StartQuery, SettleErr
    <3> QED
      BY <1>8, <3>1, SettleTypeInv DEF StartQuery, ErrorText
  <2>2. CASE flags[r] = "clear"
    BY <1>8, <2>2 DEF StartQuery, TypeOK, Control, IsTerminal, HasRow
  <2> QED
    BY <1>8, <2>1, <2>2 DEF StartQuery
<1>9. ASSUME NEW r \in Run, PlanFails(r) PROVE TypeInv'
  <2>1. Settle(r, Null, Null, "query error") /\ "query error" \in ErrorText
    BY <1>9 DEF PlanFails, SettleErr, ErrorText
  <2> QED
    BY <1>9, <2>1, SettleTypeInv DEF PlanFails
<1>10. ASSUME NEW r \in Run, NEW n \in 0..MaxBatches, OpenWrite(r, n) PROVE TypeInv'
  BY <1>10 DEF OpenWrite, TypeOK, Control, IsTerminal, HasRow, WriteMode
<1>11. ASSUME NEW r \in Run, PollCancelled(r) PROVE TypeInv'
  <2>1. Settle(r, Null, Null, "cancelled before commit") /\ "cancelled before commit" \in ErrorText
    BY <1>11 DEF PollCancelled, SettleErr, ErrorText
  <2> QED
    BY <1>11, <2>1, SettleTypeInv DEF PollCancelled
<1>12. ASSUME NEW r \in Run, PollBatch(r) PROVE TypeInv'
  BY <1>12 DEF PollBatch, TypeOK, Control, IsTerminal, HasRow
<1>13. ASSUME NEW r \in Run, PollError(r) PROVE TypeInv'
  <2>1. Settle(r, Null, Null, "query error") /\ "query error" \in ErrorText
    BY <1>13 DEF PollError, SettleErr, ErrorText
  <2> QED
    BY <1>13, <2>1, SettleTypeInv DEF PollError
<1>14. ASSUME NEW r \in Run, PollEnd(r) PROVE TypeInv'
  BY <1>14 DEF PollEnd, TypeOK, Control, IsTerminal, HasRow
<1>14a. ASSUME NEW r \in Run, PumpPanics(r) PROVE TypeInv'
  BY <1>14a DEF PumpPanics, TypeOK, Control, IsTerminal, HasRow
<1>15. ASSUME NEW r \in Run, WriteReturns(r) PROVE TypeInv'
  <2>1. reply[r] \in Reply /\ pulled[r] \in Nat
    BY <1>15 DEF WriteReturns, TypeOK
  <2>2. PICK rows \in Nat \cup {Null}, snapshot \in Nat \cup {Null},
             error \in ErrorText \cup {Null} : Settle(r, rows, snapshot, error)
    BY <1>15, <2>1 DEF WriteReturns, SettleErr, Reply, ErrorText
  <2> QED
    BY <1>15, <2>2, SettleTypeInv DEF WriteReturns
<1>16. ASSUME NEW r \in Run, Timeout(r) PROVE TypeInv'
  <2>1. Settle(r, Null, Null, "timed out") /\ "timed out" \in ErrorText
    BY <1>16 DEF Timeout, SettleErr, ErrorText
  <2> QED
    BY <1>16, <2>1, SettleTypeInv DEF Timeout
<1>17. ASSUME NEW r \in Run, Decide(r) PROVE TypeInv'
  BY <1>17, VerdictType DEF Decide, TypeOK, Control, IsTerminal, HasRow
<1>18. ASSUME NEW r \in Run, Report(r) PROVE TypeInv'
  BY <1>18, UpdateStatusType DEF Report, TypeOK, Control, IsTerminal, HasRow, Terminal
<1>19. ASSUME NEW r \in Run, DropFlag(r) PROVE TypeInv'
  BY <1>19 DEF DropFlag, TypeOK, Control, IsTerminal, HasRow
<1>20. ASSUME NEW r \in Run, TaskPanics(r) PROVE TypeInv'
  BY <1>20 DEF TaskPanics, TypeOK, Control, IsTerminal, HasRow
<1>21. ASSUME NEW r \in Run, CommitLands(r) PROVE TypeInv'
  <2>1. Dest(r) \in Destination /\ pc[r] \in PastStream
    BY <1>21 DEF CommitLands, TypeOK, Control, Dest
  <2>2. version' \in [Destination -> Nat] /\ version[Dest(r)] + 1 \in Nat
    BY <1>21, <2>1 DEF CommitLands, TypeOK
  <2>3. commits' \subseteq Commit
    BY <1>21, <2>1, <2>2 DEF CommitLands, TypeOK, Commit
  <2>4. reply' \in [Run -> Reply \cup {Null}] /\ \A s \in Run \ {r} : reply'[s] = reply[s]
    <3>1. PICK answer \in Reply : reply' = [reply EXCEPT ![r] = answer]
      BY <1>21, <2>2 DEF CommitLands, Reply
    <3> QED
      BY <3>1 DEF TypeOK
  <2>5. TypeOK'
    BY <1>21, <2>2, <2>3, <2>4 DEF CommitLands, TypeOK
  <2>6. ASSUME NEW s \in Run PROVE Control(s)'
    BY <1>21, <2>1, <2>4 DEF CommitLands, TypeOK, Control, IsTerminal, HasRow
  <2> QED
    BY <2>5, <2>6
<1>22. ASSUME NEW r \in Run, CommitAborts(r) PROVE TypeInv'
  BY <1>22 DEF CommitAborts, TypeOK, Control, IsTerminal, HasRow, Reply
<1>23. ASSUME Crash PROVE TypeInv'
  <2>1. pc' \in [Run -> PC] /\ flags' \in [Run -> {"absent", "clear", "set"}]
    BY <1>23 DEF Crash, TypeOK
  <2>2. /\ inflight' \subseteq Run
        /\ staging' \subseteq Run
        /\ up' \in BOOLEAN
        /\ crashes' \in Nat
    <3>1. inflight' \subseteq inflight
      BY <1>23 DEF Crash
    <3>2. crashes' \in Nat
      BY <1>23 DEF Crash, TypeOK
    <3> QED
      BY <1>23, <3>1, <3>2 DEF Crash, TypeOK
  <2>3. TypeOK'
    BY <1>23, <2>1, <2>2 DEF Crash, TypeOK
  <2>4. ASSUME NEW s \in Run PROVE Control(s)'
    BY <1>23 DEF Crash, TypeOK, Control, IsTerminal, HasRow
  <2> QED
    BY <2>3, <2>4
<1>24. ASSUME Restart PROVE TypeInv'
  BY <1>24, ReconcileType DEF Restart, TypeOK, Control, IsTerminal, HasRow
<1>25. ASSUME UNCHANGED vars PROVE TypeInv'
  BY <1>25 DEF TypeOK, Control, IsTerminal, HasRow
<1> QED
  BY <1>1, <1>2, <1>3, <1>4, <1>5, <1>6, <1>7, <1>8, <1>9, <1>10, <1>11, <1>12, <1>13, <1>14, <1>14a, <1>15, <1>16, <1>17, <1>18, <1>19, <1>20, <1>21, <1>22, <1>23, <1>24, <1>25 DEF Next, SubmitStep, TaskStep, Poll, Resolve

-----------------------------------------------------------------------------
(* What the destination holds and what is said of it. *)

OneCommit == \A c, d \in commits : c.run = d.run => c = d

\* What a run has pulled is the whole query, or what a panic of the pump left a lake.
Whole(r) == IF r \in torn THEN IsLake(r) /\ pulled[r] <= size[r] ELSE pulled[r] = size[r]

\* A commit is what a run has pulled whose commit was asked for and answered.
CommitOK(c) ==
    /\ pc[c.run] \in PastStream
    /\ c.run \notin inflight /\ reply[c.run] # Null
    /\ c.dest = Dest(c.run) /\ c.rows = pulled[c.run] /\ Whole(c.run)

\* A commit is asked for once, with the stream drained or torn, and its answer is true
\* except that a SQL server's answer may be lost.
Flight(r) ==
    /\ r \in inflight => reply[r] = Null
    /\ r \in inflight \/ pc[r] = "committing" => Whole(r)
    /\ reply[r] # Null /\ reply[r].ok =>
         \E c \in commits : c.run = r /\ c.version = reply[r].version
    /\ reply[r] # Null /\ ~reply[r].ok /\ Landed(r) => Dest(r) \in Remote

\* The errors of a task that never asked for a commit.
Early == {"cancelled before execution", "cancelled before commit", "query error"}

Exact(r, rec) ==
    \E c \in commits :
        /\ c.run = r /\ c.dest = Dest(r) /\ c.rows = rec.rows
        /\ rec.snapshot = IF IsLake(r) THEN c.version ELSE Null

\* What a finished outcome or row says of the destination is true of it, and stays true.
Honest(r, rec) ==
    /\ rec.finished
    /\ rec.rows # Null =>
        /\ Exact(r, rec)
        /\ rec.status # "failed"
        /\ rec.error = Null \/ rec.status = "cancelled"
    /\ rec.status = "succeeded" => rec.rows # Null
    /\ rec.rows = Null =>
        /\ rec.error \in ErrorText \ {"cancelled after commit"}
        /\ rec.error \in Early => reply[r] = Null /\ r \notin inflight
        /\ rec.error = "write failed" =>
             reply[r] # Null /\ r \notin inflight /\ (Landed(r) => Dest(r) \in Remote)
        /\ rec.error = "empty stream" => IsLake(r)

RowOK(r) ==
    /\ outcome[r] # Null => Honest(r, outcome[r])
    /\ IsTerminal(r) => Honest(r, ledger[r])
    /\ HasRow(r) /\ ~IsTerminal(r) =>
         ledger[r].rows = Null /\ ledger[r].snapshot = Null /\ ledger[r].error = Null

DataInv ==
    /\ OneCommit
    /\ \A c \in commits : CommitOK(c)
    /\ \A r \in Run : Flight(r) /\ RowOK(r)

IInv == TypeInv /\ DataInv

LEMMA InitDataInv == Init => DataInv
BY NullAssumption
   DEF Init, DataInv, OneCommit, Flight, RowOK, IsTerminal, HasRow

\* A step that neither asks for nor answers a commit, and leaves the job, the size and
\* the position of every run past its stream alone, keeps the destination's part.
LEMMA DestinationFrame ==
    ASSUME TypeInv, DataInv, commits' = commits, reply' = reply, inflight' \subseteq inflight,
           \A s \in Run : pc[s] \in PastStream =>
                /\ pc'[s] \in PastStream
                /\ job'[s] = job[s] /\ size'[s] = size[s] /\ pulled'[s] = pulled[s],
           torn' = torn,
           \A s \in Run : pc'[s] = "committing" => pc[s] = "committing"
    PROVE  OneCommit' /\ (\A c \in commits : CommitOK(c))' /\ (\A s \in Run : Flight(s))'
<1>1. OneCommit'
  BY DEF DataInv, OneCommit
<1>2. ASSUME NEW c \in commits PROVE CommitOK(c)'
  <2>1. c.run \in Run /\ CommitOK(c)
    BY DEF TypeOK, Commit, DataInv
  <2> QED
    BY <2>1 DEF CommitOK, Dest, Whole, IsLake
<1>3. ASSUME NEW s \in Run PROVE Flight(s)'
  <2>1. Flight(s) /\ Control(s)
    BY DEF DataInv
  <2>2. CASE pc[s] \in PastStream
    BY <2>1, <2>2 DEF Flight, Dest, Landed, CommitsOf, Whole, IsLake
  <2>3. CASE pc[s] \notin PastStream
    BY <2>1, <2>3 DEF Flight, Control
  <2> QED
    BY <2>2, <2>3
<1> QED
  BY <1>1, <1>2, <1>3

\* What was honest stays so: nothing is taken out of a destination, and a commit still
\* under way is one the record does not rule out.
LEMMA HonestStable ==
    ASSUME NEW s \in Run, NEW rec \in Row, Honest(s, rec), job'[s] = job[s],
           commits \subseteq commits',
           s \in inflight \/ (/\ reply'[s] = reply[s] /\ (s \in inflight' => s \in inflight)
                              /\ \A c \in commits' : c.run = s => c \in commits)
    PROVE  Honest(s, rec)'
<1>1. rec.rows # Null => Exact(s, rec)'
  BY DEF Honest, Exact, Dest, IsLake
<1>2. ASSUME rec.rows = Null, rec.error \in Early
      PROVE  reply'[s] = Null /\ s \notin inflight'
  BY <1>2 DEF Honest
<1>3. ASSUME rec.rows = Null, rec.error = "write failed"
      PROVE  reply'[s] # Null /\ s \notin inflight' /\ (Landed(s)' => Dest(s)' \in Remote)
  BY <1>3 DEF Honest, Landed, CommitsOf, Dest
<1>4. rec.rows = Null /\ rec.error = "empty stream" => IsLake(s)'
  BY DEF Honest, IsLake, Dest
<1> QED
  BY <1>1, <1>2, <1>3, <1>4 DEF Honest

LEMMA RowFrame ==
    ASSUME TypeInv, DataInv, NEW s \in Run, ledger'[s] = ledger[s], outcome'[s] = outcome[s],
           pc[s] # "idle" => job'[s] = job[s], commits \subseteq commits',
           s \in inflight \/ (/\ reply'[s] = reply[s] /\ (s \in inflight' => s \in inflight)
                              /\ \A c \in commits' : c.run = s => c \in commits)
    PROVE  RowOK(s)'
<1>1. RowOK(s) /\ Control(s)
  BY DEF DataInv
<1>2. ASSUME outcome[s] # Null PROVE Honest(s, outcome[s])'
  BY <1>1, <1>2, HonestStable DEF RowOK, Control, TypeOK
<1>3. ASSUME IsTerminal(s) PROVE Honest(s, ledger[s])'
  BY <1>1, <1>3, HonestStable DEF RowOK, Control, TypeOK, IsTerminal, HasRow
<1> QED
  BY <1>1, <1>2, <1>3 DEF RowOK, IsTerminal, HasRow

\* An action that touches neither a row nor an outcome, and no destination.
LEMMA QuietData ==
    ASSUME TypeInv, DataInv, commits' = commits, reply' = reply, inflight' \subseteq inflight,
           ledger' = ledger, outcome' = outcome,
           \A s \in Run : pc[s] \in PastStream =>
                /\ pc'[s] \in PastStream
                /\ size'[s] = size[s] /\ pulled'[s] = pulled[s],
           torn' = torn,
           \A s \in Run : pc[s] # "idle" => job'[s] = job[s],
           \A s \in Run : pc'[s] = "committing" => pc[s] = "committing"
    PROVE  DataInv'
<1>1. OneCommit' /\ (\A c \in commits : CommitOK(c))' /\ (\A s \in Run : Flight(s))'
  BY DestinationFrame
<1>2. ASSUME NEW s \in Run PROVE RowOK(s)'
  BY <1>2, RowFrame
<1> QED
  BY <1>1, <1>2 DEF DataInv

\* An action that touches the row or the outcome of one run, and no destination.
LEMMA OneRowData ==
    ASSUME TypeInv, DataInv, NEW r \in Run, RowOK(r)',
           commits' = commits, reply' = reply, inflight' = inflight,
           job' = job, size' = size, pulled' = pulled, torn' = torn,
           \A s \in Run \ {r} :
                ledger'[s] = ledger[s] /\ outcome'[s] = outcome[s] /\ pc'[s] = pc[s],
           pc[r] \in PastStream => pc'[r] \in PastStream,
           pc'[r] # "committing"
    PROVE  DataInv'
<1>1. OneCommit' /\ (\A c \in commits : CommitOK(c))' /\ (\A s \in Run : Flight(s))'
  BY DestinationFrame
<1>2. ASSUME NEW s \in Run \ {r} PROVE RowOK(s)'
  BY <1>2, RowFrame
<1> QED
  BY <1>1, <1>2 DEF DataInv

\* The write future settles with an honest result.
LEMMA SettleData ==
    ASSUME TypeInv, DataInv, NEW r \in Run, pc[r] \in BeforeWrite \cup Writing,
           NEW rows \in Nat \cup {Null}, NEW snapshot \in Nat \cup {Null},
           NEW error \in ErrorText \cup {Null}, Settle(r, rows, snapshot, error),
           Honest(r, Result(rows, snapshot, error))',
           UNCHANGED <<ledger, flags, job, mode, size, pulled, torn, destVars, serverVars, told>>
    PROVE  DataInv'
<1>1. /\ outcome'[r] = Result(rows, snapshot, error) /\ pc'[r] = "finished"
      /\ \A s \in Run \ {r} : outcome'[s] = outcome[s] /\ pc'[s] = pc[s]
  BY DEF Settle, TypeOK
<1>2. RowOK(r) /\ Control(r)
  BY DEF DataInv
<1>3. ~IsTerminal(r)
  BY <1>2 DEF Control
<1>4. RowOK(r)'
  BY <1>1, <1>2, <1>3 DEF RowOK, IsTerminal, HasRow
<1> QED
  BY <1>1, <1>4, OneRowData

\* An error of a task that never asked for a commit is honest: the run is not with the
\* destination, and never will be.
LEMMA EarlyErrorHonest ==
    ASSUME TypeInv, DataInv, NEW r \in Run, pc[r] \in BeforeWrite \cup {"streaming"},
           NEW error \in Early, UNCHANGED <<inflight, reply>>
    PROVE  Honest(r, Result(Null, Null, error))'
BY DEF Honest, Result, Early, ErrorText, Control

\* The destination is asked for the commit of a run whose stream has ended.
LEMMA AskData ==
    ASSUME TypeInv, DataInv, NEW r \in Run, pc[r] = "streaming", pc'[r] = "committing",
           inflight' = inflight \cup {r}, Whole(r)', torn \subseteq torn', torn' \subseteq torn \cup {r},
           \A s \in Run \ {r} : pc'[s] = pc[s],
           UNCHANGED <<ledger, outcome, job, size, pulled, commits, reply>>
    PROVE  DataInv'
<1> USE NullAssumption
<1>1. /\ RowOK(r) /\ reply[r] = Null /\ r \notin inflight
      /\ outcome[r] = Null /\ ~IsTerminal(r)
  BY DEF DataInv, Control
<1>2. \A s \in Run \ {r} : Whole(s)' <=> Whole(s)
  BY DEF Whole, IsLake, Dest
<1>3. ASSUME NEW c \in commits PROVE CommitOK(c)'
  <2>1. CommitOK(c) /\ c.run \in Run /\ c.run # r
    BY <1>1 DEF DataInv, CommitOK, TypeOK, Commit
  <2> QED
    BY <1>2, <2>1 DEF CommitOK, Dest
<1>4. ASSUME NEW s \in Run PROVE Flight(s)'
  <2>1. Flight(s)
    BY DEF DataInv
  <2>2. CASE s = r
    BY <1>1, <2>1, <2>2 DEF Flight, Landed, CommitsOf, Dest
  <2>3. CASE s # r
    BY <1>2, <2>1, <2>3 DEF Flight, Landed, CommitsOf, Dest
  <2> QED
    BY <2>2, <2>3
<1>5. ASSUME NEW s \in Run PROVE RowOK(s)'
  <2>1. CASE s = r
    BY <1>1, <2>1 DEF RowOK, IsTerminal, HasRow
  <2>2. CASE s # r
    BY <2>2, RowFrame
  <2> QED
    BY <2>1, <2>2
<1> QED
  BY <1>3, <1>4, <1>5 DEF DataInv, OneCommit

THEOREM DataStep == TypeInv /\ DataInv /\ [Next]_vars => DataInv'
<1> SUFFICES ASSUME TypeInv, DataInv, [Next]_vars PROVE DataInv'
  OBVIOUS
<1> USE NullAssumption, NullReplyAssumption, JobAssumption
<1>1. ASSUME NEW r \in Run, NEW j \in Job, Submit(r, j) PROVE DataInv'
  BY <1>1, QuietData DEF Submit, TypeOK
<1>2. ASSUME NEW r \in Run, CreateRun(r) PROVE DataInv'
  <2>1. RowOK(r) /\ Control(r)
    BY DEF DataInv
  <2>2. ledger'[r] = NewRow /\ \A s \in Run \ {r} : ledger'[s] = ledger[s]
    BY <1>2 DEF CreateRun, TypeOK
  <2>3. RowOK(r)'
    BY <1>2, <2>1, <2>2 DEF CreateRun, RowOK, Control, IsTerminal, HasRow, NewRow, Terminal
  <2> QED
    BY <1>2, <2>2, <2>3, OneRowData DEF CreateRun
<1>3. ASSUME NEW r \in Run, CreateRunFails(r) PROVE DataInv'
  BY <1>3, QuietData DEF CreateRunFails, TypeOK
<1>4. ASSUME NEW r \in Run, DropSubmit(r) PROVE DataInv'
  BY <1>4, QuietData DEF DropSubmit, TypeOK
<1>5. ASSUME NEW r \in Run, Spawn(r) PROVE DataInv'
  BY <1>5, QuietData DEF Spawn, TypeOK
<1>6. ASSUME NEW r \in Run, Cancel(r) PROVE DataInv'
  BY <1>6, QuietData DEF Cancel, TypeOK
<1>7. ASSUME NEW r \in Run, MarkRunning(r) PROVE DataInv'
  <2>1. RowOK(r) /\ Control(r) /\ outcome[r] = Null /\ HasRow(r) /\ ~IsTerminal(r)
    BY <1>7 DEF MarkRunning, DataInv, Control, HasRow
  <2>2. /\ ledger'[r] \in {ledger[r], UpdateStatus(ledger[r], RunningUpdate)}
        /\ \A s \in Run \ {r} : ledger'[s] = ledger[s]
    BY <1>7 DEF MarkRunning, TypeOK
  <2>3. RowOK(r)'
    BY <1>7, <2>1, <2>2 DEF MarkRunning, RowOK, IsTerminal, HasRow, UpdateStatus, Coalesce,
       RunningUpdate, NewRow, Terminal
  <2>4. pc'[r] = "started" /\ \A s \in Run \ {r} : pc'[s] = pc[s]
    BY <1>7 DEF MarkRunning, TypeOK
  <2> QED
    BY <1>7, <2>2, <2>3, <2>4, OneRowData DEF MarkRunning
<1>8. ASSUME NEW r \in Run, StartQuery(r) PROVE DataInv'
  <2>1. CASE flags[r] = "set"
    <3>1. /\ Settle(r, Null, Null, "cancelled before execution")
          /\ "cancelled before execution" \in Early \cap ErrorText
      BY <1>8, <2>1 DEF StartQuery, SettleErr, Early, ErrorText
    <3> QED
      BY <1>8, <3>1, EarlyErrorHonest, SettleData DEF StartQuery
  <2>2. CASE flags[r] = "clear"
    BY <1>8, <2>2, QuietData DEF StartQuery, TypeOK
  <2> QED
    BY <1>8, <2>1, <2>2 DEF StartQuery
<1>9. ASSUME NEW r \in Run, PlanFails(r) PROVE DataInv'
  <2>1. Settle(r, Null, Null, "query error") /\ "query error" \in Early \cap ErrorText
    BY <1>9 DEF PlanFails, SettleErr, Early, ErrorText
  <2> QED
    BY <1>9, <2>1, EarlyErrorHonest, SettleData DEF PlanFails
<1>10. ASSUME NEW r \in Run, NEW n \in 0..MaxBatches, OpenWrite(r, n) PROVE DataInv'
  BY <1>10, QuietData DEF OpenWrite, TypeOK
<1>11. ASSUME NEW r \in Run, PollCancelled(r) PROVE DataInv'
  <2>1. Settle(r, Null, Null, "cancelled before commit") /\ "cancelled before commit" \in Early \cap ErrorText
    BY <1>11 DEF PollCancelled, SettleErr, Early, ErrorText
  <2> QED
    BY <1>11, <2>1, EarlyErrorHonest, SettleData DEF PollCancelled
<1>12. ASSUME NEW r \in Run, PollBatch(r) PROVE DataInv'
  BY <1>12, QuietData DEF PollBatch, TypeOK
<1>13. ASSUME NEW r \in Run, PollError(r) PROVE DataInv'
  <2>1. Settle(r, Null, Null, "query error") /\ "query error" \in Early \cap ErrorText
    BY <1>13 DEF PollError, SettleErr, Early, ErrorText
  <2> QED
    BY <1>13, <2>1, EarlyErrorHonest, SettleData DEF PollError
<1>14. ASSUME NEW r \in Run, PollEnd(r) PROVE DataInv'
  <2>1. pc[r] = "streaming" /\ r \notin torn /\ pulled[r] = size[r] /\ torn' = torn
    BY <1>14 DEF PollEnd, DataInv, Control
  <2>2. /\ pc'[r] = "committing" /\ inflight' = inflight \cup {r}
        /\ \A s \in Run \ {r} : pc'[s] = pc[s]
        /\ UNCHANGED <<ledger, outcome, job, size, pulled, commits, reply>>
    BY <1>14 DEF PollEnd, TypeOK
  <2> QED
    BY <2>1, <2>2, AskData DEF Whole
<1>14a. ASSUME NEW r \in Run, PumpPanics(r) PROVE DataInv'
  <2>1. pc[r] = "streaming" /\ IsLake(r) /\ pulled[r] <= size[r] /\ torn' = torn \cup {r}
    BY <1>14a DEF PumpPanics, Control
  <2>2. /\ pc'[r] = "committing" /\ inflight' = inflight \cup {r}
        /\ \A s \in Run \ {r} : pc'[s] = pc[s]
        /\ UNCHANGED <<ledger, outcome, job, size, pulled, commits, reply>>
    BY <1>14a DEF PumpPanics, TypeOK
  <2>3. Whole(r)'
    BY <2>1, <2>2 DEF Whole, IsLake, Dest
  <2> QED
    BY <2>1, <2>2, <2>3, AskData
<1>15. ASSUME NEW r \in Run, WriteReturns(r) PROVE DataInv'
  <2>1. /\ reply[r] \in Reply /\ pulled[r] \in Nat /\ Flight(r) /\ r \notin inflight
        /\ job[r] \in Job
    <3>1. reply[r] \in Reply /\ pulled[r] \in Nat /\ job[r] \in Job /\ pc[r] = "committing"
      BY <1>15 DEF WriteReturns, TypeOK, Control
    <3>2. Flight(r)
      BY DEF DataInv
    <3> QED
      BY <3>1, <3>2 DEF Flight
  <2>2. CASE ~reply[r].ok
    <3>1. Settle(r, Null, Null, "write failed") /\ "write failed" \in ErrorText
      BY <1>15, <2>2 DEF WriteReturns, SettleErr, ErrorText
    <3>2. Honest(r, Result(Null, Null, "write failed"))'
      BY <1>15, <2>1, <2>2 DEF WriteReturns, Honest, Result, Early, ErrorText, Flight, Landed,
         CommitsOf, Dest
    <3> QED
      BY <1>15, <3>1, <3>2, SettleData DEF WriteReturns
  <2>3. CASE reply[r].ok /\ IsLake(r) /\ pulled[r] = 0
    <3>1. Settle(r, Null, Null, "empty stream") /\ "empty stream" \in ErrorText
      BY <1>15, <2>3 DEF WriteReturns, SettleErr, ErrorText
    <3>2. Honest(r, Result(Null, Null, "empty stream"))'
      BY <1>15, <2>3 DEF WriteReturns, Honest, Result, Early, ErrorText, IsLake, Dest
    <3> QED
      BY <1>15, <3>1, <3>2, SettleData DEF WriteReturns
  <2>4. CASE reply[r].ok /\ ~(IsLake(r) /\ pulled[r] = 0)
    <3>1. PICK rows \in Nat : rows = pulled[r]
      BY <2>1
    <3>2. PICK snapshot \in Nat \cup {Null} :
             snapshot = IF IsLake(r) THEN reply[r].version ELSE Null
      BY <2>1 DEF Reply
    <3>3. Settle(r, rows, snapshot, Null)
      BY <1>15, <2>4, <3>1, <3>2 DEF WriteReturns
    <3>4. PICK c \in commits : c.run = r /\ c.version = reply[r].version
      BY <1>15, <2>1, <2>4 DEF Flight, WriteReturns
    <3>5. c.dest = Dest(r) /\ c.rows = rows
      BY <2>1, <3>1, <3>4 DEF DataInv, CommitOK
    <3>6. Honest(r, Result(rows, snapshot, Null))'
      BY <1>15, <3>1, <3>2, <3>4, <3>5 DEF WriteReturns, Honest, Exact, Result, Dest, IsLake
    <3> QED
      BY <1>15, <2>1, <3>3, <3>6, SettleData DEF WriteReturns
  <2> QED
    BY <2>2, <2>3, <2>4
<1>16. ASSUME NEW r \in Run, Timeout(r) PROVE DataInv'
  <2>1. Settle(r, Null, Null, "timed out") /\ "timed out" \in ErrorText
    BY <1>16 DEF Timeout, SettleErr, ErrorText
  <2>2. Honest(r, Result(Null, Null, "timed out"))'
    BY DEF Honest, Result, Early, ErrorText
  <2> QED
    BY <1>16, <2>1, <2>2, SettleData DEF Timeout
<1>17. ASSUME NEW r \in Run, Decide(r) PROVE DataInv'
  <2>1. /\ outcome[r] \in Row /\ Honest(r, outcome[r]) /\ RowOK(r) /\ ~IsTerminal(r)
    BY <1>17 DEF Decide, TypeOK, DataInv, Control, RowOK
  <2>2. PICK new \in Row : new = Verdict(outcome[r], flags[r])
    BY <2>1, VerdictType
  <2>3. /\ outcome'[r] = new /\ pc'[r] = "reporting"
        /\ \A s \in Run \ {r} : outcome'[s] = outcome[s] /\ pc'[s] = pc[s]
    BY <1>17, <2>2 DEF Decide, TypeOK
  <2>4. Honest(r, new)
    <3>1. /\ new.finished = outcome[r].finished /\ new.rows = outcome[r].rows
          /\ new.snapshot = outcome[r].snapshot
      BY <2>1, <2>2 DEF Verdict, Row
    <3>2. CASE outcome[r].error = Null
      <4>1. (new.status = "succeeded" /\ new.error = Null) \/ new.status = "cancelled"
        BY <2>1, <2>2, <3>2 DEF Verdict, Row
      <4>2. outcome[r].rows # Null
        BY <2>1, <3>2 DEF Honest
      <4> QED
        BY <2>1, <3>1, <4>1, <4>2 DEF Honest, Exact
    <3>3. CASE outcome[r].error # Null
      <4>1. outcome[r].status = "running"
        BY <1>17 DEF Decide, Control
      <4>2. outcome[r].rows = Null
        BY <2>1, <3>3, <4>1 DEF Honest
      <4>3. new.error = outcome[r].error /\ new.status \in {"cancelled", "failed"}
        BY <2>1, <2>2, <3>3 DEF Verdict, Row
      <4> QED
        BY <2>1, <3>1, <4>2, <4>3 DEF Honest
    <3> QED
      BY <3>2, <3>3
  <2>5. Honest(r, new)'
    BY <1>17, <2>4, HonestStable DEF Decide
  <2>6. RowOK(r)'
    BY <1>17, <2>1, <2>3, <2>5 DEF Decide, RowOK, IsTerminal, HasRow
  <2> QED
    BY <1>17, <2>3, <2>6, OneRowData DEF Decide
<1>18. ASSUME NEW r \in Run, Report(r) PROVE DataInv'
  <2>1. /\ outcome[r] \in Row /\ ledger[r] \in Row
        /\ Honest(r, outcome[r]) /\ HasRow(r) /\ ~IsTerminal(r) /\ RowOK(r)
    BY <1>18 DEF Report, TypeOK, DataInv, Control, RowOK, HasRow
  <2>2. PICK row \in Row : row = UpdateStatus(ledger[r], outcome[r])
    BY <2>1, UpdateStatusType
  <2>3. /\ row.rows = outcome[r].rows /\ row.snapshot = outcome[r].snapshot
        /\ row.error = outcome[r].error /\ row.status = outcome[r].status /\ row.finished
    BY <2>1, <2>2 DEF UpdateStatus, Coalesce, RowOK, Honest
  <2>4. Honest(r, row)
    BY <2>1, <2>3 DEF Honest, Exact
  <2>5. Honest(r, row)' /\ Honest(r, outcome[r])'
    BY <1>18, <2>1, <2>4, HonestStable DEF Report
  <2>6. /\ ledger'[r] \in {ledger[r], row} /\ pc'[r] = "reported"
        /\ \A s \in Run \ {r} : ledger'[s] = ledger[s] /\ pc'[s] = pc[s]
    BY <1>18, <2>2 DEF Report, TypeOK
  <2>7. row.status \in Terminal /\ row # Null /\ outcome' = outcome
    BY <1>18, <2>3 DEF Report, Control
  <2>8. RowOK(r)'
    <3>1. CASE ledger'[r] = ledger[r]
      BY <2>1, <2>5, <2>7, <3>1 DEF RowOK, IsTerminal, HasRow
    <3>2. CASE ledger'[r] = row
      BY <2>5, <2>7, <3>2 DEF RowOK, IsTerminal, HasRow
    <3> QED
      BY <2>6, <3>1, <3>2
  <2> QED
    BY <1>18, <2>6, <2>8, OneRowData DEF Report
<1>19. ASSUME NEW r \in Run, DropFlag(r) PROVE DataInv'
  BY <1>19, QuietData DEF DropFlag, TypeOK
<1>20. ASSUME NEW r \in Run, TaskPanics(r) PROVE DataInv'
  BY <1>20, QuietData DEF TaskPanics, TypeOK
<1>21. ASSUME NEW r \in Run, CommitLands(r) PROVE DataInv'
  <2>1. PICK c : c = [run |-> r, dest |-> Dest(r), rows |-> pulled[r],
                     version |-> version[Dest(r)] + 1]
    OBVIOUS
  <2>2. /\ pc[r] \in PastStream /\ r \in inflight /\ reply[r] = Null /\ Whole(r)
        /\ \A d \in commits : d.run # r
    BY <1>21 DEF CommitLands, DataInv, Flight, Control, CommitOK
  <2>3. /\ commits' = commits \cup {c} /\ inflight' = inflight \ {r}
        /\ UNCHANGED <<ledger, outcome, job, size, pulled, torn, pc>>
    BY <1>21, <2>1 DEF CommitLands
  <2>4. PICK answer \in Reply :
          /\ reply' = [reply EXCEPT ![r] = answer]
          /\ answer.ok => answer.version = c.version
          /\ ~answer.ok => Dest(r) \in Remote
    <3>1. version[Dest(r)] + 1 \in Nat
      BY <2>2 DEF TypeOK, Control, Dest
    <3>2. CASE reply' = [reply EXCEPT ![r] = [ok |-> TRUE, version |-> version[Dest(r)] + 1]]
      <4> [ok |-> TRUE, version |-> version[Dest(r)] + 1] \in Reply
        BY <3>1 DEF Reply
      <4> WITNESS [ok |-> TRUE, version |-> version[Dest(r)] + 1] \in Reply
      <4> QED
        BY <2>1, <3>2
    <3>3. CASE Dest(r) \in Remote /\ reply' = [reply EXCEPT ![r] = [ok |-> FALSE, version |-> 0]]
      <4> [ok |-> FALSE, version |-> 0] \in Reply
        BY DEF Reply
      <4> WITNESS [ok |-> FALSE, version |-> 0] \in Reply
      <4> QED
        BY <3>3
    <3> QED
      BY <1>21, <3>2, <3>3 DEF CommitLands
  <2>5. reply'[r] = answer /\ \A s \in Run \ {r} : reply'[s] = reply[s]
    BY <2>4 DEF TypeOK
  <2>6. OneCommit'
    BY <2>1, <2>2, <2>3 DEF DataInv, OneCommit
  <2>7. ASSUME NEW d \in commits' PROVE CommitOK(d)'
    <3>1. CASE d = c
      BY <2>1, <2>2, <2>3, <2>5, <3>1 DEF CommitOK, Dest, Whole, IsLake
    <3>2. CASE d \in commits
      <4>1. CommitOK(d) /\ d.run \in Run /\ d.run # r
        BY <2>2, <3>2 DEF DataInv, TypeOK, Commit
      <4> QED
        BY <2>3, <2>5, <4>1 DEF CommitOK, Dest, Whole, IsLake
    <3> QED
      BY <2>3, <3>1, <3>2
  <2>8. ASSUME NEW s \in Run PROVE Flight(s)'
    <3>1. Flight(s)
      BY DEF DataInv
    <3>2. CASE s = r
      BY <2>1, <2>2, <2>3, <2>4, <2>5, <3>2 DEF Flight, Landed, CommitsOf, Dest, Whole, IsLake
    <3>3. CASE s # r
      BY <2>1, <2>3, <2>5, <3>1, <3>3 DEF Flight, Landed, CommitsOf, Dest, Whole, IsLake
    <3> QED
      BY <3>2, <3>3
  <2>9. ASSUME NEW s \in Run PROVE RowOK(s)'
    <3>1. CASE s = r
      BY <2>2, <2>3, <3>1, RowFrame
    <3>2. CASE s # r
      BY <2>1, <2>3, <2>5, <3>2, RowFrame
    <3> QED
      BY <3>1, <3>2
  <2> QED
    BY <2>6, <2>7, <2>8, <2>9 DEF DataInv
<1>22. ASSUME NEW r \in Run, CommitAborts(r) PROVE DataInv'
  <2>1. /\ pc[r] \in PastStream /\ r \in inflight /\ reply[r] = Null
        /\ \A d \in commits : d.run # r
    BY <1>22 DEF CommitAborts, DataInv, Flight, Control, CommitOK
  <2>2. /\ inflight' = inflight \ {r}
        /\ UNCHANGED <<ledger, outcome, job, size, pulled, torn, pc, commits>>
    BY <1>22 DEF CommitAborts
  <2>3. PICK answer \in Reply : ~answer.ok /\ reply' = [reply EXCEPT ![r] = answer]
    BY <1>22 DEF CommitAborts, Reply
  <2>4. reply'[r] = answer /\ \A s \in Run \ {r} : reply'[s] = reply[s]
    BY <2>3 DEF TypeOK
  <2>5. ASSUME NEW d \in commits PROVE CommitOK(d)'
    <3>1. CommitOK(d) /\ d.run \in Run /\ d.run # r
      BY <2>1 DEF DataInv, TypeOK, Commit
    <3> QED
      BY <2>2, <2>4, <3>1 DEF CommitOK, Dest, Whole, IsLake
  <2>6. ASSUME NEW s \in Run PROVE Flight(s)'
    <3>1. Flight(s)
      BY DEF DataInv
    <3>2. CASE s = r
      BY <2>1, <2>2, <2>3, <2>4, <3>1, <3>2 DEF Flight, Landed, CommitsOf, Dest, Whole, IsLake
    <3>3. CASE s # r
      BY <2>2, <2>4, <3>1, <3>3 DEF Flight, Landed, CommitsOf, Dest, Whole, IsLake
    <3> QED
      BY <3>2, <3>3
  <2>7. ASSUME NEW s \in Run PROVE RowOK(s)'
    <3>1. CASE s = r
      BY <2>1, <2>2, <3>1, RowFrame
    <3>2. CASE s # r
      BY <2>2, <2>4, <3>2, RowFrame
    <3> QED
      BY <3>1, <3>2
  <2> QED
    BY <2>2, <2>5, <2>6, <2>7 DEF DataInv, OneCommit
<1>23. ASSUME Crash PROVE DataInv'
  BY <1>23, QuietData DEF Crash, TypeOK
<1>24. ASSUME Restart PROVE DataInv'
  <2>1. /\ ledger' = ReconcileOrphaned(ledger)
        /\ UNCHANGED <<outcome, job, size, pulled, torn, pc, commits, inflight, reply>>
    BY <1>24 DEF Restart
  <2>2. OneCommit' /\ (\A c \in commits : CommitOK(c))' /\ (\A s \in Run : Flight(s))'
    BY <2>1, DestinationFrame
  <2>3. ASSUME NEW s \in Run PROVE RowOK(s)'
    <3>1. RowOK(s) /\ Control(s)
      BY DEF DataInv
    <3>2. CASE Orphaned(ledger[s])
      <4>1. ledger[s] \in Row /\ ~IsTerminal(s) /\ HasRow(s)
        BY <3>2 DEF TypeOK, Orphaned, IsTerminal, HasRow, Terminal
      <4>2. PICK row \in Row : row = [ledger[s] EXCEPT !.status = "failed", !.finished = TRUE,
                                                     !.error = "server restarted"]
        BY <4>1 DEF Row, Status, Terminal, ErrorText
      <4>3. ledger'[s] = row
        BY <2>1, <3>2, <4>2 DEF ReconcileOrphaned
      <4>4. /\ row.status = "failed" /\ row.finished /\ row.error = "server restarted"
            /\ row.rows = Null /\ row # Null
        BY <3>1, <4>1, <4>2 DEF RowOK, Row
      <4>5. Honest(s, row)'
        BY <4>4 DEF Honest, Early, ErrorText
      <4>6. outcome[s] # Null => Honest(s, outcome[s])'
        BY <2>1, <3>1 DEF RowOK, Honest, Exact, Dest, IsLake, Landed, CommitsOf
      <4> QED
        BY <2>1, <4>3, <4>4, <4>5, <4>6 DEF RowOK, IsTerminal, HasRow, Terminal
    <3>3. CASE ~Orphaned(ledger[s])
      BY <2>1, <3>3, RowFrame DEF ReconcileOrphaned
    <3> QED
      BY <3>2, <3>3
  <2> QED
    BY <2>2, <2>3 DEF DataInv
<1>25. ASSUME UNCHANGED vars PROVE DataInv'
  BY <1>25, QuietData
<1> QED
  BY <1>1, <1>2, <1>3, <1>4, <1>5, <1>6, <1>7, <1>8, <1>9, <1>10, <1>11, <1>12, <1>13, <1>14, <1>14a, <1>15, <1>16, <1>17, <1>18, <1>19, <1>20, <1>21, <1>22, <1>23, <1>24, <1>25 DEF Next, SubmitStep, TaskStep, Poll, Resolve

-----------------------------------------------------------------------------
(* The theorems. *)

\* The executor's state is well typed, and where a run has got to agrees with its row,
\* its outcome and its commit: every reachable state satisfies the invariant.
THEOREM Invariant == Spec => []IInv
<1>1. Init => IInv
  BY InitTypeInv, InitDataInv DEF IInv
<1>2. IInv /\ [Next]_vars => IInv'
  BY TypeStep, DataStep DEF IInv
<1> QED
  BY <1>1, <1>2, PTL DEF Spec

\* Every variable keeps its type, through every failure the model allows.
THEOREM TypeCorrect == Spec => []TypeOK
<1>1. IInv => TypeOK
  BY DEF IInv
<1> QED
  BY <1>1, Invariant, PTL

\* A ledger row that is succeeded or reports rows stands for a commit of its run that
\* holds exactly those rows (run_job_task's update_status calls).
THEOREM LedgerIsTrue == Spec => []ReportedRowsLanded
<1>1. IInv => ReportedRowsLanded
  <2> SUFFICES ASSUME IInv, NEW r \in Run, HasRow(r)
               PROVE  /\ ledger[r].status = "succeeded" => ledger[r].rows # Null
                      /\ ledger[r].rows # Null =>
                           \E c \in CommitsOf(r) :
                              /\ c.dest = Dest(r)
                              /\ c.rows = ledger[r].rows
                              /\ ledger[r].snapshot = IF IsLake(r) THEN c.version ELSE Null
    BY DEF ReportedRowsLanded
  <2>1. RowOK(r)
    BY DEF IInv, DataInv
  <2>2. CASE IsTerminal(r)
    BY <2>1, <2>2 DEF RowOK, Honest, Exact, CommitsOf
  <2>3. CASE ~IsTerminal(r)
    BY <2>1, <2>3 DEF RowOK, IsTerminal, Terminal
  <2> QED
    BY <2>2, <2>3
<1> QED
  BY <1>1, Invariant, PTL

\* No run commits twice, and no cancel, error, deadline or crash leaves part of a
\* query's batches in a destination; only a panic of the task that pumps a lake's
\* stream does (JobDestination::write, spawn_stream_pump).
THEOREM Atomicity == Spec => []AllOrNothing
<1>1. IInv => AllOrNothing
  <2> SUFFICES ASSUME IInv, NEW c \in commits
               PROVE  /\ CommitsOf(c.run) = {c}
                      /\ IF c.run \in torn THEN IsLake(c.run) /\ c.rows <= size[c.run]
                         ELSE c.rows = size[c.run]
    BY DEF AllOrNothing
  <2>1. CommitOK(c)
    BY DEF IInv, DataInv
  <2>2. CommitsOf(c.run) = {c}
    BY DEF IInv, DataInv, OneCommit, CommitsOf
  <2> QED
    BY <2>1, <2>2 DEF CommitOK, Whole
<1> QED
  BY <1>1, Invariant, PTL

\* A terminal row that says nothing was written, of a run that landed, has one of the
\* four known reasons (the Err arm of run_job_task, reconcile_orphaned).
THEOREM DenialsExplained == Spec => []DeniedCommitsExplained
<1>1. IInv => DeniedCommitsExplained
  <2> SUFFICES ASSUME IInv, NEW r \in Run, IsTerminal(r), ledger[r].rows = Null, Landed(r)
               PROVE  \/ ledger[r].error \in {"timed out", "server restarted"}
                      \/ ledger[r].error = "empty stream" /\ IsLake(r)
                      \/ ledger[r].error = "write failed" /\ Dest(r) \in Remote
    BY DEF DeniedCommitsExplained
  <2>1. Honest(r, ledger[r])
    BY DEF IInv, DataInv, RowOK
  <2>2. reply[r] # Null
    BY DEF IInv, DataInv, CommitOK, Landed, CommitsOf
  <2> QED
    BY <2>1, <2>2 DEF Honest, Early, ErrorText
<1> QED
  BY <1>1, Invariant, PTL

\* Who writes the ledger or lands a commit; every other step leaves both alone.
LEMMA Writers ==
    ASSUME Next
    PROVE  \/ \E r \in Run : CreateRun(r) \/ MarkRunning(r) \/ Report(r) \/ CommitLands(r)
           \/ Restart
           \/ UNCHANGED <<ledger, commits>>
<1> DEFINE Same == UNCHANGED <<ledger, commits>>
<1>1. CASE Crash
  BY <1>1 DEF Crash
<1>2. ASSUME NEW r \in Run, (\E j \in Job : Submit(r, j)) \/ CreateRunFails(r) \/ DropSubmit(r) \/ Spawn(r)
      PROVE  Same
  BY <1>2 DEF Submit, CreateRunFails, DropSubmit, Spawn, destVars
<1>3. ASSUME NEW r \in Run, Cancel(r) \/ StartQuery(r) \/ PlanFails(r) \/ \E n \in 0..MaxBatches : OpenWrite(r, n)
      PROVE  Same
  BY <1>3 DEF Cancel, StartQuery, PlanFails, OpenWrite, destVars
<1>4. ASSUME NEW r \in Run, WriteReturns(r) \/ Decide(r) \/ DropFlag(r)
      PROVE  Same
  BY <1>4 DEF WriteReturns, Decide, DropFlag, destVars
<1>5. ASSUME NEW r \in Run, Poll(r) PROVE Same
  BY <1>5 DEF Poll, PollCancelled, PollBatch, PollError, PollEnd, destVars
<1>6. ASSUME NEW r \in Run, Timeout(r) \/ TaskPanics(r) \/ PumpPanics(r) \/ CommitAborts(r) PROVE Same
  BY <1>6 DEF Timeout, TaskPanics, PumpPanics, CommitAborts, destVars
<1> HIDE DEF Same
<1> QED
  BY <1>1, <1>2, <1>3, <1>4, <1>5, <1>6 DEF Next, SubmitStep, TaskStep, Resolve, Same

\* No step of a task, a client, a destination or a restart changes a terminal row,
\* although update_status does not look at the status it replaces.
THEOREM RowsFreeze == Spec => TerminalRowsFrozen
<1>1. IInv /\ [Next]_vars => [\A r \in Run : IsTerminal(r) => ledger'[r] = ledger[r]]_vars
  <2> SUFFICES ASSUME IInv, Next, NEW s \in Run, IsTerminal(s)
               PROVE  ledger'[s] = ledger[s]
    OBVIOUS
  <2>1. TypeOK /\ Control(s) /\ ledger[s] # Null
    BY DEF IInv, IsTerminal, HasRow
  <2>2. ASSUME NEW r \in Run, CreateRun(r) \/ MarkRunning(r) \/ Report(r)
        PROVE  ledger'[s] = ledger[s]
    <3>1. s # r
      BY <2>1, <2>2 DEF Control, CreateRun, MarkRunning, Report
    <3> QED
      BY <2>1, <2>2, <3>1 DEF TypeOK, CreateRun, MarkRunning, Report
  <2>3. CASE Restart
    BY <2>3 DEF Restart, ReconcileOrphaned, Orphaned, IsTerminal, Terminal
  <2>4. ASSUME NEW r \in Run, CommitLands(r)
        PROVE  ledger'[s] = ledger[s]
    BY <2>4 DEF CommitLands
  <2> QED
    BY <2>2, <2>3, <2>4, Writers
<1> QED
  BY <1>1, Invariant, PTL DEF Spec, TerminalRowsFrozen

-----------------------------------------------------------------------------
(* The executor, its ledger and its destinations implement RunLedger, for   *)
(* any runs, jobs, destinations and bounds.  What a client and a reader can *)
(* see (Abstract's three variables) only changes when a ledger row or the   *)
(* set of commits does, so five actions map to a step of RunLedger and the  *)
(* others to a stutter.                                                     *)

USE DEF TypeInv, BeforeWrite, Writing, AfterWrite, Live, PC, PastStream,
        ledgerVars, taskVars, destVars, serverVars, vars

\* CHOOSE has nothing to choose from: a run has one commit at most.
VisibleExact ==
    /\ \A c \in commits : VisibleOf(c.run) = c.rows
    /\ \A r \in Run : (\A c \in commits : c.run # r) => VisibleOf(r) = Null

LEMMA VisibleValue == IInv => VisibleExact
<1> SUFFICES ASSUME IInv PROVE VisibleExact
  OBVIOUS
<1>1. ASSUME NEW c \in commits PROVE VisibleOf(c.run) = c.rows
  <2>1. CommitsOf(c.run) = {c}
    BY DEF CommitsOf, IInv, DataInv, OneCommit
  <2> QED
    BY <2>1 DEF VisibleOf, Landed
<1>2. ASSUME NEW r \in Run, \A c \in commits : c.run # r PROVE VisibleOf(r) = Null
  BY <1>2 DEF VisibleOf, Landed, CommitsOf
<1> QED
  BY <1>1, <1>2 DEF VisibleExact

LEMMA VisibleValueNext == IInv' => VisibleExact'
BY VisibleValue, PTL

\* What readers see of a run whose commits did not change.
LEMMA VisibleFrame ==
    ASSUME IInv, IInv', NEW s \in Run,
           \A c \in commits' \cup commits : c.run = s => c \in commits' \cap commits
    PROVE  VisibleOf(s)' = VisibleOf(s)
<1>1. VisibleExact /\ VisibleExact'
  BY VisibleValue, VisibleValueNext
<1>2. CASE \E c \in commits : c.run = s
  BY <1>1, <1>2 DEF VisibleExact
<1>3. CASE \A c \in commits : c.run # s
  BY <1>1, <1>3 DEF VisibleExact
<1> QED
  BY <1>2, <1>3

LEMMA InitRefines == Init => Abstract!Init
BY DEF Init, Abstract!Init, StatusOf, VisibleOf, ClaimedOf, HasRow, Landed, CommitsOf

LEMMA StutterRefines ==
    ASSUME IInv, IInv', UNCHANGED <<ledger, commits>>
    PROVE  UNCHANGED Abstract!ledgerVars
<1>1. \A s \in Run : VisibleOf(s)' = VisibleOf(s)
  BY VisibleFrame
<1> QED
  BY <1>1 DEF Abstract!ledgerVars, StatusOf, ClaimedOf, HasRow

\* A step that writes the row of one run, as update_status and create_run do.
LEMMA RowWriteFrame ==
    ASSUME IInv, IInv', commits' = commits, NEW r \in Run, NEW row \in Row,
           ledger' = [ledger EXCEPT ![r] = row]
    PROVE  /\ [s \in Run |-> VisibleOf(s)]' = [s \in Run |-> VisibleOf(s)]
           /\ [s \in Run |-> StatusOf(s)]' =
                [[s \in Run |-> StatusOf(s)] EXCEPT ![r] = row.status]
           /\ [s \in Run |-> ClaimedOf(s)]' =
                [[s \in Run |-> ClaimedOf(s)] EXCEPT ![r] = row.rows]
           /\ row.rows = ClaimedOf(r) =>
                [s \in Run |-> ClaimedOf(s)]' = [s \in Run |-> ClaimedOf(s)]
<1>1. \A s \in Run : VisibleOf(s)' = VisibleOf(s)
  BY VisibleFrame
<1>2. row # Null
  BY NullAssumption
<1>3. /\ ledger'[r] = row
      /\ \A s \in Run \ {r} : ledger'[s] = ledger[s]
  BY DEF IInv, TypeOK
<1>4. /\ StatusOf(r)' = row.status /\ ClaimedOf(r)' = row.rows
      /\ \A s \in Run \ {r} : StatusOf(s)' = StatusOf(s) /\ ClaimedOf(s)' = ClaimedOf(s)
  BY <1>2, <1>3 DEF StatusOf, ClaimedOf, HasRow
<1> QED
  BY <1>1, <1>4

LEMMA CreateRunRefines ==
    ASSUME IInv, IInv', NEW r \in Run, CreateRun(r)
    PROVE  Abstract!Admit(r)
<1>1. StatusOf(r) = "none" /\ ClaimedOf(r) = Null
  BY DEF CreateRun, StatusOf, ClaimedOf, HasRow
<1>2. PICK row \in Row : row = NewRow /\ row.status = "pending" /\ row.rows = Null
  BY UpdateTypes DEF NewRow
<1>3. ledger' = [ledger EXCEPT ![r] = row] /\ commits' = commits
  BY <1>2 DEF CreateRun
<1>4. /\ [s \in Run |-> StatusOf(s)]' =
           [[s \in Run |-> StatusOf(s)] EXCEPT ![r] = row.status]
      /\ UNCHANGED <<[s \in Run |-> VisibleOf(s)], [s \in Run |-> ClaimedOf(s)]>>
  BY <1>1, <1>2, <1>3, RowWriteFrame
<1>5. [s \in Run |-> StatusOf(s)][r] = "none"
  BY <1>1
<1> QED
  BY <1>2, <1>4, <1>5, Zenon DEF Abstract!Admit

LEMMA MarkRunningRefines ==
    ASSUME IInv, IInv', NEW r \in Run, MarkRunning(r)
    PROVE  Abstract!Begin(r) \/ UNCHANGED Abstract!ledgerVars
<1>1. CASE UNCHANGED ledger
  BY <1>1, StutterRefines DEF MarkRunning
<1>2. CASE ledger' = [ledger EXCEPT ![r] = UpdateStatus(@, RunningUpdate)]
  <2>1. ledger[r] \in Row /\ ledger[r].status = "pending" /\ HasRow(r)
    BY DEF MarkRunning, IInv, TypeOK, Control, HasRow
  <2>2. StatusOf(r) = "pending" /\ ClaimedOf(r) = ledger[r].rows
    BY <2>1 DEF StatusOf, ClaimedOf
  <2>3. PICK row \in Row : row = UpdateStatus(ledger[r], RunningUpdate)
    BY <2>1, UpdateTypes, UpdateStatusType
  <2>4. row.status = "running" /\ row.rows = ledger[r].rows
    BY <2>3 DEF UpdateStatus, RunningUpdate, NewRow, Coalesce
  <2>5. ledger' = [ledger EXCEPT ![r] = row] /\ commits' = commits
    BY <1>2, <2>1, <2>3 DEF MarkRunning, IInv, TypeOK
  <2>6. /\ [s \in Run |-> StatusOf(s)]' =
             [[s \in Run |-> StatusOf(s)] EXCEPT ![r] = row.status]
        /\ UNCHANGED <<[s \in Run |-> VisibleOf(s)], [s \in Run |-> ClaimedOf(s)]>>
    BY <2>2, <2>4, <2>5, RowWriteFrame
  <2>7. [s \in Run |-> StatusOf(s)][r] = "pending"
    BY <2>2
  <2> QED
    BY <2>4, <2>6, <2>7, Zenon DEF Abstract!Begin
<1> QED
  BY <1>1, <1>2 DEF MarkRunning

LEMMA ReportRefines ==
    ASSUME IInv, IInv', NEW r \in Run, Report(r)
    PROVE  Abstract!Confirm(r) \/ Abstract!Deny(r) \/ UNCHANGED Abstract!ledgerVars
<1>1. CASE UNCHANGED ledger
  BY <1>1, StutterRefines DEF Report
<1>2. CASE ledger' = [ledger EXCEPT ![r] = UpdateStatus(@, outcome[r])]
  <2>1. /\ ledger[r] \in Row /\ HasRow(r) /\ ~IsTerminal(r) /\ outcome[r] \in Row
        /\ outcome[r].status \in Terminal
    BY DEF Report, IInv, TypeOK, Control, HasRow
  <2>2. Honest(r, outcome[r]) /\ ledger[r].rows = Null
    BY <2>1, NullAssumption DEF IInv, DataInv, RowOK
  <2>3. StatusOf(r) \in {"pending", "running"} /\ ClaimedOf(r) = Null
    BY <2>1, <2>2 DEF StatusOf, ClaimedOf, IsTerminal, Row, Status
  <2>4. PICK row \in Row : row = UpdateStatus(ledger[r], outcome[r])
    BY <2>1, UpdateStatusType
  <2>5. row.status = outcome[r].status /\ row.rows = outcome[r].rows
    BY <2>2, <2>4 DEF UpdateStatus, Coalesce
  <2>6. ledger' = [ledger EXCEPT ![r] = row] /\ commits' = commits
    BY <1>2, <2>1, <2>4 DEF Report, IInv, TypeOK
  <2>7. CASE row.rows = Null
    <3>1. row.status \in {"failed", "cancelled"}
      BY <2>1, <2>2, <2>5, <2>7 DEF Honest, Terminal
    <3> QED
      BY <2>3, <2>6, <2>7, <3>1, RowWriteFrame DEF Abstract!Deny, Abstract!Open
  <2>8. CASE row.rows # Null
    <3>1. row.status \in {"succeeded", "cancelled"}
      BY <2>1, <2>2, <2>5, <2>8 DEF Honest, Terminal
    <3>2. VisibleOf(r) = row.rows
      BY <2>2, <2>5, <2>8, VisibleValue DEF Honest, Exact, VisibleExact
    <3>3. /\ [s \in Run |-> VisibleOf(s)]' = [s \in Run |-> VisibleOf(s)]
          /\ [s \in Run |-> StatusOf(s)]' =
               [[s \in Run |-> StatusOf(s)] EXCEPT ![r] = row.status]
          /\ [s \in Run |-> ClaimedOf(s)]' =
               [[s \in Run |-> ClaimedOf(s)] EXCEPT ![r] = row.rows]
      BY <2>6, RowWriteFrame
    <3>4. /\ [s \in Run |-> StatusOf(s)][r] \in Abstract!Open
          /\ [s \in Run |-> VisibleOf(s)][r] = row.rows
      BY <2>3, <3>2 DEF Abstract!Open
    <3> QED
      BY <2>8, <3>1, <3>3, <3>4, Zenon DEF Abstract!Confirm
  <2> QED
    BY <2>7, <2>8
<1> QED
  BY <1>1, <1>2 DEF Report

LEMMA CommitLandsRefines ==
    ASSUME IInv, IInv', NEW r \in Run, CommitLands(r)
    PROVE  Abstract!Land(r)
<1>1. /\ HasRow(r) /\ \A c \in commits : c.run # r
      /\ pulled[r] \in Nat
  BY DEF CommitLands, IInv, DataInv, Control, CommitOK, TypeOK
<1>2. PICK c : c = [run |-> r, dest |-> Dest(r), rows |-> pulled[r],
                    version |-> version[Dest(r)] + 1]
  OBVIOUS
<1>3. commits' = commits \cup {c} /\ c.run = r /\ c.rows \in Nat /\ ledger' = ledger
  BY <1>1, <1>2 DEF CommitLands
<1>4. VisibleOf(r) = Null /\ VisibleOf(r)' = c.rows
  BY <1>1, <1>3, VisibleValue, VisibleValueNext DEF VisibleExact
<1>5. \A s \in Run \ {r} : VisibleOf(s)' = VisibleOf(s)
  BY <1>3, VisibleFrame
<1>6. \A s \in Run : StatusOf(s)' = StatusOf(s) /\ ClaimedOf(s)' = ClaimedOf(s)
  BY <1>3 DEF StatusOf, ClaimedOf, HasRow
<1>7. StatusOf(r) # "none" /\ ClaimedOf(r) = Null
  <2>1. ledger[r] \in Row /\ RowOK(r)
    BY <1>1 DEF IInv, DataInv, TypeOK, HasRow
  <2>2. ledger[r].rows = Null
    BY <1>1, <2>1 DEF RowOK, Honest, Exact
  <2> QED
    BY <1>1, <2>1, <2>2 DEF StatusOf, ClaimedOf, Row, Status, Terminal
<1> QED
  BY <1>3, <1>4, <1>5, <1>6, <1>7 DEF Abstract!Land

LEMMA RestartRefines ==
    ASSUME IInv, IInv', Restart
    PROVE  Abstract!Reconcile
<1>1. \A s \in Run : VisibleOf(s)' = VisibleOf(s)
  BY VisibleFrame DEF Restart
<1>2. ASSUME NEW s \in Run
      PROVE  /\ ClaimedOf(s)' = ClaimedOf(s)
             /\ StatusOf(s)' = IF StatusOf(s) \in Abstract!Open THEN "failed" ELSE StatusOf(s)
  <2>1. CASE Orphaned(ledger[s])
    <3>1. PICK row \in Row : row = ledger[s]
      BY <2>1 DEF IInv, TypeOK, Orphaned
    <3>2. PICK new \in Row : new = [row EXCEPT !.status = "failed", !.finished = TRUE,
                                               !.error = "server restarted"]
      BY DEF Row, Status, Terminal, ErrorText
    <3>3. ledger'[s] = new /\ new # Null /\ new.status = "failed" /\ new.rows = row.rows
      BY <2>1, <3>1, <3>2, NullAssumption DEF Restart, ReconcileOrphaned, Row
    <3> QED
      BY <2>1, <3>1, <3>3 DEF Orphaned, StatusOf, ClaimedOf, HasRow, Abstract!Open
  <2>2. CASE ~Orphaned(ledger[s])
    <3>1. ledger'[s] = ledger[s]
      BY <2>2 DEF Restart, ReconcileOrphaned
    <3> QED
      BY <2>2, <3>1 DEF Orphaned, StatusOf, ClaimedOf, HasRow, Abstract!Open
  <2> QED
    BY <2>1, <2>2
<1> QED
  BY <1>1, <1>2 DEF Abstract!Reconcile

\* Every step of the executor is a step of RunLedger or changes nothing it can see.
LEMMA StepRefines ==
    IInv /\ IInv' /\ [Next]_vars => [Abstract!Next]_(Abstract!ledgerVars)
<1> SUFFICES ASSUME IInv, IInv', [Next]_vars
             PROVE  [Abstract!Next]_(Abstract!ledgerVars)
  OBVIOUS
<1>1. ASSUME NEW r \in Run, CreateRun(r) \/ MarkRunning(r) \/ Report(r) \/ CommitLands(r)
      PROVE  [Abstract!Next]_(Abstract!ledgerVars)
  BY <1>1, CreateRunRefines, MarkRunningRefines, ReportRefines, CommitLandsRefines
     DEF Abstract!Next
<1>2. CASE Restart
  BY <1>2, RestartRefines DEF Abstract!Next
<1>3. CASE UNCHANGED <<ledger, commits>>
  BY <1>3, StutterRefines
<1>4. CASE UNCHANGED vars
  BY <1>3, <1>4 DEF vars, destVars
<1> QED
  BY <1>1, <1>2, <1>3, <1>4, Writers

\* The jobs subsystem keeps what RunLedger promises its clients: statuses only move
\* forward, a run becomes visible once, and no row claims rows nobody can read.
THEOREM Refinement == Spec => ImplementsRunLedger
BY InitRefines, Invariant, StepRefines, PTL DEF Spec, ImplementsRunLedger, Abstract!Spec
=============================================================================
