---------------------------- MODULE JobExecutor ----------------------------
(***************************************************************************)
(* The job executor of the server (crates/skardi/src/jobs): submit spawns  *)
(* one background task per run, the task streams a query into one          *)
(* destination that commits at the end, and the run ledger tells clients   *)
(* how it went.  The ledger, the destination and the executor's in-memory  *)
(* cancel flags change in separate steps, so calls to cancel, a deadline,  *)
(* a crash of the server, a panic of the task and a ledger write that      *)
(* fails may all fall between any two of them.                             *)
(***************************************************************************)
EXTENDS JobStore

CONSTANTS Job,             \* the job definitions loaded at startup
          Destination,     \* destination tables
          Lake,            \* Lance datasets; the others are SQL tables
          Remote,          \* SQL servers: their work outlives a crash of this process
          DestOf,          \* each job's destination block
          CreateIfMissing, \* jobs with destination.create_if_missing
          Timed,           \* jobs with execution.timeout_ms > 0
          Stalling,        \* jobs whose source or destination may stop answering
          MaxBatches,      \* bound: batches a query yields
          MaxCrashes,      \* bound: crashes of the server
          LedgerMayFail,   \* may a write to jobs.db return an error?
          TaskMayPanic     \* may a spawned task unwind?

ASSUME JobAssumption ==
    /\ Lake \subseteq Destination
    /\ Remote \subseteq Destination \ Lake
    /\ DestOf \in [Job -> Destination]
    /\ CreateIfMissing \subseteq Job /\ Timed \subseteq Job /\ Stalling \subseteq Job
    /\ MaxBatches \in Nat /\ MaxCrashes \in Nat
    /\ LedgerMayFail \in BOOLEAN /\ TaskMayPanic \in BOOLEAN

VARIABLES
    ledger,    \* jobs.db: the row of each run, or Null
    flags,     \* cancel_flags: "absent", or the run's AtomicBool "clear" / "set"
    pc,        \* where submit, then the run's task, has got to
    job,       \* the job a run was submitted for
    mode,      \* how the task writes: append / create (Lance), insert (SQL)
    size,      \* batches the run's query yields if it does not fail
    pulled,    \* batches the destination has taken from the stream
    torn,      \* runs whose stream ended in a panic of the task that pumps it
    outcome,   \* the arguments of the task's last update_status
    staging,   \* runs whose staging table is registered with the SessionContext
    version,   \* commits each destination has seen; for Lance, the dataset's version
    commits,   \* the commits of runs, visible to every reader of the destination
    inflight,  \* runs whose commit the destination is carrying out
    reply,     \* what the destination answered to the commit
    up,        \* is the server process alive?
    crashes,   \* crashes so far
    told       \* runs a cancel call was answered "cancelled: true" for

ledgerVars == <<ledger>>
taskVars   == <<pc, job, mode, size, pulled, torn, outcome>>
destVars   == <<version, commits, inflight, reply>>
serverVars == <<up, crashes>>
vars == <<ledgerVars, flags, taskVars, staging, destVars, serverVars, told>>

-----------------------------------------------------------------------------

\* Where a run may be while its task is alive, in the order of run_job_task.
BeforeWrite == {"spawned", "started", "planning"}
Writing     == {"streaming", "committing"}
AfterWrite  == {"finished", "reporting", "reported"}
Live        == BeforeWrite \cup Writing \cup AfterWrite
PC          == {"idle", "creating", "dropped", "rejected", "dead", "done"} \cup Live

Commit == [run : Run, dest : Destination, rows : Nat, version : Nat]
Reply  == [ok : BOOLEAN, version : Nat]

ASSUME NullReplyAssumption == Null \notin Reply /\ Null \notin Job

Dest(r)   == DestOf[job[r]]
IsLake(r) == Dest(r) \in Lake

TypeOK ==
    /\ ledger \in [Run -> Row \cup {Null}]
    /\ flags \in [Run -> {"absent", "clear", "set"}]
    /\ pc \in [Run -> PC]
    /\ job \in [Run -> Job \cup {Null}]
    /\ mode \in [Run -> {"append", "create", "insert", Null}]
    /\ size \in [Run -> Nat]
    /\ pulled \in [Run -> Nat]
    /\ torn \subseteq Run
    /\ outcome \in [Run -> Row \cup {Null}]
    /\ staging \subseteq Run
    /\ version \in [Destination -> Nat]
    /\ commits \subseteq Commit
    /\ inflight \subseteq Run
    /\ reply \in [Run -> Reply \cup {Null}]
    /\ up \in BOOLEAN
    /\ crashes \in Nat
    /\ told \subseteq Run

\* A lake may start as a missing dataset (version 0) or hold earlier commits; a
\* SQL table is created out of band, and its version only counts this model's commits.
Init ==
    /\ ledger = [r \in Run |-> Null]
    /\ flags = [r \in Run |-> "absent"]
    /\ pc = [r \in Run |-> "idle"]
    /\ job = [r \in Run |-> Null]
    /\ mode = [r \in Run |-> Null]
    /\ size = [r \in Run |-> 0]
    /\ pulled = [r \in Run |-> 0]
    /\ torn = {}
    /\ outcome = [r \in Run |-> Null]
    /\ staging = {}
    /\ version \in [Destination -> {0, 1}]
    /\ \A d \in Destination \ Lake : version[d] = 0
    /\ commits = {}
    /\ inflight = {}
    /\ reply = [r \in Run |-> Null]
    /\ up = TRUE
    /\ crashes = 0
    /\ told = {}

-----------------------------------------------------------------------------
(* submit(), and the handler that awaits it.                                *)

\* resolve_destination and preflight: every other refusal leaves no trace either.
Preflight(j) ==
    DestOf[j] \in Lake /\ version[DestOf[j]] = 0 => j \in CreateIfMissing

Submit(r, j) ==
    /\ up /\ pc[r] = "idle" /\ Preflight(j)
    /\ pc' = [pc EXCEPT ![r] = "creating"]
    /\ job' = [job EXCEPT ![r] = j]
    /\ UNCHANGED <<ledger, flags, mode, size, pulled, torn, outcome, staging, destVars,
                   serverVars, told>>

\* The INSERT runs on the ledger's thread, whether or not anyone still awaits it.
CreateRun(r) ==
    /\ up /\ pc[r] \in {"creating", "dropped"} /\ ledger[r] = Null
    /\ ledger' = [ledger EXCEPT ![r] = NewRow]
    /\ UNCHANGED <<flags, taskVars, staging, destVars, serverVars, told>>

CreateRunFails(r) ==
    /\ LedgerMayFail
    /\ up /\ pc[r] \in {"creating", "dropped"} /\ ledger[r] = Null
    /\ pc' = [pc EXCEPT ![r] = "rejected"]
    /\ UNCHANGED <<ledger, flags, job, mode, size, pulled, torn, outcome, staging, destVars,
                   serverVars, told>>

\* The client goes away while the handler awaits create_run: the future is dropped.
DropSubmit(r) ==
    /\ up /\ pc[r] = "creating"
    /\ pc' = [pc EXCEPT ![r] = "dropped"]
    /\ UNCHANGED <<ledger, flags, job, mode, size, pulled, torn, outcome, staging, destVars,
                   serverVars, told>>

\* create_run returned: register the cancel flag and spawn the task.
Spawn(r) ==
    /\ up /\ pc[r] = "creating" /\ ledger[r] # Null
    /\ flags' = [flags EXCEPT ![r] = "clear"]
    /\ pc' = [pc EXCEPT ![r] = "spawned"]
    /\ UNCHANGED <<ledger, job, mode, size, pulled, torn, outcome, staging, destVars,
                   serverVars, told>>

\* cancel(): the flag is found and set, and the answer is true.  For any other run
\* the answer is false and nothing changes.
Cancel(r) ==
    /\ up /\ flags[r] # "absent"
    /\ flags' = [flags EXCEPT ![r] = "set"]
    /\ told' = told \cup {r}
    /\ UNCHANGED <<ledger, taskVars, staging, destVars, serverVars>>

-----------------------------------------------------------------------------
(* run_job_task() and the destination's write(), on the task's side.        *)

RunningUpdate == [NewRow EXCEPT !.status = "running", !.started = TRUE]

\* The write future settled: remember what the task will put in the row.
Result(rows, snapshot, error) ==
    [status |-> "running", started |-> FALSE, finished |-> TRUE,
     rows |-> rows, snapshot |-> snapshot, error |-> error]

Settle(r, rows, snapshot, error) ==
    /\ pc' = [pc EXCEPT ![r] = "finished"]
    /\ outcome' = [outcome EXCEPT ![r] = Result(rows, snapshot, error)]

SettleErr(r, error) == Settle(r, Null, Null, error)

\* A failed write of the ledger is logged and the task goes on.
MarkRunning(r) ==
    /\ up /\ pc[r] = "spawned"
    /\ pc' = [pc EXCEPT ![r] = "started"]
    /\ \/ ledger' = [ledger EXCEPT ![r] = UpdateStatus(@, RunningUpdate)]
       \/ LedgerMayFail /\ UNCHANGED ledger
    /\ UNCHANGED <<flags, job, mode, size, pulled, torn, outcome, staging, destVars,
                   serverVars, told>>

StartQuery(r) ==
    /\ up /\ pc[r] = "started"
    /\ \/ flags[r] = "set" /\ SettleErr(r, "cancelled before execution")
       \/ /\ flags[r] = "clear"
          /\ pc' = [pc EXCEPT ![r] = "planning"]
          /\ UNCHANGED outcome
    /\ UNCHANGED <<ledger, flags, job, mode, size, pulled, torn, staging, destVars,
                   serverVars, told>>

\* ctx.sql() or execute_stream() fails, or (SQL) the INSERT cannot be planned.
PlanFails(r) ==
    /\ up /\ pc[r] = "planning"
    /\ SettleErr(r, "query error")
    /\ UNCHANGED <<ledger, flags, job, mode, size, pulled, torn, staging, destVars,
                   serverVars, told>>

\* write(): Lance looks whether the dataset exists; SQL registers a staging table.
WriteMode(r) ==
    IF ~IsLake(r) THEN "insert"
    ELSE IF version[Dest(r)] > 0 THEN "append" ELSE "create"

OpenWrite(r, n) ==
    /\ up /\ pc[r] = "planning"
    /\ pc' = [pc EXCEPT ![r] = "streaming"]
    /\ mode' = [mode EXCEPT ![r] = WriteMode(r)]
    /\ size' = [size EXCEPT ![r] = n]
    /\ staging' = IF IsLake(r) THEN staging ELSE staging \cup {r}
    /\ UNCHANGED <<ledger, flags, job, pulled, torn, outcome, destVars, serverVars, told>>

\* Mutant: the task also gives up on a cancel while it awaits the commit.
PollCancelledLate(r) ==
    /\ up /\ pc[r] \in Writing /\ flags[r] = "set"
    /\ SettleErr(r, "cancelled before commit")
    /\ staging' = staging \ {r}
    /\ UNCHANGED <<ledger, flags, job, mode, size, pulled, torn, destVars, serverVars, told>>

\* CancellableStream::poll_next, then the query's own stream.
PollCancelled(r) ==
    /\ up /\ pc[r] = "streaming" /\ flags[r] = "set"
    /\ SettleErr(r, "cancelled before commit")
    /\ staging' = staging \ {r}
    /\ UNCHANGED <<ledger, flags, job, mode, size, pulled, torn, destVars, serverVars, told>>

PollBatch(r) ==
    /\ up /\ pc[r] = "streaming" /\ flags[r] = "clear" /\ pulled[r] < size[r]
    /\ pulled' = [pulled EXCEPT ![r] = @ + 1]
    /\ UNCHANGED <<ledger, flags, pc, job, mode, size, torn, outcome, staging, destVars,
                   serverVars, told>>

PollError(r) ==
    /\ up /\ pc[r] = "streaming" /\ flags[r] = "clear"
    /\ SettleErr(r, "query error")
    /\ staging' = staging \ {r}
    /\ UNCHANGED <<ledger, flags, job, mode, size, pulled, torn, destVars, serverVars, told>>

\* Mutant: a cancelled stream ends instead of failing.
PollEndOnCancel(r) ==
    /\ up /\ pc[r] = "streaming" /\ (flags[r] = "set" \/ pulled[r] = size[r])
    /\ pc' = [pc EXCEPT ![r] = "committing"]
    /\ inflight' = inflight \cup {r}
    /\ UNCHANGED <<ledger, flags, job, mode, size, pulled, torn, outcome, staging, version,
                   commits, reply, serverVars, told>>

\* End of stream: the flag is not looked at again, and the destination commits.
PollEnd(r) ==
    /\ up /\ pc[r] = "streaming" /\ flags[r] = "clear" /\ pulled[r] = size[r]
    /\ pc' = [pc EXCEPT ![r] = "committing"]
    /\ inflight' = inflight \cup {r}
    /\ UNCHANGED <<ledger, flags, job, mode, size, pulled, torn, outcome, staging, version,
                   commits, reply, serverVars, told>>

\* A lake's stream is polled by a task of its own.  A panic unwinds that task and
\* drops its sender, which the reader takes for the end of the stream, so the
\* destination commits what it was sent.
PumpPanics(r) ==
    /\ TaskMayPanic
    /\ up /\ pc[r] = "streaming" /\ IsLake(r) /\ flags[r] = "clear"
    /\ torn' = torn \cup {r}
    /\ pc' = [pc EXCEPT ![r] = "committing"]
    /\ inflight' = inflight \cup {r}
    /\ UNCHANGED <<ledger, flags, job, mode, size, pulled, outcome, staging, version,
                   commits, reply, serverVars, told>>

\* Mutant: the destination's error is swallowed.
WriteReturnsOk(r) ==
    /\ up /\ pc[r] = "committing" /\ reply[r] # Null
    /\ Settle(r, pulled[r], IF IsLake(r) THEN reply[r].version ELSE Null, Null)
    /\ staging' = staging \ {r}
    /\ UNCHANGED <<ledger, flags, job, mode, size, pulled, torn, destVars, serverVars, told>>

\* Mutant: the version is read from the dataset again instead of from the write.
WriteReturnsLatest(r) ==
    /\ up /\ pc[r] = "committing" /\ reply[r] # Null
    /\ IF ~reply[r].ok THEN SettleErr(r, "write failed")
       ELSE IF ~IsLake(r) THEN Settle(r, pulled[r], Null, Null)
       ELSE IF pulled[r] = 0 THEN SettleErr(r, "empty stream")
       ELSE Settle(r, pulled[r], version[Dest(r)], Null)
    /\ staging' = staging \ {r}
    /\ UNCHANGED <<ledger, flags, job, mode, size, pulled, torn, destVars, serverVars, told>>

\* write() has its answer.  Lance refuses an empty stream only here.
WriteReturns(r) ==
    /\ up /\ pc[r] = "committing" /\ reply[r] # Null
    /\ IF ~reply[r].ok THEN SettleErr(r, "write failed")
       ELSE IF ~IsLake(r) THEN Settle(r, pulled[r], Null, Null)
       ELSE IF pulled[r] = 0 THEN SettleErr(r, "empty stream")
       ELSE Settle(r, pulled[r], reply[r].version, Null)
    /\ staging' = staging \ {r}
    /\ UNCHANGED <<ledger, flags, job, mode, size, pulled, torn, destVars, serverVars, told>>

\* tokio::time::timeout drops the write future where it stands: the request it may
\* have made to the destination stays, and so does its staging table.
Timeout(r) ==
    /\ up /\ job[r] \in Timed /\ pc[r] \in {"planning"} \cup Writing
    /\ SettleErr(r, "timed out")
    /\ UNCHANGED <<ledger, flags, job, mode, size, pulled, torn, staging, destVars,
                   serverVars, told>>

\* Mutant: an error counts as success unless the run was cancelled.
VerdictIgnoresError(o, flag) ==
    [o EXCEPT !.status = IF flag = "set" THEN "cancelled" ELSE "succeeded"]

\* Mutant: the error arm does not look at the flag.
VerdictErrorFails(o, flag) ==
    IF o.error = Null
    THEN IF flag = "set"
         THEN [o EXCEPT !.status = "cancelled", !.error = "cancelled after commit"]
         ELSE [o EXCEPT !.status = "succeeded"]
    ELSE [o EXCEPT !.status = "failed"]

\* match outcome: the flag is read once more and the row's new status is chosen.
Verdict(o, flag) ==
    IF o.error = Null
    THEN IF flag = "set"
         THEN [o EXCEPT !.status = "cancelled", !.error = "cancelled after commit"]
         ELSE [o EXCEPT !.status = "succeeded"]
    ELSE [o EXCEPT !.status = IF flag = "set" THEN "cancelled" ELSE "failed"]

Decide(r) ==
    /\ up /\ pc[r] = "finished"
    /\ pc' = [pc EXCEPT ![r] = "reporting"]
    /\ outcome' = [outcome EXCEPT ![r] = Verdict(@, flags[r])]
    /\ UNCHANGED <<ledger, flags, job, mode, size, pulled, torn, staging, destVars,
                   serverVars, told>>

Report(r) ==
    /\ up /\ pc[r] = "reporting"
    /\ pc' = [pc EXCEPT ![r] = "reported"]
    /\ \/ ledger' = [ledger EXCEPT ![r] = UpdateStatus(@, outcome[r])]
       \/ LedgerMayFail /\ UNCHANGED ledger
    /\ UNCHANGED <<flags, job, mode, size, pulled, torn, outcome, staging, destVars,
                   serverVars, told>>

\* Mutant: only a run that succeeded gives its flag back.
DropFlagOnSuccess(r) ==
    /\ up /\ pc[r] = "reported"
    /\ pc' = [pc EXCEPT ![r] = "done"]
    /\ flags' = [flags EXCEPT ![r] = IF outcome[r].error = Null THEN "absent" ELSE @]
    /\ UNCHANGED <<ledger, job, mode, size, pulled, torn, outcome, staging, destVars,
                   serverVars, told>>

DropFlag(r) ==
    /\ up /\ pc[r] = "reported"
    /\ pc' = [pc EXCEPT ![r] = "done"]
    /\ flags' = [flags EXCEPT ![r] = "absent"]
    /\ UNCHANGED <<ledger, job, mode, size, pulled, torn, outcome, staging, destVars,
                   serverVars, told>>

\* A panic unwinds the spawned task: neither its row nor its flag is touched again.
\* (A lake's stream is polled by another task: PumpPanics.)
TaskPanics(r) ==
    /\ TaskMayPanic
    /\ up
    /\ pc[r] = "planning" \/ (pc[r] = "streaming" /\ ~IsLake(r))
    /\ pc' = [pc EXCEPT ![r] = "dead"]
    /\ UNCHANGED <<ledger, flags, job, mode, size, pulled, torn, outcome, staging, destVars,
                   serverVars, told>>

-----------------------------------------------------------------------------
(* The destination: Lance's manifest commit or the SQL transaction's COMMIT, *)
(* carried out on threads or a server that do not stop with the task.        *)

\* A dataset another run has created in the meantime cannot be created again.
CommitLands(r) ==
    /\ r \in inflight
    /\ mode[r] = "create" => version[Dest(r)] = 0
    /\ version' = [version EXCEPT ![Dest(r)] = @ + 1]
    /\ commits' = commits \cup {[run |-> r, dest |-> Dest(r), rows |-> pulled[r],
                                 version |-> version[Dest(r)] + 1]}
    /\ inflight' = inflight \ {r}
    /\ \/ reply' = [reply EXCEPT ![r] = [ok |-> TRUE, version |-> version[Dest(r)] + 1]]
       \/ /\ Dest(r) \in Remote   \* the connection breaks before the answer
          /\ reply' = [reply EXCEPT ![r] = [ok |-> FALSE, version |-> 0]]
    /\ UNCHANGED <<ledger, flags, taskVars, staging, serverVars, told>>

CommitAborts(r) ==
    /\ r \in inflight
    /\ inflight' = inflight \ {r}
    /\ reply' = [reply EXCEPT ![r] = [ok |-> FALSE, version |-> 0]]
    /\ UNCHANGED <<ledger, flags, taskVars, staging, version, commits, serverVars, told>>

-----------------------------------------------------------------------------
(* The server process.                                                      *)

Crash ==
    /\ up /\ crashes < MaxCrashes
    /\ up' = FALSE
    /\ crashes' = crashes + 1
    /\ flags' = [r \in Run |-> "absent"]
    /\ staging' = {}
    /\ pc' = [r \in Run |-> IF pc[r] \in {"idle", "rejected", "done"} THEN pc[r] ELSE "dead"]
    /\ inflight' = {r \in inflight : Dest(r) \in Remote}
    /\ UNCHANGED <<ledger, job, mode, size, pulled, torn, outcome, version, commits, reply, told>>

\* Mutant: the ledger is opened and not reconciled.
RestartUnreconciled ==
    /\ ~up
    /\ up' = TRUE
    /\ UNCHANGED <<ledger, flags, taskVars, staging, destVars, crashes, told>>

\* setup_app_state reconciles the ledger before there is an executor to submit to.
Restart ==
    /\ ~up
    /\ up' = TRUE
    /\ ledger' = ReconcileOrphaned(ledger)
    /\ UNCHANGED <<flags, taskVars, staging, destVars, crashes, told>>

-----------------------------------------------------------------------------

Poll(r) == PollCancelled(r) \/ PollBatch(r) \/ PollError(r) \/ PollEnd(r)

Resolve(r) == CommitLands(r) \/ CommitAborts(r)

\* The steps a task takes without waiting for its source or its destination.
TaskStep(r) ==
    \/ MarkRunning(r) \/ StartQuery(r) \/ PlanFails(r)
    \/ \E n \in 0..MaxBatches : OpenWrite(r, n)
    \/ WriteReturns(r) \/ Decide(r) \/ Report(r) \/ DropFlag(r)

SubmitStep(r) == CreateRun(r) \/ Spawn(r)

Next ==
    \/ \E r \in Run :
        \/ \E j \in Job : Submit(r, j)
        \/ SubmitStep(r) \/ CreateRunFails(r) \/ DropSubmit(r)
        \/ Cancel(r)
        \/ TaskStep(r) \/ Poll(r) \/ Timeout(r) \/ TaskPanics(r) \/ PumpPanics(r)
        \/ Resolve(r)
    \/ Crash
    \/ Restart

Spec == Init /\ [][Next]_vars

\* tokio polls every ready task and fires every deadline, the ledger's thread serves
\* its queue, and an operator restarts a dead server.  A source or a destination
\* that may stall is owed nothing.
Fairness ==
    /\ \A r \in Run :
        /\ WF_vars(SubmitStep(r))
        /\ WF_vars(TaskStep(r))
        /\ WF_vars(Timeout(r))
        /\ WF_vars(Poll(r) /\ job[r] \notin Stalling)
        /\ WF_vars(Resolve(r) /\ job[r] \notin Stalling)
    /\ WF_vars(Restart)

FairSpec == Spec /\ Fairness

-----------------------------------------------------------------------------
(* Properties.                                                              *)

HasRow(r)      == ledger[r] # Null
IsTerminal(r)  == HasRow(r) /\ ledger[r].status \in Terminal
CommitsOf(r)   == {c \in commits : c.run = r}
Landed(r)      == CommitsOf(r) # {}

\* What a client reads in the ledger is what a reader of the destination finds: a
\* row that is succeeded, or that reports rows_written at all, stands for a commit
\* of that run in its own destination with that many rows, and a Lance snapshot_id
\* is that commit's version (run_job_task's three update_status calls).
ReportedRowsLanded ==
    \A r \in Run : HasRow(r) =>
        /\ ledger[r].status = "succeeded" => ledger[r].rows # Null
        /\ ledger[r].rows # Null =>
             \E c \in CommitsOf(r) :
                /\ c.dest = Dest(r)
                /\ c.rows = ledger[r].rows
                /\ ledger[r].snapshot = IF IsLake(r) THEN c.version ELSE Null

\* A run lands once, and it lands whole: no cancel, error, deadline or crash leaves
\* part of a query's batches in a destination, and no sequence of them makes a run
\* commit twice (JobDestination::write).  What a panic leaves is part of it: nothing
\* of a SQL destination, whose stream the task polls itself, but what had been
\* pulled so far in a lake (registration.rs:256), never more than the query yields.
AllOrNothing ==
    \A c \in commits :
        /\ CommitsOf(c.run) = {c}
        /\ IF c.run \in torn THEN IsLake(c.run) /\ c.rows <= size[c.run]
           ELSE c.rows = size[c.run]

\* A terminal row that reports no rows although its run did land has one of the
\* known reasons: the deadline dropped the task while the commit was under way, the
\* server died before it wrote the row, Lance committed an empty version, or a SQL
\* server's answer to COMMIT was lost.  A run whose cancel was noticed in time, or
\* whose query failed, never lands.
DeniedCommitsExplained ==
    \A r \in Run : IsTerminal(r) /\ ledger[r].rows = Null /\ Landed(r) =>
        \/ ledger[r].error \in {"timed out", "server restarted"}
        \/ ledger[r].error = "empty stream" /\ IsLake(r)
        \/ ledger[r].error = "write failed" /\ Dest(r) \in Remote

\* "The row is frozen": update_status does not check the status it overwrites, yet
\* no step of any task, late answer, cancel or restart changes a terminal row.
TerminalRowsFrozen ==
    [][\A r \in Run : IsTerminal(r) => ledger'[r] = ledger[r]]_vars

\* The ledger together with the destinations is a RunLedger.
StatusOf(r)  == IF HasRow(r) THEN ledger[r].status ELSE "none"
VisibleOf(r) == IF Landed(r) THEN (CHOOSE c \in CommitsOf(r) : TRUE).rows ELSE Null
ClaimedOf(r) == IF HasRow(r) THEN ledger[r].rows ELSE Null

Abstract == INSTANCE RunLedger WITH
    status  <- [r \in Run |-> StatusOf(r)],
    visible <- [r \in Run |-> VisibleOf(r)],
    claimed <- [r \in Run |-> ClaimedOf(r)]

\* Every step of the executor is a step a RunLedger allows, or changes nothing a
\* client of the jobs API or a reader of the destination can see.
ImplementsRunLedger == Abstract!Spec

\* A source or destination that stops answering is only escaped by a deadline.
Answers(r) == job[r] \notin Stalling \/ job[r] \in Timed

\* No row stays pending or running for ever, through crashes and restarts, unless its
\* submit was dropped before it spawned a task or its source never answers and has
\* no deadline (reconcile_orphaned, run_job_task).
EventuallyTerminal ==
    \A r \in Run : (HasRow(r) /\ Answers(r)) ~> (IsTerminal(r) \/ pc[r] = "dropped")

\* A cancel that finds the run's stream still flowing, or not yet started, is
\* obeyed: the row ends cancelled, or the server dies first.
CancelTakesEffect ==
    \A r \in Run :
        (/\ flags[r] = "set" /\ Answers(r)
         /\ pc[r] \in BeforeWrite \cup {"streaming"})
        ~> (IsTerminal(r) /\ (\/ ledger[r].status = "cancelled"
                              \/ ledger[r].error = "server restarted"))

\* The cancel_flags map does not grow with the runs served.
FlagsReclaimed ==
    \A r \in Run : (flags[r] # "absent" /\ Answers(r)) ~> (flags[r] = "absent")

-----------------------------------------------------------------------------
(* What the repository says, and the code does not keep.                    *)

\* executor.rs:300: cancel flips the flag and "the spawned task will notice before
\* it commits and transition the row to `cancelled`".
CancelTrueMeansCancelled ==
    \A r \in told : IsTerminal(r) => ledger[r].status = "cancelled"

\* docs/jobs.md:125: on a timeout the manifest "is never committed", the transaction
\* "is rolled back. Either way, the destination is left at its pre-job state".
TimedOutLeavesNothing ==
    \A r \in Run : HasRow(r) /\ ledger[r].error = "timed out" => ~Landed(r)

\* sql_dml.rs:115: the staging table is "dropped in a `finally`-style block so
\* failures don't leak the registration".
StagingDropped ==
    \A r \in Run : pc[r] = "done" => r \notin staging
=============================================================================
