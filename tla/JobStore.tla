------------------------------ MODULE JobStore ------------------------------
(***************************************************************************)
(* The run ledger of the jobs subsystem: one row of the SQLite table       *)
(* job_runs per run, and the three statements that write it                *)
(* (crates/skardi/src/jobs/store.rs).  SqliteJobStore sends every call to  *)
(* one connection thread, so each statement is one atomic step of whoever  *)
(* awaits it; this module has the rows and the statements, JobExecutor has *)
(* the steps.  Timestamps are kept as "is it set"; the bound parameters    *)
(* and the job's name are not kept.                                        *)
(***************************************************************************)
EXTENDS Naturals

CONSTANTS Run,   \* run ids: one uuid per submit
          Null   \* SQL NULL, and a row that does not exist

Terminal == {"succeeded", "failed", "cancelled"}      \* JobRunStatus::is_terminal
Status   == {"pending", "running"} \cup Terminal      \* JobRunStatus

\* The messages a row's error column can hold, one name per place that writes one.
ErrorText == {"cancelled before execution", "cancelled before commit",
              "cancelled after commit", "query error", "write failed",
              "empty stream", "timed out", "server restarted"}

Row == [status   : Status,
        started  : BOOLEAN,               \* started_at IS NOT NULL
        finished : BOOLEAN,               \* finished_at IS NOT NULL
        rows     : Nat \cup {Null},       \* rows_written
        snapshot : Nat \cup {Null},       \* snapshot_id
        error    : ErrorText \cup {Null}]

ASSUME NullAssumption == Null \notin Nat \cup ErrorText \cup Row

-----------------------------------------------------------------------------

\* Mutant: a row is created with a status that JobRunStatus::from_str rejects.
NewRowUnknownStatus == [status |-> "queued", started |-> FALSE, finished |-> FALSE,
                        rows |-> Null, snapshot |-> Null, error |-> Null]

\* The row submit() hands to create_run.
NewRow == [status |-> "pending", started |-> FALSE, finished |-> FALSE,
           rows |-> Null, snapshot |-> Null, error |-> Null]

Coalesce(new, old) == IF new = Null THEN old ELSE new

\* UPDATE job_runs SET status = ?2, x = COALESCE(?, x), ... WHERE id = ?1.  It
\* does not look at the status it replaces.
UpdateStatus(row, new) ==
    [status   |-> new.status,
     started  |-> new.started \/ row.started,
     finished |-> new.finished \/ row.finished,
     rows     |-> Coalesce(new.rows, row.rows),
     snapshot |-> Coalesce(new.snapshot, row.snapshot),
     error    |-> Coalesce(new.error, row.error)]

Orphaned(row) == row # Null /\ row.status \in {"pending", "running"}

\* Mutant: the WHERE clause is lost.
ReconcileEveryRow(rows) ==
    [r \in Run |->
        IF rows[r] = Null THEN Null
        ELSE [rows[r] EXCEPT !.status = "failed", !.finished = TRUE,
                             !.error = "server restarted"]]

\* UPDATE job_runs SET status = 'failed', ... WHERE status IN ('pending', 'running').
ReconcileOrphaned(rows) ==
    [r \in Run |->
        IF Orphaned(rows[r])
        THEN [rows[r] EXCEPT !.status = "failed", !.finished = TRUE,
                             !.error = "server restarted"]
        ELSE rows[r]]
=============================================================================
