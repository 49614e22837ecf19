------------------------------ MODULE TaskTrace ------------------------------
(***************************************************************************)
(* The trace row of one logical task run (tasks/models.py, TaskTrace) and   *)
(* what each record_* method of tasks/handlers.py writes into it.  A row    *)
(* is reduced to the two columns the lifecycle depends on, `state` and      *)
(* `attempts`: error texts and timestamps are left out.  Every method is a  *)
(* read followed, in another statement, by a save of ALL columns of the     *)
(* row as it was read, so the operators below map the row that was read to  *)
(* the row that is saved.                                                   *)
(***************************************************************************)
EXTENDS Naturals

TaskState == {"enqueued", "running", "retrying", "success", "failed", "dead"}

\* The states after which a run is over, whatever is still in flight.
Terminal == {"success", "dead"}

\* A task without a row.  It has the shape of a row, so that a variable that
\* holds either is typed by one set of records.
NoRow == [state |-> "none", attempts |-> 0]
NewRow == [state |-> "enqueued", attempts |-> 0]
TraceRow == [state : TaskState, attempts : Nat]

-----------------------------------------------------------------------------
\* get_or_create on the unique task_id: the row, or a new enqueued one.
RowOrCreate(row) == IF row = NoRow THEN NewRow ELSE row

\* Mutant of Frozen: the guard forgets SUCCESS.
FrozenOnlyDead(row, target) == row.state = "dead"

\* The row refuses an update to `target`.
Frozen(row, target) ==
    \/ row.state = "dead"
    \/ row.state = "success" /\ target # "success"

RunningRow(row) == [state |-> "running", attempts |-> row.attempts + 1]

\* Mutants of RetryingRow: Celery's name of the state is written, or a retry
\* counts as a run as well.
RetryingAsCelery(row) == [row EXCEPT !.state = "retry"]
RetryingCounted(row) == [state |-> "retrying", attempts |-> row.attempts + 1]

RetryingRow(row) == [row EXCEPT !.state = "retrying"]
SuccessRow(row) == [row EXCEPT !.state = "success"]

FailedRow(row) == [row EXCEPT !.state = "failed"]
DeadRow(row) == [row EXCEPT !.state = "dead"]

\* How an execution can end, the state its hook records, and the row it saves.
Outcome == {"success", "retrying", "failed"}

Recorded(row, outcome) ==
    CASE outcome = "success"  -> SuccessRow(row)
      [] outcome = "retrying" -> RetryingRow(row)
      [] outcome = "failed"   -> FailedRow(row)
=============================================================================
