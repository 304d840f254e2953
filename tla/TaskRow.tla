------------------------------- MODULE TaskRow -------------------------------
(***************************************************************************)
(* One row of the tasks table (engine/models.py, class Task) and the       *)
(* values the statements of engine/service.py write into it.  Time is      *)
(* abstracted: `due' says whether run_after has been reached, `fresh'      *)
(* whether lease_expires_at still lies in the future.                      *)
(***************************************************************************)
EXTENDS Naturals

CONSTANTS
    Worker,             \* the identities of the worker processes
    Nobody,             \* the empty lease_owner
    MaxTaskAttempts     \* settings.MAX_TASK_ATTEMPTS

ASSUME NobodyAssumption == Nobody \notin Worker
ASSUME AttemptsAssumption == MaxTaskAttempts \in Nat \ {0}

TaskStatus == {"READY", "LEASED", "DONE"}

Row == [status  : TaskStatus,
        owner   : Worker \cup {Nobody},
        fresh   : BOOLEAN,
        due     : BOOLEAN,
        attempt : Nat \ {0}]

\* A row's owner and its lease come and go together.
WellFormed(row) ==
    /\ row \in Row
    /\ row.owner # Nobody <=> row.status = "LEASED"
    /\ row.fresh => row.status = "LEASED"

\* enqueue_step: the values of the inserted row.
ReadyRow(attempt, due) ==
    [status |-> "READY", owner |-> Nobody, fresh |-> FALSE,
     due |-> due, attempt |-> attempt]

\* Mutant: a limit of attempts that is off by one.
ClaimableBelowLimit(row) ==
    row.status = "READY" /\ row.due /\ row.attempt < MaxTaskAttempts

\* The filter of claim_task.
Claimable(row) == row.status = "READY" /\ row.due

\* The WHERE clause shared by renew_lease and finish_task_if_owned.
OwnedBy(row, w) == row.status = "LEASED" /\ row.owner = w

\* Mutant: a filter on the lease alone.
LapsedOrFree(row) == ~row.fresh

\* The filter of reap_expired_leases.
Lapsed(row) == row.status = "LEASED" /\ ~row.fresh

\* claim_task: what the claim writes.
Claimed(row, w) ==
    [row EXCEPT !.status = "LEASED", !.owner = w, !.fresh = TRUE]

\* renew_lease: the new lease_expires_at.
Renewed(row) == [row EXCEPT !.fresh = TRUE]

\* Mutant: lease_owner is not cleared.
FinishedKeepingOwner(row) == [row EXCEPT !.status = "DONE", !.fresh = FALSE]

\* finish_task_if_owned, and the reaper when it gives a task up.
Finished(row) ==
    [row EXCEPT !.status = "DONE", !.owner = Nobody, !.fresh = FALSE]

\* Mutant: the attempt number, hence the key, is handed out again.
RecoveredSameAttempt(row) == ReadyRow(row.attempt, TRUE)

\* reap_expired_leases: the task goes back to the queue with a fresh attempt
\* number (hence a fresh idempotency key) and is due at once.
Recovered(row) == ReadyRow(row.attempt + 1, TRUE)

\* reap_expired_leases: the poison-task guard.
Poisonous(row) == row.attempt + 1 > MaxTaskAttempts
==============================================================================
