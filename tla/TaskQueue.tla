------------------------------ MODULE TaskQueue ------------------------------
(***************************************************************************)
(* The task queue: the tasks table as worker processes, their heartbeat    *)
(* threads and the reaper see it (engine/service.py, engine/heartbeat.py,  *)
(* engine/worker.py, engine/management/commands).  What a task means to    *)
(* its run is left to module Engine; who inserts a row, and when, is the   *)
(* environment's choice here.                                              *)
(*                                                                         *)
(* Every action is one committed transaction or one autocommitted          *)
(* statement.  A worker that stalls is one that takes no step while its    *)
(* lease lapses and the reaper moves on; a worker that dies loses what it  *)
(* had in memory and leaves its row as it was.                             *)
(***************************************************************************)
EXTENDS TaskRow

CONSTANTS
    Task,               \* the primary keys a row may be inserted under
    Slot,               \* the (run, step, kind) triples
    SlotOf,             \* the triple the row with a given primary key is for
    MaxAttempt,         \* bound: the largest attempt a row is inserted with
    NoRow,              \* the row does not exist
    NoTask              \* the worker has nothing in hand

ASSUME SlotAssumption == SlotOf \in [Task -> Slot]
ASSUME NoRowAssumption == NoRow \notin Row
ASSUME NoTaskAssumption == NoTask \notin Task
ASSUME MaxAttemptAssumption == MaxAttempt \in Nat \ {0}

VARIABLES
    task,               \* the table
    hand,               \* the row each worker is processing
    lost,               \* LeaseHeartbeat.lost of each worker
    handed,             \* history: the attempts each row was handed out under
    outcomes            \* history: how often an outcome was let through per row

vars == <<task, hand, lost, handed, outcomes>>

Present(t) == task[t] # NoRow

Done(t) == Present(t) /\ task[t].status = "DONE"

\* The unique index on idempotency_key = hash(run, step, kind, attempt).
KeyTaken(slot, attempt) ==
    \E t \in Task : Present(t) /\ SlotOf[t] = slot /\ task[t].attempt = attempt

Init ==
    /\ task = [t \in Task |-> NoRow]
    /\ hand = [w \in Worker |-> NoTask]
    /\ lost = [w \in Worker |-> FALSE]
    /\ handed = [t \in Task |-> {}]
    /\ outcomes = [t \in Task |-> 0]

------------------------------------------------------------------------------
(* The environment: transactions that insert rows, and the clock.          *)

\* A transaction inserts rows under keys nobody has.  (A colliding insert is
\* rolled back to its savepoint and inserts nothing.)
EnqueueSteps(new, attempt, due) ==
    /\ \A t \in new : ~Present(t) /\ ~KeyTaken(SlotOf[t], attempt[t])
    /\ \A s, t \in new : s # t => SlotOf[s] # SlotOf[t]
    /\ task' = [t \in Task |-> IF t \in new THEN ReadyRow(attempt[t], due[t])
                                           ELSE task[t]]
    /\ UNCHANGED <<hand, lost, handed, outcomes>>

\* run_after is reached.
TimerDue(t) ==
    /\ Present(t)
    /\ ~task[t].due
    /\ task' = [task EXCEPT ![t].due = TRUE]
    /\ UNCHANGED <<hand, lost, handed, outcomes>>

\* lease_expires_at is reached before a heartbeat extended it.
LeaseLapses(t) ==
    /\ Present(t)
    /\ task[t].status = "LEASED"
    /\ task[t].fresh
    /\ task' = [task EXCEPT ![t].fresh = FALSE]
    /\ UNCHANGED <<hand, lost, handed, outcomes>>

------------------------------------------------------------------------------
(* A worker.                                                               *)

ClaimTask(w, t) ==
    /\ hand[w] = NoTask
    /\ Present(t)
    /\ Claimable(task[t])
    /\ task' = [task EXCEPT ![t] = Claimed(@, w)]
    /\ hand' = [hand EXCEPT ![w] = t]
    /\ handed' = [handed EXCEPT ![t] = @ \cup {task[t].attempt}]
    /\ UNCHANGED <<lost, outcomes>>

\* One beat of the heartbeat thread: it extends the lease, or notices that the
\* lease is gone and stops beating.
RenewLease(w) ==
    /\ hand[w] # NoTask
    /\ ~lost[w]
    /\ IF OwnedBy(task[hand[w]], w)
       THEN /\ task' = [task EXCEPT ![hand[w]] = Renewed(@)]
            /\ UNCHANGED lost
       ELSE /\ lost' = [lost EXCEPT ![w] = TRUE]
            /\ UNCHANGED task
    /\ UNCHANGED <<hand, handed, outcomes>>

\* Mutant: the next task starts with the previous one's heartbeat.
LetGoKeepingBeat(w) ==
    /\ hand' = [hand EXCEPT ![w] = NoTask]
    /\ UNCHANGED lost

LetGo(w) ==
    /\ hand' = [hand EXCEPT ![w] = NoTask]
    /\ lost' = [lost EXCEPT ![w] = FALSE]

\* Mutant: finish_task, without the fencing check.
FinishTaskUnfenced(w) ==
    /\ hand[w] # NoTask
    /\ task' = [task EXCEPT ![hand[w]] = Finished(@)]
    /\ outcomes' = [outcomes EXCEPT ![hand[w]] = @ + 1]
    /\ LetGo(w)
    /\ UNCHANGED handed

\* finish_task_if_owned updates one row: the outcome may be recorded.
FinishTaskIfOwned(w) ==
    /\ hand[w] # NoTask
    /\ ~lost[w]
    /\ OwnedBy(task[hand[w]], w)
    /\ task' = [task EXCEPT ![hand[w]] = Finished(@)]
    /\ outcomes' = [outcomes EXCEPT ![hand[w]] = @ + 1]
    /\ LetGo(w)
    /\ UNCHANGED handed

\* beat.lost, or finish_task_if_owned updates no row: the result is discarded.
Abandon(w) ==
    /\ hand[w] # NoTask
    /\ lost[w] \/ ~OwnedBy(task[hand[w]], w)
    /\ LetGo(w)
    /\ UNCHANGED <<task, handed, outcomes>>

\* The process is killed, or an exception reaches the loop of run_worker, which
\* logs it and goes on to claim something else.  Nothing is written.
Crash(w) ==
    /\ hand[w] # NoTask
    /\ LetGo(w)
    /\ UNCHANGED <<task, handed, outcomes>>

------------------------------------------------------------------------------
(* The reaper.                                                             *)

\* The update raises IntegrityError, and the sweep ends, when the fresh key is
\* taken; the row then stays as it is.
Reap(t) ==
    /\ Present(t)
    /\ Lapsed(task[t])
    /\ ~Poisonous(task[t])
    /\ ~KeyTaken(SlotOf[t], task[t].attempt + 1)
    /\ task' = [task EXCEPT ![t] = Recovered(@)]
    /\ UNCHANGED <<hand, lost, handed, outcomes>>

ReapPoisoned(t) ==
    /\ Present(t)
    /\ Lapsed(task[t])
    /\ Poisonous(task[t])
    /\ task' = [task EXCEPT ![t] = Finished(@)]
    /\ UNCHANGED <<hand, lost, handed, outcomes>>

------------------------------------------------------------------------------
WorkerStep(w) ==
    \/ \E t \in Task : ClaimTask(w, t)
    \/ RenewLease(w)
    \/ FinishTaskIfOwned(w)
    \/ Abandon(w)
    \/ Crash(w)

RowStep(t) ==
    \/ TimerDue(t)
    \/ LeaseLapses(t)
    \/ Reap(t)
    \/ ReapPoisoned(t)

Enqueue ==
    \E new \in (SUBSET Task) \ {{}} :
        \E attempt \in [new -> 1..MaxAttempt], due \in [new -> BOOLEAN] :
            EnqueueSteps(new, attempt, due)

Next ==
    \/ Enqueue
    \/ \E w \in Worker : WorkerStep(w)
    \/ \E t \in Task : RowStep(t)

Spec == Init /\ [][Next]_vars

(***************************************************************************)
(* Fairness.  The loops of run_worker and run_reaper never stop, every     *)
(* plugin call has a timeout, and time passes; nobody has to enqueue       *)
(* anything or to crash.  A lease has to lapse only when nobody is left to *)
(* renew it.  A sweep takes the longest lapsed row first and ends at the   *)
(* first row it cannot recover, so the reaper is only sure to come to a    *)
(* row while there is no such row.                                         *)
(***************************************************************************)

\* A row the reaper cannot recover: the fresh key belongs to another row.
Wedged(t) ==
    /\ Present(t)
    /\ Lapsed(task[t])
    /\ ~Poisonous(task[t])
    /\ KeyTaken(SlotOf[t], task[t].attempt + 1)

ReaperWedged == \E t \in Task : Wedged(t)

Orphaned(t) == \A w \in Worker : hand[w] # t

Fairness ==
    /\ \A t \in Task :
        /\ WF_vars(\E w \in Worker : ClaimTask(w, t))
        /\ WF_vars(TimerDue(t))
        /\ WF_vars(Orphaned(t) /\ LeaseLapses(t))
        /\ WF_vars(~ReaperWedged /\ (Reap(t) \/ ReapPoisoned(t)))
    /\ \A w \in Worker : WF_vars(FinishTaskIfOwned(w) \/ Abandon(w))

FairSpec == Spec /\ Fairness

------------------------------------------------------------------------------
(* Properties.                                                             *)

\* Every variable has its type; only a leased row has an owner and a lease.
TypeOK ==
    /\ task \in [Task -> Row \cup {NoRow}]
    /\ hand \in [Worker -> Task \cup {NoTask}]
    /\ lost \in [Worker -> BOOLEAN]
    /\ handed \in [Task -> SUBSET (Nat \ {0})]
    /\ outcomes \in [Task -> Nat]
    /\ \A t \in Task : Present(t) => WellFormed(task[t])

\* However many workers believe they hold a row - the reaper takes rows from
\* workers that are merely slow - the outcome of at most one of them is let
\* through, and only together with the row becoming DONE (the fencing check of
\* worker.execute_task and service.finish_task_if_owned).
Fencing ==
    \A t \in Task :
        /\ outcomes[t] <= 1
        /\ outcomes[t] = 1 => Done(t)

\* A heartbeat that reports its lease lost is right, and stays right for as long
\* as the worker has the row in hand: no result is discarded that could still
\* have been recorded (LeaseHeartbeat.lost, tested before the fencing check).
LostIsSound ==
    \A w \in Worker :
        lost[w] => hand[w] # NoTask /\ ~OwnedBy(task[hand[w]], w)

\* A key is handed out at most once per row: what waits in the queue has an
\* attempt number no worker has been given before, so a downstream system can
\* tell a repeated delivery from the original (service.reap_expired_leases).
FreshKeyOnRedelivery ==
    \A t \in Task :
        Present(t) =>
            /\ \A a \in handed[t] : a <= task[t].attempt
            /\ task[t].status = "READY" => task[t].attempt \notin handed[t]

\* A row that is DONE stays DONE and lets no further outcome through, whatever
\* slow workers and late heartbeats still do with it; rows are never deleted, and
\* an attempt number never goes down.
DoneStays ==
    \A t \in Task :
        /\ Done(t) => Done(t)' /\ outcomes'[t] = outcomes[t]
        /\ Present(t) => Present(t)' /\ task'[t].attempt >= task[t].attempt

DoneIsFinal == [][DoneStays]_vars

\* Every row is finished in the end, however often workers die or stall with
\* it: the reaper hands it out again or, at the limit of attempts, gives it up.
\* The one exception: a sweep that meets a row whose fresh key is taken by
\* another row of the same run, step and kind ends there, and with it the
\* recovery of every row behind it (service.reap_expired_leases).
FinishedOrWedged ==
    \A t \in Task :
        Present(t) ~> (Done(t) \/ ReaperWedged)
==============================================================================
