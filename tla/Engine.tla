-------------------------------- MODULE Engine --------------------------------
(***************************************************************************)
(* One run of a workflow: workers, reaper and approval requests acting on  *)
(* the run's event log and on its rows of the task queue (engine/worker.py,*)
(* engine/service.py).                                                     *)
(*                                                                         *)
(* Every action is one transaction or one autocommitted statement of the   *)
(* code.  A transaction whose first statement appends an event holds the   *)
(* run's log until it ends and decides on the latest log (EventLog shows   *)
(* it), so it is one step here; what is read before the first append, or   *)
(* written by a later transaction of the same worker, is a step of its     *)
(* own.  The log is kept as the context it folds to.                       *)
(***************************************************************************)
EXTENDS Replay, TaskRow

CONSTANTS
    StepType,           \* type of each step
    Deadline,           \* the approval steps with a timeout_s
    BadConfig,          \* the deferring steps whose config does not render
    MaxTries,           \* retry.max of each step and each compensate block
    Outcomes,           \* what a plugin call for each slot may return
    Actor,              \* the requests to the approval API, one decision each
    Faults,             \* what may go wrong, see Fault
    MaxAttempt,         \* bound: on attempt numbers, and on rows per slot
    NoRow,
    NoTask

\* A worker dies while it owns its row, or after it has finished the row and
\* before it records the outcome; a lease lapses under a worker that still
\* works; the reaper dies before, or is late in, announcing a recovery.
Fault == {"crash", "late crash", "stall", "reaper crash", "slow reaper"}

\* The triple a row is for; there is one run.
Slot == Step \X {"EXECUTE", "COMPENSATE"}

Do(s) == <<s, "EXECUTE">>
Undo(s) == <<s, "COMPENSATE">>

ASSUME StepTypeAssumption == StepType \in [Step -> {"work", "wait", "approval"}]
ASSUME DeferringAssumption ==
    /\ Deadline \subseteq {s \in Step : StepType[s] = "approval"}
    /\ BadConfig \subseteq {s \in Step : StepType[s] # "work"}
ASSUME MaxTriesAssumption == MaxTries \in [Slot -> Nat \ {0}]
ASSUME OutcomesAssumption == Outcomes \in [Slot -> (SUBSET BOOLEAN) \ {{}}]
ASSUME FaultsAssumption == Faults \subseteq Fault

ASSUME BoundAssumption == MaxAttempt \in Nat \ {0}
ASSUME NoRowAssumption == NoRow \notin Row

Pk == Slot \X (1..MaxAttempt)

SlotOf == [pk \in Pk |-> pk[1]]

ASSUME NoTaskAssumption == NoTask \notin Pk

VARIABLES
    task, hand, lost, handed, outcomes,     \* see TaskQueue
    ctx,                \* the run's log, folded
    run,                \* Run.status, the projection
    worker,             \* what each worker has in memory
    reaper,             \* the step whose recovery the reaper has yet to announce
    request             \* the approval requests

Queue == INSTANCE TaskQueue WITH Task <- Pk

queueVars == <<task, hand, lost, handed, outcomes>>
runVars == <<ctx, run>>
vars == <<queueVars, runVars, worker, reaper, request>>

Idle == [pc |-> "idle", slot |-> Do(NoStep), attempt |-> 0,
         approved |-> FALSE, ok |-> FALSE]

NewRequest == [pc |-> "new", step |-> NoStep, approve |-> FALSE]

Init ==
    /\ Queue!Init
    /\ ctx = NewContext
    /\ run = "PENDING"
    /\ worker = [w \in Worker |-> Idle]
    /\ reaper = NoStep
    /\ request = [a \in Actor |-> NewRequest]

------------------------------------------------------------------------------
(* What transactions are made of.                                          *)

Rows(slot) == {t \in Pk : SlotOf[t] = slot /\ Queue!Present(t)}

NextAttempt(slot) == 1 + Max({0} \cup {task[t].attempt : t \in Rows(slot)})

FreeRow(slot) ==
    CHOOSE t \in Pk : /\ SlotOf[t] = slot
                      /\ t[2] = 1 + Cardinality(Rows(slot))

Wanted(attempt, due) == [attempt |-> attempt, due |-> due]

\* One row of one slot.
Order(slot, attempt, due) == [x \in {slot} |-> Wanted(attempt, due)]

\* enqueue_step for every slot of the domain of `wanted'.  A key that is taken
\* makes the insert do nothing.  (`\E v \in {e}' is a LET that TLC evaluates once.)
Enqueue(wanted) ==
    \E want \in {wanted} :
        LET free == {slot \in DOMAIN want : ~Queue!KeyTaken(slot, want[slot].attempt)}
            new  == {FreeRow(slot) : slot \in free}
        IN  /\ \A slot \in free : /\ want[slot].attempt <= MaxAttempt
                                  /\ Cardinality(Rows(slot)) < MaxAttempt
            /\ Queue!EnqueueSteps(new, [t \in new |-> want[SlotOf[t]].attempt],
                                       [t \in new |-> want[SlotOf[t]].due])

\* Mutant: the whole unwind is queued at once.
NextWorkAtOnce(c) ==
    IF c.compensating THEN {Undo(s) : s \in Range(CompensationOrder(c))}
                      ELSE {Do(s) : s \in ReadySteps(c)}

\* What advance_run queues next: one undo while the run unwinds, every ready
\* step otherwise.
NextWork(c) ==
    IF c.compensating
    THEN LET order == CompensationOrder(c)
         IN  IF order = <<>> THEN {} ELSE {Undo(Head(order))}
    ELSE {Do(s) : s \in ReadySteps(c)}

\* STEP_SCHEDULED for each step enqueue_ready_steps created a row for.
MarkScheduled(c) ==
    LET created == {s \in Step : Do(s) \in NextWork(c) /\ ~Queue!KeyTaken(Do(s), 1)}
    IN  [c EXCEPT !.steps = [s \in Step |->
            IF s \in created THEN ApplyToSlot(c.steps[s], "STEP_SCHEDULED")
                             ELSE c.steps[s]]]

\* advance_run on the given log, in a transaction that also enqueues `also'.  The
\* projection is written from a context read before STEP_SCHEDULED was appended;
\* next_run_state does not tell the two apart.
AdvanceRun(log, also) ==
    \E c \in {log} :
        /\ ctx' = CloseIfFinished(c, MarkScheduled(c))
        /\ run' = NextRunState(ctx')
        /\ Enqueue([slot \in DOMAIN also \cup NextWork(c) |->
                        IF slot \in DOMAIN also THEN also[slot] ELSE Wanted(1, TRUE)])

\* sync_run_projection at the end of a transaction that leaves the log as c.
Sync(c) ==
    /\ ctx' = c
    /\ run' = NextRunState(c)

\* start_compensation, called for a step whose failure c already shows.
Unwind(c, s) ==
    IF OnError[s] = "compensate" /\ CompensationOrder(c) # <<>>
    THEN ApplyEvent(c, Event("COMPENSATION_STARTED", s))
    ELSE c

------------------------------------------------------------------------------
(* The API: start_run and resolve_approval.                                *)

StartRun ==
    /\ ctx.status = "PENDING"
    /\ LET c == ApplyEvent(ctx, Event("RUN_STARTED", NoStep))
       IN  /\ Sync(MarkScheduled(c))
           /\ Enqueue([slot \in NextWork(c) |-> Wanted(1, TRUE)])
    /\ UNCHANGED <<worker, reaper, request>>

\* resolve_approval reads the log and tests it ...
CheckApproval(a, s, approve) ==
    /\ request[a].pc = "new"
    /\ StepType[s] = "approval"
    /\ ctx.steps[s].approvalRequested
    /\ ~ctx.steps[s].approved
    /\ ctx.steps[s].status = "WAITING"
    /\ request' = [request EXCEPT ![a] =
                      [pc |-> "checked", step |-> s, approve |-> approve]]
    /\ UNCHANGED <<queueVars, runVars, worker, reaper>>

\* ... and only then appends the decision.
ResolveApproval(a) ==
    LET s == request[a].step
    IN  /\ request[a].pc = "checked"
        /\ IF request[a].approve
           THEN /\ ~Queue!KeyTaken(Do(s), NextAttempt(Do(s)))
                /\ AdvanceRun(ApplyEvent(ctx, Event("APPROVAL_GRANTED", s)),
                              Order(Do(s), NextAttempt(Do(s)), TRUE))
           ELSE AdvanceRun(Unwind(ApplyEvent(ctx, Event("APPROVAL_DENIED", s)), s),
                           <<>>)
        /\ request' = [request EXCEPT ![a].pc = "done"]
        /\ UNCHANGED <<worker, reaper>>

------------------------------------------------------------------------------
(* A worker.                                                               *)

At(w, pc) == worker[w].pc = pc

GoTo(w, pc) == worker' = [worker EXCEPT ![w].pc = pc]

StepOf(w) == worker[w].slot[1]

Undoing(w) == worker[w].slot[2] = "COMPENSATE"

After(w, type) == ApplyEvent(ctx, Event(type, StepOf(w)))

\* claim_task.
Claim(w) ==
    /\ At(w, "idle")
    /\ reaper = NoStep \/ "slow reaper" \in Faults
    /\ \E t \in Pk :
        /\ Queue!ClaimTask(w, t)
        /\ worker' = [worker EXCEPT ![w] =
              [Idle EXCEPT !.pc = "claimed", !.slot = SlotOf[t],
                           !.attempt = task[t].attempt]]
    /\ UNCHANGED <<runVars, reaper, request>>

\* Mutant: a wait is parked on every visit.
AlwaysDefer(s) == StepType[s] = "wait"

\* StepPlugin.should_defer, the default rule: a wait has not been parked yet.
DefersByDefault(s) == StepType[s] = "wait" /\ ctx.steps[s].status # "WAITING"

\* ApprovalPlugin.should_defer: nobody has been asked yet.
DefersApproval(s) == StepType[s] = "approval" /\ ~ctx.steps[s].approvalRequested

\* The first half of execute_task: what it does with the log it has read.
Route(slot) ==
    IF slot[2] = "COMPENSATE" THEN "executing"
    ELSE IF slot[1] \in BadConfig THEN "misconfigured"
    ELSE IF DefersByDefault(slot[1]) \/ DefersApproval(slot[1]) THEN "deferring"
    ELSE IF StepType[slot[1]] = "wait" THEN "firing"
    ELSE "starting"

LoadContext(w) ==
    /\ At(w, "claimed")
    /\ worker' = [worker EXCEPT ![w].pc = Route(worker[w].slot),
                                ![w].approved = ctx.steps[StepOf(w)].approved]
    /\ UNCHANGED <<queueVars, runVars, reaper, request>>

\* A config that does not render fails the step; the row is not finished.
RejectConfig(w) ==
    /\ At(w, "misconfigured")
    /\ AdvanceRun(Unwind(After(w, "STEP_FAILED"), StepOf(w)), <<>>)
    /\ GoTo(w, "returning")
    /\ UNCHANGED <<reaper, request>>

Return(w) ==
    /\ At(w, "returning")
    /\ Queue!Crash(w)
    /\ worker' = [worker EXCEPT ![w] = Idle]
    /\ UNCHANGED <<runVars, reaper, request>>

\* The timer of a wait step has brought it back.
FireTimer(w) ==
    /\ At(w, "firing")
    /\ ctx' = After(w, "TIMER_FIRED")
    /\ GoTo(w, "starting")
    /\ UNCHANGED <<queueVars, run, reaper, request>>

StartStep(w) ==
    /\ At(w, "starting")
    /\ ctx' = After(w, "STEP_STARTED")
    /\ GoTo(w, "executing")
    /\ UNCHANGED <<queueVars, run, reaper, request>>

\* Mutant: an approval that is visited again counts as approved.
AnswersWhenWoken(w) ==
    IF Undoing(w) \/ StepType[StepOf(w)] = "work" THEN Outcomes[worker[w].slot]
    ELSE {TRUE}

\* What the plugin call may return: an approval looks at the decision in the
\* context it was given, a wait has nothing to do.
Answers(w) ==
    IF Undoing(w) \/ StepType[StepOf(w)] = "work" THEN Outcomes[worker[w].slot]
    ELSE IF StepType[StepOf(w)] = "wait" THEN {TRUE}
    ELSE {worker[w].approved}

\* The plugin call is made and returns, or raises StepError.
CallReturns(w, ok) ==
    /\ worker' = [worker EXCEPT ![w].pc = "executed", ![w].ok = ok]
    /\ UNCHANGED <<queueVars, runVars, reaper, request>>

Execute(w) ==
    /\ At(w, "executing")
    /\ \E ok \in Answers(w) : CallReturns(w, ok)

\* The heartbeat thread beats while the plugin runs.
Heartbeat(w) ==
    /\ At(w, "executing") \/ At(w, "executed")
    /\ Queue!RenewLease(w)
    /\ UNCHANGED <<runVars, worker, reaper, request>>

\* The fencing check, passed before a step is parked or its outcome recorded ...
Finish(w) ==
    /\ \/ At(w, "deferring") /\ GoTo(w, "parking")
       \/ At(w, "executed") /\ GoTo(w, "recording")
    /\ Queue!FinishTaskIfOwned(w)
    /\ UNCHANGED <<runVars, reaper, request>>

\* ... or failed.
Abandon(w) ==
    /\ At(w, "deferring") \/ At(w, "executed")
    /\ Queue!Abandon(w)
    /\ worker' = [worker EXCEPT ![w] = Idle]
    /\ UNCHANGED <<runVars, reaper, request>>

\* resume_at: a wait has a time to resume at, an approval only with a timeout_s.
Timed(s) == StepType[s] = "wait" \/ s \in Deadline

\* _handle_deferral.  An approval without a deadline queues nothing.
Park(w) ==
    LET s == StepOf(w)
    IN  /\ At(w, "parking")
        /\ Sync(After(w, IF StepType[s] = "wait" THEN "TIMER_SET"
                                                 ELSE "APPROVAL_REQUESTED"))
        /\ Enqueue(IF Timed(s) THEN Order(Do(s), worker[w].attempt + 1, FALSE)
                               ELSE <<>>)
        /\ worker' = [worker EXCEPT ![w] = Idle]
        /\ UNCHANGED <<reaper, request>>

MayRetry(w) == worker[w].attempt < MaxTries[worker[w].slot]

\* Mutant: the key of the failed attempt is used again.
SameTry(w) == worker[w].attempt

\* schedule_retry: next_attempt.
NextTry(w) == worker[w].attempt + 1

\* schedule_retry: the same slot once more, after a delay.
RecordRetry(w) ==
    /\ At(w, "recording")
    /\ ~worker[w].ok /\ MayRetry(w)
    /\ Sync(ApplyEvent(After(w, "STEP_FAILED"), Event("STEP_RETRY_SCHEDULED", StepOf(w))))
    /\ Enqueue(Order(worker[w].slot, NextTry(w), FALSE))
    /\ worker' = [worker EXCEPT ![w] = Idle]
    /\ UNCHANGED <<reaper, request>>

\* _record_success and _record_terminal_failure.
RecordOutcome(w) ==
    /\ At(w, "recording") /\ ~Undoing(w)
    /\ \/ worker[w].ok /\ AdvanceRun(After(w, "STEP_SUCCEEDED"), <<>>)
       \/ /\ ~worker[w].ok /\ ~MayRetry(w)
          /\ AdvanceRun(Unwind(After(w, "STEP_FAILED"), StepOf(w)), <<>>)
    /\ worker' = [worker EXCEPT ![w] = Idle]
    /\ UNCHANGED <<reaper, request>>

\* The two ends of _run_compensation.
RecordUndo(w) ==
    /\ At(w, "recording") /\ Undoing(w)
    /\ \/ worker[w].ok /\ AdvanceRun(After(w, "STEP_COMPENSATED"), <<>>)
       \/ ~worker[w].ok /\ ~MayRetry(w) /\ AdvanceRun(After(w, "COMPENSATION_FAILED"), <<>>)
    /\ worker' = [worker EXCEPT ![w] = Idle]
    /\ UNCHANGED <<reaper, request>>

\* The worker process is killed, or an exception sends it back to its loop.
Crash(w) ==
    /\ \/ "crash" \in Faults /\ Queue!Crash(w)
       \/ /\ "late crash" \in Faults
          /\ At(w, "parking") \/ At(w, "recording")
          /\ UNCHANGED queueVars
    /\ worker' = [worker EXCEPT ![w] = Idle]
    /\ UNCHANGED <<runVars, reaper, request>>

------------------------------------------------------------------------------
(* The clock and the reaper.                                               *)

TimerDue(t) ==
    /\ Queue!TimerDue(t)
    /\ UNCHANGED <<runVars, worker, reaper, request>>

LeaseLapses(t) ==
    /\ Queue!Orphaned(t) \/ "stall" \in Faults
    /\ Queue!LeaseLapses(t)
    /\ UNCHANGED <<runVars, worker, reaper, request>>

\* The recovered row is committed first ...
Reap(t) ==
    /\ reaper = NoStep
    /\ Queue!Reap(t)
    /\ reaper' = SlotOf[t][1]
    /\ UNCHANGED <<runVars, worker, request>>

\* ... and STEP_RETRY_SCHEDULED appended later.
AnnounceRecovery ==
    /\ reaper # NoStep
    /\ ctx' = ApplyEvent(ctx, Event("STEP_RETRY_SCHEDULED", reaper))
    /\ reaper' = NoStep
    /\ UNCHANGED <<queueVars, run, worker, request>>

ReaperDies ==
    /\ "reaper crash" \in Faults
    /\ reaper # NoStep
    /\ reaper' = NoStep
    /\ UNCHANGED <<queueVars, runVars, worker, request>>

\* _fail_poisoned_step, in the transaction that gives the row up.
ReapPoisoned(t) ==
    /\ reaper = NoStep
    /\ Queue!ReapPoisoned(t)
    /\ LET c == ApplyEvent(ctx, Event("STEP_FAILED", SlotOf[t][1]))
       IN  Sync(CloseIfFinished(c, c))
    /\ UNCHANGED <<worker, reaper, request>>

------------------------------------------------------------------------------
\* What a worker does apart from the plugin call itself.
Bookkeeping(w) ==
    \/ Claim(w)
    \/ LoadContext(w)
    \/ RejectConfig(w)
    \/ Return(w)
    \/ FireTimer(w)
    \/ StartStep(w)
    \/ Finish(w)
    \/ Abandon(w)
    \/ Park(w)
    \/ RecordRetry(w)
    \/ RecordOutcome(w)
    \/ RecordUndo(w)

Work(w) == Execute(w) \/ Bookkeeping(w)

Approvals(a) ==
    \/ \E s \in Step, approve \in BOOLEAN : CheckApproval(a, s, approve)
    \/ ResolveApproval(a)

RowStep(t) ==
    \/ TimerDue(t)
    \/ LeaseLapses(t)
    \/ Reap(t)
    \/ ReapPoisoned(t)

Next ==
    \/ StartRun
    \/ \E w \in Worker : Work(w) \/ Heartbeat(w) \/ Crash(w)
    \/ \E a \in Actor : Approvals(a)
    \/ \E t \in Pk : RowStep(t)
    \/ AnnounceRecovery
    \/ ReaperDies

Spec == Init /\ [][Next]_vars

(***************************************************************************)
(* Fairness: a run that was asked for is started, the loops of the workers *)
(* and of the reaper go on, plugin calls return, time passes and an        *)
(* orphaned lease runs out.  Nobody has to decide on an approval.          *)
(***************************************************************************)
Fairness ==
    /\ WF_vars(StartRun)
    /\ \A w \in Worker : WF_vars(Work(w))
    /\ \A a \in Actor : WF_vars(ResolveApproval(a))
    /\ \A t \in Pk :
        /\ WF_vars(TimerDue(t))
        /\ WF_vars(Queue!Orphaned(t) /\ LeaseLapses(t))
        /\ WF_vars(~Queue!ReaperWedged /\ (Reap(t) \/ ReapPoisoned(t)))
    /\ WF_vars(AnnounceRecovery)

FairSpec == Spec /\ Fairness

------------------------------------------------------------------------------
(* Properties.                                                             *)

\* Every variable has its type, and what a worker has in memory agrees with the
\* row it has in hand.
TypeOK ==
    /\ Queue!TypeOK
    /\ ctx \in Context
    /\ run \in RunState
    /\ reaper \in Step \cup {NoStep}
    /\ \A a \in Actor : request[a].step \in Step \cup {NoStep}
    /\ \A w \in Worker :
        hand[w] # NoTask => /\ worker[w].slot = SlotOf[hand[w]]
                            /\ worker[w].attempt \in handed[hand[w]]

Succeeded == Range(ctx.order)

Rowless(slot) == Rows(slot) = {}

\* A row that is still to be worked on, and an outcome still to be recorded.
Live(t) == Queue!Present(t) /\ ~Queue!Done(t)

Closing(slot) == {w \in Worker : /\ worker[w].slot = slot
                                 /\ worker[w].pc \in {"parking", "recording"}}

Custodians(slot) ==
    Cardinality({t \in Rows(slot) : Live(t)}) + Cardinality(Closing(slot))

\* Whoever schedules a step - the worker that finished the last dependency, one
\* that raced it, an approval - only ever does so after all the step needs has
\* succeeded, and retries and recoveries do not undo that (replay.ready_steps
\* evaluated on logs that other workers keep appending to).
DependenciesFirst ==
    \A s \in Step :
        ~Rowless(Do(s)) \/ ctx.steps[s].status # "PENDING" => Needs[s] \subseteq Succeeded

\* For each step, and for each undo, at most one party is responsible at any
\* time: one row waiting or leased, or one worker about to record what came of
\* it (enqueue_step's unique key, retries and recoveries together).
SingleCustody == \A slot \in Slot : Custodians(slot) <= 1

\* The saga is unwound one undo at a time: not two of them at once, whichever
\* workers are involved (service.enqueue_next_compensation).
SequentialUnwind ==
    \A s1, s2 \in Step :
        Custodians(Undo(s1)) > 0 /\ Custodians(Undo(s2)) > 0 => s1 = s2

Settled(s) == ctx.steps[s].compensated \/ ctx.steps[s].compensationFailed

\* The run implements the saga: steps take effect once each, what is undone is
\* undone latest first and only after the run has turned back, the run ends when
\* that is done, and stays as it ended (replay.compensation_order,
\* service.start_compensation, close_run_if_finished, for every interleaving of
\* workers that die late or stall).
Promise == INSTANCE Saga WITH
    phase   <- ctx.status,
    back    <- ctx.compensating,
    done    <- ctx.order,
    settled <- {s \in Step : Settled(s)}

ImplementsSaga == Promise!Spec

\* The status column never tells a different end of the run from the one the log
\* tells, although several transactions write it from contexts of their own
\* (sync_run_projection, close_run_if_finished).
ProjectionAgrees ==
    /\ run \in TerminalRunStates \/ ctx.status \in TerminalRunStates => run = ctx.status
    /\ ctx.compensating => run \in {"COMPENSATING", "FAILED"}

\* What the log shows as under way is under way: somebody has the step, or its
\* undo, to do, or it is parked until a person decides.  (replay.StepStatus:
\* SCHEDULED, a task row exists; RUNNING, a worker is executing it now;
\* RETRY_SCHEDULED, it will be tried again.)
NotStranded ==
    \A s \in Step :
        ctx.steps[s].status \in {"SCHEDULED", "RUNNING", "RETRY_SCHEDULED", "WAITING"} =>
            \/ Custodians(Do(s)) + Custodians(Undo(s)) > 0
            \/ /\ StepType[s] = "approval"
               /\ s \notin Deadline
               /\ ctx.steps[s].status = "WAITING" /\ ~ctx.steps[s].approved

\* An unwind that has begun goes on: while the log says COMPENSATING, somebody
\* has an undo to do (service.enqueue_next_compensation, _fail_poisoned_step).
UnwindTended ==
    ctx.status = "COMPENSATING" => \E s \in Step : Custodians(Undo(s)) > 0

\* An approval step succeeds only when the log carries a grant
\* (ApprovalPlugin.execute; a denial or a timeout never lets it through).
ApprovedOnly ==
    \A s \in Step :
        StepType[s] = "approval" /\ s \in Succeeded => ctx.steps[s].approved

\* Of the requests to decide on one step at most one is accepted
\* (resolve_approval's tests).
OneDecision ==
    \A a1, a2 \in Actor :
        /\ request[a1].pc = "done" /\ request[a2].pc = "done"
        /\ request[a1].step = request[a2].step
        => a1 = a2

\* A wait is armed once: a step that was parked and came back is not parked
\* again (StepPlugin.should_defer).  The first row parks the step, the second
\* one wakes it up.
ArmedOnce ==
    \A s \in Step : StepType[s] = "wait" => Cardinality(Rows(Do(s))) <= 2

\* No row ends the reaper's sweep (reap_expired_leases).
ReaperRuns == ~Queue!ReaperWedged

\* A run that has ended stays as it ended.
EndStays == ctx.status \in TerminalRunStates => ctx'.status = ctx.status

EndIsFinal == [][EndStays]_vars

\* What has succeeded stays so until it is being undone: no late event of
\* another worker or of the reaper takes the step back.
SuccessStands ==
    \A s \in Step :
        ctx.steps[s].status = "SUCCEEDED" /\ Rowless(Undo(s)) =>
            ctx'.steps[s].status = "SUCCEEDED"

SuccessIsStable == [][SuccessStands]_vars

\* Nothing new starts once the run unwinds or has ended: a step without a row
\* does not get one any more.
NothingNew ==
    ctx.compensating \/ ctx.status \in TerminalRunStates =>
        \A s \in Step : Rowless(Do(s)) => Rowless(Do(s))'

NothingNewAfterStop == [][NothingNew]_vars

\* A started run ends, or waits for a person.
Ends == ctx.status = "RUNNING" ~> ctx.status \in TerminalRunStates

------------------------------------------------------------------------------
(* Promises of the documents that the code does not keep, besides those the *)
(* runs refute; README.md says which constants show it.                     *)

\* A step that is still to be undone keeps the status SUCCEEDED, which, says
\* enqueue_next_compensation, marks it as needing rollback.
ToUndoIsSucceeded ==
    \A s \in Range(CompensationOrder(ctx)) : ctx.steps[s].status = "SUCCEEDED"

\* An approval that is granted is not failed by its deadline
\* (ApprovalPlugin.execute).
GrantHolds ==
    \A s \in Step : ctx.steps[s].approved => ctx.steps[s].status # "FAILED"

\* The row of a step that has failed for good is finished, so that the reaper does
\* not hand the step out again (worker._record_terminal_failure and its callers).
FailureFinishesRow ==
    \A s \in Step :
        ctx.steps[s].status = "FAILED" => ~\E t \in Rows(Do(s)) : task[t].status = "LEASED"

\* A run ends only when it has nothing left to do (close_run_if_finished).
EndsWhenIdle ==
    ctx.status \in TerminalRunStates => \A slot \in Slot : Custodians(slot) = 0
==============================================================================
