# A TLA+ model of Cascade

Cascade (`src/`) is a durable workflow engine on Django and Postgres. A run of a
workflow is an append-only log of events; its state is a pure fold of that log;
work is handed out through a table of tasks with leases; worker processes that
remember nothing claim tasks, replay the log, execute one step and record what
came of it. This directory models the engine in TLA+, checks it with TLC on small
instances and proves what can be proved for all instances with TLAPS.

## 1. Inventory

| Component | State | Operations | Hard parts |
|---|---|---|---|
| Event log (`engine/service.py` `append_event`, `engine/models.py` `RunEvent`) | rows of `run_events`, `Run.last_seq` | append inside a transaction, retry on a collision, give up | optimistic writers, uncommitted rows, stale `last_seq` |
| Task queue (`service.py`, `heartbeat.py`, `Task`) | rows with status, owner, lease, due time, attempt, unique key | enqueue, claim, renew, finish if owned, recover, poison | slow workers that come back, keys, the limit of attempts, head-of-line |
| Replay (`engine/replay.py`) | none (pure) | fold an event; ready steps, compensation order, next run state | late events overwrite the status of a step |
| Run execution (`worker.py`, `service.py`) | log, tasks, `Run.status`, memory of each worker, of the reaper and of a request | claim, load, defer, start, execute, finish, record, retry, compensate, approve, deny, recover, close | several short transactions per step; crashes, stalls and other actors between any two of them |
| Loops (`run_worker.py`, `run_reaper.py`) | none | repeat, log exceptions | an exception ends the task, or the sweep, at hand |
| Retry (`engine/retry.py`) | none | backoff with jitter, limit | attempts are shared by retries, deferrals and recoveries |
| Step plugins (`engine/steps`) | none | should_defer, resume_at, execute | decide on the context they are given |
| Definitions (`engine/spec.py`) | immutable definitions | validate, detect cycles, sort | pure graph algorithms |
| Graph and outbox (`graph/service.py`, `graph/dispatcher.py`) | entities, changes, triggers | upsert, dispatch, fire | concurrent creation and update, a dispatcher that dies over a change, locks of two rows, a change that always fails |
| Predicates, expressions | none | match, render | data, no control |
| Streaming (`engine/streaming.py`) | position in the log | poll, send, stop | runs after the request it belongs to |
| Tenancy (`core/`) | context variable of each thread | enter, restore, scope a query | leaks from job to job, what is handed on between threads |
| Versions of definitions (`create_definition`) | rows of `WorkflowDef` | read the latest, store the next | two requests number at once |
| API (`engine/views.py`, `graph/views.py`), seed commands | none of their own | define, start, decide, upsert, create and delete triggers | read, then write |
| Node server (`fake_nodes/server.py`) | nodes, stores of the company, seen keys | health, drain, upgrade, roll back, enrol, refuse, withdraw | repeated deliveries, lost answers |
| Admin, serializers, walkthroughs, dashboard | none | adapters | - |

How they interact: the API's `start_run` and `resolve_approval`, a worker's recording
transaction and the reaper all call `append_event`, `enqueue_step` and
`sync_run_projection` on the same rows. There are no locks but the unique index on
`(run, seq)`, the unique index on the idempotency key, and the row locks of
`claim_task` and `reap_expired_leases`. Requests that upsert entities leave rows in
`entity_changes`; dispatchers claim them and call `start_run`. The engine executes only
definitions that `validate_spec` has accepted. An `http` step changes a system outside,
with the key of the delivery in a header. All processes serve all tenants and keep the
tenant of the job at hand in a context variable, which scopes their queries.

What makes each part correct:

* the log never has a gap or a duplicate, and a transaction that has appended decides
  on the log it extends;
* whoever holds a lease, at most one outcome per row is let through, and a redelivered
  row has a key nobody was given before;
* a step starts after what it needs, at most one party is responsible for it, what has
  succeeded stays so, and nothing the log shows as under way is forgotten;
* a saga is unwound backwards, one undo at a time, to its end;
* an approval succeeds only after a grant, and one decision is accepted;
* the run ends, ends once, and the status column tells the end that the log tells;
* the outbox tells exactly what the graph went through, and each change fires its triggers
  once, on the transition, whoever dies over it;
* a definition that is accepted has no cycle, and the versions of a name have no gaps;
* what the log says of a step is so in the system the step is about;
* nothing crosses from one tenant to another.

`PROJECT.json` lists the hazards line by line, with the properties that cover them.

## 2. Modules

| Module | Models | Built on |
|---|---|---|
| `AtomicLog` | what the engine takes its log to be | - |
| `EventLog` | `append_event` inside transactions | implements `AtomicLog` |
| `TaskRow` | a row of `tasks` and what each statement writes into it | - |
| `TaskQueue` | the table with workers, heartbeats and reaper | `TaskRow` |
| `Replay` | `replay.py` and `close_run_if_finished` | - |
| `Saga` | what a run promises to whoever reads its log | - |
| `Engine` | one run: workers, reaper, approval requests | `Replay`, `TaskRow`, an instance of `TaskQueue`; implements `Saga` |
| `Systems` | the handlers of `fake_nodes/server.py` | - |
| `Workflows` | `NEW_JOINER` and `ROLLING_UPGRADE` of the seed commands | - |
| `Provisioning` | a run whose steps are http requests to these systems | `Engine`, `Systems`, `Workflows` |
| `Tenancy` | tenants, versions, triggers, and the threads that hand them on | - |
| `Predicates` | `predicates.py`, `matches` | - |
| `Outbox` | `upsert_entity` and `dispatch_one` | `Predicates` |
| `WorkflowSpec` | `validate_spec`, `detect_cycle`, `topological_order` | - |
| `EventLogProofs`, `TaskQueueProofs`, `WorkflowSpecProofs`, `TenancyProofs`, `OutboxProofs` | theorems | the module each is named after |
| `EngineProofs` | lemmas about `Replay`, the types of a run, that it uses the queue as `TaskQueue` allows, what its log may say, the projection, and who has a step or an undo in hand | `Engine` |
| `SagaProofs` | why rows appear and that none is missing; the unwind, one undo at a time, the refinement of `Saga`; unwinds that go on and waits that are armed once, while no worker dies | `EngineProofs` |
| `ProvisioningProofs` | repeated requests; that a run among the systems is a run of `Engine`, and that its log tells the truth about them; what an unwind leaves, and in which order it undoes; the two seeded workflows, and the node that is upgraded | `Provisioning`, `SagaProofs` |
| `MCEventLog`, `MCTaskQueue`, `MCEngine`, `MCProvisioning`, `MCOutbox`, `MCWorkflowSpec`, `MCTenancy` | small instances for TLC | the above |

**EventLog.** A writer is a transaction of any process. `Refresh` reads `last_seq`
(committed, or what this transaction wrote itself), `Insert` creates the row and updates
`last_seq`, `Collide` is the `IntegrityError`, which after `MaxRetries` collisions takes
the transaction with it. An insert under a number that another *open* transaction has
inserted waits for that transaction, as an insert into a Postgres unique index does; this
is why `Insert` is not enabled then, and why appenders of one run take turns. `AtomicLog`
is a sequence that a transaction extends by all of its events at once.

**TaskQueue.** One action per statement: `ClaimTask`, `RenewLease`, `FinishTaskIfOwned`,
`Abandon`, `Crash` (the process dies, or an exception sends it back to its loop), `Reap`,
`ReapPoisoned`, and the clock (`TimerDue`, `LeaseLapses`). Time is abstracted to two
bits: has `run_after` been reached, is the lease still running. Who inserts rows is the
environment's choice in this module; `EnqueueSteps` says what an insert does. A stalled
worker is one that takes no step while its lease lapses.

**Replay.** The status tables, `ApplyEvent`, `ReadySteps`, `CompensationOrder`,
`NextRunState`. A workflow is given by constants: `Step`, `Needs`, `OnError`,
`Compensable`.

**Engine.** Every action is one transaction or one autocommitted statement. A
transaction that starts with an append is one step, and `EventLog` is the reason: from
its first append to its commit nobody else's events are committed (`DecidesOnLatest`).
What is read before (the tests of `resolve_approval`, the context a worker loads), or
committed separately (`finish_task_if_owned` before the outcome, the recovered row before
its announcement), is a step of its own. The actions on rows are those of `TaskQueue`,
conjoined with what they mean to the run. A worker goes through

    claimed -> deferring -> parking                          (first visit of wait, approval)
    claimed -> [firing ->] starting -> executing -> executed -> recording
    claimed -> misconfigured -> returning                    (config does not render)
    claimed -> executing -> executed -> recording            (COMPENSATE)

`Faults` names what may go wrong in a run of TLC: a `crash` while the worker owns its
row, a `late crash` after it has finished the row, a `stall` (the lease of a working
worker lapses), a `slow reaper` (its announcement comes late) and a `reaper crash`
(it does not come).

**Saga.** The abstract specification of a run: steps complete, one of them fails the run,
or turns it back; from then on the effects that are left are settled (undone, or given up)
one at a time, the latest first; and an ended run stays ended. The refinement mapping
(`Promise` in `Engine`) reads the phase, the completed steps in their order and the
settled ones off the folded log; which worker did what, with how many rows, retries and
recoveries, is hidden.

**Systems, Workflows, Provisioning.** A handler of the node server is an operator from
the state of the systems and a request to the new state and the status of the answer; the
server's lock makes each one step. `Provisioning` takes `Engine` action by action and
replaces its plugin call by `Call`: `NoopPlugin` or `HttpPlugin` with the step's request,
carried out and answered, carried out without an answer coming back, or never arriving,
as `Trouble` allows for the step. `Interfere` is the operator of `scripts/demo.py` who
makes payroll refuse somebody or a node break after its upgrade.

**Tenancy.** Threads of four kinds take up jobs: requests (`TenantMiddleware` resolves
the tenant, a view acts, the middleware restores), workers (`run_once`), dispatchers
(`dispatch_one`) and seed commands. `scope` is the context variable of each thread, `job`
whose job it is doing; an operator `Scoped` is what the scoped manager lets a query see.
`create_definition` is two steps, `ReadLatest` and `Store`, of which the second meets the
unique index. A stream goes on after its request (`Leave`, then `Poll`, whose query is
refused). What happens inside a run or an upsert is left to `Engine` and `Outbox`.

**Outbox.** An action is one statement of a transaction, or its commit. A request reads
the row of its entity `FOR UPDATE` and either finds none (`FindNone`, then `Create`, which
waits for an open insert of the same key, or `CreateConflicts`) or updates it (`Update`).
A dispatcher locks a change together with its entity, because of
`select_related("entity")`, and skips a change when it cannot have both; what it skipped
it keeps locked until its transaction ends. `Fire` is one trigger, `Finish` the commit,
`Die` the end of the process. Attributes are numbers or missing.

**WorkflowSpec.** `detect_cycle` as the program runs it: a stack of half-used iterators
and three colours, one action per branch of its inner loop. `topological_order` runs on
the same definition afterwards, whatever the verdict, so that the two can be compared.
What `validate_spec` asks of a single step is one attribute, `wellFormed`.

Definitions that start with the word *Mutant* in their comment are not part of the
model. Each is a plausible bug in the definition that follows it; put in its place, it
must make the property named in `PROJECT.json` fail, which shows the property can fail.

## 3. What TLC checks

Passing runs:

| Run | Instance | Shows |
|---|---|---|
| `queue` | 2 workers, 3 rows, 2 of them in one slot, 2 attempts; fair | `Fencing`, `LostIsSound`, `FreshKeyOnRedelivery`, `DoneIsFinal`, `FinishedOrWedged` |
| `log` | 3 writers, batches of 2, 2 retries, log of 2; fair | `Gapless`, `CollisionsPaidFor`, `DecidesOnLatest`, `ImplementsAtomicLog`, `AppendEnds` |
| `saga` | {A, B}, C; C fails, an undo may fail and is retried; late crashes, stalls, a reaper that dies before it announces a recovery | `DependenciesFirst`, `SingleCustody`, `SequentialUnwind`, `ImplementsSaga` |
| `parked` | work, an approval with a deadline, a wait, a wait whose config does not render, and work after the first wait that may fail; 2 undos, each tried twice, that may fail; a reaper that is slow or dies; fair | `ApprovedOnly`, `ArmedOnce`, `UnwindTended`, `NothingNewAfterStop`, `Ends` |
| `onboarding` | five steps of `NEW_JOINER` and the company; payroll may refuse, the mail system and GitHub may be out of reach, answers of the mail system may get lost; 1 crash; fair | `NotStranded`, `ProjectionAgrees`, `LogTellsTruth`, `SuccessIsStable`, `Ends` |
| `tenancy` | 2 tenants and an unknown slug; a request thread, a worker, a dispatcher, a seed command; 2 versions | `TenantsApart`, `VersionsGapless` |
| `outbox` | 2 entities, 2 attributes of which the triggers watch one, 2 requests, 2 dispatchers, 2 triggers, 3 changes, 1 death; fair | `OutboxAgrees`, `FiredOnce`, `FiresOnTransition`, `Drains` |
| `definitions` | all definitions of 3 steps with up to 2 needs each; fair | `VerdictIsRight`, `OrderIsRight`, `Returns` |

`queue`, `log` and `saga` also check the type invariant of their module.

The bounds. Two workers are enough for every race of a stale and a current holder of a
row; the third party in them, the reaper or a request, is modelled besides. Three rows
let two compete for a key while a third is independent. `MaxTaskAttempts` of 2 reaches
the poison limit, `MaxAttempt` is never what stops a row from being inserted in
the passing runs: it exceeds the attempts that retries, deferrals, grants and recoveries
can use up. Three to five steps give the fork, the join, the chain and the mix of step
types. `onboarding` leaves out the laptop, which is to the run what Slack is. It has
one crash, because the limit of three attempts per task must leave room for a recovery;
retries take up to three attempts of their own. The upgrade workflow is not a passing run:
see `upgraded_twice`. `tenancy` has one thread of each kind, since threads of a kind meet
only in the numbering of versions, where a request and a seed command are the two that
race; one run, since nothing there relates two runs; two triggers, since two of one tenant
are what stops a seed command. `parked` has one worker, since what races there is the worker, the timers, the
reaper and the request; it has the undos that fail half way through the unwind, beside a
branch that still goes forward, and the announcement of a recovery that comes after the run
has turned back or ended, or never. Nobody dies or stalls in it, because `ArmedOnce` and
`UnwindTended` do not survive that (see the divergences). `onboarding`, where a worker dies,
has a prompt reaper and no stalls for the same reason. Three changes let one entity be
promoted, demoted (by a replacement that leaves the watched attribute out) and promoted
again, or be written in its other attribute only, or two entities compete for two
dispatchers. Three steps with two needs each give every cycle of
length one to three, with and without a way into it, needs listed twice, and definitions
of several trees. Workers are interchangeable and symmetric in the runs without liveness.

Violation runs. Each states what a comment or document of the repository says of the
program, and TLC shows a behaviour of the code that contradicts it. `findings` in
`PROJECT.json` quotes the lines.

| Run | What happens |
|---|---|
| `late_crash` | death between finishing the row and recording: the run is stranded (`NotStranded`) |
| `two_approvals` | concurrent decisions on one step are both accepted (`OneDecision`) |
| `wedged` | the reaper's fresh key is taken, and every sweep ends there (`ReaperRuns`) |
| `upgraded_twice` | an upgrade is repeated under a fresh key after a crash, and the rollback leaves the node upgraded (`UndoneIsGone`) |

More divergences have no run of their own. Each shows when a configuration is changed as
below and given the property named, without symmetry for the action and temporal properties:

| Configuration | Change | Property | What happens |
|---|---|---|---|
| `MCLateCrash` | `Faults = {"stall"}` | `NotStranded`, `SuccessIsStable` | a late `STEP_STARTED` takes a success back |
| `MCLateCrash` | `Faults = {"crash", "slow reaper"}` | `NotStranded`, `SuccessIsStable` | a late `STEP_RETRY_SCHEDULED` does the same |
| `MCSaga` | `Faults = {"crash"}` | `UnwindTended` | an undo at the limit of attempts leaves the run COMPENSATING |
| `MCSaga` | `Faults = {}` | `ToUndoIsSucceeded` | the retry of an undo overwrites the status SUCCEEDED |
| `MCSaga` | `Needs <- Parallel`, `Faults = {}` | `SequentialUnwind` | a branch that succeeds during the unwind queues a second undo |
| `MCSaga` | `Needs <- Parallel`, `Faults = {"crash"}` | `SingleCustody` | the reaper frees the key of an undo, which is queued again |
| `MCSaga` | `Needs <- Parallel`, `OnError <- AllFail`, `Faults = {}` | `EndsWhenIdle` | `RUN_FAILED` while branches are still at work |
| `MCSaga` | `Needs <- Parallel`, `OnError <- LastCompensates`, `Outcomes <- AnyResult`, `Faults = {}` | `EndIsFinal`, `ImplementsSaga` | a FAILED run turns COMPENSATING and fails again |
| `MCParked` | `OnError <- SecondContinues` | `Ends` | a failed step with `on_error: continue` keeps the run from ending (`replay.py:303-307`: "it does not condemn the run") |
| `MCWedged` | `Faults = {}` | `GrantHolds` | a granted approval is failed by its deadline |
| `MCWedged` | `Faults = {}` | `SuccessIsStable` | the deadline of a granted approval starts the step again |
| `MCTwoApprovals` | `Actor = {p1}`, `Faults = {"crash"}`, `MaxTaskAttempts = 4`, `MaxAttempt = 5` | `ArmedOnce` | a wait whose timer fired is armed again after a crash |
| `MCParked` | - | `FailureFinishesRow` | a config error leaves the row of the failed step leased |
| `MCOnboarding` | `Trouble <- LostAnswers` | `NotStranded` | an undo that a crash has interrupted and that then fails leaves its step RETRY_SCHEDULED |
| `MCUpgrade` | `Faults = {"stall"}`, `MaxCrash = 0` | `UndoneIsGone` | the same double upgrade, by a worker that was only slow |
| `MCTenancy` | - | `AlwaysScoped` | the generator of a stream queries without a tenant, and the stream ends in `NoTenantContext` ("always a bug", `core/tenancy.py:46`) |
| `MCOutbox` | `Overlong = {e1}` | `Drains` | a run with a ref too long for its column is refused for ever, and every sweep ends at that change |

So the passing runs state precisely under which faults a property holds: `NotStranded`
and `SuccessIsStable` hold with workers that crash while they own their row and a prompt
reaper (on the onboarding workflow, with trouble on the way to the systems, where an undo
is never the one in trouble), and fail with a stall or a late announcement, `NotStranded`
with a late crash, too;
`LogTellsTruth` says nothing of a step that has failed after its answer got lost, or that
a crash may have repeated: payroll, which has no undo, can keep a person whose enrolment
counts as failed; `SequentialUnwind`
holds when no step that turns the run back is at work beside another, whatever stalls or
dies, and fails with parallel branches, and so does `ImplementsSaga`; `Drains` holds when
the database accepts the runs.

## 4. Fairness

The loops of `run_worker` and `run_reaper` go on and plugin calls have timeouts, so each
worker's own steps, the reaper's and the clock's are weakly fair. Nobody has to crash, to
enqueue or to decide on an approval. A lease has to run out only when no worker has the
row in hand: a living worker may renew for ever. The reaper takes the longest lapsed row
first and its sweep ends at an exception, so it is fair to a row only while no row is
wedged; `FinishedOrWedged` says what is left. In `EventLog` the insert is strongly fair:
Postgres wakes the waiting transaction when the other one ends. `Provisioning` assumes
less than `Engine`: a single weak fairness condition, that something goes on while
anything can (`GoesOn`: workers, reaper, clock). Nobody has to interfere, to crash or to
beat, and with the attempts bounded that is enough for `Ends`. `Tenancy` has no liveness:
its threads may stop anywhere. In `Outbox` the loop of
`run_dispatcher` goes on after any exception, so each dispatcher's own steps are weakly
fair, and so is the end of a transaction that has written; nobody has to write. In
`WorkflowSpec` the computation goes on.

## 5. What TLAPS proves

For any number of workers, rows, slots, steps and attempts, from the named assumptions on
the constants:

* `TaskQueueProofs`: `TypeCorrect`, `FencingHolds`, `HeartbeatSound`, `FreshKeys`,
  `DoneFinal`. The inductive invariant adds to the properties that a key in `handed` was
  given out under the row's present number or a lower one, that a row which does not
  exist has been handed to nobody and let nothing through, and that a row in hand exists.
  Fencing needs it because an outcome is let through in the very step that ends the
  lease, so a second one would need a second lease of a row that is DONE.
* `EventLogProofs`: `TypeCorrect`, `LogGapless`, `SingleAppender`, `LockFree`,
  `LogAppendOnly`, `DecisionsSerial`, and `Refinement`, which says that `EventLog`
  implements `AtomicLog`. The invariant says that the open draft, if there is one, is the
  interval right above `lastSeq` and that what a writer has seen is never above it; then
  only one writer can have inserted `lastSeq + 1`, and its commit extends the log by
  exactly its draft.
* `WorkflowSpecProofs`: `VerdictCorrect` and `OrderCorrect`. The first invariant (`SearchInv`) says that the grey
  nodes are those of the stack, once each, and each frame but the top one has last yielded
  the node of the next (so a grey need closes a real cycle); that what a frame has yielded
  is black or the next frame's node, and black nodes need only black ones; and that every
  set of black nodes has one that needs none of the set. The last part grows node by node
  (`AcyclicGrows`), and when all nodes are black it is `AcyclicAssumption` of `Replay`:
  what the engine assumes of definitions is what the validation has established.
  The second (`OrderInv`) is that of Kahn's algorithm: the in-degree of a step is the
  number of places in its needs that wait for a step to be placed (`Counted`, so that a
  need listed twice is released twice), and queued are the steps that miss nothing and are
  not placed. The sort stops when nothing is queued: if steps are left, each of them needs
  another one that is left, which an accepted definition rules out; if none is left, the
  placed steps (`PlacedAcyclic`) have no room for the cycle `detect_cycle` has reported
  (`CyclesBite`). That the two algorithms agree is what the theorem adds to each of them.
* `TenancyProofs`: `TenantsStayApart`, `VersionsHaveNoGaps`, `ClaimsAreScoped`. The
  invariant (`Acting`) says that a thread in the middle of a job has the job's tenant in
  scope and every idle one has nobody, that the run or the change a thread has claimed
  belongs to that tenant, and that what a request has read as the latest version is no more
  than what is stored; the rows themselves carry the tenant they were asked for by.
* `OutboxProofs`: `OutboxTellsTruth`, `ChangesFireOnce`, `FiresOnTransitions`. Two
  invariants. One is about writers: what an open transaction has written still follows
  from what is committed (`WriteOK`), because it has locked the row or its key, and the
  changes of one entity lead from one to the next (`Chain`, `Departures`). The other is
  about dispatchers: no change is held by two (`ClaimsApart`), none that is held is
  processed, and what the claim has fired is what the change's predicates want and is no
  longer to do (`ClaimOK`); nothing of a claim is left when its holder dies.
* `EngineProofs`: `TypeCorrect`, and `RunUsesQueue`: every step of a run is a step of
  `TaskQueue` on its rows, or leaves them alone. So what `TaskQueueProofs` shows of the
  queue (fencing, sound heartbeats, fresh keys, finality) holds of a run as an instance of
  it; the step from one to the other is an instantiation of the theorems, which tlapm
  offers no way to cite through a named `INSTANCE`. The invariant says what a worker
  remembers of its row in each of its places (`Fits`), and that a row in hand exists.
  The module also holds the lemmas about `ApplyEvent`, `ReadySteps`, `CompensationOrder`
  and `NextRunState` on which the rest is built.
* The second part of `EngineProofs`: `NeedsComeFirst`, `StopIsFinalForSteps`,
  `StatusTellsTheEnd`, `UndoesOnlyWhatSucceeded`, `OnlyATurnReopens`, `ApprovalNeedsAGrant`,
  `GrantIsInTheLog`, all of them under every fault. One lemma (`EveryStep`) reduces each
  action of `Engine` to what it does to log and rows: it leaves the log alone, or it
  appends one event about a step that has a row and inserts rows for slots that have one
  or for what `advance_run` queues. The invariants are then about those few kinds of step:
  a row exists only of a step whose needs are met, and whoever may write about a step -
  a worker, a request, the reaper - does so because of a row (`Backed`, `RowsCleared`);
  a run that is not over is not due to be over, so that a late event finds nothing to
  close (`Undecided`); and no memory of a worker and no log says approved without an
  accepted request (`GInv`).
* The third part of `EngineProofs` and the first of `SagaProofs`: `StepsInOneHand`,
  `UndosInOneHand`, `OneCustodian` and `ScheduledMeansQueued`, again under every fault, and
  `SuccessStays` and `NothingIsStranded` under some of them. A slot is in one hand
  (`InOneHand`) if there is at most one row that is still to be worked on or one worker
  that is about to record its outcome, and not both. A step hands it on from a row to the
  worker that finishes it, or from a worker to the one row it leaves behind (`HandsOn`); what is to be ruled out is a second beginning. A step begins
  while it is PENDING and has no row (`Fresh`) or when an approval is decided, and nobody
  has it in hand while a person is asked. An undo may be queued again by any branch that
  records something while the run unwinds, but under attempt 1, a key that is taken as
  long as no recovery has moved the row on to another (`NeverRecovered`, `HandedOK`).
  The hypotheses cannot be dropped: an approval with a deadline has a row that waits
  for the deadline and gets a second when it is granted; two accepted decisions queue two
  rows (run `two_approvals`); and the reaper frees the key of an undo (see the divergences:
  `MCSaga` with parallel branches and a crash).
  `ScheduledMeansQueued`: a step is PENDING exactly as long as it has no EXECUTE row, since
  the only first row of a step is inserted by the transaction that marks it SCHEDULED.
  `SuccessStays` assumes that nobody stalls and that the reaper is in time. Then every
  worker that has a row in hand owns it (`HInv`), and a row whose recovery is yet to be
  announced is still waiting to be claimed (`Prompt`); so whoever could still write about a
  step that has succeeded - another row, a worker, the reaper, a request - would be its
  second custodian (`AtRest`).
  `NothingIsStranded` assumes in addition that no worker dies between finishing its row
  and recording the outcome, and speaks of runs of which nothing is being undone. The row
  or the worker in charge of a step has its highest attempt (`Latest`), so the key of the
  next attempt, which it orders when it retries or parks, is free and the insert is not
  lost; a grant reaches an approval only after somebody was asked (`Unasked`,
  `GrantedIsAsked`); and so the custodian of a step that the log shows as under way only
  ever hands it on, to a row, to a person, or to its end (`Tended`, `Loses`).
  Both say "as long as one decision per step is accepted", and speak of workflows without
  deadlines, for the reasons above.
* The rest of `SagaProofs`: `UnwindsInTurn` and `EndsForGood`, under every fault, `KeepsPromise`,
  the refinement of `Saga`, with a prompt reaper and without stalls, and, for any reaper
  but workers that neither die nor stall, `UnwindGoesOn` and `WaitsArmOnce`. The first
  three speak of
  workflows in which a step that may turn the run back does so alone (`TurnsAlone`): it is
  `on_error: compensate`, its configuration renders, and every other step comes before or
  after it in the order of needs - or its plugin cannot fail. The workflow of `MCSaga` is
  one of these, every chain is, and the divergences above show what parallel branches do.
  A step is over (`Over`) when nobody has it in hand, no decision on it is awaited and no
  worker has a faulty configuration of it to report; what is over stays so once the run
  has no use for it (`OverStays`). Whoever fails is not over, and when it fails, what comes
  before it has succeeded and what comes after it has no row, so both are (`Fallout`).
  From there the invariant: what has succeeded is over; when the run turns back every step
  is; and when it has ended, every step that could still turn it back is (`OInv`). So once
  the run unwinds, the ends of undos alone call `advance_run` (`OnlyUndosCall`), and an
  undo is in somebody's hand only while it is next in the compensation order
  (`UndoInTurn`); that makes the two undos of `SequentialUnwind` one, and needs no
  condition on recoveries, since an undo whose key the reaper has freed is not queued
  again before it is settled.
  For the refinement the status of the log is `phase`, `completion_order` is `done`, and
  the steps whose undo has an outcome are `settled`. Each event is a step of the saga or
  none: the first success of a step completes it, since a second would need a custodian of
  a step that is over; a failure turns the run back, fails it or changes nothing, since a
  run that has ended or turned back has no step left that fails in a way that counts; the
  end of an undo settles the step that is next, which is what `CompensationHead` says the
  latest completion is. That the run ends with its last success, and not later, needs that
  a success still shows when the last step succeeds (`StillShows`), and this is where stalls
  and a late reaper are excluded: a late `STEP_STARTED` on the first of two branches keeps
  a run going all of whose steps have taken effect. (`MCSaga` has stalls, and a last step
  that always fails.)
  `UnwindGoesOn` is about every workflow. While nobody dies, a leased row that its worker
  will finish is still in that worker's hand (`Kept`): the one way to lose one is to
  stumble over a configuration that does not render, and an undo renders none. So the
  reaper never touches a row of an undo (`LeftInPeace`), its first key is never freed and
  no undo is ordered twice (`UndosKept`); an undo is in one hand until it is settled, and
  the row or worker that has it has its highest attempt, so that a retry finds its key free
  (`UndoTended`). The undo that is next in the compensation order has a row, since whoever
  turns the run back or settles an undo queues what is next on the log it has extended
  (`NextIsQueued`, and `TurnedBack`: no run unwinds that was not turned back). The reaper
  may be as slow as it likes and may die between its commits: what it recovers and fails
  are steps.
  `WaitsArmOnce` is about every workflow, too, and bears workers that die after they have
  finished their row. A wait whose configuration renders is never reaped, so the reaper
  announces nothing about it (`ReaperOrderly`); it gets its first row when it is scheduled
  and another one only from the worker that parks it (`WaitInserts`). From then on it is
  in one hand, whose next look at the log finds `WAITING` (`Armed`): whoever could write
  something else about it would be a second custodian, a person who decides on a wait, or
  an undo of a step that has not succeeded (`WaitsInPeace`).
* `ProvisioningProofs`, about a run and the systems it acts on. `RunsInTheWorld` says that
  `Provisioning` implements `Engine`: what a request does among the systems is one more
  way for a plugin to succeed or fail. So every theorem above holds here, and since no
  step there waits for a person, the condition on decisions falls away
  (`KeepsPromiseInTheWorld`; `SeededKeepPromise` says it of the two workflows themselves,
  whose failing step is alone, as it has to be).
  `LogIsTrue` proves `LogTellsTruth` for every workflow that hires (`Hires`: each request
  puts the person into one system of the company, each undo takes them out of the system
  of its step, and no two steps are about one system), with any deaths, losses and
  repetitions, but no stalls: a request of a worker that has lost its row can arrive after
  the undo. The log alone is not enough for an induction, since between the answer and the
  record only the worker knows; so `EffectOf` counts as done what the log says or a worker
  was told (`Told`, `DoneOf`, `GoneOf`), and says that this is in effect as long as nobody
  has an undo to do, and what is in effect was asked for by a row. What makes it hold from
  step to step is custody: a worker that is about to enrol somebody is the one in charge of
  the step, so no undo of it has a row yet, and a worker that undoes has a step that
  succeeded, which nobody will start again. The last part of `LogTellsTruth`, about steps
  that failed, speaks of runs in which nobody has died; what it needs is that nobody lets
  go of a row in hand in any other way (`Intact`, `ElseDropsNothing`).
  `UnwindLeavesNothing` joins this to the saga: if the step that turns the run back is
  alone (`TurnsAlone`), nobody is at work on a step once the run has turned
  (`NobodyAtWork`), it ends when every effect is settled, and so what is in effect then has
  no undo, or one that was given up in the log, or was never acknowledged. In the seeded
  onboarding (`HalfHiredIsNobody`) every enrolment but payroll's can be undone, and
  payroll's is the one that failed: nobody is half hired, unless the log says so, or a
  death or a lost answer leaves open what payroll did.
  `CompletesInOrder` and `DependentsUndoneFirst` are about the graph, which
  `compensation_order` never looks at: it reverses completions. Those are in the order of
  the graph (`InOrder`: a step gets a row only when what it needs has succeeded), so what
  is next to be undone is needed by nothing still to be undone (`NeededNoMore`), and it
  stays so, since nothing succeeds once the run has turned back.
  The upgrade of a node does not hire: `return_to_service` takes back what `drain` does,
  and a rollback depends on what the node was before. `NodeInv` follows the node through
  the five requests that change it (`NodeCall`): it is out of service from the drain on,
  until the undo of the drain or the last step has a row (`DrainHolds`), upgraded from the
  upgrade on until its undo has a row (`UpgradeHolds`), and keeps the version to go back to
  as long as the upgrade was carried out once (`UpgradedOnce`), which is known while
  everybody who was to hear of it has (`UpgradeReported`). `NodeIsAsTold` and
  `UndoneNodeIsBack` say of it what the log promises; the run `upgraded_twice` shows what
  happens without the condition, which only the upgrade needs. `NodeIsOutOfService` joins
  this to the order of undos: the version changes only while the node is out of service,
  since the undo of the drain has no row before the one of the upgrade is settled.
  `RepeatsChangeNothing` is about the handlers alone: a request that is delivered twice is
  answered as before and changes nothing more, and only `upgrade` needs the key of the
  delivery for that (run `upgraded_twice` shows what a fresh key does to it).

The assumptions are those the modules name: a workflow is not empty, its needs are acyclic
(`VerdictCorrect` is where this comes from), limits are positive, deadlines are those of
approvals, a request succeeds or fails, and the values that stand for nothing are none of
the values they stand beside. No theorem but `UndoneNodeIsBack` assumes anything about the
bounds, none but those of `SagaProofs` (in `CannotFail`) about `Outcomes`, and none but
`SuccessStays`, `NothingIsStranded`, `KeepsPromise`, `UnwindGoesOn`, `WaitsArmOnce` and most
of those of `ProvisioningProofs` anything about `Faults`, so the other theorems about runs
hold for workers that stall, die early or late, and for a reaper that is slow or dies. What
the theorems of `ProvisioningProofs` assume besides (`Hires`, `TurnsAlone`, `AboutANode`,
which workflow it is, and for `UndoneNodeIsBack` that `MaxCrash` is 0 and no answer to the
upgrade is lost) is a fact about constants; the instance of `onboarding` has the first two,
and is the seeded workflow but for the laptop, the one of `upgraded_twice` has the third.

Model-checked only: liveness (`FinishedOrWedged`, `AppendEnds`, `Ends`, `Drains`,
`Returns`), since TLAPS does not reason about fairness. What a fold over a log of any
length computes would be an induction over data. Every invariant and every action property
of the passing runs is a theorem, under the conditions given here.

## 6. Not modelled

See `components` in `PROJECT.json`. Within the modelled parts: the order in which due
rows are claimed, the length of delays and leases, inputs, outputs and error texts,
several runs at once, more than one reaper process, and rows that disappear. `Outbox` has
no triggers that are edited while it runs, no edges and no tenants other than as part of
the key of an entity; its dispatchers may process the changes of one entity out of order,
which nothing in the code or its documents rules out. `Tenancy` has the triggers that are
created, deleted and pointed elsewhere while the dispatcher runs, but not their predicates;
it keeps no runs apart by what they do. Of the node server, `/apps` and `/devices` and the
routes that only read are left out; `Provisioning` knows no retry of a request within one
delivery, since `HttpPlugin` makes none, and no `expect_status`, since no seeded workflow
sets one. Of the seeded workflows the small ones are left out.
`append_event` giving up inside a recording transaction has the effect of a late crash
and is covered by it.

## 7. Plan

Done so far, in this order: `EventLog`, `TaskQueue`, `Replay`, `Engine`, `Outbox`,
`WorkflowSpec`, the proofs about the first two and the last, then `Saga` and its
refinement by `Engine`, `Systems`, `Workflows`, `Provisioning` and `Tenancy`, then the
proofs about `Tenancy`, `Outbox`, `Engine` and `Provisioning`. Next:

1. `Engine` with a second run on the same entity, and the lock `engine/models.py:91` speaks
   of.
2. The bounds of the backoff, and the walkthrough scripts as traces of `Engine`.
