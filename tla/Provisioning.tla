----------------------------- MODULE Provisioning -----------------------------
(***************************************************************************)
(* A run whose steps are http requests: module Engine and the systems its  *)
(* plugin calls change.  HttpPlugin.execute sends the request of the step, *)
(* with the key of the delivery, and fails the step unless the answer says *)
(* that it was carried out.                                                *)
(***************************************************************************)
EXTENDS Engine, Systems, Workflows

CONSTANTS
    Workflow,           \* one of those in Workflows, or a part of it
    Target,             \* the person, or the node, the run is about
    Sabotage,           \* requests an operator may send while the run goes on
    Trouble,            \* what may become of a request of each slot on its way
    MaxCrash            \* bound: on the workers that die

ASSUME WorkflowAssumption ==
    /\ Step = DOMAIN Workflow
    /\ Needs = [s \in Step |-> Workflow[s].needs]
    /\ OnError = [s \in Step |-> Workflow[s].onError]
    /\ Compensable = {s \in Step : Workflow[s].undo # NoRoute}
    /\ \A s \in Step : MaxTries[Do(s)] = Workflow[s].tries /\ StepType[s] = "work"
    /\ Outcomes = [slot \in Slot |-> BOOLEAN]     \* the systems decide

\* "unreachable": no connection.  "lost answer": the request is carried out and
\* the answer does not come back, or not before the timeout.
ASSUME TroubleAssumption == Trouble \in [Slot -> SUBSET {"unreachable", "lost answer"}]

ASSUME CrashAssumption == MaxCrash \in Nat

VARIABLES
    systems,            \* the state of the systems, see Systems
    crashes             \* history: how many workers have died

provisioningVars == <<vars, systems, crashes>>

ProvisioningInit ==
    /\ Init
    /\ systems = FreshSystems
    /\ crashes = 0

------------------------------------------------------------------------------
\* The request of a step, and the one of its compensate block.
RouteOf(slot) ==
    IF slot[2] = "EXECUTE" THEN Workflow[slot[1]].call ELSE Workflow[slot[1]].undo

\* idempotency_key, which names the run, the step, the kind and the attempt.
KeyOf(w) == <<worker[w].slot, worker[w].attempt>>

\* Mutant: the status of the answer is not looked at.
AnyAnswer(answer) == answer.status > 0

\* No expect_status is configured: below 400 counts as success.
CarriedOut(answer) == answer.status < 400

\* NoopPlugin.execute.
CallNothing(w) ==
    /\ RouteOf(worker[w].slot) = NoRoute
    /\ CallReturns(w, TRUE)
    /\ UNCHANGED systems

\* HttpPlugin.execute.
CallSystem(w) ==
    LET slot   == worker[w].slot
        answer == Handle(systems, Request(RouteOf(slot), Target), KeyOf(w))
    IN  /\ RouteOf(slot) # NoRoute
        /\ \/ CallReturns(w, CarriedOut(answer)) /\ systems' = answer.systems
           \/ /\ "lost answer" \in Trouble[slot]
              /\ CallReturns(w, FALSE) /\ systems' = answer.systems
           \/ /\ "unreachable" \in Trouble[slot]
              /\ CallReturns(w, FALSE) /\ UNCHANGED systems

Call(w) ==
    /\ At(w, "executing")
    /\ CallNothing(w) \/ CallSystem(w)
    /\ UNCHANGED crashes

\* The operator's requests carry no key.
Interfere ==
    /\ \E request1 \in Sabotage :
        LET answer == Handle(systems, request1, NoKey)
        IN  answer.systems # systems /\ systems' = answer.systems
    /\ UNCHANGED <<vars, crashes>>

Die(w) ==
    /\ crashes < MaxCrash
    /\ crashes' = crashes + 1
    /\ Crash(w)
    /\ UNCHANGED systems

\* Everything else leaves the systems alone.
Inside(A) == A /\ UNCHANGED <<systems, crashes>>

WorkerGoesOn(w) == Call(w) \/ Inside(Bookkeeping(w))

ReaperGoesOn(t) == Inside(Reap(t) \/ ReapPoisoned(t))

ProvisioningNext ==
    \/ Inside(StartRun)
    \/ \E w \in Worker : WorkerGoesOn(w) \/ Inside(Heartbeat(w)) \/ Die(w)
    \/ \E t \in Pk : Inside(TimerDue(t) \/ LeaseLapses(t)) \/ ReaperGoesOn(t)
    \/ Inside(AnnounceRecovery)
    \/ Interfere

ProvisioningSpec == ProvisioningInit /\ [][ProvisioningNext]_provisioningVars

\* What goes on by itself: a run that was asked for, the loops of the workers and
\* of the reaper, time.
GoesOn ==
    \/ Inside(StartRun)
    \/ \E w \in Worker : WorkerGoesOn(w)
    \/ \E t \in Pk :
        \/ Inside(TimerDue(t))
        \/ Queue!Orphaned(t) /\ Inside(LeaseLapses(t))
        \/ ReaperGoesOn(t)
    \/ Inside(AnnounceRecovery)

\* Less than module Engine assumes: while anything can go on, something does.
ProvisioningFairness == WF_provisioningVars(GoesOn)

FairProvisioning == ProvisioningSpec /\ ProvisioningFairness

------------------------------------------------------------------------------
(* Properties.                                                             *)

\* What a step is there to bring about.
InEffect(s) ==
    LET route == Workflow[s].call
    IN  CASE route \in CompanyRoute ->
                \E store \in Store : /\ Enrols(store, route)
                                     /\ Target \in systems.company[store]
          [] route = "drain" -> systems.nodes[Target].drained
          [] route = "upgrade" -> systems.nodes[Target].version = "7.1"
          [] OTHER -> FALSE

\* A step the log shows as compensated is no longer in effect out there, whoever
\* carried it out, and however often (worker._run_compensation, HttpPlugin).
UndoneIsGone == \A s \in Step : ctx.steps[s].compensated => ~InEffect(s)

\* No delivery of a step's request can have been repeated without need: no worker
\* died, and no answer got lost.
TakenAtItsWord(s) == crashes = 0 /\ "lost answer" \notin Trouble[Do(s)]

\* The log tells the truth about the systems: a step that has succeeded, and
\* that nobody is about to undo, is in effect; one that has been undone or was
\* never scheduled is not, and neither is one that has failed for good, if it can
\* be taken at its word.  So a hire payroll refuses is in none of the company's
\* systems once the run has ended (seed_joiner: "turns a half-onboarded person
\* into no person at all").  For workflows in which no step takes back what
\* another does, as return_to_service does.
LogTellsTruth ==
    /\ UndoneIsGone
    /\ \A s \in Step :
        /\ Workflow[s].call # NoRoute /\ s \in Succeeded /\ Rowless(Undo(s)) => InEffect(s)
        /\ Rowless(Do(s)) => ~InEffect(s)
        /\ /\ TakenAtItsWord(s)
           /\ ctx.steps[s].status = "FAILED" /\ Custodians(Do(s)) = 0
           => ~InEffect(s)
==============================================================================
