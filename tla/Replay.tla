-------------------------------- MODULE Replay --------------------------------
(***************************************************************************)
(* engine/replay.py: the context of a run as a pure fold over its event    *)
(* log, and the questions the engine asks of it.  A workflow definition is *)
(* a constant: definitions are immutable and validated before they are     *)
(* stored.  Inputs, outputs and error texts are left out; nothing below    *)
(* depends on them.                                                        *)
(***************************************************************************)
EXTENDS Naturals, SequencesExt

CONSTANTS
    Step,               \* the steps of the workflow
    Needs,              \* the steps each step needs
    OnError,            \* on_error of each step
    Compensable,        \* the steps that declare a compensate block
    NoStep              \* the step_id of events about the run

\* validate_spec refuses a definition without steps.
ASSUME StepAssumption == Step # {}

ASSUME NeedsAssumption == Needs \in [Step -> SUBSET Step]

\* validate_spec refuses a definition whose dependencies form a cycle.
ASSUME AcyclicAssumption ==
    \A S \in (SUBSET Step) \ {{}} : \E s \in S : Needs[s] \cap S = {}

ASSUME OnErrorAssumption == OnError \in [Step -> {"fail", "compensate", "continue"}]
ASSUME CompensableAssumption == Compensable \subseteq Step
ASSUME NoStepAssumption == NoStep \notin Step

StepStatus == {"PENDING", "SCHEDULED", "RUNNING", "SUCCEEDED", "FAILED",
               "RETRY_SCHEDULED", "WAITING", "COMPENSATED"}

TerminalRunStates == {"SUCCEEDED", "FAILED", "CANCELLED"}

RunState == {"PENDING", "RUNNING", "WAITING", "COMPENSATING"} \cup TerminalRunStates

StepSlot == [status             : StepStatus,
             compensated        : BOOLEAN,
             compensationFailed : BOOLEAN,
             approvalRequested  : BOOLEAN,
             approved           : BOOLEAN]

NewContext ==
    [status       |-> "PENDING",
     compensating |-> FALSE,
     order        |-> <<>>,         \* completion_order
     steps        |-> [s \in Step |->
         [status |-> "PENDING", compensated |-> FALSE, compensationFailed |-> FALSE,
          approvalRequested |-> FALSE, approved |-> FALSE]]]

\* What an event of a given type makes of the status of its step ...
StepStatusAfter ==
    [STEP_SCHEDULED |-> "SCHEDULED", STEP_STARTED |-> "RUNNING",
     STEP_SUCCEEDED |-> "SUCCEEDED", STEP_FAILED |-> "FAILED",
     STEP_RETRY_SCHEDULED |-> "RETRY_SCHEDULED",
     TIMER_SET |-> "WAITING", TIMER_FIRED |-> "SCHEDULED",
     APPROVAL_REQUESTED |-> "WAITING", APPROVAL_DENIED |-> "FAILED",
     STEP_COMPENSATED |-> "COMPENSATED"]

\* Mutant: a step that starts marks its run as running.
RunStatusAfterAnyStart ==
    [RUN_STARTED |-> "RUNNING", COMPENSATION_STARTED |-> "COMPENSATING",
     STEP_STARTED |-> "RUNNING", RUN_SUCCEEDED |-> "SUCCEEDED",
     RUN_FAILED |-> "FAILED", RUN_CANCELLED |-> "CANCELLED"]

\* ... and of the status of the run.
RunStatusAfter ==
    [RUN_STARTED |-> "RUNNING", COMPENSATION_STARTED |-> "COMPENSATING",
     RUN_SUCCEEDED |-> "SUCCEEDED", RUN_FAILED |-> "FAILED",
     RUN_CANCELLED |-> "CANCELLED"]

ApplyToSlot(slot, type) ==
    [slot EXCEPT
        !.status = IF type \in DOMAIN StepStatusAfter THEN StepStatusAfter[type] ELSE @,
        !.compensated = @ \/ type = "STEP_COMPENSATED",
        !.compensationFailed = @ \/ type = "COMPENSATION_FAILED",
        !.approvalRequested = @ \/ type = "APPROVAL_REQUESTED",
        !.approved = (@ \/ type = "APPROVAL_GRANTED") /\ type # "APPROVAL_DENIED"]

Event(type, s) == [type |-> type, step |-> s]

\* apply_event.
ApplyEvent(c, event) ==
    [status |->
        IF event.type \in DOMAIN RunStatusAfter THEN RunStatusAfter[event.type]
                                                ELSE c.status,
     compensating |-> c.compensating \/ event.type = "COMPENSATION_STARTED",
     order |->
        IF event.type = "STEP_SUCCEEDED" /\ ~Contains(c.order, event.step)
        THEN Append(c.order, event.step) ELSE c.order,
     steps |->
        [s \in Step |-> IF s = event.step THEN ApplyToSlot(c.steps[s], event.type)
                                          ELSE c.steps[s]]]

\* replay, from a context on: the events are applied in the order of the log.
ApplyEvents(c, events) == FoldLeft(ApplyEvent, c, events)

------------------------------------------------------------------------------
StepsWithStatus(c, status) == {s \in Step : c.steps[s].status = status}

\* Mutant: one dependency is enough.
ReadyOnAnyNeed(c) ==
    {s \in StepsWithStatus(c, "PENDING") :
        /\ ~c.compensating
        /\ c.status \notin TerminalRunStates
        /\ Needs[s] \cap StepsWithStatus(c, "SUCCEEDED") # {} \/ Needs[s] = {}}

\* Mutant: a run that has ended is not told from one that goes on.
ReadyAfterEnd(c) ==
    {s \in StepsWithStatus(c, "PENDING") :
        ~c.compensating /\ Needs[s] \subseteq StepsWithStatus(c, "SUCCEEDED")}

\* A step is ready when it has never been claimed and all it needs has
\* SUCCEEDED; nothing is ready once the run unwinds or has ended.
ReadySteps(c) ==
    {s \in StepsWithStatus(c, "PENDING") :
        /\ ~c.compensating
        /\ c.status \notin TerminalRunStates
        /\ Needs[s] \subseteq StepsWithStatus(c, "SUCCEEDED")}

\* Mutant: an undo that was given up is still to be done.
ToRollBackUntilDone(c) ==
    {i \in DOMAIN c.order : /\ c.order[i] \in Compensable
                            /\ ~c.steps[c.order[i]].compensated}

\* The completions of steps that are still to be rolled back.
ToRollBack(c) ==
    {i \in DOMAIN c.order : /\ c.order[i] \in Compensable
                            /\ ~c.steps[c.order[i]].compensated
                            /\ ~c.steps[c.order[i]].compensationFailed}

\* Mutant: in order of completion, not in reverse.
CompensationForward(c) ==
    LET completions == ToRollBack(c)
        Kth(k) == CHOOSE i \in completions :
                      Cardinality({j \in completions : j < i}) = k - 1
    IN  [k \in 1..Cardinality(completions) |-> c.order[Kth(k)]]

\* Steps to roll back, latest success first.
CompensationOrder(c) ==
    LET completions == ToRollBack(c)
        Kth(k) == CHOOSE i \in completions :
                      Cardinality({j \in completions : j > i}) = k - 1
    IN  [k \in 1..Cardinality(completions) |-> c.order[Kth(k)]]

IsComplete(c) == StepsWithStatus(c, "SUCCEEDED") = Step

FailedSteps(c) == {s \in StepsWithStatus(c, "FAILED") : OnError[s] # "continue"}

NextRunState(c) ==
    IF c.status \in TerminalRunStates THEN c.status
    ELSE IF c.compensating
         THEN IF CompensationOrder(c) # <<>> THEN "COMPENSATING" ELSE "FAILED"
    ELSE IF FailedSteps(c) # {} THEN "FAILED"
    ELSE IF IsComplete(c) THEN "SUCCEEDED"
    ELSE IF /\ StepsWithStatus(c, "WAITING") # {}
            /\ StepsWithStatus(c, "RUNNING") = {}
         THEN "WAITING"
    ELSE "RUNNING"

\* Mutant: only success is recorded.
CloseOnSuccess(seen, c) ==
    IF NextRunState(seen) = "SUCCEEDED" /\ seen.status # "SUCCEEDED"
    THEN ApplyEvent(c, Event("RUN_SUCCEEDED", NoStep))
    ELSE c

\* close_run_if_finished (engine/service.py): the terminal event, if one is due.
\* `seen' is the context the decision is made on, `c' the one it is applied to.
CloseIfFinished(seen, c) ==
    LET state == NextRunState(seen)
    IN  IF state = "SUCCEEDED" /\ seen.status # "SUCCEEDED"
        THEN ApplyEvent(c, Event("RUN_SUCCEEDED", NoStep))
        ELSE IF state = "FAILED" /\ seen.status # "FAILED"
        THEN ApplyEvent(c, Event("RUN_FAILED", NoStep))
        ELSE c

Context == [status : RunState, compensating : BOOLEAN,
            order : Seq(Step), steps : [Step -> StepSlot]]
==============================================================================
