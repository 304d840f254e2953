----------------------------- MODULE EngineProofs -----------------------------
(***************************************************************************)
(* A run uses the task queue as module TaskQueue says it may be used, for  *)
(* every workflow, every number of workers and requests, every fault and   *)
(* every bound: each action of Engine is an action of TaskQueue or leaves  *)
(* the queue alone. So what TaskQueueProofs proves of the queue holds of   *)
(* the rows of a run. The first part are lemmas about the operators of     *)
(* module Replay, event by event, which the proofs about a run rest on;    *)
(* then comes what a run never does; and the last part is about custody:   *)
(* who is in charge of a step or of an undo - a row that is still to be    *)
(* worked on, or a worker about to record an outcome - and that it is one  *)
(* of them. From that follows that what has succeeded stays so.            *)
(***************************************************************************)
EXTENDS Engine, FiniteSetTheorems, SequenceTheorems, NaturalsInduction,
        WellFoundedInduction, TLAPS

------------------------------------------------------------------------------
(* The order of completion.                                                *)

\* A log holds what it held, and the step of an event that succeeded.
LEMMA RangeOfAppend ==
    ASSUME NEW q \in Seq(Step), NEW s \in Step
    PROVE  /\ Append(q, s) \in Seq(Step)
           /\ Range(Append(q, s)) = Range(q) \cup {s}
<1>1. /\ Append(q, s) \in Seq(Step)
      /\ Len(Append(q, s)) = Len(q) + 1
      /\ \A i \in 1..Len(q) : Append(q, s)[i] = q[i]
      /\ Append(q, s)[Len(q) + 1] = s
  BY AppendProperties
<1>2. /\ DOMAIN q = 1..Len(q) /\ Len(q) \in Nat
      /\ DOMAIN Append(q, s) = 1..(Len(q) + 1)
  BY <1>1
<1>3. ASSUME NEW x \in Range(Append(q, s)) PROVE x \in Range(q) \cup {s}
  <2>1. PICK i \in 1..(Len(q) + 1) : x = Append(q, s)[i]
    BY <1>2 DEF Range
  <2>2. CASE i = Len(q) + 1
    BY <1>1, <2>1, <2>2
  <2>3. CASE i \in 1..Len(q)
    BY <1>1, <1>2, <2>1, <2>3 DEF Range
  <2> QED
    BY <1>2, <2>2, <2>3
<1>4. ASSUME NEW x \in Range(q) PROVE x \in Range(Append(q, s))
  <2>1. PICK i \in 1..Len(q) : x = q[i]
    BY <1>2 DEF Range
  <2>2. i \in 1..(Len(q) + 1) /\ Append(q, s)[i] = x
    BY <1>1, <1>2, <2>1
  <2> QED
    BY <1>2, <2>2 DEF Range
<1>5. s \in Range(Append(q, s))
  <2>1. Len(q) + 1 \in 1..(Len(q) + 1)
    BY <1>2
  <2> QED
    BY <1>1, <1>2, <2>1 DEF Range
<1> QED
  BY <1>1, <1>3, <1>4, <1>5

LEMMA RangeOfOrder ==
    ASSUME NEW q \in Seq(Step)
    PROVE  Range(q) \subseteq Step
BY DEF Range

LEMMA ContainsIsRange ==
    ASSUME NEW q \in Seq(Step), NEW s
    PROVE  Contains(q, s) <=> s \in Range(q)
BY DEF Contains, Range

------------------------------------------------------------------------------
(* Events.                                                                 *)

\* An event leaves a step with a status other than PENDING, or as it was.
LEMMA SlotAfter ==
    ASSUME NEW slot \in StepSlot, NEW type
    PROVE  /\ ApplyToSlot(slot, type) \in StepSlot
           /\ \/ ApplyToSlot(slot, type).status = slot.status
              \/ ApplyToSlot(slot, type).status \in StepStatus \ {"PENDING"}
           /\ ApplyToSlot(slot, type).status = "SUCCEEDED" =>
                slot.status = "SUCCEEDED" \/ type = "STEP_SUCCEEDED"
           /\ ApplyToSlot(slot, type).status = "FAILED" =>
                slot.status = "FAILED" \/ type \in {"STEP_FAILED", "APPROVAL_DENIED"}
<1>1. DOMAIN StepStatusAfter =
        {"STEP_SCHEDULED", "STEP_STARTED", "STEP_SUCCEEDED", "STEP_FAILED",
         "STEP_RETRY_SCHEDULED", "TIMER_SET", "TIMER_FIRED", "APPROVAL_REQUESTED",
         "APPROVAL_DENIED", "STEP_COMPENSATED"}
  BY DEF StepStatusAfter
<1>2. \A t \in DOMAIN StepStatusAfter :
        /\ StepStatusAfter[t] \in StepStatus \ {"PENDING"}
        /\ StepStatusAfter[t] = "SUCCEEDED" => t = "STEP_SUCCEEDED"
        /\ StepStatusAfter[t] = "FAILED" => t \in {"STEP_FAILED", "APPROVAL_DENIED"}
  BY <1>1 DEF StepStatusAfter, StepStatus
<1> DEFINE after == ApplyToSlot(slot, type)
<1>3. after \in StepSlot
  BY <1>2 DEF ApplyToSlot, StepSlot
<1>4. after.status = IF type \in DOMAIN StepStatusAfter THEN StepStatusAfter[type]
                                                       ELSE slot.status
  BY DEF ApplyToSlot, StepSlot
<1> QED
  BY <1>2, <1>3, <1>4

\* What an event does to the marks of its step.
LEMMA MarksAfter ==
    ASSUME NEW slot \in StepSlot, NEW type
    PROVE  LET after == ApplyToSlot(slot, type)
           IN  /\ after.compensated <=> slot.compensated \/ type = "STEP_COMPENSATED"
               /\ after.compensationFailed <=>
                    slot.compensationFailed \/ type = "COMPENSATION_FAILED"
               /\ after.approvalRequested <=>
                    slot.approvalRequested \/ type = "APPROVAL_REQUESTED"
               /\ after.approved <=>
                    (slot.approved \/ type = "APPROVAL_GRANTED") /\ type # "APPROVAL_DENIED"
BY DEF ApplyToSlot, StepSlot

\* Which events change the run.
LEMMA RunEvents ==
    ASSUME NEW type \in DOMAIN RunStatusAfter
    PROVE  /\ RunStatusAfter[type] \in RunState \ {"PENDING"}
           /\ type \in {"RUN_STARTED", "COMPENSATION_STARTED", "RUN_SUCCEEDED",
                        "RUN_FAILED", "RUN_CANCELLED"}
           /\ RunStatusAfter.RUN_STARTED = "RUNNING"
           /\ RunStatusAfter.COMPENSATION_STARTED = "COMPENSATING"
           /\ RunStatusAfter.RUN_SUCCEEDED = "SUCCEEDED"
           /\ RunStatusAfter.RUN_FAILED = "FAILED"
BY DEF RunStatusAfter, RunState, TerminalRunStates

\* The types of the events that are about a step.
StepEvent == {"STEP_SCHEDULED", "STEP_STARTED", "STEP_SUCCEEDED", "STEP_FAILED",
              "STEP_RETRY_SCHEDULED", "TIMER_SET", "TIMER_FIRED", "APPROVAL_REQUESTED",
              "APPROVAL_GRANTED", "APPROVAL_DENIED", "STEP_COMPENSATED",
              "COMPENSATION_FAILED"}

\* An event about a step changes that step alone, and does not change the run.
LEMMA AfterStepEvent ==
    ASSUME NEW c \in Context, NEW s \in Step, NEW type \in StepEvent
    PROVE  LET d == ApplyEvent(c, Event(type, s))
           IN  /\ d \in Context
               /\ d.status = c.status
               /\ d.compensating = c.compensating
               /\ d.steps[s] = ApplyToSlot(c.steps[s], type)
               /\ \A r \in Step \ {s} : d.steps[r] = c.steps[r]
               /\ Range(d.order) =
                    Range(c.order) \cup (IF type = "STEP_SUCCEEDED" THEN {s} ELSE {})
               /\ type # "STEP_SUCCEEDED" => d.order = c.order
<1> DEFINE d == ApplyEvent(c, Event(type, s))
<1>1. type \notin DOMAIN RunStatusAfter /\ type # "COMPENSATION_STARTED"
  BY DEF StepEvent, RunStatusAfter
<1>2. /\ c.status \in RunState /\ c.compensating \in BOOLEAN
      /\ c.order \in Seq(Step) /\ c.steps \in [Step -> StepSlot]
  BY DEF Context
<1>3. /\ d.status = c.status
      /\ d.compensating = c.compensating
      /\ d.steps = [r \in Step |-> IF r = s THEN ApplyToSlot(c.steps[r], type)
                                            ELSE c.steps[r]]
      /\ d.order = IF type = "STEP_SUCCEEDED" /\ ~Contains(c.order, s)
                   THEN Append(c.order, s) ELSE c.order
  BY <1>1, <1>2 DEF ApplyEvent, Event
<1>4. d = [status |-> d.status, compensating |-> d.compensating,
           order |-> d.order, steps |-> d.steps]
  BY DEF ApplyEvent
<1>5. /\ d.order \in Seq(Step)
      /\ Range(d.order) =
            Range(c.order) \cup (IF type = "STEP_SUCCEEDED" THEN {s} ELSE {})
      /\ type # "STEP_SUCCEEDED" => d.order = c.order
  BY <1>2, <1>3, RangeOfAppend, ContainsIsRange
<1>6. d.steps \in [Step -> StepSlot]
  BY <1>2, <1>3, SlotAfter
<1>7. d \in Context
  BY <1>2, <1>3, <1>4, <1>5, <1>6 DEF Context
<1> QED
  BY <1>2, <1>3, <1>5, <1>7

\* An event about the run leaves every step as it was.
LEMMA SlotAfterRunEvent ==
    ASSUME NEW slot \in StepSlot, NEW type \in DOMAIN RunStatusAfter
    PROVE  ApplyToSlot(slot, type) = slot
<1>1. type \notin DOMAIN StepStatusAfter
  BY RunEvents DEF StepStatusAfter
<1>2. type \notin {"STEP_COMPENSATED", "COMPENSATION_FAILED", "APPROVAL_REQUESTED",
                   "APPROVAL_GRANTED", "APPROVAL_DENIED"}
  BY RunEvents
<1> QED
  BY <1>1, <1>2 DEF ApplyToSlot, StepSlot

\* An event about the run changes its status and nothing about its steps.
LEMMA AfterRunEvent ==
    ASSUME NEW c \in Context, NEW type \in DOMAIN RunStatusAfter,
           NEW s \in Step \cup {NoStep}
    PROVE  LET d == ApplyEvent(c, Event(type, s))
           IN  /\ d \in Context
               /\ d.status = RunStatusAfter[type]
               /\ d.compensating = (c.compensating \/ type = "COMPENSATION_STARTED")
               /\ d.steps = c.steps
               /\ d.order = c.order
<1> DEFINE d == ApplyEvent(c, Event(type, s))
<1>1. type # "STEP_SUCCEEDED" /\ RunStatusAfter[type] \in RunState
  BY RunEvents
<1>2. /\ c.compensating \in BOOLEAN
      /\ c.order \in Seq(Step) /\ c.steps \in [Step -> StepSlot]
  BY DEF Context
<1>3. /\ d.status = RunStatusAfter[type]
      /\ d.compensating = (c.compensating \/ type = "COMPENSATION_STARTED")
      /\ d.steps = [r \in Step |-> IF r = s THEN ApplyToSlot(c.steps[r], type)
                                            ELSE c.steps[r]]
      /\ d.order = c.order
  BY <1>1 DEF ApplyEvent, Event
<1>4. d = [status |-> d.status, compensating |-> d.compensating,
           order |-> d.order, steps |-> d.steps]
  BY DEF ApplyEvent
<1>5. d.steps = c.steps
  BY <1>2, <1>3, SlotAfterRunEvent
<1>6. d \in Context
  BY <1>1, <1>2, <1>3, <1>4, <1>5 DEF Context
<1> QED
  BY <1>3, <1>5, <1>6

------------------------------------------------------------------------------
(* The questions the engine asks.                                          *)

\* A nonempty set of natural numbers has a least element, ...
LEMMA LeastOf ==
    ASSUME NEW S \in SUBSET Nat, S # {}
    PROVE  \E x \in S : \A y \in S : x <= y
<1> DEFINE less == {xy \in Nat \X Nat : xy[1] < xy[2]}
<1>1. IsWellFoundedOn(less, Nat)
  BY NatLessThanWellFounded DEF OpToRel
<1>2. \A x, y \in Nat : y < x => <<y, x>> \in less
  OBVIOUS
<1> HIDE DEF less
<1>3. PICK x \in S : \A y \in S : ~(<<y, x>> \in less)
  BY <1>1, WFMin, Zenon
<1>4. \A y \in S : ~(y < x)
  BY <1>2, <1>3
<1> QED
  BY <1>4

\* ... and a greatest one if it is finite: a smallest set without one would not be
\* a singleton, and without one of its elements it would have one.
LEMMA GreatestOf ==
    ASSUME NEW S \in SUBSET Nat, S # {}, IsFiniteSet(S)
    PROVE  \E m \in S : \A i \in S : i <= m
<1> DEFINE Topped(T) == \E m \in T : \A i \in T : i <= m
           Open == {T \in SUBSET S : T # {} /\ ~Topped(T)}
           sizes == {Cardinality(T) : T \in Open}
<1>1. SUFFICES ASSUME ~Topped(S) PROVE FALSE
  OBVIOUS
<1>2. \A T \in Open : IsFiniteSet(T) /\ Cardinality(T) \in Nat
  BY FS_Subset, FS_CardinalityType
<1>3. S \in Open
  BY <1>1
<1> HIDE DEF Open
<1>4. sizes \in SUBSET Nat /\ sizes # {}
  BY <1>2, <1>3
<1>5. PICK k \in sizes : \A j \in sizes : k <= j
  BY <1>4, LeastOf
<1>6. PICK T \in Open : k = Cardinality(T)
  OBVIOUS
<1>7. T \in SUBSET S /\ T # {} /\ ~Topped(T)
  BY DEF Open
<1>8. PICK x \in T : TRUE
  BY <1>7
<1> DEFINE rest == T \ {x}
<1>9. Cardinality(rest) = Cardinality(T) - 1
  BY <1>2, FS_RemoveElement
<1>10. rest \notin Open
  <2>1. SUFFICES ASSUME rest \in Open PROVE FALSE
    OBVIOUS
  <2>2. Cardinality(rest) \in sizes
    BY <2>1
  <2>3. Cardinality(T) <= Cardinality(T) - 1
    BY <1>5, <1>6, <1>9, <2>2
  <2>4. Cardinality(T) \in Nat
    BY <1>2
  <2> QED
    BY <2>3, <2>4
<1>11. CASE rest = {}
  <2>1. T = {x} /\ x \in Nat
    BY <1>7, <1>11
  <2> QED
    BY <1>7, <2>1
<1>12. CASE rest # {}
  <2>1. Topped(rest)
    BY <1>7, <1>10, <1>12 DEF Open
  <2>2. PICK m \in rest : \A i \in rest : i <= m
    BY <2>1
  <2>3. m \in Nat /\ x \in Nat /\ m \in T
    BY <1>7
  <2>4. CASE x <= m
    BY <1>7, <2>2, <2>3, <2>4
  <2>5. CASE m < x
    <3>1. \A i \in T : i <= x
      BY <1>7, <2>2, <2>3, <2>5
    <3> QED
      BY <1>7, <3>1
  <2> QED
    BY <2>3, <2>4, <2>5
<1> QED
  BY <1>11, <1>12

\* The compensation order begins with the latest completion that is still to be rolled
\* back, and is empty when there is none.
LEMMA CompensationHead ==
    ASSUME NEW c \in Context
    PROVE  /\ ToRollBack(c) = {} => CompensationOrder(c) = <<>>
           /\ ToRollBack(c) # {} =>
                /\ CompensationOrder(c) # <<>>
                /\ \E m \in ToRollBack(c) :
                    /\ Head(CompensationOrder(c)) = c.order[m]
                    /\ \A i \in ToRollBack(c) : i <= m
<1> DEFINE idx == ToRollBack(c)
           Kth(k) == CHOOSE i \in idx : Cardinality({j \in idx : j > i}) = k - 1
           undo == [k \in 1..Cardinality(idx) |-> c.order[Kth(k)]]
<1>1. CompensationOrder(c) = undo
  BY DEF CompensationOrder
<1>2. Len(c.order) \in Nat /\ DOMAIN c.order = 1..Len(c.order)
  BY DEF Context
<1>3. idx \subseteq 1..Len(c.order)
  BY <1>2 DEF ToRollBack
<1>4. IsFiniteSet(idx) /\ Cardinality(idx) \in Nat
  <2>1. IsFiniteSet(1..Len(c.order))
    BY <1>2, FS_Interval
  <2> HIDE DEF idx
  <2>2. IsFiniteSet(idx)
    BY <1>3, <2>1, FS_Subset
  <2> QED
    BY <2>2, FS_CardinalityType
<1>5. ASSUME idx = {} PROVE undo = <<>>
  <2>1. Cardinality(idx) = 0
    BY <1>5, FS_EmptySet
  <2>2. 1..Cardinality(idx) = {}
    BY <2>1
  <2>3. undo \in [{} -> Step] /\ <<>> \in [{} -> Step]
    BY <2>2
  <2> QED
    BY <2>3
<1>6. ASSUME idx # {}
      PROVE  /\ undo # <<>>
             /\ \E m \in idx : Head(undo) = c.order[m] /\ \A i \in idx : i <= m
  <2>1. PICK m \in idx : \A i \in idx : i <= m
    BY <1>3, <1>4, <1>6, GreatestOf
  <2>2. {j \in idx : j > m} = {}
    BY <1>2, <1>3, <2>1
  <2>3. Cardinality({j \in idx : j > m}) = 1 - 1
    BY <2>2, FS_EmptySet
  <2>4. Kth(1) \in idx /\ Cardinality({j \in idx : j > Kth(1)}) = 1 - 1
    BY <2>3
  <2>5. {j \in idx : j > Kth(1)} = {}
    <3> DEFINE above == {j \in idx : j > Kth(1)}
    <3>1. above \subseteq idx
      OBVIOUS
    <3>2. Cardinality(above) = 0
      BY <2>4
    <3> HIDE DEF above, idx, Kth
    <3>3. IsFiniteSet(above)
      BY <1>4, <3>1, FS_Subset
    <3>4. above = {}
      BY <3>2, <3>3, FS_EmptySet
    <3> QED
      BY <3>4 DEF above
  <2>6. \A i \in idx : i <= Kth(1)
    <3> HIDE DEF Kth
    <3> QED
      BY <1>2, <1>3, <2>4, <2>5
  <2>7. Cardinality(idx) # 0
    BY <1>4, <1>6, FS_EmptySet
  <2>8. 1 \in 1..Cardinality(idx)
    BY <1>4, <2>7
  <2>9. Head(undo) = undo[1]
    OBVIOUS
  <2>10. undo[1] = c.order[Kth(1)]
    BY <2>8
  <2>11. undo # <<>>
    BY <2>8
  <2> HIDE DEF Kth
  <2> QED
    BY <2>4, <2>6, <2>9, <2>10, <2>11
<1> QED
  BY <1>1, <1>5, <1>6

\* Its first step, when there is one, has succeeded.
LEMMA HeadOfCompensation ==
    ASSUME NEW c \in Context, CompensationOrder(c) # <<>>
    PROVE  Head(CompensationOrder(c)) \in Range(c.order)
BY CompensationHead DEF ToRollBack, Range

\* What decides on the compensation order, and on it alone.
LEMMA SameCompensation ==
    ASSUME NEW c \in Context, NEW d \in Context,
           d.order = c.order,
           \A s \in Step : /\ d.steps[s].compensated = c.steps[s].compensated
                           /\ d.steps[s].compensationFailed = c.steps[s].compensationFailed
    PROVE  CompensationOrder(d) = CompensationOrder(c)
<1>1. c.order \in Seq(Step) /\ \A i \in DOMAIN c.order : c.order[i] \in Step
  BY DEF Context
<1>2. ToRollBack(d) = ToRollBack(c)
  BY <1>1 DEF ToRollBack
<1> QED
  BY <1>2 DEF CompensationOrder

\* next_run_state answers with a state of a run, and tells neither a run that has
\* not started nor, by itself, one that was cancelled.
LEMMA NextRunStateTyped ==
    ASSUME NEW c \in Context
    PROVE  /\ NextRunState(c) \in RunState \ {"PENDING"}
           /\ c.status \in TerminalRunStates => NextRunState(c) = c.status
           /\ c.status \notin TerminalRunStates => NextRunState(c) # "CANCELLED"
           /\ c.status \notin TerminalRunStates /\ c.compensating =>
                NextRunState(c) \in {"COMPENSATING", "FAILED"}
BY DEF Context, NextRunState, RunState, TerminalRunStates

\* Whatever leaves the status of the run, its compensation order and the set of
\* failed steps as they are, and completes nothing, does not make the end due.
LEMMA SameVerdict ==
    ASSUME NEW c \in Context, NEW d \in Context,
           d.status = c.status, d.compensating = c.compensating,
           CompensationOrder(d) = CompensationOrder(c),
           StepsWithStatus(d, "FAILED") \subseteq StepsWithStatus(c, "FAILED"),
           IsComplete(d) => IsComplete(c),
           NextRunState(c) \notin TerminalRunStates
    PROVE  NextRunState(d) \notin TerminalRunStates
<1>1. c.status \notin TerminalRunStates
  BY NextRunStateTyped
<1>2. FailedSteps(d) \subseteq FailedSteps(c)
  BY DEF FailedSteps
<1>3. CASE c.compensating
  BY <1>1, <1>3 DEF NextRunState
<1>4. CASE ~c.compensating
  <2>1. FailedSteps(c) = {} /\ ~IsComplete(c)
    BY <1>1, <1>4 DEF NextRunState, TerminalRunStates
  <2>2. FailedSteps(d) = {} /\ ~IsComplete(d)
    BY <1>2, <2>1
  <2>3. NextRunState(d) \in {"WAITING", "RUNNING"}
    BY <1>1, <1>4, <2>2 DEF NextRunState
  <2> QED
    BY <2>3 DEF TerminalRunStates
<1> QED
  BY <1>3, <1>4

\* close_run_if_finished appends the end if it is due and has not been recorded,
\* and changes nothing but the status of the run.
LEMMA Closed ==
    ASSUME NEW seen \in Context, NEW c \in Context, c.status = seen.status
    PROVE  LET d == CloseIfFinished(seen, c)
           IN  /\ d \in Context
               /\ d.steps = c.steps
               /\ d.order = c.order
               /\ d.compensating = c.compensating
               /\ \/ d.status = c.status
                  \/ /\ c.status \notin TerminalRunStates
                     /\ d.status = NextRunState(seen)
                     /\ d.status \in {"SUCCEEDED", "FAILED"}
               /\ d.status \notin TerminalRunStates => NextRunState(seen) \notin TerminalRunStates
<1> DEFINE state == NextRunState(seen)
           d == CloseIfFinished(seen, c)
<1>0. c.compensating \in BOOLEAN
  BY DEF Context
<1>1. /\ "RUN_SUCCEEDED" \in DOMAIN RunStatusAfter /\ RunStatusAfter["RUN_SUCCEEDED"] = "SUCCEEDED"
      /\ "RUN_FAILED" \in DOMAIN RunStatusAfter /\ RunStatusAfter["RUN_FAILED"] = "FAILED"
  BY DEF RunStatusAfter
<1>2. CASE state = "SUCCEEDED" /\ seen.status # "SUCCEEDED"
  <2>1. d = ApplyEvent(c, Event("RUN_SUCCEEDED", NoStep))
    BY <1>2 DEF CloseIfFinished
  <2>2. c.status \notin TerminalRunStates
    BY <1>2, NextRunStateTyped
  <2> QED
    BY <1>0, <1>1, <1>2, <2>1, <2>2, AfterRunEvent DEF TerminalRunStates
<1>3. CASE state = "FAILED" /\ seen.status # "FAILED"
  <2>1. d = ApplyEvent(c, Event("RUN_FAILED", NoStep))
    BY <1>3 DEF CloseIfFinished
  <2>2. c.status \notin TerminalRunStates
    BY <1>3, NextRunStateTyped
  <2> QED
    BY <1>0, <1>1, <1>3, <2>1, <2>2, AfterRunEvent DEF TerminalRunStates
<1>4. CASE /\ ~(state = "SUCCEEDED" /\ seen.status # "SUCCEEDED")
           /\ ~(state = "FAILED" /\ seen.status # "FAILED")
  <2>1. d = c
    BY <1>4 DEF CloseIfFinished
  <2>2. seen.status \notin TerminalRunStates => state \notin TerminalRunStates
    BY <1>4, NextRunStateTyped DEF TerminalRunStates
  <2> QED
    BY <2>1, <2>2
<1> QED
  BY <1>2, <1>3, <1>4

------------------------------------------------------------------------------
(* Rows and keys.                                                          *)

LEMMA SlotOfTyped ==
    /\ SlotOf \in [Pk -> Slot]
    /\ \A t \in Pk : SlotOf[t] = t[1] /\ t = <<t[1], t[2]>> /\ t[2] \in 1..MaxAttempt
    /\ \A slot \in Slot : /\ slot = <<slot[1], slot[2]>> /\ slot[1] \in Step
                          /\ slot[2] \in {"EXECUTE", "COMPENSATE"}
    /\ \A s \in Step : Do(s) \in Slot /\ Undo(s) \in Slot /\ Do(s) # Undo(s)
BY DEF SlotOf, Pk, Slot, Do, Undo

\* A function on a finite set takes finitely many values.
LEMMA FiniteRange ==
    ASSUME NEW f, f = [x \in DOMAIN f |-> f[x]], IsFiniteSet(DOMAIN f)
    PROVE  IsFiniteSet(Range(f))
<1>1. f \in Surjection(DOMAIN f, Range(f))
  BY DEF Surjection, Range
<1> QED
  BY <1>1, FS_Surjection

\* A slot has finitely many rows.
LEMMA RowsFinite ==
    ASSUME NEW slot
    PROVE  /\ IsFiniteSet(Rows(slot))
           /\ Cardinality(Rows(slot)) \in Nat
<1> DEFINE key == [i \in 1..MaxAttempt |-> <<slot, i>>]
<1>1. IsFiniteSet(1..MaxAttempt)
  BY BoundAssumption, FS_Interval
<1>2. IsFiniteSet(Range(key))
  BY <1>1, FiniteRange
<1>3. Rows(slot) \subseteq Range(key)
  BY SlotOfTyped DEF Rows, Range
<1> QED
  BY <1>2, <1>3, FS_Subset, FS_CardinalityType

\* While the bound allows it there is a primary key for one more row.
LEMMA FreeRowTyped ==
    ASSUME NEW slot \in Slot, Cardinality(Rows(slot)) < MaxAttempt
    PROVE  FreeRow(slot) \in Pk /\ SlotOf[FreeRow(slot)] = slot
<1> DEFINE n == Cardinality(Rows(slot))
<1>1. n \in Nat
  BY RowsFinite
<1> HIDE DEF n
<1>2. 1 + n \in 1..MaxAttempt
  BY <1>1, BoundAssumption DEF n
<1>3. <<slot, 1 + n>> \in Pk
  BY <1>2 DEF Pk
<1>4. SlotOf[<<slot, 1 + n>>] = slot
  BY <1>3 DEF SlotOf
<1>5. \E t \in Pk : SlotOf[t] = slot /\ t[2] = 1 + n
  BY <1>3, <1>4
<1> QED
  BY <1>5 DEF FreeRow, n

\* What a transaction asks enqueue_step for: rows of this run under positive
\* attempt numbers.
Orders(want) ==
    /\ DOMAIN want \subseteq Slot
    /\ \A slot \in DOMAIN want : want[slot] \in [attempt : Nat \ {0}, due : BOOLEAN]

\* enqueue_step inserts rows of the queue, of the slots that were asked for, and
\* changes none.
LEMMA EnqueueInserts ==
    ASSUME Queue!TypeOK, NEW want, Orders(want), Enqueue(want)
    PROVE  /\ Queue!Enqueue \/ UNCHANGED queueVars
           /\ UNCHANGED <<hand, lost, handed, outcomes>>
           /\ \A t \in Pk : Queue!Present(t) => task'[t] = task[t]
           /\ \A t \in Pk : Queue!Present(t)' => Queue!Present(t) \/ SlotOf[t] \in DOMAIN want
<1> DEFINE free == {slot \in DOMAIN want : ~Queue!KeyTaken(slot, want[slot].attempt)}
           new == {FreeRow(slot) : slot \in free}
           attempt == [t \in new |-> want[SlotOf[t]].attempt]
           due == [t \in new |-> want[SlotOf[t]].due]
<1>1. /\ \A slot \in free : /\ want[slot].attempt <= MaxAttempt
                            /\ Cardinality(Rows(slot)) < MaxAttempt
      /\ Queue!EnqueueSteps(new, attempt, due)
  BY DEF Enqueue
<1>2. \A slot \in free : slot \in Slot
  BY DEF Orders
<1>3. \A t \in new : t \in Pk /\ SlotOf[t] \in free
  BY <1>1, <1>2, FreeRowTyped
<1> HIDE DEF free, new
<1>4. \A slot \in free : /\ want[slot].attempt \in 1..MaxAttempt
                         /\ want[slot].due \in BOOLEAN
                         /\ slot \in DOMAIN want
  BY <1>1, BoundAssumption DEF Orders, free
<1>5. attempt \in [new -> 1..MaxAttempt] /\ due \in [new -> BOOLEAN]
  BY <1>3, <1>4
<1> HIDE DEF attempt, due
<1>6. /\ UNCHANGED <<hand, lost, handed, outcomes>>
      /\ task' = [t \in Pk |-> IF t \in new THEN Queue!ReadyRow(attempt[t], due[t])
                                           ELSE task[t]]
      /\ \A t \in new : ~Queue!Present(t)
  BY <1>1 DEF Queue!EnqueueSteps
<1>7. CASE new = {}
  <2>1. task \in [Pk -> Row \cup {NoRow}]
    BY DEF Queue!TypeOK, Queue!Row, Row, Queue!TaskStatus, TaskStatus
  <2>2. task' = task
    BY <1>6, <1>7, <2>1
  <2> QED
    BY <1>6, <2>2 DEF queueVars, Queue!Present
<1>8. CASE new # {}
  <2>1. new \in (SUBSET Pk) \ {{}}
    BY <1>3, <1>8
  <2>2. Queue!Enqueue
    BY <1>1, <1>5, <2>1 DEF Queue!Enqueue
  <2>3. \A t \in new : SlotOf[t] \in DOMAIN want
    BY <1>3, <1>4
  <2> QED
    BY <1>6, <2>2, <2>3 DEF Queue!Present
<1> QED
  BY <1>7, <1>8

LEMMA OrdersOfOne ==
    ASSUME NEW slot \in Slot, NEW attempt \in Nat \ {0}, NEW due \in BOOLEAN
    PROVE  Orders(Order(slot, attempt, due)) /\ DOMAIN Order(slot, attempt, due) = {slot}
BY DEF Orders, Order, Wanted

LEMMA OrdersOfNone == Orders(<<>>) /\ DOMAIN <<>> = {}
BY DEF Orders

\* What advance_run queues next: undos of what has succeeded, or steps that are
\* ready.
LEMMA NextWorkTyped ==
    ASSUME NEW c \in Context
    PROVE  /\ NextWork(c) \subseteq Slot
           /\ \A s \in Step : Do(s) \in NextWork(c) => s \in ReadySteps(c)
           /\ \A s \in Step : Undo(s) \in NextWork(c) => s \in Range(c.order)
<1>1. c.order \in Seq(Step) /\ Range(c.order) \subseteq Step /\ c.compensating \in BOOLEAN
  BY RangeOfOrder DEF Context
<1>2. \A s, r \in Step : /\ Do(s) = Do(r) => s = r
                         /\ Undo(s) = Undo(r) => s = r
                         /\ Do(s) # Undo(r)
  BY DEF Do, Undo
<1>3. ReadySteps(c) \subseteq Step
  BY DEF ReadySteps, StepsWithStatus
<1>4. CASE c.compensating /\ CompensationOrder(c) # <<>>
  <2>1. Head(CompensationOrder(c)) \in Range(c.order)
    BY <1>4, HeadOfCompensation
  <2>2. NextWork(c) = {Undo(Head(CompensationOrder(c)))}
    BY <1>4 DEF NextWork
  <2> QED
    BY <1>1, <1>2, <2>1, <2>2, SlotOfTyped
<1>5. CASE c.compensating /\ CompensationOrder(c) = <<>>
  BY <1>5 DEF NextWork
<1>6. CASE ~c.compensating
  <2>1. NextWork(c) = {Do(s) : s \in ReadySteps(c)}
    BY <1>6 DEF NextWork
  <2> QED
    BY <1>2, <1>3, <2>1, SlotOfTyped
<1> QED
  BY <1>1, <1>4, <1>5, <1>6

------------------------------------------------------------------------------
(* What the transactions make of the log.                                  *)

\* start_compensation turns the run round, or does nothing.
LEMMA Unwound ==
    ASSUME NEW c \in Context, NEW s \in Step
    PROVE  LET d == Unwind(c, s)
           IN  /\ d \in Context
               /\ d.steps = c.steps
               /\ d.order = c.order
               /\ \/ d = c
                  \/ d.compensating /\ d.status = "COMPENSATING"
<1>1. /\ "COMPENSATION_STARTED" \in DOMAIN RunStatusAfter
      /\ RunStatusAfter["COMPENSATION_STARTED"] = "COMPENSATING"
  BY DEF RunStatusAfter
<1> DEFINE d == Unwind(c, s)
<1>2. CASE OnError[s] = "compensate" /\ CompensationOrder(c) # <<>>
  <2>1. d = ApplyEvent(c, Event("COMPENSATION_STARTED", s))
    BY <1>2 DEF Unwind
  <2> HIDE DEF d
  <2>2. /\ d \in Context /\ d.steps = c.steps /\ d.order = c.order
        /\ d.status = "COMPENSATING"
        /\ d.compensating = (c.compensating \/ TRUE)
    BY <1>1, <2>1, AfterRunEvent
  <2> QED
    BY <2>2 DEF d
<1>3. CASE ~(OnError[s] = "compensate" /\ CompensationOrder(c) # <<>>)
  <2>1. d = c
    BY <1>3 DEF Unwind
  <2> HIDE DEF d
  <2> QED
    BY <2>1 DEF d
<1> QED
  BY <1>2, <1>3

\* STEP_SCHEDULED changes steps that are ready.
LEMMA Marked ==
    ASSUME NEW c \in Context
    PROVE  LET d == MarkScheduled(c)
           IN  /\ d \in Context
               /\ d.status = c.status
               /\ d.compensating = c.compensating
               /\ d.order = c.order
               /\ \A s \in Step :
                    \/ d.steps[s] = c.steps[s]
                    \/ /\ s \in ReadySteps(c)
                       /\ d.steps[s] = ApplyToSlot(c.steps[s], "STEP_SCHEDULED")
<1> DEFINE d == MarkScheduled(c)
           created == {s \in Step : Do(s) \in NextWork(c) /\ ~Queue!KeyTaken(Do(s), 1)}
<1>1. c.steps \in [Step -> StepSlot]
  BY DEF Context
<1>2. created \subseteq ReadySteps(c)
  BY NextWorkTyped
<1> HIDE DEF created
<1>3. d = [c EXCEPT !.steps = [s \in Step |->
              IF s \in created THEN ApplyToSlot(c.steps[s], "STEP_SCHEDULED")
                               ELSE c.steps[s]]]
  BY DEF MarkScheduled, created
<1> HIDE DEF d
<1>4. /\ d.status = c.status /\ d.compensating = c.compensating /\ d.order = c.order
      /\ d.steps = [s \in Step |->
              IF s \in created THEN ApplyToSlot(c.steps[s], "STEP_SCHEDULED")
                               ELSE c.steps[s]]
  BY <1>3 DEF Context
<1>5. d.steps \in [Step -> StepSlot]
  BY <1>1, <1>4, SlotAfter
<1>6. d \in Context
  BY <1>3, <1>5 DEF Context
<1>7. \A s \in Step : \/ d.steps[s] = c.steps[s]
                      \/ /\ s \in ReadySteps(c)
                         /\ d.steps[s] = ApplyToSlot(c.steps[s], "STEP_SCHEDULED")
  BY <1>2, <1>4
<1> QED
  BY <1>4, <1>6, <1>7 DEF d

\* advance_run records the end if it is due, and otherwise schedules what is
\* ready; the rows it inserts are those of NextWork and those of its caller.
LEMMA Advanced ==
    ASSUME Queue!TypeOK, NEW log \in Context, NEW also, Orders(also),
           AdvanceRun(log, also)
    PROVE  /\ ctx' \in Context
           /\ run' = NextRunState(ctx')
           /\ ctx'.compensating = log.compensating
           /\ ctx'.order = log.order
           /\ \A s \in Step :
                \/ ctx'.steps[s] = log.steps[s]
                \/ /\ s \in ReadySteps(log)
                   /\ ctx'.steps[s] = ApplyToSlot(log.steps[s], "STEP_SCHEDULED")
           /\ \/ ctx'.status = log.status
              \/ /\ log.status \notin TerminalRunStates
                 /\ ctx'.status = NextRunState(log)
                 /\ ctx'.status \in {"SUCCEEDED", "FAILED"}
           /\ ctx'.status \notin TerminalRunStates =>
                NextRunState(log) \notin TerminalRunStates
           /\ \E want : /\ Orders(want) /\ Enqueue(want)
                        /\ DOMAIN want = DOMAIN also \cup NextWork(log)
<1> DEFINE want == [slot \in DOMAIN also \cup NextWork(log) |->
                        IF slot \in DOMAIN also THEN also[slot] ELSE Wanted(1, TRUE)]
<1>1. /\ ctx' = CloseIfFinished(log, MarkScheduled(log))
      /\ run' = NextRunState(ctx')
      /\ Enqueue(want)
  BY DEF AdvanceRun
<1>2. NextWork(log) \subseteq Slot
  BY NextWorkTyped
<1>3. Orders(want)
  <2>1. DOMAIN want \subseteq Slot
    BY <1>2 DEF Orders
  <2>2. \A slot \in DOMAIN want :
            want[slot] = IF slot \in DOMAIN also THEN also[slot] ELSE Wanted(1, TRUE)
    OBVIOUS
  <2>3. Wanted(1, TRUE) \in [attempt : Nat \ {0}, due : BOOLEAN]
    BY DEF Wanted
  <2> HIDE DEF want
  <2> QED
    BY <2>1, <2>2, <2>3 DEF Orders
<1>4. DOMAIN want = DOMAIN also \cup NextWork(log)
  OBVIOUS
<1> HIDE DEF want
<1>5. \E x : Orders(x) /\ Enqueue(x) /\ DOMAIN x = DOMAIN also \cup NextWork(log)
  BY <1>1, <1>3, <1>4
<1> QED
  BY <1>1, <1>5, Marked, Closed

------------------------------------------------------------------------------
(* What the steps of the queue keep, whoever takes them.                   *)

\* Nobody processes a row that does not exist.
HandsHold == \A w \in Worker : hand[w] # NoTask => Queue!Present(hand[w])

\* Rows stay, and what they were handed out under stays known.
RowsStay ==
    /\ \A t \in Pk : Queue!Present(t) => Queue!Present(t)'
    /\ \A t \in Pk : handed[t] \subseteq handed'[t]

LEMMA QueueRows ==
    /\ Queue!Row = Row
    /\ \A row : Queue!WellFormed(row) => row # NoRow /\ row \in Row /\ row.attempt \in Nat \ {0}
BY NoRowAssumption DEF Queue!Row, Row, Queue!TaskStatus, TaskStatus, Queue!WellFormed

LEMMA QueueWrites ==
    /\ \A attempt \in Nat \ {0}, due \in BOOLEAN :
            Queue!WellFormed(Queue!ReadyRow(attempt, due))
    /\ \A row : Queue!WellFormed(row) =>
            /\ \A w \in Worker : Queue!WellFormed(Queue!Claimed(row, w))
            /\ row.status = "LEASED" => Queue!WellFormed(Queue!Renewed(row))
            /\ Queue!WellFormed(Queue!Finished(row))
            /\ Queue!WellFormed([row EXCEPT !.due = TRUE])
            /\ Queue!WellFormed([row EXCEPT !.fresh = FALSE])
<1>1. \A attempt \in Nat \ {0}, due \in BOOLEAN :
            Queue!WellFormed(Queue!ReadyRow(attempt, due))
  BY DEF Queue!WellFormed, Queue!ReadyRow, Queue!Row, Queue!TaskStatus
<1>2. ASSUME NEW row, Queue!WellFormed(row)
      PROVE  /\ \A w \in Worker : Queue!WellFormed(Queue!Claimed(row, w))
             /\ row.status = "LEASED" => Queue!WellFormed(Queue!Renewed(row))
             /\ Queue!WellFormed(Queue!Finished(row))
             /\ Queue!WellFormed([row EXCEPT !.due = TRUE])
             /\ Queue!WellFormed([row EXCEPT !.fresh = FALSE])
  <2>1. \A w \in Worker : Queue!WellFormed(Queue!Claimed(row, w))
    BY <1>2, NobodyAssumption DEF Queue!Claimed, Queue!WellFormed, Queue!Row, Queue!TaskStatus
  <2>2. row.status = "LEASED" => Queue!WellFormed(Queue!Renewed(row))
    BY <1>2 DEF Queue!Renewed, Queue!WellFormed, Queue!Row
  <2>3. Queue!WellFormed(Queue!Finished(row))
    BY <1>2 DEF Queue!Finished, Queue!WellFormed, Queue!Row, Queue!TaskStatus
  <2>4. /\ Queue!WellFormed([row EXCEPT !.due = TRUE])
        /\ Queue!WellFormed([row EXCEPT !.fresh = FALSE])
    BY <1>2 DEF Queue!WellFormed, Queue!Row
  <2> QED
    BY <2>1, <2>2, <2>3, <2>4
<1> QED
  BY <1>1, <1>2

\* The rows after one of them was written and the others were left alone.
LEMMA RowWritten ==
    ASSUME Queue!TypeOK, NEW t \in Pk, NEW row, Queue!WellFormed(row),
           task' = [task EXCEPT ![t] = row]
    PROVE  /\ task' \in [Pk -> Queue!Row \cup {NoRow}]
           /\ \A u \in Pk : Queue!Present(u)' => Queue!WellFormed(task'[u])
           /\ \A u \in Pk : Queue!Present(u) => Queue!Present(u)'
BY QueueRows DEF Queue!TypeOK, Queue!Present, Queue!WellFormed

LEMMA EnqueueKeeps ==
    ASSUME Queue!TypeOK, HandsHold, Queue!Enqueue
    PROVE  Queue!TypeOK' /\ HandsHold' /\ RowsStay
<1>1. PICK new \in (SUBSET Pk) \ {{}} :
        \E attempt \in [new -> 1..MaxAttempt], due \in [new -> BOOLEAN] :
            Queue!EnqueueSteps(new, attempt, due)
  BY DEF Queue!Enqueue
<1>2. PICK attempt \in [new -> 1..MaxAttempt], due \in [new -> BOOLEAN] :
            Queue!EnqueueSteps(new, attempt, due)
  BY <1>1
<1>3. \A t \in new : Queue!WellFormed(Queue!ReadyRow(attempt[t], due[t]))
  <2> TAKE t \in new
  <2>1. attempt[t] \in Nat \ {0} /\ due[t] \in BOOLEAN
    BY BoundAssumption
  <2> QED
    BY <2>1, QueueWrites
<1>4. /\ UNCHANGED <<hand, lost, handed, outcomes>>
      /\ task' = [t \in Pk |-> IF t \in new THEN Queue!ReadyRow(attempt[t], due[t])
                                            ELSE task[t]]
      /\ \A t \in new : ~Queue!Present(t)
  BY <1>2 DEF Queue!EnqueueSteps
<1>5. \A t \in Pk : task'[t] = task[t] \/ Queue!WellFormed(task'[t])
  BY <1>3, <1>4
<1>6. task' \in [Pk -> Queue!Row \cup {NoRow}]
  <2>1. \A t \in Pk : task'[t] \in Queue!Row \cup {NoRow}
    BY <1>5 DEF Queue!TypeOK, Queue!WellFormed
  <2> QED
    BY <1>4, <2>1
<1>7. \A t \in Pk : Queue!Present(t)' => Queue!WellFormed(task'[t])
  BY <1>5 DEF Queue!TypeOK, Queue!Present
<1>8. \A t \in Pk : Queue!Present(t) => Queue!Present(t)'
  BY <1>5, QueueRows DEF Queue!Present
<1> QED
  BY <1>4, <1>6, <1>7, <1>8 DEF Queue!TypeOK, HandsHold, RowsStay

LEMMA RowStepKeeps ==
    ASSUME Queue!TypeOK, HandsHold, NEW t \in Pk, Queue!RowStep(t)
    PROVE  Queue!TypeOK' /\ HandsHold' /\ RowsStay
<1>1. Queue!Present(t) /\ Queue!WellFormed(task[t])
  BY DEF Queue!RowStep, Queue!TimerDue, Queue!LeaseLapses, Queue!Reap,
         Queue!ReapPoisoned, Queue!TypeOK
<1>2. UNCHANGED <<hand, lost, handed, outcomes>>
  BY DEF Queue!RowStep, Queue!TimerDue, Queue!LeaseLapses, Queue!Reap, Queue!ReapPoisoned
<1>3. PICK row : Queue!WellFormed(row) /\ task' = [task EXCEPT ![t] = row]
  <2>1. CASE Queue!TimerDue(t)
    BY <1>1, <2>1, QueueWrites DEF Queue!TimerDue
  <2>2. CASE Queue!LeaseLapses(t)
    BY <1>1, <2>2, QueueWrites DEF Queue!LeaseLapses
  <2>3. CASE Queue!Reap(t)
    <3>1. task[t].attempt + 1 \in Nat \ {0}
      BY <1>1, QueueRows
    <3>2. Queue!WellFormed(Queue!Recovered(task[t]))
      BY <3>1, QueueWrites DEF Queue!Recovered
    <3> QED
      BY <2>3, <3>2 DEF Queue!Reap
  <2>4. CASE Queue!ReapPoisoned(t)
    BY <1>1, <2>4, QueueWrites DEF Queue!ReapPoisoned
  <2> QED
    BY <2>1, <2>2, <2>3, <2>4 DEF Queue!RowStep
<1> QED
  BY <1>2, <1>3, RowWritten DEF Queue!TypeOK, HandsHold, RowsStay

LEMMA ClaimKeeps ==
    ASSUME Queue!TypeOK, HandsHold, NEW w \in Worker, NEW t \in Pk, Queue!ClaimTask(w, t)
    PROVE  /\ Queue!TypeOK' /\ HandsHold' /\ RowsStay
           /\ hand' = [hand EXCEPT ![w] = t]
           /\ Queue!Present(t)
           /\ task[t].attempt \in Nat \ {0}
           /\ task[t].attempt \in handed'[t]
<1> USE DEF Queue!ClaimTask
<1>1. Queue!Present(t) /\ Queue!WellFormed(task[t]) /\ task[t].attempt \in Nat \ {0}
  BY QueueRows DEF Queue!TypeOK
<1>2. Queue!WellFormed(Queue!Claimed(task[t], w))
  BY <1>1, QueueWrites
<1>3. task' = [task EXCEPT ![t] = Queue!Claimed(task[t], w)]
  OBVIOUS
<1>4. /\ task' \in [Pk -> Queue!Row \cup {NoRow}]
      /\ \A u \in Pk : Queue!Present(u)' => Queue!WellFormed(task'[u])
      /\ \A u \in Pk : Queue!Present(u) => Queue!Present(u)'
  BY <1>2, <1>3, RowWritten
<1>5. /\ handed' = [handed EXCEPT ![t] = handed[t] \cup {task[t].attempt}]
      /\ handed' \in [Pk -> SUBSET (Nat \ {0})]
  BY <1>1 DEF Queue!TypeOK
<1>6. /\ \A u \in Pk : handed[u] \subseteq handed'[u]
      /\ task[t].attempt \in handed'[t]
  BY <1>5 DEF Queue!TypeOK
<1>7. Queue!TypeOK'
  BY <1>4, <1>5 DEF Queue!TypeOK
<1>8. HandsHold'
  BY <1>1, <1>4 DEF HandsHold, Queue!TypeOK
<1> QED
  BY <1>1, <1>4, <1>6, <1>7, <1>8 DEF RowsStay

LEMMA RenewKeeps ==
    ASSUME Queue!TypeOK, HandsHold, NEW w \in Worker, Queue!RenewLease(w)
    PROVE  Queue!TypeOK' /\ HandsHold' /\ RowsStay /\ UNCHANGED hand
<1>1. hand[w] \in Pk /\ Queue!Present(hand[w]) /\ Queue!WellFormed(task[hand[w]])
  BY DEF Queue!RenewLease, Queue!TypeOK, HandsHold
<1>2. CASE Queue!OwnedBy(task[hand[w]], w)
  <2>1. /\ task' = [task EXCEPT ![hand[w]] = Queue!Renewed(task[hand[w]])]
        /\ UNCHANGED <<lost, hand, handed, outcomes>>
    BY <1>2 DEF Queue!RenewLease
  <2>2. Queue!WellFormed(Queue!Renewed(task[hand[w]]))
    BY <1>1, <1>2, QueueWrites DEF Queue!OwnedBy
  <2> QED
    BY <1>1, <2>1, <2>2, RowWritten DEF Queue!TypeOK, HandsHold, RowsStay
<1>3. CASE ~Queue!OwnedBy(task[hand[w]], w)
  BY <1>3 DEF Queue!RenewLease, Queue!TypeOK, HandsHold, RowsStay, Queue!Present
<1> QED
  BY <1>2, <1>3

LEMMA FinishKeeps ==
    ASSUME Queue!TypeOK, HandsHold, NEW w \in Worker, Queue!FinishTaskIfOwned(w)
    PROVE  /\ Queue!TypeOK' /\ HandsHold' /\ RowsStay
           /\ hand' = [hand EXCEPT ![w] = NoTask]
<1> USE DEF Queue!FinishTaskIfOwned, Queue!LetGo
<1>1. hand[w] \in Pk /\ Queue!Present(hand[w]) /\ Queue!WellFormed(task[hand[w]])
  BY DEF Queue!TypeOK, HandsHold
<1>2. Queue!WellFormed(Queue!Finished(task[hand[w]]))
  BY <1>1, QueueWrites
<1>3. /\ task' \in [Pk -> Queue!Row \cup {NoRow}]
      /\ \A u \in Pk : Queue!Present(u)' => Queue!WellFormed(task'[u])
      /\ \A u \in Pk : Queue!Present(u) => Queue!Present(u)'
  BY <1>1, <1>2, RowWritten
<1>4. outcomes' \in [Pk -> Nat]
  BY <1>1 DEF Queue!TypeOK
<1> QED
  BY <1>3, <1>4 DEF Queue!TypeOK, HandsHold, RowsStay

LEMMA LetGoKeeps ==
    ASSUME Queue!TypeOK, HandsHold, NEW w \in Worker, Queue!Abandon(w) \/ Queue!Crash(w)
    PROVE  /\ Queue!TypeOK' /\ HandsHold' /\ RowsStay
           /\ hand' = [hand EXCEPT ![w] = NoTask]
BY DEF Queue!Abandon, Queue!Crash, Queue!LetGo, Queue!TypeOK, HandsHold, RowsStay,
       Queue!Present

LEMMA StutterKeeps ==
    ASSUME Queue!TypeOK, HandsHold, UNCHANGED queueVars
    PROVE  Queue!TypeOK' /\ HandsHold' /\ RowsStay
BY DEF queueVars, Queue!TypeOK, HandsHold, RowsStay, Queue!Present

\* Inserting leaves the hands and the history alone.
LEMMA InsertKeeps ==
    ASSUME Queue!TypeOK, HandsHold, NEW want, Orders(want), Enqueue(want)
    PROVE  /\ Queue!TypeOK' /\ HandsHold' /\ RowsStay
           /\ [Queue!Next]_queueVars
           /\ UNCHANGED <<hand, lost, handed, outcomes>>
BY EnqueueInserts, EnqueueKeeps, StutterKeeps DEF Queue!Next

------------------------------------------------------------------------------
(* The types of a run.                                                     *)

Memory == [pc       : {"idle", "claimed", "misconfigured", "returning", "deferring",
                       "parking", "firing", "starting", "executing", "executed",
                       "recording"},
           slot     : Slot \cup {Do(NoStep)},
           attempt  : Nat,
           approved : BOOLEAN,
           ok       : BOOLEAN]

\* What a worker does to a step, and never to an undo.
Forward == {"misconfigured", "returning", "deferring", "parking", "firing", "starting"}

\* What a worker has in memory fits the row it has in hand.
Fits(w) ==
    /\ worker[w].pc # "idle" => worker[w].slot \in Slot /\ worker[w].attempt # 0
    /\ worker[w].pc \in {"idle", "parking", "recording"} => hand[w] = NoTask
    /\ worker[w].pc \in Forward => ~Undoing(w)
    /\ hand[w] # NoTask => /\ worker[w].slot = SlotOf[hand[w]]
                           /\ worker[w].attempt \in handed[hand[w]]

Asked == [pc : {"new", "checked", "done"}, step : Step \cup {NoStep}, approve : BOOLEAN]

MemoryOK == worker \in [Worker -> Memory] /\ \A w \in Worker : Fits(w)

RequestsOK ==
    /\ request \in [Actor -> Asked]
    /\ \A a \in Actor : request[a].pc # "new" => request[a].step \in Step

QueueOK == Queue!TypeOK /\ HandsHold

TInv ==
    /\ QueueOK
    /\ ctx \in Context
    /\ run \in RunState
    /\ reaper \in Step \cup {NoStep}
    /\ MemoryOK
    /\ RequestsOK

\* A step of the run as the queue sees it.
AsQueue == QueueOK' /\ RowsStay /\ [Queue!Next]_queueVars

LEMMA StutterAsQueue == QueueOK /\ UNCHANGED queueVars => AsQueue
BY StutterKeeps DEF QueueOK, AsQueue

LEMMA InsertAsQueue ==
    ASSUME QueueOK, NEW want, Orders(want), Enqueue(want)
    PROVE  AsQueue /\ UNCHANGED <<hand, handed>>
BY InsertKeeps DEF QueueOK, AsQueue

\* A worker that neither acts nor is acted on goes on fitting.
LEMMA OtherFits ==
    ASSUME TInv, RowsStay, NEW v \in Worker, hand'[v] = hand[v], worker'[v] = worker[v]
    PROVE  Fits(v)'
<1>1. Fits(v) /\ hand[v] \in Pk \cup {NoTask}
  BY DEF TInv, MemoryOK, QueueOK, Queue!TypeOK
<1> QED
  BY <1>1 DEF Fits, RowsStay, Undoing

\* Nobody's memory and hand change.
LEMMA AllFit ==
    ASSUME TInv, RowsStay, UNCHANGED <<hand, worker>>
    PROVE  MemoryOK'
BY OtherFits DEF TInv, MemoryOK

\* One worker takes a step.
LEMMA OneFits ==
    ASSUME TInv, RowsStay, NEW w \in Worker, NEW mem \in Memory,
           worker' = [worker EXCEPT ![w] = mem],
           \A v \in Worker \ {w} : hand'[v] = hand[v],
           Fits(w)'
    PROVE  MemoryOK'
<1>1. worker \in [Worker -> Memory]
  BY DEF TInv, MemoryOK
<1>2. worker' \in [Worker -> Memory]
  BY <1>1
<1>3. \A v \in Worker \ {w} : worker'[v] = worker[v]
  BY <1>1
<1> QED
  BY <1>2, <1>3, OtherFits DEF MemoryOK

\* A worker without a row in hand fits whatever it is idle, or about to record.
LEMMA IdleFits ==
    ASSUME NEW w \in Worker, worker'[w] = Idle, hand'[w] = NoTask
    PROVE  Fits(w)' /\ Idle \in Memory
BY DEF Fits, Idle, Forward, Undoing, Memory, Slot, Do

\* A worker goes on with the row it has.
LEMMA GoesOnFits ==
    ASSUME TInv, RowsStay, NEW w \in Worker, NEW pc, UNCHANGED hand, GoTo(w, pc),
           worker[w].pc # "idle",
           pc \in {"returning", "starting", "executing"},
           pc \in Forward => ~Undoing(w)
    PROVE  MemoryOK'
<1>1. worker \in [Worker -> Memory] /\ Fits(w) /\ hand[w] \in Pk \cup {NoTask}
  BY DEF TInv, MemoryOK, QueueOK, Queue!TypeOK
<1> DEFINE mem == [worker[w] EXCEPT !.pc = pc]
<1>2. mem \in Memory
  BY <1>1 DEF Memory
<1>3. worker' = [worker EXCEPT ![w] = mem]
  BY DEF GoTo
<1>4. /\ worker'[w].slot = worker[w].slot /\ worker'[w].attempt = worker[w].attempt
      /\ worker'[w].pc = pc
  BY <1>1, <1>3 DEF Memory
<1>5. Fits(w)'
  BY <1>1, <1>4 DEF Fits, RowsStay, Undoing
<1> HIDE DEF mem
<1> QED
  BY <1>2, <1>3, <1>5, OneFits

\* The log of a worker, a request or the reaper that appends to it.
LEMMA SyncTyped ==
    ASSUME NEW c \in Context, Sync(c)
    PROVE  ctx' \in Context /\ run' \in RunState
BY NextRunStateTyped DEF Sync

LEMMA AdvanceTyped ==
    ASSUME TInv, NEW log \in Context, NEW also, Orders(also), AdvanceRun(log, also)
    PROVE  AsQueue /\ UNCHANGED <<hand, handed>> /\ ctx' \in Context /\ run' \in RunState
<1>1. Queue!TypeOK /\ QueueOK
  BY DEF TInv, QueueOK
<1>2. /\ ctx' \in Context /\ run' = NextRunState(ctx')
      /\ \E want : Orders(want) /\ Enqueue(want)
  BY <1>1, Advanced
<1> QED
  BY <1>1, <1>2, InsertAsQueue, NextRunStateTyped

LEMMA AfterTyped ==
    ASSUME TInv, NEW w \in Worker, worker[w].pc # "idle", NEW type \in StepEvent
    PROVE  After(w, type) \in Context /\ StepOf(w) \in Step /\ worker[w].slot \in Slot
<1>1. StepOf(w) \in Step /\ worker[w].slot \in Slot
  BY SlotOfTyped DEF TInv, MemoryOK, Fits, StepOf
<1> QED
  BY <1>1, AfterStepEvent DEF TInv, After

\* The next attempt number of a slot is one more than any number its rows have.
LEMMA NextAttemptTyped ==
    ASSUME Queue!TypeOK, NEW slot
    PROVE  /\ NextAttempt(slot) \in Nat \ {0}
           /\ \A t \in Rows(slot) : task[t].attempt < NextAttempt(slot)
<1> DEFINE used == [t \in Rows(slot) |-> task[t].attempt]
           numbers == {0} \cup {task[t].attempt : t \in Rows(slot)}
<1>1. \A t \in Rows(slot) : task[t].attempt \in Nat
  BY QueueRows DEF Rows, Queue!TypeOK
<1>2. IsFiniteSet(Range(used))
  <2>1. DOMAIN used = Rows(slot) /\ used = [x \in DOMAIN used |-> used[x]]
    OBVIOUS
  <2> HIDE DEF used
  <2> QED
    BY <2>1, FiniteRange, RowsFinite
<1>3. numbers = Range(used) \cup {0}
  BY DEF Range
<1>4. IsFiniteSet(numbers)
  BY <1>2, <1>3, FS_AddElement
<1>5. numbers \in SUBSET Nat /\ numbers # {}
  BY <1>1
<1>6. \A t \in Rows(slot) : task[t].attempt \in numbers
  OBVIOUS
<1> HIDE DEF numbers
<1>7. PICK m \in numbers : \A i \in numbers : i <= m
  BY <1>4, <1>5, GreatestOf
<1>8. /\ Max(numbers) \in numbers
      /\ \A i \in numbers : Max(numbers) >= i
  BY <1>5, <1>7 DEF Max
<1>9. NextAttempt(slot) = 1 + Max(numbers) /\ Max(numbers) \in Nat
  BY <1>5, <1>8 DEF NextAttempt, numbers
<1>10. ASSUME NEW t \in Rows(slot) PROVE task[t].attempt < NextAttempt(slot)
  <2>1. task[t].attempt \in Nat /\ Max(numbers) >= task[t].attempt
    BY <1>1, <1>6, <1>8
  <2> QED
    BY <1>9, <2>1
<1> QED
  BY <1>9, <1>10

------------------------------------------------------------------------------
(* The actions, one after the other.                                       *)

LEMMA StartRunOK == ASSUME TInv, StartRun PROVE AsQueue /\ TInv'
<1> DEFINE c == ApplyEvent(ctx, Event("RUN_STARTED", NoStep))
           want == [slot \in NextWork(c) |-> Wanted(1, TRUE)]
<1>1. c \in Context
  BY AfterRunEvent DEF TInv, RunStatusAfter
<1>2. Sync(MarkScheduled(c)) /\ Enqueue(want) /\ UNCHANGED <<worker, reaper, request>>
  BY DEF StartRun
<1> HIDE DEF c
<1>3. ctx' \in Context /\ run' \in RunState
  BY <1>1, <1>2, Marked, SyncTyped
<1>4. Orders(want)
  BY <1>1, NextWorkTyped DEF Orders, Wanted
<1> HIDE DEF want
<1>5. AsQueue /\ UNCHANGED <<hand, handed>>
  BY <1>2, <1>4, InsertAsQueue DEF TInv
<1> QED
  BY <1>2, <1>3, <1>5, AllFit DEF TInv, AsQueue, RequestsOK

LEMMA CheckApprovalOK ==
    ASSUME TInv, NEW a \in Actor, NEW s \in Step, NEW approve \in BOOLEAN,
           CheckApproval(a, s, approve)
    PROVE  AsQueue /\ TInv'
<1>1. AsQueue /\ UNCHANGED <<hand, worker, runVars, reaper>>
  BY StutterAsQueue DEF CheckApproval, TInv, queueVars
<1>2. RequestsOK'
  BY DEF CheckApproval, TInv, RequestsOK, Asked
<1> QED
  BY <1>1, <1>2, AllFit DEF TInv, AsQueue, runVars

LEMMA ResolveApprovalOK ==
    ASSUME TInv, NEW a \in Actor, ResolveApproval(a)
    PROVE  AsQueue /\ TInv'
<1> DEFINE s == request[a].step
           granted == ApplyEvent(ctx, Event("APPROVAL_GRANTED", s))
           denied == ApplyEvent(ctx, Event("APPROVAL_DENIED", s))
<1>1. /\ request[a].pc = "checked" /\ s \in Step
      /\ request' = [request EXCEPT ![a].pc = "done"]
      /\ UNCHANGED <<worker, reaper>>
  BY DEF ResolveApproval, TInv, RequestsOK
<1>2. granted \in Context /\ Unwind(denied, s) \in Context
  <2>1. granted \in Context /\ denied \in Context
    BY <1>1, AfterStepEvent DEF TInv, StepEvent
  <2> QED
    BY <1>1, <2>1, Unwound
<1>3. Orders(Order(Do(s), NextAttempt(Do(s)), TRUE)) /\ Orders(<<>>)
  <2>1. NextAttempt(Do(s)) \in Nat \ {0}
    BY NextAttemptTyped DEF TInv, QueueOK
  <2> QED
    BY <1>1, <2>1, OrdersOfOne, OrdersOfNone, SlotOfTyped
<1>4. \/ AdvanceRun(granted, Order(Do(s), NextAttempt(Do(s)), TRUE))
      \/ AdvanceRun(Unwind(denied, s), <<>>)
  BY DEF ResolveApproval
<1> HIDE DEF granted, denied
<1>5. /\ AsQueue /\ UNCHANGED <<hand, handed>>
      /\ ctx' \in Context /\ run' \in RunState
  BY <1>2, <1>3, <1>4, AdvanceTyped
<1>6. RequestsOK'
  BY <1>1 DEF TInv, RequestsOK, Asked
<1> QED
  BY <1>1, <1>5, <1>6, AllFit DEF TInv, AsQueue

LEMMA ClaimOK == ASSUME TInv, NEW w \in Worker, Claim(w) PROVE AsQueue /\ TInv'
<1>1. PICK t \in Pk :
        /\ Queue!ClaimTask(w, t)
        /\ worker' = [worker EXCEPT ![w] =
              [Idle EXCEPT !.pc = "claimed", !.slot = SlotOf[t], !.attempt = task[t].attempt]]
  BY DEF Claim
<1>2. UNCHANGED <<runVars, reaper, request>>
  BY DEF Claim
<1>3. /\ QueueOK' /\ RowsStay
      /\ hand' = [hand EXCEPT ![w] = t]
      /\ task[t].attempt \in Nat \ {0}
      /\ task[t].attempt \in handed'[t]
  BY <1>1, ClaimKeeps DEF TInv, QueueOK
<1>4. Queue!Next
  BY <1>1 DEF Queue!Next, Queue!WorkerStep
<1>5. SlotOf[t] \in Slot
  BY SlotOfTyped
<1> DEFINE mem == [Idle EXCEPT !.pc = "claimed", !.slot = SlotOf[t], !.attempt = task[t].attempt]
<1>6. mem \in Memory /\ mem.pc = "claimed" /\ mem.slot = SlotOf[t] /\ mem.attempt = task[t].attempt
  BY <1>3, <1>5 DEF Idle, Memory
<1>7. worker'[w] = mem /\ hand'[w] = t /\ worker' = [worker EXCEPT ![w] = mem]
  BY <1>1, <1>3 DEF TInv, MemoryOK, QueueOK, Queue!TypeOK
<1> HIDE DEF mem
<1>8. Fits(w)'
  BY <1>3, <1>5, <1>6, <1>7 DEF Fits, Forward
<1>9. \A v \in Worker \ {w} : hand'[v] = hand[v]
  BY <1>3 DEF TInv, QueueOK, Queue!TypeOK
<1>10. MemoryOK'
  BY <1>3, <1>6, <1>7, <1>8, <1>9, OneFits
<1> QED
  BY <1>2, <1>3, <1>4, <1>10 DEF TInv, AsQueue, runVars, RequestsOK

LEMMA LoadContextOK == ASSUME TInv, NEW w \in Worker, LoadContext(w) PROVE AsQueue /\ TInv'
<1> DEFINE pc == Route(worker[w].slot)
           mem == [worker[w] EXCEPT !.pc = pc, !.approved = ctx.steps[StepOf(w)].approved]
<1>1. /\ AsQueue /\ UNCHANGED <<hand, handed, runVars, reaper, request>>
      /\ worker[w].pc = "claimed"
  BY StutterAsQueue DEF LoadContext, At, TInv, queueVars
<1>2. worker' = [worker EXCEPT ![w] = mem]
  BY DEF LoadContext
<1>3. /\ worker \in [Worker -> Memory] /\ Fits(w)
      /\ hand[w] \in Pk \cup {NoTask}
      /\ worker[w].slot \in Slot
  BY <1>1 DEF TInv, MemoryOK, Fits, QueueOK, Queue!TypeOK
<1>4. StepOf(w) \in Step
  BY <1>3, SlotOfTyped DEF StepOf
<1>5. ctx.steps[StepOf(w)].approved \in BOOLEAN
  BY <1>4 DEF TInv, Context, StepSlot
<1>6. /\ pc \in {"executing", "misconfigured", "deferring", "firing", "starting"}
      /\ pc \in Forward => ~Undoing(w)
  BY DEF Route, Forward, Undoing
<1> HIDE DEF pc
<1>7. mem \in Memory
  BY <1>3, <1>5, <1>6 DEF Memory
<1>8. /\ worker'[w].slot = worker[w].slot /\ worker'[w].attempt = worker[w].attempt
      /\ worker'[w].pc = pc
  BY <1>2, <1>3 DEF Memory
<1>9. Fits(w)'
  BY <1>1, <1>3, <1>6, <1>8 DEF Fits, RowsStay, Undoing
<1> HIDE DEF mem
<1>10. MemoryOK'
  BY <1>1, <1>2, <1>7, <1>9, OneFits DEF AsQueue
<1> QED
  BY <1>1, <1>10 DEF TInv, AsQueue, runVars, RequestsOK

LEMMA RejectConfigOK == ASSUME TInv, NEW w \in Worker, RejectConfig(w) PROVE AsQueue /\ TInv'
<1>1. /\ worker[w].pc = "misconfigured"
      /\ AdvanceRun(Unwind(After(w, "STEP_FAILED"), StepOf(w)), <<>>)
      /\ GoTo(w, "returning")
      /\ UNCHANGED <<reaper, request>>
  BY DEF RejectConfig, At
<1>2. Unwind(After(w, "STEP_FAILED"), StepOf(w)) \in Context
  BY <1>1, AfterTyped, Unwound DEF StepEvent
<1>3. /\ AsQueue /\ UNCHANGED <<hand, handed>>
      /\ ctx' \in Context /\ run' \in RunState
  BY <1>1, <1>2, OrdersOfNone, AdvanceTyped
<1>4. ~Undoing(w)
  BY <1>1 DEF TInv, MemoryOK, Fits, Forward
<1>5. MemoryOK'
  BY <1>1, <1>3, <1>4, GoesOnFits DEF AsQueue
<1> QED
  BY <1>1, <1>3, <1>5 DEF TInv, AsQueue, RequestsOK

\* A worker forgets what it had, and has no row in hand any more.
LEMMA ForgetOK ==
    ASSUME TInv, RowsStay, NEW w \in Worker, worker' = [worker EXCEPT ![w] = Idle],
           hand' = [hand EXCEPT ![w] = NoTask]
    PROVE  MemoryOK'
<1>1. worker'[w] = Idle /\ hand'[w] = NoTask
  BY DEF TInv, MemoryOK, QueueOK, Queue!TypeOK
<1>2. Fits(w)' /\ Idle \in Memory
  BY <1>1, IdleFits
<1>3. \A v \in Worker \ {w} : hand'[v] = hand[v]
  BY DEF TInv, QueueOK, Queue!TypeOK
<1> QED
  BY <1>2, <1>3, OneFits

\* The same after the row was finished.
LEMMA ForgetOutcomeOK ==
    ASSUME TInv, RowsStay, NEW w \in Worker, worker' = [worker EXCEPT ![w] = Idle],
           worker[w].pc \in {"parking", "recording"}, UNCHANGED hand
    PROVE  MemoryOK'
<1>1. hand[w] = NoTask
  BY DEF TInv, MemoryOK, Fits
<1>2. hand' = [hand EXCEPT ![w] = NoTask]
  BY <1>1 DEF TInv, QueueOK, Queue!TypeOK
<1> QED
  BY <1>2, ForgetOK

LEMMA LetGoAsQueue ==
    ASSUME TInv, NEW w \in Worker, Queue!Abandon(w) \/ Queue!Crash(w)
    PROVE  AsQueue /\ hand' = [hand EXCEPT ![w] = NoTask]
BY LetGoKeeps DEF TInv, QueueOK, AsQueue, Queue!Next, Queue!WorkerStep

LEMMA ReturnOK == ASSUME TInv, NEW w \in Worker, Return(w) PROVE AsQueue /\ TInv'
BY LetGoAsQueue, ForgetOK DEF Return, TInv, AsQueue, runVars, RequestsOK

LEMMA AbandonOK == ASSUME TInv, NEW w \in Worker, Abandon(w) PROVE AsQueue /\ TInv'
BY LetGoAsQueue, ForgetOK DEF Abandon, TInv, AsQueue, runVars, RequestsOK

LEMMA CrashOK == ASSUME TInv, NEW w \in Worker, Crash(w) PROVE AsQueue /\ TInv'
<1>1. UNCHANGED <<runVars, reaper, request>> /\ worker' = [worker EXCEPT ![w] = Idle]
  BY DEF Crash
<1>2. CASE Queue!Crash(w)
  BY <1>1, <1>2, LetGoAsQueue, ForgetOK DEF TInv, AsQueue, runVars, RequestsOK
<1>3. CASE UNCHANGED queueVars /\ worker[w].pc \in {"parking", "recording"}
  BY <1>1, <1>3, StutterAsQueue, ForgetOutcomeOK
     DEF TInv, AsQueue, runVars, queueVars, RequestsOK
<1> QED
  BY <1>2, <1>3 DEF Crash, At

LEMMA FireTimerOK == ASSUME TInv, NEW w \in Worker, FireTimer(w) PROVE AsQueue /\ TInv'
<1>1. /\ worker[w].pc = "firing"
      /\ ctx' = After(w, "TIMER_FIRED")
      /\ GoTo(w, "starting")
      /\ UNCHANGED <<queueVars, run, reaper, request>>
  BY DEF FireTimer, At
<1>2. AsQueue /\ UNCHANGED hand
  BY <1>1, StutterAsQueue DEF TInv, queueVars
<1>3. ctx' \in Context
  BY <1>1, AfterTyped DEF StepEvent
<1>4. ~Undoing(w)
  BY <1>1 DEF TInv, MemoryOK, Fits, Forward
<1>5. MemoryOK'
  BY <1>1, <1>2, <1>4, GoesOnFits DEF AsQueue
<1> QED
  BY <1>1, <1>2, <1>3, <1>5 DEF TInv, AsQueue, RequestsOK

LEMMA StartStepOK == ASSUME TInv, NEW w \in Worker, StartStep(w) PROVE AsQueue /\ TInv'
<1>1. /\ worker[w].pc = "starting"
      /\ ctx' = After(w, "STEP_STARTED")
      /\ GoTo(w, "executing")
      /\ UNCHANGED <<queueVars, run, reaper, request>>
  BY DEF StartStep, At
<1>2. AsQueue /\ UNCHANGED hand
  BY <1>1, StutterAsQueue DEF TInv, queueVars
<1>3. ctx' \in Context
  BY <1>1, AfterTyped DEF StepEvent
<1>4. MemoryOK'
  BY <1>1, <1>2, GoesOnFits DEF AsQueue, Forward
<1> QED
  BY <1>1, <1>2, <1>3, <1>4 DEF TInv, AsQueue, RequestsOK

\* What a plugin may answer is an answer.
LEMMA AnswersTyped ==
    ASSUME TInv, NEW w \in Worker, worker[w].pc # "idle"
    PROVE  Answers(w) \subseteq BOOLEAN
<1>1. worker[w].slot \in Slot /\ worker[w].approved \in BOOLEAN
  BY DEF TInv, MemoryOK, Fits, Memory
<1>2. Outcomes[worker[w].slot] \subseteq BOOLEAN
  BY <1>1, OutcomesAssumption
<1> QED
  BY <1>1, <1>2 DEF Answers

LEMMA ExecuteOK == ASSUME TInv, NEW w \in Worker, Execute(w) PROVE AsQueue /\ TInv'
<1>1. worker[w].pc = "executing"
  BY DEF Execute, At
<1>2. PICK ok \in BOOLEAN : CallReturns(w, ok)
  BY <1>1, AnswersTyped DEF Execute
<1> DEFINE mem == [worker[w] EXCEPT !.pc = "executed", !.ok = ok]
<1>3. AsQueue /\ UNCHANGED <<hand, handed, runVars, reaper, request>>
  BY <1>2, StutterAsQueue DEF CallReturns, TInv, queueVars
<1>4. worker' = [worker EXCEPT ![w] = mem]
  BY <1>2 DEF CallReturns
<1>5. worker \in [Worker -> Memory] /\ Fits(w) /\ hand[w] \in Pk \cup {NoTask}
  BY DEF TInv, MemoryOK, QueueOK, Queue!TypeOK
<1>6. mem \in Memory
  BY <1>5 DEF Memory
<1>7. /\ worker'[w].slot = worker[w].slot /\ worker'[w].attempt = worker[w].attempt
      /\ worker'[w].pc = "executed"
  BY <1>4, <1>5 DEF Memory
<1>8. Fits(w)'
  BY <1>1, <1>3, <1>5, <1>7 DEF Fits, RowsStay, Forward
<1> HIDE DEF mem
<1>9. MemoryOK'
  BY <1>3, <1>4, <1>6, <1>8, OneFits DEF AsQueue
<1> QED
  BY <1>3, <1>9 DEF TInv, AsQueue, runVars, RequestsOK

LEMMA HeartbeatOK == ASSUME TInv, NEW w \in Worker, Heartbeat(w) PROVE AsQueue /\ TInv'
<1>1. Queue!RenewLease(w) /\ UNCHANGED <<runVars, worker, reaper, request>>
  BY DEF Heartbeat
<1>2. AsQueue /\ UNCHANGED hand
  BY <1>1, RenewKeeps DEF TInv, QueueOK, AsQueue, Queue!Next, Queue!WorkerStep
<1> QED
  BY <1>1, <1>2, AllFit DEF TInv, AsQueue, runVars, RequestsOK

LEMMA FinishOK == ASSUME TInv, NEW w \in Worker, Finish(w) PROVE AsQueue /\ TInv'
<1>1. Queue!FinishTaskIfOwned(w) /\ UNCHANGED <<runVars, reaper, request>>
  BY DEF Finish
<1>2. AsQueue /\ hand' = [hand EXCEPT ![w] = NoTask]
  BY <1>1, FinishKeeps DEF TInv, QueueOK, AsQueue, Queue!Next, Queue!WorkerStep
<1>3. PICK pc \in {"parking", "recording"} :
        /\ GoTo(w, pc)
        /\ \/ worker[w].pc = "deferring" /\ pc = "parking"
           \/ worker[w].pc = "executed" /\ pc = "recording"
  BY DEF Finish, At
<1> DEFINE mem == [worker[w] EXCEPT !.pc = pc]
<1>4. worker \in [Worker -> Memory] /\ Fits(w) /\ hand'[w] = NoTask
  BY <1>2 DEF TInv, MemoryOK, QueueOK, Queue!TypeOK
<1>5. worker' = [worker EXCEPT ![w] = mem] /\ mem \in Memory
  BY <1>3, <1>4 DEF GoTo, Memory
<1>6. /\ worker'[w].slot = worker[w].slot /\ worker'[w].attempt = worker[w].attempt
      /\ worker'[w].pc = pc
  BY <1>4, <1>5 DEF Memory
<1>7. Fits(w)'
  BY <1>3, <1>4, <1>6 DEF Fits, Forward, Undoing
<1>8. \A v \in Worker \ {w} : hand'[v] = hand[v]
  BY <1>2 DEF TInv, QueueOK, Queue!TypeOK
<1> HIDE DEF mem
<1>9. MemoryOK'
  BY <1>2, <1>5, <1>7, <1>8, OneFits DEF AsQueue
<1> QED
  BY <1>1, <1>2, <1>9 DEF TInv, AsQueue, runVars, RequestsOK

\* The worker records what came of its row, and enqueues what follows.
LEMMA RecordingOK ==
    ASSUME TInv, NEW w \in Worker, worker[w].pc \in {"parking", "recording"},
           NEW want, Orders(want), Enqueue(want),
           ctx' \in Context, run' \in RunState,
           worker' = [worker EXCEPT ![w] = Idle], UNCHANGED <<reaper, request>>
    PROVE  AsQueue /\ TInv'
BY InsertAsQueue, ForgetOutcomeOK DEF TInv, AsQueue, RequestsOK

LEMMA AdvancingOK ==
    ASSUME TInv, NEW w \in Worker, worker[w].pc \in {"parking", "recording"},
           NEW log \in Context, AdvanceRun(log, <<>>),
           worker' = [worker EXCEPT ![w] = Idle], UNCHANGED <<reaper, request>>
    PROVE  AsQueue /\ TInv'
BY AdvanceTyped, OrdersOfNone, ForgetOutcomeOK DEF TInv, AsQueue, RequestsOK

LEMMA ParkOK == ASSUME TInv, NEW w \in Worker, Park(w) PROVE AsQueue /\ TInv'
<1> DEFINE type == IF StepType[StepOf(w)] = "wait" THEN "TIMER_SET" ELSE "APPROVAL_REQUESTED"
           want == IF Timed(StepOf(w))
                   THEN Order(Do(StepOf(w)), worker[w].attempt + 1, FALSE) ELSE <<>>
<1>1. /\ worker[w].pc = "parking"
      /\ Sync(After(w, type)) /\ Enqueue(want)
      /\ worker' = [worker EXCEPT ![w] = Idle]
      /\ UNCHANGED <<reaper, request>>
  BY DEF Park, At
<1>2. type \in StepEvent
  BY DEF StepEvent
<1> HIDE DEF type
<1>3. After(w, type) \in Context /\ StepOf(w) \in Step
  BY <1>1, <1>2, AfterTyped
<1>4. ctx' \in Context /\ run' \in RunState
  BY <1>1, <1>3, SyncTyped
<1>5. worker[w].attempt \in Nat
  BY DEF TInv, MemoryOK, Memory
<1>6. worker[w].attempt + 1 \in Nat \ {0}
  BY <1>5
<1>7. Orders(want)
  BY <1>3, <1>6, OrdersOfOne, OrdersOfNone, SlotOfTyped
<1> HIDE DEF want
<1> QED
  BY <1>1, <1>4, <1>7, RecordingOK

LEMMA RecordRetryOK == ASSUME TInv, NEW w \in Worker, RecordRetry(w) PROVE AsQueue /\ TInv'
<1> DEFINE c == ApplyEvent(After(w, "STEP_FAILED"), Event("STEP_RETRY_SCHEDULED", StepOf(w)))
           want == Order(worker[w].slot, NextTry(w), FALSE)
<1>1. /\ worker[w].pc = "recording"
      /\ Sync(c) /\ Enqueue(want)
      /\ worker' = [worker EXCEPT ![w] = Idle]
      /\ UNCHANGED <<reaper, request>>
  BY DEF RecordRetry, At
<1>2. /\ After(w, "STEP_FAILED") \in Context /\ StepOf(w) \in Step
      /\ worker[w].slot \in Slot
  BY <1>1, AfterTyped DEF StepEvent
<1>3. c \in Context
  BY <1>2, AfterStepEvent DEF StepEvent
<1> HIDE DEF c
<1>4. ctx' \in Context /\ run' \in RunState
  BY <1>1, <1>3, SyncTyped
<1>5. worker[w].attempt \in Nat
  BY DEF TInv, MemoryOK, Memory
<1>6. NextTry(w) \in Nat \ {0}
  BY <1>5 DEF NextTry
<1>7. Orders(want)
  BY <1>2, <1>6, OrdersOfOne
<1> HIDE DEF want
<1> QED
  BY <1>1, <1>4, <1>7, RecordingOK

LEMMA RecordOutcomeOK ==
    ASSUME TInv, NEW w \in Worker, RecordOutcome(w) PROVE AsQueue /\ TInv'
<1>1. /\ worker[w].pc = "recording"
      /\ worker' = [worker EXCEPT ![w] = Idle]
      /\ UNCHANGED <<reaper, request>>
  BY DEF RecordOutcome, At
<1>2. PICK log : /\ log \in {After(w, "STEP_SUCCEEDED"),
                             Unwind(After(w, "STEP_FAILED"), StepOf(w))}
                 /\ AdvanceRun(log, <<>>)
  BY DEF RecordOutcome
<1>3. log \in Context
  BY <1>1, <1>2, AfterTyped, Unwound DEF StepEvent
<1> QED
  BY <1>1, <1>2, <1>3, AdvancingOK

LEMMA RecordUndoOK == ASSUME TInv, NEW w \in Worker, RecordUndo(w) PROVE AsQueue /\ TInv'
<1>1. /\ worker[w].pc = "recording"
      /\ worker' = [worker EXCEPT ![w] = Idle]
      /\ UNCHANGED <<reaper, request>>
  BY DEF RecordUndo, At
<1>2. PICK type \in {"STEP_COMPENSATED", "COMPENSATION_FAILED"} :
        AdvanceRun(After(w, type), <<>>)
  BY DEF RecordUndo
<1>3. After(w, type) \in Context
  BY <1>1, AfterTyped DEF StepEvent
<1> QED
  BY <1>1, <1>2, <1>3, AdvancingOK

LEMMA WorkOK == ASSUME TInv, NEW w \in Worker, Work(w) PROVE AsQueue /\ TInv'
BY ClaimOK, LoadContextOK, RejectConfigOK, ReturnOK, FireTimerOK, StartStepOK, ExecuteOK,
   FinishOK, AbandonOK, ParkOK, RecordRetryOK, RecordOutcomeOK, RecordUndoOK
   DEF Work, Bookkeeping

\* A row alone changes.
LEMMA RowAsQueue ==
    ASSUME TInv, NEW t \in Pk, Queue!RowStep(t)
    PROVE  AsQueue /\ UNCHANGED <<hand, handed>>
<1>1. QueueOK' /\ RowsStay
  BY RowStepKeeps DEF TInv, QueueOK
<1>2. UNCHANGED <<hand, handed>>
  BY DEF Queue!RowStep, Queue!TimerDue, Queue!LeaseLapses, Queue!Reap, Queue!ReapPoisoned
<1> QED
  BY <1>1, <1>2 DEF AsQueue, Queue!Next

LEMMA RowStepOK == ASSUME TInv, NEW t \in Pk, RowStep(t) PROVE AsQueue /\ TInv'
<1>1. SlotOf[t][1] \in Step
  BY SlotOfTyped
<1>2. Queue!RowStep(t) /\ UNCHANGED <<worker, request>>
  BY DEF RowStep, TimerDue, LeaseLapses, Reap, ReapPoisoned, Queue!RowStep
<1>3. AsQueue /\ MemoryOK' /\ RequestsOK'
  BY <1>2, RowAsQueue, AllFit DEF AsQueue, TInv, RequestsOK
<1>4. CASE UNCHANGED <<runVars, reaper>>
  BY <1>3, <1>4 DEF TInv, AsQueue, runVars
<1>5. CASE Reap(t)
  BY <1>1, <1>3, <1>5 DEF Reap, TInv, AsQueue, runVars
<1>6. CASE ReapPoisoned(t)
  <2> DEFINE c == ApplyEvent(ctx, Event("STEP_FAILED", SlotOf[t][1]))
  <2>1. Sync(CloseIfFinished(c, c)) /\ UNCHANGED reaper
    BY <1>6 DEF ReapPoisoned
  <2>2. c \in Context
    BY <1>1, AfterStepEvent DEF StepEvent, TInv
  <2> HIDE DEF c
  <2>3. ctx' \in Context /\ run' \in RunState
    BY <2>1, <2>2, Closed, SyncTyped
  <2> QED
    BY <1>3, <2>1, <2>3 DEF TInv, AsQueue
<1> QED
  BY <1>4, <1>5, <1>6 DEF RowStep, TimerDue, LeaseLapses, Reap, ReapPoisoned

LEMMA AnnounceRecoveryOK == ASSUME TInv, AnnounceRecovery PROVE AsQueue /\ TInv'
<1>1. /\ reaper \in Step
      /\ ctx' = ApplyEvent(ctx, Event("STEP_RETRY_SCHEDULED", reaper))
      /\ reaper' = NoStep
      /\ UNCHANGED <<queueVars, run, worker, request>>
  BY DEF AnnounceRecovery, TInv
<1>2. ctx' \in Context
  BY <1>1, AfterStepEvent DEF StepEvent, TInv
<1>3. AsQueue /\ UNCHANGED hand
  BY <1>1, StutterAsQueue DEF TInv, queueVars
<1> QED
  BY <1>1, <1>2, <1>3, AllFit DEF TInv, AsQueue, RequestsOK

LEMMA ReaperDiesOK == ASSUME TInv, ReaperDies PROVE AsQueue /\ TInv'
<1>1. AsQueue /\ UNCHANGED <<hand, runVars, worker, request>> /\ reaper' = NoStep
  BY StutterAsQueue DEF ReaperDies, TInv, queueVars
<1> QED
  BY <1>1, AllFit DEF TInv, AsQueue, runVars, RequestsOK

LEMMA StutterOK == ASSUME TInv, UNCHANGED vars PROVE AsQueue /\ TInv'
<1>1. AsQueue /\ UNCHANGED <<hand, runVars, worker, reaper, request>>
  BY StutterAsQueue DEF vars, TInv, queueVars
<1> QED
  BY <1>1, AllFit DEF TInv, AsQueue, runVars, RequestsOK

\* Every step of a run is one of the queue, or leaves the queue alone, and keeps
\* the types.
LEMMA NextOK == TInv /\ [Next]_vars => AsQueue /\ TInv'
<1> SUFFICES ASSUME TInv, [Next]_vars PROVE AsQueue /\ TInv'
  OBVIOUS
<1>1. ASSUME NEW w \in Worker, Work(w) \/ Heartbeat(w) \/ Crash(w)
      PROVE  AsQueue /\ TInv'
  BY <1>1, WorkOK, HeartbeatOK, CrashOK
<1>2. ASSUME NEW a \in Actor, Approvals(a) PROVE AsQueue /\ TInv'
  BY <1>2, CheckApprovalOK, ResolveApprovalOK DEF Approvals
<1> QED
  BY <1>1, <1>2, StartRunOK, RowStepOK, AnnounceRecoveryOK, ReaperDiesOK, StutterOK DEF Next

LEMMA InitOK == Init => TInv /\ Queue!Init
<1> SUFFICES ASSUME Init PROVE TInv /\ Queue!Init
  OBVIOUS
<1>1. QueueOK
  BY NoTaskAssumption
     DEF Init, Queue!Init, QueueOK, Queue!TypeOK, HandsHold, Queue!Present
<1>2. ctx \in Context
  <2>1. <<>> \in Seq(Step)
    OBVIOUS
  <2> QED
    BY <2>1 DEF Init, NewContext, Context, RunState, StepSlot, StepStatus
<1>3. MemoryOK
  <2>1. Idle \in Memory
    BY DEF Idle, Memory, Do
  <2>2. \A w \in Worker : worker[w] = Idle /\ hand[w] = NoTask
    BY DEF Init, Queue!Init
  <2> QED
    BY <2>1, <2>2 DEF Init, MemoryOK, Fits, Idle, Forward
<1>4. RequestsOK
  BY DEF Init, RequestsOK, NewRequest, Asked
<1> QED
  BY <1>1, <1>2, <1>3, <1>4 DEF Init, TInv, RunState

------------------------------------------------------------------------------
\* For every workflow, every set of faults and every bound: the variables of a run
\* have their types, and what a worker has in memory agrees with the row it has in
\* hand (claim_task, execute_task, finish_task_if_owned).
THEOREM TypeCorrect == Spec => []TypeOK
<1>1. TInv => TypeOK
  BY DEF TInv, TypeOK, QueueOK, MemoryOK, Fits, RequestsOK, Asked
<1> QED
  BY <1>1, InitOK, NextOK, PTL DEF Spec

\* A run is a user of the task queue: whatever its workers, its requests and its
\* reaper do to the tasks table, TaskQueue allows it.  Every property TaskQueueProofs
\* proves of TaskQueue - fencing, the soundness of lost heartbeats, fresh keys on
\* redelivery, the finality of DONE - is therefore one of the rows of a run.
THEOREM RunUsesQueue == Spec => Queue!Spec
<1>1. TInv /\ [Next]_vars => [Queue!Next]_(Queue!vars) /\ TInv'
  BY NextOK DEF AsQueue, queueVars, Queue!vars
<1> QED
  BY <1>1, InitOK, PTL DEF Spec, Queue!Spec

------------------------------------------------------------------------------
(* What a run never does, for every workflow, every number of workers and  *)
(* of approval requests, every set of faults and every bound.              *)

------------------------------------------------------------------------------
(* The log.                                                                *)

\* A step that has left PENDING, or has ever succeeded, was allowed to start; an
\* unwind is under way or over.
LogOK(c) ==
    /\ \A s \in Step : c.steps[s].status # "PENDING" => Needs[s] \subseteq Range(c.order)
    /\ \A s \in Range(c.order) : Needs[s] \subseteq Range(c.order)
    /\ \A s \in Step : c.steps[s].status = "SUCCEEDED" => s \in Range(c.order)
    /\ c.compensating => c.status \in {"COMPENSATING", "FAILED"}

\* How one log may follow another.
Onward(c, d) ==
    /\ d \in Context /\ LogOK(d)
    /\ Range(c.order) \subseteq Range(d.order)
    /\ c.compensating => d.compensating
    /\ c.status \in TerminalRunStates => d.status \in TerminalRunStates \/ d.compensating
    /\ c.status # "PENDING" => d.status # "PENDING"

LEMMA OnwardTransitive ==
    \A c, d, e : Onward(c, d) /\ Onward(d, e) => Onward(c, e)
BY DEF Onward

LEMMA OnwardEvent ==
    ASSUME NEW c \in Context, LogOK(c), NEW s \in Step, NEW type \in StepEvent,
           Needs[s] \subseteq Range(c.order)
    PROVE  Onward(c, ApplyEvent(c, Event(type, s)))
<1> DEFINE d == ApplyEvent(c, Event(type, s))
<1>1. /\ d \in Context
      /\ d.status = c.status /\ d.compensating = c.compensating
      /\ d.steps[s] = ApplyToSlot(c.steps[s], type)
      /\ \A r \in Step \ {s} : d.steps[r] = c.steps[r]
      /\ Range(d.order) = Range(c.order) \cup (IF type = "STEP_SUCCEEDED" THEN {s} ELSE {})
  BY AfterStepEvent
<1> HIDE DEF d
<1>2. c.steps[s] \in StepSlot
  BY DEF Context
<1>3. d.steps[s].status = "SUCCEEDED" => c.steps[s].status = "SUCCEEDED" \/ type = "STEP_SUCCEEDED"
  BY <1>1, <1>2, SlotAfter
<1>4. Range(c.order) \subseteq Range(d.order)
  BY <1>1
<1>5. \A r \in Step : d.steps[r].status # "PENDING" => Needs[r] \subseteq Range(d.order)
  BY <1>1, <1>4 DEF LogOK
<1>6. \A r \in Range(d.order) : Needs[r] \subseteq Range(d.order)
  BY <1>1, <1>4 DEF LogOK
<1>7. \A r \in Step : d.steps[r].status = "SUCCEEDED" => r \in Range(d.order)
  BY <1>1, <1>3, <1>4 DEF LogOK
<1> QED
  BY <1>1, <1>4, <1>5, <1>6, <1>7 DEF Onward, LogOK, d

LEMMA OnwardUnwind ==
    ASSUME NEW c \in Context, LogOK(c), NEW s \in Step
    PROVE  Onward(c, Unwind(c, s))
<1> DEFINE d == Unwind(c, s)
<1>1. /\ d \in Context /\ d.steps = c.steps /\ d.order = c.order
      /\ \/ d = c
         \/ d.compensating /\ d.status = "COMPENSATING"
  BY Unwound
<1> HIDE DEF d
<1> QED
  BY <1>1 DEF Onward, LogOK, TerminalRunStates, d

\* Scheduling a ready step: what it needs has succeeded.
LEMMA ReadyIsCleared ==
    ASSUME NEW c \in Context, LogOK(c), NEW s \in ReadySteps(c)
    PROVE  /\ s \in Step /\ Needs[s] \subseteq Range(c.order)
           /\ c.steps[s].status = "PENDING"
           /\ ~c.compensating /\ c.status \notin TerminalRunStates
BY DEF ReadySteps, StepsWithStatus, LogOK

LEMMA OnwardSchedule ==
    ASSUME NEW c \in Context, LogOK(c), NEW d \in Context,
           d.status = c.status, d.compensating = c.compensating, d.order = c.order,
           \A s \in Step :
              \/ d.steps[s] = c.steps[s]
              \/ /\ s \in ReadySteps(c)
                 /\ d.steps[s] = ApplyToSlot(c.steps[s], "STEP_SCHEDULED")
    PROVE  Onward(c, d)
<1>1. \A s \in Step : d.steps[s].status = "SUCCEEDED" => c.steps[s].status = "SUCCEEDED"
  BY SlotAfter DEF Context
<1>2. \A s \in Step : d.steps[s].status # "PENDING" => Needs[s] \subseteq Range(c.order)
  BY ReadyIsCleared DEF LogOK
<1> QED
  BY <1>1, <1>2 DEF Onward, LogOK

LEMMA OnwardMark ==
    ASSUME NEW c \in Context, LogOK(c)
    PROVE  Onward(c, MarkScheduled(c))
<1> DEFINE d == MarkScheduled(c)
<1>1. /\ d \in Context
      /\ d.status = c.status /\ d.compensating = c.compensating /\ d.order = c.order
      /\ \A s \in Step :
              \/ d.steps[s] = c.steps[s]
              \/ /\ s \in ReadySteps(c)
                 /\ d.steps[s] = ApplyToSlot(c.steps[s], "STEP_SCHEDULED")
  BY Marked
<1> HIDE DEF d
<1> QED
  BY <1>1, OnwardSchedule DEF d

\* An end that is recorded is the one that was due.
LEMMA OnwardEnd ==
    ASSUME NEW c \in Context, LogOK(c), NEW d \in Context,
           d.steps = c.steps, d.order = c.order, d.compensating = c.compensating,
           \/ d.status = c.status
           \/ /\ c.status \notin TerminalRunStates
              /\ d.status \in {"SUCCEEDED", "FAILED"}
              /\ c.compensating => d.status = "FAILED"
    PROVE  Onward(c, d)
BY DEF Onward, LogOK, TerminalRunStates

\* How advance_run and close_run_if_finished go on from a log: they schedule what
\* is ready, or record the end if it is due.
Continues(c, d) ==
    /\ d.compensating = c.compensating
    /\ d.order = c.order
    /\ \A s \in Step : \/ d.steps[s] = c.steps[s]
                        \/ /\ s \in ReadySteps(c)
                           /\ d.steps[s] = ApplyToSlot(c.steps[s], "STEP_SCHEDULED")
    /\ \/ d.status = c.status
       \/ /\ c.status \notin TerminalRunStates
          /\ d.status = NextRunState(c)
          /\ d.status \in {"SUCCEEDED", "FAILED"}
    /\ d.status \notin TerminalRunStates => NextRunState(c) \notin TerminalRunStates

LEMMA OnwardGoesOn ==
    ASSUME NEW c \in Context, LogOK(c), NEW d \in Context, Continues(c, d)
    PROVE  Onward(c, d)
<1> DEFINE marked == [c EXCEPT !.steps = d.steps]
<1>1. /\ marked \in Context
      /\ marked.status = c.status /\ marked.compensating = c.compensating
      /\ marked.order = c.order /\ marked.steps = d.steps
  BY DEF Context
<1> HIDE DEF marked
<1>2. Onward(c, marked)
  BY <1>1, OnwardSchedule DEF Continues
<1>3. c.compensating /\ c.status \notin TerminalRunStates => NextRunState(c) # "SUCCEEDED"
  BY NextRunStateTyped
<1>4. Onward(marked, d)
  BY <1>1, <1>2, <1>3, OnwardEnd DEF Continues, Onward
<1> QED
  BY <1>2, <1>4, OnwardTransitive

------------------------------------------------------------------------------
(* What a step of the run does to its log and to its rows.                 *)

Cleared(s) == Needs[s] \subseteq Succeeded

\* Some row of the step or of its undo exists.
HasRow(s) == \E t \in Pk : SlotOf[t][1] = s /\ Queue!Present(t)

\* Whoever may write about a step does so because of a row: a worker the one it
\* took, a request the one that parked the step, the reaper the one it recovered.
Backed ==
    /\ \A w \in Worker : worker[w].pc # "idle" => ~Rowless(worker[w].slot)
    /\ \A s \in Step : ctx.steps[s].approvalRequested => ~Rowless(Do(s))
    /\ \A a \in Actor : request[a].pc = "checked" => ~Rowless(Do(request[a].step))
    /\ reaper # NoStep => HasRow(reaper)

NoNewRows == \A t \in Pk : Queue!Present(t)' => Queue!Present(t)

\* A step that leaves the log and its projection alone.
Quiet == NoNewRows /\ UNCHANGED runVars

\* The events after which nobody asks whether the run is over.
Interim == {"STEP_STARTED", "STEP_RETRY_SCHEDULED", "TIMER_SET", "TIMER_FIRED",
            "APPROVAL_REQUESTED"}

\* A step that appends an event about a step: c is the log with that event, and with
\* the turn of the run if the event is a failure that turns it round.  Rows are
\* inserted for slots that have one, and for what advance_run queues.
Writes(type, s, c) ==
    /\ type \in StepEvent /\ s \in Step /\ HasRow(s)
    /\ \/ c = ApplyEvent(ctx, Event(type, s))
       \/ /\ type \in {"STEP_FAILED", "APPROVAL_DENIED"}
          /\ c = Unwind(ApplyEvent(ctx, Event(type, s)), s)
    /\ ctx' \in Context
    /\ \/ type \in Interim /\ ctx' = c /\ run' \in {run, NextRunState(ctx')}
       \/ Continues(c, ctx') /\ run' = NextRunState(ctx')
    /\ \A t \in Pk : Queue!Present(t)' =>
        Queue!Present(t) \/ ~Rowless(SlotOf[t]) \/ SlotOf[t] \in NextWork(c)
    /\ type = "APPROVAL_REQUESTED" => ~Rowless(Do(s))

LEMMA HasRowOf ==
    ASSUME NEW slot \in Slot, ~Rowless(slot)
    PROVE  HasRow(slot[1])
BY DEF Rowless, Rows, HasRow

\* Whatever the queue does apart from inserting rows inserts none.
LEMMA QueueInsertsNone ==
    ASSUME QueueOK,
           \/ UNCHANGED queueVars
           \/ \E w \in Worker : Queue!WorkerStep(w)
           \/ \E t \in Pk : Queue!RowStep(t)
    PROVE  NoNewRows
<1>1. /\ task \in [Pk -> Queue!Row \cup {NoRow}]
      /\ \A w \in Worker : hand[w] # NoTask => hand[w] \in Pk /\ Queue!Present(hand[w])
  BY DEF QueueOK, HandsHold, Queue!TypeOK
<1>2. CASE UNCHANGED queueVars
  BY <1>2 DEF queueVars, NoNewRows, Queue!Present
<1>3. ASSUME NEW t \in Pk, NEW row, Queue!Present(t), task' = [task EXCEPT ![t] = row]
      PROVE  NoNewRows
  BY <1>1, <1>3 DEF NoNewRows, Queue!Present
<1>4. ASSUME NEW w \in Worker, Queue!WorkerStep(w) PROVE NoNewRows
  <2>1. CASE \E t \in Pk : Queue!ClaimTask(w, t)
    BY <1>3, <2>1 DEF Queue!ClaimTask
  <2>2. CASE Queue!RenewLease(w)
    <3>1. \/ UNCHANGED task
          \/ task' = [task EXCEPT ![hand[w]] = Queue!Renewed(task[hand[w]])]
      BY <2>2 DEF Queue!RenewLease
    <3>2. hand[w] # NoTask
      BY <2>2 DEF Queue!RenewLease
    <3> QED
      BY <1>1, <1>3, <3>1, <3>2 DEF NoNewRows, Queue!Present
  <2>3. CASE Queue!FinishTaskIfOwned(w)
    BY <1>1, <1>3, <2>3 DEF Queue!FinishTaskIfOwned
  <2>4. CASE Queue!Abandon(w) \/ Queue!Crash(w)
    BY <2>4 DEF Queue!Abandon, Queue!Crash, NoNewRows, Queue!Present
  <2> QED
    BY <1>4, <2>1, <2>2, <2>3, <2>4 DEF Queue!WorkerStep
<1>5. ASSUME NEW t \in Pk, Queue!RowStep(t) PROVE NoNewRows
  BY <1>3, <1>5 DEF Queue!RowStep, Queue!TimerDue, Queue!LeaseLapses, Queue!Reap,
                    Queue!ReapPoisoned
<1> QED
  BY <1>2, <1>4, <1>5

\* What a worker works on has a row.
LEMMA WorkerBacked ==
    ASSUME TInv, Backed, NEW w \in Worker, worker[w].pc # "idle"
    PROVE  /\ worker[w].slot \in Slot /\ StepOf(w) \in Step
           /\ ~Rowless(worker[w].slot) /\ HasRow(StepOf(w))
           /\ ~Undoing(w) => worker[w].slot = Do(StepOf(w))
<1>1. worker[w].slot \in Slot /\ ~Rowless(worker[w].slot)
  BY DEF TInv, MemoryOK, Fits, Backed
<1>2. HasRow(worker[w].slot[1])
  BY <1>1, HasRowOf
<1> QED
  BY <1>1, <1>2, SlotOfTyped DEF StepOf, Undoing, Do

LEMMA QuietSteps ==
    ASSUME TInv,
           \/ UNCHANGED vars
           \/ \E w \in Worker : \/ Claim(w) \/ LoadContext(w) \/ Return(w) \/ Execute(w)
                                \/ Heartbeat(w) \/ Finish(w) \/ Abandon(w) \/ Crash(w)
           \/ \E a \in Actor, s \in Step, approve \in BOOLEAN : CheckApproval(a, s, approve)
           \/ \E t \in Pk : TimerDue(t) \/ LeaseLapses(t) \/ Reap(t)
           \/ ReaperDies
    PROVE  Quiet
<1>1. QueueOK
  BY DEF TInv
<1>2. CASE UNCHANGED vars
  BY <1>1, <1>2, QueueInsertsNone DEF vars, Quiet
<1>3. ASSUME NEW w \in Worker,
             \/ Claim(w) \/ LoadContext(w) \/ Return(w) \/ Execute(w)
             \/ Heartbeat(w) \/ Finish(w) \/ Abandon(w) \/ Crash(w)
      PROVE  Quiet
  <2>1. Queue!WorkerStep(w) \/ UNCHANGED queueVars
    BY <1>3 DEF Claim, LoadContext, Return, Execute, CallReturns, Heartbeat, Finish, Abandon,
                Crash, Queue!WorkerStep
  <2>2. UNCHANGED runVars
    BY <1>3 DEF Claim, LoadContext, Return, Execute, CallReturns, Heartbeat, Finish, Abandon,
                Crash
  <2> QED
    BY <1>1, <2>1, <2>2, QueueInsertsNone DEF Quiet
<1>4. ASSUME NEW a \in Actor, NEW s \in Step, NEW approve \in BOOLEAN,
             CheckApproval(a, s, approve)
      PROVE  Quiet
  BY <1>1, <1>4, QueueInsertsNone DEF CheckApproval, Quiet
<1>5. ASSUME NEW t \in Pk, TimerDue(t) \/ LeaseLapses(t) \/ Reap(t) PROVE Quiet
  BY <1>1, <1>5, QueueInsertsNone DEF TimerDue, LeaseLapses, Reap, Queue!RowStep, Quiet
<1>6. CASE ReaperDies
  BY <1>1, <1>6, QueueInsertsNone DEF ReaperDies, Quiet
<1> QED
  BY <1>2, <1>3, <1>4, <1>5, <1>6

\* A transaction that ends with advance_run.
LEMMA AdvanceWrites ==
    ASSUME TInv, NEW s \in Step, HasRow(s), NEW type \in StepEvent,
           type # "APPROVAL_REQUESTED",
           NEW c \in Context,
           \/ c = ApplyEvent(ctx, Event(type, s))
           \/ /\ type \in {"STEP_FAILED", "APPROVAL_DENIED"}
              /\ c = Unwind(ApplyEvent(ctx, Event(type, s)), s),
           NEW also, Orders(also), \A slot \in DOMAIN also : ~Rowless(slot),
           AdvanceRun(c, also)
    PROVE  Writes(type, s, c)
<1>1. Queue!TypeOK
  BY DEF TInv, QueueOK
<1>2. /\ ctx' \in Context /\ run' = NextRunState(ctx') /\ Continues(c, ctx')
      /\ \E want : /\ Orders(want) /\ Enqueue(want)
                   /\ DOMAIN want = DOMAIN also \cup NextWork(c)
  BY <1>1, Advanced DEF Continues
<1>3. \A t \in Pk : Queue!Present(t)' =>
        Queue!Present(t) \/ SlotOf[t] \in DOMAIN also \cup NextWork(c)
  BY <1>1, <1>2, EnqueueInserts
<1> QED
  BY <1>2, <1>3 DEF Writes

\* A worker that notes an event, and nothing else.
LEMMA NoteWrites ==
    ASSUME TInv, Backed, NEW w \in Worker, worker[w].pc # "idle",
           NEW type \in Interim \ {"APPROVAL_REQUESTED"}, ctx' = After(w, type),
           UNCHANGED <<queueVars, run>>
    PROVE  Writes(type, StepOf(w), ctx')
<1>1. type \in StepEvent
  BY DEF Interim, StepEvent
<1>2. ctx' \in Context /\ StepOf(w) \in Step /\ HasRow(StepOf(w))
  BY <1>1, AfterTyped, WorkerBacked
<1>3. NoNewRows
  BY QueueInsertsNone DEF TInv
<1> QED
  BY <1>1, <1>2, <1>3 DEF Writes, NoNewRows, After

\* A worker that leaves its step to another row of the same slot.
LEMMA PostponeWrites ==
    ASSUME TInv, Backed, NEW w \in Worker, worker[w].pc # "idle",
           NEW type \in Interim, Sync(After(w, type)),
           type = "APPROVAL_REQUESTED" => worker[w].slot = Do(StepOf(w)),
           NEW want, Orders(want), Enqueue(want), DOMAIN want \subseteq {worker[w].slot}
    PROVE  Writes(type, StepOf(w), ctx')
<1>1. type \in StepEvent
  BY DEF Interim, StepEvent
<1>2. /\ After(w, type) \in Context /\ StepOf(w) \in Step /\ HasRow(StepOf(w))
      /\ ~Rowless(worker[w].slot)
  BY <1>1, AfterTyped, WorkerBacked
<1>3. \A t \in Pk : Queue!Present(t)' => Queue!Present(t) \/ SlotOf[t] = worker[w].slot
  BY EnqueueInserts DEF TInv, QueueOK
<1> QED
  BY <1>1, <1>2, <1>3 DEF Writes, Sync, After

\* schedule_retry appends two events; the second one hides what the first one did.
LEMMA RetryIsOneEvent ==
    ASSUME NEW c \in Context, NEW s \in Step
    PROVE  ApplyEvent(ApplyEvent(c, Event("STEP_FAILED", s)),
                      Event("STEP_RETRY_SCHEDULED", s))
             = ApplyEvent(c, Event("STEP_RETRY_SCHEDULED", s))
<1> DEFINE d == ApplyEvent(c, Event("STEP_FAILED", s))
<1>1. /\ c.compensating \in BOOLEAN /\ c.order \in Seq(Step)
      /\ c.steps \in [Step -> StepSlot]
  BY DEF Context
<1>2. /\ "STEP_FAILED" \notin DOMAIN RunStatusAfter
      /\ "STEP_RETRY_SCHEDULED" \notin DOMAIN RunStatusAfter
      /\ "STEP_RETRY_SCHEDULED" \in DOMAIN StepStatusAfter
  BY DEF RunStatusAfter, StepStatusAfter
<1>3. /\ d.status = c.status /\ d.compensating = c.compensating /\ d.order = c.order
      /\ d.steps = [r \in Step |-> IF r = s THEN ApplyToSlot(c.steps[r], "STEP_FAILED")
                                            ELSE c.steps[r]]
  BY <1>1, <1>2 DEF ApplyEvent, Event
<1>4. \A slot \in StepSlot :
        ApplyToSlot(ApplyToSlot(slot, "STEP_FAILED"), "STEP_RETRY_SCHEDULED")
          = ApplyToSlot(slot, "STEP_RETRY_SCHEDULED")
  <2> TAKE slot \in StepSlot
  <2> DEFINE failed == ApplyToSlot(slot, "STEP_FAILED")
             again == ApplyToSlot(failed, "STEP_RETRY_SCHEDULED")
             once == ApplyToSlot(slot, "STEP_RETRY_SCHEDULED")
  <2>1. /\ failed \in StepSlot
        /\ failed.compensated <=> slot.compensated
        /\ failed.compensationFailed <=> slot.compensationFailed
        /\ failed.approvalRequested <=> slot.approvalRequested
        /\ failed.approved <=> slot.approved
    BY SlotAfter, MarksAfter
  <2> HIDE DEF failed
  <2>2. /\ again \in StepSlot /\ once \in StepSlot
        /\ again.compensated <=> once.compensated
        /\ again.compensationFailed <=> once.compensationFailed
        /\ again.approvalRequested <=> once.approvalRequested
        /\ again.approved <=> once.approved
    BY <2>1, SlotAfter, MarksAfter
  <2>3. again.status = once.status
    BY <1>2, <2>1 DEF ApplyToSlot, StepSlot
  <2> HIDE DEF again, once
  <2>4. again = once
    BY <2>2, <2>3 DEF StepSlot
  <2> QED
    BY <2>4 DEF again, once, failed
<1> HIDE DEF d
<1>5. [r \in Step |-> IF r = s THEN ApplyToSlot(d.steps[r], "STEP_RETRY_SCHEDULED")
                               ELSE d.steps[r]]
        = [r \in Step |-> IF r = s THEN ApplyToSlot(c.steps[r], "STEP_RETRY_SCHEDULED")
                                   ELSE c.steps[r]]
  BY <1>1, <1>3, <1>4
<1>6. ApplyEvent(d, Event("STEP_RETRY_SCHEDULED", s))
        = ApplyEvent(c, Event("STEP_RETRY_SCHEDULED", s))
  BY <1>1, <1>2, <1>3, <1>5 DEF ApplyEvent, Event
<1> QED
  BY <1>6 DEF d

LEMMA FireTimerWrites ==
    ASSUME TInv, Backed, NEW w \in Worker, FireTimer(w)
    PROVE  Writes("TIMER_FIRED", StepOf(w), ctx')
BY NoteWrites DEF FireTimer, At, Interim

LEMMA StartStepWrites ==
    ASSUME TInv, Backed, NEW w \in Worker, StartStep(w)
    PROVE  Writes("STEP_STARTED", StepOf(w), ctx')
BY NoteWrites DEF StartStep, At, Interim

LEMMA AnnounceRecoveryWrites ==
    ASSUME TInv, Backed, AnnounceRecovery
    PROVE  Writes("STEP_RETRY_SCHEDULED", reaper, ctx')
<1>1. /\ reaper \in Step /\ HasRow(reaper)
      /\ ctx' = ApplyEvent(ctx, Event("STEP_RETRY_SCHEDULED", reaper))
      /\ UNCHANGED <<queueVars, run>>
  BY DEF AnnounceRecovery, TInv, Backed
<1>2. NoNewRows
  BY <1>1, QueueInsertsNone DEF TInv
<1>3. ctx' \in Context
  BY <1>1, AfterStepEvent DEF StepEvent, TInv
<1> QED
  BY <1>1, <1>2, <1>3 DEF Writes, NoNewRows, StepEvent, Interim

LEMMA ReapPoisonedWrites ==
    ASSUME TInv, NEW t \in Pk, ReapPoisoned(t)
    PROVE  Writes("STEP_FAILED", SlotOf[t][1],
                  ApplyEvent(ctx, Event("STEP_FAILED", SlotOf[t][1])))
<1> DEFINE s == SlotOf[t][1]
           c == ApplyEvent(ctx, Event("STEP_FAILED", s))
<1>1. s \in Step /\ HasRow(s)
  BY SlotOfTyped DEF ReapPoisoned, Queue!ReapPoisoned, HasRow
<1>2. NoNewRows
  BY QueueInsertsNone DEF ReapPoisoned, Queue!RowStep, TInv
<1>3. c \in Context
  BY <1>1, AfterStepEvent DEF StepEvent, TInv
<1>4. ctx' = CloseIfFinished(c, c) /\ run' = NextRunState(ctx')
  BY DEF ReapPoisoned, Sync
<1>5. c = ApplyEvent(ctx, Event("STEP_FAILED", s))
  OBVIOUS
<1> HIDE DEF c, s
<1>6. ctx' \in Context /\ Continues(c, ctx')
  BY <1>3, <1>4, Closed DEF Continues
<1>7. Writes("STEP_FAILED", s, c)
  BY <1>1, <1>2, <1>4, <1>5, <1>6 DEF Writes, NoNewRows, StepEvent
<1> QED
  BY <1>7 DEF c, s

LEMMA ParkWrites ==
    ASSUME TInv, Backed, NEW w \in Worker, Park(w)
    PROVE  \E type \in Interim : Writes(type, StepOf(w), ctx')
<1> DEFINE type == IF StepType[StepOf(w)] = "wait" THEN "TIMER_SET" ELSE "APPROVAL_REQUESTED"
           want == IF Timed(StepOf(w))
                   THEN Order(Do(StepOf(w)), worker[w].attempt + 1, FALSE) ELSE <<>>
<1>1. worker[w].pc = "parking" /\ Sync(After(w, type)) /\ Enqueue(want)
  BY DEF Park, At
<1>2. type \in Interim
  BY DEF Interim
<1> HIDE DEF type
<1>3. ~Undoing(w)
  BY <1>1 DEF TInv, MemoryOK, Fits, Forward
<1>4. StepOf(w) \in Step /\ worker[w].slot = Do(StepOf(w))
  BY <1>1, <1>3, WorkerBacked
<1>5. worker[w].attempt \in Nat
  BY DEF TInv, MemoryOK, Memory
<1>6. worker[w].attempt + 1 \in Nat \ {0}
  BY <1>5
<1>7. Orders(want) /\ DOMAIN want \subseteq {worker[w].slot}
  BY <1>4, <1>6, OrdersOfOne, OrdersOfNone, SlotOfTyped
<1> HIDE DEF want
<1> QED
  BY <1>1, <1>2, <1>4, <1>7, PostponeWrites

LEMMA RecordRetryWrites ==
    ASSUME TInv, Backed, NEW w \in Worker, RecordRetry(w)
    PROVE  Writes("STEP_RETRY_SCHEDULED", StepOf(w), ctx')
<1> DEFINE want == Order(worker[w].slot, NextTry(w), FALSE)
<1>1. /\ worker[w].pc = "recording" /\ Enqueue(want)
      /\ Sync(ApplyEvent(After(w, "STEP_FAILED"), Event("STEP_RETRY_SCHEDULED", StepOf(w))))
  BY DEF RecordRetry, At
<1>2. StepOf(w) \in Step /\ worker[w].slot \in Slot
  BY <1>1, WorkerBacked
<1>3. Sync(After(w, "STEP_RETRY_SCHEDULED"))
  BY <1>1, <1>2, RetryIsOneEvent DEF After, TInv
<1>4. worker[w].attempt \in Nat
  BY DEF TInv, MemoryOK, Memory
<1>5. NextTry(w) \in Nat \ {0}
  BY <1>4 DEF NextTry
<1>6. Orders(want) /\ DOMAIN want = {worker[w].slot}
  BY <1>2, <1>5, OrdersOfOne
<1> HIDE DEF want
<1> QED
  BY <1>1, <1>3, <1>6, PostponeWrites DEF Interim

\* A failure, and the turn it may bring.
LEMMA FailWrites ==
    ASSUME TInv, NEW s \in Step, HasRow(s), NEW type \in {"STEP_FAILED", "APPROVAL_DENIED"},
           AdvanceRun(Unwind(ApplyEvent(ctx, Event(type, s)), s), <<>>)
    PROVE  Writes(type, s, Unwind(ApplyEvent(ctx, Event(type, s)), s))
<1> DEFINE d == ApplyEvent(ctx, Event(type, s))
           c == Unwind(d, s)
<1>1. type \in StepEvent
  BY DEF StepEvent
<1>2. d \in Context
  BY <1>1, AfterStepEvent DEF TInv
<1>3. c \in Context
  BY <1>2, Unwound
<1> HIDE DEF c
<1>4. c = Unwind(ApplyEvent(ctx, Event(type, s)), s)
  BY DEF c
<1>5. AdvanceRun(c, <<>>)
  BY DEF c
<1>6. Orders(<<>>) /\ DOMAIN <<>> = {}
  BY OrdersOfNone
<1>7. Writes(type, s, c)
  BY <1>1, <1>3, <1>4, <1>5, <1>6, AdvanceWrites
<1> QED
  BY <1>7 DEF c

\* An outcome that turns nothing round.
LEMMA OutcomeWrites ==
    ASSUME TInv, NEW s \in Step, HasRow(s),
           NEW type \in {"STEP_SUCCEEDED", "STEP_COMPENSATED", "COMPENSATION_FAILED"},
           AdvanceRun(ApplyEvent(ctx, Event(type, s)), <<>>)
    PROVE  Writes(type, s, ApplyEvent(ctx, Event(type, s)))
<1>1. type \in StepEvent /\ type # "APPROVAL_REQUESTED"
  BY DEF StepEvent
<1>2. ApplyEvent(ctx, Event(type, s)) \in Context
  BY <1>1, AfterStepEvent DEF TInv
<1>3. Orders(<<>>) /\ DOMAIN <<>> = {}
  BY OrdersOfNone
<1> QED
  BY <1>1, <1>2, <1>3, AdvanceWrites

LEMMA RejectConfigWrites ==
    ASSUME TInv, Backed, NEW w \in Worker, RejectConfig(w)
    PROVE  \E c : Writes("STEP_FAILED", StepOf(w), c)
BY WorkerBacked, FailWrites DEF RejectConfig, At, After

LEMMA RecordOutcomeWrites ==
    ASSUME TInv, Backed, NEW w \in Worker, RecordOutcome(w)
    PROVE  \E c : \/ worker[w].ok /\ Writes("STEP_SUCCEEDED", StepOf(w), c)
                  \/ ~worker[w].ok /\ Writes("STEP_FAILED", StepOf(w), c)
BY WorkerBacked, OutcomeWrites, FailWrites DEF RecordOutcome, At, After

LEMMA RecordUndoWrites ==
    ASSUME TInv, Backed, NEW w \in Worker, RecordUndo(w)
    PROVE  \E type \in {"STEP_COMPENSATED", "COMPENSATION_FAILED"} :
                \E c : Writes(type, StepOf(w), c)
BY WorkerBacked, OutcomeWrites DEF RecordUndo, At, After

LEMMA ResolveApprovalWrites ==
    ASSUME TInv, Backed, NEW a \in Actor, ResolveApproval(a)
    PROVE  \E c : Writes(IF request[a].approve THEN "APPROVAL_GRANTED" ELSE "APPROVAL_DENIED",
                         request[a].step, c)
<1> DEFINE s == request[a].step
           granted == ApplyEvent(ctx, Event("APPROVAL_GRANTED", s))
           want == Order(Do(s), NextAttempt(Do(s)), TRUE)
<1>1. /\ request[a].pc = "checked" /\ s \in Step /\ ~Rowless(Do(s))
      /\ IF request[a].approve THEN AdvanceRun(granted, want)
         ELSE AdvanceRun(Unwind(ApplyEvent(ctx, Event("APPROVAL_DENIED", s)), s), <<>>)
  BY DEF ResolveApproval, TInv, RequestsOK, Backed
<1>2. HasRow(s)
  <2>1. Do(s) \in Slot /\ Do(s)[1] = s
    BY <1>1, SlotOfTyped DEF Do
  <2> QED
    BY <1>1, <2>1, HasRowOf
<1>3. CASE request[a].approve
  <2>1. granted \in Context
    BY <1>1, AfterStepEvent DEF TInv, StepEvent
  <2>2. NextAttempt(Do(s)) \in Nat \ {0}
    BY NextAttemptTyped DEF TInv, QueueOK
  <2>3. Orders(want) /\ DOMAIN want = {Do(s)}
    BY <1>1, <2>2, OrdersOfOne, SlotOfTyped
  <2>4. AdvanceRun(granted, want) /\ granted = ApplyEvent(ctx, Event("APPROVAL_GRANTED", s))
    BY <1>1, <1>3
  <2> HIDE DEF want, granted
  <2>5. Writes("APPROVAL_GRANTED", s, granted)
    BY <1>1, <1>2, <2>1, <2>3, <2>4, AdvanceWrites DEF StepEvent
  <2> QED
    BY <1>3, <2>5
<1>4. CASE ~request[a].approve
  BY <1>1, <1>2, <1>4, FailWrites
<1> QED
  BY <1>3, <1>4

\* Who appends the events that decide: a success, the end of an undo, a question and
\* a decision.
AppendedBy(type, s) ==
    /\ type = "APPROVAL_REQUESTED" => \E w \in Worker : Park(w) /\ StepOf(w) = s
    /\ type = "STEP_SUCCEEDED" =>
        \E w \in Worker : /\ worker[w].pc = "recording" /\ worker[w].ok
                         /\ ~Undoing(w) /\ StepOf(w) = s
    /\ type \in {"STEP_COMPENSATED", "COMPENSATION_FAILED"} =>
        \E w \in Worker : worker[w].pc = "recording" /\ Undoing(w) /\ StepOf(w) = s
    /\ type \in {"APPROVAL_GRANTED", "APPROVAL_DENIED"} =>
        \E a \in Actor : /\ ResolveApproval(a) /\ request[a].step = s
                         /\ request[a].approve <=> type = "APPROVAL_GRANTED"

\* Every step is quiet, starts the run, or writes about one step.
LEMMA EveryStep ==
    ASSUME TInv, Backed, [Next]_vars
    PROVE  Quiet \/ StartRun \/ \E type, s, c : Writes(type, s, c) /\ AppendedBy(type, s)
<1> DEFINE Goal == Quiet \/ \E type, s, c : Writes(type, s, c) /\ AppendedBy(type, s)
<1>1. ASSUME NEW w \in Worker, Work(w) \/ Heartbeat(w) \/ Crash(w)
      PROVE  Goal
  <2>1. CASE \/ Claim(w) \/ LoadContext(w) \/ Return(w) \/ Execute(w)
             \/ Heartbeat(w) \/ Finish(w) \/ Abandon(w) \/ Crash(w)
    BY <2>1, QuietSteps
  <2>2. CASE FireTimer(w) \/ StartStep(w) \/ Park(w) \/ RecordRetry(w)
    <3>1. CASE Park(w)
      BY <3>1, ParkWrites DEF AppendedBy, Interim
    <3>2. CASE FireTimer(w) \/ StartStep(w) \/ RecordRetry(w)
      BY <3>2, FireTimerWrites, StartStepWrites, RecordRetryWrites DEF AppendedBy
    <3> QED
      BY <2>2, <3>1, <3>2
  <2>3. CASE RejectConfig(w)
    BY <2>3, RejectConfigWrites DEF AppendedBy
  <2>4. CASE RecordOutcome(w)
    <3>1. worker[w].pc = "recording" /\ ~Undoing(w)
      BY <2>4 DEF RecordOutcome, At
    <3>2. PICK c : \/ worker[w].ok /\ Writes("STEP_SUCCEEDED", StepOf(w), c)
                   \/ Writes("STEP_FAILED", StepOf(w), c)
      BY <2>4, RecordOutcomeWrites
    <3>3. worker[w].ok => AppendedBy("STEP_SUCCEEDED", StepOf(w))
      BY <3>1 DEF AppendedBy
    <3>4. AppendedBy("STEP_FAILED", StepOf(w))
      BY DEF AppendedBy
    <3> QED
      BY <3>2, <3>3, <3>4
  <2>5. CASE RecordUndo(w)
    BY <2>5, RecordUndoWrites DEF RecordUndo, At, AppendedBy
  <2> QED
    BY <1>1, <2>1, <2>2, <2>3, <2>4, <2>5 DEF Work, Bookkeeping
<1>2. ASSUME NEW a \in Actor, Approvals(a) PROVE Goal
  <2>1. CASE ResolveApproval(a)
    BY <2>1, ResolveApprovalWrites DEF AppendedBy
  <2> QED
    BY <1>2, <2>1, QuietSteps DEF Approvals
<1>3. ASSUME NEW t \in Pk, RowStep(t) PROVE Goal
  BY <1>3, QuietSteps, ReapPoisonedWrites DEF RowStep, AppendedBy
<1>4. CASE AnnounceRecovery
  BY <1>4, AnnounceRecoveryWrites DEF AppendedBy
<1>5. CASE ReaperDies \/ UNCHANGED vars
  BY <1>5, QuietSteps
<1> QED
  BY <1>1, <1>2, <1>3, <1>4, <1>5 DEF Next

------------------------------------------------------------------------------
(* A step is scheduled only after what it needs.                           *)

RowsCleared == \A s \in Step : HasRow(s) => Cleared(s)

DInv == LogOK(ctx) /\ RowsCleared /\ Backed

LEMMA OnwardReflexive ==
    ASSUME NEW c \in Context, LogOK(c)
    PROVE  Onward(c, c)
BY DEF Onward

\* From one state to the next the log goes on by way of a log c, on which the rows
\* that are inserted for slots without one were decided.
GoesOnBy(c) ==
    /\ c \in Context
    /\ Onward(ctx, c)
    /\ Onward(c, ctx')
    /\ \A t \in Pk : Queue!Present(t)' =>
        Queue!Present(t) \/ ~Rowless(SlotOf[t]) \/ SlotOf[t] \in NextWork(c)

\* The log of a run that starts.
LEMMA RunStarted ==
    ASSUME ctx \in Context
    PROVE  LET c == ApplyEvent(ctx, Event("RUN_STARTED", NoStep))
           IN  /\ c \in Context
               /\ c.status = "RUNNING" /\ c.compensating = ctx.compensating
               /\ c.steps = ctx.steps /\ c.order = ctx.order
<1>1. "RUN_STARTED" \in DOMAIN RunStatusAfter /\ RunStatusAfter["RUN_STARTED"] = "RUNNING"
  BY DEF RunStatusAfter
<1>2. (ctx.compensating \/ "RUN_STARTED" = "COMPENSATION_STARTED") = ctx.compensating
  BY DEF Context
<1> QED
  BY <1>1, <1>2, AfterRunEvent

LEMMA StartRunGoesOn ==
    ASSUME TInv, DInv, StartRun
    PROVE  \E c : GoesOnBy(c)
<1> DEFINE c == ApplyEvent(ctx, Event("RUN_STARTED", NoStep))
           want == [slot \in NextWork(c) |-> Wanted(1, TRUE)]
<1>1. /\ c \in Context
      /\ c.status = "RUNNING" /\ c.compensating = ctx.compensating
      /\ c.steps = ctx.steps /\ c.order = ctx.order
  BY RunStarted DEF TInv
<1>2. ctx.status = "PENDING" /\ ctx' = MarkScheduled(c) /\ Enqueue(want)
  BY DEF StartRun, Sync
<1> HIDE DEF c
<1>3. Orders(want) /\ DOMAIN want = NextWork(c)
  BY <1>1, NextWorkTyped DEF Orders, Wanted
<1> HIDE DEF want
<1>4. Onward(ctx, c)
  BY <1>1, <1>2 DEF Onward, LogOK, DInv, TerminalRunStates
<1>5. Onward(c, ctx')
  BY <1>1, <1>2, <1>4, OnwardMark DEF Onward
<1>6. \A t \in Pk : Queue!Present(t)' => Queue!Present(t) \/ SlotOf[t] \in NextWork(c)
  BY <1>2, <1>3, EnqueueInserts DEF TInv, QueueOK
<1> QED
  BY <1>1, <1>4, <1>5, <1>6 DEF GoesOnBy

LEMMA WritesGoesOn ==
    ASSUME TInv, DInv, NEW type, NEW s, NEW c, Writes(type, s, c)
    PROVE  GoesOnBy(c)
<1> DEFINE d == ApplyEvent(ctx, Event(type, s))
<1>1. /\ type \in StepEvent /\ s \in Step /\ Cleared(s)
      /\ c = d \/ c = Unwind(d, s)
  BY DEF Writes, DInv, RowsCleared
<1>2. d \in Context /\ Onward(ctx, d)
  BY <1>1, AfterStepEvent, OnwardEvent DEF TInv, DInv, Cleared, Succeeded
<1> HIDE DEF d
<1>3. Onward(d, c)
  BY <1>1, <1>2, OnwardReflexive, OnwardUnwind DEF Onward
<1>4. Onward(ctx, c)
  BY <1>2, <1>3, OnwardTransitive
<1>5. Onward(c, ctx')
  BY <1>4, OnwardReflexive, OnwardGoesOn DEF Writes, Onward
<1> QED
  BY <1>4, <1>5 DEF Writes, GoesOnBy, Onward

LEMMA EveryStepGoesOn ==
    ASSUME TInv, DInv, [Next]_vars
    PROVE  \E c : GoesOnBy(c)
<1>1. CASE Quiet
  <2>1. ctx' = ctx
    BY <1>1 DEF Quiet, runVars
  <2> QED
    BY <1>1, <2>1, OnwardReflexive DEF GoesOnBy, Quiet, NoNewRows, TInv, DInv
<1> QED
  BY <1>1, StartRunGoesOn, WritesGoesOn, EveryStep DEF DInv

LEMMA SlotIsDoOrUndo ==
    ASSUME NEW slot \in Slot
    PROVE  \E s \in Step : s = slot[1] /\ (slot = Do(s) \/ slot = Undo(s))
BY SlotOfTyped DEF Do, Undo

\* What is queued next is cleared in the log it was decided on.
LEMMA NextWorkCleared ==
    ASSUME NEW c \in Context, LogOK(c), NEW slot \in NextWork(c)
    PROVE  slot \in Slot /\ Needs[slot[1]] \subseteq Range(c.order)
<1>1. slot \in Slot
  BY NextWorkTyped
<1>2. PICK s \in Step : s = slot[1] /\ (slot = Do(s) \/ slot = Undo(s))
  BY <1>1, SlotIsDoOrUndo
<1>3. CASE slot = Do(s)
  BY <1>1, <1>2, <1>3, NextWorkTyped, ReadyIsCleared
<1>4. CASE slot = Undo(s)
  BY <1>1, <1>2, <1>4, NextWorkTyped DEF LogOK
<1> QED
  BY <1>2, <1>3, <1>4

LEMMA RowsStayCleared ==
    ASSUME TInv, DInv, TInv', NEW c, GoesOnBy(c)
    PROVE  LogOK(ctx)' /\ RowsCleared'
<1>1. Succeeded \subseteq Range(c.order) /\ Range(c.order) \subseteq Succeeded' /\ LogOK(c)
  BY DEF GoesOnBy, Onward, Succeeded
<1>2. ASSUME NEW t \in Pk, Queue!Present(t)'
      PROVE  Needs[SlotOf[t][1]] \subseteq Succeeded'
  <2>1. SlotOf[t] \in Slot /\ SlotOf[t][1] \in Step
    BY SlotOfTyped
  <2>2. CASE Queue!Present(t) \/ ~Rowless(SlotOf[t])
    <3>1. HasRow(SlotOf[t][1])
      BY <2>1, <2>2, HasRowOf DEF HasRow
    <3> QED
      BY <1>1, <2>1, <3>1 DEF DInv, RowsCleared, Cleared
  <2>3. CASE SlotOf[t] \in NextWork(c)
    BY <1>1, <2>3, NextWorkCleared DEF GoesOnBy
  <2> QED
    BY <1>2, <2>2, <2>3 DEF GoesOnBy
<1> QED
  BY <1>2 DEF GoesOnBy, Onward, RowsCleared, HasRow, Cleared

\* What a worker has in memory comes from a row it claims, from the log it reads, or
\* from what its plugin answers; otherwise it keeps what it has, or forgets it.
Remembers(v) ==
    worker'[v].pc # "idle" =>
        \/ \E t \in Pk : /\ Queue!Present(t) /\ worker'[v].slot = SlotOf[t]
                         /\ worker'[v].pc = "claimed" /\ ~worker'[v].approved
        \/ /\ worker[v].pc # "idle" /\ worker'[v].slot = worker[v].slot
           /\ worker'[v].approved \in {worker[v].approved, ctx.steps[StepOf(v)].approved}
           /\ worker'[v].pc \in {"executed", "recording"} =>
                \/ /\ worker[v].pc \in {"executed", "recording"}
                   /\ worker'[v].ok = worker[v].ok
                \/ worker'[v].ok \in Answers(v)

LEMMA SameMemory ==
    ASSUME NEW v \in Worker, worker'[v] = worker[v]
    PROVE  Remembers(v)
BY DEF Remembers

LEMMA OneRemembers ==
    ASSUME TInv, NEW w \in Worker, NEW mem, worker' = [worker EXCEPT ![w] = mem],
           worker'[w] = mem => Remembers(w)
    PROVE  \A v \in Worker : Remembers(v)
<1>1. worker'[w] = mem /\ \A v \in Worker \ {w} : worker'[v] = worker[v]
  BY DEF TInv, MemoryOK
<1> QED
  BY <1>1, SameMemory

LEMMA ForgetRemembers ==
    ASSUME TInv, NEW w \in Worker, worker' = [worker EXCEPT ![w] = Idle]
    PROVE  \A v \in Worker : Remembers(v)
<1>1. Idle.pc = "idle"
  BY DEF Idle
<1>2. worker'[w] = Idle => Remembers(w)
  BY <1>1 DEF Remembers
<1> QED
  BY <1>2, OneRemembers

LEMMA GoToRemembers ==
    ASSUME TInv, NEW w \in Worker, NEW pc, GoTo(w, pc), worker[w].pc # "idle",
           pc \in {"executed", "recording"} => worker[w].pc \in {"executed", "recording"}
    PROVE  \A v \in Worker : Remembers(v)
<1> DEFINE mem == [worker[w] EXCEPT !.pc = pc]
<1>1. worker' = [worker EXCEPT ![w] = mem]
  BY DEF GoTo
<1>2. /\ mem.pc = pc /\ mem.slot = worker[w].slot
      /\ mem.approved = worker[w].approved /\ mem.ok = worker[w].ok
  BY DEF TInv, MemoryOK, Memory
<1> HIDE DEF mem
<1>3. worker'[w] = mem => Remembers(w)
  BY <1>2 DEF Remembers
<1> QED
  BY <1>1, <1>3, OneRemembers

LEMMA ClaimRemembers ==
    ASSUME TInv, NEW w \in Worker, Claim(w)
    PROVE  \A v \in Worker : Remembers(v)
<1>1. PICK t \in Pk :
        /\ Queue!ClaimTask(w, t)
        /\ worker' = [worker EXCEPT ![w] =
              [Idle EXCEPT !.pc = "claimed", !.slot = SlotOf[t], !.attempt = task[t].attempt]]
  BY DEF Claim
<1> DEFINE mem == [Idle EXCEPT !.pc = "claimed", !.slot = SlotOf[t], !.attempt = task[t].attempt]
<1>2. Queue!Present(t)
  BY <1>1 DEF Queue!ClaimTask
<1>3. worker' = [worker EXCEPT ![w] = mem]
  BY <1>1
<1>4. mem.pc = "claimed" /\ mem.slot = SlotOf[t] /\ mem.approved = FALSE
  BY DEF Idle
<1> HIDE DEF mem
<1>5. worker'[w] = mem => Remembers(w)
  BY <1>2, <1>4 DEF Remembers
<1> QED
  BY <1>3, <1>5, OneRemembers

LEMMA LoadContextRemembers ==
    ASSUME TInv, NEW w \in Worker, LoadContext(w)
    PROVE  \A v \in Worker : Remembers(v)
<1> DEFINE pc == Route(worker[w].slot)
           mem == [worker[w] EXCEPT !.pc = pc, !.approved = ctx.steps[StepOf(w)].approved]
<1>1. worker[w].pc = "claimed" /\ worker' = [worker EXCEPT ![w] = mem]
  BY DEF LoadContext, At
<1>2. pc \in {"executing", "misconfigured", "deferring", "firing", "starting"}
  BY DEF Route
<1> HIDE DEF pc
<1>3. /\ mem.pc = pc /\ mem.slot = worker[w].slot
      /\ mem.approved = ctx.steps[StepOf(w)].approved
  BY DEF TInv, MemoryOK, Memory
<1> HIDE DEF mem
<1>4. worker'[w] = mem => Remembers(w)
  BY <1>1, <1>2, <1>3 DEF Remembers
<1> QED
  BY <1>1, <1>4, OneRemembers

LEMMA ExecuteRemembers ==
    ASSUME TInv, NEW w \in Worker, Execute(w)
    PROVE  \A v \in Worker : Remembers(v)
<1>1. PICK ok \in Answers(w) : CallReturns(w, ok)
  BY DEF Execute
<1> DEFINE mem == [worker[w] EXCEPT !.pc = "executed", !.ok = ok]
<1>2. worker[w].pc = "executing" /\ worker' = [worker EXCEPT ![w] = mem]
  BY <1>1 DEF Execute, CallReturns, At
<1>3. /\ mem.pc = "executed" /\ mem.slot = worker[w].slot
      /\ mem.approved = worker[w].approved /\ mem.ok = ok
  BY DEF TInv, MemoryOK, Memory
<1> HIDE DEF mem
<1>4. worker'[w] = mem => Remembers(w)
  BY <1>1, <1>2, <1>3 DEF Remembers
<1> QED
  BY <1>2, <1>4, OneRemembers

LEMMA EveryStepRemembers ==
    ASSUME TInv, [Next]_vars
    PROVE  \A v \in Worker : Remembers(v)
<1>1. CASE UNCHANGED worker
  BY <1>1, SameMemory
<1>2. ASSUME NEW w \in Worker, Work(w) \/ Heartbeat(w) \/ Crash(w)
      PROVE  \A v \in Worker : Remembers(v)
  <2>1. CASE \/ Return(w) \/ Abandon(w) \/ Park(w) \/ RecordRetry(w)
             \/ RecordOutcome(w) \/ RecordUndo(w) \/ Crash(w)
    BY <2>1, ForgetRemembers
       DEF Return, Abandon, Park, RecordRetry, RecordOutcome, RecordUndo, Crash
  <2>2. CASE RejectConfig(w) \/ FireTimer(w) \/ StartStep(w) \/ Finish(w)
    BY <2>2, GoToRemembers DEF RejectConfig, FireTimer, StartStep, Finish, At
  <2>3. CASE Heartbeat(w)
    BY <2>3, <1>1 DEF Heartbeat
  <2>4. CASE Claim(w) \/ LoadContext(w) \/ Execute(w)
    BY <2>4, ClaimRemembers, LoadContextRemembers, ExecuteRemembers
  <2> QED
    BY <1>2, <2>1, <2>2, <2>3, <2>4 DEF Work, Bookkeeping
<1>3. ASSUME NEW a \in Actor, Approvals(a) PROVE \A v \in Worker : Remembers(v)
  BY <1>1, <1>3 DEF Approvals, CheckApproval, ResolveApproval
<1>4. ASSUME NEW t \in Pk, RowStep(t) PROVE \A v \in Worker : Remembers(v)
  BY <1>1, <1>4 DEF RowStep, TimerDue, LeaseLapses, Reap, ReapPoisoned
<1>5. CASE StartRun \/ AnnounceRecovery \/ ReaperDies \/ UNCHANGED vars
  BY <1>1, <1>5 DEF StartRun, AnnounceRecovery, ReaperDies, vars
<1> QED
  BY <1>2, <1>3, <1>4, <1>5 DEF Next

\* What a step that writes makes of the marks of approval, and of the completions.
LEMMA WritesMarks ==
    ASSUME TInv, NEW type, NEW s, NEW c, Writes(type, s, c)
    PROVE  /\ \A r \in Step :
                /\ ctx'.steps[r].approvalRequested <=>
                     \/ ctx.steps[r].approvalRequested
                     \/ r = s /\ type = "APPROVAL_REQUESTED"
                /\ ctx'.steps[r].approved <=>
                     \/ ctx.steps[r].approved /\ ~(r = s /\ type = "APPROVAL_DENIED")
                     \/ r = s /\ type = "APPROVAL_GRANTED"
           /\ Succeeded' = Succeeded \cup (IF type = "STEP_SUCCEEDED" THEN {s} ELSE {})
<1> DEFINE d == ApplyEvent(ctx, Event(type, s))
<1>1. /\ type \in StepEvent /\ s \in Step /\ ctx' \in Context /\ ctx \in Context
      /\ c = d \/ c = Unwind(d, s)
      /\ ctx' = c \/ Continues(c, ctx')
  BY DEF Writes, TInv
<1>2. /\ d \in Context
      /\ d.steps[s] = ApplyToSlot(ctx.steps[s], type)
      /\ \A r \in Step \ {s} : d.steps[r] = ctx.steps[r]
      /\ Range(d.order) = Range(ctx.order) \cup (IF type = "STEP_SUCCEEDED" THEN {s} ELSE {})
  BY <1>1, AfterStepEvent
<1> HIDE DEF d
<1>3. c \in Context /\ c.steps = d.steps /\ c.order = d.order
  BY <1>1, <1>2, Unwound
<1>4. ctx'.order = c.order
  BY <1>1 DEF Continues
<1>5. ASSUME NEW r \in Step
      PROVE  /\ ctx'.steps[r].approvalRequested <=> d.steps[r].approvalRequested
             /\ ctx'.steps[r].approved <=> d.steps[r].approved
  <2>1. \/ ctx'.steps[r] = c.steps[r]
        \/ ctx'.steps[r] = ApplyToSlot(c.steps[r], "STEP_SCHEDULED")
    BY <1>1 DEF Continues
  <2>2. d.steps[r] \in StepSlot
    BY <1>2 DEF Context
  <2> QED
    BY <1>3, <2>1, <2>2, MarksAfter
<1>6. ctx.steps[s] \in StepSlot
  BY <1>1 DEF Context
<1>7. /\ d.steps[s].approvalRequested <=>
            ctx.steps[s].approvalRequested \/ type = "APPROVAL_REQUESTED"
      /\ d.steps[s].approved <=>
            (ctx.steps[s].approved \/ type = "APPROVAL_GRANTED") /\ type # "APPROVAL_DENIED"
  BY <1>2, <1>6, MarksAfter
<1>8. ASSUME NEW r \in Step
      PROVE  /\ ctx'.steps[r].approvalRequested <=>
                  \/ ctx.steps[r].approvalRequested
                  \/ r = s /\ type = "APPROVAL_REQUESTED"
             /\ ctx'.steps[r].approved <=>
                  \/ ctx.steps[r].approved /\ ~(r = s /\ type = "APPROVAL_DENIED")
                  \/ r = s /\ type = "APPROVAL_GRANTED"
  <2>1. CASE r = s
    BY <1>5, <1>7, <2>1
  <2>2. CASE r # s
    BY <1>2, <1>5, <2>2
  <2> QED
    BY <2>1, <2>2
<1> QED
  BY <1>2, <1>3, <1>4, <1>8 DEF Succeeded

LEMMA StartMarks ==
    ASSUME TInv, StartRun
    PROVE  /\ \A r \in Step :
                /\ ctx'.steps[r].approvalRequested <=> ctx.steps[r].approvalRequested
                /\ ctx'.steps[r].approved <=> ctx.steps[r].approved
           /\ Succeeded' = Succeeded
<1> DEFINE c == ApplyEvent(ctx, Event("RUN_STARTED", NoStep))
<1>1. c \in Context /\ c.steps = ctx.steps /\ c.order = ctx.order
  BY RunStarted DEF TInv
<1>2. ctx' = MarkScheduled(c)
  BY DEF StartRun, Sync
<1> HIDE DEF c
<1>3. ctx'.order = c.order
  BY <1>1, <1>2, Marked
<1>4. ASSUME NEW r \in Step
      PROVE  /\ ctx'.steps[r].approvalRequested <=> c.steps[r].approvalRequested
             /\ ctx'.steps[r].approved <=> c.steps[r].approved
  <2>1. \/ ctx'.steps[r] = c.steps[r]
        \/ ctx'.steps[r] = ApplyToSlot(c.steps[r], "STEP_SCHEDULED")
    BY <1>1, <1>2, Marked
  <2>2. c.steps[r] \in StepSlot
    BY <1>1 DEF Context
  <2> QED
    BY <2>1, <2>2, MarksAfter
<1> QED
  BY <1>1, <1>3, <1>4 DEF Succeeded

\* Who touches the requests, and who the reaper's memory.
LEMMA RequestSteps ==
    ASSUME [Next]_vars
    PROVE  \/ UNCHANGED request
           \/ \E a \in Actor, s \in Step, approve \in BOOLEAN : CheckApproval(a, s, approve)
           \/ \E a \in Actor : ResolveApproval(a)
<1>1. ASSUME NEW w \in Worker, Work(w) \/ Heartbeat(w) \/ Crash(w) PROVE UNCHANGED request
  BY <1>1 DEF Work, Bookkeeping, Claim, LoadContext, RejectConfig, Return, FireTimer, StartStep,
              Execute, CallReturns, Finish, Abandon, Park, RecordRetry, RecordOutcome,
              RecordUndo, Heartbeat, Crash
<1>2. ASSUME NEW t \in Pk, RowStep(t) PROVE UNCHANGED request
  BY <1>2 DEF RowStep, TimerDue, LeaseLapses, Reap, ReapPoisoned
<1>3. CASE StartRun \/ AnnounceRecovery \/ ReaperDies \/ UNCHANGED vars
  BY <1>3 DEF StartRun, AnnounceRecovery, ReaperDies, vars
<1> QED
  BY <1>1, <1>2, <1>3 DEF Next, Approvals

LEMMA ReaperSteps ==
    ASSUME [Next]_vars
    PROVE  reaper' \in {reaper, NoStep} \/ \E t \in Pk : Reap(t)
<1>1. ASSUME NEW w \in Worker, Work(w) \/ Heartbeat(w) \/ Crash(w) PROVE UNCHANGED reaper
  BY <1>1 DEF Work, Bookkeeping, Claim, LoadContext, RejectConfig, Return, FireTimer, StartStep,
              Execute, CallReturns, Finish, Abandon, Park, RecordRetry, RecordOutcome,
              RecordUndo, Heartbeat, Crash
<1>2. ASSUME NEW a \in Actor, Approvals(a) PROVE UNCHANGED reaper
  BY <1>2 DEF Approvals, CheckApproval, ResolveApproval
<1>3. ASSUME NEW t \in Pk, RowStep(t), ~Reap(t) PROVE UNCHANGED reaper
  BY <1>3 DEF RowStep, TimerDue, LeaseLapses, ReapPoisoned
<1>4. CASE StartRun \/ AnnounceRecovery \/ ReaperDies \/ UNCHANGED vars
  BY <1>4 DEF StartRun, AnnounceRecovery, ReaperDies, vars
<1> QED
  BY <1>1, <1>2, <1>3, <1>4 DEF Next

LEMMA StaysBacked ==
    ASSUME TInv, DInv, [Next]_vars
    PROVE  Backed'
<1>1. RowsStay /\ TInv'
  BY NextOK DEF AsQueue
<1>2. /\ \A slot : ~Rowless(slot) => ~Rowless(slot)'
      /\ \A s : HasRow(s) => HasRow(s)'
  BY <1>1 DEF RowsStay, Rowless, Rows, HasRow
<1>3. \A t \in Pk : Queue!Present(t) => ~Rowless(SlotOf[t]) /\ HasRow(SlotOf[t][1])
  BY DEF Rowless, Rows, HasRow
<1>4. ASSUME NEW w \in Worker, worker'[w].pc # "idle"
      PROVE  ~Rowless(worker'[w].slot)
  <2>1. Remembers(w)
    BY EveryStepRemembers
  <2> QED
    BY <1>3, <1>4, <2>1 DEF Remembers, DInv, Backed
<1>5. ASSUME NEW s \in Step, ctx'.steps[s].approvalRequested
      PROVE  ~Rowless(Do(s))
  <2>1. CASE Quiet
    BY <1>5, <2>1 DEF Quiet, runVars, DInv, Backed
  <2>2. CASE StartRun
    BY <1>5, <2>2, StartMarks DEF DInv, Backed
  <2>3. ASSUME NEW type, NEW r, NEW c, Writes(type, r, c)
        PROVE  ~Rowless(Do(s))
    BY <1>5, <2>3, WritesMarks DEF DInv, Backed, Writes
  <2> QED
    BY <2>1, <2>2, <2>3, EveryStep DEF DInv
<1>6. ASSUME NEW a \in Actor, request'[a].pc = "checked"
      PROVE  ~Rowless(Do(request'[a].step))
  <2>1. CASE \E b \in Actor, s \in Step, approve \in BOOLEAN : CheckApproval(b, s, approve)
    BY <1>6, <2>1 DEF CheckApproval, TInv, RequestsOK, DInv, Backed
  <2>2. CASE \E b \in Actor : ResolveApproval(b)
    BY <1>6, <2>2 DEF ResolveApproval, TInv, RequestsOK, Asked, DInv, Backed
  <2>3. CASE UNCHANGED request
    BY <1>6, <2>3 DEF DInv, Backed
  <2> QED
    BY <2>1, <2>2, <2>3, RequestSteps
<1>7. ASSUME reaper' # NoStep PROVE HasRow(reaper')
  <2>1. CASE \E t \in Pk : Reap(t)
    BY <1>3, <1>7, <2>1 DEF Reap, Queue!Reap
  <2>2. CASE reaper' = NoStep \/ reaper' = reaper
    BY <1>7, <2>2 DEF DInv, Backed
  <2> QED
    BY <2>1, <2>2, ReaperSteps
<1>8. \A w \in Worker : (worker[w].pc # "idle" => ~Rowless(worker[w].slot))'
  BY <1>1, <1>4 DEF RowsStay, Rowless, Rows
<1>9. \A s \in Step : (ctx.steps[s].approvalRequested => ~Rowless(Do(s)))'
  BY <1>1, <1>2, <1>5 DEF RowsStay, Rowless, Rows, Do
<1>10. \A a \in Actor : (request[a].pc = "checked" => ~Rowless(Do(request[a].step)))'
  BY <1>1, <1>6 DEF RowsStay, Rowless, Rows, Do
<1>11. (reaper # NoStep => HasRow(reaper))'
  BY <1>1, <1>7 DEF RowsStay, HasRow
<1> QED
  BY <1>8, <1>9, <1>10, <1>11 DEF Backed

LEMMA DNext == TInv /\ DInv /\ [Next]_vars => DInv'
BY NextOK, EveryStepGoesOn, RowsStayCleared, StaysBacked DEF DInv

LEMMA DInit == Init => DInv
<1> SUFFICES ASSUME Init PROVE DInv
  OBVIOUS
<1>1. /\ ctx.status = "PENDING" /\ ctx.compensating = FALSE /\ ctx.order = <<>>
      /\ \A s \in Step : /\ ctx.steps[s].status = "PENDING"
                         /\ ctx.steps[s].approvalRequested = FALSE
  BY DEF Init, NewContext
<1>2. \A t \in Pk : ~Queue!Present(t)
  BY DEF Init, Queue!Init, Queue!Present
<1>3. /\ \A w \in Worker : worker[w].pc = "idle"
      /\ \A a \in Actor : request[a].pc = "new"
      /\ reaper = NoStep
  BY DEF Init, Idle, NewRequest
<1>4. Range(<<>>) = {}
  BY DEF Range
<1>5. LogOK(ctx)
  BY <1>1, <1>4 DEF LogOK
<1>6. RowsCleared
  BY <1>2 DEF RowsCleared, HasRow
<1>7. Backed
  BY <1>1, <1>3 DEF Backed
<1> QED
  BY <1>5, <1>6, <1>7 DEF DInv

\* The run as the proofs below know it.
RInv == TInv /\ DInv

LEMMA RunInvariant == Spec => []RInv
<1>1. RInv /\ [Next]_vars => RInv'
  BY NextOK, DNext DEF RInv
<1>2. Init => RInv
  BY InitOK, DInit DEF RInv
<1> QED
  BY <1>1, <1>2, PTL DEF Spec

\* For every workflow and whatever its workers, its reaper and its requests do, a
\* step has a row, or has left PENDING, only if all it needs has succeeded
\* (replay.ready_steps, evaluated on logs that others keep appending to).
THEOREM NeedsComeFirst == Spec => []DependenciesFirst
<1>1. RInv => DependenciesFirst
  <2> SUFFICES ASSUME RInv, NEW s \in Step, ~Rowless(Do(s)) \/ ctx.steps[s].status # "PENDING"
               PROVE  Needs[s] \subseteq Succeeded
    BY DEF DependenciesFirst
  <2>1. CASE ~Rowless(Do(s))
    <3>1. Do(s) \in Slot /\ Do(s)[1] = s
      BY SlotOfTyped DEF Do
    <3>2. HasRow(s)
      BY <2>1, <3>1, HasRowOf
    <3> QED
      BY <3>2 DEF RInv, DInv, RowsCleared, Cleared
  <2>2. CASE ctx.steps[s].status # "PENDING"
    BY <2>2 DEF RInv, DInv, LogOK, Succeeded
  <2> QED
    BY <2>1, <2>2
<1> QED
  BY <1>1, RunInvariant, PTL

\* One step of it.
LEMMA NothingNewNext == RInv /\ [Next]_vars => NothingNew
<1> SUFFICES ASSUME RInv, [Next]_vars,
                    ctx.compensating \/ ctx.status \in TerminalRunStates,
                    NEW s \in Step, Rowless(Do(s)), ~Rowless(Do(s))'
             PROVE  FALSE
  BY DEF NothingNew
<1>1. PICK c : GoesOnBy(c)
  BY EveryStepGoesOn DEF RInv
<1>2. PICK t \in Pk : SlotOf[t] = Do(s) /\ Queue!Present(t)'
  BY DEF Rowless, Rows
<1>3. ~Queue!Present(t)
  BY <1>2 DEF Rowless, Rows
<1>4. Do(s) \in NextWork(c) /\ c \in Context /\ Onward(ctx, c)
  BY <1>1, <1>2, <1>3 DEF GoesOnBy
<1>5. s \in ReadySteps(c)
  BY <1>4, NextWorkTyped
<1> QED
  BY <1>4, <1>5, ReadyIsCleared DEF Onward

\* Once the run unwinds or has ended no step gets its first row, although the
\* workers that race the end decide on logs of their own (replay.ready_steps,
\* service.enqueue_ready_steps).
THEOREM StopIsFinalForSteps == Spec => NothingNewAfterStop
<1>1. RInv /\ [Next]_vars => [NothingNew]_vars
  BY NothingNewNext
<1> QED
  BY <1>1, RunInvariant, PTL DEF Spec, NothingNewAfterStop

------------------------------------------------------------------------------
(* The end of a run, in the log and in the projection.                     *)

\* The end is recorded by the transaction that makes it due.
Undecided(c) == c.status \notin TerminalRunStates => NextRunState(c) \notin TerminalRunStates

\* Nothing has happened to a run that has not been started.
Untouched ==
    ctx.status = "PENDING" => ctx = NewContext /\ \A t \in Pk : ~Queue!Present(t)

PInv == Untouched /\ Undecided(ctx) /\ ProjectionAgrees

\* Events after which nobody asks whether the run is over do not end it.
LEMMA InterimUndecided ==
    ASSUME NEW c \in Context, Undecided(c), NEW s \in Step, NEW type \in Interim
    PROVE  Undecided(ApplyEvent(c, Event(type, s)))
<1> DEFINE d == ApplyEvent(c, Event(type, s))
<1>1. type \in StepEvent /\ type \notin {"STEP_SUCCEEDED", "STEP_FAILED", "APPROVAL_DENIED",
                                         "STEP_COMPENSATED", "COMPENSATION_FAILED"}
  BY DEF Interim, StepEvent
<1>2. /\ d \in Context /\ d.status = c.status /\ d.compensating = c.compensating
      /\ d.steps[s] = ApplyToSlot(c.steps[s], type)
      /\ \A r \in Step \ {s} : d.steps[r] = c.steps[r]
      /\ d.order = c.order
  BY <1>1, AfterStepEvent
<1> HIDE DEF d
<1>3. ASSUME NEW r \in Step
      PROVE  /\ d.steps[r].status = "FAILED" => c.steps[r].status = "FAILED"
             /\ d.steps[r].status = "SUCCEEDED" => c.steps[r].status = "SUCCEEDED"
             /\ d.steps[r].compensated = c.steps[r].compensated
             /\ d.steps[r].compensationFailed = c.steps[r].compensationFailed
  <2>1. c.steps[r] \in StepSlot /\ d.steps[r] \in StepSlot
    BY <1>2 DEF Context
  <2>2. CASE r = s
    <3>1. /\ d.steps[r].status = "FAILED" => c.steps[r].status = "FAILED"
          /\ d.steps[r].status = "SUCCEEDED" => c.steps[r].status = "SUCCEEDED"
      BY <1>1, <1>2, <2>1, <2>2, SlotAfter
    <3>2. /\ d.steps[r].compensated <=> c.steps[r].compensated
          /\ d.steps[r].compensationFailed <=> c.steps[r].compensationFailed
      BY <1>1, <1>2, <2>1, <2>2, MarksAfter
    <3> QED
      BY <2>1, <3>1, <3>2 DEF StepSlot
  <2>3. CASE r # s
    BY <1>2, <2>3
  <2> QED
    BY <2>2, <2>3
<1>4. CompensationOrder(d) = CompensationOrder(c)
  BY <1>2, <1>3, SameCompensation
<1>5. /\ StepsWithStatus(d, "FAILED") \subseteq StepsWithStatus(c, "FAILED")
      /\ IsComplete(d) => IsComplete(c)
  BY <1>3 DEF StepsWithStatus, IsComplete
<1> QED
  BY <1>2, <1>4, <1>5, SameVerdict DEF Undecided, d

\* Neither does scheduling what is ready.
LEMMA ScheduleUndecided ==
    ASSUME NEW c \in Context, NEW d \in Context,
           d.status = c.status, d.compensating = c.compensating, d.order = c.order,
           \A s \in Step : \/ d.steps[s] = c.steps[s]
                           \/ d.steps[s] = ApplyToSlot(c.steps[s], "STEP_SCHEDULED"),
           NextRunState(c) \notin TerminalRunStates
    PROVE  NextRunState(d) \notin TerminalRunStates
<1>1. ASSUME NEW r \in Step
      PROVE  /\ d.steps[r].status = "FAILED" => c.steps[r].status = "FAILED"
             /\ d.steps[r].status = "SUCCEEDED" => c.steps[r].status = "SUCCEEDED"
             /\ d.steps[r].compensated = c.steps[r].compensated
             /\ d.steps[r].compensationFailed = c.steps[r].compensationFailed
  <2>1. c.steps[r] \in StepSlot /\ d.steps[r] \in StepSlot
    BY DEF Context
  <2>2. CASE d.steps[r] = ApplyToSlot(c.steps[r], "STEP_SCHEDULED")
    <3>1. /\ d.steps[r].status = "FAILED" => c.steps[r].status = "FAILED"
          /\ d.steps[r].status = "SUCCEEDED" => c.steps[r].status = "SUCCEEDED"
      BY <2>1, <2>2, SlotAfter
    <3>2. /\ d.steps[r].compensated <=> c.steps[r].compensated
          /\ d.steps[r].compensationFailed <=> c.steps[r].compensationFailed
      BY <2>1, <2>2, MarksAfter
    <3> QED
      BY <2>1, <3>1, <3>2 DEF StepSlot
  <2> QED
    BY <2>2
<1>2. CompensationOrder(d) = CompensationOrder(c)
  BY <1>1, SameCompensation
<1>3. /\ StepsWithStatus(d, "FAILED") \subseteq StepsWithStatus(c, "FAILED")
      /\ IsComplete(d) => IsComplete(c)
  BY <1>1 DEF StepsWithStatus, IsComplete
<1> QED
  BY <1>2, <1>3, SameVerdict

LEMMA GoesOnUndecided ==
    ASSUME NEW c \in Context, NEW d \in Context, Continues(c, d)
    PROVE  Undecided(d)
<1> SUFFICES ASSUME d.status \notin TerminalRunStates
             PROVE  NextRunState(d) \notin TerminalRunStates
  BY DEF Undecided
<1>1. d.status = c.status /\ NextRunState(c) \notin TerminalRunStates
  BY DEF Continues, TerminalRunStates
<1> QED
  BY <1>1, ScheduleUndecided DEF Continues

\* A projection written from a log that is undecided, or over, agrees with it.
LEMMA WrittenAgrees ==
    ASSUME ctx' \in Context, Undecided(ctx'), LogOK(ctx'), run' = NextRunState(ctx')
    PROVE  ProjectionAgrees'
<1>1. CASE ctx'.status \in TerminalRunStates
  <2>1. run' = ctx'.status
    BY <1>1, NextRunStateTyped
  <2> QED
    BY <1>1, <2>1 DEF ProjectionAgrees, LogOK
<1>2. CASE ctx'.status \notin TerminalRunStates
  <2>1. run' \notin TerminalRunStates
    BY <1>2 DEF Undecided
  <2> QED
    BY <1>2, <2>1, NextRunStateTyped DEF ProjectionAgrees
<1> QED
  BY <1>1, <1>2

LEMMA QuietEnd ==
    ASSUME PInv, Quiet
    PROVE  PInv'
BY DEF Quiet, NoNewRows, runVars, PInv, Untouched, Undecided, ProjectionAgrees

LEMMA StartRunEnd ==
    ASSUME RInv, PInv, StartRun, RInv'
    PROVE  PInv'
<1> DEFINE c == ApplyEvent(ctx, Event("RUN_STARTED", NoStep))
<1>1. ctx = NewContext /\ ctx \in Context
  BY DEF StartRun, PInv, Untouched, RInv, TInv
<1>2. /\ c \in Context
      /\ c.status = "RUNNING" /\ c.compensating = ctx.compensating
      /\ c.steps = ctx.steps /\ c.order = ctx.order
  BY <1>1, RunStarted
<1>3. ctx' = MarkScheduled(c) /\ run' = NextRunState(ctx')
  BY DEF StartRun, Sync
<1> HIDE DEF c
<1>4. ~c.compensating /\ \A s \in Step : c.steps[s].status = "PENDING"
  <2>1. ctx.compensating = FALSE /\ \A s \in Step : ctx.steps[s].status = "PENDING"
    BY <1>1 DEF NewContext
  <2> QED
    BY <1>2, <2>1
<1>5. /\ FailedSteps(c) = {}
      /\ ~IsComplete(c)
  BY <1>4, StepAssumption DEF FailedSteps, StepsWithStatus, IsComplete
<1>6. NextRunState(c) \notin TerminalRunStates
  BY <1>2, <1>4, <1>5 DEF NextRunState, TerminalRunStates
<1>7. /\ ctx' \in Context /\ ctx'.status = "RUNNING"
      /\ NextRunState(ctx') \notin TerminalRunStates
  BY <1>2, <1>3, <1>6, Marked, ScheduleUndecided
<1>8. Undecided(ctx') /\ Untouched'
  BY <1>7 DEF Undecided, Untouched
<1>9. ProjectionAgrees'
  BY <1>3, <1>7, <1>8, WrittenAgrees DEF RInv, DInv
<1> QED
  BY <1>8, <1>9 DEF PInv

LEMMA WritesEnd ==
    ASSUME RInv, PInv, NEW type, NEW s, NEW c, Writes(type, s, c), RInv'
    PROVE  PInv'
<1>1. /\ GoesOnBy(c) /\ c \in Context /\ ctx' \in Context /\ ctx \in Context
      /\ LogOK(ctx') /\ type \in StepEvent /\ s \in Step
  BY WritesGoesOn DEF RInv, DInv, TInv, GoesOnBy, Writes
<1>2. Untouched'
  <2>1. ctx.status # "PENDING"
    BY DEF PInv, Untouched, Writes, HasRow
  <2>2. ctx'.status # "PENDING"
    BY <1>1, <2>1 DEF GoesOnBy, Onward
  <2> QED
    BY <2>2 DEF Untouched
<1>3. CASE Continues(c, ctx') /\ run' = NextRunState(ctx')
  <2>1. Undecided(ctx')
    BY <1>1, <1>3, GoesOnUndecided
  <2> QED
    BY <1>1, <1>2, <1>3, <2>1, WrittenAgrees DEF PInv, Undecided
<1>4. CASE type \in Interim /\ ctx' = c /\ run' \in {run, NextRunState(ctx')}
  <2>1. ctx' = ApplyEvent(ctx, Event(type, s))
    BY <1>4 DEF Writes, Interim
  <2>2. Undecided(ctx')
    BY <1>1, <1>4, <2>1, InterimUndecided DEF PInv
  <2>3. ctx'.status = ctx.status /\ ctx'.compensating = ctx.compensating
    BY <1>1, <2>1, AfterStepEvent
  <2>4. CASE run' = run
    BY <1>2, <2>2, <2>3, <2>4 DEF PInv, ProjectionAgrees, Undecided
  <2>5. CASE run' = NextRunState(ctx')
    BY <1>1, <1>2, <2>2, <2>5, WrittenAgrees DEF PInv, Undecided
  <2> QED
    BY <1>4, <2>4, <2>5
<1> QED
  BY <1>3, <1>4 DEF Writes

LEMMA PNext == RInv /\ PInv /\ [Next]_vars => PInv'
<1> SUFFICES ASSUME RInv, PInv, [Next]_vars PROVE PInv'
  OBVIOUS
<1>1. RInv'
  BY NextOK, DNext DEF RInv
<1> QED
  BY <1>1, EveryStep, QuietEnd, StartRunEnd, WritesEnd DEF RInv, DInv

LEMMA PInit == Init => PInv
<1> SUFFICES ASSUME Init PROVE PInv
  OBVIOUS
<1>1. ctx = NewContext /\ run = "PENDING" /\ \A t \in Pk : ~Queue!Present(t)
  BY DEF Init, Queue!Init, Queue!Present
<1>2. /\ ctx.status = "PENDING" /\ ctx.compensating = FALSE
      /\ \A s \in Step : ctx.steps[s].status = "PENDING"
  BY <1>1 DEF NewContext
<1>3. FailedSteps(ctx) = {} /\ ~IsComplete(ctx)
  BY <1>2, StepAssumption DEF FailedSteps, StepsWithStatus, IsComplete
<1>4. Undecided(ctx)
  BY <1>2, <1>3 DEF Undecided, NextRunState, TerminalRunStates
<1> QED
  BY <1>1, <1>2, <1>4 DEF PInv, Untouched, ProjectionAgrees, TerminalRunStates

\* The status column and the log never tell different ends, for every workflow, although
\* transactions of several workers, of the requests and of the reaper write the one
\* from contexts of their own (sync_run_projection, close_run_if_finished).
THEOREM StatusTellsTheEnd == Spec => []ProjectionAgrees
<1>1. PInv => ProjectionAgrees
  BY DEF PInv
<1> QED
  BY <1>1, PInit, PNext, RunInvariant, PTL DEF Spec

------------------------------------------------------------------------------
(* Turning back.                                                           *)

\* Only what has succeeded is undone, and only after the run has turned back: an undo
\* gets a row, and a step is marked compensated or its undo as failed, on no other
\* run and for no other step (service.start_compensation,
\* service.enqueue_next_compensation, worker._run_compensation).
UndoneAfterTurn ==
    \A s \in Step :
        \/ ~Rowless(Undo(s))
        \/ Settled(s)
        => s \in Succeeded /\ ctx.compensating

\* An end that was recorded is reopened by nothing but a failure that turns the run
\* back (service.start_compensation): no other late writer - a retry, a recovery, a
\* success - makes an ended run anything else than what it was.
ReopenedByTurn ==
    ctx.status \in TerminalRunStates /\ ctx'.status # ctx.status =>
        ctx'.compensating /\ ctx'.status \in {"COMPENSATING", "FAILED"}

LEMMA UndoRows ==
    ASSUME RInv, UndoneAfterTurn, NEW c, GoesOnBy(c), NEW s \in Step, ~Rowless(Undo(s))'
    PROVE  s \in Succeeded' /\ ctx'.compensating
<1>1. PICK t \in Pk : SlotOf[t] = Undo(s) /\ Queue!Present(t)'
  BY DEF Rowless, Rows
<1>2. /\ Succeeded \subseteq Succeeded' /\ Range(c.order) \subseteq Succeeded'
      /\ ctx.compensating => ctx'.compensating
      /\ c.compensating => ctx'.compensating
      /\ c \in Context
  BY DEF GoesOnBy, Onward, Succeeded
<1>3. CASE ~Rowless(Undo(s))
  BY <1>2, <1>3 DEF UndoneAfterTurn
<1>4. CASE Rowless(Undo(s))
  <2>1. ~Queue!Present(t)
    BY <1>1, <1>4 DEF Rowless, Rows
  <2>2. Undo(s) \in NextWork(c)
    BY <1>1, <1>4, <2>1 DEF GoesOnBy
  <2>3. s \in Range(c.order)
    BY <1>2, <2>2, NextWorkTyped
  <2>4. c.compensating
    <3>1. SUFFICES ASSUME ~c.compensating PROVE FALSE
      OBVIOUS
    <3>2. Undo(s) \in {Do(r) : r \in ReadySteps(c)}
      BY <2>2, <3>1 DEF NextWork
    <3> QED
      BY <3>2 DEF Do, Undo
  <2> QED
    BY <1>2, <2>3, <2>4
<1> QED
  BY <1>3, <1>4

\* What a step that writes makes of the marks of an undo.
LEMMA WritesSettled ==
    ASSUME TInv, NEW type, NEW s, NEW c, Writes(type, s, c), NEW r \in Step, Settled(r)'
    PROVE  \/ Settled(r)
           \/ r = s /\ type \in {"STEP_COMPENSATED", "COMPENSATION_FAILED"}
<1> DEFINE d == ApplyEvent(ctx, Event(type, s))
<1>1. /\ type \in StepEvent /\ s \in Step /\ ctx' \in Context /\ ctx \in Context
      /\ c = d \/ c = Unwind(d, s)
      /\ ctx' = c \/ Continues(c, ctx')
  BY DEF Writes, TInv
<1>2. /\ d \in Context
      /\ d.steps[s] = ApplyToSlot(ctx.steps[s], type)
      /\ \A q \in Step \ {s} : d.steps[q] = ctx.steps[q]
  BY <1>1, AfterStepEvent
<1> HIDE DEF d
<1>3. c \in Context /\ c.steps = d.steps
  BY <1>1, <1>2, Unwound
<1>4. \/ ctx'.steps[r] = c.steps[r]
      \/ ctx'.steps[r] = ApplyToSlot(c.steps[r], "STEP_SCHEDULED")
  BY <1>1 DEF Continues
<1>5. d.steps[r] \in StepSlot /\ ctx.steps[r] \in StepSlot
  BY <1>1, <1>2 DEF Context
<1>6. d.steps[r].compensated \/ d.steps[r].compensationFailed
  BY <1>3, <1>4, <1>5, MarksAfter DEF Settled
<1>7. CASE r = s
  BY <1>2, <1>5, <1>6, <1>7, MarksAfter DEF Settled
<1>8. CASE r # s
  BY <1>2, <1>6, <1>8 DEF Settled
<1> QED
  BY <1>7, <1>8

LEMMA StartSettled ==
    ASSUME TInv, StartRun, NEW r \in Step, Settled(r)'
    PROVE  Settled(r)
<1> DEFINE c == ApplyEvent(ctx, Event("RUN_STARTED", NoStep))
<1>1. c \in Context /\ c.steps = ctx.steps
  BY RunStarted DEF TInv
<1>2. ctx' = MarkScheduled(c)
  BY DEF StartRun, Sync
<1> HIDE DEF c
<1>3. \/ ctx'.steps[r] = c.steps[r]
      \/ ctx'.steps[r] = ApplyToSlot(c.steps[r], "STEP_SCHEDULED")
  BY <1>1, <1>2, Marked
<1>4. c.steps[r] \in StepSlot
  BY <1>1 DEF Context
<1> QED
  BY <1>1, <1>3, <1>4, MarksAfter DEF Settled

LEMMA UndoNext == RInv /\ UndoneAfterTurn /\ [Next]_vars => UndoneAfterTurn'
<1> SUFFICES ASSUME RInv, UndoneAfterTurn, [Next]_vars PROVE UndoneAfterTurn'
  OBVIOUS
<1>1. PICK c : GoesOnBy(c)
  BY EveryStepGoesOn DEF RInv
<1>2. Succeeded \subseteq Succeeded' /\ (ctx.compensating => ctx'.compensating)
  BY <1>1 DEF GoesOnBy, Onward, Succeeded
<1>3. ASSUME NEW s \in Step, ~Rowless(Undo(s))' PROVE s \in Succeeded' /\ ctx'.compensating
  BY <1>1, <1>3, UndoRows
<1>4. ASSUME NEW s \in Step, Settled(s)' PROVE s \in Succeeded' /\ ctx'.compensating
  <2>1. Settled(s) \/ ~Rowless(Undo(s))
    <3>1. CASE Quiet
      BY <1>4, <3>1 DEF Quiet, runVars, Settled
    <3>2. CASE StartRun
      BY <1>4, <3>2, StartSettled DEF RInv
    <3>3. ASSUME NEW type, NEW r, NEW d, Writes(type, r, d), AppendedBy(type, r)
          PROVE  Settled(s) \/ ~Rowless(Undo(s))
      <4>1. SUFFICES ASSUME s = r, type \in {"STEP_COMPENSATED", "COMPENSATION_FAILED"}
                     PROVE  ~Rowless(Undo(s))
        BY <1>4, <3>3, WritesSettled DEF RInv
      <4>2. PICK w \in Worker : worker[w].pc = "recording" /\ Undoing(w) /\ StepOf(w) = s
        BY <3>3, <4>1 DEF AppendedBy
      <4>3. worker[w].slot \in Slot /\ ~Rowless(worker[w].slot)
        BY <4>2, WorkerBacked DEF RInv, DInv
      <4>4. worker[w].slot = Undo(s)
        BY <4>2, <4>3, SlotOfTyped DEF Undoing, StepOf, Undo
      <4> QED
        BY <4>3, <4>4
    <3> QED
      BY <3>1, <3>2, <3>3, EveryStep DEF RInv, DInv
  <2> QED
    BY <1>2, <2>1 DEF UndoneAfterTurn
<1> QED
  BY <1>3, <1>4 DEF UndoneAfterTurn

\* On every run, whatever fails and however workers race: undos are queued, and steps
\* marked as undone, only after the run has turned back and only for steps that took
\* effect.
THEOREM UndoesOnlyWhatSucceeded == Spec => []UndoneAfterTurn
<1>1. Init => UndoneAfterTurn
  <2> SUFFICES ASSUME Init, NEW s \in Step PROVE Rowless(Undo(s)) /\ ~Settled(s)
    BY DEF UndoneAfterTurn
  <2>1. \A t \in Pk : ~Queue!Present(t)
    BY DEF Init, Queue!Init, Queue!Present
  <2>2. ~ctx.steps[s].compensated /\ ~ctx.steps[s].compensationFailed
    BY DEF Init, NewContext
  <2> QED
    BY <2>1, <2>2 DEF Rowless, Rows, Settled
<1> QED
  BY <1>1, UndoNext, RunInvariant, PTL DEF Spec

\* On every run, an end once recorded is reopened by a turn of the run alone.
THEOREM OnlyATurnReopens == Spec => [][ReopenedByTurn]_vars
<1>1. RInv /\ [Next]_vars => ReopenedByTurn
  <2> SUFFICES ASSUME RInv, [Next]_vars,
                      ctx.status \in TerminalRunStates, ctx'.status # ctx.status
               PROVE  ctx'.compensating /\ ctx'.status \in {"COMPENSATING", "FAILED"}
    BY DEF ReopenedByTurn
  <2>1. PICK type, s, c : Writes(type, s, c)
    <3>1. ~Quiet /\ ~StartRun
      BY DEF Quiet, runVars, StartRun, TerminalRunStates
    <3> QED
      BY <3>1, EveryStep DEF RInv, DInv
  <2> DEFINE d == ApplyEvent(ctx, Event(type, s))
  <2>2. /\ type \in StepEvent /\ s \in Step /\ ctx \in Context
        /\ c = d \/ c = Unwind(d, s)
        /\ ctx' = c \/ Continues(c, ctx')
    BY <2>1 DEF Writes, RInv, TInv
  <2>3. d \in Context /\ d.status = ctx.status
    BY <2>2, AfterStepEvent
  <2> HIDE DEF d
  <2>4. c.compensating /\ c.status = "COMPENSATING"
    <3>1. c # d
      BY <2>2, <2>3 DEF Continues
    <3> QED
      BY <2>2, <2>3, <3>1, Unwound
  <2>5. GoesOnBy(c)
    BY <2>1, WritesGoesOn DEF RInv
  <2>6. ctx'.compensating /\ LogOK(ctx')
    BY <2>4, <2>5 DEF GoesOnBy, Onward
  <2> QED
    BY <2>6 DEF LogOK
<1>2. RInv /\ [Next]_vars => [ReopenedByTurn]_vars
  BY <1>1
<1> QED
  BY <1>2, RunInvariant, PTL DEF Spec

------------------------------------------------------------------------------
(* Approvals.                                                              *)

\* A request to approve the step was accepted.
Granted(s) ==
    \E a \in Actor : request[a].pc = "done" /\ request[a].step = s /\ request[a].approve

\* Nobody invents a grant: not the log, not a worker that read it earlier, not the
\* outcome that is about to be recorded; and what was granted shows in the log
\* unless it was decided on twice.
GInv ==
    /\ \A s \in Step : ctx.steps[s].approved => Granted(s)
    /\ \A w \in Worker : worker[w].pc # "idle" /\ worker[w].approved => Granted(StepOf(w))
    /\ \A w \in Worker :
        /\ worker[w].pc \in {"executed", "recording"}
        /\ worker[w].ok /\ ~Undoing(w) /\ StepType[StepOf(w)] = "approval"
        => Granted(StepOf(w))
    /\ \A s \in Succeeded : StepType[s] = "approval" => Granted(s)
    /\ OneDecision => \A s \in Step : Granted(s) => ctx.steps[s].approved

\* An approval step takes effect only when somebody approved it, however its timeouts,
\* denials, retries and recoveries race (service.resolve_approval,
\* ApprovalPlugin.execute).
NobodySlipsThrough ==
    \A s \in Succeeded : StepType[s] = "approval" => Granted(s)

\* A decision that was made stays made.
LEMMA GrantedStays ==
    ASSUME TInv, [Next]_vars
    PROVE  \A a \in Actor : request[a].pc = "done" => request'[a] = request[a]
BY RequestSteps DEF CheckApproval, ResolveApproval, TInv, RequestsOK

\* The log, after a step of the run.
LEMMA LogGrants ==
    ASSUME RInv, GInv, [Next]_vars
    PROVE  /\ \A s \in Step : (ctx.steps[s].approved => Granted(s))'
           /\ \A s \in Succeeded' : StepType[s] = "approval" => Granted(s)'
<1>1. \A s : Granted(s) => Granted(s)'
  BY GrantedStays DEF RInv, Granted
<1>2. CASE Quiet
  BY <1>1, <1>2 DEF Quiet, runVars, GInv, Succeeded
<1>3. CASE StartRun
  BY <1>1, <1>3, StartMarks DEF GInv, RInv
<1>4. ASSUME NEW type, NEW r, NEW c, Writes(type, r, c), AppendedBy(type, r)
      PROVE  /\ \A s \in Step : (ctx.steps[s].approved => Granted(s))'
             /\ \A s \in Succeeded' : StepType[s] = "approval" => Granted(s)'
  <2>1. ASSUME type = "APPROVAL_GRANTED" PROVE Granted(r)'
    <3>1. PICK a \in Actor : ResolveApproval(a) /\ request[a].step = r /\ request[a].approve
      BY <1>4, <2>1 DEF AppendedBy
    <3>2. /\ request'[a].pc = "done" /\ request'[a].step = r /\ request'[a].approve
      BY <3>1 DEF ResolveApproval, RInv, TInv, RequestsOK, Asked
    <3> QED
      BY <3>2 DEF Granted
  <2>2. ASSUME type = "STEP_SUCCEEDED", StepType[r] = "approval" PROVE Granted(r)
    BY <1>4, <2>2 DEF AppendedBy, GInv
  <2>3. r \in Step
    BY <1>4 DEF Writes
  <2>4. \A s \in Step : ctx'.steps[s].approved => Granted(s)'
    BY <1>1, <1>4, <2>1, WritesMarks DEF GInv, RInv
  <2>5. \A s \in Succeeded' : StepType[s] = "approval" => Granted(s)'
    BY <1>1, <1>4, <2>2, WritesMarks DEF GInv, RInv
  <2> QED
    BY <2>4, <2>5
<1> QED
  BY <1>2, <1>3, <1>4, EveryStep DEF RInv, DInv

\* The workers.
LEMMA MemoryGrants ==
    ASSUME RInv, GInv, [Next]_vars, NEW w \in Worker, worker'[w].pc # "idle"
    PROVE  /\ (worker[w].approved => Granted(StepOf(w)))'
           /\ (/\ worker[w].pc \in {"executed", "recording"}
               /\ worker[w].ok /\ ~Undoing(w) /\ StepType[StepOf(w)] = "approval"
               => Granted(StepOf(w)))'
<1>2. CASE /\ worker'[w].pc = "claimed" /\ ~worker'[w].approved
  BY <1>2
<1>3. CASE /\ worker[w].pc # "idle" /\ worker'[w].slot = worker[w].slot
           /\ worker'[w].approved \in {worker[w].approved, ctx.steps[StepOf(w)].approved}
           /\ worker'[w].pc \in {"executed", "recording"} =>
                \/ /\ worker[w].pc \in {"executed", "recording"}
                   /\ worker'[w].ok = worker[w].ok
                \/ worker'[w].ok \in Answers(w)
  <2>1. StepOf(w)' = StepOf(w) /\ (Undoing(w)' <=> Undoing(w))
    BY <1>3 DEF StepOf, Undoing
  <2>2. StepOf(w) \in Step
    BY <1>3, WorkerBacked DEF RInv, DInv
  <2>3. worker'[w].approved => Granted(StepOf(w))
    BY <1>3, <2>2 DEF GInv
  <2>4. ASSUME worker'[w].pc \in {"executed", "recording"}, worker'[w].ok,
               ~Undoing(w), StepType[StepOf(w)] = "approval"
        PROVE  Granted(StepOf(w))
    <3>1. CASE worker[w].pc \in {"executed", "recording"} /\ worker'[w].ok = worker[w].ok
      BY <2>4, <3>1 DEF GInv
    <3>2. CASE worker'[w].ok \in Answers(w)
      <4>1. worker[w].approved
        BY <2>4, <3>2 DEF Answers
      <4> QED
        BY <1>3, <4>1 DEF GInv
    <3> QED
      BY <1>3, <2>4, <3>1, <3>2
  <2>5. Granted(StepOf(w)) => Granted(StepOf(w))'
    BY <2>1, GrantedStays DEF RInv, Granted
  <2> QED
    BY <2>1, <2>3, <2>4, <2>5
<1> QED
  BY <1>2, <1>3, EveryStepRemembers DEF Remembers, RInv

\* Decisions, one for each step.
LEMMA DecisionsShow ==
    ASSUME RInv, GInv, [Next]_vars, OneDecision', NEW s \in Step, Granted(s)'
    PROVE  ctx'.steps[s].approved
<1>1. \A a \in Actor : request[a].pc = "done" => request'[a] = request[a]
  BY GrantedStays DEF RInv
<1>2. OneDecision
  BY <1>1 DEF OneDecision
<1>3. Granted(s) => ctx.steps[s].approved
  BY <1>2 DEF GInv
<1>4. PICK b \in Actor : request'[b].pc = "done" /\ request'[b].step = s /\ request'[b].approve
  BY DEF Granted
<1>5. ASSUME NEW a \in Actor, ResolveApproval(a) PROVE ctx'.steps[s].approved
  <2>1. /\ request \in [Actor -> Asked]
        /\ request' = [request EXCEPT ![a].pc = "done"]
    BY <1>5 DEF ResolveApproval, RInv, TInv, RequestsOK
  <2>2. /\ request'[a].pc = "done" /\ request'[a].step = request[a].step
        /\ request'[a].approve = request[a].approve
        /\ \A v \in Actor \ {a} : request'[v] = request[v]
    BY <2>1 DEF Asked
  <2>3. PICK c : Writes(IF request[a].approve THEN "APPROVAL_GRANTED" ELSE "APPROVAL_DENIED",
                        request[a].step, c)
    BY <1>5, ResolveApprovalWrites DEF RInv, DInv
  <2>4. CASE b = a
    <3>1. Writes("APPROVAL_GRANTED", s, c)
      BY <1>4, <2>2, <2>3, <2>4
    <3> QED
      BY <3>1, WritesMarks DEF RInv
  <2>5. CASE b # a
    <3>1. ctx.steps[s].approved
      BY <1>3, <1>4, <2>2, <2>5 DEF Granted
    <3>2. request[a].step # s
      BY <1>4, <2>2, <2>5 DEF OneDecision
    <3> QED
      BY <2>3, <3>1, <3>2, WritesMarks DEF RInv
  <2> QED
    BY <2>4, <2>5
<1>6. ASSUME \A a \in Actor : ~ResolveApproval(a) PROVE ctx'.steps[s].approved
  <2>1. request'[b] = request[b]
    <3>1. UNCHANGED request \/ \E a \in Actor, q \in Step, approve \in BOOLEAN :
                                    CheckApproval(a, q, approve)
      BY <1>6, RequestSteps
    <3> QED
      BY <1>4, <3>1 DEF CheckApproval, RInv, TInv, RequestsOK
  <2>2. ctx.steps[s].approved
    BY <1>3, <1>4, <2>1 DEF Granted
  <2>3. ASSUME NEW type, NEW q, NEW c, Writes(type, q, c), AppendedBy(type, q)
        PROVE  ctx'.steps[s].approved
    <3>1. type # "APPROVAL_DENIED"
      BY <1>6, <2>3 DEF AppendedBy
    <3> QED
      BY <2>2, <2>3, <3>1, WritesMarks DEF RInv
  <2>4. CASE Quiet
    BY <2>2, <2>4 DEF Quiet, runVars
  <2>5. CASE StartRun
    BY <2>2, <2>5, StartMarks DEF RInv
  <2> QED
    BY <2>3, <2>4, <2>5, EveryStep DEF RInv, DInv
<1> QED
  BY <1>5, <1>6

LEMMA GNext == RInv /\ GInv /\ [Next]_vars => GInv'
<1> SUFFICES ASSUME RInv, GInv, [Next]_vars PROVE GInv'
  OBVIOUS
<1>1. \A s \in Step : (ctx.steps[s].approved => Granted(s))'
  BY LogGrants
<1>2. \A w \in Worker : (worker[w].pc # "idle" /\ worker[w].approved => Granted(StepOf(w)))'
  BY MemoryGrants
<1>3. \A w \in Worker :
        (/\ worker[w].pc \in {"executed", "recording"}
         /\ worker[w].ok /\ ~Undoing(w) /\ StepType[StepOf(w)] = "approval"
         => Granted(StepOf(w)))'
  BY MemoryGrants
<1>4. \A s \in Succeeded' : StepType[s] = "approval" => Granted(s)'
  BY LogGrants
<1>5. OneDecision' => \A s \in Step : (Granted(s) => ctx.steps[s].approved)'
  BY DecisionsShow
<1> QED
  BY <1>1, <1>2, <1>3, <1>4, <1>5 DEF GInv

LEMMA GInit == Init => GInv
<1> SUFFICES ASSUME Init PROVE GInv
  OBVIOUS
<1>1. \A s \in Step : ctx.steps[s].approved = FALSE
  BY DEF Init, NewContext
<1>2. Succeeded = {}
  BY DEF Init, NewContext, Succeeded, Range
<1>3. \A w \in Worker : worker[w].pc = "idle"
  BY DEF Init, Idle
<1>4. \A s : ~Granted(s)
  BY DEF Init, NewRequest, Granted
<1> QED
  BY <1>1, <1>2, <1>3, <1>4 DEF GInv

\* On every run, whoever decides and how often: an approval step succeeds only if a
\* request to approve it was accepted.
THEOREM ApprovalNeedsAGrant == Spec => []NobodySlipsThrough
<1>1. GInv => NobodySlipsThrough
  BY DEF GInv, NobodySlipsThrough
<1> QED
  BY <1>1, GInit, GNext, RunInvariant, PTL DEF Spec

\* And its grant shows in the log, as long as no step is decided on twice.  (Two
\* requests that pass resolve_approval's tests together may grant and then deny: the
\* run MCTwoApprovals shows them, and the log then ends with a denial.)
THEOREM GrantIsInTheLog == Spec => [](OneDecision => ApprovedOnly)
<1>1. RInv /\ GInv => (OneDecision => ApprovedOnly)
  <2>1. RInv => Succeeded \subseteq Step
    BY RangeOfOrder DEF RInv, TInv, Context, Succeeded
  <2> QED
    BY <2>1 DEF GInv, ApprovedOnly
<1> QED
  BY <1>1, GInit, GNext, RunInvariant, PTL DEF Spec

------------------------------------------------------------------------------
(* Hands.                                                                  *)

LiveRows(slot) == {t \in Rows(slot) : Live(t)}

\* Nobody is in charge of the slot.
Free(slot) == LiveRows(slot) = {} /\ Closing(slot) = {}

\* One row, or one worker, at most.
InOneHand(slot) ==
    /\ \A t, u \in LiveRows(slot) : t = u
    /\ \A v, w \in Closing(slot) : v = w
    /\ LiveRows(slot) = {} \/ Closing(slot) = {}

\* A slot in somebody's hand has one custodian.
LEMMA HeldCounts ==
    ASSUME NEW slot, InOneHand(slot)
    PROVE  Custodians(slot) \in {0, 1} /\ (Custodians(slot) = 0 <=> Free(slot))
<1>1. ASSUME NEW S, \A x, y \in S : x = y
      PROVE  \/ S = {} /\ Cardinality(S) = 0
             \/ S # {} /\ Cardinality(S) = 1
  <2>1. CASE S = {}
    BY <2>1, FS_EmptySet
  <2>2. ASSUME NEW x \in S PROVE S # {} /\ Cardinality(S) = 1
    <3>1. S = {x}
      BY <1>1, <2>2
    <3> QED
      BY <3>1, FS_Singleton
  <2> QED
    BY <2>1, <2>2
<1> DEFINE live == LiveRows(slot)
           closing == Closing(slot)
<1>2. Custodians(slot) = Cardinality(live) + Cardinality(closing)
  BY DEF Custodians, LiveRows
<1>3. /\ \A x, y \in live : x = y
      /\ \A x, y \in closing : x = y
      /\ live = {} \/ closing = {}
      /\ Free(slot) <=> live = {} /\ closing = {}
  BY DEF InOneHand, Free
<1> HIDE DEF live, closing
<1>4. \/ live = {} /\ Cardinality(live) = 0
      \/ live # {} /\ Cardinality(live) = 1
  BY <1>1, <1>3
<1>5. \/ closing = {} /\ Cardinality(closing) = 0
      \/ closing # {} /\ Cardinality(closing) = 1
  BY <1>1, <1>3
<1> QED
  BY <1>2, <1>3, <1>4, <1>5

LEMMA AtMostOne ==
    ASSUME NEW slot, InOneHand(slot)
    PROVE  Custodians(slot) <= 1
BY HeldCounts

\* The charge of a slot stays where it is, ends, or is handed on: from a row to the
\* worker that has finished it, or from a worker to the row it leaves.
HandsOn(slot) ==
    \/ LiveRows(slot)' \subseteq LiveRows(slot) /\ Closing(slot)' \subseteq Closing(slot)
    \/ \E t \in LiveRows(slot), w \in Worker :
        /\ LiveRows(slot)' \subseteq LiveRows(slot) \ {t}
        /\ Closing(slot)' \subseteq Closing(slot) \cup {w}
    \/ \E w \in Closing(slot) : \E t :
        /\ LiveRows(slot)' \subseteq LiveRows(slot) \cup {t}
        /\ Closing(slot)' \subseteq Closing(slot) \ {w}

LEMMA HandedOn ==
    ASSUME NEW slot, InOneHand(slot), HandsOn(slot)
    PROVE  InOneHand(slot)'
<1>1. CASE LiveRows(slot)' \subseteq LiveRows(slot) /\ Closing(slot)' \subseteq Closing(slot)
  BY <1>1 DEF InOneHand
<1>2. ASSUME NEW t \in LiveRows(slot), NEW w \in Worker,
             LiveRows(slot)' \subseteq LiveRows(slot) \ {t},
             Closing(slot)' \subseteq Closing(slot) \cup {w}
      PROVE  InOneHand(slot)'
  BY <1>2 DEF InOneHand
<1>3. ASSUME NEW w \in Closing(slot), NEW t,
             LiveRows(slot)' \subseteq LiveRows(slot) \cup {t},
             Closing(slot)' \subseteq Closing(slot) \ {w}
      PROVE  InOneHand(slot)'
  BY <1>3 DEF InOneHand
<1> QED
  BY <1>1, <1>2, <1>3 DEF HandsOn

LEMMA FreeHandedOn ==
    ASSUME NEW slot, Free(slot), HandsOn(slot)
    PROVE  Free(slot)'
BY DEF Free, HandsOn

\* A slot that nobody is in charge of gets one row.
Begins(slot) ==
    /\ Closing(slot)' \subseteq Closing(slot)
    /\ \E t : LiveRows(slot)' \subseteq LiveRows(slot) \cup {t}

LEMMA Begun ==
    ASSUME NEW slot, Free(slot), Begins(slot)
    PROVE  InOneHand(slot)'
<1>1. PICK t : LiveRows(slot)' \subseteq LiveRows(slot) \cup {t}
  BY DEF Begins
<1>2. LiveRows(slot)' \subseteq {t} /\ Closing(slot)' = {}
  BY <1>1 DEF Begins, Free
<1> QED
  BY <1>2 DEF InOneHand

------------------------------------------------------------------------------
(* Rows.                                                                   *)

LEMMA LiveInserted ==
    ASSUME Queue!TypeOK, NEW want, Orders(want), Enqueue(want), NEW slot \in Slot
    PROVE  /\ \E t : LiveRows(slot)' \subseteq LiveRows(slot) \cup {t}
           /\ \/ LiveRows(slot)' \subseteq LiveRows(slot)
              \/ slot \in DOMAIN want /\ ~Queue!KeyTaken(slot, want[slot].attempt)
           /\ slot \in DOMAIN want => Queue!KeyTaken(slot, want[slot].attempt)'
<1> DEFINE free == {x \in DOMAIN want : ~Queue!KeyTaken(x, want[x].attempt)}
           new == {FreeRow(x) : x \in free}
           attempt == [t \in new |-> want[SlotOf[t]].attempt]
           due == [t \in new |-> want[SlotOf[t]].due]
<1>1. /\ \A x \in free : Cardinality(Rows(x)) < MaxAttempt
      /\ Queue!EnqueueSteps(new, attempt, due)
  BY DEF Enqueue
<1>2. \A x \in free : x \in Slot
  BY DEF Orders
<1>3. \A x \in free : FreeRow(x) \in new /\ FreeRow(x) \in Pk /\ SlotOf[FreeRow(x)] = x
  BY <1>1, <1>2, FreeRowTyped
<1>4. \A t \in new : t \in Pk /\ SlotOf[t] \in free /\ t = FreeRow(SlotOf[t])
  BY <1>3
<1>5. \A t \in new : attempt[t] = want[SlotOf[t]].attempt
  OBVIOUS
<1>6. /\ slot \in free <=> slot \in DOMAIN want /\ ~Queue!KeyTaken(slot, want[slot].attempt)
      /\ \A x \in free : x \in DOMAIN want
  OBVIOUS
<1> HIDE DEF free, new, attempt, due
<1>7. task' = [t \in Pk |-> IF t \in new THEN Queue!ReadyRow(attempt[t], due[t])
                                         ELSE task[t]]
  BY <1>1 DEF Queue!EnqueueSteps
<1>8. \A t \in Pk \ new : task'[t] = task[t]
  BY <1>7
<1>9. LiveRows(slot)' \subseteq LiveRows(slot) \cup {t \in new : SlotOf[t] = slot}
  BY <1>8 DEF LiveRows, Rows, Live, Queue!Present, Queue!Done
<1>10. {t \in new : SlotOf[t] = slot} \subseteq IF slot \in free THEN {FreeRow(slot)} ELSE {}
  BY <1>4
<1>11. ASSUME slot \in DOMAIN want PROVE Queue!KeyTaken(slot, want[slot].attempt)'
  <2>1. CASE slot \in free
    <3> DEFINE t == FreeRow(slot)
    <3>1. t \in Pk /\ SlotOf[t] = slot /\ t \in new
      BY <1>3, <2>1
    <3> HIDE DEF t
    <3>2. task'[t] = Queue!ReadyRow(want[slot].attempt, due[t])
      BY <1>5, <1>7, <3>1
    <3>3. task'[t].attempt = want[slot].attempt /\ task'[t].status = "READY"
      BY <3>2 DEF Queue!ReadyRow
    <3>4. task'[t] # NoRow
      <4>1. want[slot] \in [attempt : Nat \ {0}, due : BOOLEAN]
        BY <1>11 DEF Orders
      <4>2. due[t] = want[slot].due
        BY <3>1 DEF due
      <4>3. Queue!WellFormed(task'[t])
        BY <3>2, <4>1, <4>2, QueueWrites
      <4> QED
        BY <4>3, QueueRows
    <3> QED
      BY <3>1, <3>3, <3>4 DEF Queue!KeyTaken, Queue!Present
  <2>2. CASE slot \notin free
    <3>1. PICK t \in Pk : /\ Queue!Present(t) /\ SlotOf[t] = slot
                          /\ task[t].attempt = want[slot].attempt
      BY <1>6, <1>11, <2>2 DEF Queue!KeyTaken
    <3>2. task'[t] = task[t]
      BY <3>1, EnqueueInserts
    <3> QED
      BY <3>1, <3>2 DEF Queue!KeyTaken, Queue!Present
  <2> QED
    BY <2>1, <2>2
<1> QED
  BY <1>6, <1>9, <1>10, <1>11

\* A row that is written and is not brought back to life.
LEMMA LiveWritten ==
    ASSUME NEW t \in Pk, NEW row, Queue!TypeOK, task' = [task EXCEPT ![t] = row],
           Live(t) \/ row.status = "DONE", NEW slot
    PROVE  LiveRows(slot)' \subseteq LiveRows(slot)
BY DEF Queue!TypeOK, LiveRows, Rows, Live, Queue!Present, Queue!Done

\* The queue by itself brings no row to life.
LEMMA NoLiveInserted ==
    ASSUME QueueOK, NEW slot,
           \/ UNCHANGED queueVars
           \/ \E w \in Worker : Queue!WorkerStep(w)
           \/ \E t \in Pk : Queue!RowStep(t)
    PROVE  LiveRows(slot)' \subseteq LiveRows(slot)
<1>1. /\ Queue!TypeOK
      /\ \A w \in Worker : hand[w] # NoTask => hand[w] \in Pk /\ Queue!Present(hand[w])
  BY DEF QueueOK, HandsHold, Queue!TypeOK
<1>2. CASE UNCHANGED task
  BY <1>2 DEF LiveRows, Rows, Live, Queue!Present, Queue!Done
<1>3. ASSUME NEW t \in Pk, NEW row, task' = [task EXCEPT ![t] = row],
             Live(t) \/ row.status = "DONE"
      PROVE  LiveRows(slot)' \subseteq LiveRows(slot)
  BY <1>1, <1>3, LiveWritten
<1>4. ASSUME NEW w \in Worker, Queue!WorkerStep(w)
      PROVE  LiveRows(slot)' \subseteq LiveRows(slot)
  <2>1. ASSUME NEW t \in Pk, Queue!ClaimTask(w, t)
        PROVE  LiveRows(slot)' \subseteq LiveRows(slot)
    <3>1. Live(t) /\ task' = [task EXCEPT ![t] = Queue!Claimed(task[t], w)]
      BY <2>1 DEF Queue!ClaimTask, Queue!Claimable, Live, Queue!Done
    <3> QED
      BY <1>3, <3>1
  <2>2. CASE Queue!RenewLease(w) \/ Queue!FinishTaskIfOwned(w)
    <3>1. CASE UNCHANGED task
      BY <1>2, <3>1
    <3>2. CASE /\ Queue!OwnedBy(task[hand[w]], w)
               /\ \E row : task' = [task EXCEPT ![hand[w]] = row]
      <4>1. hand[w] \in Pk /\ Live(hand[w])
        BY <1>1, <2>2, <3>2 DEF Queue!RenewLease, Queue!FinishTaskIfOwned, Queue!OwnedBy, Live,
                                Queue!Done
      <4> QED
        BY <1>3, <3>2, <4>1
    <3> QED
      BY <2>2, <3>1, <3>2 DEF Queue!RenewLease, Queue!FinishTaskIfOwned
  <2>3. CASE Queue!Abandon(w) \/ Queue!Crash(w)
    BY <1>2, <2>3 DEF Queue!Abandon, Queue!Crash
  <2> QED
    BY <1>4, <2>1, <2>2, <2>3 DEF Queue!WorkerStep
<1>5. ASSUME NEW t \in Pk, Queue!RowStep(t)
      PROVE  LiveRows(slot)' \subseteq LiveRows(slot)
  <2>1. CASE Queue!TimerDue(t)
    <3>1. Queue!Present(t) /\ task' = [task EXCEPT ![t] = [task[t] EXCEPT !.due = TRUE]]
      BY <2>1 DEF Queue!TimerDue
    <3>2. [task[t] EXCEPT !.due = TRUE].status = task[t].status
      BY <1>1, <3>1 DEF Queue!TypeOK, Queue!Present, Queue!Row
    <3>3. Live(t) \/ [task[t] EXCEPT !.due = TRUE].status = "DONE"
      BY <3>1, <3>2 DEF Live, Queue!Done
    <3> QED
      BY <1>3, <3>1, <3>3
  <2>2. CASE Queue!LeaseLapses(t) \/ Queue!Reap(t) \/ Queue!ReapPoisoned(t)
    <3>1. Live(t) /\ \E row : task' = [task EXCEPT ![t] = row]
      BY <2>2 DEF Queue!LeaseLapses, Queue!Reap, Queue!ReapPoisoned, Queue!Lapsed, Live,
                  Queue!Done
    <3> QED
      BY <1>3, <3>1
  <2> QED
    BY <1>5, <2>1, <2>2 DEF Queue!RowStep
<1> QED
  BY <1>2, <1>4, <1>5 DEF queueVars

------------------------------------------------------------------------------
(* Workers.                                                                *)

Recording == {"parking", "recording"}

\* One worker takes a step, and has nothing to record afterwards.
LEMMA ClosingShrinks ==
    ASSUME TInv, NEW w \in Worker, NEW mem, worker' = [worker EXCEPT ![w] = mem],
           mem.pc \notin Recording, NEW slot
    PROVE  Closing(slot)' \subseteq Closing(slot) \ {w}
<1>1. worker'[w] = mem /\ \A v \in Worker \ {w} : worker'[v] = worker[v]
  BY DEF TInv, MemoryOK
<1> QED
  BY <1>1 DEF Closing, Recording

LEMMA ClosingGoesOn ==
    ASSUME TInv, NEW w \in Worker, NEW pc, GoTo(w, pc), pc \notin Recording, NEW slot
    PROVE  Closing(slot)' \subseteq Closing(slot)
<1> DEFINE mem == [worker[w] EXCEPT !.pc = pc]
<1>1. worker' = [worker EXCEPT ![w] = mem] /\ mem.pc = pc
  BY DEF GoTo, TInv, MemoryOK, Memory
<1> HIDE DEF mem
<1> QED
  BY <1>1, ClosingShrinks

LEMMA ClosingForgets ==
    ASSUME TInv, NEW w \in Worker, worker' = [worker EXCEPT ![w] = Idle], NEW slot
    PROVE  Closing(slot)' \subseteq Closing(slot) \ {w}
<1>1. Idle.pc \notin Recording
  BY DEF Idle, Recording
<1> QED
  BY <1>1, ClosingShrinks

LEMMA ClosingSame ==
    ASSUME UNCHANGED worker, NEW slot
    PROVE  Closing(slot)' = Closing(slot)
BY DEF Closing

\* The steps that leave who is in charge alone.
LEMMA QuietHands ==
    ASSUME TInv, NEW slot,
           \/ UNCHANGED vars
           \/ \E w \in Worker : \/ Claim(w) \/ LoadContext(w) \/ Return(w) \/ FireTimer(w)
                                \/ StartStep(w) \/ Execute(w) \/ Heartbeat(w) \/ Abandon(w)
                                \/ Crash(w)
           \/ \E a \in Actor, s \in Step, approve \in BOOLEAN : CheckApproval(a, s, approve)
           \/ \E t \in Pk : RowStep(t)
           \/ AnnounceRecovery \/ ReaperDies
    PROVE  HandsOn(slot)
<1>1. ASSUME NEW w \in Worker,
             \/ Claim(w) \/ LoadContext(w) \/ Return(w) \/ FireTimer(w) \/ StartStep(w)
             \/ Execute(w) \/ Heartbeat(w) \/ Abandon(w) \/ Crash(w)
      PROVE  HandsOn(slot)
  <2>1. Queue!WorkerStep(w) \/ UNCHANGED queueVars
    BY <1>1 DEF Claim, LoadContext, Return, FireTimer, StartStep, Execute, CallReturns,
                Heartbeat, Abandon, Crash, Queue!WorkerStep
  <2>2. LiveRows(slot)' \subseteq LiveRows(slot)
    BY <2>1, NoLiveInserted DEF TInv
  <2>3. CASE Return(w) \/ Abandon(w) \/ Crash(w)
    BY <2>2, <2>3, ClosingForgets DEF Return, Abandon, Crash, HandsOn
  <2>4. CASE FireTimer(w) \/ StartStep(w)
    BY <2>2, <2>4, ClosingGoesOn DEF FireTimer, StartStep, HandsOn, Recording
  <2>5. CASE Heartbeat(w)
    BY <2>2, <2>5, ClosingSame DEF Heartbeat, HandsOn
  <2>6. CASE Claim(w)
    <3>1. PICK t \in Pk : worker' = [worker EXCEPT ![w] =
              [Idle EXCEPT !.pc = "claimed", !.slot = SlotOf[t], !.attempt = task[t].attempt]]
      BY <2>6 DEF Claim
    <3>2. [Idle EXCEPT !.pc = "claimed", !.slot = SlotOf[t], !.attempt = task[t].attempt].pc
            \notin Recording
      BY DEF Idle, Recording
    <3> QED
      BY <2>2, <3>1, <3>2, ClosingShrinks DEF HandsOn
  <2>7. CASE LoadContext(w)
    <3> DEFINE mem == [worker[w] EXCEPT !.pc = Route(worker[w].slot),
                                        !.approved = ctx.steps[StepOf(w)].approved]
    <3>1. worker' = [worker EXCEPT ![w] = mem]
      BY <2>7 DEF LoadContext
    <3>2. mem.pc = Route(worker[w].slot)
      BY DEF TInv, MemoryOK, Memory
    <3>3. mem.pc \notin Recording
      BY <3>2 DEF Route, Recording
    <3> HIDE DEF mem
    <3> QED
      BY <2>2, <3>1, <3>3, ClosingShrinks DEF HandsOn
  <2>8. CASE Execute(w)
    <3>1. PICK ok : worker' = [worker EXCEPT ![w].pc = "executed", ![w].ok = ok]
      BY <2>8 DEF Execute, CallReturns
    <3> DEFINE mem == [worker[w] EXCEPT !.pc = "executed", !.ok = ok]
    <3>2. worker' = [worker EXCEPT ![w] = mem]
      BY <3>1
    <3>3. mem.pc \notin Recording
      BY DEF TInv, MemoryOK, Memory, Recording
    <3> HIDE DEF mem
    <3> QED
      BY <2>2, <3>2, <3>3, ClosingShrinks DEF HandsOn
  <2> QED
    BY <1>1, <2>3, <2>4, <2>5, <2>6, <2>7, <2>8
<1>2. ASSUME NEW t \in Pk, RowStep(t) PROVE HandsOn(slot)
  <2>1. UNCHANGED worker /\ Queue!RowStep(t)
    BY <1>2 DEF RowStep, TimerDue, LeaseLapses, Reap, ReapPoisoned, Queue!RowStep
  <2> QED
    BY <2>1, NoLiveInserted, ClosingSame DEF TInv, HandsOn
<1>3. CASE \/ UNCHANGED vars
           \/ \E a \in Actor, s \in Step, approve \in BOOLEAN : CheckApproval(a, s, approve)
           \/ AnnounceRecovery \/ ReaperDies
  <2>1. UNCHANGED worker /\ UNCHANGED queueVars
    BY <1>3 DEF vars, CheckApproval, AnnounceRecovery, ReaperDies
  <2> QED
    BY <2>1, NoLiveInserted, ClosingSame DEF TInv, HandsOn
<1> QED
  BY <1>1, <1>2, <1>3

\* From the row to the worker that has finished it.
LEMMA FinishHands ==
    ASSUME TInv, NEW w \in Worker, Finish(w), NEW slot
    PROVE  HandsOn(slot)
<1> DEFINE t == hand[w]
<1>1. /\ t \in Pk /\ Queue!OwnedBy(task[t], w) /\ Queue!Present(t)
      /\ task' = [task EXCEPT ![t] = Queue!Finished(task[t])]
      /\ Queue!FinishTaskIfOwned(w)
  BY DEF Finish, Queue!FinishTaskIfOwned, TInv, QueueOK, HandsHold, Queue!TypeOK
<1>2. worker[w].slot = SlotOf[t]
  BY <1>1 DEF TInv, MemoryOK, Fits, Queue!FinishTaskIfOwned
<1>3. LiveRows(slot)' \subseteq LiveRows(slot)
  BY <1>1, NoLiveInserted DEF TInv, Queue!WorkerStep
<1>4. PICK pc \in Recording : worker' = [worker EXCEPT ![w].pc = pc]
  BY DEF Finish, GoTo, Recording
<1> DEFINE mem == [worker[w] EXCEPT !.pc = pc]
<1>5. worker' = [worker EXCEPT ![w] = mem] /\ mem.slot = worker[w].slot
  BY <1>4 DEF TInv, MemoryOK, Memory
<1> HIDE DEF mem
<1>6. /\ worker'[w] = mem
      /\ \A v \in Worker \ {w} : worker'[v] = worker[v]
  BY <1>5 DEF TInv, MemoryOK
<1>7. CASE slot # SlotOf[t]
  <2>1. Closing(slot)' \subseteq Closing(slot)
    BY <1>2, <1>5, <1>6, <1>7 DEF Closing
  <2> QED
    BY <1>3, <2>1 DEF HandsOn
<1>8. CASE slot = SlotOf[t]
  <2>1. t \in LiveRows(slot)
    BY <1>1, <1>8 DEF LiveRows, Rows, Live, Queue!Done, Queue!OwnedBy
  <2>2. t \notin LiveRows(slot)'
    <3>1. Queue!WellFormed(task[t])
      BY <1>1 DEF TInv, QueueOK, Queue!TypeOK
    <3>2. Queue!Finished(task[t]).status = "DONE"
      BY <3>1 DEF Queue!Finished, Queue!WellFormed, Queue!Row
    <3>3. task'[t].status = "DONE"
      BY <1>1, <3>2 DEF TInv, QueueOK, Queue!TypeOK
    <3> QED
      BY <3>3 DEF LiveRows, Live, Queue!Done
  <2>3. Closing(slot)' \subseteq Closing(slot) \cup {w}
    BY <1>6 DEF Closing
  <2> QED
    BY <1>3, <2>1, <2>2, <2>3 DEF HandsOn
<1> QED
  BY <1>7, <1>8

\* From a worker to the row it leaves.
LEMMA PostponeHands ==
    ASSUME TInv, NEW w \in Worker, worker[w].pc \in Recording,
           worker' = [worker EXCEPT ![w] = Idle],
           NEW want, Orders(want), Enqueue(want), DOMAIN want \subseteq {worker[w].slot},
           NEW slot \in Slot
    PROVE  HandsOn(slot)
<1>1. /\ \E t : LiveRows(slot)' \subseteq LiveRows(slot) \cup {t}
      /\ slot \in DOMAIN want \/ LiveRows(slot)' \subseteq LiveRows(slot)
  BY LiveInserted DEF TInv, QueueOK
<1>2. Closing(slot)' \subseteq Closing(slot) \ {w}
  BY ClosingForgets
<1>3. CASE slot = worker[w].slot
  <2>1. w \in Closing(slot)
    BY <1>3 DEF Closing, Recording
  <2> QED
    BY <1>1, <1>2, <2>1 DEF HandsOn
<1>4. CASE slot # worker[w].slot
  BY <1>1, <1>2, <1>4 DEF HandsOn
<1> QED
  BY <1>3, <1>4

\* What a worker that parks its step asks for.
LEMMA ParkOrders ==
    ASSUME TInv, NEW w \in Worker, Park(w)
    PROVE  \E want : /\ Orders(want) /\ Enqueue(want) /\ DOMAIN want \subseteq {worker[w].slot}
                     /\ ~Timed(StepOf(w)) => DOMAIN want = {}
<1> DEFINE want == IF Timed(StepOf(w))
                   THEN Order(Do(StepOf(w)), worker[w].attempt + 1, FALSE) ELSE <<>>
<1>1. worker[w].pc = "parking" /\ Enqueue(want)
  BY DEF Park, At
<1>2. worker[w].slot \in Slot /\ ~Undoing(w)
  BY <1>1 DEF TInv, MemoryOK, Fits, Forward
<1>3. worker[w].slot = Do(StepOf(w))
  BY <1>2, SlotOfTyped DEF StepOf, Undoing, Do
<1>4. worker[w].attempt + 1 \in Nat \ {0}
  <2>1. worker[w].attempt \in Nat
    BY DEF TInv, MemoryOK, Memory
  <2> QED
    BY <2>1
<1>5. Orders(want) /\ DOMAIN want \subseteq {worker[w].slot} /\ (~Timed(StepOf(w)) => DOMAIN want = {})
  BY <1>2, <1>3, <1>4, OrdersOfOne, OrdersOfNone
<1> HIDE DEF want
<1> QED
  BY <1>1, <1>5

LEMMA RetryOrders ==
    ASSUME TInv, NEW w \in Worker, RecordRetry(w)
    PROVE  \E want : Orders(want) /\ Enqueue(want) /\ DOMAIN want \subseteq {worker[w].slot}
<1> DEFINE want == Order(worker[w].slot, NextTry(w), FALSE)
<1>1. worker[w].pc = "recording" /\ Enqueue(want)
  BY DEF RecordRetry, At
<1>2. worker[w].slot \in Slot
  BY <1>1 DEF TInv, MemoryOK, Fits
<1>3. NextTry(w) \in Nat \ {0}
  <2>1. worker[w].attempt \in Nat
    BY DEF TInv, MemoryOK, Memory
  <2> QED
    BY <2>1 DEF NextTry
<1>4. Orders(want) /\ DOMAIN want \subseteq {worker[w].slot}
  BY <1>2, <1>3, OrdersOfOne
<1> HIDE DEF want
<1> QED
  BY <1>1, <1>4

LEMMA PostponedHands ==
    ASSUME TInv, NEW w \in Worker, Park(w) \/ RecordRetry(w), NEW slot \in Slot
    PROVE  HandsOn(slot)
<1>1. worker[w].pc \in Recording /\ worker' = [worker EXCEPT ![w] = Idle]
  BY DEF Park, RecordRetry, At, Recording
<1> QED
  BY <1>1, ParkOrders, RetryOrders, PostponeHands

------------------------------------------------------------------------------
(* What advance_run queues.                                                *)

\* A slot is opened: a step that was PENDING, or an undo without a first row.
Opens(slot) ==
    \/ \E s \in Step : /\ slot = Do(s)
                       /\ ctx.steps[s].status = "PENDING"
                       /\ ctx'.steps[s].status # "PENDING"
    \/ \E s \in Step : /\ slot = Undo(s)
                       /\ ~Queue!KeyTaken(slot, 1)
                       /\ Queue!KeyTaken(slot, 1)'

\* No step is PENDING that was not.
KeepsPending(c) ==
    \A s \in Step : c.steps[s].status = "PENDING" => ctx.steps[s].status = "PENDING"

\* The step a row was created for does not stay PENDING.
LEMMA Scheduled ==
    ASSUME NEW c \in Context, NEW s \in Step, Do(s) \in NextWork(c),
           ~Queue!KeyTaken(Do(s), 1)
    PROVE  MarkScheduled(c).steps[s].status = "SCHEDULED"
<1> DEFINE created == {r \in Step : Do(r) \in NextWork(c) /\ ~Queue!KeyTaken(Do(r), 1)}
<1>1. s \in created
  OBVIOUS
<1> HIDE DEF created
<1>2. MarkScheduled(c).steps = [r \in Step |->
          IF r \in created THEN ApplyToSlot(c.steps[r], "STEP_SCHEDULED") ELSE c.steps[r]]
  BY DEF MarkScheduled, created, Context
<1>3. MarkScheduled(c).steps[s] = ApplyToSlot(c.steps[s], "STEP_SCHEDULED")
  BY <1>1, <1>2
<1>4. c.steps[s] \in StepSlot
  BY DEF Context
<1>5. "STEP_SCHEDULED" \in DOMAIN StepStatusAfter
      /\ StepStatusAfter["STEP_SCHEDULED"] = "SCHEDULED"
  BY DEF StepStatusAfter
<1>6. ApplyToSlot(c.steps[s], "STEP_SCHEDULED").status = "SCHEDULED"
  BY <1>4, <1>5 DEF ApplyToSlot, StepSlot
<1> QED
  BY <1>3, <1>6

LEMMA CallHands ==
    ASSUME TInv, NEW c \in Context, KeepsPending(c), ctx'.steps = MarkScheduled(c).steps,
           NEW want, Orders(want), Enqueue(want), NEW slot \in Slot,
           slot \in DOMAIN want => slot \in NextWork(c) /\ want[slot].attempt = 1,
           Closing(slot)' \subseteq Closing(slot)
    PROVE  HandsOn(slot) \/ (Begins(slot) /\ Opens(slot))
<1>1. /\ \E t : LiveRows(slot)' \subseteq LiveRows(slot) \cup {t}
      /\ \/ LiveRows(slot)' \subseteq LiveRows(slot)
         \/ slot \in DOMAIN want /\ ~Queue!KeyTaken(slot, want[slot].attempt)
      /\ slot \in DOMAIN want => Queue!KeyTaken(slot, want[slot].attempt)'
  BY LiveInserted DEF TInv, QueueOK
<1>2. CASE LiveRows(slot)' \subseteq LiveRows(slot)
  BY <1>2 DEF HandsOn
<1>3. CASE slot \in DOMAIN want /\ ~Queue!KeyTaken(slot, want[slot].attempt)
  <2>1. /\ slot \in NextWork(c)
        /\ ~Queue!KeyTaken(slot, 1)
        /\ Queue!KeyTaken(slot, 1)'
    BY <1>1, <1>3
  <2>2. PICK s \in Step : slot = Do(s) \/ slot = Undo(s)
    BY SlotIsDoOrUndo
  <2>3. CASE slot = Do(s)
    <3>1. c.steps[s].status = "PENDING"
      BY <2>1, <2>3, NextWorkTyped DEF ReadySteps, StepsWithStatus
    <3>2. ctx'.steps[s].status # "PENDING"
      BY <2>1, <2>3, Scheduled
    <3> QED
      BY <1>1, <2>3, <3>1, <3>2 DEF KeepsPending, Opens, Begins
  <2>4. CASE slot = Undo(s)
    BY <1>1, <2>1, <2>4 DEF Opens, Begins
  <2> QED
    BY <2>2, <2>3, <2>4
<1> QED
  BY <1>1, <1>2, <1>3

LEMMA StartRunHands ==
    ASSUME TInv, StartRun, NEW slot \in Slot
    PROVE  HandsOn(slot) \/ (Begins(slot) /\ Opens(slot))
<1> DEFINE c == ApplyEvent(ctx, Event("RUN_STARTED", NoStep))
           want == [x \in NextWork(c) |-> Wanted(1, TRUE)]
<1>1. c \in Context /\ c.steps = ctx.steps
  BY RunStarted DEF TInv
<1>2. ctx' = MarkScheduled(c) /\ Enqueue(want) /\ UNCHANGED worker
  BY DEF StartRun, Sync
<1> HIDE DEF c
<1>3. Orders(want)
  BY <1>1, NextWorkTyped DEF Orders, Wanted
<1>4. slot \in DOMAIN want => slot \in NextWork(c) /\ want[slot].attempt = 1
  BY DEF Wanted
<1> HIDE DEF want
<1>5. KeepsPending(c)
  BY <1>1 DEF KeepsPending
<1>6. Closing(slot)' \subseteq Closing(slot)
  BY <1>2, ClosingSame
<1> QED
  BY <1>1, <1>2, <1>3, <1>4, <1>5, <1>6, CallHands

LEMMA AdvanceHands ==
    ASSUME TInv, NEW log \in Context, KeepsPending(log), NEW also, Orders(also),
           AdvanceRun(log, also), NEW slot \in Slot, Closing(slot)' \subseteq Closing(slot)
    PROVE  /\ slot \notin DOMAIN also => HandsOn(slot) \/ (Begins(slot) /\ Opens(slot))
           /\ slot \in DOMAIN also => Begins(slot)
<1> DEFINE want == [x \in DOMAIN also \cup NextWork(log) |->
                        IF x \in DOMAIN also THEN also[x] ELSE Wanted(1, TRUE)]
<1>1. ctx' = CloseIfFinished(log, MarkScheduled(log)) /\ Enqueue(want)
  BY DEF AdvanceRun
<1>2. NextWork(log) \subseteq Slot
  BY NextWorkTyped
<1>3. /\ Wanted(1, TRUE) \in [attempt : Nat \ {0}, due : BOOLEAN]
      /\ Wanted(1, TRUE).attempt = 1
  BY DEF Wanted
<1>4. /\ DOMAIN want = DOMAIN also \cup NextWork(log)
      /\ \A x \in DOMAIN want : want[x] = IF x \in DOMAIN also THEN also[x] ELSE Wanted(1, TRUE)
  OBVIOUS
<1> HIDE DEF want
<1>5. Orders(want)
  BY <1>2, <1>3, <1>4 DEF Orders
<1>6. ctx'.steps = MarkScheduled(log).steps
  <2>1. /\ MarkScheduled(log) \in Context
        /\ MarkScheduled(log).status = log.status
    BY Marked
  <2> QED
    BY <1>1, <2>1, Closed
<1>7. CASE slot \notin DOMAIN also
  <2>1. slot \in DOMAIN want => slot \in NextWork(log) /\ want[slot].attempt = 1
    BY <1>3, <1>4, <1>7
  <2> QED
    BY <1>1, <1>5, <1>6, <1>7, <2>1, CallHands
<1>8. CASE slot \in DOMAIN also
  BY <1>1, <1>5, <1>8, LiveInserted DEF Begins, TInv, QueueOK
<1> QED
  BY <1>7, <1>8

\* The logs advance_run is called with.
LEMMA EventKeepsPending ==
    ASSUME ctx \in Context, NEW s \in Step, NEW type \in StepEvent
    PROVE  LET c == ApplyEvent(ctx, Event(type, s))
           IN  /\ c \in Context /\ KeepsPending(c)
               /\ Unwind(c, s) \in Context /\ KeepsPending(Unwind(c, s))
<1> DEFINE c == ApplyEvent(ctx, Event(type, s))
           d == Unwind(c, s)
<1>1. /\ c \in Context
      /\ c.steps[s] = ApplyToSlot(ctx.steps[s], type)
      /\ \A r \in Step \ {s} : c.steps[r] = ctx.steps[r]
  BY AfterStepEvent
<1> HIDE DEF c
<1>2. d \in Context /\ d.steps = c.steps
  BY <1>1, Unwound
<1> HIDE DEF d
<1>3. ctx.steps[s] \in StepSlot
  BY DEF Context
<1>4. KeepsPending(c)
  BY <1>1, <1>3, SlotAfter DEF KeepsPending
<1>5. KeepsPending(d)
  BY <1>2, <1>4 DEF KeepsPending
<1> QED
  BY <1>1, <1>2, <1>4, <1>5 DEF c, d

\* A transaction about a step whose worker is done with it, or of a request that was
\* denied.
LEMMA OutcomeHands ==
    ASSUME TInv, NEW s \in Step, NEW type \in StepEvent,
           \/ AdvanceRun(ApplyEvent(ctx, Event(type, s)), <<>>)
           \/ AdvanceRun(Unwind(ApplyEvent(ctx, Event(type, s)), s), <<>>),
           NEW slot \in Slot, Closing(slot)' \subseteq Closing(slot)
    PROVE  HandsOn(slot) \/ (Begins(slot) /\ Opens(slot))
<1> DEFINE c == ApplyEvent(ctx, Event(type, s))
           d == Unwind(c, s)
<1>1. c \in Context /\ KeepsPending(c) /\ d \in Context /\ KeepsPending(d)
  BY EventKeepsPending DEF TInv
<1>2. AdvanceRun(c, <<>>) \/ AdvanceRun(d, <<>>)
  OBVIOUS
<1> HIDE DEF c, d
<1>3. Orders(<<>>) /\ slot \notin DOMAIN <<>>
  BY OrdersOfNone
<1> QED
  BY <1>1, <1>2, <1>3, AdvanceHands

\* The workers that call advance_run.
LEMMA RecordedHands ==
    ASSUME RInv, NEW w \in Worker, RejectConfig(w) \/ RecordOutcome(w) \/ RecordUndo(w),
           NEW slot \in Slot
    PROVE  HandsOn(slot) \/ (Begins(slot) /\ Opens(slot))
<1>1. worker[w].pc # "idle"
  BY DEF RejectConfig, RecordOutcome, RecordUndo, At
<1>2. StepOf(w) \in Step /\ TInv
  BY <1>1, WorkerBacked DEF RInv, DInv
<1>3. Closing(slot)' \subseteq Closing(slot)
  <2>1. CASE RejectConfig(w)
    BY <1>2, <2>1, ClosingGoesOn DEF RejectConfig, Recording
  <2>2. CASE RecordOutcome(w) \/ RecordUndo(w)
    BY <1>2, <2>2, ClosingForgets DEF RecordOutcome, RecordUndo
  <2> QED
    BY <2>1, <2>2
<1>4. \E type \in StepEvent :
        \/ AdvanceRun(ApplyEvent(ctx, Event(type, StepOf(w))), <<>>)
        \/ AdvanceRun(Unwind(ApplyEvent(ctx, Event(type, StepOf(w))), StepOf(w)), <<>>)
  BY DEF RejectConfig, RecordOutcome, RecordUndo, After, StepEvent
<1> QED
  BY <1>2, <1>3, <1>4, OutcomeHands

\* The request whose approval opens the slot of its step.
Approves(a, slot) ==
    ResolveApproval(a) /\ request[a].approve /\ slot = Do(request[a].step)

LEMMA ResolveApprovalHands ==
    ASSUME RInv, NEW a \in Actor, ResolveApproval(a), NEW slot \in Slot
    PROVE  \/ HandsOn(slot)
           \/ Begins(slot) /\ Opens(slot)
           \/ Begins(slot) /\ Approves(a, slot)
<1> DEFINE s == request[a].step
           granted == ApplyEvent(ctx, Event("APPROVAL_GRANTED", s))
           want == Order(Do(s), NextAttempt(Do(s)), TRUE)
<1>1. /\ request[a].pc = "checked" /\ s \in Step /\ TInv
      /\ IF request[a].approve THEN AdvanceRun(granted, want)
         ELSE AdvanceRun(Unwind(ApplyEvent(ctx, Event("APPROVAL_DENIED", s)), s), <<>>)
  BY DEF ResolveApproval, RInv, TInv, RequestsOK
<1>2. Closing(slot)' \subseteq Closing(slot)
  BY ClosingSame DEF ResolveApproval
<1>3. CASE ~request[a].approve
  <2>1. "APPROVAL_DENIED" \in StepEvent
    BY DEF StepEvent
  <2> QED
    BY <1>1, <1>2, <1>3, <2>1, OutcomeHands
<1>4. CASE request[a].approve
  <2>1. granted \in Context /\ KeepsPending(granted)
    <3>1. "APPROVAL_GRANTED" \in StepEvent
      BY DEF StepEvent
    <3> QED
      BY <1>1, <3>1, EventKeepsPending DEF TInv
  <2>2. NextAttempt(Do(s)) \in Nat \ {0} /\ Do(s) \in Slot
    BY <1>1, NextAttemptTyped, SlotOfTyped DEF TInv, QueueOK
  <2>3. Orders(want) /\ DOMAIN want = {Do(s)}
    BY <2>2, OrdersOfOne
  <2>4. AdvanceRun(granted, want)
    BY <1>1, <1>4
  <2> HIDE DEF want, granted
  <2>5. /\ slot # Do(s) => HandsOn(slot) \/ (Begins(slot) /\ Opens(slot))
        /\ slot = Do(s) => Begins(slot)
    BY <1>1, <1>2, <2>1, <2>3, <2>4, AdvanceHands
  <2> QED
    BY <1>4, <2>5 DEF Approves
<1> QED
  BY <1>3, <1>4

\* Whoever takes a step: the charge of a slot is handed on, or the slot begins because
\* it was opened or approved.
LEMMA EveryStepHands ==
    ASSUME RInv, [Next]_vars, NEW slot \in Slot
    PROVE  \/ HandsOn(slot)
           \/ Begins(slot) /\ Opens(slot)
           \/ Begins(slot) /\ \E a \in Actor : Approves(a, slot)
<1>0. TInv
  BY DEF RInv
<1>1. ASSUME NEW w \in Worker, Work(w) \/ Heartbeat(w) \/ Crash(w)
      PROVE  HandsOn(slot) \/ (Begins(slot) /\ Opens(slot))
  <2>1. CASE Finish(w)
    BY <1>0, <2>1, FinishHands
  <2>2. CASE Park(w) \/ RecordRetry(w)
    BY <1>0, <2>2, PostponedHands
  <2>3. CASE RejectConfig(w) \/ RecordOutcome(w) \/ RecordUndo(w)
    BY <2>3, RecordedHands
  <2>4. CASE \/ Claim(w) \/ LoadContext(w) \/ Return(w) \/ FireTimer(w)
             \/ StartStep(w) \/ Execute(w) \/ Heartbeat(w) \/ Abandon(w)
             \/ Crash(w)
    BY <1>0, <2>4, QuietHands
  <2> QED
    BY <1>1, <2>1, <2>2, <2>3, <2>4 DEF Work, Bookkeeping
<1>2. ASSUME NEW a \in Actor, ResolveApproval(a)
      PROVE  \/ HandsOn(slot)
             \/ Begins(slot) /\ Opens(slot)
             \/ Begins(slot) /\ \E b \in Actor : Approves(b, slot)
  BY <1>2, ResolveApprovalHands
<1>3. ASSUME NEW a \in Actor, Approvals(a), ~ResolveApproval(a) PROVE HandsOn(slot)
  BY <1>0, <1>3, QuietHands DEF Approvals
<1>4. ASSUME NEW t \in Pk, RowStep(t) PROVE HandsOn(slot)
  BY <1>0, <1>4, QuietHands
<1>5. CASE AnnounceRecovery \/ ReaperDies \/ UNCHANGED vars
  BY <1>0, <1>5, QuietHands
<1>6. CASE StartRun
  BY <1>0, <1>6, StartRunHands
<1> QED
  BY <1>1, <1>2, <1>3, <1>4, <1>5, <1>6 DEF Next

------------------------------------------------------------------------------
(* Steps.                                                                  *)

\* No two requests about the step were accepted.
DecidedOnce(s) ==
    \A a, b \in Actor : /\ request[a].pc = "done" /\ request[a].step = s
                        /\ request[b].pc = "done" /\ request[b].step = s
                        => a = b

\* A step that is PENDING has no row.
Fresh == \A s \in Step : ctx.steps[s].status = "PENDING" => Rowless(Do(s))

\* Requests are about steps somebody was asked about.
Asking ==
    \A a \in Actor : request[a].pc = "checked" =>
        StepType[request[a].step] = "approval" /\ ctx.steps[request[a].step].approvalRequested

Decided(s) == StepType[s] = "approval" => DecidedOnce(s)

\* Who has a step in hand; nobody while a person is asked.
StepHeld(s) ==
    /\ InOneHand(Do(s))
    /\ StepType[s] = "approval" /\ ctx.steps[s].approvalRequested /\ ~Granted(s) =>
        Free(Do(s))

CInv ==
    /\ Fresh
    /\ Asking
    /\ \A s \in Step \ Deadline : Decided(s) => StepHeld(s)

\* At most one party is in charge of a step at any time, whatever stalls, dies and is
\* recovered, if the step has no deadline and is not decided on twice (enqueue_step's
\* unique key, retries, recoveries and parked steps together).
OneCustodianPerStep ==
    \A s \in Step \ Deadline : Decided(s) => Custodians(Do(s)) <= 1

\* No step goes back to PENDING.
LEMMA NeverPendingAgain ==
    ASSUME RInv, [Next]_vars
    PROVE  KeepsPending(ctx')
<1>0. TInv /\ Backed /\ ctx \in Context
  BY DEF RInv, DInv, TInv
<1>1. ASSUME NEW c \in Context, KeepsPending(c),
             ctx' = c \/ \A s \in Step :
                \/ ctx'.steps[s] = c.steps[s]
                \/ ctx'.steps[s] = ApplyToSlot(c.steps[s], "STEP_SCHEDULED")
      PROVE  KeepsPending(ctx')
  <2>1. \A s \in Step : c.steps[s] \in StepSlot
    BY DEF Context
  <2> QED
    BY <1>1, <2>1, SlotAfter DEF KeepsPending
<1>2. CASE Quiet
  BY <1>2 DEF Quiet, runVars, KeepsPending
<1>3. CASE StartRun
  <2> DEFINE c == ApplyEvent(ctx, Event("RUN_STARTED", NoStep))
  <2>1. c \in Context /\ c.steps = ctx.steps
    BY <1>0, RunStarted
  <2>2. ctx' = MarkScheduled(c)
    BY <1>3 DEF StartRun, Sync
  <2> HIDE DEF c
  <2>3. KeepsPending(c)
    BY <2>1 DEF KeepsPending
  <2> QED
    BY <1>1, <2>1, <2>2, <2>3, Marked
<1>4. ASSUME NEW type, NEW s, NEW c, Writes(type, s, c)
      PROVE  KeepsPending(ctx')
  <2>1. c \in Context /\ KeepsPending(c)
    BY <1>0, <1>4, EventKeepsPending DEF Writes
  <2>2. ctx' = c \/ Continues(c, ctx')
    BY <1>4 DEF Writes
  <2> QED
    BY <1>1, <2>1, <2>2 DEF Continues
<1> QED
  BY <1>0, <1>2, <1>3, <1>4, EveryStep

\* A row that appears is still to be worked on.
LEMMA NewRowsLive ==
    ASSUME TInv, [Next]_vars, NEW t \in Pk, ~Queue!Present(t), Queue!Present(t)'
    PROVE  Live(t)'
<1>1. [Queue!Next]_queueVars /\ QueueOK
  BY NextOK DEF AsQueue, TInv
<1>2. ~NoNewRows
  BY DEF NoNewRows
<1>3. Queue!Enqueue
  BY <1>1, <1>2, QueueInsertsNone DEF Queue!Next
<1>4. PICK new \in (SUBSET Pk) \ {{}} :
        \E attempt \in [new -> 1..MaxAttempt], due \in [new -> BOOLEAN] :
            Queue!EnqueueSteps(new, attempt, due)
  BY <1>3 DEF Queue!Enqueue
<1>5. PICK attempt \in [new -> 1..MaxAttempt], due \in [new -> BOOLEAN] :
            Queue!EnqueueSteps(new, attempt, due)
  BY <1>4
<1>6. task'[t] = IF t \in new THEN Queue!ReadyRow(attempt[t], due[t]) ELSE task[t]
  BY <1>5 DEF Queue!EnqueueSteps
<1>7. task'[t].status = "READY"
  BY <1>6 DEF Queue!ReadyRow, Queue!Present
<1> QED
  BY <1>7 DEF Live, Queue!Done

\* Nobody has a slot without rows in hand.
LEMMA RowlessIsFree ==
    ASSUME RInv, NEW slot, Rowless(slot)
    PROVE  Free(slot)
BY DEF RInv, DInv, Backed, Free, LiveRows, Closing, Rowless

LEMMA DoIsOne ==
    \A s, r \in Step : /\ Do(s) = Do(r) => s = r
                       /\ Undo(s) = Undo(r) => s = r
                       /\ Do(s) # Undo(r)
BY DEF Do, Undo

LEMMA FreshNext ==
    ASSUME RInv, Fresh, [Next]_vars
    PROVE  Fresh'
<1> SUFFICES ASSUME NEW s \in Step, ctx'.steps[s].status = "PENDING"
             PROVE  Rowless(Do(s))'
  BY DEF Fresh
<1>1. ctx.steps[s].status = "PENDING"
  BY NeverPendingAgain DEF KeepsPending
<1>2. Rowless(Do(s)) /\ Do(s) \in Slot
  BY <1>1, SlotOfTyped DEF Fresh
<1>3. Free(Do(s))
  BY <1>2, RowlessIsFree
<1>4. ~Opens(Do(s))
  BY DoIsOne DEF Opens
<1>5. ASSUME NEW a \in Actor PROVE ~Approves(a, Do(s))
  <2> SUFFICES ASSUME Approves(a, Do(s)) PROVE FALSE
    OBVIOUS
  <2>1. request[a].pc = "checked" /\ Do(s) = Do(request[a].step)
    BY DEF Approves, ResolveApproval
  <2> QED
    BY <1>2, <2>1 DEF RInv, DInv, Backed
<1>6. Free(Do(s))'
  BY <1>2, <1>3, <1>4, <1>5, EveryStepHands, FreeHandedOn
<1>7. ASSUME NEW t \in Pk, SlotOf[t] = Do(s), Queue!Present(t)' PROVE FALSE
  <2>1. ~Queue!Present(t)
    BY <1>2, <1>7 DEF Rowless, Rows
  <2>2. Live(t)'
    BY <1>7, <2>1, NewRowsLive DEF RInv
  <2>3. t \in LiveRows(Do(s))'
    BY <1>7, <2>2 DEF LiveRows, Rows
  <2> QED
    BY <1>6, <2>3 DEF Free
<1> QED
  BY <1>7 DEF Rowless, Rows

\* Who is asked stays asked, and only a worker that parks the step asks.
LEMMA AskedBy ==
    ASSUME RInv, [Next]_vars, NEW s \in Step
    PROVE  /\ ctx.steps[s].approvalRequested => ctx'.steps[s].approvalRequested
           /\ ctx'.steps[s].approvalRequested =>
                ctx.steps[s].approvalRequested \/ \E w \in Worker : Park(w) /\ StepOf(w) = s
<1>1. CASE Quiet
  BY <1>1 DEF Quiet, runVars
<1>2. CASE StartRun
  BY <1>2, StartMarks DEF RInv
<1>3. ASSUME NEW type, NEW r, NEW c, Writes(type, r, c), AppendedBy(type, r)
      PROVE  /\ ctx.steps[s].approvalRequested => ctx'.steps[s].approvalRequested
             /\ ctx'.steps[s].approvalRequested =>
                  \/ ctx.steps[s].approvalRequested
                  \/ \E w \in Worker : Park(w) /\ StepOf(w) = s
  BY <1>3, WritesMarks DEF RInv, AppendedBy
<1> QED
  BY <1>1, <1>2, <1>3, EveryStep DEF RInv, DInv

LEMMA AskingNext ==
    ASSUME RInv, Asking, [Next]_vars
    PROVE  Asking'
<1> SUFFICES ASSUME NEW a \in Actor, request'[a].pc = "checked"
             PROVE  /\ StepType[request'[a].step] = "approval"
                    /\ ctx'.steps[request'[a].step].approvalRequested
  BY DEF Asking
<1>1. \/ /\ request'[a].step \in Step
         /\ StepType[request'[a].step] = "approval"
         /\ ctx.steps[request'[a].step].approvalRequested
  <2>1. CASE UNCHANGED request
    BY <2>1 DEF Asking, RInv, TInv, RequestsOK
  <2>2. CASE \E b \in Actor, s \in Step, approve \in BOOLEAN : CheckApproval(b, s, approve)
    BY <2>2 DEF CheckApproval, Asking, RInv, TInv, RequestsOK
  <2>3. CASE \E b \in Actor : ResolveApproval(b)
    BY <2>3 DEF ResolveApproval, Asking, RInv, TInv, RequestsOK, Asked
  <2> QED
    BY <2>1, <2>2, <2>3, RequestSteps
<1> QED
  BY <1>1, AskedBy

\* A worker that has asked for an approval without a deadline leaves no row.
LEMMA ParkedFree ==
    ASSUME TInv, NEW w \in Worker, Park(w), NEW s \in Step, StepOf(w) = s, ~Timed(s),
           InOneHand(Do(s))
    PROVE  Free(Do(s))'
<1>1. worker[w].pc = "parking" /\ worker' = [worker EXCEPT ![w] = Idle]
  BY DEF Park, At
<1>2. worker[w].slot \in Slot /\ ~Undoing(w)
  BY <1>1 DEF TInv, MemoryOK, Fits, Forward
<1>3. worker[w].slot = Do(s) /\ Do(s) \in Slot
  BY <1>2, SlotOfTyped DEF StepOf, Undoing, Do
<1>4. w \in Closing(Do(s))
  BY <1>1, <1>3 DEF Closing
<1>5. PICK want : Orders(want) /\ Enqueue(want) /\ DOMAIN want = {}
  BY ParkOrders
<1>6. LiveRows(Do(s))' \subseteq LiveRows(Do(s))
  BY <1>3, <1>5, LiveInserted DEF TInv, QueueOK
<1>7. Closing(Do(s))' \subseteq Closing(Do(s)) \ {w}
  BY <1>1, ClosingForgets
<1> QED
  BY <1>4, <1>6, <1>7 DEF InOneHand, Free

\* A step nobody is in charge of, when its slot begins.
LEMMA BeginsFree ==
    ASSUME RInv, CInv, [Next]_vars, NEW s \in Step \ Deadline, Decided(s)', StepHeld(s),
           Opens(Do(s)) \/ \E a \in Actor : Approves(a, Do(s))
    PROVE  Free(Do(s))
<1>1. CASE Opens(Do(s))
  <2>1. ctx.steps[s].status = "PENDING"
    BY <1>1, DoIsOne DEF Opens
  <2> QED
    BY <2>1, RowlessIsFree DEF CInv, Fresh
<1>2. ASSUME NEW a \in Actor, Approves(a, Do(s)) PROVE Free(Do(s))
  <2>1. /\ request[a].pc = "checked" /\ request[a].step \in Step
        /\ request' = [request EXCEPT ![a].pc = "done"]
        /\ Do(s) = Do(request[a].step)
    BY <1>2 DEF Approves, ResolveApproval, RInv, TInv, RequestsOK
  <2>2. request[a].step = s
    BY <2>1, DoIsOne
  <2>3. StepType[s] = "approval" /\ ctx.steps[s].approvalRequested
    BY <2>1, <2>2 DEF CInv, Asking
  <2>4. request'[a].pc = "done" /\ request'[a].step = s
    BY <2>1, <2>2 DEF RInv, TInv, RequestsOK, Asked
  <2>5. ~Granted(s)
    <3> SUFFICES ASSUME NEW b \in Actor, request[b].pc = "done", request[b].step = s
                 PROVE  FALSE
      BY DEF Granted
    <3>1. request'[b] = request[b]
      BY GrantedStays DEF RInv
    <3>2. a = b
      BY <2>3, <2>4, <3>1 DEF Decided, DecidedOnce
    <3> QED
      BY <2>1, <3>2
  <2> QED
    BY <2>3, <2>5 DEF StepHeld
<1> QED
  BY <1>1, <1>2

LEMMA StepHeldNext ==
    ASSUME RInv, CInv, [Next]_vars, NEW s \in Step \ Deadline, Decided(s)'
    PROVE  StepHeld(s)'
<1>1. \A a \in Actor : request[a].pc = "done" => request'[a] = request[a]
  BY GrantedStays DEF RInv
<1>2. Decided(s) /\ (Granted(s) => Granted(s)')
  BY <1>1 DEF Decided, DecidedOnce, Granted
<1>3. StepHeld(s)
  BY <1>2 DEF CInv
<1>4. Do(s) \in Slot
  BY SlotOfTyped
<1>5. \/ HandsOn(Do(s))
      \/ Begins(Do(s)) /\ Opens(Do(s))
      \/ Begins(Do(s)) /\ \E a \in Actor : Approves(a, Do(s))
  BY <1>4, EveryStepHands
<1>6. InOneHand(Do(s))'
  <2>1. CASE HandsOn(Do(s))
    BY <1>3, <2>1, HandedOn DEF StepHeld
  <2>2. CASE ~HandsOn(Do(s))
    BY <1>3, <1>5, <2>2, BeginsFree, Begun
  <2> QED
    BY <2>1, <2>2
<1>7. ASSUME StepType[s] = "approval", ctx'.steps[s].approvalRequested, ~Granted(s)'
      PROVE  Free(Do(s))'
  <2>1. CASE ctx.steps[s].approvalRequested
    <3>1. Free(Do(s))
      BY <1>2, <1>3, <1>7, <2>1 DEF StepHeld
    <3>2. ~Opens(Do(s))
      <4> SUFFICES ASSUME Opens(Do(s)) PROVE FALSE
        OBVIOUS
      <4>1. ctx.steps[s].status = "PENDING"
        BY DoIsOne DEF Opens
      <4> QED
        BY <2>1, <4>1 DEF CInv, Fresh, RInv, DInv, Backed
    <3>3. ASSUME NEW a \in Actor, Approves(a, Do(s)) PROVE FALSE
      <4>1. /\ request[a].approve /\ request[a].step \in Step
            /\ request' = [request EXCEPT ![a].pc = "done"]
            /\ Do(s) = Do(request[a].step)
        BY <3>3 DEF Approves, ResolveApproval, RInv, TInv, RequestsOK
      <4>2. request[a].step = s
        BY <4>1, DoIsOne
      <4>3. request'[a].pc = "done" /\ request'[a].step = s /\ request'[a].approve
        BY <4>1, <4>2 DEF RInv, TInv, RequestsOK, Asked
      <4> QED
        BY <1>7, <4>3 DEF Granted
    <3>4. HandsOn(Do(s))
      BY <1>5, <3>2, <3>3
    <3> QED
      BY <3>1, <3>4, FreeHandedOn
  <2>2. CASE ~ctx.steps[s].approvalRequested
    <3>1. PICK w \in Worker : Park(w) /\ StepOf(w) = s
      BY <1>7, <2>2, AskedBy
    <3>2. ~Timed(s)
      BY <1>7 DEF Timed
    <3> QED
      BY <1>3, <3>1, <3>2, ParkedFree DEF StepHeld, RInv
  <2> QED
    BY <2>1, <2>2
<1> QED
  BY <1>6, <1>7 DEF StepHeld

LEMMA CNext == RInv /\ CInv /\ [Next]_vars => CInv'
<1> SUFFICES ASSUME RInv, CInv, [Next]_vars PROVE CInv'
  OBVIOUS
<1>1. Fresh' /\ Asking'
  BY FreshNext, AskingNext DEF CInv
<1>2. \A s \in Step \ Deadline : (Decided(s) => StepHeld(s))'
  BY StepHeldNext
<1> QED
  BY <1>1, <1>2 DEF CInv

LEMMA NothingHeldAtFirst ==
    ASSUME Init
    PROVE  \A slot : Rowless(slot) /\ Free(slot) /\ InOneHand(slot)
<1>1. \A t \in Pk : ~Queue!Present(t)
  BY DEF Init, Queue!Init, Queue!Present
<1>2. \A w \in Worker : worker[w].pc = "idle"
  BY DEF Init, Idle
<1> QED
  BY <1>1, <1>2 DEF Rowless, Rows, Free, LiveRows, Closing, InOneHand

LEMMA CInit == Init => CInv
<1> SUFFICES ASSUME Init PROVE CInv
  OBVIOUS
<1>1. \A a \in Actor : request[a].pc = "new"
  BY DEF Init, NewRequest
<1> QED
  BY <1>1, NothingHeldAtFirst DEF CInv, Fresh, Asking, StepHeld

\* On every run, under every fault: a step without a deadline that is not decided on
\* twice is never in the charge of two parties at once.
THEOREM StepsInOneHand == Spec => []OneCustodianPerStep
<1>1. CInv => OneCustodianPerStep
  BY AtMostOne DEF CInv, StepHeld, OneCustodianPerStep
<1> QED
  BY <1>1, CInit, CNext, RunInvariant, PTL DEF Spec

------------------------------------------------------------------------------
(* Undos.                                                                  *)

\* No row of the slot was taken from a worker and handed out again.
NeverRecovered(slot) == \A t \in Rows(slot) : handed[t] \subseteq {task[t].attempt}

\* A row knows what it was handed out under.
HandedOK ==
    \A t \in Pk :
        /\ ~Queue!Present(t) => handed[t] = {}
        /\ Queue!Present(t) => \A a \in handed[t] : a <= task[t].attempt
        /\ Queue!Present(t) /\ task[t].status = "LEASED" => task[t].attempt \in handed[t]

\* What the queue does to a row: it leaves it, hands it out, lets go of it, or
\* recovers it under the next attempt number.
RowMoves(t) ==
    \/ /\ task'[t] = task[t] /\ handed'[t] = handed[t]
    \/ /\ ~Queue!Present(t) /\ task'[t].status = "READY" /\ handed'[t] = handed[t]
    \/ /\ Queue!Present(t)
       /\ task'[t].attempt = task[t].attempt
       /\ \/ /\ handed'[t] = handed[t]
             /\ task'[t].status = "LEASED" => task[t].status = "LEASED"
          \/ handed'[t] = handed[t] \cup {task[t].attempt}
    \/ /\ Queue!Present(t) /\ task[t].status = "LEASED"
       /\ task'[t].attempt = task[t].attempt + 1 /\ task'[t].status = "READY"
       /\ handed'[t] = handed[t]

\* One row is written.
LEMMA OneRowMoves ==
    ASSUME Queue!TypeOK, NEW u \in Pk, NEW row, task' = [task EXCEPT ![u] = row],
           \A t \in Pk \ {u} : handed'[t] = handed[t],
           task'[u] = row => RowMoves(u)
    PROVE  \A t \in Pk : RowMoves(t)
<1>1. task'[u] = row /\ \A t \in Pk \ {u} : task'[t] = task[t]
  BY DEF Queue!TypeOK
<1> QED
  BY <1>1 DEF RowMoves

LEMMA QueueMoves ==
    ASSUME QueueOK, [Queue!Next]_queueVars
    PROVE  \A t \in Pk : RowMoves(t)
<1>1. /\ Queue!TypeOK
      /\ \A t \in Pk : Queue!Present(t) => task[t] \in Queue!Row
      /\ \A w \in Worker : hand[w] # NoTask => hand[w] \in Pk /\ Queue!Present(hand[w])
  BY DEF QueueOK, HandsHold, Queue!TypeOK, Queue!WellFormed
<1>2. CASE UNCHANGED <<task, handed>>
  BY <1>2 DEF RowMoves
<1>3. CASE Queue!Enqueue
  <2>1. PICK new \in (SUBSET Pk) \ {{}} :
          \E attempt \in [new -> 1..MaxAttempt], due \in [new -> BOOLEAN] :
              Queue!EnqueueSteps(new, attempt, due)
    BY <1>3 DEF Queue!Enqueue
  <2>2. PICK attempt \in [new -> 1..MaxAttempt], due \in [new -> BOOLEAN] :
              Queue!EnqueueSteps(new, attempt, due)
    BY <2>1
  <2>3. /\ UNCHANGED handed
        /\ \A t \in new : ~Queue!Present(t)
        /\ \A t \in Pk : task'[t] = IF t \in new THEN Queue!ReadyRow(attempt[t], due[t])
                                              ELSE task[t]
    BY <2>2 DEF Queue!EnqueueSteps
  <2>4. ASSUME NEW t \in Pk PROVE RowMoves(t)
    <3>1. CASE t \in new
      <4>1. task'[t] = Queue!ReadyRow(attempt[t], due[t])
        BY <2>3, <3>1
      <4>2. task'[t].status = "READY"
        BY <4>1 DEF Queue!ReadyRow
      <4> QED
        BY <2>3, <3>1, <4>2 DEF RowMoves
    <3>2. CASE t \notin new
      BY <2>3, <3>2 DEF RowMoves
    <3> QED
      BY <3>1, <3>2
  <2> QED
    BY <2>4
<1>4. ASSUME NEW w \in Worker, Queue!WorkerStep(w)
      PROVE  \A t \in Pk : RowMoves(t)
  <2>1. ASSUME NEW u \in Pk, Queue!ClaimTask(w, u)
        PROVE  \A t \in Pk : RowMoves(t)
    <3>1. /\ Queue!Present(u) /\ task[u] \in Queue!Row
          /\ task' = [task EXCEPT ![u] = Queue!Claimed(task[u], w)]
          /\ handed'[u] = handed[u] \cup {task[u].attempt}
          /\ \A t \in Pk \ {u} : handed'[t] = handed[t]
      BY <1>1, <2>1 DEF Queue!ClaimTask, Queue!TypeOK
    <3>2. Queue!Claimed(task[u], w).attempt = task[u].attempt
      BY <3>1 DEF Queue!Claimed, Queue!Row
    <3> QED
      BY <1>1, <3>1, <3>2, OneRowMoves DEF RowMoves
  <2>2. CASE Queue!RenewLease(w) \/ Queue!FinishTaskIfOwned(w)
    <3>1. CASE UNCHANGED task
      BY <1>2, <2>2, <3>1 DEF Queue!RenewLease, Queue!FinishTaskIfOwned
    <3>2. CASE /\ Queue!OwnedBy(task[hand[w]], w)
               /\ \/ task' = [task EXCEPT ![hand[w]] = Queue!Renewed(task[hand[w]])]
                  \/ task' = [task EXCEPT ![hand[w]] = Queue!Finished(task[hand[w]])]
      <4> DEFINE u == hand[w]
      <4>1. u \in Pk /\ Queue!Present(u) /\ task[u] \in Queue!Row /\ UNCHANGED handed
        BY <1>1, <2>2 DEF Queue!RenewLease, Queue!FinishTaskIfOwned
      <4>2. task[u].status = "LEASED"
        BY <3>2 DEF Queue!OwnedBy
      <4>3. /\ Queue!Renewed(task[u]).attempt = task[u].attempt
            /\ Queue!Finished(task[u]).attempt = task[u].attempt
        BY <4>1 DEF Queue!Renewed, Queue!Finished, Queue!Row
      <4>4. PICK row : task' = [task EXCEPT ![u] = row] /\ row.attempt = task[u].attempt
        BY <3>2, <4>3
      <4> HIDE DEF u
      <4> QED
        BY <1>1, <4>1, <4>2, <4>4, OneRowMoves DEF RowMoves
    <3> QED
      BY <2>2, <3>1, <3>2 DEF Queue!RenewLease, Queue!FinishTaskIfOwned
  <2>3. CASE Queue!Abandon(w) \/ Queue!Crash(w)
    BY <1>2, <2>3 DEF Queue!Abandon, Queue!Crash
  <2> QED
    BY <1>4, <2>1, <2>2, <2>3 DEF Queue!WorkerStep
<1>5. ASSUME NEW u \in Pk, Queue!RowStep(u)
      PROVE  \A t \in Pk : RowMoves(t)
  <2>1. Queue!Present(u) /\ task[u] \in Queue!Row /\ UNCHANGED handed
    BY <1>1, <1>5 DEF Queue!RowStep, Queue!TimerDue, Queue!LeaseLapses, Queue!Reap,
                      Queue!ReapPoisoned
  <2>2. CASE Queue!TimerDue(u) \/ Queue!LeaseLapses(u) \/ Queue!ReapPoisoned(u)
    <3>1. PICK row : /\ task' = [task EXCEPT ![u] = row]
                     /\ row.attempt = task[u].attempt
                     /\ row.status = task[u].status \/ row.status = "DONE"
      <4>1. LET due == [task[u] EXCEPT !.due = TRUE]
                stale == [task[u] EXCEPT !.fresh = FALSE]
                done == Queue!Finished(task[u])
            IN  /\ due.attempt = task[u].attempt /\ due.status = task[u].status
                /\ stale.attempt = task[u].attempt /\ stale.status = task[u].status
                /\ done.attempt = task[u].attempt /\ done.status = "DONE"
        BY <2>1 DEF Queue!Finished, Queue!Row
      <4> QED
        BY <2>2, <4>1 DEF Queue!TimerDue, Queue!LeaseLapses, Queue!ReapPoisoned
    <3> QED
      BY <1>1, <2>1, <3>1, OneRowMoves DEF RowMoves
  <2>3. CASE Queue!Reap(u)
    <3>1. /\ task[u].status = "LEASED"
          /\ task' = [task EXCEPT ![u] = Queue!Recovered(task[u])]
      BY <2>3 DEF Queue!Reap, Queue!Lapsed
    <3>2. /\ Queue!Recovered(task[u]).attempt = task[u].attempt + 1
          /\ Queue!Recovered(task[u]).status = "READY"
      BY DEF Queue!Recovered, Queue!ReadyRow
    <3> QED
      BY <1>1, <2>1, <3>1, <3>2, OneRowMoves DEF RowMoves
  <2> QED
    BY <1>5, <2>2, <2>3 DEF Queue!RowStep
<1> QED
  BY <1>2, <1>3, <1>4, <1>5 DEF Queue!Next, queueVars

LEMMA HandedNext ==
    ASSUME RInv, HandedOK, [Next]_vars
    PROVE  HandedOK' /\ \A t \in Pk : RowMoves(t) /\ handed[t] \subseteq handed'[t]
<1>1. /\ QueueOK' /\ RowsStay /\ [Queue!Next]_queueVars /\ QueueOK
  BY NextOK DEF RInv, TInv, AsQueue
<1>2. \A t \in Pk : RowMoves(t)
  BY <1>1, QueueMoves
<1>3. \A t \in Pk : /\ Queue!Present(t) => task[t].attempt \in Nat
                    /\ Queue!Present(t)' => task'[t].attempt \in Nat
                    /\ handed[t] \subseteq Nat
  BY <1>1, QueueRows DEF QueueOK, Queue!TypeOK
<1>4. ASSUME NEW t \in Pk
      PROVE  /\ ~Queue!Present(t)' => handed'[t] = {}
             /\ Queue!Present(t)' => \A a \in handed'[t] : a <= task'[t].attempt
             /\ Queue!Present(t)' /\ task'[t].status = "LEASED" =>
                  task'[t].attempt \in handed'[t]
  <2>1. /\ ~Queue!Present(t) => handed[t] = {}
        /\ Queue!Present(t) => \A a \in handed[t] : a <= task[t].attempt
        /\ Queue!Present(t) /\ task[t].status = "LEASED" => task[t].attempt \in handed[t]
    BY DEF HandedOK
  <2>2. CASE task'[t] = task[t] /\ handed'[t] = handed[t]
    BY <2>1, <2>2 DEF Queue!Present
  <2>3. CASE /\ ~Queue!Present(t) /\ task'[t].status = "READY" /\ handed'[t] = handed[t]
    BY <2>1, <2>3
  <2>4. CASE /\ Queue!Present(t)
             /\ task'[t].attempt = task[t].attempt
             /\ \/ /\ handed'[t] = handed[t]
                   /\ task'[t].status = "LEASED" => task[t].status = "LEASED"
                \/ handed'[t] = handed[t] \cup {task[t].attempt}
    BY <1>1, <1>3, <2>1, <2>4 DEF RowsStay
  <2>5. CASE /\ Queue!Present(t) /\ task[t].status = "LEASED"
             /\ task'[t].attempt = task[t].attempt + 1 /\ task'[t].status = "READY"
             /\ handed'[t] = handed[t]
    <3>1. \A a \in handed'[t] : a <= task'[t].attempt
      BY <1>3, <2>1, <2>5
    <3> QED
      BY <1>1, <2>5, <3>1 DEF RowsStay
  <2> QED
    BY <1>2, <2>2, <2>3, <2>4, <2>5 DEF RowMoves
<1>5. HandedOK'
  BY <1>4 DEF HandedOK
<1> QED
  BY <1>1, <1>2, <1>5 DEF RowsStay

\* A recovery is never forgotten, and does away with a key.
LEMMA RecoveryShows ==
    ASSUME RInv, HandedOK, [Next]_vars, NEW slot, NeverRecovered(slot)'
    PROVE  /\ NeverRecovered(slot)
           /\ Queue!KeyTaken(slot, 1) => Queue!KeyTaken(slot, 1)'
<1>1. \A t \in Pk : RowMoves(t) /\ handed[t] \subseteq handed'[t]
  BY HandedNext
<1>2. \A t \in Pk : Queue!Present(t) => Queue!Present(t)'
  BY NextOK DEF RInv, AsQueue, RowsStay
<1>3. ASSUME NEW t \in Rows(slot)
      PROVE  task'[t] = task[t] \/ task'[t].attempt = task[t].attempt
  <2>1. t \in Pk /\ Queue!Present(t) /\ SlotOf[t] = slot
    BY DEF Rows
  <2>2. handed'[t] \subseteq {task'[t].attempt}
    BY <1>2, <2>1 DEF NeverRecovered, Rows
  <2>3. task[t].attempt \in Nat
    BY <2>1, QueueRows DEF RInv, TInv, QueueOK, Queue!TypeOK
  <2>4. ~(task[t].status = "LEASED" /\ task'[t].attempt = task[t].attempt + 1)
    <3> SUFFICES ASSUME task[t].status = "LEASED", task'[t].attempt = task[t].attempt + 1
                 PROVE  FALSE
      OBVIOUS
    <3>1. task[t].attempt \in handed'[t]
      BY <1>1, <2>1 DEF HandedOK
    <3>2. task[t].attempt = task[t].attempt + 1
      BY <2>2, <3>1
    <3> QED
      BY <2>3, <3>2
  <2> QED
    BY <1>1, <2>1, <2>4 DEF RowMoves
<1>4. NeverRecovered(slot)
  <2> SUFFICES ASSUME NEW t \in Rows(slot) PROVE handed[t] \subseteq {task[t].attempt}
    BY DEF NeverRecovered
  <2>1. t \in Pk /\ Queue!Present(t) /\ SlotOf[t] = slot
    BY DEF Rows
  <2>2. handed'[t] \subseteq {task'[t].attempt}
    BY <1>2, <2>1 DEF NeverRecovered, Rows
  <2> QED
    BY <1>1, <1>3, <2>1, <2>2
<1>5. ASSUME Queue!KeyTaken(slot, 1) PROVE Queue!KeyTaken(slot, 1)'
  <2>1. PICK t \in Pk : Queue!Present(t) /\ SlotOf[t] = slot /\ task[t].attempt = 1
    BY <1>5 DEF Queue!KeyTaken
  <2>2. t \in Rows(slot)
    BY <2>1 DEF Rows
  <2>3. task'[t].attempt = 1 /\ Queue!Present(t)'
    BY <1>2, <1>3, <2>1, <2>2
  <2> QED
    BY <2>1, <2>3 DEF Queue!KeyTaken
<1> QED
  BY <1>4, <1>5

\* The first row of an undo is the one under the first key.
UndoHeld(s) ==
    /\ ~Rowless(Undo(s)) => Queue!KeyTaken(Undo(s), 1)
    /\ InOneHand(Undo(s))

UInv ==
    /\ HandedOK
    /\ \A s \in Step : NeverRecovered(Undo(s)) => UndoHeld(s)

\* At most one party is in charge of an undo at any time, as long as no row of it had
\* to be recovered from a worker (service.enqueue_next_compensation, called by whoever
\* records something while the run unwinds).
OneCustodianPerUndo ==
    \A s \in Step : NeverRecovered(Undo(s)) => Custodians(Undo(s)) <= 1

LEMMA UndoHeldNext ==
    ASSUME RInv, UInv, [Next]_vars, NEW s \in Step, NeverRecovered(Undo(s))'
    PROVE  UndoHeld(s)'
<1>1. /\ UndoHeld(s)
      /\ Queue!KeyTaken(Undo(s), 1) => Queue!KeyTaken(Undo(s), 1)'
  BY RecoveryShows DEF UInv
<1>2. Undo(s) \in Slot
  BY SlotOfTyped
<1>3. ASSUME NEW a \in Actor PROVE ~Approves(a, Undo(s))
  BY DoIsOne DEF Approves, ResolveApproval, RInv, TInv, RequestsOK
<1>4. HandsOn(Undo(s)) \/ (Begins(Undo(s)) /\ Opens(Undo(s)))
  BY <1>2, <1>3, EveryStepHands
<1>5. Opens(Undo(s)) => ~Queue!KeyTaken(Undo(s), 1) /\ Queue!KeyTaken(Undo(s), 1)'
  BY DoIsOne DEF Opens
<1>6. InOneHand(Undo(s))'
  <2>1. CASE HandsOn(Undo(s))
    BY <1>1, <2>1, HandedOn DEF UndoHeld
  <2>2. CASE Begins(Undo(s)) /\ Opens(Undo(s))
    <3>1. Rowless(Undo(s))
      BY <1>1, <1>5, <2>2 DEF UndoHeld
    <3> QED
      BY <2>2, <3>1, RowlessIsFree, Begun
  <2> QED
    BY <1>4, <2>1, <2>2
<1>7. ASSUME ~Rowless(Undo(s))' PROVE Queue!KeyTaken(Undo(s), 1)'
  <2>1. CASE ~Rowless(Undo(s))
    BY <1>1, <2>1 DEF UndoHeld
  <2>2. CASE Rowless(Undo(s))
    <3>1. Free(Undo(s))
      BY <2>2, RowlessIsFree
    <3>2. PICK t \in Pk : SlotOf[t] = Undo(s) /\ Queue!Present(t)'
      BY <1>7 DEF Rowless, Rows
    <3>3. ~Queue!Present(t)
      BY <2>2, <3>2 DEF Rowless, Rows
    <3>4. t \in LiveRows(Undo(s))'
      BY <3>2, <3>3, NewRowsLive DEF RInv, LiveRows, Rows
    <3>5. ~HandsOn(Undo(s))
      BY <3>1, <3>4, FreeHandedOn DEF Free
    <3> QED
      BY <1>4, <1>5, <3>5
  <2> QED
    BY <2>1, <2>2
<1> QED
  BY <1>6, <1>7 DEF UndoHeld

LEMMA UNext == RInv /\ UInv /\ [Next]_vars => UInv'
<1> SUFFICES ASSUME RInv, UInv, [Next]_vars PROVE UInv'
  OBVIOUS
<1>1. HandedOK'
  BY HandedNext DEF UInv
<1>2. \A s \in Step : (NeverRecovered(Undo(s)) => UndoHeld(s))'
  BY UndoHeldNext
<1> QED
  BY <1>1, <1>2 DEF UInv

LEMMA UInit == Init => UInv
<1> SUFFICES ASSUME Init PROVE UInv
  OBVIOUS
<1>1. \A t \in Pk : ~Queue!Present(t) /\ handed[t] = {}
  BY DEF Init, Queue!Init, Queue!Present
<1> QED
  BY <1>1, NothingHeldAtFirst DEF UInv, HandedOK, UndoHeld

\* On every run, under every fault: two parties are in charge of one undo only after a
\* row of it was taken from a worker and handed out again.
THEOREM UndosInOneHand == Spec => []OneCustodianPerUndo
<1>1. UInv => OneCustodianPerUndo
  BY AtMostOne DEF UInv, UndoHeld, OneCustodianPerUndo
<1> QED
  BY <1>1, UInit, UNext, RunInvariant, PTL DEF Spec

\* Both together, for workflows whose approvals have no deadline: whatever stalls, dies
\* late or is recovered, custody is single while no step is decided on twice and no
\* undo had to be recovered.
THEOREM OneCustodian ==
    ASSUME Deadline = {}
    PROVE  Spec => [](/\ OneDecision
                      /\ \A s \in Step : NeverRecovered(Undo(s))
                      => SingleCustody)
<1>1. CInv /\ UInv =>
        (OneDecision /\ (\A s \in Step : NeverRecovered(Undo(s))) => SingleCustody)
  <2> SUFFICES ASSUME CInv, UInv, OneDecision, \A s \in Step : NeverRecovered(Undo(s)),
                      NEW slot \in Slot
               PROVE  Custodians(slot) <= 1
    BY DEF SingleCustody
  <2>1. PICK s \in Step : slot = Do(s) \/ slot = Undo(s)
    BY SlotIsDoOrUndo
  <2>2. InOneHand(Undo(s))
    BY DEF UInv, UndoHeld
  <2>3. Decided(s)
    BY DEF OneDecision, Decided, DecidedOnce
  <2>4. InOneHand(Do(s))
    BY <2>3 DEF CInv, StepHeld
  <2> QED
    BY <2>1, <2>2, <2>4, AtMostOne
<1> QED
  BY <1>1, CInit, CNext, UInit, UNext, RunInvariant, PTL DEF Spec

------------------------------------------------------------------------------
(* What workers have in hand.                                              *)

\* Where a worker has no row in hand.
Rest == {"idle"} \cup Recording

LEMMA ResolvedHand ==
    ASSUME TInv, NEW a \in Actor, ResolveApproval(a)
    PROVE  UNCHANGED hand
<1> DEFINE s == request[a].step
           granted == ApplyEvent(ctx, Event("APPROVAL_GRANTED", s))
           denied == ApplyEvent(ctx, Event("APPROVAL_DENIED", s))
<1>1. request[a].pc = "checked" /\ s \in Step
  BY DEF ResolveApproval, TInv, RequestsOK
<1>2. granted \in Context /\ Unwind(denied, s) \in Context
  <2>1. granted \in Context /\ denied \in Context
    BY <1>1, AfterStepEvent DEF TInv, StepEvent
  <2> QED
    BY <1>1, <2>1, Unwound
<1>3. Orders(Order(Do(s), NextAttempt(Do(s)), TRUE)) /\ Orders(<<>>)
  <2>1. NextAttempt(Do(s)) \in Nat \ {0}
    BY NextAttemptTyped DEF TInv, QueueOK
  <2> QED
    BY <1>1, <2>1, OrdersOfOne, OrdersOfNone, SlotOfTyped
<1>4. \/ AdvanceRun(granted, Order(Do(s), NextAttempt(Do(s)), TRUE))
      \/ AdvanceRun(Unwind(denied, s), <<>>)
  BY DEF ResolveApproval
<1> HIDE DEF granted, denied
<1> QED
  BY <1>2, <1>3, <1>4, AdvanceTyped

\* A worker goes back to its loop.
LetsGo(w) ==
    \/ Return(w) \/ Abandon(w) \/ Crash(w)
    \/ Park(w) \/ RecordRetry(w) \/ RecordOutcome(w) \/ RecordUndo(w)

\* How a worker and its hand move.
LEMMA HandSteps ==
    ASSUME TInv, [Next]_vars, NEW v \in Worker
    PROVE  \/ /\ hand'[v] = hand[v]
              /\ worker'[v].slot = worker[v].slot
              /\ worker'[v].attempt = worker[v].attempt
              /\ worker'[v].pc \in Rest <=> worker[v].pc \in Rest
              /\ worker'[v].pc \in Recording <=> worker[v].pc \in Recording
           \/ \E t \in Pk : /\ Claim(v) /\ Queue!ClaimTask(v, t)
                            /\ worker'[v].slot = SlotOf[t]
                            /\ worker'[v].attempt = task[t].attempt
                            /\ worker'[v].pc = "claimed"
           \/ /\ Finish(v) /\ hand'[v] = NoTask
              /\ worker'[v].slot = worker[v].slot
              /\ worker'[v].attempt = worker[v].attempt
              /\ worker'[v].pc \in Recording
           \/ worker'[v] = Idle /\ hand'[v] = NoTask /\ LetsGo(v)
<1> DEFINE Goal == \/ /\ hand'[v] = hand[v]
                      /\ worker'[v].slot = worker[v].slot
                      /\ worker'[v].attempt = worker[v].attempt
                      /\ worker'[v].pc \in Rest <=> worker[v].pc \in Rest
                      /\ worker'[v].pc \in Recording <=> worker[v].pc \in Recording
                   \/ \E t \in Pk : /\ Claim(v) /\ Queue!ClaimTask(v, t)
                                    /\ worker'[v].slot = SlotOf[t]
                                    /\ worker'[v].attempt = task[t].attempt
                                    /\ worker'[v].pc = "claimed"
                   \/ /\ Finish(v) /\ hand'[v] = NoTask
                      /\ worker'[v].slot = worker[v].slot
                      /\ worker'[v].attempt = worker[v].attempt
                      /\ worker'[v].pc \in Recording
                   \/ worker'[v] = Idle /\ hand'[v] = NoTask /\ LetsGo(v)
<1>0. /\ worker \in [Worker -> Memory] /\ hand \in [Worker -> Pk \cup {NoTask}]
      /\ \A w \in Worker : Fits(w)
  BY DEF TInv, MemoryOK, QueueOK, Queue!TypeOK
<1>1. CASE UNCHANGED <<hand, worker>>
  BY <1>1
<1>2. ASSUME NEW w \in Worker, NEW mem, worker' = [worker EXCEPT ![w] = mem],
             \A u \in Worker \ {w} : hand'[u] = hand[u],
             worker'[w] = mem => w # v \/ Goal
      PROVE  Goal
  <2>1. worker'[w] = mem /\ \A u \in Worker \ {w} : worker'[u] = worker[u]
    BY <1>0, <1>2
  <2> QED
    BY <1>2, <2>1
<1> HIDE DEF Goal
<1>3. ASSUME NEW w \in Worker, Work(w) \/ Heartbeat(w) \/ Crash(w) PROVE Goal
  <2>1. CASE Heartbeat(w)
    <3>1. UNCHANGED <<hand, worker>>
      BY <2>1 DEF Heartbeat, Queue!RenewLease
    <3> QED
      BY <1>1, <3>1 DEF Goal
  <2>2. CASE Claim(w)
    <3>1. PICK t \in Pk :
            /\ Queue!ClaimTask(w, t)
            /\ worker' = [worker EXCEPT ![w] =
                 [Idle EXCEPT !.pc = "claimed", !.slot = SlotOf[t], !.attempt = task[t].attempt]]
      BY <2>2 DEF Claim
    <3> DEFINE mem == [Idle EXCEPT !.pc = "claimed", !.slot = SlotOf[t],
                                   !.attempt = task[t].attempt]
    <3>2. mem.slot = SlotOf[t] /\ mem.attempt = task[t].attempt /\ mem.pc = "claimed"
      BY DEF Idle
    <3>3. worker' = [worker EXCEPT ![w] = mem]
      BY <3>1
    <3>4. \A u \in Worker \ {w} : hand'[u] = hand[u]
      BY <1>0, <3>1 DEF Queue!ClaimTask
    <3> HIDE DEF mem
    <3>5. worker'[w] = mem => w # v \/ Goal
      BY <2>2, <3>1, <3>2 DEF Goal
    <3> QED
      BY <1>2, <3>3, <3>4, <3>5
  <2>3. ASSUME NEW mem, worker' = [worker EXCEPT ![w] = mem], UNCHANGED hand,
               mem.slot = worker[w].slot, mem.attempt = worker[w].attempt,
               mem.pc \notin Rest, worker[w].pc \notin Rest
        PROVE  Goal
    <3>1. worker'[w] = mem => w # v \/ Goal
      BY <2>3 DEF Goal, Rest
    <3> QED
      BY <1>2, <2>3, <3>1
  <2>4. CASE LoadContext(w)
    <3> DEFINE mem == [worker[w] EXCEPT !.pc = Route(worker[w].slot),
                                        !.approved = ctx.steps[StepOf(w)].approved]
    <3>1. worker' = [worker EXCEPT ![w] = mem] /\ UNCHANGED hand
      BY <2>4 DEF LoadContext, queueVars
    <3>2. /\ mem.slot = worker[w].slot /\ mem.attempt = worker[w].attempt
          /\ mem.pc = Route(worker[w].slot)
      BY <1>0 DEF Memory
    <3>3. mem.pc \notin Rest /\ worker[w].pc \notin Rest
      BY <2>4, <3>2 DEF Route, Rest, Recording, LoadContext, At
    <3> HIDE DEF mem
    <3> QED
      BY <2>3, <3>1, <3>2, <3>3
  <2>5. CASE RejectConfig(w) \/ FireTimer(w) \/ StartStep(w)
    <3>1. PICK pc \in {"returning", "starting", "executing"} :
            worker' = [worker EXCEPT ![w].pc = pc]
      BY <2>5 DEF RejectConfig, FireTimer, StartStep, GoTo
    <3> DEFINE mem == [worker[w] EXCEPT !.pc = pc]
    <3>2. worker' = [worker EXCEPT ![w] = mem]
      BY <3>1
    <3>3. mem.slot = worker[w].slot /\ mem.attempt = worker[w].attempt /\ mem.pc = pc
      BY <1>0 DEF Memory
    <3>4. pc \notin Rest /\ worker[w].pc \notin Rest
      BY <2>5 DEF Rest, Recording, RejectConfig, FireTimer, StartStep, At
    <3>5. UNCHANGED hand
      <4>1. CASE RejectConfig(w)
        <5>1. worker[w].pc # "idle"
          BY <4>1 DEF RejectConfig, At
        <5>2. After(w, "STEP_FAILED") \in Context /\ StepOf(w) \in Step
          BY <5>1, AfterTyped DEF StepEvent
        <5>3. Unwind(After(w, "STEP_FAILED"), StepOf(w)) \in Context
          BY <5>2, Unwound
        <5> QED
          BY <4>1, <5>3, AdvanceTyped, OrdersOfNone DEF RejectConfig
      <4>2. CASE FireTimer(w) \/ StartStep(w)
        BY <4>2 DEF FireTimer, StartStep, queueVars
      <4> QED
        BY <2>5, <4>1, <4>2
    <3> HIDE DEF mem
    <3> QED
      BY <2>3, <3>2, <3>3, <3>4, <3>5
  <2>6. CASE Execute(w)
    <3>1. PICK ok : worker' = [worker EXCEPT ![w].pc = "executed", ![w].ok = ok]
      BY <2>6 DEF Execute, CallReturns
    <3> DEFINE mem == [worker[w] EXCEPT !.pc = "executed", !.ok = ok]
    <3>2. worker' = [worker EXCEPT ![w] = mem] /\ UNCHANGED hand
      BY <2>6, <3>1 DEF Execute, CallReturns, queueVars
    <3>3. mem.slot = worker[w].slot /\ mem.attempt = worker[w].attempt /\ mem.pc = "executed"
      BY <1>0 DEF Memory
    <3>4. mem.pc \notin Rest /\ worker[w].pc \notin Rest
      BY <2>6, <3>3 DEF Rest, Recording, Execute, At
    <3> HIDE DEF mem
    <3> QED
      BY <2>3, <3>2, <3>3, <3>4
  <2>7. CASE Finish(w)
    <3>1. PICK pc \in Recording : worker' = [worker EXCEPT ![w].pc = pc]
      BY <2>7 DEF Finish, GoTo, Recording
    <3> DEFINE mem == [worker[w] EXCEPT !.pc = pc]
    <3>2. worker' = [worker EXCEPT ![w] = mem]
      BY <3>1
    <3>3. mem.slot = worker[w].slot /\ mem.attempt = worker[w].attempt /\ mem.pc = pc
      BY <1>0 DEF Memory
    <3> HIDE DEF mem
    <3>4. hand' = [hand EXCEPT ![w] = NoTask]
      BY <2>7 DEF Finish, Queue!FinishTaskIfOwned, Queue!LetGo
    <3>5. hand'[w] = NoTask /\ \A u \in Worker \ {w} : hand'[u] = hand[u]
      BY <1>0, <3>4
    <3>6. worker'[w] = mem => w # v \/ Goal
      BY <2>7, <3>3, <3>5 DEF Goal
    <3> QED
      BY <1>2, <3>2, <3>5, <3>6
  <2>8. CASE \/ Return(w) \/ Abandon(w) \/ Crash(w) \/ Park(w) \/ RecordRetry(w)
             \/ RecordOutcome(w) \/ RecordUndo(w)
    <3>1. worker' = [worker EXCEPT ![w] = Idle]
      BY <2>8 DEF Return, Abandon, Crash, Park, RecordRetry, RecordOutcome, RecordUndo
    <3>2. hand'[w] = NoTask /\ \A u \in Worker \ {w} : hand'[u] = hand[u]
      <4>1. CASE Queue!Abandon(w) \/ Queue!Crash(w)
        BY <1>0, <4>1 DEF Queue!Abandon, Queue!Crash, Queue!LetGo
      <4>2. CASE ~(Queue!Abandon(w) \/ Queue!Crash(w))
        <5>1. worker[w].pc \in Recording
          BY <2>8, <4>2 DEF Return, Abandon, Crash, Park, RecordRetry, RecordOutcome,
                            RecordUndo, At, Recording
        <5>2. hand[w] = NoTask
          BY <1>0, <5>1 DEF Fits, Recording
        <5>3. UNCHANGED hand
          <6>1. CASE Crash(w)
            BY <4>2, <6>1 DEF Crash, queueVars
          <6>2. CASE Park(w) \/ RecordRetry(w)
            <7>1. \E want : Orders(want) /\ Enqueue(want)
              BY <6>2, ParkOrders, RetryOrders
            <7> QED
              BY <7>1, EnqueueInserts DEF TInv, QueueOK
          <6>3. CASE RecordOutcome(w) \/ RecordUndo(w)
            <7>1. StepOf(w) \in Step /\ worker[w].pc # "idle"
              BY <5>1, AfterTyped DEF StepEvent, Recording
            <7>2. \A type \in StepEvent : /\ After(w, type) \in Context
                                          /\ Unwind(After(w, type), StepOf(w)) \in Context
              BY <7>1, AfterTyped, Unwound
            <7>3. \E log \in Context : AdvanceRun(log, <<>>)
              BY <6>3, <7>2 DEF RecordOutcome, RecordUndo, StepEvent
            <7> QED
              BY <7>3, AdvanceTyped, OrdersOfNone
          <6> QED
            BY <2>8, <4>2, <6>1, <6>2, <6>3 DEF Return, Abandon
        <5> QED
          BY <5>2, <5>3
      <4> QED
        BY <4>1, <4>2
    <3>3. LetsGo(w)
      BY <2>8 DEF LetsGo
    <3>4. worker'[w] = Idle => w # v \/ Goal
      BY <3>2, <3>3 DEF Goal
    <3> QED
      BY <1>2, <3>1, <3>2, <3>4
  <2> QED
    BY <1>3, <2>1, <2>2, <2>4, <2>5, <2>6, <2>7, <2>8 DEF Work, Bookkeeping
<1>4. CASE StartRun \/ (\E a \in Actor : Approvals(a))
  <2>1. UNCHANGED worker
    BY <1>4 DEF StartRun, Approvals, CheckApproval, ResolveApproval
  <2>2. UNCHANGED hand
    <3>1. CASE StartRun
      <4> DEFINE c == ApplyEvent(ctx, Event("RUN_STARTED", NoStep))
                 want == [x \in NextWork(c) |-> Wanted(1, TRUE)]
      <4>1. c \in Context /\ Enqueue(want)
        BY <3>1, RunStarted DEF StartRun, TInv
      <4> HIDE DEF c
      <4>2. Orders(want)
        BY <4>1, NextWorkTyped DEF Orders, Wanted
      <4> HIDE DEF want
      <4> QED
        BY <4>1, <4>2, EnqueueInserts DEF TInv, QueueOK
    <3>2. ASSUME NEW a \in Actor, ResolveApproval(a) PROVE UNCHANGED hand
      BY <3>2, ResolvedHand
    <3>3. CASE \E a \in Actor, s \in Step, approve \in BOOLEAN : CheckApproval(a, s, approve)
      BY <3>3 DEF CheckApproval, queueVars
    <3> QED
      BY <1>4, <3>1, <3>2, <3>3 DEF Approvals
  <2> QED
    BY <1>1, <2>1, <2>2
<1>5. CASE (\E t \in Pk : RowStep(t)) \/ AnnounceRecovery \/ ReaperDies \/ UNCHANGED vars
  <2>1. UNCHANGED <<hand, worker>>
    BY <1>5 DEF RowStep, TimerDue, LeaseLapses, Reap, ReapPoisoned, Queue!TimerDue,
                Queue!LeaseLapses, Queue!Reap, Queue!ReapPoisoned, AnnounceRecovery,
                ReaperDies, vars, queueVars
  <2> QED
    BY <1>1, <2>1
<1> QED
  BY <1>3, <1>4, <1>5 DEF Next, Goal

\* A transaction that inserts rows, or none.
Inserts == \E want : Orders(want) /\ Enqueue(want)

LEMMA AdvanceInserts ==
    ASSUME TInv, NEW log \in Context, NEW also, Orders(also), AdvanceRun(log, also)
    PROVE  Inserts
BY Advanced DEF TInv, QueueOK, Inserts

\* What a worker does to the row it takes, or has in hand.
Handles(w) ==
    \/ Claim(w)
    \/ Finish(w)
    \/ Queue!RenewLease(w) \/ Queue!Abandon(w) \/ Queue!Crash(w)

\* What a step does to the queue: it inserts rows, or does something with one.
LEMMA StepKinds ==
    ASSUME TInv, [Next]_vars
    PROVE  \/ Inserts
           \/ UNCHANGED queueVars
           \/ \E w \in Worker : Handles(w)
           \/ \E t \in Pk : RowStep(t)
<1>1. ASSUME NEW w \in Worker, Work(w) \/ Heartbeat(w) \/ Crash(w)
      PROVE  Inserts \/ UNCHANGED queueVars \/ Handles(w)
  <2>1. CASE LoadContext(w) \/ FireTimer(w) \/ StartStep(w) \/ Execute(w)
    BY <2>1 DEF LoadContext, FireTimer, StartStep, Execute, CallReturns
  <2>2. CASE Claim(w) \/ Return(w) \/ Heartbeat(w) \/ Finish(w) \/ Abandon(w) \/ Crash(w)
    BY <2>2 DEF Return, Heartbeat, Abandon, Crash, Handles
  <2>3. CASE Park(w) \/ RecordRetry(w)
    BY <2>3, ParkOrders, RetryOrders DEF Inserts
  <2>4. CASE RejectConfig(w) \/ RecordOutcome(w) \/ RecordUndo(w)
    <3>1. worker[w].pc # "idle"
      BY <2>4 DEF RejectConfig, RecordOutcome, RecordUndo, At
    <3>2. \A type \in StepEvent : /\ After(w, type) \in Context
                                  /\ Unwind(After(w, type), StepOf(w)) \in Context
      BY <3>1, AfterTyped, Unwound
    <3>3. \E log \in Context : AdvanceRun(log, <<>>)
      BY <2>4, <3>2 DEF RejectConfig, RecordOutcome, RecordUndo, StepEvent
    <3> QED
      BY <3>3, AdvanceInserts, OrdersOfNone
  <2> QED
    BY <1>1, <2>1, <2>2, <2>3, <2>4 DEF Work, Bookkeeping
<1>2. ASSUME StartRun PROVE Inserts
  <2> DEFINE c == ApplyEvent(ctx, Event("RUN_STARTED", NoStep))
             want == [x \in NextWork(c) |-> Wanted(1, TRUE)]
  <2>1. c \in Context /\ Enqueue(want)
    BY <1>2, RunStarted DEF StartRun, TInv
  <2> HIDE DEF c
  <2>2. Orders(want)
    BY <2>1, NextWorkTyped DEF Orders, Wanted
  <2> HIDE DEF want
  <2> QED
    BY <2>1, <2>2 DEF Inserts
<1>3. ASSUME NEW a \in Actor, ResolveApproval(a) PROVE Inserts
  <2> DEFINE s == request[a].step
             granted == ApplyEvent(ctx, Event("APPROVAL_GRANTED", s))
             denied == ApplyEvent(ctx, Event("APPROVAL_DENIED", s))
  <2>1. request[a].pc = "checked" /\ s \in Step
    BY <1>3 DEF ResolveApproval, TInv, RequestsOK
  <2>2. granted \in Context /\ Unwind(denied, s) \in Context
    <3>1. granted \in Context /\ denied \in Context
      BY <2>1, AfterStepEvent DEF TInv, StepEvent
    <3> QED
      BY <2>1, <3>1, Unwound
  <2>3. Orders(Order(Do(s), NextAttempt(Do(s)), TRUE)) /\ Orders(<<>>)
    <3>1. NextAttempt(Do(s)) \in Nat \ {0}
      BY NextAttemptTyped DEF TInv, QueueOK
    <3> QED
      BY <2>1, <3>1, OrdersOfOne, OrdersOfNone, SlotOfTyped
  <2>4. \/ AdvanceRun(granted, Order(Do(s), NextAttempt(Do(s)), TRUE))
        \/ AdvanceRun(Unwind(denied, s), <<>>)
    BY <1>3 DEF ResolveApproval
  <2> HIDE DEF granted, denied
  <2> QED
    BY <2>2, <2>3, <2>4, AdvanceInserts
<1>4. ASSUME NEW a \in Actor, NEW s \in Step, NEW approve \in BOOLEAN,
             CheckApproval(a, s, approve)
      PROVE  UNCHANGED queueVars
  BY <1>4 DEF CheckApproval
<1>5. CASE AnnounceRecovery \/ ReaperDies \/ UNCHANGED vars
  BY <1>5 DEF AnnounceRecovery, ReaperDies, vars
<1> QED
  BY <1>1, <1>2, <1>3, <1>4, <1>5 DEF Next, Approvals

\* No row changes that existed.
LEMMA InsertedLeaves ==
    ASSUME TInv, Inserts
    PROVE  /\ UNCHANGED <<hand, lost, handed, outcomes>>
           /\ \A t \in Pk : Queue!Present(t) => task'[t] = task[t]
BY EnqueueInserts DEF Inserts, TInv, QueueOK

\* Nobody who works is without a lease: what is in hand is owned, and the lease runs.
Holds(v) ==
    /\ worker[v].pc \notin Rest => hand[v] # NoTask
    /\ hand[v] # NoTask =>
        /\ Queue!OwnedBy(task[hand[v]], v)
        /\ task[hand[v]].fresh
        /\ worker[v].attempt = task[hand[v]].attempt

HInv == \A v \in Worker : Holds(v)

\* A row in hand is let go, or kept, as long as nobody stalls.
LEMMA GripKept ==
    ASSUME TInv, HInv, "stall" \notin Faults, [Next]_vars,
           NEW v \in Worker, hand[v] # NoTask, hand'[v] = hand[v]
    PROVE  /\ Queue!OwnedBy(task'[hand[v]], v)
           /\ task'[hand[v]].fresh
           /\ task'[hand[v]].attempt = task[hand[v]].attempt
<1> DEFINE Kept(u) == /\ Queue!OwnedBy(task'[u], v)
                      /\ task'[u].fresh
                      /\ task'[u].attempt = task[u].attempt
<1>0. PICK h \in Pk : h = hand[v]
  BY DEF TInv, QueueOK, Queue!TypeOK
<1>1. /\ Queue!Present(h) /\ task[h] \in Queue!Row
      /\ task[h].status = "LEASED" /\ task[h].owner = v /\ task[h].fresh
      /\ task \in [Pk -> Queue!Row \cup {NoRow}]
      /\ hand \in [Worker -> Pk \cup {NoTask}]
  BY <1>0 DEF TInv, QueueOK, HandsHold, Queue!TypeOK, HInv, Holds, Queue!OwnedBy, Queue!WellFormed
<1>2. ASSUME task'[h] = task[h] PROVE Kept(h)
  BY <1>1, <1>2 DEF Queue!OwnedBy
<1>3. ASSUME NEW u \in Pk, NEW row, task' = [task EXCEPT ![u] = row], u # h PROVE Kept(h)
  BY <1>1, <1>2, <1>3
<1>4. ASSUME NEW w \in Worker, Handles(w) PROVE Kept(h)
  <2>1. ASSUME NEW u \in Pk, Queue!ClaimTask(w, u) PROVE Kept(h)
    <3>1. task' = [task EXCEPT ![u] = Queue!Claimed(task[u], w)] /\ task[u].status = "READY"
      BY <2>1 DEF Queue!ClaimTask, Queue!Claimable
    <3> QED
      BY <1>1, <1>3, <3>1
  <2>2. CASE Queue!RenewLease(w)
    <3>1. CASE UNCHANGED task
      BY <1>2, <3>1
    <3>2. CASE task' = [task EXCEPT ![hand[w]] = Queue!Renewed(task[hand[w]])]
      <4>1. PICK g \in Pk : g = hand[w]
        BY <1>1, <2>2 DEF Queue!RenewLease
      <4>2. CASE g = h
        <5>1. task'[h] = Queue!Renewed(task[h])
          BY <1>1, <3>2, <4>1, <4>2
        <5>2. /\ task'[h].status = "LEASED" /\ task'[h].owner = v /\ task'[h].fresh
              /\ task'[h].attempt = task[h].attempt
          BY <1>1, <5>1 DEF Queue!Renewed, Queue!Row
        <5> QED
          BY <5>2 DEF Queue!OwnedBy
      <4>3. CASE g # h
        BY <1>3, <3>2, <4>1, <4>3
      <4> QED
        BY <4>2, <4>3
    <3> QED
      BY <2>2, <3>1, <3>2 DEF Queue!RenewLease
  <2>3. CASE Queue!FinishTaskIfOwned(w)
    <3>1. PICK g \in Pk : g = hand[w]
      BY <1>1, <2>3 DEF Queue!FinishTaskIfOwned
    <3>2. /\ task' = [task EXCEPT ![g] = Queue!Finished(task[g])]
          /\ task[g].owner = w /\ hand'[w] = NoTask
      BY <1>1, <2>3, <3>1 DEF Queue!FinishTaskIfOwned, Queue!LetGo, Queue!OwnedBy
    <3>3. g # h
      BY <1>0, <1>1, <3>2
    <3> QED
      BY <1>3, <3>2, <3>3
  <2>4. CASE Queue!Abandon(w) \/ Queue!Crash(w)
    BY <1>2, <2>4 DEF Queue!Abandon, Queue!Crash
  <2> QED
    BY <1>4, <2>1, <2>2, <2>3, <2>4 DEF Handles, Claim, Finish
<1>5. ASSUME NEW u \in Pk, RowStep(u) PROVE Kept(h)
  <2>1. CASE TimerDue(u)
    <3>1. CASE u = h
      <4>1. task'[h] = [task[h] EXCEPT !.due = TRUE]
        BY <1>1, <2>1, <3>1 DEF TimerDue, Queue!TimerDue
      <4>2. /\ task'[h].status = "LEASED" /\ task'[h].owner = v /\ task'[h].fresh
            /\ task'[h].attempt = task[h].attempt
        BY <1>1, <4>1 DEF Queue!Row
      <4> QED
        BY <4>2 DEF Queue!OwnedBy
    <3>2. CASE u # h
      <4>1. \E row : task' = [task EXCEPT ![u] = row]
        BY <1>1, <2>1 DEF TimerDue, Queue!TimerDue
      <4> QED
        BY <1>3, <3>2, <4>1
    <3> QED
      BY <3>1, <3>2
  <2>2. CASE LeaseLapses(u) \/ Reap(u) \/ ReapPoisoned(u)
    <3>1. \E row : task' = [task EXCEPT ![u] = row]
      BY <2>2 DEF LeaseLapses, Reap, ReapPoisoned, Queue!LeaseLapses, Queue!Reap,
                  Queue!ReapPoisoned
    <3>2. u # h
      BY <1>0, <1>1, <2>2 DEF LeaseLapses, Reap, ReapPoisoned, Queue!Orphaned, Queue!Reap,
                              Queue!ReapPoisoned, Queue!Lapsed
    <3> QED
      BY <1>3, <3>1, <3>2
  <2> QED
    BY <1>5, <2>1, <2>2 DEF RowStep
<1>6. CASE Inserts
  BY <1>0, <1>1, <1>2, <1>6, InsertedLeaves
<1>7. CASE UNCHANGED queueVars
  BY <1>0, <1>2, <1>7 DEF queueVars
<1> QED
  BY <1>0, <1>4, <1>5, <1>6, <1>7, StepKinds

LEMMA HNext ==
    ASSUME TInv, HInv, "stall" \notin Faults, [Next]_vars
    PROVE  HInv'
<1> SUFFICES ASSUME NEW v \in Worker PROVE Holds(v)'
  BY DEF HInv
<1>0. Holds(v) /\ task \in [Pk -> Queue!Row \cup {NoRow}] /\ NoTask \notin Pk
  BY NoTaskAssumption DEF HInv, TInv, QueueOK, Queue!TypeOK
<1>1. CASE /\ hand'[v] = hand[v]
           /\ worker'[v].slot = worker[v].slot
           /\ worker'[v].attempt = worker[v].attempt
           /\ worker'[v].pc \in Rest <=> worker[v].pc \in Rest
  <2>1. CASE hand[v] = NoTask
    BY <1>0, <1>1, <2>1 DEF Holds
  <2>2. CASE hand[v] # NoTask
    BY <1>0, <1>1, <2>2, GripKept DEF Holds
  <2> QED
    BY <2>1, <2>2
<1>2. ASSUME NEW t \in Pk, Queue!ClaimTask(v, t), worker'[v].attempt = task[t].attempt
      PROVE  Holds(v)'
  <2>1. hand'[v] = t /\ task'[t] = Queue!Claimed(task[t], v) /\ task[t] \in Queue!Row
    BY <1>0, <1>2 DEF Queue!ClaimTask, Queue!Present, TInv, QueueOK, Queue!TypeOK
  <2>2. /\ task'[t].status = "LEASED" /\ task'[t].owner = v /\ task'[t].fresh
        /\ task'[t].attempt = task[t].attempt
    BY <2>1 DEF Queue!Claimed, Queue!Row
  <2> QED
    BY <1>0, <1>2, <2>1, <2>2 DEF Holds, Queue!OwnedBy
<1>3. CASE hand'[v] = NoTask /\ worker'[v].pc \in Rest
  BY <1>3 DEF Holds
<1> QED
  BY <1>1, <1>2, <1>3, HandSteps DEF Rest, Idle, Recording

LEMMA HInit == Init => HInv
BY DEF Init, Queue!Init, HInv, Holds, Rest, Idle

\* While the reaper has a recovery to announce, the row it recovered waits.
Prompt ==
    reaper # NoStep =>
        \E t \in Pk : /\ SlotOf[t][1] = reaper
                      /\ Queue!Present(t)
                      /\ task[t].status = "READY"

LEMMA WaitsOn ==
    ASSUME TInv, [Next]_vars, \A w \in Worker : ~Claim(w),
           NEW t \in Pk, Queue!Present(t), task[t].status = "READY"
    PROVE  Queue!Present(t)' /\ task'[t].status = "READY"
<1>0. /\ task \in [Pk -> Queue!Row \cup {NoRow}] /\ task[t] \in Queue!Row
      /\ hand \in [Worker -> Pk \cup {NoTask}]
  BY DEF TInv, QueueOK, Queue!TypeOK, Queue!Present
<1>1. Queue!Present(t)'
  BY NextOK DEF AsQueue, RowsStay
<1>2. CASE task'[t] = task[t]
  BY <1>1, <1>2
<1>3. ASSUME NEW u \in Pk, NEW row, task' = [task EXCEPT ![u] = row], u # t
      PROVE  task'[t] = task[t]
  BY <1>0, <1>3
<1>4. ASSUME NEW w \in Worker, Handles(w) PROVE task'[t] = task[t]
  <2>1. CASE UNCHANGED task
    BY <2>1
  <2>2. CASE /\ hand[w] # NoTask /\ Queue!OwnedBy(task[hand[w]], w)
             /\ \E row : task' = [task EXCEPT ![hand[w]] = row]
    BY <1>0, <1>3, <2>2 DEF Queue!OwnedBy
  <2> QED
    BY <1>4, <2>1, <2>2 DEF Handles, Finish, Queue!RenewLease, Queue!Abandon, Queue!Crash,
                            Queue!FinishTaskIfOwned
<1>5. ASSUME NEW u \in Pk, RowStep(u) PROVE task'[t].status = "READY"
  <2>1. CASE TimerDue(u)
    <3>1. CASE u = t
      <4>1. task'[t] = [task[t] EXCEPT !.due = TRUE]
        BY <1>0, <2>1, <3>1 DEF TimerDue, Queue!TimerDue
      <4> QED
        BY <1>0, <4>1 DEF Queue!Row
    <3>2. CASE u # t
      <4>1. \E row : task' = [task EXCEPT ![u] = row]
        BY <2>1 DEF TimerDue, Queue!TimerDue
      <4> QED
        BY <1>3, <3>2, <4>1
    <3> QED
      BY <3>1, <3>2
  <2>2. CASE LeaseLapses(u) \/ Reap(u) \/ ReapPoisoned(u)
    <3>1. u # t /\ \E row : task' = [task EXCEPT ![u] = row]
      BY <2>2 DEF LeaseLapses, Reap, ReapPoisoned, Queue!LeaseLapses, Queue!Reap,
                  Queue!ReapPoisoned, Queue!Lapsed
    <3> QED
      BY <1>3, <3>1
  <2> QED
    BY <1>5, <2>1, <2>2 DEF RowStep
<1>6. CASE Inserts
  BY <1>1, <1>6, InsertedLeaves
<1>7. CASE UNCHANGED queueVars
  BY <1>1, <1>7 DEF queueVars
<1> QED
  BY <1>1, <1>4, <1>5, <1>6, <1>7, StepKinds

LEMMA PromptNext ==
    ASSUME TInv, Prompt, "slow reaper" \notin Faults, [Next]_vars
    PROVE  Prompt'
<1> SUFFICES ASSUME reaper' # NoStep
             PROVE  \E t \in Pk : /\ SlotOf[t][1] = reaper'
                                  /\ Queue!Present(t)'
                                  /\ task'[t].status = "READY"
  BY DEF Prompt
<1>1. CASE reaper' = reaper
  <2>1. PICK t \in Pk : /\ SlotOf[t][1] = reaper
                        /\ Queue!Present(t) /\ task[t].status = "READY"
    BY <1>1 DEF Prompt
  <2>2. \A w \in Worker : ~Claim(w)
    BY <1>1 DEF Claim
  <2> QED
    BY <1>1, <2>1, <2>2, WaitsOn
<1>2. ASSUME NEW t \in Pk, Reap(t)
      PROVE  \E u \in Pk : /\ SlotOf[u][1] = reaper'
                           /\ Queue!Present(u)'
                           /\ task'[u].status = "READY"
  <2>1. /\ reaper' = SlotOf[t][1] /\ Queue!Present(t)
        /\ task' = [task EXCEPT ![t] = Queue!Recovered(task[t])]
    BY <1>2 DEF Reap, Queue!Reap
  <2>2. task'[t].status = "READY"
    BY <2>1 DEF TInv, QueueOK, Queue!TypeOK, Queue!Recovered, Queue!ReadyRow
  <2>3. Queue!Present(t)'
    BY <2>1, NextOK DEF AsQueue, RowsStay
  <2> QED
    BY <2>1, <2>2, <2>3
<1> QED
  BY <1>1, <1>2, ReaperSteps

\* A step fails for good: its worker says so, or the reaper gives it up, or a person
\* denies it.
Fails(s) ==
    \/ \E w \in Worker : /\ StepOf(w) = s
                        /\ (RejectConfig(w) \/ (RecordOutcome(w) /\ ~worker[w].ok))
    \/ \E t \in Pk : ReapPoisoned(t) /\ SlotOf[t][1] = s
    \/ \E a \in Actor : ResolveApproval(a) /\ ~request[a].approve /\ request[a].step = s

\* Where a worker appends events.
Writing == {"misconfigured", "firing", "starting", "parking", "recording"}

\* Who writes about a step.
WrittenBy(type, s) ==
    /\ \/ \E w \in Worker : worker[w].pc \in Writing /\ StepOf(w) = s
       \/ reaper = s
       \/ \E t \in Pk : ReapPoisoned(t) /\ SlotOf[t][1] = s
       \/ \E a \in Actor : ResolveApproval(a) /\ request[a].step = s
    /\ type = "STEP_SUCCEEDED" =>
        \E w \in Worker : RecordOutcome(w) /\ worker[w].ok /\ StepOf(w) = s
    /\ type \in {"STEP_COMPENSATED", "COMPENSATION_FAILED"} =>
        \E w \in Worker : RecordUndo(w) /\ StepOf(w) = s
    /\ type \in {"STEP_FAILED", "APPROVAL_DENIED"} => Fails(s)

LEMMA EveryWriter ==
    ASSUME TInv, Backed, [Next]_vars
    PROVE  Quiet \/ StartRun \/ \E type, s, c : Writes(type, s, c) /\ WrittenBy(type, s)
<1> DEFINE Goal == Quiet \/ \E type, s, c : Writes(type, s, c) /\ WrittenBy(type, s)
<1>1. ASSUME NEW w \in Worker, Work(w) \/ Heartbeat(w) \/ Crash(w)
      PROVE  Goal
  <2>1. CASE \/ Claim(w) \/ LoadContext(w) \/ Return(w) \/ Execute(w)
             \/ Heartbeat(w) \/ Finish(w) \/ Abandon(w) \/ Crash(w)
    BY <2>1, QuietSteps
  <2>2. CASE FireTimer(w) \/ StartStep(w) \/ Park(w) \/ RecordRetry(w)
    <3>1. worker[w].pc \in Writing
      BY <2>2 DEF FireTimer, StartStep, Park, RecordRetry, At, Writing
    <3>2. CASE Park(w)
      BY <3>1, <3>2, ParkWrites DEF WrittenBy, Interim
    <3>3. CASE FireTimer(w) \/ StartStep(w) \/ RecordRetry(w)
      BY <3>1, <3>3, FireTimerWrites, StartStepWrites, RecordRetryWrites DEF WrittenBy
    <3> QED
      BY <2>2, <3>2, <3>3
  <2>3. CASE RejectConfig(w)
    <3>1. WrittenBy("STEP_FAILED", StepOf(w))
      BY <2>3 DEF WrittenBy, Writing, Fails, RejectConfig, At
    <3> QED
      BY <2>3, <3>1, RejectConfigWrites
  <2>4. CASE RecordOutcome(w)
    <3>1. worker[w].pc \in Writing
      BY <2>4 DEF RecordOutcome, At, Writing
    <3>2. PICK c : \/ worker[w].ok /\ Writes("STEP_SUCCEEDED", StepOf(w), c)
                   \/ ~worker[w].ok /\ Writes("STEP_FAILED", StepOf(w), c)
      BY <2>4, RecordOutcomeWrites
    <3>3. worker[w].ok => WrittenBy("STEP_SUCCEEDED", StepOf(w))
      BY <2>4, <3>1 DEF WrittenBy
    <3>4. ~worker[w].ok => WrittenBy("STEP_FAILED", StepOf(w))
      BY <2>4, <3>1 DEF WrittenBy, Fails
    <3> QED
      BY <3>2, <3>3, <3>4
  <2>5. CASE RecordUndo(w)
    BY <2>5, RecordUndoWrites DEF RecordUndo, At, WrittenBy, Writing
  <2> QED
    BY <1>1, <2>1, <2>2, <2>3, <2>4, <2>5 DEF Work, Bookkeeping
<1>2. ASSUME NEW a \in Actor, Approvals(a) PROVE Goal
  <2>1. CASE ResolveApproval(a)
    BY <2>1, ResolveApprovalWrites DEF WrittenBy, Fails
  <2> QED
    BY <1>2, <2>1, QuietSteps DEF Approvals
<1>3. ASSUME NEW t \in Pk, RowStep(t) PROVE Goal
  BY <1>3, QuietSteps, ReapPoisonedWrites DEF RowStep, WrittenBy, Fails
<1>4. CASE AnnounceRecovery
  BY <1>4, AnnounceRecoveryWrites DEF WrittenBy
<1>5. CASE ReaperDies \/ UNCHANGED vars
  BY <1>5, QuietSteps
<1> QED
  BY <1>1, <1>2, <1>3, <1>4, <1>5 DEF Next

\* A worker that is not idle is in charge of its slot: by the row it has in hand, or
\* because it has finished it.
LEMMA BusyHolds ==
    ASSUME TInv, HInv, NEW v \in Worker, worker[v].pc # "idle"
    PROVE  /\ ~Free(worker[v].slot)
           /\ worker[v].pc \in Recording => v \in Closing(worker[v].slot)
           /\ worker[v].pc \notin Recording => hand[v] \in LiveRows(worker[v].slot)
<1>1. CASE worker[v].pc \in Recording
  BY <1>1 DEF Closing, Recording, Free
<1>2. CASE worker[v].pc \notin Recording
  <2>1. hand[v] # NoTask /\ Queue!OwnedBy(task[hand[v]], v)
    BY <1>2 DEF HInv, Holds, Rest
  <2>2. /\ hand[v] \in Pk /\ Queue!Present(hand[v])
        /\ worker[v].slot = SlotOf[hand[v]]
    BY <2>1 DEF TInv, QueueOK, Queue!TypeOK, HandsHold, MemoryOK, Fits
  <2>3. hand[v] \in LiveRows(worker[v].slot)
    BY <2>1, <2>2 DEF LiveRows, Rows, Live, Queue!Done, Queue!OwnedBy
  <2> QED
    BY <1>2, <2>3 DEF Free
<1> QED
  BY <1>1, <1>2

\* A row that waits, or is leased, is somebody's charge.
LEMMA RowCounts ==
    ASSUME NEW t \in Pk, Queue!Present(t), task[t].status # "DONE"
    PROVE  t \in LiveRows(SlotOf[t])
BY DEF LiveRows, Rows, Live, Queue!Done

LEMMA StepOfRow ==
    ASSUME NEW t \in Pk, NEW s \in Step, SlotOf[t][1] = s
    PROVE  SlotOf[t] = Do(s) \/ SlotOf[t] = Undo(s)
BY SlotIsDoOrUndo, SlotOfTyped

\* Steps are scheduled when they are pending, and only then.
LEMMA Scheduling ==
    ASSUME NEW c \in Context, NEW s \in Step
    PROVE  /\ s \in ReadySteps(c) => c.steps[s].status = "PENDING"
           /\ ApplyToSlot(c.steps[s], "STEP_SCHEDULED").status = "SCHEDULED"
<1>1. c.steps[s] \in StepSlot
  BY DEF Context
<1> QED
  BY <1>1 DEF ReadySteps, StepsWithStatus, ApplyToSlot, StepStatusAfter, StepSlot

\* The start of a run only schedules steps.
LEMMA StartSchedules ==
    ASSUME TInv, StartRun, NEW s \in Step
    PROVE  \/ ctx'.steps[s] = ctx.steps[s]
           \/ ctx.steps[s].status = "PENDING" /\ ctx'.steps[s].status = "SCHEDULED"
<1> DEFINE c == ApplyEvent(ctx, Event("RUN_STARTED", NoStep))
<1>1. c \in Context /\ c.steps = ctx.steps
  BY RunStarted DEF TInv
<1>2. ctx' = MarkScheduled(c)
  BY DEF StartRun, Sync
<1> HIDE DEF c
<1>3. \/ ctx'.steps[s] = c.steps[s]
      \/ /\ s \in ReadySteps(c)
         /\ ctx'.steps[s] = ApplyToSlot(c.steps[s], "STEP_SCHEDULED")
  BY <1>1, <1>2, Marked
<1> QED
  BY <1>1, <1>3, Scheduling

\* What is written about another step leaves a step alone, unless it schedules it.
LEMMA NotWrittenAbout ==
    ASSUME TInv, NEW type, NEW r, NEW c, Writes(type, r, c), NEW s \in Step, s # r
    PROVE  \/ ctx'.steps[s] = ctx.steps[s]
           \/ ctx.steps[s].status = "PENDING" /\ ctx'.steps[s].status = "SCHEDULED"
<1>1. type \in StepEvent /\ r \in Step /\ ctx \in Context
  BY DEF Writes, TInv
<1>2. /\ ApplyEvent(ctx, Event(type, r)) \in Context
      /\ ApplyEvent(ctx, Event(type, r)).steps[s] = ctx.steps[s]
  BY <1>1, AfterStepEvent
<1>3. c \in Context /\ c.steps[s] = ctx.steps[s]
  BY <1>1, <1>2, Unwound DEF Writes
<1>4. \/ ctx'.steps[s] = c.steps[s]
      \/ /\ s \in ReadySteps(c)
         /\ ctx'.steps[s] = ApplyToSlot(c.steps[s], "STEP_SCHEDULED")
  BY DEF Writes, Continues
<1> QED
  BY <1>3, <1>4, Scheduling

\* Nobody writes about a step that nobody is in charge of, as long as its undo has no
\* row, except to schedule it or to decide on it.
LEMMA Undisturbed ==
    ASSUME RInv, HInv, Prompt, [Next]_vars, NEW s \in Step, Free(Do(s)), Rowless(Undo(s)),
           \A a \in Actor : ResolveApproval(a) => request[a].step # s
    PROVE  /\ \/ ctx'.steps[s] = ctx.steps[s]
              \/ /\ ctx.steps[s].status = "PENDING"
                 /\ ctx'.steps[s].status = "SCHEDULED"
           /\ reaper # s /\ reaper' # s
<1>0. TInv /\ Backed /\ ctx \in Context /\ reaper \in Step \cup {NoStep} /\ NoStep \notin Step
  BY NoStepAssumption DEF RInv, DInv, TInv
<1>1. ASSUME NEW t \in Pk, Queue!Present(t), task[t].status # "DONE", SlotOf[t][1] = s
      PROVE  FALSE
  <2>1. t \in LiveRows(SlotOf[t]) /\ t \in Rows(SlotOf[t])
    BY <1>1, RowCounts DEF Rows
  <2> QED
    BY <1>1, <2>1, StepOfRow DEF Free, Rowless
<1>2. reaper # s
  BY <1>0, <1>1 DEF Prompt
<1>3. reaper' # s
  <2>1. ASSUME NEW t \in Pk, Reap(t), reaper' = s PROVE FALSE
    BY <1>1, <2>1 DEF Reap, Queue!Reap, Queue!Lapsed
  <2> QED
    BY <1>0, <1>2, <2>1, ReaperSteps
<1>4. ASSUME NEW w \in Worker, worker[w].pc # "idle", StepOf(w) = s PROVE FALSE
  <2>1. worker[w].slot \in Slot /\ ~Rowless(worker[w].slot) /\ ~Free(worker[w].slot)
    BY <1>0, <1>4, WorkerBacked, BusyHolds
  <2>2. worker[w].slot = Do(s) \/ worker[w].slot = Undo(s)
    BY <1>4, <2>1, SlotIsDoOrUndo DEF StepOf
  <2> QED
    BY <2>1, <2>2
<1>5. CASE Quiet
  BY <1>2, <1>3, <1>5 DEF Quiet, runVars
<1>6. CASE StartRun
  BY <1>0, <1>2, <1>3, <1>6, StartSchedules
<1>7. ASSUME NEW type, NEW r, NEW c, Writes(type, r, c), WrittenBy(type, r)
      PROVE  \/ ctx'.steps[s] = ctx.steps[s]
             \/ ctx.steps[s].status = "PENDING" /\ ctx'.steps[s].status = "SCHEDULED"
  <2>1. r # s
    <3>1. ASSUME NEW t \in Pk, ReapPoisoned(t), SlotOf[t][1] = s PROVE FALSE
      BY <1>1, <3>1 DEF ReapPoisoned, Queue!ReapPoisoned, Queue!Lapsed
    <3> QED
      BY <1>2, <1>4, <1>7, <3>1 DEF WrittenBy, Writing
  <2> QED
    BY <1>0, <1>7, <2>1, NotWrittenAbout
<1> QED
  BY <1>0, <1>2, <1>3, <1>5, <1>6, <1>7, EveryWriter

LEMMA SucceedsBy ==
    ASSUME TInv, NEW type, NEW r, NEW c, Writes(type, r, c), NEW s \in Step,
           ctx'.steps[s].status = "SUCCEEDED", ctx.steps[s].status # "SUCCEEDED"
    PROVE  s = r /\ type = "STEP_SUCCEEDED"
<1>0. ctx \in Context /\ type \in StepEvent /\ r \in Step
  BY DEF TInv, Writes
<1> DEFINE d == ApplyEvent(ctx, Event(type, r))
<1>1. /\ d \in Context
      /\ d.steps[r] = ApplyToSlot(ctx.steps[r], type)
      /\ \A q \in Step \ {r} : d.steps[q] = ctx.steps[q]
  BY <1>0, AfterStepEvent
<1>2. c \in Context /\ c.steps = d.steps
  BY <1>0, <1>1, Unwound DEF Writes
<1>3. \/ ctx'.steps[s] = c.steps[s]
      \/ ctx'.steps[s] = ApplyToSlot(c.steps[s], "STEP_SCHEDULED")
  BY DEF Writes, Continues
<1> HIDE DEF d
<1>4. c.steps[s] \in StepSlot /\ ctx.steps[r] \in StepSlot
  BY <1>0, <1>2 DEF Context
<1>5. c.steps[s].status = "SUCCEEDED"
  BY <1>3, <1>4, SlotAfter
<1> QED
  BY <1>1, <1>2, <1>4, <1>5, SlotAfter

\* What has succeeded is in nobody's charge, and the reaper has nothing to say of it.
AtRest(s) ==
    Rowless(Undo(s)) /\ ctx.steps[s].status = "SUCCEEDED" => Free(Do(s)) /\ reaper # s

SInv == \A s \in Step \ Deadline : Decided(s) => AtRest(s)

\* The worker that records an outcome leaves nothing to do.
LEMMA OutcomeFrees ==
    ASSUME RInv, NEW w \in Worker, RecordOutcome(w),
           NEW s \in Step, StepOf(w) = s, InOneHand(Do(s))
    PROVE  Free(Do(s))' /\ LiveRows(Do(s)) = {} /\ w \in Closing(Do(s)) /\ UNCHANGED reaper
<1> DEFINE type == IF worker[w].ok THEN "STEP_SUCCEEDED" ELSE "STEP_FAILED"
           event == ApplyEvent(ctx, Event(type, s))
<1>1. /\ worker[w].pc = "recording" /\ ~Undoing(w) /\ UNCHANGED reaper
      /\ worker' = [worker EXCEPT ![w] = Idle]
      /\ AdvanceRun(event, <<>>) \/ AdvanceRun(Unwind(event, s), <<>>)
  BY DEF RecordOutcome, At, After
<1>2. TInv /\ Backed /\ Queue!TypeOK
  BY DEF RInv, DInv, TInv, QueueOK
<1>3. worker[w].slot = Do(s) /\ Do(s) \in Slot
  BY <1>1, <1>2, WorkerBacked
<1>4. w \in Closing(Do(s))
  BY <1>1, <1>3 DEF Closing
<1>5. Closing(Do(s))' \subseteq Closing(Do(s)) \ {w}
  BY <1>1, <1>2, ClosingForgets
<1>6. event \in Context /\ event.steps[s] = ApplyToSlot(ctx.steps[s], type)
  <2>1. type \in StepEvent /\ ctx \in Context /\ s \in Step
    BY <1>2 DEF TInv, StepEvent
  <2> HIDE DEF type
  <2> QED
    BY <2>1, AfterStepEvent
<1>7. event.steps[s].status # "PENDING"
  <2>1. ctx.steps[s] \in StepSlot
    BY <1>2 DEF TInv, Context
  <2> QED
    BY <1>6, <2>1 DEF ApplyToSlot, StepStatusAfter, StepSlot
<1> HIDE DEF event
<1>8. PICK log \in Context : AdvanceRun(log, <<>>) /\ log.steps = event.steps
  BY <1>1, <1>6, Unwound
<1>9. PICK want : Orders(want) /\ Enqueue(want) /\ DOMAIN want = DOMAIN <<>> \cup NextWork(log)
  BY <1>2, <1>8, Advanced, OrdersOfNone
<1>10. Do(s) \notin NextWork(log)
  BY <1>7, <1>8, NextWorkTyped DEF ReadySteps, StepsWithStatus
<1>11. Do(s) \notin DOMAIN want
  BY <1>9, <1>10, OrdersOfNone
<1>12. LiveRows(Do(s))' \subseteq LiveRows(Do(s))
  BY <1>2, <1>3, <1>9, <1>11, LiveInserted
<1> QED
  BY <1>1, <1>4, <1>5, <1>12 DEF InOneHand, Free

\* A person has decided on the step.
Answered(s) == \E a \in Actor : request[a].pc = "done" /\ request[a].step = s

\* A step that was decided on is not decided on again.
LEMMA NoLateDecision ==
    ASSUME RInv, CInv, [Next]_vars, NEW s \in Step, Decided(s)', Answered(s),
           NEW a \in Actor, ResolveApproval(a)
    PROVE  request[a].step # s
<1> SUFFICES ASSUME request[a].step = s PROVE FALSE
  OBVIOUS
<1>1. request[a].pc = "checked" /\ request' = [request EXCEPT ![a].pc = "done"]
  BY DEF ResolveApproval
<1>2. StepType[s] = "approval"
  BY <1>1 DEF CInv, Asking
<1>3. request'[a].pc = "done" /\ request'[a].step = s
  BY <1>1 DEF RInv, TInv, RequestsOK, Asked
<1>4. PICK b \in Actor : request[b].pc = "done" /\ request[b].step = s
  BY DEF Answered
<1>5. request'[b] = request[b]
  BY <1>4, GrantedStays DEF RInv
<1>6. a = b
  BY <1>2, <1>3, <1>4, <1>5 DEF Decided, DecidedOnce
<1> QED
  BY <1>1, <1>4, <1>6

LEMMA DecidedBefore ==
    ASSUME TInv, [Next]_vars, NEW s \in Step, Decided(s)'
    PROVE  Decided(s)
BY GrantedStays DEF Decided, DecidedOnce

LEMMA RowlessBefore ==
    ASSUME TInv, [Next]_vars, NEW slot, Rowless(slot)'
    PROVE  Rowless(slot)
BY NextOK DEF AsQueue, RowsStay, Rowless, Rows

\* A step that has succeeded, one step later.
LEMMA StaysAtRest ==
    ASSUME RInv, CInv, GInv, HInv, Prompt, [Next]_vars,
           NEW s \in Step, Decided(s)', AtRest(s),
           ctx.steps[s].status = "SUCCEEDED", Rowless(Undo(s))
    PROVE  ctx'.steps[s].status = "SUCCEEDED" /\ Free(Do(s))' /\ reaper' # s
<1>1. Free(Do(s)) /\ reaper # s
  BY DEF AtRest
<1>2. ASSUME NEW a \in Actor, ResolveApproval(a), request[a].step = s PROVE FALSE
  <2>1. s \in Succeeded
    BY DEF RInv, DInv, LogOK, Succeeded
  <2>2. StepType[s] = "approval"
    BY <1>2 DEF ResolveApproval, CInv, Asking
  <2>3. Granted(s)
    BY <2>1, <2>2 DEF GInv
  <2> QED
    BY <1>2, <2>3, NoLateDecision DEF Answered, Granted
<1>3. ctx'.steps[s] = ctx.steps[s] /\ reaper' # s
  BY <1>1, <1>2, Undisturbed
<1>4. Do(s) \in Slot
  BY SlotOfTyped
<1>5. ~Opens(Do(s))
  BY DoIsOne DEF Opens
<1>6. ASSUME NEW a \in Actor, Approves(a, Do(s)) PROVE FALSE
  <2>1. ResolveApproval(a) /\ Do(s) = Do(request[a].step) /\ request[a].step \in Step
    BY <1>6 DEF Approves, ResolveApproval, RInv, TInv, RequestsOK
  <2> QED
    BY <1>2, <2>1, DoIsOne
<1>7. HandsOn(Do(s))
  BY <1>4, <1>5, <1>6, EveryStepHands
<1> QED
  BY <1>1, <1>3, <1>7, FreeHandedOn

LEMMA SNext ==
    ASSUME RInv, CInv, GInv, HInv, Prompt, SInv, [Next]_vars
    PROVE  SInv'
<1> SUFFICES ASSUME NEW s \in Step \ Deadline, Decided(s)', Rowless(Undo(s))',
                    ctx'.steps[s].status = "SUCCEEDED"
             PROVE  Free(Do(s))' /\ reaper' # s
  BY DEF SInv, AtRest
<1>0. TInv /\ Backed
  BY DEF RInv, DInv
<1>1. Decided(s) /\ Rowless(Undo(s)) /\ AtRest(s) /\ StepHeld(s)
  BY <1>0, DecidedBefore, RowlessBefore DEF SInv, CInv
<1>2. CASE ctx.steps[s].status = "SUCCEEDED"
  BY <1>1, <1>2, StaysAtRest
<1>3. CASE ctx.steps[s].status # "SUCCEEDED"
  <2>1. ~Quiet
    BY <1>3 DEF Quiet, runVars
  <2>2. ~StartRun
    <3> SUFFICES ASSUME StartRun PROVE FALSE
      OBVIOUS
    <3> DEFINE c == ApplyEvent(ctx, Event("RUN_STARTED", NoStep))
    <3>1. c \in Context /\ c.steps = ctx.steps
      BY <1>0, RunStarted DEF TInv
    <3>2. ctx' = MarkScheduled(c)
      BY DEF StartRun, Sync
    <3> HIDE DEF c
    <3>3. \/ ctx'.steps[s] = c.steps[s]
          \/ ctx'.steps[s] = ApplyToSlot(c.steps[s], "STEP_SCHEDULED")
      BY <3>1, <3>2, Marked
    <3>4. c.steps[s] \in StepSlot
      BY <3>1 DEF Context
    <3> QED
      BY <1>3, <3>1, <3>3, <3>4, SlotAfter
  <2>3. PICK w \in Worker : RecordOutcome(w) /\ worker[w].ok /\ StepOf(w) = s
    BY <1>0, <1>3, <2>1, <2>2, EveryWriter, SucceedsBy DEF WrittenBy
  <2>4. Free(Do(s))' /\ LiveRows(Do(s)) = {} /\ UNCHANGED reaper
    BY <1>1, <2>3, OutcomeFrees DEF StepHeld
  <2>5. reaper # s
    <3> SUFFICES ASSUME reaper = s PROVE FALSE
      OBVIOUS
    <3>1. PICK t \in Pk : /\ SlotOf[t][1] = s
                          /\ Queue!Present(t) /\ task[t].status = "READY"
      BY NoStepAssumption DEF Prompt
    <3>2. t \in LiveRows(SlotOf[t]) /\ t \in Rows(SlotOf[t])
      BY <3>1, RowCounts DEF Rows
    <3> QED
      BY <1>1, <2>4, <3>1, <3>2, StepOfRow DEF Rowless
  <2> QED
    BY <2>4, <2>5
<1> QED
  BY <1>2, <1>3

\* What has succeeded stays so until it is being undone: for every workflow without
\* deadlines, as long as nobody stalls with a row in hand, the reaper is in time and no
\* step is decided on twice.  (A worker whose lease lapsed, or a recovery announced
\* late, takes a success back; the tests of the queue do not guard the log.)
THEOREM SuccessStays ==
    ASSUME Faults \cap {"stall", "slow reaper"} = {}, Deadline = {}
    PROVE  Spec /\ []OneDecision => SuccessIsStable
<1>1. Init => TInv /\ HInv /\ Prompt /\ SInv
  <2>1. ASSUME Init PROVE TInv /\ HInv /\ Prompt
    BY <2>1, InitOK, HInit DEF Init, Prompt
  <2>2. ASSUME Init PROVE SInv
    BY <2>2 DEF Init, NewContext, SInv, AtRest
  <2> QED
    BY <2>1, <2>2
<1>2. RInv /\ CInv /\ GInv /\ HInv /\ Prompt /\ SInv /\ [Next]_vars => (HInv /\ Prompt /\ SInv)'
  <2> SUFFICES ASSUME RInv, CInv, GInv, HInv, Prompt, SInv, [Next]_vars
               PROVE  (HInv /\ Prompt /\ SInv)'
    OBVIOUS
  <2>1. TInv /\ "stall" \notin Faults /\ "slow reaper" \notin Faults
    BY DEF RInv
  <2> QED
    BY <2>1, HNext, PromptNext, SNext
<1>3. ASSUME RInv, CInv, GInv, HInv, Prompt, SInv, OneDecision', [Next]_vars
      PROVE  [SuccessStands]_vars
  <2> SUFFICES ASSUME NEW s \in Step, ctx.steps[s].status = "SUCCEEDED", Rowless(Undo(s))
               PROVE  ctx'.steps[s].status = "SUCCEEDED"
    BY DEF SuccessStands
  <2>1. Decided(s)'
    BY <1>3 DEF OneDecision, Decided, DecidedOnce
  <2>2. AtRest(s)
    BY <1>3, <2>1, DecidedBefore DEF SInv, RInv
  <2> QED
    BY <1>3, <2>1, <2>2, StaysAtRest
<1> QED
  BY <1>1, <1>2, <1>3, RunInvariant, CInit, CNext, GInit, GNext, PTL DEF Spec, SuccessIsStable
==============================================================================
