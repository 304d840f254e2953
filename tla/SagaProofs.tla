------------------------------ MODULE SagaProofs -------------------------------
(***************************************************************************)
(* A run implements the saga, one undo at a time, if a step that may turn  *)
(* it back is never at work beside another one. (With parallel branches it *)
(* does not: see the divergences in README.md.) And as long as no worker   *)
(* dies, in every workflow, an unwind goes on and waits are armed once.    *)
(* Before that: why a row of a step appears, and that nothing the log      *)
(* shows as under way is left to nobody, which is the custody of           *)
(* EngineProofs from the other side.                                       *)
(***************************************************************************)
EXTENDS EngineProofs

------------------------------------------------------------------------------
(* Why a row appears.                                                      *)

LEMMA InsertedAttempt ==
    ASSUME Queue!TypeOK, NEW want, Orders(want), Enqueue(want),
           NEW t \in Pk, ~Queue!Present(t), Queue!Present(t)'
    PROVE  /\ SlotOf[t] \in DOMAIN want
           /\ task'[t].attempt = want[SlotOf[t]].attempt
           /\ ~Queue!KeyTaken(SlotOf[t], want[SlotOf[t]].attempt)
<1> DEFINE free == {x \in DOMAIN want : ~Queue!KeyTaken(x, want[x].attempt)}
           new == {FreeRow(x) : x \in free}
           attempt == [u \in new |-> want[SlotOf[u]].attempt]
           due == [u \in new |-> want[SlotOf[u]].due]
<1>1. /\ \A x \in free : Cardinality(Rows(x)) < MaxAttempt
      /\ Queue!EnqueueSteps(new, attempt, due)
  BY DEF Enqueue
<1>2. \A x \in free : x \in Slot
  BY DEF Orders
<1>3. \A x \in free : SlotOf[FreeRow(x)] = x
  BY <1>1, <1>2, FreeRowTyped
<1>4. \A u \in new : SlotOf[u] \in free /\ attempt[u] = want[SlotOf[u]].attempt
  BY <1>3
<1>5. \A x \in free : x \in DOMAIN want /\ ~Queue!KeyTaken(x, want[x].attempt)
  OBVIOUS
<1> HIDE DEF free, new, attempt, due
<1>6. task'[t] = IF t \in new THEN Queue!ReadyRow(attempt[t], due[t]) ELSE task[t]
  BY <1>1 DEF Queue!EnqueueSteps
<1>7. t \in new
  BY <1>6 DEF Queue!Present
<1>8. task'[t].attempt = attempt[t]
  BY <1>6, <1>7 DEF Queue!ReadyRow
<1> QED
  BY <1>4, <1>5, <1>7, <1>8

\* Nothing is said of a step without rows.
KeepsRowless(c) == \A s \in Step : ~HasRow(s) => c.steps[s] = ctx.steps[s]

\* A transaction that ends with advance_run, or starts the run: it queues what the log
\* c says is next, and the step of a request that was granted.
Calls(c, want) ==
    /\ c \in Context /\ KeepsPending(c) /\ KeepsRowless(c)
    /\ ctx'.steps = MarkScheduled(c).steps
    /\ ctx'.order = c.order /\ ctx'.compensating = c.compensating
    /\ Orders(want) /\ Enqueue(want)
    /\ NextWork(c) \subseteq DOMAIN want
    /\ \A slot \in DOMAIN want :
        \/ slot \in NextWork(c) /\ want[slot].attempt = 1
        \/ \E a \in Actor : Approves(a, slot) /\ want[slot].attempt = NextAttempt(slot)

\* A worker that leaves its step to another row.
Postpones(w, want) ==
    /\ Park(w) \/ RecordRetry(w)
    /\ Orders(want) /\ Enqueue(want)
    /\ \A slot \in DOMAIN want :
        slot = worker[w].slot /\ want[slot].attempt = worker[w].attempt + 1

InsertsNone == NoNewRows /\ KeepsRowless(ctx')

LEMMA AdvanceCalls ==
    ASSUME TInv, NEW log \in Context, KeepsPending(log), KeepsRowless(log),
           NEW also, Orders(also), AdvanceRun(log, also),
           \A slot \in DOMAIN also :
              \E a \in Actor : Approves(a, slot) /\ also[slot].attempt = NextAttempt(slot)
    PROVE  \E want : Calls(log, want)
<1> DEFINE want == [x \in DOMAIN also \cup NextWork(log) |->
                        IF x \in DOMAIN also THEN also[x] ELSE Wanted(1, TRUE)]
<1>1. ctx' = CloseIfFinished(log, MarkScheduled(log)) /\ Enqueue(want)
  BY DEF AdvanceRun
<1>2. NextWork(log) \subseteq Slot
  BY NextWorkTyped
<1>3. /\ Wanted(1, TRUE) \in [attempt : Nat \ {0}, due : BOOLEAN]
      /\ Wanted(1, TRUE).attempt = 1
  BY DEF Wanted
<1>4. /\ DOMAIN want = DOMAIN also \cup NextWork(log)
      /\ \A x \in DOMAIN want : want[x] = IF x \in DOMAIN also THEN also[x] ELSE Wanted(1, TRUE)
  OBVIOUS
<1> HIDE DEF want
<1>5. Orders(want)
  BY <1>2, <1>3, <1>4 DEF Orders
<1>6. /\ ctx'.steps = MarkScheduled(log).steps
      /\ ctx'.order = log.order /\ ctx'.compensating = log.compensating
  <2>1. /\ MarkScheduled(log) \in Context
        /\ MarkScheduled(log).status = log.status
        /\ MarkScheduled(log).order = log.order
        /\ MarkScheduled(log).compensating = log.compensating
    BY Marked
  <2> QED
    BY <1>1, <2>1, Closed
<1>7. \A slot \in DOMAIN want :
        \/ slot \in NextWork(log) /\ want[slot].attempt = 1
        \/ \E a \in Actor : Approves(a, slot) /\ want[slot].attempt = NextAttempt(slot)
  BY <1>3, <1>4
<1> QED
  BY <1>1, <1>4, <1>5, <1>6, <1>7 DEF Calls

LEMMA EventKeepsRowless ==
    ASSUME ctx \in Context, NEW s \in Step, HasRow(s), NEW type \in StepEvent
    PROVE  LET c == ApplyEvent(ctx, Event(type, s))
           IN  KeepsRowless(c) /\ KeepsRowless(Unwind(c, s))
<1> DEFINE c == ApplyEvent(ctx, Event(type, s))
           d == Unwind(c, s)
<1>1. c \in Context /\ \A r \in Step \ {s} : c.steps[r] = ctx.steps[r]
  BY AfterStepEvent
<1> HIDE DEF c
<1>2. d.steps = c.steps
  BY <1>1, Unwound
<1> HIDE DEF d
<1>3. KeepsRowless(c) /\ KeepsRowless(d)
  BY <1>1, <1>2 DEF KeepsRowless
<1> QED
  BY <1>3 DEF c, d

LEMMA OutcomeCalls ==
    ASSUME TInv, NEW s \in Step, HasRow(s), NEW type \in StepEvent,
           \/ AdvanceRun(ApplyEvent(ctx, Event(type, s)), <<>>)
           \/ AdvanceRun(Unwind(ApplyEvent(ctx, Event(type, s)), s), <<>>)
    PROVE  \E c, want : Calls(c, want)
<1> DEFINE c == ApplyEvent(ctx, Event(type, s))
           d == Unwind(c, s)
<1>1. c \in Context /\ KeepsPending(c) /\ d \in Context /\ KeepsPending(d)
  BY EventKeepsPending DEF TInv
<1>2. KeepsRowless(c) /\ KeepsRowless(d)
  BY EventKeepsRowless DEF TInv
<1>4. AdvanceRun(c, <<>>) \/ AdvanceRun(d, <<>>)
  OBVIOUS
<1> HIDE DEF c, d
<1>3. Orders(<<>>) /\ \A slot \in DOMAIN <<>> : FALSE
  BY OrdersOfNone
<1> QED
  BY <1>1, <1>2, <1>3, <1>4, AdvanceCalls

LEMMA ResolveCalls ==
    ASSUME TInv, Backed, NEW a \in Actor, ResolveApproval(a)
    PROVE  \E c, want : Calls(c, want)
<1> DEFINE s == request[a].step
           granted == ApplyEvent(ctx, Event("APPROVAL_GRANTED", s))
           also == Order(Do(s), NextAttempt(Do(s)), TRUE)
<1>1. /\ request[a].pc = "checked" /\ s \in Step
      /\ IF request[a].approve THEN AdvanceRun(granted, also)
         ELSE AdvanceRun(Unwind(ApplyEvent(ctx, Event("APPROVAL_DENIED", s)), s), <<>>)
  BY DEF ResolveApproval, TInv, RequestsOK
<1>0. HasRow(s)
  BY <1>1, HasRowOf, SlotOfTyped DEF Backed, Do
<1>2. CASE ~request[a].approve
  <2>1. "APPROVAL_DENIED" \in StepEvent
    BY DEF StepEvent
  <2> QED
    BY <1>0, <1>1, <1>2, <2>1, OutcomeCalls
<1>3. CASE request[a].approve
  <2>1. granted \in Context /\ KeepsPending(granted) /\ KeepsRowless(granted)
    <3>1. "APPROVAL_GRANTED" \in StepEvent
      BY DEF StepEvent
    <3> QED
      BY <1>0, <1>1, <3>1, EventKeepsPending, EventKeepsRowless DEF TInv
  <2>2. NextAttempt(Do(s)) \in Nat \ {0} /\ Do(s) \in Slot
    BY <1>1, NextAttemptTyped, SlotOfTyped DEF TInv, QueueOK
  <2>3. /\ Orders(also) /\ DOMAIN also = {Do(s)}
        /\ also[Do(s)].attempt = NextAttempt(Do(s))
    BY <2>2, OrdersOfOne DEF Order, Wanted
  <2>4. AdvanceRun(granted, also) /\ Approves(a, Do(s))
    BY <1>1, <1>3 DEF Approves
  <2> HIDE DEF also, granted
  <2>5. \A slot \in DOMAIN also : Approves(a, slot) /\ also[slot].attempt = NextAttempt(slot)
    BY <2>3, <2>4
  <2> QED
    BY <2>1, <2>3, <2>4, <2>5, AdvanceCalls
<1> QED
  BY <1>2, <1>3

LEMMA StartCalls ==
    ASSUME TInv, StartRun
    PROVE  \E c, want : Calls(c, want)
<1> DEFINE c == ApplyEvent(ctx, Event("RUN_STARTED", NoStep))
           want == [x \in NextWork(c) |-> Wanted(1, TRUE)]
<1>1. c \in Context /\ c.steps = ctx.steps
  BY RunStarted DEF TInv
<1>2. ctx' = MarkScheduled(c) /\ Enqueue(want)
  BY DEF StartRun, Sync
<1> HIDE DEF c
<1>3. Orders(want)
  BY <1>1, NextWorkTyped DEF Orders, Wanted
<1>4. DOMAIN want = NextWork(c) /\ \A slot \in DOMAIN want : want[slot].attempt = 1
  BY DEF Wanted
<1> HIDE DEF want
<1>5. KeepsPending(c) /\ KeepsRowless(c)
  BY <1>1 DEF KeepsPending, KeepsRowless
<1>6. ctx'.order = c.order /\ ctx'.compensating = c.compensating
  BY <1>1, <1>2, Marked
<1> QED
  BY <1>1, <1>2, <1>3, <1>4, <1>5, <1>6 DEF Calls

LEMMA WorkerPostpones ==
    ASSUME TInv, NEW w \in Worker, Park(w) \/ RecordRetry(w)
    PROVE  \E want : Postpones(w, want)
<1>1. worker[w].attempt \in Nat /\ worker[w].attempt + 1 \in Nat \ {0}
  <2>1. worker[w].attempt \in Nat
    BY DEF TInv, MemoryOK, Memory
  <2> QED
    BY <2>1
<1>2. worker[w].slot \in Slot
  BY DEF Park, RecordRetry, At, TInv, MemoryOK, Fits
<1>3. CASE Park(w)
  <2> DEFINE want == IF Timed(StepOf(w))
                     THEN Order(Do(StepOf(w)), worker[w].attempt + 1, FALSE) ELSE <<>>
  <2>1. worker[w].pc = "parking" /\ Enqueue(want)
    BY <1>3 DEF Park, At
  <2>2. worker[w].slot = Do(StepOf(w))
    <3>1. ~Undoing(w)
      BY <2>1 DEF TInv, MemoryOK, Fits, Forward
    <3> QED
      BY <1>2, <3>1, SlotOfTyped DEF StepOf, Undoing, Do
  <2>3. /\ Orders(want)
        /\ \A slot \in DOMAIN want :
              slot = worker[w].slot /\ want[slot].attempt = worker[w].attempt + 1
    BY <1>1, <1>2, <2>2, OrdersOfOne, OrdersOfNone DEF Order, Wanted
  <2> HIDE DEF want
  <2> QED
    BY <1>3, <2>1, <2>3 DEF Postpones
<1>4. CASE RecordRetry(w)
  <2> DEFINE want == Order(worker[w].slot, worker[w].attempt + 1, FALSE)
  <2>1. Enqueue(want)
    BY <1>4 DEF RecordRetry, NextTry
  <2>2. /\ Orders(want)
        /\ \A slot \in DOMAIN want :
              slot = worker[w].slot /\ want[slot].attempt = worker[w].attempt + 1
    BY <1>1, <1>2, OrdersOfOne DEF Order, Wanted
  <2> HIDE DEF want
  <2> QED
    BY <1>4, <2>1, <2>2 DEF Postpones
<1> QED
  BY <1>3, <1>4

\* An event about a step with a row, and nothing else.
LEMMA NotesNothingNew ==
    ASSUME TInv, NEW type, NEW r, NEW c, Writes(type, r, c), ctx'.steps = c.steps
    PROVE  KeepsRowless(ctx')
<1>1. type \in StepEvent /\ r \in Step /\ HasRow(r) /\ ctx \in Context
  BY DEF Writes, TInv
<1>2. /\ KeepsRowless(ApplyEvent(ctx, Event(type, r)))
      /\ KeepsRowless(Unwind(ApplyEvent(ctx, Event(type, r)), r))
  BY <1>1, EventKeepsRowless
<1> QED
  BY <1>2 DEF Writes, KeepsRowless

\* Who ends with advance_run, or starts the run.
Caller ==
    \/ StartRun
    \/ \E w \in Worker : RejectConfig(w) \/ RecordOutcome(w) \/ RecordUndo(w)
    \/ \E a \in Actor : ResolveApproval(a)

LEMMA EveryInsert ==
    ASSUME TInv, Backed, [Next]_vars
    PROVE  \/ Caller /\ \E c, want : Calls(c, want)
           \/ \E w \in Worker : \E want : Postpones(w, want)
           \/ InsertsNone
<1> DEFINE Goal == \/ Caller /\ \E c, want : Calls(c, want)
                   \/ \E w \in Worker : \E want : Postpones(w, want)
                   \/ InsertsNone
<1>1. ASSUME Quiet PROVE Goal
  BY <1>1 DEF Quiet, InsertsNone, runVars, KeepsRowless
<1>2. ASSUME UNCHANGED queueVars, NEW type, NEW r, Writes(type, r, ctx') PROVE Goal
  <2>1. NoNewRows
    BY <1>2, QueueInsertsNone DEF TInv
  <2>2. KeepsRowless(ctx')
    BY <1>2, NotesNothingNew
  <2> QED
    BY <2>1, <2>2 DEF InsertsNone
<1>3. ASSUME NEW w \in Worker, Work(w) \/ Heartbeat(w) \/ Crash(w)
      PROVE  Goal
  <2>1. CASE \/ Claim(w) \/ LoadContext(w) \/ Return(w) \/ Execute(w)
             \/ Heartbeat(w) \/ Finish(w) \/ Abandon(w) \/ Crash(w)
    BY <1>1, <2>1, QuietSteps
  <2>2. CASE FireTimer(w) \/ StartStep(w)
    <3>1. UNCHANGED queueVars
      BY <2>2 DEF FireTimer, StartStep
    <3> QED
      BY <1>2, <2>2, <3>1, FireTimerWrites, StartStepWrites
  <2>3. CASE Park(w) \/ RecordRetry(w)
    BY <2>3, WorkerPostpones
  <2>4. CASE RejectConfig(w) \/ RecordOutcome(w) \/ RecordUndo(w)
    <3>1. worker[w].pc # "idle"
      BY <2>4 DEF RejectConfig, RecordOutcome, RecordUndo, At
    <3>2. StepOf(w) \in Step /\ HasRow(StepOf(w))
      BY <3>1, WorkerBacked
    <3>3. \E type \in StepEvent :
            \/ AdvanceRun(ApplyEvent(ctx, Event(type, StepOf(w))), <<>>)
            \/ AdvanceRun(Unwind(ApplyEvent(ctx, Event(type, StepOf(w))), StepOf(w)), <<>>)
      BY <2>4 DEF RejectConfig, RecordOutcome, RecordUndo, After, StepEvent
    <3> QED
      BY <2>4, <3>2, <3>3, OutcomeCalls DEF Caller
  <2> QED
    BY <1>3, <2>1, <2>2, <2>3, <2>4 DEF Work, Bookkeeping
<1>4. CASE StartRun
  BY <1>4, StartCalls DEF Caller
<1>5. ASSUME NEW a \in Actor, Approvals(a) PROVE Goal
  <2>1. CASE ResolveApproval(a)
    BY <2>1, ResolveCalls DEF Caller
  <2> QED
    BY <1>1, <1>5, <2>1, QuietSteps DEF Approvals
<1>6. ASSUME NEW t \in Pk, ReapPoisoned(t) PROVE Goal
  <2> DEFINE c == ApplyEvent(ctx, Event("STEP_FAILED", SlotOf[t][1]))
  <2>1. Writes("STEP_FAILED", SlotOf[t][1], c)
    BY <1>6, ReapPoisonedWrites
  <2>2. c \in Context
    <3>1. SlotOf[t][1] \in Step
      BY <2>1 DEF Writes
    <3> QED
      BY <3>1, AfterStepEvent DEF StepEvent, TInv
  <2>3. ctx' = CloseIfFinished(c, c)
    BY <1>6 DEF ReapPoisoned, Sync
  <2> HIDE DEF c
  <2>4. ctx'.steps = c.steps
    BY <2>2, <2>3, Closed
  <2>5. NoNewRows
    BY <1>6, QueueInsertsNone DEF TInv, ReapPoisoned, Queue!RowStep
  <2> QED
    BY <2>1, <2>4, <2>5, NotesNothingNew DEF InsertsNone
<1>7. ASSUME NEW t \in Pk, RowStep(t) PROVE Goal
  BY <1>1, <1>6, <1>7, QuietSteps DEF RowStep
<1>8. CASE AnnounceRecovery
  <2>1. UNCHANGED queueVars
    BY <1>8 DEF AnnounceRecovery
  <2> QED
    BY <1>2, <1>8, <2>1, AnnounceRecoveryWrites
<1>9. CASE ReaperDies \/ UNCHANGED vars
  BY <1>1, <1>9, QuietSteps
<1> QED
  BY <1>3, <1>4, <1>5, <1>7, <1>8, <1>9 DEF Next

------------------------------------------------------------------------------
(* A step has a row as soon as the log says anything of it.                *)

\* A row that is inserted under a key nobody had is live.
LEMMA KeyFills ==
    ASSUME TInv, [Next]_vars, Inserts, NEW slot, NEW attempt,
           ~Queue!KeyTaken(slot, attempt), Queue!KeyTaken(slot, attempt)'
    PROVE  ~Rowless(slot)' /\ ~Free(slot)'
<1>1. PICK t \in Pk : /\ Queue!Present(t)' /\ SlotOf[t] = slot
                      /\ task'[t].attempt = attempt
  BY DEF Queue!KeyTaken
<1>2. ~Queue!Present(t)
  BY <1>1, InsertedLeaves DEF Queue!KeyTaken
<1>3. Live(t)'
  BY <1>1, <1>2, NewRowsLive
<1>4. t \in Rows(slot)' /\ t \in LiveRows(slot)'
  BY <1>1, <1>3 DEF Rows, LiveRows
<1> QED
  BY <1>4 DEF Rowless, Free

\* Whoever marks a step as scheduled has queued a row for it.
LEMMA MarkedIsQueued ==
    ASSUME TInv, [Next]_vars, NEW c, NEW want, Calls(c, want), NEW s \in Step,
           ctx'.steps[s] # c.steps[s]
    PROVE  ~Rowless(Do(s))' /\ ~Free(Do(s))'
<1>1. Do(s) \in NextWork(c) /\ ~Queue!KeyTaken(Do(s), 1)
  <2>1. ctx'.steps[s] = MarkScheduled(c).steps[s]
    BY DEF Calls
  <2> QED
    BY <2>1 DEF MarkScheduled, Calls, Context
<1>2. Do(s) \in Slot
  BY SlotOfTyped
<1>3. Do(s) \in DOMAIN want
  BY <1>1 DEF Calls
<1>4. Queue!KeyTaken(Do(s), want[Do(s)].attempt)'
  BY <1>2, <1>3, LiveInserted DEF Calls, TInv, QueueOK
<1>5. CASE ~Queue!KeyTaken(Do(s), want[Do(s)].attempt)
  BY <1>4, <1>5, KeyFills DEF Inserts, Calls
<1>6. CASE Queue!KeyTaken(Do(s), want[Do(s)].attempt)
  <2>1. PICK a \in Actor : Approves(a, Do(s)) /\ want[Do(s)].attempt = NextAttempt(Do(s))
    BY <1>1, <1>3, <1>6 DEF Calls
  <2> QED
    BY <1>6, <2>1, NextAttemptTyped DEF TInv, QueueOK, Queue!KeyTaken, Rows
<1> QED
  BY <1>5, <1>6

\* A step the log says something of has a row.
Queued == \A s \in Step :
    ctx.steps[s].status # "PENDING" \/ s \in Succeeded => ~Rowless(Do(s))

LEMMA RowlessStays ==
    ASSUME TInv, Backed, [Next]_vars, NEW s \in Step, ~HasRow(s), Rowless(Do(s))'
    PROVE  ctx'.steps[s] = ctx.steps[s]
<1>1. ASSUME NEW c, NEW want, Calls(c, want) PROVE ctx'.steps[s] = ctx.steps[s]
  BY <1>1, MarkedIsQueued DEF Calls, KeepsRowless
<1>2. ASSUME KeepsRowless(ctx') PROVE ctx'.steps[s] = ctx.steps[s]
  BY <1>2 DEF KeepsRowless
<1>3. ASSUME NEW w \in Worker, Park(w) \/ RecordRetry(w) PROVE KeepsRowless(ctx')
  BY <1>3, ParkWrites, RecordRetryWrites, NotesNothingNew
<1> QED
  BY <1>1, <1>2, <1>3, EveryInsert DEF Postpones, InsertsNone

LEMMA SucceedsByWorker ==
    ASSUME TInv, Backed, [Next]_vars
    PROVE  \A s \in Succeeded' : s \in Succeeded \/ HasRow(s)
<1>1. CASE Quiet
  BY <1>1 DEF Quiet, runVars, Succeeded
<1>2. CASE StartRun
  BY <1>2, StartMarks
<1>3. ASSUME NEW type, NEW r, NEW c, Writes(type, r, c)
      PROVE  \A s \in Succeeded' : s \in Succeeded \/ HasRow(s)
  <2>1. HasRow(r)
    BY <1>3 DEF Writes
  <2> QED
    BY <1>3, <2>1, WritesMarks
<1> QED
  BY <1>1, <1>2, <1>3, EveryStep

LEMMA QueuedNext ==
    ASSUME RInv, UndoneAfterTurn, Queued, [Next]_vars
    PROVE  Queued'
<1> SUFFICES ASSUME NEW s \in Step, Rowless(Do(s))'
             PROVE  ctx'.steps[s].status = "PENDING" /\ s \notin Succeeded'
  BY DEF Queued
<1>0. TInv /\ Backed
  BY DEF RInv, DInv
<1>1. Rowless(Do(s)) /\ ctx.steps[s].status = "PENDING" /\ s \notin Succeeded
  BY <1>0, RowlessBefore DEF Queued
<1>2. ~HasRow(s)
  <2>1. Rowless(Undo(s))
    BY <1>1 DEF UndoneAfterTurn
  <2> QED
    BY <1>1, <2>1, StepOfRow DEF HasRow, Rowless, Rows
<1> QED
  BY <1>0, <1>1, <1>2, RowlessStays, SucceedsByWorker

\* A step is PENDING exactly as long as it has no row: whoever schedules it inserts
\* the row in the same transaction, and no row is ever inserted for a step that was
\* scheduled before it had one (replay.StepStatus: SCHEDULED, a task row exists).
RowsMatchLog ==
    \A s \in Step : ctx.steps[s].status = "PENDING" <=> Rowless(Do(s))

THEOREM ScheduledMeansQueued == Spec => []RowsMatchLog
<1>1. Init => UndoneAfterTurn /\ Queued
  <2> SUFFICES ASSUME Init, NEW s \in Step
               PROVE  /\ Rowless(Undo(s)) /\ ~Settled(s)
                      /\ ctx.steps[s].status = "PENDING" /\ s \notin Succeeded
    BY DEF UndoneAfterTurn, Queued
  <2>1. Rowless(Undo(s))
    BY NothingHeldAtFirst
  <2>2. /\ ctx.steps[s].status = "PENDING"
        /\ ~ctx.steps[s].compensated /\ ~ctx.steps[s].compensationFailed
        /\ Range(ctx.order) = {}
    BY DEF Init, NewContext, Range
  <2> QED
    BY <2>1, <2>2 DEF Settled, Succeeded
<1>2. CInv /\ Queued => RowsMatchLog
  BY DEF CInv, Fresh, Queued, RowsMatchLog
<1> QED
  BY <1>1, <1>2, CInit, CNext, UndoNext, QueuedNext, RunInvariant, PTL DEF Spec

------------------------------------------------------------------------------
(* The latest row of a slot.                                               *)

\* Whoever is in charge of a slot has its highest attempt number.
Latest(slot) ==
    /\ \A t \in LiveRows(slot), u \in Rows(slot) : task[u].attempt <= task[t].attempt
    /\ \A w \in Closing(slot), u \in Rows(slot) : task[u].attempt <= worker[w].attempt

\* A first row is queued for a slot without rows only.
FirstIsFirst(slot) ==
    \A c \in Context : KeepsPending(c) /\ slot \in NextWork(c) /\ ~Queue!KeyTaken(slot, 1)
        => Rowless(slot)

LEMMA LiveBefore ==
    ASSUME TInv, [Next]_vars, NEW slot, NEW t \in LiveRows(slot)', Queue!Present(t)
    PROVE  t \in LiveRows(slot)
<1>0. t \in Pk /\ SlotOf[t] = slot
  BY DEF LiveRows, Rows
<1>1. CASE Inserts
  <2>1. task'[t] = task[t]
    BY <1>0, <1>1, InsertedLeaves
  <2> QED
    BY <1>0, <2>1 DEF LiveRows, Rows, Live, Queue!Done, Queue!Present
<1>2. ASSUME NEW w \in Worker, Handles(w) PROVE Queue!WorkerStep(w)
  BY <1>2 DEF Handles, Claim, Finish, Queue!WorkerStep
<1>3. ASSUME NEW u \in Pk, RowStep(u) PROVE Queue!RowStep(u)
  BY <1>3 DEF RowStep, Queue!RowStep, TimerDue, LeaseLapses, Reap, ReapPoisoned
<1> QED
  BY <1>1, <1>2, <1>3, StepKinds, NoLiveInserted DEF TInv

\* The row a step inserts has a higher attempt number than those before it.
LEMMA NewIsLatest ==
    ASSUME RInv, [Next]_vars, NEW slot \in Slot, Latest(slot), FirstIsFirst(slot),
           NEW t \in Rows(slot)', ~Queue!Present(t), NEW u \in Rows(slot)
    PROVE  task'[u].attempt <= task'[t].attempt
<1>0. TInv /\ Backed /\ t \in Pk /\ SlotOf[t] = slot /\ Queue!Present(t)' /\ u \in Pk
  BY DEF RInv, DInv, Rows
<1>1. /\ task[u] \in Queue!Row /\ task[u].attempt \in Nat /\ Queue!Present(u)
  BY DEF RInv, TInv, QueueOK, Queue!TypeOK, Rows, Queue!Present, Queue!Row
<1>2. ASSUME NEW want, Orders(want), Enqueue(want)
      PROVE  /\ slot \in DOMAIN want
             /\ task'[t].attempt = want[slot].attempt
             /\ ~Queue!KeyTaken(slot, want[slot].attempt)
             /\ task'[u] = task[u]
  BY <1>0, <1>1, <1>2, InsertedAttempt, EnqueueInserts DEF TInv, QueueOK
<1>3. ASSUME NEW c, NEW want, Calls(c, want) PROVE task'[u].attempt <= task'[t].attempt
  <2>1. CASE slot \in NextWork(c) /\ want[slot].attempt = 1
    <3>1. Rowless(slot)
      BY <1>2, <1>3, <2>1 DEF Calls, FirstIsFirst
    <3> QED
      BY <3>1 DEF Rowless
  <2>2. CASE want[slot].attempt = NextAttempt(slot)
    <3>1. task[u].attempt < NextAttempt(slot) /\ NextAttempt(slot) \in Nat
      BY <1>0, NextAttemptTyped DEF TInv, QueueOK
    <3>2. task'[t].attempt = NextAttempt(slot) /\ task'[u] = task[u]
      BY <1>2, <1>3, <2>2 DEF Calls
    <3> QED
      BY <1>1, <3>1, <3>2
  <2> QED
    BY <1>2, <1>3, <2>1, <2>2 DEF Calls
<1>4. ASSUME NEW w \in Worker, NEW want, Postpones(w, want)
      PROVE  task'[u].attempt <= task'[t].attempt
  <2>1. /\ slot = worker[w].slot
        /\ task'[t].attempt = worker[w].attempt + 1 /\ task'[u] = task[u]
    BY <1>2, <1>4 DEF Postpones
  <2>2. w \in Closing(slot)
    BY <1>4, <2>1 DEF Postpones, Park, RecordRetry, At, Closing
  <2>3. task[u].attempt <= worker[w].attempt /\ worker[w].attempt \in Nat
    BY <1>0, <2>2 DEF Latest, TInv, MemoryOK, Memory
  <2> QED
    BY <1>1, <2>1, <2>3
<1>5. ~InsertsNone
  BY <1>0 DEF InsertsNone, NoNewRows
<1> QED
  BY <1>0, <1>3, <1>4, <1>5, EveryInsert

\* The attempt number of a row that is done does not change any more, and that of any
\* other row does not go down.
LEMMA AttemptMoves ==
    ASSUME RInv, HandedOK, [Next]_vars, NEW u \in Pk, Queue!Present(u)
    PROVE  /\ task[u].attempt \in Nat /\ task'[u].attempt \in Nat
           /\ task[u].attempt <= task'[u].attempt
           /\ ~Live(u) => task'[u].attempt = task[u].attempt
<1>1. task[u].attempt \in Nat
  BY DEF RInv, TInv, QueueOK, Queue!TypeOK, Queue!Present, Queue!Row
<1>2. RowMoves(u)
  BY HandedNext
<1> QED
  BY <1>1, <1>2 DEF RowMoves, Live, Queue!Done

LEMMA LatestNext ==
    ASSUME RInv, HInv, HandedOK, NEW slot \in Slot, Latest(slot), FirstIsFirst(slot),
           InOneHand(slot), InOneHand(slot)', [Next]_vars
    PROVE  Latest(slot)'
<1>0. TInv /\ TInv' /\ LiveRows(slot) \subseteq Rows(slot) /\ LiveRows(slot)' \subseteq Rows(slot)'
  BY NextOK DEF RInv, LiveRows
<1>1. ASSUME NEW n \in Rows(slot)', ~Queue!Present(n)
      PROVE  Latest(slot)'
  <2>1. n \in LiveRows(slot)'
    BY <1>0, <1>1, NewRowsLive DEF LiveRows, Rows
  <2>2. Closing(slot)' = {} /\ \A u \in LiveRows(slot)' : u = n
    BY <2>1 DEF InOneHand
  <2>3. ASSUME NEW u \in Rows(slot)' PROVE task'[u].attempt <= task'[n].attempt
    <3>1. CASE u \in Rows(slot)
      BY <1>1, <3>1, NewIsLatest
    <3>2. CASE u \notin Rows(slot)
      <4>1. ~Queue!Present(u) /\ u \in Pk /\ Queue!Present(u)'
        BY <2>3, <3>2 DEF Rows
      <4>2. u \in LiveRows(slot)'
        BY <1>0, <2>3, <4>1, NewRowsLive DEF LiveRows
      <4>3. task'[n].attempt \in Nat
        BY <1>0, <1>1 DEF TInv, QueueOK, Queue!TypeOK, Rows, Queue!Present, Queue!Row
      <4> QED
        BY <2>2, <4>2, <4>3
    <3> QED
      BY <3>1, <3>2
  <2> QED
    BY <2>2, <2>3 DEF Latest
<1>2. CASE \A n \in Rows(slot)' : Queue!Present(n)
  <2>1. Rows(slot)' \subseteq Rows(slot)
    BY <1>2 DEF Rows
  <2>2. ASSUME NEW t \in LiveRows(slot)', NEW u \in Rows(slot)'
        PROVE  task'[u].attempt <= task'[t].attempt
    <3>1. t \in LiveRows(slot) /\ u \in Rows(slot) /\ t \in Rows(slot)
      BY <1>0, <1>2, <2>1, <2>2, LiveBefore
    <3>2. task[u].attempt <= task[t].attempt
      BY <3>1 DEF Latest
    <3>3. u = t \/ ~Live(u)
      BY <3>1 DEF InOneHand, LiveRows
    <3>4. t \in Pk /\ Queue!Present(t) /\ u \in Pk /\ Queue!Present(u)
      BY <3>1 DEF Rows
    <3> QED
      BY <3>2, <3>3, <3>4, AttemptMoves
  <2>3. ASSUME NEW w \in Closing(slot)', NEW u \in Rows(slot)'
        PROVE  task'[u].attempt <= worker'[w].attempt
    <3>1. u \in Rows(slot) /\ u \in Pk /\ Queue!Present(u)
      BY <2>1, <2>3 DEF Rows
    <3>2. w \in Worker /\ worker'[w].slot = slot /\ worker'[w].pc \in Recording
      BY <2>3 DEF Closing, Recording
    <3>3. CASE /\ worker'[w].slot = worker[w].slot
               /\ worker'[w].attempt = worker[w].attempt
               /\ worker[w].pc \in Recording
      <4>1. w \in Closing(slot)
        BY <3>2, <3>3 DEF Closing, Recording
      <4>2. task[u].attempt <= worker[w].attempt /\ ~Live(u)
        BY <3>1, <4>1 DEF Latest, InOneHand, LiveRows
      <4> QED
        BY <3>1, <3>3, <4>2, AttemptMoves
    <3>4. CASE /\ Finish(w)
               /\ worker'[w].slot = worker[w].slot
               /\ worker'[w].attempt = worker[w].attempt
      <4>1. PICK h \in Pk : h = hand[w]
        BY <1>0, <3>4 DEF Finish, Queue!FinishTaskIfOwned, TInv, QueueOK, Queue!TypeOK
      <4>2. /\ Queue!OwnedBy(task[h], w) /\ Queue!Present(h)
            /\ worker[w].attempt = task[h].attempt /\ SlotOf[h] = slot
        <5>1. hand[w] # NoTask
          BY <4>1, NoTaskAssumption
        <5> QED
          BY <1>0, <3>2, <3>4, <4>1, <5>1 DEF HInv, Holds, TInv, QueueOK, HandsHold, MemoryOK, Fits
      <4>3. h \in LiveRows(slot)
        BY <4>2 DEF LiveRows, Rows, Live, Queue!Done, Queue!OwnedBy
      <4>4. task[u].attempt <= task[h].attempt
        BY <3>1, <4>3 DEF Latest
      <4>5. task'[u].attempt = task[u].attempt
        <5>1. task' = [task EXCEPT ![h] = Queue!Finished(task[h])]
          BY <3>4, <4>1 DEF Finish, Queue!FinishTaskIfOwned
        <5>2. Queue!Finished(task[h]).attempt = task[h].attempt
          BY <1>0, <4>2 DEF TInv, QueueOK, Queue!TypeOK, Queue!Present, Queue!Row, Queue!Finished
        <5> QED
          BY <1>0, <3>1, <5>1, <5>2 DEF TInv, QueueOK, Queue!TypeOK
      <4> QED
        BY <3>4, <4>2, <4>4, <4>5
    <3> QED
      BY <1>0, <3>2, <3>3, <3>4, HandSteps DEF Idle, Recording
  <2> QED
    BY <2>2, <2>3 DEF Latest
<1> QED
  BY <1>1, <1>2

------------------------------------------------------------------------------
(* Asking for a decision.                                                  *)

Deferring == {"deferring", "parking"}

\* How the work of a worker goes on.
Proceeds(v) ==
    /\ worker'[v].slot = worker[v].slot
    /\ \/ LoadContext(v) /\ worker'[v].pc = Route(worker[v].slot)
       \/ worker[v].pc = "misconfigured" /\ worker'[v].pc = "returning"
       \/ worker[v].pc = "firing" /\ worker'[v].pc = "starting"
       \/ worker[v].pc = "starting" /\ worker'[v].pc = "executing"
       \/ worker[v].pc = "deferring" /\ worker'[v].pc = "parking"
       \/ /\ worker[v].pc = "executing" /\ worker'[v].pc = "executed"
          /\ worker'[v].ok \in Answers(v)
       \/ /\ worker[v].pc = "executed" /\ worker'[v].pc = "recording"
          /\ worker'[v].ok = worker[v].ok

LEMMA PcSteps ==
    ASSUME TInv, [Next]_vars, NEW v \in Worker
    PROVE  \/ worker'[v] = worker[v]
           \/ worker'[v].pc = "idle"
           \/ worker'[v].pc = "claimed" /\ Claim(v)
           \/ Proceeds(v)
<1> DEFINE Goal == \/ worker'[v] = worker[v]
                   \/ worker'[v].pc = "idle"
                   \/ worker'[v].pc = "claimed" /\ Claim(v)
                   \/ Proceeds(v)
<1>0. worker \in [Worker -> Memory]
  BY DEF TInv, MemoryOK
<1>1. CASE UNCHANGED worker
  BY <1>1
<1>2. ASSUME NEW w \in Worker, NEW mem, worker' = [worker EXCEPT ![w] = mem],
             w = v /\ worker'[v] = mem => Goal
      PROVE  Goal
  <2>1. CASE w = v
    BY <1>0, <1>2, <2>1
  <2>2. CASE w # v
    BY <1>0, <1>2, <2>2
  <2> QED
    BY <2>1, <2>2
<1> HIDE DEF Goal
<1>3. ASSUME NEW w \in Worker, Work(w) \/ Heartbeat(w) \/ Crash(w) PROVE Goal
  <2>1. CASE Heartbeat(w)
    BY <1>1, <2>1 DEF Heartbeat, Goal
  <2>2. CASE Claim(w)
    <3>1. PICK t \in Pk :
            worker' = [worker EXCEPT ![w] =
                 [Idle EXCEPT !.pc = "claimed", !.slot = SlotOf[t], !.attempt = task[t].attempt]]
      BY <2>2 DEF Claim
    <3> DEFINE mem == [Idle EXCEPT !.pc = "claimed", !.slot = SlotOf[t],
                                   !.attempt = task[t].attempt]
    <3>2. mem.pc = "claimed"
      BY DEF Idle
    <3>3. worker' = [worker EXCEPT ![w] = mem]
      BY <3>1
    <3> HIDE DEF mem
    <3>4. w = v /\ worker'[v] = mem => Goal
      BY <2>2, <3>2 DEF Goal
    <3> QED
      BY <1>2, <3>3, <3>4
  <2>3. CASE LoadContext(w)
    <3> DEFINE mem == [worker[w] EXCEPT !.pc = Route(worker[w].slot),
                                        !.approved = ctx.steps[StepOf(w)].approved]
    <3>1. worker' = [worker EXCEPT ![w] = mem] /\ worker[w].pc = "claimed"
      BY <2>3 DEF LoadContext, At
    <3>2. mem.pc = Route(worker[w].slot) /\ mem.slot = worker[w].slot
      BY <1>0 DEF Memory
    <3> HIDE DEF mem
    <3>3. w = v /\ worker'[v] = mem => Goal
      BY <2>3, <3>1, <3>2 DEF Goal, Proceeds
    <3> QED
      BY <1>2, <3>1, <3>3
  <2>4. ASSUME NEW pc, GoTo(w, pc),
               \/ worker[w].pc = "misconfigured" /\ pc = "returning"
               \/ worker[w].pc = "firing" /\ pc = "starting"
               \/ worker[w].pc = "starting" /\ pc = "executing"
               \/ worker[w].pc = "deferring" /\ pc = "parking"
               \/ worker[w].pc = "executed" /\ pc = "recording"
        PROVE  Goal
    <3> DEFINE mem == [worker[w] EXCEPT !.pc = pc]
    <3>1. worker' = [worker EXCEPT ![w] = mem]
      BY <2>4 DEF GoTo
    <3>2. mem.pc = pc /\ mem.slot = worker[w].slot /\ mem.ok = worker[w].ok
      BY <1>0 DEF Memory
    <3> HIDE DEF mem
    <3>3. w = v /\ worker'[v] = mem => Goal
      BY <2>4, <3>2 DEF Goal, Proceeds
    <3> QED
      BY <1>2, <3>1, <3>3
  <2>5. CASE RejectConfig(w) \/ FireTimer(w) \/ StartStep(w) \/ Finish(w)
    BY <2>4, <2>5 DEF RejectConfig, FireTimer, StartStep, Finish, At
  <2>6. CASE Execute(w)
    <3>1. PICK ok \in Answers(w) :
            worker' = [worker EXCEPT ![w].pc = "executed", ![w].ok = ok]
      BY <2>6 DEF Execute, CallReturns
    <3> DEFINE mem == [worker[w] EXCEPT !.pc = "executed", !.ok = ok]
    <3>2. worker' = [worker EXCEPT ![w] = mem] /\ worker[w].pc = "executing"
      BY <2>6, <3>1 DEF Execute, At
    <3>3. mem.pc = "executed" /\ mem.slot = worker[w].slot /\ mem.ok = ok
      BY <1>0 DEF Memory
    <3> HIDE DEF mem
    <3>4. w = v /\ worker'[v] = mem => Goal
      BY <3>1, <3>2, <3>3 DEF Goal, Proceeds
    <3> QED
      BY <1>2, <3>2, <3>4
  <2>7. CASE LetsGo(w)
    <3>1. worker' = [worker EXCEPT ![w] = Idle]
      BY <2>7 DEF LetsGo, Return, Abandon, Crash, Park, RecordRetry, RecordOutcome, RecordUndo
    <3>2. w = v /\ worker'[v] = Idle => Goal
      BY DEF Goal, Idle
    <3> QED
      BY <1>2, <3>1, <3>2
  <2> QED
    BY <1>3, <2>1, <2>2, <2>3, <2>5, <2>6, <2>7 DEF Work, Bookkeeping, LetsGo
<1>4. CASE \/ StartRun \/ (\E a \in Actor : Approvals(a))
           \/ (\E t \in Pk : RowStep(t)) \/ AnnounceRecovery \/ ReaperDies \/ UNCHANGED vars
  <2>1. UNCHANGED worker
    BY <1>4 DEF StartRun, Approvals, CheckApproval, ResolveApproval, RowStep, TimerDue,
                LeaseLapses, Reap, ReapPoisoned, AnnounceRecovery, ReaperDies, vars
  <2> QED
    BY <1>1, <2>1 DEF Goal
<1> QED
  BY <1>3, <1>4 DEF Next, Goal

\* Who is about to park a step read the log, and found it should.
LEMMA DeferSteps ==
    ASSUME TInv, [Next]_vars, NEW v \in Worker, worker'[v].pc \in Deferring
    PROVE  \/ worker[v].pc \in Deferring
           \/ LoadContext(v) /\ Route(worker[v].slot) = "deferring"
<1>1. worker'[v].pc \in {"deferring", "parking"}
  BY DEF Deferring
<1>2. CASE worker'[v] = worker[v]
  BY <1>2
<1>3. CASE Proceeds(v)
  <2>1. CASE LoadContext(v) /\ worker'[v].pc = Route(worker[v].slot)
    BY <1>1, <2>1 DEF Route
  <2> QED
    BY <1>1, <1>3, <2>1 DEF Proceeds, Deferring
<1> QED
  BY <1>1, <1>2, <1>3, PcSteps

\* Nobody is about to ask for a decision that was asked for already.
Unasked(s) ==
    \A w \in Worker :
        worker[w].pc \in Deferring /\ StepOf(w) = s =>
            \/ StepType[s] = "wait"
            \/ StepType[s] = "approval" /\ ~ctx.steps[s].approvalRequested

\* What is granted was asked for.
GrantedIsAsked ==
    \A s \in Step : ctx.steps[s].approved => ctx.steps[s].approvalRequested

\* Two workers do not have one slot in hand.
LEMMA BusyAlone ==
    ASSUME RInv, HInv, NEW slot, InOneHand(slot), NEW v \in Closing(slot),
           NEW w \in Worker, worker[w].pc # "idle", worker[w].slot = slot
    PROVE  w = v
BY BusyHolds DEF RInv, InOneHand

LEMMA UnaskedNext ==
    ASSUME RInv, HInv, [Next]_vars, NEW s \in Step, Unasked(s), InOneHand(Do(s))
    PROVE  Unasked(s)'
<1> SUFFICES ASSUME NEW w \in Worker, worker'[w].pc \in Deferring, worker'[w].slot[1] = s,
                    StepType[s] # "wait",
                    StepType[s] = "approval" => ctx'.steps[s].approvalRequested
             PROVE  FALSE
  BY DEF Unasked, StepOf
<1>0. TInv /\ Backed
  BY DEF RInv, DInv
<1>1. CASE LoadContext(w) /\ Route(worker[w].slot) = "deferring"
  <2>1. worker'[w].slot = worker[w].slot /\ ctx' = ctx
    BY <1>0, <1>1 DEF LoadContext, TInv, MemoryOK, Memory, runVars
  <2> QED
    BY <1>1, <2>1 DEF Route, DefersByDefault, DefersApproval
<1>2. CASE worker[w].pc \in Deferring
  <2>1. worker'[w].slot = worker[w].slot /\ worker'[w] # Idle
    <3>1. worker'[w] # Idle
      BY DEF Deferring, Idle
    <3>2. ~Claim(w)
      BY <1>2 DEF Deferring, Claim, At
    <3> QED
      BY <1>0, <3>1, <3>2, HandSteps
  <2>2. ~ctx.steps[s].approvalRequested /\ ctx'.steps[s].approvalRequested
    BY <1>2, <2>1 DEF Unasked, StepOf
  <2>3. PICK v \in Worker : Park(v) /\ StepOf(v) = s
    BY <2>2, AskedBy
  <2>4. worker[v].pc = "parking" /\ worker'[v] = Idle
    BY <1>0, <2>3 DEF Park, At, TInv, MemoryOK
  <2>5. worker[v].slot = Do(s) /\ worker[w].slot = Do(s)
    <3>1. ~Undoing(v) /\ ~Undoing(w)
      BY <1>0, <1>2, <2>4 DEF TInv, MemoryOK, Fits, Forward, Deferring
    <3> QED
      BY <1>0, <1>2, <2>1, <2>3, <2>4, <3>1, WorkerBacked DEF StepOf, Deferring
  <2>6. v \in Closing(Do(s))
    BY <2>4, <2>5 DEF Closing
  <2> QED
    BY <1>2, <2>1, <2>4, <2>5, <2>6, BusyAlone DEF Deferring
<1> QED
  BY <1>0, <1>1, <1>2, DeferSteps

LEMMA GrantedIsAskedNext ==
    ASSUME RInv, CInv, GrantedIsAsked, [Next]_vars
    PROVE  GrantedIsAsked'
<1> SUFFICES ASSUME NEW s \in Step, ctx'.steps[s].approved
             PROVE  ctx'.steps[s].approvalRequested
  BY DEF GrantedIsAsked
<1>0. TInv /\ Backed
  BY DEF RInv, DInv
<1>1. CASE ctx.steps[s].approved
  BY <1>1, AskedBy DEF GrantedIsAsked
<1>2. CASE ~ctx.steps[s].approved
  <2>1. ~Quiet /\ ~StartRun
    BY <1>0, <1>2, StartMarks DEF Quiet, runVars
  <2>2. PICK type, r, c : Writes(type, r, c) /\ AppendedBy(type, r)
    BY <1>0, <2>1, EveryStep
  <2>3. r = s /\ type = "APPROVAL_GRANTED"
    BY <1>0, <1>2, <2>2, WritesMarks
  <2>4. PICK a \in Actor : ResolveApproval(a) /\ request[a].step = s
    BY <2>2, <2>3 DEF AppendedBy
  <2>5. ctx.steps[s].approvalRequested
    BY <2>4 DEF ResolveApproval, CInv, Asking
  <2> QED
    BY <2>5, AskedBy
<1> QED
  BY <1>1, <1>2

------------------------------------------------------------------------------
(* What is under way is under way.                                         *)

\* How the charge of a slot ends.
Ending(w) == Park(w) \/ RecordRetry(w) \/ RecordOutcome(w) \/ RecordUndo(w)

LEMMA Loses ==
    ASSUME RInv, "late crash" \notin Faults, [Next]_vars,
           NEW slot, ~Free(slot), Free(slot)'
    PROVE  \/ \E w \in Closing(slot) : Ending(w)
           \/ \E t \in Rows(slot) : ReapPoisoned(t)
<1>0. TInv /\ task \in [Pk -> Queue!Row \cup {NoRow}]
  BY DEF RInv, TInv, QueueOK, Queue!TypeOK
<1>1. ASSUME NEW w \in Closing(slot) PROVE Ending(w)
  <2>1. w \in Worker /\ worker[w].slot = slot /\ worker[w].pc \in Recording /\ hand[w] = NoTask
    BY <1>0 DEF Closing, Recording, TInv, MemoryOK, Fits
  <2>2. ~(worker'[w].slot = slot /\ worker'[w].pc \in Recording)
    BY <2>1 DEF Free, Closing, Recording
  <2>3. ~Claim(w) /\ ~Finish(w) /\ ~Return(w) /\ ~Abandon(w)
    BY <2>1 DEF Recording, Claim, Finish, Return, Abandon, At
  <2>4. ~Crash(w)
    BY <2>1 DEF Crash, Queue!Crash
  <2> QED
    BY <1>0, <2>1, <2>2, <2>3, <2>4, HandSteps DEF LetsGo, Ending
<1>2. ASSUME NEW t \in LiveRows(slot) PROVE ReapPoisoned(t)
  <2>1. t \in Pk /\ SlotOf[t] = slot /\ Queue!Present(t) /\ task[t].status # "DONE"
    BY DEF LiveRows, Rows, Live, Queue!Done
  <2>2. Queue!Present(t)' /\ task'[t].status = "DONE"
    <3>1. Queue!Present(t)'
      BY <1>0, <2>1, NextOK DEF AsQueue, RowsStay
    <3> QED
      BY <2>1, <3>1 DEF Free, LiveRows, Rows, Live, Queue!Done
  <2>3. ~Inserts
    BY <1>0, <2>1, <2>2, InsertedLeaves
  <2>4. task' # task
    BY <2>1, <2>2
  <2>5. ASSUME NEW u \in Pk, NEW row, task' = [task EXCEPT ![u] = row], row.status # "DONE"
        PROVE  FALSE
    BY <1>0, <2>1, <2>2, <2>5
  <2>6. ASSUME NEW w \in Worker, Handles(w) PROVE FALSE
    <3>1. CASE Claim(w)
      <4>1. PICK u \in Pk : Queue!ClaimTask(w, u)
        BY <3>1 DEF Claim
      <4>2. Queue!Claimed(task[u], w).status = "LEASED"
        BY <1>0, <4>1 DEF Queue!ClaimTask, Queue!Present, Queue!Claimed, Queue!Row
      <4> QED
        BY <2>5, <4>1, <4>2 DEF Queue!ClaimTask
    <3>2. CASE Queue!RenewLease(w)
      <4>1. hand[w] \in Pk /\ Queue!OwnedBy(task[hand[w]], w)
        BY <1>0, <2>4, <3>2 DEF Queue!RenewLease, TInv, QueueOK, Queue!TypeOK
      <4>2. Queue!Renewed(task[hand[w]]).status = "LEASED"
        BY <1>0, <3>2, <4>1 DEF Queue!RenewLease, Queue!OwnedBy, Queue!Renewed, Queue!Row, TInv,
                            QueueOK, HandsHold, Queue!Present
      <4>3. task' = [task EXCEPT ![hand[w]] = Queue!Renewed(task[hand[w]])]
        BY <3>2, <4>1 DEF Queue!RenewLease
      <4> HIDE DEF Queue!Renewed
      <4> QED
        BY <2>5, <4>1, <4>2, <4>3
    <3>3. CASE Finish(w)
      <4>1. /\ hand[w] \in Pk /\ hand[w] # NoTask
            /\ task' = [task EXCEPT ![hand[w]] = Queue!Finished(task[hand[w]])]
        BY <1>0, <3>3 DEF Finish, Queue!FinishTaskIfOwned, TInv, QueueOK, Queue!TypeOK
      <4>2. hand[w] = t
        BY <1>0, <2>1, <2>2, <4>1
      <4>3. worker[w].slot = slot
        BY <1>0, <2>1, <4>1, <4>2 DEF TInv, MemoryOK, Fits
      <4>4. worker'[w].slot = slot /\ worker'[w].pc \in Recording
        BY <1>0, <3>3, <4>3 DEF Finish, GoTo, TInv, MemoryOK, Memory, Recording
      <4> QED
        BY <4>4 DEF Free, Closing, Recording
    <3>4. CASE Queue!Abandon(w) \/ Queue!Crash(w)
      BY <2>4, <3>4 DEF Queue!Abandon, Queue!Crash
    <3> QED
      BY <2>6, <3>1, <3>2, <3>3, <3>4 DEF Handles
  <2>7. ASSUME NEW u \in Pk, RowStep(u) PROVE ReapPoisoned(t)
    <3>1. CASE TimerDue(u)
      <4>1. /\ task[u] \in Queue!Row
            /\ task' = [task EXCEPT ![u] = [task[u] EXCEPT !.due = TRUE]]
        BY <1>0, <3>1 DEF TimerDue, Queue!TimerDue, Queue!Present
      <4>2. [task[u] EXCEPT !.due = TRUE].status = task[u].status
        BY <4>1 DEF Queue!Row
      <4> QED
        BY <1>0, <2>1, <2>2, <4>1, <4>2
    <3>2. CASE LeaseLapses(u)
      <4>1. /\ task[u] \in Queue!Row
            /\ task' = [task EXCEPT ![u] = [task[u] EXCEPT !.fresh = FALSE]]
        BY <1>0, <3>2 DEF LeaseLapses, Queue!LeaseLapses, Queue!Present
      <4>2. [task[u] EXCEPT !.fresh = FALSE].status = task[u].status
        BY <4>1 DEF Queue!Row
      <4> QED
        BY <1>0, <2>1, <2>2, <4>1, <4>2
    <3>3. CASE Reap(u)
      <4>1. task' = [task EXCEPT ![u] = Queue!Recovered(task[u])]
        BY <3>3 DEF Reap, Queue!Reap
      <4>2. Queue!Recovered(task[u]).status = "READY"
        BY DEF Queue!Recovered, Queue!ReadyRow
      <4> QED
        BY <2>5, <4>1, <4>2
    <3>4. CASE ReapPoisoned(u)
      <4>1. \E row : task' = [task EXCEPT ![u] = row]
        BY <3>4 DEF ReapPoisoned, Queue!ReapPoisoned
      <4> QED
        BY <1>0, <2>1, <2>2, <3>4, <4>1
    <3> QED
      BY <2>7, <3>1, <3>2, <3>3, <3>4 DEF RowStep
  <2> QED
    BY <1>0, <2>3, <2>4, <2>6, <2>7, StepKinds DEF queueVars
<1> QED
  BY <1>1, <1>2 DEF Free, LiveRows

\* A worker that leaves its step to another row leaves a row.
LEMMA PostponedTended ==
    ASSUME RInv, [Next]_vars, NEW slot, Latest(slot),
           NEW w \in Closing(slot), (Park(w) /\ Timed(StepOf(w))) \/ RecordRetry(w)
    PROVE  ~Free(slot)'
<1>0. TInv /\ Backed /\ w \in Worker /\ worker[w].slot = slot /\ worker[w].pc \in Recording
  BY DEF RInv, DInv, Closing, Recording
<1>1. PICK next \in Nat \ {0} : next = worker[w].attempt + 1 /\ worker[w].attempt \in Nat
  BY <1>0 DEF TInv, MemoryOK, Memory
<1> DEFINE want == Order(slot, next, FALSE)
<1>8. slot \in Slot
  BY <1>0, WorkerBacked DEF Recording
<1>2. Enqueue(want)
  <2>1. CASE Park(w)
    <3>1. ~Undoing(w)
      BY <1>0, <2>1 DEF Park, At, TInv, MemoryOK, Fits, Forward
    <3>2. slot = Do(StepOf(w))
      BY <1>0, <3>1, WorkerBacked DEF Recording, StepOf
    <3>3. Timed(StepOf(w))
      BY <1>0, <2>1 DEF Park, RecordRetry, At
    <3> QED
      BY <1>0, <1>1, <2>1, <3>2, <3>3 DEF Park
  <2>2. CASE RecordRetry(w)
    BY <1>0, <1>1, <2>2 DEF RecordRetry, NextTry
  <2> QED
    BY <2>1, <2>2
<1>3. /\ Orders(want) /\ DOMAIN want = {slot}
      /\ want[slot].attempt = next
  BY <1>1, <1>8, OrdersOfOne DEF Order, Wanted
<1>5. ~Queue!KeyTaken(slot, next)
  <2> SUFFICES ASSUME NEW t \in Rows(slot), task[t].attempt = next
               PROVE  FALSE
    BY DEF Queue!KeyTaken, Rows
  <2>1. task[t].attempt <= worker[w].attempt
    BY DEF Latest
  <2> QED
    BY <1>1, <2>1
<1> HIDE DEF want
<1>6. Inserts
  BY <1>2, <1>3 DEF Inserts
<1>7. Queue!KeyTaken(slot, next)'
  <2>1. Queue!KeyTaken(slot, want[slot].attempt)'
    BY <1>0, <1>2, <1>3, <1>8, LiveInserted DEF TInv, QueueOK
  <2> QED
    BY <1>3, <2>1
<1> QED
  BY <1>0, <1>5, <1>6, <1>7, KeyFills

UnderWay == {"SCHEDULED", "RUNNING", "RETRY_SCHEDULED", "WAITING"}

\* A step that waits for a person.
Parked(s) ==
    /\ StepType[s] = "approval"
    /\ ctx.steps[s].status = "WAITING" /\ ~ctx.steps[s].approved

\* Somebody has the step to do, or it waits for a person.
Tended(s) ==
    Rowless(Undo(s)) /\ ctx.steps[s].status \in UnderWay => ~Free(Do(s)) \/ Parked(s)

\* An outcome that is recorded is the last word of its step.
LEMMA OutcomeSettles ==
    ASSUME TInv, NEW s \in Step, NEW type \in {"STEP_SUCCEEDED", "STEP_FAILED", "APPROVAL_DENIED"},
           NEW log \in Context, log.steps = ApplyEvent(ctx, Event(type, s)).steps,
           NEW also, Orders(also), AdvanceRun(log, also)
    PROVE  ctx'.steps[s].status \in {"SUCCEEDED", "FAILED"}
<1>1. log.steps[s] = ApplyToSlot(ctx.steps[s], type) /\ ctx.steps[s] \in StepSlot
  <2>1. type \in StepEvent /\ ctx \in Context
    BY DEF StepEvent, TInv
  <2>2. ctx.steps[s] \in StepSlot
    BY <2>1 DEF Context
  <2> QED
    BY <2>1, <2>2, AfterStepEvent
<1>2. log.steps[s].status \in {"SUCCEEDED", "FAILED"}
  BY <1>1 DEF ApplyToSlot, StepStatusAfter, StepSlot
<1>3. s \notin ReadySteps(log)
  BY <1>2 DEF ReadySteps, StepsWithStatus
<1> QED
  BY <1>2, <1>3, Advanced DEF TInv, QueueOK

\* The decision on a step that is parked settles it, or sends it back to the queue.
LEMMA DecisionTends ==
    ASSUME RInv, [Next]_vars, NEW a \in Actor, ResolveApproval(a),
           NEW s \in Step, request[a].step = s
    PROVE  ctx'.steps[s].status \in {"SUCCEEDED", "FAILED"} \/ ~Free(Do(s))'
<1>0. TInv
  BY DEF RInv
<1> DEFINE granted == ApplyEvent(ctx, Event("APPROVAL_GRANTED", s))
           denied == ApplyEvent(ctx, Event("APPROVAL_DENIED", s))
<1>1. /\ granted \in Context /\ denied \in Context
      /\ Unwind(denied, s) \in Context /\ Unwind(denied, s).steps = denied.steps
  <2>1. granted \in Context /\ denied \in Context
    BY <1>0, AfterStepEvent DEF TInv, StepEvent
  <2> QED
    BY <2>1, Unwound
<1>2. CASE ~request[a].approve
  <2>1. AdvanceRun(Unwind(denied, s), <<>>)
    BY <1>2 DEF ResolveApproval
  <2>2. Unwind(denied, s).steps = ApplyEvent(ctx, Event("APPROVAL_DENIED", s)).steps
    BY <1>1
  <2> HIDE DEF denied
  <2> QED
    BY <1>0, <1>1, <2>1, <2>2, OutcomeSettles, OrdersOfNone
<1>3. CASE request[a].approve
  <2>1. PICK next \in Nat \ {0} : next = NextAttempt(Do(s))
    BY <1>0, NextAttemptTyped DEF TInv, QueueOK
  <2> DEFINE also == Order(Do(s), next, TRUE)
             all == [x \in DOMAIN also \cup NextWork(granted) |->
                         IF x \in DOMAIN also THEN also[x] ELSE Wanted(1, TRUE)]
  <2>2. Do(s) \in Slot
    BY SlotOfTyped
  <2>3. Orders(also) /\ DOMAIN also = {Do(s)} /\ also[Do(s)].attempt = next
    BY <2>1, <2>2, OrdersOfOne DEF Order, Wanted
  <2>4. ~Queue!KeyTaken(Do(s), next) /\ AdvanceRun(granted, also)
    BY <1>3, <2>1 DEF ResolveApproval
  <2> HIDE DEF also, granted
  <2>5. Enqueue(all)
    BY <2>4 DEF AdvanceRun
  <2>6. Orders(all)
    <3>1. NextWork(granted) \subseteq Slot
      BY <1>1, NextWorkTyped
    <3>2. Wanted(1, TRUE) \in [attempt : Nat \ {0}, due : BOOLEAN]
      BY DEF Wanted
    <3> QED
      BY <2>3, <3>1, <3>2 DEF Orders
  <2>7. Do(s) \in DOMAIN all /\ all[Do(s)].attempt = next
    BY <2>3
  <2> HIDE DEF all
  <2>8. PICK want : /\ Enqueue(want) /\ Orders(want)
                     /\ Do(s) \in DOMAIN want /\ want[Do(s)].attempt = next
    BY <2>5, <2>6, <2>7
  <2>9. Queue!KeyTaken(Do(s), want[Do(s)].attempt)'
    BY <1>0, <2>2, <2>8, LiveInserted DEF TInv, QueueOK
  <2>10. Queue!KeyTaken(Do(s), next)'
    BY <2>8, <2>9
  <2>11. Inserts
    BY <2>8 DEF Inserts
  <2> QED
    BY <1>0, <2>4, <2>10, <2>11, KeyFills
<1> QED
  BY <1>2, <1>3

\* A step that is parked without a deadline waits for a person.
LEMMA ParkedWaits ==
    ASSUME RInv, GrantedIsAsked, NEW w \in Worker, Park(w), ~Timed(StepOf(w)),
           NEW s \in Step, StepOf(w) = s, Unasked(s)
    PROVE  Parked(s)'
<1>1. StepType[s] = "approval" /\ ~ctx.steps[s].approved
  BY DEF Unasked, GrantedIsAsked, Park, At, Deferring, Timed
<1>2. ctx' = ApplyEvent(ctx, Event("APPROVAL_REQUESTED", s))
  BY <1>1 DEF Park, Sync, After
<1>3. ctx'.steps[s] = ApplyToSlot(ctx.steps[s], "APPROVAL_REQUESTED") /\ ctx.steps[s] \in StepSlot
  BY <1>2, AfterStepEvent DEF RInv, TInv, StepEvent, Context
<1>4. ctx'.steps[s].status = "WAITING" /\ ~ctx'.steps[s].approved
  BY <1>1, <1>3 DEF ApplyToSlot, StepStatusAfter, StepSlot
<1> QED
  BY <1>1, <1>4 DEF Parked

LEMMA TendedNext ==
    ASSUME RInv, CInv, HInv, Prompt, GrantedIsAsked, [Next]_vars, "late crash" \notin Faults,
           NEW s \in Step, Latest(Do(s)), Unasked(s), Tended(s)
    PROVE  Tended(s)'
<1> SUFFICES ASSUME Rowless(Undo(s))', ctx'.steps[s].status \in UnderWay, Free(Do(s))'
             PROVE  Parked(s)'
  BY DEF Tended
<1>0. TInv /\ Backed /\ Rowless(Undo(s)) /\ Do(s) \in Slot
  BY RowlessBefore, SlotOfTyped DEF RInv, DInv
<1>1. ctx'.steps[s].status \notin {"SUCCEEDED", "FAILED"}
  BY DEF UnderWay
<1>2. ASSUME NEW a \in Actor, ResolveApproval(a) PROVE request[a].step # s
  BY <1>1, <1>2, DecisionTends
<1>3. CASE Free(Do(s))
  <2>1. ctx'.steps[s] # ctx.steps[s] => ctx.steps[s].status = "PENDING"
    BY <1>0, <1>2, <1>3, Undisturbed
  <2>2. ASSUME ctx'.steps[s] # ctx.steps[s] PROVE FALSE
    <3>1. Rowless(Do(s))
      BY <2>1, <2>2 DEF CInv, Fresh
    <3>2. ~HasRow(s)
      BY <1>0, <3>1, StepOfRow DEF HasRow, Rowless, Rows
    <3>3. ~Rowless(Do(s))'
      BY <1>0, <2>2, <3>2, RowlessStays
    <3>4. PICK t \in Pk : SlotOf[t] = Do(s) /\ Queue!Present(t)'
      BY <3>3 DEF Rowless, Rows
    <3>5. ~Queue!Present(t)
      BY <3>1, <3>4 DEF Rowless, Rows
    <3> QED
      BY <1>0, <3>4, <3>5, NewRowsLive DEF Free, LiveRows, Rows
  <2>3. Parked(s)
    BY <1>0, <1>3, <2>2 DEF Tended
  <2> QED
    BY <2>2, <2>3 DEF Parked
<1>4. ASSUME NEW w \in Closing(Do(s)), Ending(w) PROVE Parked(s)'
  <2>1. w \in Worker /\ worker[w].slot = Do(s) /\ StepOf(w) = s /\ ~Undoing(w)
    <3>1. w \in Worker /\ worker[w].slot = Do(s)
      BY DEF Closing
    <3>2. Do(s)[1] = s /\ Do(s)[2] # "COMPENSATE"
      BY DEF Do
    <3> QED
      BY <3>1, <3>2 DEF StepOf, Undoing
  <2>2. CASE Park(w) /\ ~Timed(s)
    BY <2>1, <2>2, ParkedWaits
  <2>3. ~(Park(w) /\ Timed(s)) /\ ~RecordRetry(w)
    BY <1>4, <2>1, PostponedTended
  <2>4. ~RecordOutcome(w)
    <3> SUFFICES ASSUME RecordOutcome(w) PROVE FALSE
      OBVIOUS
    <3>1. \/ AdvanceRun(ApplyEvent(ctx, Event("STEP_SUCCEEDED", s)), <<>>)
          \/ AdvanceRun(Unwind(ApplyEvent(ctx, Event("STEP_FAILED", s)), s), <<>>)
      BY <2>1 DEF RecordOutcome, After
    <3>2. ApplyEvent(ctx, Event("STEP_SUCCEEDED", s)) \in Context
      BY <1>0, AfterStepEvent DEF TInv, StepEvent
    <3>3. ApplyEvent(ctx, Event("STEP_FAILED", s)) \in Context
      BY <1>0, AfterStepEvent DEF TInv, StepEvent
    <3>4. /\ Unwind(ApplyEvent(ctx, Event("STEP_FAILED", s)), s) \in Context
          /\ Unwind(ApplyEvent(ctx, Event("STEP_FAILED", s)), s).steps
               = ApplyEvent(ctx, Event("STEP_FAILED", s)).steps
      BY <3>3, Unwound
    <3> QED
      BY <1>0, <1>1, <3>1, <3>2, <3>4, OrdersOfNone, OutcomeSettles
  <2>5. ~RecordUndo(w)
    BY <2>1 DEF RecordUndo
  <2> QED
    BY <1>4, <2>2, <2>3, <2>4, <2>5 DEF Ending
<1>5. ASSUME NEW t \in Rows(Do(s)), ReapPoisoned(t) PROVE FALSE
  <2>1. t \in Pk /\ SlotOf[t][1] = s
    BY <1>0, <1>5, SlotOfTyped DEF Rows, Do
  <2> DEFINE c == ApplyEvent(ctx, Event("STEP_FAILED", s))
  <2>2. c \in Context /\ c.steps[s] = ApplyToSlot(ctx.steps[s], "STEP_FAILED")
    BY <1>0, AfterStepEvent DEF TInv, StepEvent
  <2>3. ctx' = CloseIfFinished(c, c)
    BY <1>5, <2>1 DEF ReapPoisoned, Sync
  <2>4. ctx.steps[s] \in StepSlot
    BY <1>0 DEF TInv, Context
  <2> HIDE DEF c
  <2>5. ctx'.steps = c.steps
    BY <2>2, <2>3, Closed
  <2>6. c.steps[s].status = "FAILED"
    BY <2>2, <2>4 DEF ApplyToSlot, StepStatusAfter, StepSlot
  <2> QED
    BY <1>1, <2>5, <2>6
<1> QED
  BY <1>3, <1>4, <1>5, Loses

\* A first row of a step is queued while it has none.
LEMMA DoFirst ==
    ASSUME CInv, NEW s \in Step
    PROVE  FirstIsFirst(Do(s))
<1> SUFFICES ASSUME NEW c \in Context, KeepsPending(c), Do(s) \in NextWork(c)
             PROVE  Rowless(Do(s))
  BY DEF FirstIsFirst
<1>1. c.steps[s].status = "PENDING"
  BY NextWorkTyped DEF ReadySteps, StepsWithStatus
<1> QED
  BY <1>1 DEF KeepsPending, CInv, Fresh

NInv ==
    /\ GrantedIsAsked
    /\ \A s \in Step \ Deadline : Decided(s) => Latest(Do(s)) /\ Unasked(s) /\ Tended(s)

LEMMA NNext ==
    ASSUME RInv, CInv, HInv, Prompt, HandedOK, NInv, [Next]_vars, CInv',
           "late crash" \notin Faults
    PROVE  NInv'
<1>1. GrantedIsAsked'
  BY GrantedIsAskedNext DEF NInv
<1>2. ASSUME NEW s \in Step \ Deadline, Decided(s)'
      PROVE  (Latest(Do(s)) /\ Unasked(s) /\ Tended(s))'
  <2>1. Decided(s) /\ Latest(Do(s)) /\ Unasked(s) /\ Tended(s) /\ Do(s) \in Slot
    BY <1>2, DecidedBefore, SlotOfTyped DEF RInv, NInv
  <2>2. InOneHand(Do(s)) /\ InOneHand(Do(s))'
    BY <1>2, <2>1 DEF CInv, StepHeld
  <2>3. Latest(Do(s))'
    BY <2>1, <2>2, DoFirst, LatestNext
  <2>4. Unasked(s)'
    BY <2>1, <2>2, UnaskedNext
  <2> QED
    BY <2>1, <2>3, <2>4, TendedNext DEF NInv
<1> QED
  BY <1>1, <1>2 DEF NInv

LEMMA NInit == Init => NInv
<1> SUFFICES ASSUME Init PROVE NInv
  OBVIOUS
<1>1. \A slot : Rowless(slot) /\ Free(slot)
  BY NothingHeldAtFirst
<1>2. \A s \in Step : ~ctx.steps[s].approved /\ ctx.steps[s].status = "PENDING"
  BY DEF Init, NewContext
<1>3. \A w \in Worker : worker[w].pc = "idle"
  BY DEF Init, Idle
<1> QED
  BY <1>1, <1>2, <1>3 DEF NInv, GrantedIsAsked, Latest, Rowless, Free, LiveRows, Unasked, Deferring,
                          Tended, UnderWay

LEMMA TendedIsNotStranded ==
    ASSUME Deadline = {}, RInv, CInv, NInv, OneDecision, \A s \in Step : Rowless(Undo(s))
    PROVE  NotStranded
<1> SUFFICES ASSUME NEW s \in Step, ctx.steps[s].status \in UnderWay, ~Parked(s)
             PROVE  Custodians(Do(s)) + Custodians(Undo(s)) > 0
  BY DEF NotStranded, UnderWay, Parked
<1>1. Decided(s)
  BY DEF OneDecision, Decided, DecidedOnce
<1>2. InOneHand(Do(s)) /\ ~Free(Do(s))
  BY <1>1 DEF CInv, StepHeld, NInv, Tended
<1>3. Free(Undo(s)) /\ InOneHand(Undo(s))
  BY RowlessIsFree DEF Free, InOneHand
<1>4. Custodians(Do(s)) = 1
  BY <1>2, HeldCounts
<1>5. Custodians(Undo(s)) = 0
  BY <1>3, HeldCounts
<1> QED
  BY <1>4, <1>5

\* What the log shows as under way is under way: no workflow without deadlines is left
\* with a step nobody has to do, whichever workers die with a row in hand, as long as
\* they do not die between finishing the row and recording the outcome, nobody stalls,
\* the reaper is in time, no step is decided on twice, and nothing is being undone.
\* (MCLateCrash shows what a later death does; the retry of an undo changes the status
\* of its step.)
THEOREM NothingIsStranded ==
    ASSUME Faults \cap {"late crash", "stall", "slow reaper"} = {}, Deadline = {}
    PROVE  Spec /\ []OneDecision => []((\A s \in Step : Rowless(Undo(s))) => NotStranded)
<1>1. Init => HInv /\ Prompt
  BY HInit, InitOK DEF Init, Prompt
<1>2. ASSUME RInv, CInv, HInv, Prompt, HandedOK, NInv, CInv', [Next]_vars
      PROVE  (HInv /\ Prompt /\ NInv)'
  <2>1. TInv /\ "stall" \notin Faults /\ "slow reaper" \notin Faults /\ "late crash" \notin Faults
    BY <1>2 DEF RInv
  <2> QED
    BY <1>2, <2>1, HNext, PromptNext, NNext
<1>3. RInv /\ CInv /\ NInv /\ OneDecision /\ (\A s \in Step : Rowless(Undo(s))) => NotStranded
  BY TendedIsNotStranded
<1> QED
  BY <1>1, <1>2, <1>3, RunInvariant, CInit, CNext, UInit, UNext, NInit, PTL DEF Spec, UInv

------------------------------------------------------------------------------
(* Workflows.                                                              *)

\* A set of steps that contains what its members need.
Leads(S) == \A s \in S : Needs[s] \subseteq S

\* y needs x, directly or through others.
Comes(x, y) == \A S \in SUBSET Step : Leads(S) /\ Needs[y] \subseteq S => x \in S

\* No step can be at work while x is.
Alone(x) == \A y \in Step \ {x} : Comes(x, y) \/ Comes(y, x)

\* Steps whose plugin never raises, if their configuration renders.
CannotFail(x) ==
    \/ StepType[x] = "work" /\ Outcomes[Do(x)] = {TRUE}
    \/ StepType[x] = "wait"

\* Every step that may turn the run back does so alone.
TurnsAlone ==
    \A x \in Step :
        OnError[x] = "compensate" => x \notin BadConfig /\ (Alone(x) \/ CannotFail(x))

\* A step that may turn the run back.
Turner(x) == OnError[x] = "compensate" /\ ~CannotFail(x)

------------------------------------------------------------------------------
(* What workers know.                                                      *)

\* Where a worker has found the configuration in order.
Configured == {"deferring", "parking", "firing", "starting", "executing", "executed",
               "recording"}

\* Where it has found that nobody has to be asked.
Unparked == {"firing", "starting", "executing", "executed", "recording"}

\* What a worker that is at work on a step has found out about it.
Knows(w) ==
    worker[w].pc # "idle" /\ ~Undoing(w) =>
        /\ worker[w].pc \in {"misconfigured", "returning"} => StepOf(w) \in BadConfig
        /\ worker[w].pc \in Configured => StepOf(w) \notin BadConfig
        /\ worker[w].pc \in Unparked /\ StepType[StepOf(w)] = "approval" =>
             ctx.steps[StepOf(w)].approvalRequested
        /\ worker[w].pc \in {"executed", "recording"} /\ ~worker[w].ok =>
             ~CannotFail(StepOf(w))

KInv == \A w \in Worker : Knows(w)

LEMMA KnowsNext ==
    ASSUME RInv, KInv, [Next]_vars, NEW w \in Worker
    PROVE  Knows(w)'
<1> SUFFICES ASSUME worker'[w].pc # "idle", ~Undoing(w)'
             PROVE  Knows(w)'
  BY DEF Knows
<1>0. TInv /\ TInv' /\ Knows(w)
  BY NextOK DEF RInv, KInv
<1>1. CASE worker'[w] = worker[w]
  <2>1. StepOf(w)' = StepOf(w) /\ (Undoing(w)' <=> Undoing(w))
    BY <1>1 DEF StepOf, Undoing
  <2>2. worker[w].pc # "idle" /\ StepOf(w) \in Step
    BY <1>0, <1>1, AfterTyped DEF StepEvent
  <2>3. ctx.steps[StepOf(w)].approvalRequested => ctx'.steps[StepOf(w)].approvalRequested
    BY <2>2, AskedBy
  <2> QED
    BY <1>0, <1>1, <2>1, <2>3 DEF Knows, CannotFail
<1>2. CASE worker'[w].pc = "claimed" /\ Claim(w)
  BY <1>2 DEF Knows, Configured, Unparked
<1>3. CASE Proceeds(w)
  <2>1. /\ StepOf(w)' = StepOf(w) /\ ~Undoing(w)
        /\ worker[w].pc # "idle" /\ StepOf(w) \in Step /\ worker[w].slot = Do(StepOf(w))
    <3>1. StepOf(w)' = StepOf(w) /\ ~Undoing(w) /\ worker[w].pc # "idle"
      BY <1>3 DEF StepOf, Undoing, Proceeds, LoadContext, At
    <3> QED
      BY <3>1, WorkerBacked DEF RInv, DInv
  <2>2. ctx.steps[StepOf(w)].approvalRequested => ctx'.steps[StepOf(w)].approvalRequested
    BY <2>1, AskedBy
  <2>3. CASE LoadContext(w) /\ worker'[w].pc = Route(worker[w].slot)
    <3>1. worker[w].slot[1] = StepOf(w) /\ worker[w].slot[2] # "COMPENSATE"
      BY <2>1 DEF StepOf, Undoing
    <3>2. \/ worker'[w].pc = "misconfigured" /\ StepOf(w) \in BadConfig
          \/ worker'[w].pc = "deferring" /\ StepOf(w) \notin BadConfig
          \/ /\ worker'[w].pc \in {"firing", "starting"} /\ StepOf(w) \notin BadConfig
             /\ ~DefersApproval(StepOf(w))
      BY <2>3, <3>1 DEF Route
    <3> QED
      BY <2>1, <2>2, <3>2 DEF Knows, Configured, Unparked, DefersApproval
  <2>4. CASE /\ worker[w].pc = "executing" /\ worker'[w].pc = "executed"
             /\ worker'[w].ok \in Answers(w)
    <3>1. ~worker'[w].ok => ~CannotFail(StepOf(w))
      <4>1. ASSUME CannotFail(StepOf(w)) PROVE Answers(w) = {TRUE}
        BY <2>1, <4>1 DEF Answers, CannotFail
      <4>2. CannotFail(StepOf(w)) => worker'[w].ok = TRUE
        BY <2>4, <4>1
      <4> QED
        BY <4>2
    <3> QED
      BY <1>0, <2>1, <2>2, <2>4, <3>1 DEF Knows, Configured, Unparked, CannotFail
  <2>5. CASE ~(worker[w].pc \in {"claimed", "executing"})
    BY <1>0, <1>3, <2>1, <2>2, <2>5
       DEF Proceeds, LoadContext, At, Knows, Configured, Unparked, CannotFail
  <2> QED
    BY <1>3, <2>3, <2>4, <2>5 DEF Proceeds
<1> QED
  BY <1>0, <1>1, <1>2, <1>3, PcSteps


LEMMA ConfiguredInit == Init => KInv
BY DEF Init, Idle, KInv, Knows

------------------------------------------------------------------------------
(* Steps that are over.                                                    *)

\* What is known of every run.
BInv == RInv /\ CInv /\ GInv /\ PInv /\ UndoneAfterTurn /\ Queued /\ KInv

LEMMA BNext == BInv /\ [Next]_vars => BInv'
<1> SUFFICES ASSUME BInv, [Next]_vars PROVE BInv'
  OBVIOUS
<1>1. RInv'
  BY NextOK, DNext DEF BInv, RInv
<1>2. CInv' /\ GInv' /\ PInv' /\ UndoneAfterTurn' /\ Queued'
  BY CNext, GNext, PNext, UndoNext, QueuedNext DEF BInv
<1>3. KInv'
  BY KnowsNext DEF BInv, KInv
<1> QED
  BY <1>1, <1>2, <1>3 DEF BInv

LEMMA BInit == Init => BInv
<1> SUFFICES ASSUME Init PROVE BInv
  OBVIOUS
<1>1. RInv
  BY InitOK, DInit DEF RInv
<1>2. UndoneAfterTurn /\ Queued
  BY DEF Init, NewContext, UndoneAfterTurn, Queued, Rowless, Rows, Queue!Init, Queue!Present,
         Settled, Succeeded, Range
<1> QED
  BY <1>1, <1>2, CInit, GInit, PInit, ConfiguredInit DEF BInv

\* Nobody will do anything about the step any more: nobody is in charge of it, no
\* decision is awaited, and no worker has a faulty configuration to report.
Over(s) ==
    /\ Free(Do(s))
    /\ StepType[s] = "approval" /\ ctx.steps[s].approvalRequested => Answered(s)
    /\ s \in BadConfig => Rowless(Do(s))

\* Nothing new will come to the step either.
Shut(s) == s \in Succeeded \/ ctx.compensating \/ ctx.status \in TerminalRunStates

LEMMA AnswerStays ==
    ASSUME TInv, [Next]_vars, NEW s \in Step, Answered(s)
    PROVE  Answered(s)'
BY GrantedStays DEF Answered

RowlessAreOver == \A s \in Step : Rowless(Do(s)) => Over(s)

LEMMA RowlessOver == RInv => RowlessAreOver
<1> SUFFICES ASSUME RInv, NEW s \in Step, Rowless(Do(s)) PROVE Over(s)
  BY DEF RowlessAreOver
<1>1. ~ctx.steps[s].approvalRequested
  BY DEF RInv, DInv, Backed
<1> QED
  BY <1>1, RowlessIsFree DEF Over

\* A step that is shut is not opened.
LEMMA ShutUp ==
    ASSUME BInv, BInv', [Next]_vars, NEW s \in Step, Shut(s)
    PROVE  ~Opens(Do(s))
<1> SUFFICES ASSUME ctx.steps[s].status = "PENDING", ctx'.steps[s].status # "PENDING"
             PROVE  FALSE
  BY DoIsOne DEF Opens
<1>1. Rowless(Do(s))
  BY DEF BInv, CInv, Fresh
<1>2. ~Rowless(Do(s))'
  BY DEF BInv, Queued
<1>3. s \notin Succeeded
  BY <1>1 DEF BInv, Queued
<1>4. NothingNew
  BY NothingNewNext DEF BInv
<1> QED
  BY <1>1, <1>2, <1>3, <1>4 DEF Shut, NothingNew

\* Nobody approves, or denies, a step that is over.
LEMMA OverUndecided ==
    ASSUME BInv, [Next]_vars, NEW s \in Step, Decided(s)', Over(s),
           NEW a \in Actor, ResolveApproval(a)
    PROVE  request[a].step # s
<1> SUFFICES ASSUME request[a].step = s PROVE FALSE
  OBVIOUS
<1>1. StepType[s] = "approval" /\ ctx.steps[s].approvalRequested
  BY DEF ResolveApproval, BInv, CInv, Asking
<1>2. Answered(s)
  BY <1>1 DEF Over
<1> QED
  BY <1>2, NoLateDecision DEF BInv

\* What is over stays so.
LEMMA OverStays ==
    ASSUME BInv, BInv', [Next]_vars, NEW s \in Step, Decided(s)', Over(s), Shut(s)
    PROVE  Over(s)'
<1>0. RInv /\ TInv /\ Do(s) \in Slot
  BY SlotOfTyped DEF BInv, RInv
<1>1. ~Opens(Do(s))
  BY ShutUp
<1>2. ASSUME NEW a \in Actor, Approves(a, Do(s)) PROVE FALSE
  <2>1. ResolveApproval(a) /\ Do(s) = Do(request[a].step) /\ request[a].step \in Step
    BY <1>0, <1>2 DEF Approves, ResolveApproval, TInv, RequestsOK
  <2>2. request[a].step = s
    BY <2>1, DoIsOne
  <2> QED
    BY <2>1, <2>2, OverUndecided
<1>3. HandsOn(Do(s))
  BY <1>0, <1>1, <1>2, EveryStepHands
<1>4. Free(Do(s))'
  BY <1>3, FreeHandedOn DEF Over
<1>5. ASSUME StepType[s] = "approval", ctx'.steps[s].approvalRequested
      PROVE  Answered(s)'
  <2>1. ASSUME NEW w \in Worker, Park(w), StepOf(w) = s PROVE FALSE
    <3>1. worker[w].pc = "parking" /\ worker[w].pc # "idle" /\ ~Undoing(w)
      BY <1>0, <2>1 DEF Park, At, TInv, MemoryOK, Fits, Forward
    <3>2. worker[w].slot = Do(s)
      BY <1>0, <2>1, <3>1, WorkerBacked DEF RInv, DInv
    <3> QED
      BY <3>1, <3>2 DEF Over, Free, Closing
  <2>2. ctx.steps[s].approvalRequested
    BY <1>0, <1>5, <2>1, AskedBy
  <2> QED
    BY <1>0, <1>5, <2>2, AnswerStays DEF Over
<1>6. ASSUME s \in BadConfig PROVE Rowless(Do(s))'
  <2>1. Rowless(Do(s))
    BY <1>6 DEF Over
  <2>2. ASSUME NEW t \in Rows(Do(s))' PROVE FALSE
    <3>1. t \in Pk /\ Queue!Present(t)' /\ SlotOf[t] = Do(s)
      BY <2>2 DEF Rows
    <3>2. ~Queue!Present(t)
      BY <2>1, <3>1 DEF Rowless, Rows
    <3>3. Live(t)'
      BY <1>0, <3>1, <3>2, NewRowsLive
    <3> QED
      BY <1>4, <2>2, <3>3 DEF Free, LiveRows
  <2> QED
    BY <2>2 DEF Rowless
<1> QED
  BY <1>4, <1>5, <1>6 DEF Over

------------------------------------------------------------------------------
(* Failures.                                                               *)

\* What comes before a step that has a row has succeeded.
Sequenced == \A x, s \in Step : Comes(x, s) /\ HasRow(s) => x \in Succeeded

LEMMA RunSequenced == RInv => Sequenced
<1> SUFFICES ASSUME RInv, NEW x \in Step, NEW s \in Step, Comes(x, s), HasRow(s)
             PROVE  x \in Succeeded
  BY DEF Sequenced
<1>1. Succeeded \in SUBSET Step
  BY RangeOfOrder DEF RInv, TInv, Context, Succeeded
<1>2. Leads(Succeeded)
  BY DEF RInv, DInv, LogOK, Leads, Succeeded
<1>3. Needs[s] \subseteq Succeeded
  BY DEF RInv, DInv, RowsCleared, Cleared
<1> QED
  BY <1>1, <1>2, <1>3 DEF Comes

\* The row of a slot that the reaper gives up.
LEMMA PoisonedFree ==
    ASSUME TInv, NEW t \in Pk, ReapPoisoned(t), NEW slot, SlotOf[t] = slot
    PROVE  /\ t \in LiveRows(slot)
           /\ InOneHand(slot) => Free(slot)'
<1>1. /\ Queue!Present(t) /\ task[t].status = "LEASED" /\ Queue!RowStep(t)
      /\ task' = [task EXCEPT ![t] = Queue!Finished(@)] /\ UNCHANGED worker
  BY DEF ReapPoisoned, Queue!ReapPoisoned, Queue!Lapsed, Queue!RowStep
<1>2. t \in LiveRows(slot)
  BY <1>1, RowCounts
<1>3. LiveRows(slot)' \subseteq LiveRows(slot)
  BY <1>1, NoLiveInserted DEF TInv
<1>4. t \notin LiveRows(slot)'
  <2>1. task'[t] = Queue!Finished(task[t]) /\ task[t] \in Row
    BY <1>1, QueueRows DEF TInv, QueueOK, Queue!TypeOK
  <2>2. task'[t].status = "DONE"
    BY <2>1 DEF Queue!Finished, Row
  <2> QED
    BY <2>2 DEF LiveRows, Live, Queue!Done
<1> QED
  BY <1>1, <1>2, <1>3, <1>4, ClosingSame DEF InOneHand, Free

\* A worker that says a step has failed.
LEMMA FailingWorker ==
    ASSUME BInv, NEW w \in Worker, RejectConfig(w) \/ RecordOutcome(w)
    PROVE  /\ StepOf(w) \in Step /\ worker[w].slot = Do(StepOf(w))
           /\ ~Rowless(Do(StepOf(w))) /\ HasRow(StepOf(w))
           /\ RejectConfig(w) => StepOf(w) \in BadConfig
           /\ RecordOutcome(w) =>
                /\ StepOf(w) \notin BadConfig
                /\ StepType[StepOf(w)] = "approval" =>
                     ctx.steps[StepOf(w)].approvalRequested
                /\ ~worker[w].ok => ~CannotFail(StepOf(w))
<1>0. TInv /\ Backed /\ Knows(w)
  BY DEF BInv, RInv, DInv, KInv
<1>1. worker[w].pc # "idle" /\ ~Undoing(w)
  BY <1>0 DEF RejectConfig, RecordOutcome, At, TInv, MemoryOK, Fits, Forward
<1>2. /\ RejectConfig(w) => worker[w].pc = "misconfigured"
      /\ RecordOutcome(w) => worker[w].pc = "recording"
  BY DEF RejectConfig, RecordOutcome, At
<1>3. /\ StepOf(w) \in Step /\ worker[w].slot = Do(StepOf(w))
      /\ ~Rowless(Do(StepOf(w))) /\ HasRow(StepOf(w))
  BY <1>0, <1>1, WorkerBacked
<1> QED
  BY <1>0, <1>1, <1>2, <1>3 DEF Knows, Configured, Unparked

\* A step that fails was not over, as long as nothing is being undone.
LEMMA FailsEarly ==
    ASSUME BInv, [Next]_vars, ~ctx.compensating, NEW s \in Step, Decided(s)', Fails(s)
    PROVE  ~Over(s)
<1> SUFFICES ASSUME Over(s) PROVE FALSE
  OBVIOUS
<1>0. TInv
  BY DEF BInv, RInv
<1>1. ASSUME NEW w \in Worker, StepOf(w) = s, RejectConfig(w) PROVE FALSE
  BY <1>1, FailingWorker DEF Over
<1>2. ASSUME NEW w \in Worker, StepOf(w) = s, RecordOutcome(w) PROVE FALSE
  <2>1. worker[w].slot = Do(s)
    BY <1>2, FailingWorker
  <2> QED
    BY <1>2, <2>1 DEF Over, Free, Closing, RecordOutcome, At
<1>3. ASSUME NEW t \in Pk, ReapPoisoned(t), SlotOf[t][1] = s PROVE FALSE
  <2>1. t \in LiveRows(SlotOf[t]) /\ ~Rowless(SlotOf[t])
    BY <1>0, <1>3, PoisonedFree DEF LiveRows, Rowless
  <2>2. Rowless(Undo(s))
    BY DEF BInv, UndoneAfterTurn
  <2> QED
    BY <1>3, <2>1, <2>2, StepOfRow DEF Over, Free
<1> QED
  BY <1>1, <1>2, <1>3, OverUndecided DEF Fails

\* A step that fails is over then, unless its row is left to a recovery.
LEMMA FailsOver ==
    ASSUME BInv, BInv', [Next]_vars, Deadline = {}, ~ctx.compensating,
           NEW s \in Step, Decided(s)', Fails(s), s \notin BadConfig
    PROVE  Over(s)'
<1>0. RInv /\ TInv /\ CInv /\ Do(s) \in Slot
  BY SlotOfTyped DEF BInv, RInv
<1>1. StepHeld(s)
  BY <1>0, DecidedBefore DEF CInv
<1>2. ASSUME StepType[s] = "approval", ctx.steps[s].approvalRequested, ~Free(Do(s))
      PROVE  Answered(s)'
  <2>1. Answered(s)
    BY <1>1, <1>2 DEF StepHeld, Granted, Answered
  <2> QED
    BY <1>0, <2>1, AnswerStays
<1>3. SUFFICES /\ Free(Do(s))'
               /\ StepType[s] = "approval" /\ ctx'.steps[s].approvalRequested => Answered(s)'
  BY DEF Over
<1>4. CASE \E w \in Worker : StepOf(w) = s /\ RejectConfig(w)
  BY <1>4, FailingWorker DEF BInv
<1>5. ASSUME NEW w \in Worker, StepOf(w) = s, RecordOutcome(w)
      PROVE  /\ Free(Do(s))'
             /\ StepType[s] = "approval" /\ ctx'.steps[s].approvalRequested => Answered(s)'
  <2>1. Free(Do(s))' /\ ~Free(Do(s))
    BY <1>0, <1>1, <1>5, OutcomeFrees DEF StepHeld, Free
  <2>2. StepType[s] = "approval" => ctx.steps[s].approvalRequested
    BY <1>5, FailingWorker
  <2> QED
    BY <1>2, <2>1, <2>2
<1>6. ASSUME NEW t \in Pk, ReapPoisoned(t), SlotOf[t][1] = s
      PROVE  /\ Free(Do(s))'
             /\ StepType[s] = "approval" /\ ctx'.steps[s].approvalRequested => Answered(s)'
  <2>1. SlotOf[t] = Do(s)
    <3>1. Rowless(Undo(s))
      BY DEF BInv, UndoneAfterTurn
    <3>2. t \in LiveRows(SlotOf[t])
      BY <1>0, <1>6, PoisonedFree
    <3> QED
      BY <1>6, <3>1, <3>2, StepOfRow DEF Rowless, LiveRows
  <2>2. Free(Do(s))' /\ ~Free(Do(s))
    BY <1>0, <1>1, <1>6, <2>1, PoisonedFree DEF StepHeld, Free
  <2>3. ctx'.steps[s].approvalRequested => ctx.steps[s].approvalRequested
    <3>1. ~\E w \in Worker : Park(w)
      <4>1. UNCHANGED worker
        BY <1>6 DEF ReapPoisoned
      <4>2. ASSUME NEW w \in Worker, Park(w) PROVE worker'[w] # worker[w]
        BY <1>0, <4>2 DEF Park, At, Idle, TInv, MemoryOK
      <4> QED
        BY <4>1, <4>2
    <3> QED
      BY <1>0, <3>1, AskedBy
  <2> QED
    BY <1>2, <2>2, <2>3
<1>7. ASSUME NEW a \in Actor, ResolveApproval(a), ~request[a].approve, request[a].step = s
      PROVE  /\ Free(Do(s))'
             /\ StepType[s] = "approval" /\ ctx'.steps[s].approvalRequested => Answered(s)'
  <2>1. request[a].pc = "checked" /\ request' = [request EXCEPT ![a].pc = "done"]
    BY <1>7 DEF ResolveApproval
  <2>2. request'[a].pc = "done" /\ request'[a].step = s
    BY <1>0, <1>7, <2>1 DEF TInv, RequestsOK, Asked
  <2>3. StepType[s] = "approval" /\ ctx.steps[s].approvalRequested
    BY <1>0, <1>7, <2>1 DEF CInv, Asking
  <2>4. Free(Do(s))
    <3>1. ~Answered(s)
      BY <1>0, <1>7, NoLateDecision
    <3> QED
      BY <1>1, <2>3, <3>1 DEF StepHeld, Granted, Answered
  <2>5. ~Opens(Do(s))
    <3>1. ~Rowless(Do(s))
      BY <1>0, <2>3 DEF RInv, DInv, Backed
    <3> QED
      BY <1>0, <3>1, DoIsOne DEF Opens, CInv, Fresh
  <2>6. ASSUME NEW b \in Actor, Approves(b, Do(s)) PROVE FALSE
    <3>1. /\ request[b].pc = "checked" /\ request' = [request EXCEPT ![b].pc = "done"]
          /\ request[b].approve /\ Do(s) = Do(request[b].step) /\ request[b].step \in Step
      BY <1>0, <2>6 DEF Approves, ResolveApproval, TInv, RequestsOK
    <3>2. b # a
      BY <1>7, <3>1
    <3>3. request'[b].pc = "done" /\ request'[b].pc = request[b].pc
      BY <1>0, <2>1, <3>1, <3>2 DEF TInv, RequestsOK, Asked
    <3> QED
      BY <3>1, <3>3
  <2>7. HandsOn(Do(s))
    BY <1>0, <2>5, <2>6, EveryStepHands
  <2> QED
    BY <2>2, <2>4, <2>7, FreeHandedOn DEF Answered
<1> QED
  BY <1>3, <1>4, <1>5, <1>6, <1>7 DEF Fails

\* What has succeeded is over; so is everything once the run turns back, and what could
\* still turn it back once it has ended.
SuccessOver == \A s \in Succeeded : Over(s)
UnwindOver == ctx.compensating => \A s \in Step : Over(s)
EndOver == ctx.status \in TerminalRunStates => \A x \in Step : Turner(x) => Over(x)
OInv == SuccessOver /\ UnwindOver /\ EndOver

\* No step is decided on twice, as this step of the run leaves it.
DecidedWell == \A s \in Step : Decided(s)

LEMMA SuccessOverNext ==
    ASSUME BInv, BInv', [Next]_vars, Deadline = {}, DecidedWell', SuccessOver
    PROVE  SuccessOver'
<1>0. RInv /\ TInv /\ Backed /\ CInv
  BY DEF BInv, RInv, DInv
<1> SUFFICES ASSUME NEW s \in Succeeded' PROVE Over(s)'
  BY DEF SuccessOver
<1>1. s \in Step /\ Decided(s)'
  <2>1. ctx' \in Context
    BY DEF BInv, RInv, TInv
  <2>2. ctx'.order \in Seq(Step)
    BY <2>1 DEF Context
  <2>3. Range(ctx'.order) \subseteq Step
    BY <2>2, RangeOfOrder
  <2> QED
    BY <2>3 DEF Succeeded, DecidedWell
<1>2. CASE s \in Succeeded
  BY <1>1, <1>2, OverStays DEF SuccessOver, Shut
<1>3. CASE s \notin Succeeded
  <2>1. ~Quiet
    BY <1>3 DEF Quiet, runVars, Succeeded
  <2>2. ~StartRun
    BY <1>0, <1>3, StartMarks
  <2>3. PICK w \in Worker : RecordOutcome(w) /\ StepOf(w) = s
    BY <1>0, <1>3, <2>1, <2>2, EveryWriter, WritesMarks DEF WrittenBy
  <2>4. StepHeld(s)
    BY <1>0, <1>1, DecidedBefore DEF CInv
  <2>5. Free(Do(s))' /\ ~Free(Do(s))
    BY <1>0, <1>1, <2>3, <2>4, OutcomeFrees DEF StepHeld, Free
  <2>6. /\ s \notin BadConfig
        /\ StepType[s] = "approval" => ctx.steps[s].approvalRequested
    BY <2>3, FailingWorker
  <2>7. StepType[s] = "approval" => Answered(s)
    BY <2>4, <2>5, <2>6 DEF StepHeld, Granted, Answered
  <2>8. StepType[s] = "approval" => Answered(s)'
    BY <1>0, <1>1, <2>7, AnswerStays
  <2> QED
    BY <2>5, <2>6, <2>8 DEF Over
<1> QED
  BY <1>2, <1>3

\* When a step fails, those that cannot be at work beside it are over.
LEMMA Fallout ==
    ASSUME BInv, BInv', [Next]_vars, DecidedWell', ~ctx.compensating, SuccessOver, SuccessOver',
           NEW s \in Step, Fails(s), HasRow(s), Succeeded' = Succeeded,
           NEW y \in Step, Comes(y, s) \/ Comes(s, y)
    PROVE  Over(y)'
<1>0. RInv /\ RInv'
  BY DEF BInv
<1>1. CASE Comes(y, s)
  BY <1>0, <1>1, RunSequenced DEF Sequenced, SuccessOver
<1>2. CASE Comes(s, y)
  <2>1. s \notin Succeeded
    BY FailsEarly DEF SuccessOver, DecidedWell
  <2>2. RInv' => Sequenced'
    BY RunSequenced, PTL
  <2>3. ~HasRow(y)'
    BY <1>0, <1>2, <2>1, <2>2 DEF Sequenced
  <2>4. Rowless(Do(y))'
    BY <2>3 DEF HasRow, Rowless, Rows, Do
  <2>5. RInv' => RowlessAreOver'
    BY RowlessOver, PTL
  <2> QED
    BY <1>0, <2>4, <2>5 DEF RowlessAreOver
<1> QED
  BY <1>1, <1>2

\* And so is a step that may turn the run back.
LEMMA TurnersOver ==
    ASSUME BInv, BInv', [Next]_vars, Deadline = {}, TurnsAlone, DecidedWell',
           ~ctx.compensating, SuccessOver, SuccessOver',
           NEW s \in Step, Fails(s), HasRow(s), Succeeded' = Succeeded,
           NEW x \in Step, Turner(x)
    PROVE  Over(x)'
<1>1. x \notin BadConfig /\ Alone(x)
  BY DEF TurnsAlone, Turner
<1>2. CASE x = s
  BY <1>1, <1>2, FailsOver DEF DecidedWell
<1>3. CASE x # s
  BY <1>1, <1>3, Fallout DEF Alone
<1> QED
  BY <1>2, <1>3

\* What turns a run back.
TurnedBy(s) ==
    /\ Turner(s) /\ Fails(s) /\ HasRow(s)
    /\ Succeeded' = Succeeded

LEMMA TurnBy ==
    ASSUME BInv, [Next]_vars, TurnsAlone, ~ctx.compensating, ctx'.compensating
    PROVE  \E s \in Step : TurnedBy(s)
<1>0. TInv /\ Backed /\ ctx \in Context
  BY DEF BInv, RInv, DInv, TInv
<1>1. ~Quiet
  BY DEF Quiet, runVars
<1>2. ~StartRun
  <2> SUFFICES ASSUME StartRun PROVE FALSE
    OBVIOUS
  <2> DEFINE c == ApplyEvent(ctx, Event("RUN_STARTED", NoStep))
  <2>1. c \in Context /\ c.compensating = ctx.compensating
    BY <1>0, RunStarted
  <2>2. ctx' = MarkScheduled(c)
    BY DEF StartRun, Sync
  <2> HIDE DEF c
  <2> QED
    BY <2>1, <2>2, Marked
<1>3. PICK type, s, c : Writes(type, s, c) /\ WrittenBy(type, s)
  BY <1>0, <1>1, <1>2, EveryWriter
<1> DEFINE e == ApplyEvent(ctx, Event(type, s))
<1>4. type \in StepEvent /\ s \in Step /\ HasRow(s) /\ ctx'.compensating = c.compensating
  BY <1>3 DEF Writes, Continues
<1>5. e.compensating = ctx.compensating
  BY <1>0, <1>4, AfterStepEvent
<1>6. type \in {"STEP_FAILED", "APPROVAL_DENIED"} /\ c = Unwind(e, s) /\ c # e
  BY <1>3, <1>4, <1>5 DEF Writes
<1> HIDE DEF e
<1>7. OnError[s] = "compensate"
  BY <1>6 DEF Unwind
<1>8. Fails(s)
  BY <1>3, <1>6 DEF WrittenBy
<1>9. Succeeded' = Succeeded
  BY <1>0, <1>3, <1>6, WritesMarks
<1>10. ~CannotFail(s)
  <2>1. s \notin BadConfig
    BY <1>4, <1>7 DEF TurnsAlone
  <2>2. ASSUME NEW t \in Pk, ReapPoisoned(t) PROVE FALSE
    <3> DEFINE d == ApplyEvent(ctx, Event("STEP_FAILED", SlotOf[t][1]))
    <3>1. SlotOf[t][1] \in Step
      BY SlotOfTyped
    <3>2. d \in Context /\ d.compensating = ctx.compensating
      BY <1>0, <3>1, AfterStepEvent DEF StepEvent
    <3>3. ctx' = CloseIfFinished(d, d)
      BY <2>2 DEF ReapPoisoned, Sync
    <3> HIDE DEF d
    <3> QED
      BY <3>2, <3>3, Closed
  <2>3. ASSUME NEW w \in Worker, StepOf(w) = s, RejectConfig(w) PROVE FALSE
    BY <2>1, <2>3, FailingWorker
  <2>4. ASSUME NEW w \in Worker, StepOf(w) = s, RecordOutcome(w), ~worker[w].ok
        PROVE  ~CannotFail(s)
    BY <2>4, FailingWorker
  <2>5. ASSUME NEW a \in Actor, ResolveApproval(a), request[a].step = s PROVE ~CannotFail(s)
    <3>1. StepType[s] = "approval"
      BY <2>5 DEF ResolveApproval, BInv, CInv, Asking
    <3> QED
      BY <3>1 DEF CannotFail
  <2> QED
    BY <1>8, <2>2, <2>3, <2>4, <2>5 DEF Fails
<1> QED
  BY <1>4, <1>7, <1>8, <1>9, <1>10 DEF TurnedBy, Turner

\* What ends a run that does not unwind: the success of its last step, or a failure.
FailedBy(s) == Fails(s) /\ HasRow(s) /\ Succeeded' = Succeeded

LEMMA EndBy ==
    ASSUME BInv, BInv', [Next]_vars, ~ctx'.compensating,
           ctx.status \notin TerminalRunStates, ctx'.status \in TerminalRunStates
    PROVE  (\A s \in Step : s \in Succeeded') \/ \E s \in Step : FailedBy(s)
<1>0. TInv /\ Backed /\ ctx \in Context /\ LogOK(ctx') /\ Undecided(ctx)
  BY DEF BInv, RInv, DInv, TInv, PInv
<1>1. ~Quiet
  BY DEF Quiet, runVars
<1>2. ~StartRun
  <2> SUFFICES ASSUME StartRun PROVE FALSE
    OBVIOUS
  <2> DEFINE c == ApplyEvent(ctx, Event("RUN_STARTED", NoStep))
  <2>1. c \in Context /\ c.status = "RUNNING"
    BY <1>0, RunStarted
  <2>2. ctx' = MarkScheduled(c)
    BY DEF StartRun, Sync
  <2> HIDE DEF c
  <2>3. ctx'.status = "RUNNING"
    BY <2>1, <2>2, Marked
  <2> QED
    BY <2>3 DEF TerminalRunStates
<1>3. PICK type, s, c : Writes(type, s, c) /\ WrittenBy(type, s)
  BY <1>0, <1>1, <1>2, EveryWriter
<1> DEFINE e == ApplyEvent(ctx, Event(type, s))
<1>4. type \in StepEvent /\ s \in Step /\ HasRow(s) /\ ctx'.compensating = c.compensating
  BY <1>3 DEF Writes, Continues
<1>5. /\ e \in Context /\ e.status = ctx.status /\ e.compensating = ctx.compensating
      /\ e.steps[s] = ApplyToSlot(ctx.steps[s], type)
      /\ \A r \in Step \ {s} : e.steps[r] = ctx.steps[r]
  BY <1>0, <1>4, AfterStepEvent
<1>6. c = e
  <2>1. CASE c = Unwind(e, s)
    <3> HIDE DEF e
    <3> QED
      BY <1>4, <1>5, <2>1, Unwound
  <2> QED
    BY <1>3, <2>1 DEF Writes
<1> HIDE DEF e
<1>7. Continues(e, ctx') /\ ctx'.status = NextRunState(e)
  BY <1>3, <1>5, <1>6 DEF Writes, Continues
<1>8. ~e.compensating /\ ~ctx.compensating
  BY <1>4, <1>5, <1>6
<1>9. FailedSteps(ctx) = {}
  BY <1>0, <1>8 DEF Undecided, NextRunState, TerminalRunStates
<1>10. CASE FailedSteps(e) # {}
  <2>1. PICK f \in Step : e.steps[f].status = "FAILED" /\ OnError[f] # "continue"
    BY <1>10 DEF FailedSteps, StepsWithStatus
  <2>2. ctx.steps[f].status # "FAILED"
    BY <1>9, <2>1 DEF FailedSteps, StepsWithStatus
  <2>3. f = s
    BY <1>5, <2>1, <2>2
  <2>4. ctx.steps[s] \in StepSlot
    BY <1>0, <1>4 DEF Context
  <2>5. type \in {"STEP_FAILED", "APPROVAL_DENIED"}
    BY <1>5, <2>1, <2>2, <2>3, <2>4, SlotAfter
  <2>6. Fails(s)
    BY <1>3, <2>5 DEF WrittenBy
  <2>7. Succeeded' = Succeeded
    BY <1>0, <1>3, <2>5, WritesMarks
  <2> QED
    BY <1>4, <2>6, <2>7 DEF FailedBy
<1>11. CASE FailedSteps(e) = {}
  <2>1. IsComplete(e)
    BY <1>5, <1>7, <1>8, <1>11 DEF NextRunState, TerminalRunStates
  <2>2. \A r \in Step : e.steps[r].status = "SUCCEEDED"
    BY <2>1 DEF IsComplete, StepsWithStatus
  <2>3. \A r \in Step : ctx'.steps[r].status = "SUCCEEDED"
    BY <1>7, <2>2 DEF Continues, ReadySteps, StepsWithStatus
  <2> QED
    BY <1>0, <2>3 DEF LogOK, Succeeded
<1> QED
  BY <1>10, <1>11

LEMMA UnwindOverNext ==
    ASSUME BInv, BInv', [Next]_vars, Deadline = {}, TurnsAlone, DecidedWell',
           OInv, SuccessOver'
    PROVE  UnwindOver'
<1> SUFFICES ASSUME ctx'.compensating, NEW y \in Step PROVE Over(y)'
  BY DEF UnwindOver
<1>1. CASE ctx.compensating
  BY <1>1, OverStays DEF OInv, UnwindOver, Shut, DecidedWell
<1>2. CASE ~ctx.compensating
  <2>1. PICK s \in Step : TurnedBy(s)
    BY <1>2, TurnBy
  <2>2. /\ Turner(s) /\ Fails(s) /\ HasRow(s) /\ Succeeded' = Succeeded
        /\ SuccessOver
    BY <2>1 DEF TurnedBy, OInv
  <2>3. CASE y = s
    BY <1>2, <2>2, <2>3, TurnersOver
  <2>4. CASE y # s
    <3>1. Comes(y, s) \/ Comes(s, y)
      BY <2>2, <2>4 DEF Turner, TurnsAlone, Alone
    <3> QED
      BY <1>2, <2>2, <3>1, Fallout
  <2> QED
    BY <2>3, <2>4
<1> QED
  BY <1>1, <1>2

LEMMA EndOverNext ==
    ASSUME BInv, BInv', [Next]_vars, Deadline = {}, TurnsAlone, DecidedWell',
           OInv, SuccessOver', UnwindOver'
    PROVE  EndOver'
<1> SUFFICES ASSUME ctx'.status \in TerminalRunStates, NEW x \in Step, Turner(x)
             PROVE  Over(x)'
  BY DEF EndOver, Turner, CannotFail
<1>1. CASE ctx'.compensating
  BY <1>1 DEF UnwindOver
<1>2. CASE ctx.status \in TerminalRunStates
  BY <1>2, OverStays DEF OInv, EndOver, Shut, DecidedWell
<1>3. CASE ~ctx'.compensating /\ ctx.status \notin TerminalRunStates
  <2>1. CASE \A s \in Step : s \in Succeeded'
    BY <2>1 DEF SuccessOver
  <2>2. CASE \E s \in Step : FailedBy(s)
    <3>1. PICK s \in Step : Fails(s) /\ HasRow(s) /\ Succeeded' = Succeeded
      BY <2>2 DEF FailedBy
    <3>2. ~ctx.compensating
      <4>1. TInv /\ DInv
        BY DEF BInv, RInv
      <4>2. PICK c : GoesOnBy(c)
        BY <4>1, EveryStepGoesOn
      <4> QED
        BY <1>3, <4>2 DEF GoesOnBy, Onward
    <3> QED
      BY <3>1, <3>2, TurnersOver DEF OInv
  <2> QED
    BY <1>3, <2>1, <2>2, EndBy
<1> QED
  BY <1>1, <1>2, <1>3

LEMMA ONext ==
    ASSUME BInv, BInv', [Next]_vars, Deadline = {}, TurnsAlone, DecidedWell', OInv
    PROVE  OInv'
BY SuccessOverNext, UnwindOverNext, EndOverNext DEF OInv

LEMMA OInit == Init => OInv
BY DEF Init, NewContext, OInv, SuccessOver, UnwindOver, EndOver, Succeeded, Range,
       TerminalRunStates

------------------------------------------------------------------------------
(* Undos.                                                                  *)

\* The step whose undo is next.
Current(s) == CompensationOrder(ctx) # <<>> /\ s = Head(CompensationOrder(ctx))

\* What is undone, or cannot be, is not next.
CurrentIsOpen == \A s \in Step : Current(s) => ~Settled(s)

LEMMA CurrentOpen == RInv => CurrentIsOpen
<1> SUFFICES ASSUME RInv, NEW s \in Step, Current(s) PROVE ~Settled(s)
  BY DEF CurrentIsOpen
<1>1. ctx \in Context
  BY DEF RInv, TInv
<1>2. ToRollBack(ctx) # {}
  BY <1>1, CompensationHead DEF Current
<1>3. PICK m \in ToRollBack(ctx) : Head(CompensationOrder(ctx)) = ctx.order[m]
  BY <1>1, <1>2, CompensationHead
<1> QED
  BY <1>3 DEF Current, ToRollBack, Settled

\* The ends of an undo.
UndoEnd == {"STEP_COMPENSATED", "COMPENSATION_FAILED"}

\* What a step that writes makes of the completions and of the marks of an undo.
LEMMA WrittenUndo ==
    ASSUME TInv, NEW type, NEW s, NEW c, Writes(type, s, c)
    PROVE  /\ c \in Context /\ ctx'.order = c.order
           /\ type # "STEP_SUCCEEDED" => ctx'.order = ctx.order
           /\ \A r \in Step :
                /\ ctx'.steps[r].compensated = c.steps[r].compensated
                /\ ctx'.steps[r].compensationFailed = c.steps[r].compensationFailed
                /\ ~(r = s /\ type \in UndoEnd) =>
                     /\ ctx'.steps[r].compensated = ctx.steps[r].compensated
                     /\ ctx'.steps[r].compensationFailed = ctx.steps[r].compensationFailed
           /\ type \in UndoEnd => Settled(s)'
<1> DEFINE d == ApplyEvent(ctx, Event(type, s))
<1>1. /\ type \in StepEvent /\ s \in Step /\ ctx' \in Context /\ ctx \in Context
      /\ c = d \/ c = Unwind(d, s)
      /\ ctx' = c \/ Continues(c, ctx')
  BY DEF Writes, TInv
<1>2. /\ d \in Context
      /\ d.steps[s] = ApplyToSlot(ctx.steps[s], type)
      /\ \A q \in Step \ {s} : d.steps[q] = ctx.steps[q]
      /\ type # "STEP_SUCCEEDED" => d.order = ctx.order
  BY <1>1, AfterStepEvent
<1> HIDE DEF d
<1>3. c \in Context /\ c.steps = d.steps /\ c.order = d.order
  BY <1>1, <1>2, Unwound
<1>4. ctx'.order = c.order
  BY <1>1 DEF Continues
<1>5. ASSUME NEW r \in Step
      PROVE  /\ ctx'.steps[r].compensated = c.steps[r].compensated
             /\ ctx'.steps[r].compensationFailed = c.steps[r].compensationFailed
             /\ ctx'.steps[r] \in StepSlot /\ c.steps[r] \in StepSlot /\ ctx.steps[r] \in StepSlot
  <2>1. /\ ctx'.steps[r] \in StepSlot /\ c.steps[r] \in StepSlot
        /\ ctx.steps[r] \in StepSlot
    BY <1>1, <1>3 DEF Context
  <2>2. \/ ctx'.steps[r] = c.steps[r]
        \/ ctx'.steps[r] = ApplyToSlot(c.steps[r], "STEP_SCHEDULED")
    BY <1>1 DEF Continues
  <2>3. /\ ctx'.steps[r].compensated <=> c.steps[r].compensated
        /\ ctx'.steps[r].compensationFailed <=> c.steps[r].compensationFailed
    BY <2>1, <2>2, MarksAfter
  <2> QED
    BY <2>1, <2>3 DEF StepSlot
<1>6. /\ c.steps[s].compensated <=> ctx.steps[s].compensated \/ type = "STEP_COMPENSATED"
      /\ c.steps[s].compensationFailed <=>
           ctx.steps[s].compensationFailed \/ type = "COMPENSATION_FAILED"
  BY <1>1, <1>2, <1>3, <1>5, MarksAfter
<1>7. ASSUME type \in UndoEnd PROVE Settled(s)'
  BY <1>1, <1>5, <1>6, <1>7 DEF UndoEnd, Settled
<1>8. ASSUME NEW r \in Step, ~(r = s /\ type \in UndoEnd)
      PROVE  /\ ctx'.steps[r].compensated = ctx.steps[r].compensated
             /\ ctx'.steps[r].compensationFailed = ctx.steps[r].compensationFailed
  <2>1. CASE r = s
    <3>1. type # "STEP_COMPENSATED" /\ type # "COMPENSATION_FAILED"
      BY <1>8, <2>1 DEF UndoEnd
    <3>2. /\ ctx'.steps[r].compensated \in BOOLEAN /\ ctx.steps[r].compensated \in BOOLEAN
          /\ ctx'.steps[r].compensationFailed \in BOOLEAN
          /\ ctx.steps[r].compensationFailed \in BOOLEAN
      BY <1>5 DEF StepSlot
    <3> QED
      BY <1>5, <1>6, <2>1, <3>1, <3>2
  <2>2. CASE r # s
    BY <1>2, <1>3, <1>5, <2>2
  <2> QED
    BY <2>1, <2>2
<1> QED
  BY <1>2, <1>3, <1>4, <1>5, <1>7, <1>8

\* The compensation order on which rows were decided is the one that is left.
LEMMA WrittenOrder ==
    ASSUME TInv, NEW type, NEW s, NEW c, Writes(type, s, c)
    PROVE  /\ CompensationOrder(ctx') = CompensationOrder(c)
           /\ type \notin UndoEnd \cup {"STEP_SUCCEEDED"} =>
                CompensationOrder(ctx') = CompensationOrder(ctx)
<1>1. ctx' \in Context /\ ctx \in Context
  BY DEF Writes, TInv
<1> QED
  BY <1>1, WrittenUndo, SameCompensation

\* An undo gets its first row when it is next.
LEMMA UndoQueued ==
    ASSUME BInv, BInv', [Next]_vars, NEW s \in Step, Rowless(Undo(s)), ~Rowless(Undo(s))'
    PROVE  Current(s)'
<1>0. TInv /\ Backed /\ DInv
  BY DEF BInv, RInv, DInv
<1>1. PICK t \in Pk : SlotOf[t] = Undo(s) /\ Queue!Present(t)' /\ ~Queue!Present(t)
  BY DEF Rowless, Rows
<1>2. ~Quiet
  BY <1>1 DEF Quiet, NoNewRows
<1>3. ~StartRun
  <2> SUFFICES ASSUME StartRun PROVE FALSE
    OBVIOUS
  <2>1. ctx'.compensating
    BY DEF BInv, UndoneAfterTurn
  <2> DEFINE c == ApplyEvent(ctx, Event("RUN_STARTED", NoStep))
  <2>2. c \in Context /\ c.compensating = ctx.compensating
    BY <1>0, RunStarted DEF TInv
  <2>3. ctx' = MarkScheduled(c)
    BY DEF StartRun, Sync
  <2> HIDE DEF c
  <2>4. ctx.compensating
    BY <2>1, <2>2, <2>3, Marked
  <2> QED
    BY <1>0, <2>4 DEF StartRun, DInv, LogOK
<1>4. PICK type, r, c : Writes(type, r, c)
  BY <1>0, <1>2, <1>3, EveryWriter
<1>5. Undo(s) \in NextWork(c)
  BY <1>1, <1>4 DEF Writes
<1>6. CompensationOrder(c) # <<>> /\ s = Head(CompensationOrder(c))
  <2>1. c.compensating
    BY <1>5 DEF NextWork, Do, Undo
  <2>2. CompensationOrder(c) # <<>> /\ Undo(s) = Undo(Head(CompensationOrder(c)))
    BY <1>5, <2>1 DEF NextWork
  <2> QED
    BY <2>2 DEF Undo
<1>7. CompensationOrder(ctx') = CompensationOrder(c)
  BY <1>0, <1>4, WrittenOrder
<1> QED
  BY <1>6, <1>7 DEF Current

\* Who does not end with advance_run begins nothing.
LEMMA NoCallerHands ==
    ASSUME TInv, [Next]_vars, ~Caller, NEW slot \in Slot
    PROVE  HandsOn(slot)
<1>1. ASSUME NEW w \in Worker, Work(w) \/ Heartbeat(w) \/ Crash(w) PROVE HandsOn(slot)
  <2>1. CASE \/ Claim(w) \/ LoadContext(w) \/ Return(w) \/ FireTimer(w) \/ StartStep(w)
             \/ Execute(w) \/ Heartbeat(w) \/ Abandon(w) \/ Crash(w)
    BY <2>1, QuietHands
  <2>2. CASE Finish(w)
    BY <2>2, FinishHands
  <2>3. CASE Park(w) \/ RecordRetry(w)
    BY <2>3, PostponedHands
  <2>4. ~(RejectConfig(w) \/ RecordOutcome(w) \/ RecordUndo(w))
    BY DEF Caller
  <2> QED
    BY <1>1, <2>1, <2>2, <2>3, <2>4 DEF Work, Bookkeeping
<1>2. ASSUME NEW a \in Actor, Approvals(a) PROVE HandsOn(slot)
  <2>1. ~ResolveApproval(a)
    BY DEF Caller
  <2> QED
    BY <1>2, <2>1, QuietHands DEF Approvals
<1>3. CASE (\E t \in Pk : RowStep(t)) \/ AnnounceRecovery \/ ReaperDies \/ UNCHANGED vars
  BY <1>3, QuietHands
<1> QED
  BY <1>1, <1>2, <1>3 DEF Next, Caller

RowlessAreFree == \A slot \in Slot : Rowless(slot) => Free(slot)

LEMMA RowlessFree == RInv => RowlessAreFree
BY RowlessIsFree DEF RowlessAreFree

\* The worker that records the end of an undo.
LEMMA UndoRecorder ==
    ASSUME RInv, NEW w \in Worker, RecordUndo(w)
    PROVE  \E r \in Step :
             /\ w \in Closing(Undo(r))
             /\ Settled(r)'
             /\ \A s \in Step : Settled(s) => Settled(s)'
<1>0. TInv /\ Backed
  BY DEF RInv, DInv
<1>1. worker[w].pc = "recording" /\ worker[w].pc # "idle" /\ Undoing(w)
  BY DEF RecordUndo, At
<1>2. PICK r \in Step : worker[w].slot \in Slot /\ StepOf(w) = r
  BY <1>0, <1>1, WorkerBacked
<1>3. worker[w].slot = Undo(r)
  BY <1>1, <1>2, SlotOfTyped DEF Undoing, StepOf, Undo
<1>4. PICK type \in UndoEnd : \E c : Writes(type, r, c)
  BY <1>0, <1>2, RecordUndoWrites DEF UndoEnd
<1>5. PICK c : Writes(type, r, c)
  BY <1>4
<1>6. Settled(r)'
  BY <1>0, <1>5, WrittenUndo
<1>7. ASSUME NEW s \in Step, Settled(s), s # r PROVE Settled(s)'
  BY <1>0, <1>5, <1>7, WrittenUndo DEF Settled
<1>8. w \in Closing(Undo(r))
  BY <1>1, <1>3 DEF Closing
<1> QED
  BY <1>6, <1>7, <1>8

\* It queues the next one.
LEMMA UndoRecorded ==
    ASSUME RInv, NEW w \in Worker, RecordUndo(w), NEW s \in Step
    PROVE  /\ Closing(Undo(s))' \subseteq Closing(Undo(s)) \ {w}
           /\ \E t : LiveRows(Undo(s))' \subseteq LiveRows(Undo(s)) \cup {t}
           /\ LiveRows(Undo(s))' \subseteq LiveRows(Undo(s)) \/ Current(s)'
<1>0. TInv /\ Queue!TypeOK /\ ctx \in Context /\ Undo(s) \in Slot
  BY SlotOfTyped DEF RInv, TInv, QueueOK
<1>1. PICK type \in UndoEnd : AdvanceRun(After(w, type), <<>>)
  BY DEF RecordUndo, UndoEnd
<1>2. worker[w].pc # "idle" /\ worker' = [worker EXCEPT ![w] = Idle]
  BY DEF RecordUndo, At
<1>3. PICK log \in Context : AdvanceRun(log, <<>>)
  <2>1. type \in StepEvent
    BY DEF UndoEnd, StepEvent
  <2> QED
    BY <1>0, <1>1, <1>2, <2>1, AfterTyped
<1>4. /\ ctx' \in Context /\ ctx'.order = log.order
      /\ \A r \in Step : \/ ctx'.steps[r] = log.steps[r]
                         \/ ctx'.steps[r] = ApplyToSlot(log.steps[r], "STEP_SCHEDULED")
      /\ \E want : /\ Orders(want) /\ Enqueue(want)
                   /\ DOMAIN want = DOMAIN <<>> \cup NextWork(log)
  BY <1>0, <1>3, Advanced, OrdersOfNone
<1>5. PICK want : Orders(want) /\ Enqueue(want) /\ DOMAIN want = NextWork(log)
  BY <1>4, OrdersOfNone
<1>6. CompensationOrder(ctx') = CompensationOrder(log)
  <2>1. ASSUME NEW r \in Step
        PROVE  /\ ctx'.steps[r].compensated = log.steps[r].compensated
               /\ ctx'.steps[r].compensationFailed = log.steps[r].compensationFailed
    <3>1. ctx'.steps[r] \in StepSlot /\ log.steps[r] \in StepSlot
      BY <1>4 DEF Context
    <3>2. /\ ctx'.steps[r].compensated <=> log.steps[r].compensated
          /\ ctx'.steps[r].compensationFailed <=> log.steps[r].compensationFailed
      BY <1>4, <3>1, MarksAfter
    <3> QED
      BY <3>1, <3>2 DEF StepSlot
  <2> QED
    BY <1>4, <2>1, SameCompensation
<1>7. Undo(s) \in NextWork(log) => Current(s)'
  <2> SUFFICES ASSUME Undo(s) \in NextWork(log) PROVE Current(s)'
    OBVIOUS
  <2>1. log.compensating
    BY DEF NextWork, Do, Undo
  <2>2. CompensationOrder(log) # <<>> /\ Undo(s) = Undo(Head(CompensationOrder(log)))
    BY <2>1 DEF NextWork
  <2> QED
    BY <1>6, <2>2 DEF Undo, Current
<1>8. Closing(Undo(s))' \subseteq Closing(Undo(s)) \ {w}
  BY <1>0, <1>2, ClosingForgets
<1> QED
  BY <1>0, <1>5, <1>7, <1>8, LiveInserted

\* Once the run has turned back advance_run is called for the ends of undos alone.
LEMMA OnlyUndosCall ==
    ASSUME BInv, [Next]_vars, DecidedWell', OInv, ctx.compensating, Caller
    PROVE  \E w \in Worker : RecordUndo(w)
<1>1. \A s \in Step : Over(s) /\ Decided(s)'
  BY DEF OInv, UnwindOver, DecidedWell
<1>2. ~StartRun
  BY DEF StartRun, BInv, RInv, DInv, LogOK
<1>3. ASSUME NEW w \in Worker, RejectConfig(w) \/ RecordOutcome(w) PROVE FALSE
  <2>1. /\ StepOf(w) \in Step /\ worker[w].slot = Do(StepOf(w))
        /\ ~Rowless(Do(StepOf(w)))
        /\ RejectConfig(w) => StepOf(w) \in BadConfig
    BY <1>3, FailingWorker
  <2>2. CASE RejectConfig(w)
    BY <1>1, <2>1, <2>2 DEF Over
  <2>3. CASE RecordOutcome(w)
    BY <1>1, <2>1, <2>3 DEF Over, Free, Closing, RecordOutcome, At
  <2> QED
    BY <1>3, <2>2, <2>3
<1>4. ASSUME NEW a \in Actor, ResolveApproval(a) PROVE FALSE
  <2>1. request[a].step \in Step
    BY <1>4 DEF ResolveApproval, BInv, RInv, TInv, RequestsOK
  <2> QED
    BY <1>1, <1>4, <2>1, OverUndecided
<1> QED
  BY <1>2, <1>3, <1>4 DEF Caller

\* One party at most is in charge of an undo, and only of the one that is next; what
\* was queued is next, or over.
UndoInTurn(s) ==
    /\ InOneHand(Undo(s))
    /\ ~Free(Undo(s)) => Current(s)
    /\ ~Rowless(Undo(s)) => Settled(s) \/ Current(s)
UnwindInv == \A s \in Step : UndoInTurn(s)

LEMMA UndoInTurnNext ==
    ASSUME BInv, BInv', [Next]_vars, DecidedWell', OInv, UnwindInv, NEW s \in Step
    PROVE  UndoInTurn(s)'
<1>0. RInv /\ RInv' /\ TInv /\ Backed /\ Undo(s) \in Slot /\ UndoInTurn(s)
  BY SlotOfTyped DEF BInv, RInv, DInv, UnwindInv
<1>1. CASE ~ctx.compensating
  <2>1. Rowless(Undo(s)) /\ Free(Undo(s))
    BY <1>0, <1>1, RowlessIsFree DEF BInv, UndoneAfterTurn
  <2>2. InOneHand(Undo(s))'
    BY <1>0, <2>1, EveryStepHands, HandedOn, Begun DEF UndoInTurn
  <2>3. ~Rowless(Undo(s))' => Current(s)'
    BY <2>1, UndoQueued
  <2>4. RInv' => RowlessAreFree'
    BY RowlessFree, PTL
  <2>5. ~Free(Undo(s))' => ~Rowless(Undo(s))'
    BY <1>0, <2>4 DEF RowlessAreFree
  <2> QED
    BY <2>2, <2>3, <2>5 DEF UndoInTurn
<1>2. CASE ctx.compensating /\ ~Caller
  <2>1. HandsOn(Undo(s))
    BY <1>0, <1>2, NoCallerHands
  <2>2. InOneHand(Undo(s))' /\ (Free(Undo(s)) => Free(Undo(s))')
    BY <1>0, <2>1, HandedOn, FreeHandedOn DEF UndoInTurn
  <2>3. (Current(s) => Current(s)') /\ (Settled(s) => Settled(s)')
    <3>1. CASE Quiet
      BY <3>1 DEF Quiet, runVars, Current, Settled
    <3>2. ASSUME NEW type, NEW r, NEW c, Writes(type, r, c), WrittenBy(type, r)
          PROVE  (Current(s) => Current(s)') /\ (Settled(s) => Settled(s)')
      <4>1. type \notin UndoEnd \cup {"STEP_SUCCEEDED"}
        BY <1>2, <3>2 DEF WrittenBy, Caller, UndoEnd
      <4> QED
        BY <1>0, <3>2, <4>1, WrittenOrder, WrittenUndo DEF Current, Settled
    <3> QED
      BY <1>0, <1>2, <3>1, <3>2, EveryWriter DEF Caller
  <2> QED
    BY <1>0, <2>2, <2>3, UndoQueued DEF UndoInTurn
<1>3. ASSUME NEW w \in Worker, RecordUndo(w) PROVE UndoInTurn(s)'
  <2>1. PICK r \in Step : /\ w \in Closing(Undo(r)) /\ Settled(r)'
                          /\ Settled(s) => Settled(s)'
    BY <1>0, <1>3, UndoRecorder
  <2>2. Current(r)
    BY <2>1 DEF UnwindInv, UndoInTurn, Free
  <2>3. /\ Closing(Undo(s))' \subseteq Closing(Undo(s)) \ {w}
        /\ \E t : LiveRows(Undo(s))' \subseteq LiveRows(Undo(s)) \cup {t}
        /\ LiveRows(Undo(s))' \subseteq LiveRows(Undo(s)) \/ Current(s)'
    BY <1>0, <1>3, UndoRecorded
  <2>4. CASE s = r
    <3>1. RInv' => CurrentIsOpen'
      BY CurrentOpen, PTL
    <3>2. ~Current(s)'
      BY <1>0, <2>1, <2>4, <3>1 DEF CurrentIsOpen
    <3>3. Free(Undo(s))'
      BY <1>0, <2>1, <2>3, <2>4, <3>2 DEF Free, UndoInTurn, InOneHand
    <3> QED
      BY <2>1, <2>4, <3>3 DEF UndoInTurn, Free, InOneHand
  <2>5. CASE s # r
    <3>1. Free(Undo(s))
      BY <1>0, <2>2, <2>5 DEF UndoInTurn, Current
    <3>2. InOneHand(Undo(s))'
      BY <2>3, <3>1, Begun DEF Begins
    <3>3. ~Free(Undo(s))' => Current(s)'
      BY <2>3, <3>1 DEF Free
    <3>4. ~Rowless(Undo(s))' => Settled(s)' \/ Current(s)'
      BY <1>0, <2>1, <2>2, <2>5, UndoQueued DEF UndoInTurn, Current
    <3> QED
      BY <3>2, <3>3, <3>4 DEF UndoInTurn
  <2> QED
    BY <2>4, <2>5
<1> QED
  BY <1>1, <1>2, <1>3, OnlyUndosCall

\* On every run, under every fault, of a workflow whose steps turn the run back alone
\* and whose approvals have no deadline: as long as no step is decided on twice, two
\* undos are never in progress together, and nobody is ever in charge of a step, or of
\* an undo, beside somebody else (service.enqueue_next_compensation, called by
\* whoever records an outcome; enqueue_step's unique key, retries and recoveries).
THEOREM UnwindsInTurn ==
    ASSUME TurnsAlone, Deadline = {}
    PROVE  Spec /\ []OneDecision => [](SequentialUnwind /\ SingleCustody)
<1>1. OneDecision => DecidedWell
  BY DEF OneDecision, DecidedWell, Decided, DecidedOnce
<1>2. Init => BInv /\ OInv /\ UnwindInv
  BY BInit, OInit, NothingHeldAtFirst DEF UnwindInv, UndoInTurn
<1>3. BInv /\ [Next]_vars => BInv'
  BY BNext
<1>4. ASSUME BInv, BInv', OInv, UnwindInv, DecidedWell', [Next]_vars
      PROVE  OInv' /\ UnwindInv'
  <2>1. OInv'
    BY <1>4, ONext
  <2>2. UnwindInv'
    BY <1>4, UndoInTurnNext DEF UnwindInv
  <2> QED
    BY <2>1, <2>2
<1>5. ASSUME BInv, UnwindInv, DecidedWell PROVE SequentialUnwind /\ SingleCustody
  <2>1. ASSUME NEW s \in Step
        PROVE  /\ Custodians(Do(s)) <= 1 /\ Custodians(Undo(s)) <= 1
               /\ Custodians(Undo(s)) > 0 => Current(s)
    <3>1. InOneHand(Do(s)) /\ UndoInTurn(s)
      BY <1>5 DEF BInv, CInv, StepHeld, DecidedWell, UnwindInv
    <3>2. Custodians(Do(s)) \in {0, 1}
      BY <3>1, HeldCounts
    <3>3. Custodians(Undo(s)) \in {0, 1} /\ (Custodians(Undo(s)) = 0 <=> Free(Undo(s)))
      BY <3>1, HeldCounts DEF UndoInTurn
    <3> QED
      BY <3>1, <3>2, <3>3 DEF UndoInTurn
  <2>2. SequentialUnwind
    BY <2>1 DEF SequentialUnwind, Current
  <2>3. SingleCustody
    BY <2>1, SlotIsDoOrUndo DEF SingleCustody
  <2> QED
    BY <2>2, <2>3
<1> QED
  BY <1>1, <1>2, <1>3, <1>4, <1>5, PTL DEF Spec


------------------------------------------------------------------------------
(* The saga.                                                               *)

\* What a step that writes makes of the status of the run.
LEMMA WrittenPhase ==
    ASSUME TInv, NEW type, NEW s, NEW c, Writes(type, s, c)
    PROVE  /\ c \in Context /\ ctx'.compensating = c.compensating
           /\ \/ /\ c = ApplyEvent(ctx, Event(type, s))
                 /\ c.status = ctx.status /\ c.compensating = ctx.compensating
              \/ /\ type \in {"STEP_FAILED", "APPROVAL_DENIED"}
                 /\ c.compensating /\ c.status = "COMPENSATING"
                 /\ CompensationOrder(c) # <<>>
           /\ \/ ctx'.status = c.status
              \/ /\ c.status \notin TerminalRunStates
                 /\ ctx'.status = NextRunState(c)
                 /\ ctx'.status \in {"SUCCEEDED", "FAILED"}
<1> DEFINE d == ApplyEvent(ctx, Event(type, s))
           e == ApplyEvent(d, Event("COMPENSATION_STARTED", s))
<1>1. /\ type \in StepEvent /\ s \in Step /\ ctx \in Context
      /\ c = d \/ (type \in {"STEP_FAILED", "APPROVAL_DENIED"} /\ c = Unwind(d, s))
      /\ ctx' = c \/ Continues(c, ctx')
  BY DEF Writes, TInv
<1>2. d \in Context /\ d.status = ctx.status /\ d.compensating = ctx.compensating
  BY <1>1, AfterStepEvent
<1> HIDE DEF d
<1>3. /\ "COMPENSATION_STARTED" \in DOMAIN RunStatusAfter
      /\ RunStatusAfter["COMPENSATION_STARTED"] = "COMPENSATING"
  BY DEF RunStatusAfter
<1>4. /\ e \in Context /\ e.status = "COMPENSATING" /\ e.compensating
      /\ e.steps = d.steps /\ e.order = d.order
  <2>1. e = ApplyEvent(d, Event("COMPENSATION_STARTED", s))
    OBVIOUS
  <2> HIDE DEF e
  <2>2. /\ e \in Context /\ e.steps = d.steps /\ e.order = d.order
        /\ e.status = "COMPENSATING"
        /\ e.compensating = (d.compensating \/ TRUE)
    BY <1>1, <1>2, <1>3, <2>1, AfterRunEvent
  <2> QED
    BY <2>2
<1> HIDE DEF e
<1>5. CompensationOrder(e) = CompensationOrder(d)
  BY <1>2, <1>4, SameCompensation
<1>6. c = Unwind(d, s) => c = d \/ (c = e /\ CompensationOrder(d) # <<>>)
  BY DEF Unwind, e
<1>7. \/ c = d
      \/ /\ type \in {"STEP_FAILED", "APPROVAL_DENIED"}
         /\ c = e /\ CompensationOrder(c) # <<>>
  BY <1>1, <1>5, <1>6
<1>8. ctx'.compensating = c.compensating
  BY <1>1 DEF Continues
<1>9. \/ ctx'.status = c.status
      \/ /\ c.status \notin TerminalRunStates
         /\ ctx'.status = NextRunState(c)
         /\ ctx'.status \in {"SUCCEEDED", "FAILED"}
  BY <1>1 DEF Continues
<1> QED
  BY <1>2, <1>4, <1>7, <1>8, <1>9 DEF d

\* What the log says of a run that goes forward, turns back or ends.
PhaseOK ==
    /\ ctx.status \in {"PENDING", "RUNNING", "COMPENSATING", "SUCCEEDED", "FAILED"}
    /\ ctx.status = "COMPENSATING" => ctx.compensating
    /\ ctx.compensating /\ ctx.status = "FAILED" => CompensationOrder(ctx) = <<>>

\* The worker that says a step has succeeded, or was undone, was in charge of that.
LEMMA EndsByHolder ==
    ASSUME BInv, [Next]_vars, DecidedWell', OInv, UnwindInv,
           NEW type \in UndoEnd \cup {"STEP_SUCCEEDED"}, NEW s \in Step, WrittenBy(type, s)
    PROVE  /\ type = "STEP_SUCCEEDED" => s \notin Succeeded /\ ~ctx.compensating
           /\ type \in UndoEnd => Current(s) /\ ctx.compensating
<1>0. RInv /\ TInv /\ Backed
  BY DEF BInv, RInv, DInv
<1>1. CASE type = "STEP_SUCCEEDED"
  <2>1. PICK w \in Worker : RecordOutcome(w) /\ StepOf(w) = s
    BY <1>1 DEF WrittenBy
  <2>2. worker[w].slot = Do(s)
    BY <2>1, FailingWorker
  <2>3. w \in Closing(Do(s))
    BY <2>1, <2>2 DEF Closing, RecordOutcome, At
  <2>4. ~Over(s)
    BY <2>3 DEF Over, Free
  <2> QED
    BY <1>1, <2>4 DEF OInv, SuccessOver, UnwindOver, UndoEnd
<1>2. CASE type \in UndoEnd
  <2>1. PICK w \in Worker : RecordUndo(w) /\ StepOf(w) = s
    BY <1>2 DEF WrittenBy, UndoEnd
  <2>2. PICK r \in Step : w \in Closing(Undo(r))
    BY <1>0, <2>1, UndoRecorder
  <2>3. r = s
    BY <2>1, <2>2 DEF Closing, StepOf, Undo
  <2>4. ~Free(Undo(s))
    BY <2>2, <2>3 DEF Free
  <2>5. Current(s) /\ ~Rowless(Undo(s))
    BY <1>0, <2>4, RowlessIsFree DEF UnwindInv, UndoInTurn
  <2> QED
    BY <1>2, <2>5 DEF BInv, UndoneAfterTurn, UndoEnd
<1> QED
  BY <1>1, <1>2

LEMMA PhaseNext ==
    ASSUME BInv, BInv', [Next]_vars, DecidedWell', OInv, UnwindInv, PhaseOK
    PROVE  PhaseOK'
<1>0. TInv /\ Backed /\ ctx \in Context
  BY DEF BInv, RInv, DInv, TInv
<1>1. CASE Quiet
  <2>1. ctx' = ctx
    BY <1>1 DEF Quiet, runVars
  <2> QED
    BY <2>1 DEF PhaseOK
<1>2. CASE StartRun
  <2> DEFINE c == ApplyEvent(ctx, Event("RUN_STARTED", NoStep))
  <2>1. c \in Context /\ c.status = "RUNNING"
    BY <1>0, RunStarted
  <2>2. ctx' = MarkScheduled(c)
    BY <1>2 DEF StartRun, Sync
  <2> HIDE DEF c
  <2>3. ctx'.status = "RUNNING"
    BY <2>1, <2>2, Marked
  <2> QED
    BY <2>3 DEF PhaseOK
<1>3. ASSUME NEW type, NEW s, NEW c, Writes(type, s, c), WrittenBy(type, s) PROVE PhaseOK'
  <2>1. /\ c \in Context /\ ctx'.compensating = c.compensating
        /\ \/ c.status = ctx.status /\ c.compensating = ctx.compensating
           \/ c.compensating /\ c.status = "COMPENSATING"
        /\ \/ ctx'.status = c.status
           \/ /\ c.status \notin TerminalRunStates
              /\ ctx'.status = NextRunState(c)
              /\ ctx'.status \in {"SUCCEEDED", "FAILED"}
    BY <1>0, <1>3, WrittenPhase
  <2>2. /\ ctx'.status \in {"PENDING", "RUNNING", "COMPENSATING", "SUCCEEDED", "FAILED"}
        /\ ctx'.status = "COMPENSATING" => ctx'.compensating
    BY <2>1 DEF PhaseOK
  <2>3. ASSUME ctx'.compensating, ctx'.status = "FAILED" PROVE CompensationOrder(ctx') = <<>>
    <3>1. CASE ctx'.status # c.status
      <4>1. CompensationOrder(c) = <<>>
        BY <2>1, <2>3, <3>1 DEF NextRunState
      <4> QED
        BY <1>0, <1>3, <4>1, WrittenOrder
    <3>2. CASE ctx'.status = c.status
      <4>1. ctx.compensating /\ CompensationOrder(ctx) = <<>>
        BY <2>1, <2>3, <3>2 DEF PhaseOK
      <4>2. s \in Step
        BY <1>3 DEF Writes
      <4>3. type \notin UndoEnd \cup {"STEP_SUCCEEDED"}
        BY <1>3, <4>1, <4>2, EndsByHolder DEF Current
      <4> QED
        BY <1>0, <1>3, <4>1, <4>3, WrittenOrder
    <3> QED
      BY <3>1, <3>2
  <2> QED
    BY <2>2, <2>3 DEF PhaseOK
<1> QED
  BY <1>0, <1>1, <1>2, <1>3, EveryWriter


\* Where a log that says a success stands says it of every step that has succeeded and
\* is not being undone.
StillShows == \A s \in Succeeded : Rowless(Undo(s)) => ctx.steps[s].status = "SUCCEEDED"

LEMMA InEffectNext ==
    ASSUME BInv, BInv', [Next]_vars, Deadline = {}, DecidedWell', HInv, Prompt, SInv, StillShows
    PROVE  StillShows'
<1>0. RInv /\ CInv /\ GInv /\ TInv /\ Backed /\ Queue!TypeOK
  BY DEF BInv, RInv, DInv, TInv, QueueOK
<1> SUFFICES ASSUME NEW s \in Succeeded', Rowless(Undo(s))'
             PROVE  ctx'.steps[s].status = "SUCCEEDED"
  BY DEF StillShows
<1>1. s \in Step /\ Rowless(Undo(s)) /\ Decided(s)'
  <2>1. ctx'.order \in Seq(Step)
    BY DEF BInv, RInv, TInv, Context
  <2>2. s \in Step
    BY <2>1, RangeOfOrder DEF Succeeded
  <2> QED
    BY <1>0, <2>2, RowlessBefore DEF DecidedWell
<1>2. CASE s \in Succeeded
  <2>1. ctx.steps[s].status = "SUCCEEDED"
    BY <1>1, <1>2 DEF StillShows
  <2>2. AtRest(s)
    BY <1>0, <1>1, DecidedBefore DEF SInv
  <2> QED
    BY <1>0, <1>1, <2>1, <2>2, StaysAtRest
<1>3. CASE s \notin Succeeded
  <2>1. ~Quiet /\ ~StartRun
    BY <1>0, <1>3, StartMarks DEF Quiet, runVars, Succeeded
  <2>2. PICK type, r, c : Writes(type, r, c)
    BY <1>0, <2>1, EveryWriter
  <2>3. type = "STEP_SUCCEEDED" /\ r = s
    BY <1>0, <1>3, <2>2, WritesMarks
  <2>4. /\ c = ApplyEvent(ctx, Event(type, s))
        /\ Continues(c, ctx')
    BY <2>2, <2>3 DEF Writes, Interim
  <2>5. ctx \in Context /\ type \in StepEvent
    BY <1>0, <2>2 DEF TInv, Writes
  <2>6. c.steps[s] = ApplyToSlot(ctx.steps[s], type)
    BY <1>1, <2>4, <2>5, AfterStepEvent
  <2>7. c.steps[s].status = "SUCCEEDED"
    BY <1>1, <2>3, <2>5, <2>6 DEF ApplyToSlot, StepStatusAfter, Context, StepSlot
  <2>8. s \notin ReadySteps(c)
    BY <2>7 DEF ReadySteps, StepsWithStatus
  <2> QED
    BY <1>1, <2>4, <2>7, <2>8 DEF Continues
<1> QED
  BY <1>2, <1>3

\* What the saga has left to undo is what the compensation order has, and what is next
\* is what took effect last.
LeftToUndo ==
    /\ Promise!ToUndo = {} <=> CompensationOrder(ctx) = <<>>
    /\ \A s \in Step : Current(s) => s \in Promise!ToUndo /\ Promise!Latest(s)

LEMMA TellsLeft == RInv => LeftToUndo
<1> SUFFICES ASSUME ctx \in Context PROVE LeftToUndo
  BY DEF RInv, TInv
<1>1. ctx.order \in Seq(Step)
  BY DEF Context
<1>2. /\ DOMAIN ctx.order = 1..Len(ctx.order) /\ Len(ctx.order) \in Nat
      /\ \A i \in DOMAIN ctx.order : ctx.order[i] \in Step
  BY <1>1
<1>3. \A i \in DOMAIN ctx.order : i \in ToRollBack(ctx) <=> ctx.order[i] \in Promise!ToUndo
  BY <1>2 DEF ToRollBack, Promise!ToUndo, Promise!Range, Settled
<1>4. \A s \in Promise!ToUndo : \E i \in ToRollBack(ctx) : ctx.order[i] = s
  <2> SUFFICES ASSUME NEW s \in Promise!ToUndo PROVE \E i \in ToRollBack(ctx) : ctx.order[i] = s
    OBVIOUS
  <2>1. PICK i \in DOMAIN ctx.order : ctx.order[i] = s
    BY DEF Promise!ToUndo, Promise!Range
  <2> QED
    BY <1>3, <2>1
<1>5. ToRollBack(ctx) \subseteq DOMAIN ctx.order
  BY DEF ToRollBack
<1>6. Promise!ToUndo = {} <=> ToRollBack(ctx) = {}
  BY <1>3, <1>4, <1>5
<1>7. ASSUME NEW s \in Step, Current(s) PROVE s \in Promise!ToUndo /\ Promise!Latest(s)
  <2>1. ToRollBack(ctx) # {}
    BY <1>7, CompensationHead DEF Current
  <2>2. PICK m \in ToRollBack(ctx) : /\ s = ctx.order[m]
                                     /\ \A i \in ToRollBack(ctx) : i <= m
    BY <1>7, <2>1, CompensationHead DEF Current
  <2>3. m \in DOMAIN ctx.order /\ m \in 1..Len(ctx.order)
    BY <1>2, <1>5
  <2>4. \A j \in m+1..Len(ctx.order) : j \in DOMAIN ctx.order /\ ~(j <= m)
    BY <1>2, <2>3
  <2>5. \A j \in m+1..Len(ctx.order) : ctx.order[j] \notin Promise!ToUndo
    BY <1>3, <2>2, <2>4
  <2> QED
    BY <1>3, <2>2, <2>3, <2>5 DEF Promise!Latest
<1> QED
  BY <1>6, <1>7, CompensationHead DEF LeftToUndo


\* A run that has turned back goes on as long as something is left to undo.
BackTells ==
    ctx.compensating =>
        ctx.status = IF Promise!ToUndo = {} THEN "FAILED" ELSE "COMPENSATING"

LEMMA TellsBack == BInv /\ PhaseOK => BackTells
<1> SUFFICES ASSUME BInv, PhaseOK, ctx.compensating
             PROVE  ctx.status = IF Promise!ToUndo = {} THEN "FAILED" ELSE "COMPENSATING"
  BY DEF BackTells
<1>1. LeftToUndo
  BY TellsLeft DEF BInv
<1>2. ctx.status \in {"COMPENSATING", "FAILED"} /\ Undecided(ctx)
  BY DEF BInv, RInv, DInv, LogOK, PInv
<1>3. CASE ctx.status = "FAILED"
  BY <1>1, <1>3 DEF PhaseOK, LeftToUndo
<1>4. CASE ctx.status = "COMPENSATING"
  <2>1. CompensationOrder(ctx) # <<>>
    BY <1>2, <1>4 DEF Undecided, NextRunState, TerminalRunStates
  <2> QED
    BY <1>1, <1>4, <2>1 DEF LeftToUndo
<1> QED
  BY <1>2, <1>3, <1>4

\* The saga before and after a step that undoes nothing.
SameUndone == \A r \in Step : Settled(r)' = Settled(r)

LEMMA UndoneSame ==
    ASSUME SameUndone
    PROVE  {r \in Step : Settled(r)}' = {r \in Step : Settled(r)}
BY DEF SameUndone

LEMMA WrittenSame ==
    ASSUME TInv, NEW type, NEW s, NEW c, Writes(type, s, c), type \notin UndoEnd
    PROVE  SameUndone
BY WrittenUndo DEF SameUndone, Settled

\* A run that is written about has been started.
LEMMA WrittenStarted ==
    ASSUME BInv, NEW type, NEW s, NEW c, Writes(type, s, c)
    PROVE  ctx.status # "PENDING"
BY DEF BInv, PInv, Untouched, Writes, HasRow

\* A failure that turns the run back.
LEMMA TurnBacks ==
    ASSUME BInv, [Next]_vars, TurnsAlone, DecidedWell', OInv,
           PhaseOK, LeftToUndo, BackTells',
           NEW type, NEW s, NEW c, Writes(type, s, c), type \notin UndoEnd \cup {"STEP_SUCCEEDED"},
           ~ctx.compensating, ctx'.compensating
    PROVE  Promise!TurnBack
<1>0. TInv /\ ctx \in Context /\ ctx' \in Context
  BY DEF BInv, RInv, TInv, Writes
<1>1. SameUndone /\ ctx'.order = ctx.order
  BY <1>0, WrittenSame, WrittenUndo
<1>2. PICK x \in Step : TurnedBy(x)
  BY TurnBy
<1>3. ~Over(x) /\ Turner(x)
  BY <1>2, FailsEarly DEF TurnedBy, DecidedWell
<1>4. ctx.status = "RUNNING"
  BY <1>3, WrittenStarted DEF OInv, EndOver, PhaseOK, TerminalRunStates
<1>5. /\ c \in Context /\ c.compensating /\ c.status = "COMPENSATING"
      /\ CompensationOrder(c) # <<>>
  BY <1>0, WrittenPhase
<1>6. NextRunState(c) = "COMPENSATING"
  BY <1>5 DEF NextRunState, TerminalRunStates
<1>7. ctx'.status = "COMPENSATING"
  BY <1>0, <1>5, <1>6, WrittenPhase
<1>8. Promise!ToUndo' = Promise!ToUndo
  BY <1>1, UndoneSame DEF Promise!ToUndo
<1>9. Promise!ToUndo # {}
  BY <1>7, <1>8 DEF BackTells
<1>10. ctx'.compensating = TRUE
  BY <1>0 DEF Context
<1> QED
  BY <1>1, <1>4, <1>7, <1>9, <1>10, UndoneSame DEF Promise!TurnBack

\* A failure that ends the run.
LEMMA FailsOrStays ==
    ASSUME BInv, [Next]_vars, PhaseOK,
           NEW type, NEW s, NEW c, Writes(type, s, c), type \notin UndoEnd \cup {"STEP_SUCCEEDED"},
           ~ctx.compensating, ~ctx'.compensating
    PROVE  Promise!Fail \/ UNCHANGED Promise!sagaVars
<1>0. TInv /\ ctx \in Context /\ ctx' \in Context /\ Undecided(ctx)
  BY DEF BInv, RInv, TInv, PInv, Writes
<1>1. SameUndone /\ ctx'.order = ctx.order
  BY <1>0, WrittenSame, WrittenUndo
<1>2. ctx'.compensating = ctx.compensating
  BY <1>0 DEF Context
<1>3. /\ c = ApplyEvent(ctx, Event(type, s))
      /\ c.status = ctx.status /\ ~c.compensating
      /\ \/ ctx'.status = c.status
         \/ /\ c.status \notin TerminalRunStates
            /\ ctx'.status = NextRunState(c)
            /\ ctx'.status \in {"SUCCEEDED", "FAILED"}
  BY <1>0, WrittenPhase
<1>4. CASE ctx'.status = ctx.status
  BY <1>1, <1>2, <1>4, UndoneSame DEF Promise!sagaVars
<1>5. CASE ctx'.status # ctx.status
  <2>1. /\ ctx.status \notin TerminalRunStates
        /\ ctx'.status = NextRunState(c)
        /\ ctx'.status \in {"SUCCEEDED", "FAILED"}
    BY <1>3, <1>5
  <2>2. ctx.status = "RUNNING"
    BY <2>1, WrittenStarted DEF PhaseOK, TerminalRunStates
  <2>3. ASSUME IsComplete(c) PROVE FALSE
    <3>1. \A r \in Step : c.steps[r].status = "SUCCEEDED"
      BY <2>3 DEF IsComplete, StepsWithStatus
    <3>2. type \in StepEvent /\ s \in Step
      BY DEF Writes
    <3>3. /\ c.steps[s] = ApplyToSlot(ctx.steps[s], type)
          /\ \A r \in Step \ {s} : c.steps[r] = ctx.steps[r]
      BY <1>0, <1>3, <3>2, AfterStepEvent
    <3>4. ctx.steps[s] \in StepSlot
      BY <1>0, <3>2 DEF Context
    <3>5. ctx.steps[s].status = "SUCCEEDED"
      BY <3>1, <3>2, <3>3, <3>4, SlotAfter
    <3>6. \A r \in Step : ctx.steps[r].status = "SUCCEEDED"
      BY <3>1, <3>3, <3>5
    <3>7. FailedSteps(ctx) = {} /\ IsComplete(ctx)
      BY <3>6 DEF FailedSteps, IsComplete, StepsWithStatus
    <3>8. NextRunState(ctx) = "SUCCEEDED"
      BY <2>1, <3>7 DEF NextRunState
    <3> QED
      BY <1>0, <2>1, <3>8 DEF Undecided, TerminalRunStates
  <2>4. ctx'.status = "FAILED"
    BY <1>3, <2>1, <2>3 DEF NextRunState
  <2> QED
    BY <1>1, <1>2, <2>2, <2>4, UndoneSame DEF Promise!Fail
<1> QED
  BY <1>4, <1>5

\* An event of a run that has turned back which is not about an undo.
LEMMA BackStays ==
    ASSUME BInv, BackTells, BackTells',
           NEW type, NEW s, NEW c, Writes(type, s, c), type \notin UndoEnd \cup {"STEP_SUCCEEDED"},
           ctx.compensating
    PROVE  UNCHANGED Promise!sagaVars
<1>0. TInv /\ ctx \in Context /\ ctx' \in Context
  BY DEF BInv, RInv, TInv, Writes
<1>1. SameUndone /\ ctx'.order = ctx.order
  BY <1>0, WrittenSame, WrittenUndo
<1>2. ctx'.compensating
  BY <1>0, WrittenPhase
<1>3. ctx'.compensating = ctx.compensating
  BY <1>0, <1>2 DEF Context
<1>4. Promise!ToUndo' = Promise!ToUndo
  BY <1>1, UndoneSame DEF Promise!ToUndo
<1>5. ctx'.status = ctx.status
  BY <1>2, <1>4 DEF BackTells
<1> QED
  BY <1>1, <1>3, <1>5, UndoneSame DEF Promise!sagaVars


\* A step takes effect, and with the last one the run ends.
LEMMA Completes ==
    ASSUME BInv, BInv', [Next]_vars, DecidedWell', OInv, UnwindInv,
           PhaseOK, PhaseOK', StillShows',
           NEW s \in Step, NEW c, Writes("STEP_SUCCEEDED", s, c), WrittenBy("STEP_SUCCEEDED", s)
    PROVE  Promise!Complete(s)
<1>0. /\ TInv /\ ctx \in Context /\ ctx' \in Context
      /\ Undecided(ctx) /\ Undecided(ctx') /\ LogOK(ctx') /\ UndoneAfterTurn'
  BY DEF BInv, RInv, DInv, TInv, PInv
<1>1. s \notin Succeeded /\ ~ctx.compensating
  BY EndsByHolder
<1>2. /\ SameUndone
      /\ c \in Context /\ ctx'.order = c.order
  BY <1>0, WrittenSame, WrittenUndo DEF UndoEnd
<1>3. /\ c = ApplyEvent(ctx, Event("STEP_SUCCEEDED", s))
      /\ c.status = ctx.status /\ c.compensating = ctx.compensating
      /\ ctx'.compensating = c.compensating
      /\ \/ ctx'.status = c.status
         \/ /\ c.status \notin TerminalRunStates
            /\ ctx'.status = NextRunState(c)
            /\ ctx'.status \in {"SUCCEEDED", "FAILED"}
  BY <1>0, WrittenPhase
<1>4. ctx'.order = Append(ctx.order, s)
  <2>1. ctx.order \in Seq(Step) /\ ~Contains(ctx.order, s)
    BY <1>0, <1>1, ContainsIsRange DEF Context, Succeeded
  <2> QED
    BY <1>2, <1>3, <2>1 DEF ApplyEvent, Event
<1>5. Continues(c, ctx')
  BY DEF Writes, Interim
<1>6. ctx.status # "PENDING"
  BY WrittenStarted
<1>7. FailedSteps(ctx) = {} => FailedSteps(c) = {}
  <2>1. /\ c.steps[s] = ApplyToSlot(ctx.steps[s], "STEP_SUCCEEDED")
        /\ \A r \in Step \ {s} : c.steps[r] = ctx.steps[r]
    <3>1. "STEP_SUCCEEDED" \in StepEvent
      BY DEF StepEvent
    <3> QED
      BY <1>0, <1>3, <3>1, AfterStepEvent
  <2>2. ctx.steps[s] \in StepSlot
    BY <1>0 DEF Context
  <2>3. c.steps[s].status = "SUCCEEDED"
    BY <2>1, <2>2 DEF ApplyToSlot, StepStatusAfter, StepSlot
  <2> QED
    BY <2>1, <2>3 DEF FailedSteps, StepsWithStatus
<1>8. ASSUME ctx.status = "RUNNING"
      PROVE  ctx'.status = IF Range(ctx'.order) = Step THEN "SUCCEEDED" ELSE "RUNNING"
  <2>1. FailedSteps(c) = {}
    BY <1>0, <1>1, <1>7, <1>8 DEF Undecided, NextRunState, TerminalRunStates
  <2>2. ctx'.status \in {"RUNNING", "SUCCEEDED"}
    BY <1>1, <1>3, <1>8, <2>1 DEF NextRunState, TerminalRunStates
  <2>3. ASSUME ctx'.status = "SUCCEEDED" PROVE Range(ctx'.order) = Step
    <3>1. IsComplete(c)
      BY <1>1, <1>3, <1>8, <2>1, <2>3 DEF NextRunState, TerminalRunStates
    <3>2. \A r \in Step : c.steps[r].status = "SUCCEEDED"
      BY <3>1 DEF IsComplete, StepsWithStatus
    <3>3. \A r \in Step : ctx'.steps[r].status = "SUCCEEDED"
      BY <1>5, <3>2 DEF Continues, ReadySteps, StepsWithStatus
    <3>4. ctx'.order \in Seq(Step)
      BY <1>0 DEF Context
    <3> QED
      BY <1>0, <3>3, <3>4, RangeOfOrder DEF LogOK
  <2>4. ASSUME Range(ctx'.order) = Step PROVE ctx'.status = "SUCCEEDED"
    <3>1. \A r \in Step : Rowless(Undo(r))'
      BY <1>0, <1>1, <1>3 DEF UndoneAfterTurn
    <3>2. \A r \in Step : ctx'.steps[r].status = "SUCCEEDED"
      BY <2>4, <3>1 DEF StillShows, Succeeded
    <3>3. FailedSteps(ctx') = {} /\ IsComplete(ctx')
      BY <3>2 DEF FailedSteps, IsComplete, StepsWithStatus
    <3>4. ctx'.status # "RUNNING"
      BY <1>0, <1>1, <1>3, <3>3 DEF Undecided, NextRunState, TerminalRunStates
    <3> QED
      BY <2>2, <3>4
  <2> QED
    BY <2>2, <2>3, <2>4
<1>9. ctx.status # "RUNNING" => ctx'.status = ctx.status
  BY <1>1, <1>3, <1>6 DEF PhaseOK, TerminalRunStates
<1>10. ctx'.status = IF ctx.status = "RUNNING" /\ Range(ctx'.order) = Step
                     THEN "SUCCEEDED" ELSE ctx.status
  BY <1>8, <1>9
<1>11. Range(ctx.order) = Promise!Range(ctx.order) /\ Range(ctx'.order) = Promise!Range(ctx'.order)
  BY DEF Range, Promise!Range
<1> QED
  BY <1>1, <1>2, <1>3, <1>4, <1>6, <1>10, <1>11, UndoneSame DEF Promise!Complete, Succeeded

\* The end of an undo.
LEMMA Settles ==
    ASSUME BInv, BInv', [Next]_vars, DecidedWell', OInv, UnwindInv,
           PhaseOK, LeftToUndo, BackTells, BackTells',
           NEW type \in UndoEnd, NEW s \in Step, NEW c, Writes(type, s, c), WrittenBy(type, s)
    PROVE  Promise!Settle(s)
<1>0. TInv /\ ctx \in Context /\ ctx' \in Context
  BY DEF BInv, RInv, TInv
<1>1. Current(s) /\ ctx.compensating
  BY EndsByHolder
<1>2. s \in Promise!ToUndo /\ Promise!Latest(s)
  BY <1>1 DEF LeftToUndo
<1>3. ctx.status = "COMPENSATING"
  BY <1>1, <1>2 DEF BackTells
<1>4. /\ ctx'.order = ctx.order
      /\ Settled(s)'
      /\ \A r \in Step \ {s} : Settled(r)' = Settled(r)
  BY <1>0, WrittenUndo DEF UndoEnd, Settled
<1>5. {r \in Step : Settled(r)}' = {r \in Step : Settled(r)} \cup {s}
  BY <1>4
<1>6. ctx'.compensating
  BY <1>0, <1>1, WrittenPhase
<1>7. ctx'.compensating = ctx.compensating
  BY <1>0, <1>1, <1>6 DEF Context
<1>8. Promise!ToUndo' = Promise!ToUndo \ {s}
  BY <1>4, <1>5 DEF Promise!ToUndo
<1>9. Promise!ToUndo' = {} <=> Promise!ToUndo = {s}
  BY <1>2, <1>8
<1>10. ctx'.status = IF Promise!ToUndo = {s} THEN "FAILED" ELSE ctx.status
  BY <1>3, <1>6, <1>9 DEF BackTells
<1> QED
  BY <1>2, <1>3, <1>4, <1>5, <1>7, <1>10 DEF Promise!Settle

\* The start of the run.
LEMMA StartBegins ==
    ASSUME BInv, StartRun
    PROVE  Promise!Begin
<1> DEFINE c == ApplyEvent(ctx, Event("RUN_STARTED", NoStep))
<1>0. ctx \in Context
  BY DEF BInv, RInv, TInv
<1>1. /\ c \in Context /\ c.status = "RUNNING" /\ c.compensating = ctx.compensating
      /\ c.steps = ctx.steps /\ c.order = ctx.order
  BY <1>0, RunStarted
<1>2. ctx' = MarkScheduled(c) /\ ctx.status = "PENDING"
  BY DEF StartRun, Sync
<1> HIDE DEF c
<1>3. /\ ctx' \in Context
      /\ ctx'.status = "RUNNING" /\ ctx'.compensating = ctx.compensating
      /\ ctx'.order = ctx.order
      /\ \A r \in Step : \/ ctx'.steps[r] = ctx.steps[r]
                         \/ ctx'.steps[r] = ApplyToSlot(ctx.steps[r], "STEP_SCHEDULED")
  BY <1>1, <1>2, Marked
<1>4. ASSUME NEW r \in Step PROVE Settled(r)' = Settled(r)
  <2>1. ctx.steps[r] \in StepSlot /\ ctx'.steps[r] \in StepSlot
    BY <1>0, <1>3 DEF Context
  <2>2. /\ ctx'.steps[r].compensated <=> ctx.steps[r].compensated
        /\ ctx'.steps[r].compensationFailed <=> ctx.steps[r].compensationFailed
    BY <1>3, <2>1, MarksAfter
  <2>3. /\ ctx'.steps[r].compensated = ctx.steps[r].compensated
        /\ ctx'.steps[r].compensationFailed = ctx.steps[r].compensationFailed
    BY <2>1, <2>2 DEF StepSlot
  <2> QED
    BY <2>3 DEF Settled
<1>5. {r \in Step : Settled(r)}' = {r \in Step : Settled(r)}
  BY <1>4
<1> QED
  BY <1>2, <1>3, <1>5 DEF Promise!Begin

\* Every step of the run is one of the saga, or leaves it alone.
LEMMA SagaStep ==
    ASSUME BInv, BInv', [Next]_vars, TurnsAlone, DecidedWell', OInv, UnwindInv,
           PhaseOK, PhaseOK', StillShows', LeftToUndo, BackTells, BackTells'
    PROVE  [Promise!Next]_(Promise!sagaVars)
<1>0. TInv /\ Backed
  BY DEF BInv, RInv, DInv
<1>1. CASE Quiet
  BY <1>1 DEF Quiet, runVars, Promise!sagaVars, Settled
<1>2. CASE StartRun
  BY <1>2, StartBegins DEF Promise!Next
<1>3. ASSUME NEW type, NEW s, NEW c, Writes(type, s, c), WrittenBy(type, s)
      PROVE  Promise!Next \/ UNCHANGED Promise!sagaVars
  <2>1. s \in Step
    BY <1>3 DEF Writes
  <2>2. CASE type = "STEP_SUCCEEDED"
    BY <1>3, <2>1, <2>2, Completes DEF Promise!Next
  <2>3. CASE type \in UndoEnd
    BY <1>3, <2>1, <2>3, Settles DEF Promise!Next
  <2>4. CASE type \notin UndoEnd \cup {"STEP_SUCCEEDED"} /\ ctx.compensating
    BY <1>3, <2>4, BackStays
  <2>5. CASE type \notin UndoEnd \cup {"STEP_SUCCEEDED"} /\ ~ctx.compensating
    BY <1>3, <2>5, TurnBacks, FailsOrStays DEF Promise!Next
  <2> QED
    BY <2>2, <2>3, <2>4, <2>5
<1> QED
  BY <1>0, <1>1, <1>2, <1>3, EveryWriter


\* A run keeps its promise: for every workflow whose steps turn the run back alone and
\* whose approvals have no deadline, with workers and reapers that die anywhere but do
\* not stall or lag, the run is a saga as long as no step is decided on twice
\* (replay.compensation_order, service.start_compensation, close_run_if_finished).
THEOREM KeepsPromise ==
    ASSUME TurnsAlone, Deadline = {}, Faults \cap {"stall", "slow reaper"} = {}
    PROVE  Spec /\ []OneDecision => ImplementsSaga
<1> DEFINE Known == BInv /\ OInv /\ UnwindInv /\ HInv /\ Prompt /\ SInv /\ PhaseOK /\ StillShows
<1>1. OneDecision => DecidedWell
  BY DEF OneDecision, DecidedWell, Decided, DecidedOnce
<1>2. ASSUME Init PROVE Known
  <2>1. BInv /\ OInv /\ UnwindInv
    BY <1>2, BInit, OInit, NothingHeldAtFirst DEF UnwindInv, UndoInTurn
  <2>2. HInv /\ Prompt
    BY <1>2, InitOK, HInit DEF Init, Prompt
  <2>3. /\ ctx.status = "PENDING" /\ ~ctx.compensating /\ ctx.order = <<>>
        /\ \A s \in Step : ctx.steps[s].status = "PENDING"
    BY <1>2 DEF Init, NewContext
  <2>4. Succeeded = {}
    BY <2>3, OrdersOfNone DEF Succeeded, Range
  <2> QED
    BY <2>1, <2>2, <2>3, <2>4 DEF SInv, AtRest, PhaseOK, StillShows
<1>3. BInv /\ [Next]_vars => BInv'
  BY BNext
<1>4. ASSUME Known, BInv', DecidedWell', [Next]_vars PROVE Known'
  <2>1. "stall" \notin Faults /\ "slow reaper" \notin Faults
    OBVIOUS
  <2>2. RInv /\ CInv /\ GInv /\ TInv
    BY <1>4 DEF BInv, RInv
  <2>3. OInv'
    BY <1>4, ONext
  <2>4. UnwindInv'
    BY <1>4, UndoInTurnNext DEF UnwindInv
  <2>5. HInv' /\ Prompt' /\ SInv'
    BY <1>4, <2>1, <2>2, HNext, PromptNext, SNext
  <2>6. PhaseOK' /\ StillShows'
    BY <1>4, PhaseNext, InEffectNext
  <2> QED
    BY <1>4, <2>3, <2>4, <2>5, <2>6
<1>5. Known => BInv /\ OInv /\ UnwindInv /\ PhaseOK /\ StillShows /\ LeftToUndo /\ BackTells
  BY TellsLeft, TellsBack DEF BInv
<1>6. ASSUME BInv, OInv, UnwindInv, PhaseOK, LeftToUndo, BackTells,
             BInv', PhaseOK', StillShows', BackTells', DecidedWell', [Next]_vars
      PROVE  [Promise!Next]_(Promise!sagaVars)
  BY <1>6, SagaStep
<1>7. ASSUME Init PROVE Promise!Init
  <2>1. ctx = NewContext
    BY <1>7 DEF Init
  <2> QED
    BY <2>1 DEF NewContext, Promise!Init, Settled
<1> HIDE DEF Known
<1> QED
  BY <1>1, <1>2, <1>3, <1>4, <1>5, <1>6, <1>7, PTL DEF Spec, ImplementsSaga, Promise!Spec


\* An end that was recorded stays as it is.
LEMMA EndedStays ==
    ASSUME BInv, [Next]_vars, TurnsAlone, DecidedWell', OInv, UnwindInv,
           PhaseOK, LeftToUndo, BackTells, BackTells'
    PROVE  EndStays
<1> SUFFICES ASSUME ctx.status \in TerminalRunStates PROVE ctx'.status = ctx.status
  BY DEF EndStays
<1>0. TInv /\ Backed /\ ctx.status \notin {"PENDING", "RUNNING", "COMPENSATING"}
  BY DEF BInv, RInv, DInv, TerminalRunStates
<1>1. CASE Quiet
  BY <1>1 DEF Quiet, runVars
<1>2. ~StartRun
  BY <1>0 DEF StartRun
<1>3. ASSUME NEW type, NEW s, NEW c, Writes(type, s, c), WrittenBy(type, s)
      PROVE  ctx'.status = ctx.status
  <2>1. s \in Step
    BY <1>3 DEF Writes
  <2>2. CASE type = "STEP_SUCCEEDED"
    BY <1>0, <1>3, <2>2, WrittenPhase
  <2>3. CASE type \in UndoEnd
    <3>1. Current(s) /\ ctx.compensating
      BY <1>3, <2>1, <2>3, EndsByHolder
    <3>2. ctx.status = "COMPENSATING"
      BY <2>1, <3>1 DEF LeftToUndo, BackTells
    <3> QED
      BY <1>0, <3>2
  <2>4. CASE type \notin UndoEnd \cup {"STEP_SUCCEEDED"} /\ ctx.compensating
    BY <1>3, <2>4, BackStays DEF Promise!sagaVars
  <2>5. CASE type \notin UndoEnd \cup {"STEP_SUCCEEDED"} /\ ~ctx.compensating
    BY <1>0, <1>3, <2>5, TurnBacks, FailsOrStays
       DEF Promise!TurnBack, Promise!Fail, Promise!sagaVars
  <2> QED
    BY <2>2, <2>3, <2>4, <2>5
<1> QED
  BY <1>0, <1>1, <1>2, <1>3, EveryWriter

\* On every run, under every fault, of a workflow whose steps turn the run back alone
\* and whose approvals have no deadline: an end that was recorded stays as it is, as
\* long as no step is decided on twice.  (A branch that fails after the end turns the
\* run back: see the divergences.  The guard is in close_run_if_finished, and
\* start_compensation has none.)
THEOREM EndsForGood ==
    ASSUME TurnsAlone, Deadline = {}
    PROVE  Spec /\ []OneDecision => EndIsFinal
<1> DEFINE Known == BInv /\ OInv /\ UnwindInv /\ PhaseOK
<1>1. OneDecision => DecidedWell
  BY DEF OneDecision, DecidedWell, Decided, DecidedOnce
<1>2. ASSUME Init PROVE Known
  <2>1. BInv /\ OInv /\ UnwindInv
    BY <1>2, BInit, OInit, NothingHeldAtFirst DEF UnwindInv, UndoInTurn
  <2> QED
    BY <1>2, <2>1 DEF Init, NewContext, PhaseOK
<1>3. BInv /\ [Next]_vars => BInv'
  BY BNext
<1>4. ASSUME Known, BInv', DecidedWell', [Next]_vars PROVE Known'
  <2>1. OInv'
    BY <1>4, ONext
  <2>2. UnwindInv'
    BY <1>4, UndoInTurnNext DEF UnwindInv
  <2>3. PhaseOK'
    BY <1>4, PhaseNext
  <2> QED
    BY <1>4, <2>1, <2>2, <2>3
<1>5. Known => BInv /\ OInv /\ UnwindInv /\ PhaseOK /\ LeftToUndo /\ BackTells
  BY TellsLeft, TellsBack DEF BInv
<1>6. ASSUME BInv, OInv, UnwindInv, PhaseOK, LeftToUndo, BackTells,
             BackTells', DecidedWell', [Next]_vars
      PROVE  [EndStays]_vars
  BY <1>6, EndedStays
<1> HIDE DEF Known
<1> QED
  BY <1>1, <1>2, <1>3, <1>4, <1>5, <1>6, PTL DEF Spec, EndIsFinal

------------------------------------------------------------------------------
(* While no worker dies.                                                   *)

\* No worker dies before it has finished its row, and no lease lapses under one that
\* works.
RowsSafe == Faults \cap {"crash", "stall"} = {}

\* No worker dies at all.
NobodyFails == RowsSafe /\ "late crash" \notin Faults

\* Work that does not end with a row left behind: only a worker that meets a faulty
\* configuration goes away without finishing its row.
Orderly(slot) == slot[2] = "COMPENSATE" \/ slot[1] \notin BadConfig

\* A row becomes leased in the hand of the worker that claims it.
LEMMA LeasedBy ==
    ASSUME RInv, HandedOK, [Next]_vars, NEW t \in Pk,
           Queue!Present(t)', task'[t].status = "LEASED",
           ~(Queue!Present(t) /\ task[t].status = "LEASED")
    PROVE  \E w \in Worker : hand'[w] = t
<1>0. /\ TInv /\ task \in [Pk -> Queue!Row \cup {NoRow}]
      /\ hand \in [Worker -> Pk \cup {NoTask}]
  BY DEF RInv, TInv, QueueOK, Queue!TypeOK
<1>1. Queue!Present(t) /\ task[t].status # "LEASED" /\ task'[t] # task[t]
  <2>1. RowMoves(t)
    BY HandedNext
  <2>2. Queue!Present(t)
    BY <2>1 DEF RowMoves, Queue!Present
  <2> QED
    BY <2>2
<1>2. ASSUME NEW u \in Pk, NEW row, task' = [task EXCEPT ![u] = row],
             row.status = "LEASED" => task[u].status = "LEASED"
      PROVE  FALSE
  BY <1>0, <1>1, <1>2
<1>3. ASSUME NEW w \in Worker, Handles(w) PROVE hand'[w] = t
  <2>1. CASE Claim(w)
    <3>1. PICK u \in Pk : Queue!ClaimTask(w, u)
      BY <2>1 DEF Claim
    <3>2. hand'[w] = u /\ task' = [task EXCEPT ![u] = Queue!Claimed(task[u], w)]
      BY <1>0, <3>1 DEF Queue!ClaimTask
    <3> QED
      BY <1>0, <1>1, <3>2
  <2>2. CASE Queue!RenewLease(w)
    <3>1. hand[w] \in Pk /\ Queue!OwnedBy(task[hand[w]], w)
      BY <1>0, <1>1, <2>2 DEF Queue!RenewLease
    <3>2. task' = [task EXCEPT ![hand[w]] = Queue!Renewed(task[hand[w]])]
      BY <2>2, <3>1 DEF Queue!RenewLease
    <3> QED
      BY <1>2, <3>1, <3>2 DEF Queue!OwnedBy
  <2>3. CASE Finish(w)
    <3>1. /\ hand[w] \in Pk /\ Queue!OwnedBy(task[hand[w]], w)
          /\ task' = [task EXCEPT ![hand[w]] = Queue!Finished(task[hand[w]])]
      BY <1>0, <2>3 DEF Finish, Queue!FinishTaskIfOwned
    <3> QED
      BY <1>2, <3>1 DEF Queue!OwnedBy
  <2>4. CASE Queue!Abandon(w) \/ Queue!Crash(w)
    BY <1>1, <2>4 DEF Queue!Abandon, Queue!Crash
  <2> QED
    BY <1>3, <2>1, <2>2, <2>3, <2>4 DEF Handles
<1>4. ASSUME NEW u \in Pk, RowStep(u) PROVE FALSE
  <2>1. CASE TimerDue(u)
    <3>1. /\ task[u] \in Queue!Row
          /\ task' = [task EXCEPT ![u] = [task[u] EXCEPT !.due = TRUE]]
      BY <1>0, <2>1 DEF TimerDue, Queue!TimerDue, Queue!Present
    <3>2. [task[u] EXCEPT !.due = TRUE].status = task[u].status
      BY <3>1 DEF Queue!Row
    <3> QED
      BY <1>2, <3>1, <3>2
  <2>2. CASE LeaseLapses(u)
    BY <1>2, <2>2 DEF LeaseLapses, Queue!LeaseLapses
  <2>3. CASE Reap(u) \/ ReapPoisoned(u)
    <3>1. /\ task[u].status = "LEASED"
          /\ \E row : task' = [task EXCEPT ![u] = row]
      BY <2>3 DEF Reap, ReapPoisoned, Queue!Reap, Queue!ReapPoisoned, Queue!Lapsed
    <3> QED
      BY <1>2, <3>1
  <2> QED
    BY <1>4, <2>1, <2>2, <2>3 DEF RowStep
<1>5. ~Inserts
  BY <1>0, <1>1, InsertedLeaves
<1>6. task' # task
  BY <1>1
<1> QED
  BY <1>0, <1>3, <1>4, <1>5, <1>6, StepKinds DEF queueVars

\* Only the reaper changes the attempt number of a row, and puts it back into the queue.
LEMMA ReapedBy ==
    ASSUME TInv, [Next]_vars, NEW t \in Pk, Queue!Present(t),
           \/ task'[t].attempt # task[t].attempt
           \/ task'[t].status = "READY" /\ task[t].status # "READY"
    PROVE  Reap(t)
<1>0. /\ task \in [Pk -> Queue!Row \cup {NoRow}]
      /\ hand \in [Worker -> Pk \cup {NoTask}]
      /\ HandsHold
  BY DEF TInv, QueueOK, Queue!TypeOK
<1>1. ASSUME NEW u \in Pk, NEW row, task' = [task EXCEPT ![u] = row],
             row.attempt = task[u].attempt,
             row.status = "READY" => task[u].status = "READY"
      PROVE  FALSE
  BY <1>0, <1>1
<1>2. ASSUME NEW w \in Worker, Handles(w) PROVE FALSE
  <2>1. CASE Claim(w)
    <3>1. PICK u \in Pk : Queue!ClaimTask(w, u)
      BY <2>1 DEF Claim
    <3>2. /\ task[u] \in Queue!Row
          /\ task' = [task EXCEPT ![u] = Queue!Claimed(task[u], w)]
      BY <1>0, <3>1 DEF Queue!ClaimTask, Queue!Present
    <3>3. /\ Queue!Claimed(task[u], w).attempt = task[u].attempt
          /\ Queue!Claimed(task[u], w).status = "LEASED"
      BY <3>2 DEF Queue!Claimed, Queue!Row
    <3> QED
      BY <1>1, <3>2, <3>3
  <2>2. CASE Queue!RenewLease(w)
    <3>1. hand[w] \in Pk /\ task[hand[w]] \in Queue!Row /\ task' # task
      BY <1>0, <2>2 DEF Queue!RenewLease, HandsHold, Queue!Present
    <3>2. task' = [task EXCEPT ![hand[w]] = Queue!Renewed(task[hand[w]])]
      BY <2>2, <3>1 DEF Queue!RenewLease
    <3>3. /\ Queue!Renewed(task[hand[w]]).attempt = task[hand[w]].attempt
          /\ Queue!Renewed(task[hand[w]]).status = task[hand[w]].status
      BY <3>1 DEF Queue!Renewed, Queue!Row
    <3> QED
      BY <1>1, <3>1, <3>2, <3>3
  <2>3. CASE Finish(w)
    <3>1. /\ hand[w] \in Pk /\ task[hand[w]] \in Queue!Row
          /\ task' = [task EXCEPT ![hand[w]] = Queue!Finished(task[hand[w]])]
      BY <1>0, <2>3 DEF Finish, Queue!FinishTaskIfOwned, HandsHold, Queue!Present
    <3>2. /\ Queue!Finished(task[hand[w]]).attempt = task[hand[w]].attempt
          /\ Queue!Finished(task[hand[w]]).status = "DONE"
      BY <3>1 DEF Queue!Finished, Queue!Row
    <3> QED
      BY <1>1, <3>1, <3>2
  <2>4. CASE Queue!Abandon(w) \/ Queue!Crash(w)
    BY <2>4 DEF Queue!Abandon, Queue!Crash
  <2> QED
    BY <1>2, <2>1, <2>2, <2>3, <2>4 DEF Handles
<1>3. ASSUME NEW u \in Pk, RowStep(u) PROVE Reap(t)
  <2>1. CASE TimerDue(u)
    <3>1. /\ task[u] \in Queue!Row
          /\ task' = [task EXCEPT ![u] = [task[u] EXCEPT !.due = TRUE]]
      BY <1>0, <2>1 DEF TimerDue, Queue!TimerDue, Queue!Present
    <3>2. /\ [task[u] EXCEPT !.due = TRUE].attempt = task[u].attempt
          /\ [task[u] EXCEPT !.due = TRUE].status = task[u].status
      BY <3>1 DEF Queue!Row
    <3> QED
      BY <1>1, <3>1, <3>2
  <2>2. CASE LeaseLapses(u)
    <3>1. /\ task[u] \in Queue!Row
          /\ task' = [task EXCEPT ![u] = [task[u] EXCEPT !.fresh = FALSE]]
      BY <1>0, <2>2 DEF LeaseLapses, Queue!LeaseLapses, Queue!Present
    <3>2. /\ [task[u] EXCEPT !.fresh = FALSE].attempt = task[u].attempt
          /\ [task[u] EXCEPT !.fresh = FALSE].status = task[u].status
      BY <3>1 DEF Queue!Row
    <3> QED
      BY <1>1, <3>1, <3>2
  <2>3. CASE Reap(u)
    <3>1. task' = [task EXCEPT ![u] = Queue!Recovered(task[u])]
      BY <2>3 DEF Reap, Queue!Reap
    <3> QED
      BY <1>0, <2>3, <3>1
  <2>4. CASE ReapPoisoned(u)
    <3>1. /\ task[u] \in Queue!Row
          /\ task' = [task EXCEPT ![u] = Queue!Finished(task[u])]
      BY <1>0, <2>4 DEF ReapPoisoned, Queue!ReapPoisoned, Queue!Present
    <3>2. /\ Queue!Finished(task[u]).attempt = task[u].attempt
          /\ Queue!Finished(task[u]).status = "DONE"
      BY <3>1 DEF Queue!Finished, Queue!Row
    <3> QED
      BY <1>1, <3>1, <3>2
  <2> QED
    BY <1>3, <2>1, <2>2, <2>3, <2>4 DEF RowStep
<1>4. ~Inserts
  BY InsertedLeaves
<1> QED
  BY <1>2, <1>3, <1>4, StepKinds DEF queueVars

\* No heartbeat finds its lease gone.
NoneLost == \A w \in Worker : ~lost[w]

LEMMA NoneLostNext ==
    ASSUME TInv, HInv, NoneLost, [Next]_vars
    PROVE  NoneLost'
<1>0. lost \in [Worker -> BOOLEAN]
  BY DEF TInv, QueueOK, Queue!TypeOK
<1>1. ASSUME NEW w \in Worker, lost' = [lost EXCEPT ![w] = FALSE] PROVE NoneLost'
  BY <1>0, <1>1 DEF NoneLost
<1>2. ASSUME UNCHANGED lost PROVE NoneLost'
  BY <1>2 DEF NoneLost
<1>3. ASSUME NEW w \in Worker, Handles(w) PROVE NoneLost'
  <2>1. CASE Claim(w)
    BY <1>2, <2>1 DEF Claim, Queue!ClaimTask
  <2>2. CASE Finish(w) \/ Queue!Abandon(w) \/ Queue!Crash(w)
    BY <1>1, <2>2 DEF Finish, Queue!FinishTaskIfOwned, Queue!Abandon, Queue!Crash, Queue!LetGo
  <2>3. CASE Queue!RenewLease(w)
    BY <1>2, <2>3 DEF Queue!RenewLease, HInv, Holds
  <2> QED
    BY <1>3, <2>1, <2>2, <2>3 DEF Handles
<1>4. ASSUME NEW t \in Pk, RowStep(t) PROVE NoneLost'
  BY <1>2, <1>4 DEF RowStep, TimerDue, LeaseLapses, Reap, ReapPoisoned, Queue!TimerDue,
                    Queue!LeaseLapses, Queue!Reap, Queue!ReapPoisoned
<1> QED
  BY <1>2, <1>3, <1>4, InsertedLeaves, StepKinds DEF queueVars

\* A leased row whose work is orderly is in the hand of its worker.
Kept ==
    \A t \in Pk :
        Queue!Present(t) /\ task[t].status = "LEASED" /\ Orderly(SlotOf[t]) =>
            \E w \in Worker : hand[w] = t

\* Nobody dies with a row in his hand, in this step.
NoneDropped == \A w \in Worker : Crash(w) => UNCHANGED hand

LEMMA KeptNext ==
    ASSUME RInv, HInv, KInv, HandedOK, NoneLost, NoneDropped, Kept, [Next]_vars
    PROVE  Kept'
<1> SUFFICES ASSUME NEW t \in Pk, Queue!Present(t)', task'[t].status = "LEASED",
                    Orderly(SlotOf[t])
             PROVE  \E w \in Worker : hand'[w] = t
  BY DEF Kept, Orderly
<1>0. TInv /\ NoTask \notin Pk
  BY NoTaskAssumption DEF RInv
<1>1. CASE ~(Queue!Present(t) /\ task[t].status = "LEASED")
  BY <1>1, LeasedBy
<1>2. CASE Queue!Present(t) /\ task[t].status = "LEASED"
  <2>1. PICK v \in Worker : hand[v] = t
    BY <1>2 DEF Kept
  <2>2. hand[v] # NoTask /\ worker[v].slot = SlotOf[t] /\ worker[v].pc \notin Rest
        /\ worker[v].pc # "idle"
    BY <1>0, <2>1 DEF TInv, MemoryOK, Fits, Rest, Recording
  <2>3. ~Claim(v)
    BY <2>2 DEF Claim, At
  <2>4. ~Finish(v)
    <3> SUFFICES ASSUME Finish(v) PROVE FALSE
      OBVIOUS
    <3>1. task'[t] = Queue!Finished(task[t]) /\ task[t] \in Queue!Row
      BY <1>0, <1>2, <2>1 DEF Finish, Queue!FinishTaskIfOwned, TInv, QueueOK, Queue!TypeOK,
                              Queue!Present
    <3>2. task'[t].status = "DONE"
      BY <3>1 DEF Queue!Finished, Queue!Row
    <3> QED
      BY <3>2
  <2>5. ~Return(v)
    <3> SUFFICES ASSUME Return(v) PROVE FALSE
      OBVIOUS
    <3>1. worker[v].pc = "returning" /\ ~Undoing(v)
      BY <1>0 DEF Return, At, TInv, MemoryOK, Fits, Forward
    <3>2. StepOf(v) \in BadConfig
      BY <3>1 DEF KInv, Knows
    <3>3. SlotOf[t] \in Slot
      BY SlotOfTyped
    <3> QED
      BY <2>2, <3>1, <3>2, <3>3 DEF Orderly, StepOf, Undoing
  <2>6. ~Abandon(v)
    BY <2>2 DEF Abandon, Queue!Abandon, NoneLost, HInv, Holds
  <2>7. Crash(v) => hand'[v] = hand[v]
    BY DEF NoneDropped
  <2>8. ~Park(v) /\ ~RecordRetry(v) /\ ~RecordOutcome(v) /\ ~RecordUndo(v)
    BY <2>2 DEF Park, RecordRetry, RecordOutcome, RecordUndo, At, Rest, Recording
  <2>9. hand'[v] = hand[v]
    BY <1>0, <2>3, <2>4, <2>5, <2>6, <2>7, <2>8, HandSteps DEF LetsGo
  <2> QED
    BY <2>1, <2>9
<1> QED
  BY <1>1, <1>2

\* The reaper finds no such row.
LEMMA LeftInPeace ==
    ASSUME HInv, Kept, NEW t \in Pk, Orderly(SlotOf[t])
    PROVE  ~Reap(t) /\ ~ReapPoisoned(t)
<1> SUFFICES ASSUME Queue!Present(t), Queue!Lapsed(task[t]), NoTask # t
             PROVE  FALSE
  BY NoTaskAssumption DEF Reap, ReapPoisoned, Queue!Reap, Queue!ReapPoisoned
<1>1. PICK w \in Worker : hand[w] = t
  BY DEF Kept, Queue!Lapsed
<1> QED
  BY <1>1 DEF HInv, Holds, Queue!Lapsed

\* An undo is never taken from a worker, so that its first row keeps the first key.
UndosKept == \A s \in Step : NeverRecovered(Undo(s))

LEMMA UndosKeptNext ==
    ASSUME RInv, HInv, HandedOK, Kept, UndosKept, [Next]_vars
    PROVE  UndosKept'
<1> SUFFICES ASSUME NEW s \in Step, NEW t \in Pk, SlotOf[t] = Undo(s), Queue!Present(t)'
             PROVE  handed'[t] \subseteq {task'[t].attempt}
  BY DEF UndosKept, NeverRecovered, Rows
<1>1. RowMoves(t)
  BY HandedNext
<1>2. CASE ~Queue!Present(t)
  BY <1>1, <1>2 DEF RowMoves, Queue!Present, HandedOK
<1>3. CASE Queue!Present(t)
  <2>1. handed[t] \subseteq {task[t].attempt}
    BY <1>3 DEF UndosKept, NeverRecovered, Rows
  <2>2. task'[t].attempt = task[t].attempt
    <3>1. Orderly(SlotOf[t])
      BY DEF Orderly, Undo
    <3> QED
      BY <1>3, <3>1, LeftInPeace, ReapedBy DEF RInv
  <2>3. handed'[t] = handed[t] \/ handed'[t] = handed[t] \cup {task[t].attempt}
    BY <1>1, <1>3 DEF RowMoves
  <2> QED
    BY <2>1, <2>2, <2>3
<1> QED
  BY <1>2, <1>3

\* An undo that has a row is settled, or somebody has it to do.
UndoTended(s) == ~Rowless(Undo(s)) => Settled(s) \/ ~Free(Undo(s))

\* What is settled stays so.
LEMMA SettledStays ==
    ASSUME BInv, [Next]_vars, NEW s \in Step, ~Rowless(Undo(s)), Settled(s)
    PROVE  Settled(s)'
<1>0. TInv /\ Backed
  BY DEF BInv, RInv, DInv
<1>1. ~StartRun
  BY DEF StartRun, BInv, PInv, Untouched, Rowless, Rows
<1>2. CASE Quiet
  BY <1>2 DEF Quiet, runVars, Settled
<1>3. ASSUME NEW type, NEW r, NEW c, Writes(type, r, c) PROVE Settled(s)'
  BY <1>0, <1>3, WrittenUndo DEF Settled
<1> QED
  BY <1>0, <1>1, <1>2, <1>3, EveryWriter

LEMMA UndoTendedNext ==
    ASSUME BInv, HInv, Kept, NobodyFails, [Next]_vars,
           NEW s \in Step, Latest(Undo(s)), UndoTended(s)
    PROVE  UndoTended(s)'
<1> SUFFICES ASSUME ~Rowless(Undo(s))' PROVE Settled(s)' \/ ~Free(Undo(s))'
  BY DEF UndoTended
<1>0. RInv /\ TInv /\ Backed
  BY DEF BInv, RInv, DInv
<1>1. CASE Rowless(Undo(s))
  <2>1. PICK t \in Pk : SlotOf[t] = Undo(s) /\ Queue!Present(t)' /\ ~Queue!Present(t)
    BY <1>1 DEF Rowless, Rows
  <2>2. Live(t)'
    BY <1>0, <2>1, NewRowsLive
  <2> QED
    BY <2>1, <2>2 DEF Free, LiveRows, Rows
<1>2. CASE ~Rowless(Undo(s)) /\ Settled(s)
  BY <1>2, SettledStays
<1>3. CASE ~Free(Undo(s)) /\ Free(Undo(s))'
  <2>1. ASSUME NEW t \in Rows(Undo(s)), ReapPoisoned(t) PROVE FALSE
    <3>1. t \in Pk /\ Orderly(SlotOf[t])
      BY DEF Rows, Orderly, Undo
    <3> QED
      BY <2>1, <3>1, LeftInPeace
  <2>2. "late crash" \notin Faults
    BY DEF NobodyFails
  <2>3. PICK w \in Closing(Undo(s)) : Ending(w)
    BY <1>0, <1>3, <2>1, <2>2, Loses
  <2>4. w \in Worker /\ worker[w].slot = Undo(s) /\ Undoing(w) /\ worker[w].pc # "idle"
    BY <2>3 DEF Closing, Undoing, Undo
  <2>5. ~Park(w) /\ ~RecordOutcome(w)
    BY <1>0, <2>4 DEF Park, RecordOutcome, At, TInv, MemoryOK, Fits, Forward
  <2>6. ~RecordRetry(w)
    BY <1>0, <1>3, <2>3, PostponedTended
  <2>7. RecordUndo(w)
    BY <2>3, <2>5, <2>6 DEF Ending
  <2>8. PICK r \in Step : w \in Closing(Undo(r)) /\ Settled(r)'
    BY <1>0, <2>4, <2>7, UndoRecorder
  <2>9. r = s
    BY <2>4, <2>8, DoIsOne DEF Closing
  <2> QED
    BY <2>8, <2>9
<1> QED
  BY <1>1, <1>2, <1>3 DEF UndoTended

LEMMA CallerCalls ==
    ASSUME TInv, Backed, Caller
    PROVE  \E c, want : Calls(c, want)
<1>1. ASSUME NEW w \in Worker, RejectConfig(w) \/ RecordOutcome(w) \/ RecordUndo(w)
      PROVE  \E c, want : Calls(c, want)
  <2>1. worker[w].pc # "idle"
    BY <1>1 DEF RejectConfig, RecordOutcome, RecordUndo, At
  <2>2. StepOf(w) \in Step /\ HasRow(StepOf(w))
    BY <1>1, <2>1, WorkerBacked
  <2>3. \E type \in StepEvent :
          \/ AdvanceRun(ApplyEvent(ctx, Event(type, StepOf(w))), <<>>)
          \/ AdvanceRun(Unwind(ApplyEvent(ctx, Event(type, StepOf(w))), StepOf(w)), <<>>)
    BY <1>1 DEF RejectConfig, RecordOutcome, RecordUndo, After, StepEvent
  <2> QED
    BY <2>2, <2>3, OutcomeCalls
<1> QED
  BY <1>1, StartCalls, ResolveCalls DEF Caller

\* Who does not end with advance_run neither turns the run back nor changes what is
\* next to be undone.
LEMMA NoCallerTurns ==
    ASSUME TInv, Backed, [Next]_vars, ~Caller
    PROVE  /\ ctx'.compensating = ctx.compensating
           /\ CompensationOrder(ctx') = CompensationOrder(ctx)
<1> DEFINE Goal == /\ ctx'.compensating = ctx.compensating
                   /\ CompensationOrder(ctx') = CompensationOrder(ctx)
<1>1. CASE Quiet
  BY <1>1 DEF Quiet, runVars
<1>2. ~StartRun
  BY DEF Caller
<1>3. ASSUME NEW type, NEW s, NEW c, Writes(type, s, c), WrittenBy(type, s) PROVE Goal
  <2>1. type \notin UndoEnd \cup {"STEP_SUCCEEDED"}
    BY <1>3 DEF UndoEnd, WrittenBy, Caller
  <2>2. CompensationOrder(ctx') = CompensationOrder(ctx)
    BY <1>3, <2>1, WrittenOrder
  <2>3. CASE type \notin {"STEP_FAILED", "APPROVAL_DENIED"}
    BY <1>3, <2>2, <2>3, WrittenPhase
  <2>4. ASSUME NEW t \in Pk, ReapPoisoned(t) PROVE ctx'.compensating = ctx.compensating
    <3> DEFINE d == ApplyEvent(ctx, Event("STEP_FAILED", SlotOf[t][1]))
    <3>1. SlotOf[t][1] \in Step
      BY SlotOfTyped
    <3>2. d \in Context /\ d.compensating = ctx.compensating
      BY <3>1, AfterStepEvent DEF StepEvent, TInv
    <3>3. ctx' = CloseIfFinished(d, d)
      BY <2>4 DEF ReapPoisoned, Sync
    <3> HIDE DEF d
    <3> QED
      BY <3>2, <3>3, Closed
  <2>5. CASE type \in {"STEP_FAILED", "APPROVAL_DENIED"}
    <3>1. Fails(s)
      BY <1>3, <2>5 DEF WrittenBy
    <3>2. \E t \in Pk : ReapPoisoned(t)
      BY <3>1 DEF Fails, Caller
    <3> QED
      BY <2>2, <2>4, <3>2
  <2> QED
    BY <2>3, <2>5
<1> QED
  BY <1>1, <1>2, <1>3, EveryWriter

\* The undo that is next has a row.
NextIsQueued == \A s \in Step : ctx.compensating /\ Current(s) => ~Rowless(Undo(s))

\* Whoever calls advance_run on a run that unwinds queues what is next.
LEMMA CallQueuesNext ==
    ASSUME TInv, NEW c, NEW want, Calls(c, want), ctx' \in Context,
           NEW s \in Step, ctx'.compensating, Current(s)'
    PROVE  ~Rowless(Undo(s))'
<1>1. /\ c \in Context /\ c.compensating /\ ctx'.order = c.order
      /\ ctx'.steps = MarkScheduled(c).steps
      /\ Orders(want) /\ Enqueue(want) /\ NextWork(c) \subseteq DOMAIN want
  BY DEF Calls
<1>2. ReadySteps(c) = {}
  BY <1>1 DEF ReadySteps
<1>3. \A r \in Step : ctx'.steps[r] = c.steps[r]
  BY <1>1, <1>2, Marked
<1>4. CompensationOrder(ctx') = CompensationOrder(c)
  BY <1>1, <1>3, SameCompensation
<1>5. CompensationOrder(c) # <<>> /\ s = Head(CompensationOrder(c))
  BY <1>4 DEF Current
<1>6. Undo(s) \in NextWork(c)
  BY <1>1, <1>5 DEF NextWork
<1>7. Undo(s) \in Slot
  BY SlotOfTyped
<1>8. Queue!KeyTaken(Undo(s), want[Undo(s)].attempt)'
  BY <1>1, <1>6, <1>7, LiveInserted DEF TInv, QueueOK
<1> QED
  BY <1>8 DEF Queue!KeyTaken, Rowless, Rows

LEMMA NextIsQueuedNext ==
    ASSUME BInv, BInv', NextIsQueued, [Next]_vars
    PROVE  NextIsQueued'
<1> SUFFICES ASSUME NEW s \in Step, ctx'.compensating, Current(s)' PROVE ~Rowless(Undo(s))'
  BY DEF NextIsQueued
<1>0. TInv /\ Backed /\ ctx' \in Context
  BY DEF BInv, RInv, DInv, TInv
<1>1. CASE Caller
  BY <1>0, <1>1, CallerCalls, CallQueuesNext
<1>2. CASE ~Caller
  <2>1. ctx.compensating /\ CompensationOrder(ctx') = CompensationOrder(ctx)
    BY <1>0, <1>2, NoCallerTurns
  <2>2. Current(s)
    BY <2>1 DEF Current
  <2> QED
    BY <1>0, <2>1, <2>2, RowlessBefore DEF NextIsQueued
<1> QED
  BY <1>1, <1>2

\* A run that unwinds has turned back.
TurnedBack == ctx.status = "COMPENSATING" => ctx.compensating

LEMMA TurnedBackNext ==
    ASSUME BInv, TurnedBack, [Next]_vars
    PROVE  TurnedBack'
<1>0. TInv /\ Backed
  BY DEF BInv, RInv, DInv
<1>1. CASE Quiet
  BY <1>1 DEF Quiet, runVars, TurnedBack
<1>2. CASE StartRun
  <2> DEFINE c == ApplyEvent(ctx, Event("RUN_STARTED", NoStep))
  <2>1. c \in Context /\ c.status = "RUNNING"
    BY <1>0, RunStarted DEF TInv
  <2>2. ctx' = MarkScheduled(c)
    BY <1>2 DEF StartRun, Sync
  <2> HIDE DEF c
  <2> QED
    BY <2>1, <2>2, Marked DEF TurnedBack
<1>3. ASSUME NEW type, NEW s, NEW c, Writes(type, s, c) PROVE TurnedBack'
  BY <1>0, <1>3, WrittenPhase DEF TurnedBack
<1> QED
  BY <1>0, <1>1, <1>2, <1>3, EveryWriter

\* What holds of the workers while none of them dies.
WorkersInv == HInv /\ HandedOK /\ NoneLost /\ Kept

LEMMA WorkersNext ==
    ASSUME BInv, WorkersInv, RowsSafe, [Next]_vars
    PROVE  WorkersInv'
<1>1. TInv /\ RInv /\ KInv
  BY DEF BInv, RInv
<1>2. HInv'
  BY <1>1, HNext DEF WorkersInv, RowsSafe
<1>3. HandedOK'
  BY <1>1, HandedNext DEF WorkersInv
<1>4. NoneDropped
  <2>1. "crash" \notin Faults
    BY DEF RowsSafe
  <2>2. \A w \in Worker : Crash(w) => UNCHANGED queueVars
    BY <2>1, Zenon DEF Crash
  <2> QED
    BY <2>2 DEF NoneDropped, queueVars
<1>5. NoneLost' /\ Kept'
  BY <1>1, <1>4, NoneLostNext, KeptNext DEF WorkersInv
<1> QED
  BY <1>2, <1>3, <1>5 DEF WorkersInv

LEMMA WorkersInit == Init => WorkersInv
<1> SUFFICES ASSUME Init PROVE WorkersInv
  OBVIOUS
<1>1. HInv /\ UInv
  BY HInit, UInit
<1>2. NoneLost /\ Kept
  BY DEF Init, Queue!Init, Queue!Present, NoneLost, Kept
<1> QED
  BY <1>1, <1>2 DEF WorkersInv, UInv

\* What holds of the undos then.
TendInv ==
    /\ UInv /\ UndosKept /\ NextIsQueued /\ TurnedBack
    /\ \A s \in Step : Latest(Undo(s)) /\ UndoTended(s)

LEMMA TendNext ==
    ASSUME BInv, BInv', WorkersInv, TendInv, NobodyFails, [Next]_vars
    PROVE  TendInv'
<1>0. RInv /\ HInv /\ HandedOK /\ Kept
  BY DEF BInv, WorkersInv
<1>1. UInv' /\ UndosKept'
  BY <1>0, UNext, UndosKeptNext DEF TendInv
<1>2. NextIsQueued' /\ TurnedBack'
  BY NextIsQueuedNext, TurnedBackNext DEF TendInv
<1>3. ASSUME NEW s \in Step PROVE Latest(Undo(s))' /\ UndoTended(s)'
  <2>1. UndoHeld(s) /\ UndoHeld(s)' /\ Undo(s) \in Slot
    BY <1>1, SlotOfTyped DEF TendInv, UInv, UndosKept
  <2>2. FirstIsFirst(Undo(s))
    BY <2>1 DEF UndoHeld, FirstIsFirst
  <2>3. Latest(Undo(s))'
    BY <1>0, <2>1, <2>2, LatestNext DEF TendInv, UndoHeld
  <2>4. UndoTended(s)'
    BY <1>0, UndoTendedNext DEF TendInv
  <2> QED
    BY <2>3, <2>4
<1> QED
  BY <1>1, <1>2, <1>3 DEF TendInv

LEMMA TendInit == Init => TendInv
<1> SUFFICES ASSUME Init PROVE TendInv
  OBVIOUS
<1>1. \A slot : Rows(slot) = {} /\ Free(slot)
  BY NothingHeldAtFirst DEF Rowless
<1>2. UndosKept /\ \A s \in Step : Latest(Undo(s)) /\ UndoTended(s)
  BY <1>1 DEF UndosKept, NeverRecovered, Latest, Free, UndoTended, Rowless
<1>3. NextIsQueued /\ TurnedBack
  BY DEF Init, NewContext, NextIsQueued, TurnedBack
<1> QED
  BY <1>2, <1>3, UInit DEF TendInv

LEMMA TendedUnwind ==
    ASSUME BInv, TendInv
    PROVE  UnwindTended
<1> SUFFICES ASSUME ctx.status = "COMPENSATING"
             PROVE  \E s \in Step : Custodians(Undo(s)) > 0
  BY DEF UnwindTended
<1>0. RInv /\ ctx \in Context /\ ctx.compensating
  BY DEF BInv, RInv, TInv, TendInv, TurnedBack
<1>1. CompensationOrder(ctx) # <<>>
  BY <1>0 DEF BInv, PInv, Undecided, NextRunState, TerminalRunStates
<1>2. PICK s \in Step : s = Head(CompensationOrder(ctx))
  BY <1>0, <1>1, HeadOfCompensation, RangeOfOrder DEF Context
<1>3. Current(s)
  BY <1>1, <1>2 DEF Current
<1>4. ~Settled(s) /\ ~Rowless(Undo(s))
  BY <1>0, <1>3, CurrentOpen DEF CurrentIsOpen, TendInv, NextIsQueued
<1>5. ~Free(Undo(s)) /\ InOneHand(Undo(s))
  BY <1>4 DEF TendInv, UndoTended, UInv, UndosKept, UndoHeld
<1>6. Custodians(Undo(s)) \in {0, 1} /\ Custodians(Undo(s)) # 0
  BY <1>5, HeldCounts
<1> QED
  BY <1>6

\* An unwind that has begun goes on, for every workflow - with deadlines, parallel
\* branches, undos that are retried and approvals that are decided on twice - as long as
\* no worker dies or stalls: while the log says COMPENSATING somebody has the undo to do
\* that is next (service.enqueue_next_compensation, called by whoever records something
\* while the run unwinds).  A worker that dies may leave the last attempt of an undo to
\* _fail_poisoned_step, which goes on with nothing: see the divergences in README.md.
THEOREM UnwindGoesOn ==
    ASSUME NobodyFails
    PROVE  Spec => []UnwindTended
<1> DEFINE Known == BInv /\ WorkersInv /\ TendInv
<1>1. Init => Known
  BY BInit, WorkersInit, TendInit
<1>2. Known /\ [Next]_vars => Known'
  <2> SUFFICES ASSUME Known, [Next]_vars PROVE Known'
    OBVIOUS
  <2>1. BInv'
    BY BNext
  <2>2. WorkersInv'
    BY WorkersNext DEF NobodyFails
  <2>3. TendInv'
    BY <2>1, TendNext
  <2> QED
    BY <2>1, <2>2, <2>3
<1>3. Known => UnwindTended
  BY TendedUnwind
<1> HIDE DEF Known
<1> QED
  BY <1>1, <1>2, <1>3, PTL DEF Spec

------------------------------------------------------------------------------
(* Steps nobody decides on.                                                *)

\* The steps nobody decides on.
Automatic == {s \in Step : StepType[s] # "approval"}

\* They have no deadline either, so each is always in one hand.
LEMMA AutomaticInOneHand ==
    ASSUME CInv, NEW s \in Automatic
    PROVE  /\ InOneHand(Do(s))
           /\ \A a \in Actor : request[a].pc = "checked" => request[a].step # s
<1>1. s \in Step \ Deadline /\ Decided(s)
  BY DeferringAssumption DEF Automatic, Decided
<1> QED
  BY <1>1 DEF CInv, StepHeld, Asking, Automatic

\* Nobody has one of them in hand that has succeeded.
SuccessFree == \A s \in Automatic : s \in Succeeded => Free(Do(s))

LEMMA SuccessFreeNext ==
    ASSUME BInv, SuccessFree, [Next]_vars
    PROVE  SuccessFree'
<1>0. RInv /\ TInv /\ Backed /\ CInv
  BY DEF BInv, RInv, DInv
<1> SUFFICES ASSUME NEW s \in Automatic, s \in Succeeded' PROVE Free(Do(s))'
  BY DEF SuccessFree, Automatic
<1>1. s \in Step /\ Do(s) \in Slot
  BY SlotOfTyped DEF Automatic
<1>2. CASE s \in Succeeded
  <2>1. Free(Do(s))
    BY <1>2 DEF SuccessFree
  <2>2. ~Opens(Do(s))
    BY <1>0, <1>1, <1>2, DoIsOne DEF Opens, CInv, Fresh, BInv, Queued
  <2>3. ASSUME NEW a \in Actor PROVE ~Approves(a, Do(s))
    <3> SUFFICES ASSUME Approves(a, Do(s)) PROVE FALSE
      OBVIOUS
    <3>1. request[a].pc = "checked" /\ Do(s) = Do(request[a].step)
      BY DEF Approves, ResolveApproval
    <3>2. request[a].step = s
      BY <3>1 DEF Do
    <3> QED
      BY <1>0, <3>1, <3>2, AutomaticInOneHand
  <2> QED
    BY <1>0, <1>1, <2>1, <2>2, <2>3, EveryStepHands, FreeHandedOn
<1>3. CASE s \notin Succeeded
  <2>1. ~Quiet
    BY <1>3 DEF Quiet, runVars, Succeeded
  <2>2. ~StartRun
    BY <1>0, <1>3, StartMarks
  <2>3. PICK w \in Worker : RecordOutcome(w) /\ StepOf(w) = s
    BY <1>0, <1>1, <1>3, <2>1, <2>2, EveryWriter, WritesMarks DEF WrittenBy
  <2> QED
    BY <1>0, <1>1, <2>3, AutomaticInOneHand, OutcomeFrees
<1> QED
  BY <1>2, <1>3

------------------------------------------------------------------------------
(* Waits, while no worker dies before it has finished its row.             *)

Wait == {s \in Step : StepType[s] = "wait"}

LEMMA WaitIsAutomatic == Wait \subseteq Automatic
BY DEF Wait, Automatic

\* The reaper announces only what was left behind on purpose.
ReaperOrderly == reaper = NoStep \/ reaper \in BadConfig

LEMMA ReaperOrderlyNext ==
    ASSUME HInv, Kept, ReaperOrderly, [Next]_vars
    PROVE  ReaperOrderly'
<1>1. ASSUME NEW t \in Pk, Reap(t) PROVE reaper' \in BadConfig
  BY <1>1, LeftInPeace DEF Reap, Orderly
<1> QED
  BY <1>1, ReaperSteps DEF ReaperOrderly

\* A wait gets its first row when it is scheduled, and another one only from the worker
\* that parks it.
LEMMA WaitInserts ==
    ASSUME BInv, [Next]_vars, NEW s \in Wait, NEW t \in Pk,
           SlotOf[t] = Do(s), ~Queue!Present(t), Queue!Present(t)'
    PROVE  Rowless(Do(s)) \/ \E w \in Worker : Park(w) /\ worker[w].slot = Do(s)
<1>0. TInv /\ Backed /\ CInv /\ Queue!TypeOK /\ s \in Step
  BY DEF BInv, RInv, DInv, TInv, QueueOK, Wait
<1>1. ASSUME NEW c, NEW want, Calls(c, want) PROVE Rowless(Do(s))
  <2>1. /\ Do(s) \in DOMAIN want
        /\ ~Queue!KeyTaken(Do(s), want[Do(s)].attempt)
    BY <1>0, <1>1, InsertedAttempt DEF Calls
  <2>2. ASSUME NEW a \in Actor, Approves(a, Do(s)) PROVE FALSE
    <3>1. request[a].pc = "checked" /\ Do(s) = Do(request[a].step)
      BY <2>2 DEF Approves, ResolveApproval
    <3>2. request[a].step = s
      BY <3>1 DEF Do
    <3> QED
      BY <1>0, <3>1, <3>2, AutomaticInOneHand, WaitIsAutomatic
  <2>3. /\ c \in Context /\ KeepsPending(c) /\ Do(s) \in NextWork(c)
        /\ ~Queue!KeyTaken(Do(s), 1)
    BY <1>1, <2>1, <2>2 DEF Calls
  <2> QED
    BY <1>0, <2>3, DoFirst DEF FirstIsFirst
<1>2. ASSUME NEW w \in Worker, NEW want, Postpones(w, want)
      PROVE  Park(w) /\ worker[w].slot = Do(s)
  <2>1. Do(s) \in DOMAIN want
    BY <1>0, <1>2, InsertedAttempt DEF Postpones
  <2>2. worker[w].slot = Do(s)
    BY <1>2, <2>1 DEF Postpones
  <2>3. ~RecordRetry(w)
    <3>1. StepOf(w) = s /\ ~Undoing(w)
      BY <2>2 DEF StepOf, Undoing, Do
    <3>2. CannotFail(s)
      BY DEF CannotFail, Wait
    <3> QED
      BY <3>1, <3>2 DEF RecordRetry, At, BInv, KInv, Knows
  <2> QED
    BY <1>2, <2>2, <2>3 DEF Postpones
<1> QED
  BY <1>0, <1>1, <1>2, EveryInsert DEF InsertsNone, NoNewRows

\* Somebody will come back to the wait, or has come and not yet looked at the log.
ToWake(s) ==
    \/ \E t \in Rows(Do(s)) : task[t].status = "READY"
    \/ \E w \in Worker : worker[w].pc = "claimed" /\ worker[w].slot = Do(s)

LEMMA ToWakeBefore ==
    ASSUME TInv, HInv, Kept, [Next]_vars, NEW s \in Step, s \notin BadConfig,
           Rows(Do(s))' \subseteq Rows(Do(s)), ToWake(s)'
    PROVE  ToWake(s)
<1>1. ASSUME NEW t \in Rows(Do(s))', task'[t].status = "READY" PROVE ToWake(s)
  <2>1. t \in Rows(Do(s)) /\ t \in Pk /\ Queue!Present(t) /\ SlotOf[t] = Do(s)
    BY <1>1 DEF Rows
  <2>2. ~Reap(t)
    BY <2>1, LeftInPeace DEF Orderly, Do
  <2> QED
    BY <1>1, <2>1, <2>2, ReapedBy DEF ToWake
<1>2. ASSUME NEW w \in Worker, worker'[w].pc = "claimed", worker'[w].slot = Do(s)
      PROVE  ToWake(s)
  <2>1. CASE worker'[w] = worker[w]
    BY <1>2, <2>1 DEF ToWake
  <2>2. CASE Claim(w)
    <3>1. PICK t \in Pk : Queue!ClaimTask(w, t) /\ worker'[w].slot = SlotOf[t]
      <4>1. PICK t \in Pk :
              /\ Queue!ClaimTask(w, t)
              /\ worker' = [worker EXCEPT ![w] =
                    [Idle EXCEPT !.pc = "claimed", !.slot = SlotOf[t],
                                 !.attempt = task[t].attempt]]
        BY <2>2 DEF Claim
      <4>2. worker'[w].slot = SlotOf[t]
        BY <4>1 DEF TInv, MemoryOK, Idle
      <4> QED
        BY <4>1, <4>2
    <3>2. t \in Rows(Do(s)) /\ task[t].status = "READY"
      BY <1>2, <3>1 DEF Rows, Queue!ClaimTask, Queue!Claimable
    <3> QED
      BY <3>2 DEF ToWake
  <2>3. ~Proceeds(w)
    BY <1>2 DEF Proceeds, Route
  <2> QED
    BY <1>2, <2>1, <2>2, <2>3, PcSteps
<1> QED
  BY <1>1, <1>2 DEF ToWake

\* While somebody is to come back to a wait that was parked, nobody writes about it.
LEMMA WaitsInPeace ==
    ASSUME BInv, HInv, Kept, SuccessFree, ReaperOrderly, [Next]_vars,
           NEW s \in Wait, s \notin BadConfig, ToWake(s)
    PROVE  ctx.steps[s].status = "WAITING" => ctx'.steps[s].status = "WAITING"
<1>0. TInv /\ Backed /\ CInv /\ s \in Step /\ NoStep \notin Step
  BY NoStepAssumption DEF BInv, RInv, DInv, Wait
<1>1. PICK t \in LiveRows(Do(s)) :
        \/ task[t].status = "READY"
        \/ \E v \in Worker : worker[v].pc = "claimed" /\ Queue!OwnedBy(task[t], v)
  <2>1. ASSUME NEW t \in Rows(Do(s)), task[t].status = "READY" PROVE t \in LiveRows(Do(s))
    BY <2>1, RowCounts DEF Rows
  <2>2. ASSUME NEW v \in Worker, worker[v].pc = "claimed", worker[v].slot = Do(s)
        PROVE  hand[v] \in LiveRows(Do(s)) /\ Queue!OwnedBy(task[hand[v]], v)
    BY <1>0, <2>2, BusyHolds DEF HInv, Holds, Rest, Recording
  <2> QED
    BY <2>1, <2>2 DEF ToWake
<1>2. InOneHand(Do(s))
  BY <1>0, AutomaticInOneHand, WaitIsAutomatic
<1>3. Rowless(Undo(s))
  <2>1. ~Free(Do(s))
    BY <1>1 DEF Free
  <2> QED
    BY <1>0, <2>1, WaitIsAutomatic DEF SuccessFree, BInv, UndoneAfterTurn
<1>4. ASSUME NEW w \in Worker, worker[w].pc \in Writing, StepOf(w) = s PROVE FALSE
  <2>1. worker[w].pc # "idle" /\ worker[w].pc # "claimed"
    BY <1>4 DEF Writing
  <2>2. worker[w].slot = Do(s)
    <3>1. worker[w].slot \in Slot /\ ~Rowless(worker[w].slot)
      BY <1>0, <2>1, WorkerBacked
    <3>2. worker[w].slot = Do(s) \/ worker[w].slot = Undo(s)
      BY <1>4, <3>1, SlotIsDoOrUndo DEF StepOf
    <3> QED
      BY <1>3, <3>1, <3>2
  <2>3. worker[w].pc \notin Recording /\ hand[w] = t
    BY <1>0, <1>2, <1>1, <2>1, <2>2, BusyHolds DEF InOneHand
  <2>4. Queue!OwnedBy(task[t], w)
    BY <2>1, <2>3 DEF HInv, Holds, Rest
  <2> QED
    BY <1>1, <2>1, <2>4 DEF Queue!OwnedBy
<1>5. ASSUME NEW type, NEW r, NEW c, Writes(type, r, c), WrittenBy(type, r) PROVE r # s
  <2>1. ASSUME NEW u \in Pk, ReapPoisoned(u), SlotOf[u][1] = s PROVE FALSE
    BY <2>1, LeftInPeace DEF Orderly
  <2>2. ASSUME NEW a \in Actor, ResolveApproval(a), request[a].step = s PROVE FALSE
    BY <1>0, <2>2, AutomaticInOneHand, WaitIsAutomatic DEF ResolveApproval
  <2>3. reaper # s
    BY <1>0 DEF ReaperOrderly
  <2> QED
    BY <1>4, <1>5, <2>1, <2>2, <2>3 DEF WrittenBy
<1>6. CASE Quiet
  BY <1>6 DEF Quiet, runVars
<1>7. CASE StartRun
  BY <1>0, <1>7, StartSchedules
<1>8. ASSUME NEW type, NEW r, NEW c, Writes(type, r, c), WrittenBy(type, r)
      PROVE  ctx.steps[s].status = "WAITING" => ctx'.steps[s].status = "WAITING"
  BY <1>0, <1>5, <1>8, NotWrittenAbout
<1> QED
  BY <1>0, <1>6, <1>7, <1>8, EveryWriter

\* A wait has had its first row at most: it was not parked yet ...
Once(s) == \E t : Rows(Do(s)) \subseteq {t}

\* ... or it was parked, nobody is about to park it again, and as long as somebody
\* is to come back to it the log says WAITING, which is what should_defer looks at.
Twice(s) ==
    /\ \E t, u : Rows(Do(s)) \subseteq {t, u}
    /\ s \notin BadConfig
    /\ \A w \in Worker : ~(worker[w].pc \in Deferring /\ worker[w].slot = Do(s))
    /\ ToWake(s) => ctx.steps[s].status = "WAITING"

Armed == \A s \in Wait : Once(s) \/ Twice(s)

\* Who is about to park a wait has been so, or has found that it does not wait yet.
LEMMA DefersWait ==
    ASSUME TInv, [Next]_vars, NEW s \in Wait, s \notin BadConfig,
           NEW w \in Worker, worker'[w].pc \in Deferring, worker'[w].slot = Do(s)
    PROVE  /\ worker[w].slot = Do(s)
           /\ \/ worker[w].pc \in Deferring
              \/ worker[w].pc = "claimed" /\ ctx.steps[s].status # "WAITING"
<1>1. worker[w].slot = Do(s)
  BY PcSteps DEF Deferring, Proceeds
<1>2. ASSUME LoadContext(w), Route(worker[w].slot) = "deferring"
      PROVE  worker[w].pc = "claimed" /\ ctx.steps[s].status # "WAITING"
  <2>1. Route(Do(s)) = "deferring" /\ worker[w].pc = "claimed"
    BY <1>1, <1>2 DEF LoadContext, At
  <2> QED
    BY <2>1 DEF Route, Do, DefersByDefault, DefersApproval, Wait
<1> QED
  BY <1>1, <1>2, DeferSteps

\* No row is added: what was so stays so.
LEMMA ArmedStays ==
    ASSUME BInv, HInv, Kept, SuccessFree, ReaperOrderly, [Next]_vars,
           NEW s \in Wait, Rows(Do(s))' \subseteq Rows(Do(s)), Once(s) \/ Twice(s)
    PROVE  Once(s)' \/ Twice(s)'
<1>0. TInv /\ s \in Step
  BY DEF BInv, RInv, Wait
<1>1. CASE Once(s)
  BY <1>1 DEF Once
<1>2. CASE Twice(s)
  <2>1. ASSUME NEW w \in Worker, worker'[w].pc \in Deferring, worker'[w].slot = Do(s)
        PROVE  FALSE
    <3>1. worker[w].pc = "claimed" /\ worker[w].slot = Do(s)
          /\ ctx.steps[s].status # "WAITING"
      BY <1>0, <1>2, <2>1, DefersWait DEF Twice
    <3> QED
      BY <1>2, <3>1 DEF Twice, ToWake
  <2>2. ASSUME ToWake(s)' PROVE ctx'.steps[s].status = "WAITING"
    <3>1. ToWake(s)
      BY <1>0, <1>2, <2>2, ToWakeBefore DEF Twice
    <3> QED
      BY <1>2, <3>1, WaitsInPeace DEF Twice
  <2>3. \E t, u : Rows(Do(s))' \subseteq {t, u}
    BY <1>2 DEF Twice
  <2>4. s \notin BadConfig
    BY <1>2 DEF Twice
  <2> QED
    BY <2>1, <2>2, <2>3, <2>4 DEF Twice, Do
<1> QED
  BY <1>1, <1>2

\* A row is added: the first one, or the one that parks the wait.
LEMMA ArmedAnew ==
    ASSUME BInv, BInv', HInv, [Next]_vars, NEW s \in Wait, Once(s) \/ Twice(s),
           NEW t \in Rows(Do(s))', t \notin Rows(Do(s))
    PROVE  Once(s)' \/ Twice(s)'
<1>0. RInv /\ TInv /\ CInv /\ CInv' /\ s \in Step
  BY DEF BInv, RInv, Wait
<1>1. /\ t \in Pk /\ SlotOf[t] = Do(s) /\ ~Queue!Present(t) /\ Queue!Present(t)'
      /\ t \in LiveRows(Do(s))'
  <2>1. t \in Pk /\ SlotOf[t] = Do(s) /\ ~Queue!Present(t) /\ Queue!Present(t)'
    BY DEF Rows
  <2> QED
    BY <1>0, <2>1, NewRowsLive DEF LiveRows
<1>2. Rows(Do(s))' \subseteq Rows(Do(s)) \cup {t}
  <2>1. InOneHand(Do(s))'
    <3>1. s \notin Deadline /\ Decided(s)'
      BY DeferringAssumption DEF Wait, Decided
    <3> QED
      BY <1>0, <3>1 DEF CInv, StepHeld
  <2>2. ASSUME NEW u \in Rows(Do(s))', u \notin Rows(Do(s)) PROVE u = t
    <3>1. u \in Pk /\ ~Queue!Present(u) /\ Queue!Present(u)'
      BY <2>2 DEF Rows
    <3>2. u \in LiveRows(Do(s))'
      BY <1>0, <3>1, NewRowsLive DEF LiveRows
    <3> QED
      BY <1>1, <2>1, <3>2 DEF InOneHand
  <2> QED
    BY <2>2
<1>3. CASE Rowless(Do(s))
  BY <1>2, <1>3 DEF Once, Rowless
<1>4. ASSUME NEW w \in Worker, Park(w), worker[w].slot = Do(s) PROVE Twice(s)'
  <2>1. worker[w].pc = "parking" /\ StepOf(w) = s /\ ~Undoing(w) /\ w \in Closing(Do(s))
    BY <1>4 DEF Park, At, StepOf, Undoing, Do, Closing
  <2>2. Once(s)
    BY <1>4, <2>1 DEF Twice, Deferring
  <2>3. \E u, v : Rows(Do(s))' \subseteq {u, v}
    BY <1>2, <2>2 DEF Once
  <2>4. s \notin BadConfig
    BY <2>1 DEF BInv, KInv, Knows, Configured
  <2>5. ctx'.steps[s].status = "WAITING"
    <3>1. ctx' = ApplyEvent(ctx, Event("TIMER_SET", s))
      BY <1>4, <2>1 DEF Park, Sync, After, Wait
    <3>2. ctx \in Context /\ ctx.steps[s] \in StepSlot
      BY <1>0 DEF TInv, Context
    <3>3. ctx'.steps[s] = ApplyToSlot(ctx.steps[s], "TIMER_SET")
      BY <1>0, <3>1, <3>2, AfterStepEvent DEF StepEvent
    <3> QED
      BY <3>2, <3>3 DEF ApplyToSlot, StepStatusAfter, StepSlot
  <2>6. ASSUME NEW v \in Worker, worker'[v].pc \in Deferring, worker'[v].slot = Do(s)
        PROVE  FALSE
    <3>1. worker' = [worker EXCEPT ![w] = Idle]
      BY <1>4 DEF Park
    <3>2. v # w
      BY <1>0, <2>6, <3>1 DEF TInv, MemoryOK, Idle, Deferring
    <3>3. worker[v].pc \in Deferring /\ worker[v].slot = Do(s)
      BY <1>0, <2>6, <3>1, <3>2 DEF TInv, MemoryOK
    <3>4. worker[v].pc # "idle"
      BY <3>3 DEF Deferring
    <3> QED
      BY <1>0, <2>1, <3>2, <3>3, <3>4, AutomaticInOneHand, WaitIsAutomatic, BusyAlone
  <2> QED
    BY <2>3, <2>4, <2>5, <2>6 DEF Twice, Do
<1> QED
  BY <1>1, <1>3, <1>4, WaitInserts

LEMMA ArmedNext ==
    ASSUME BInv, BInv', HInv, Kept, SuccessFree, ReaperOrderly, Armed, [Next]_vars
    PROVE  Armed'
<1> SUFFICES ASSUME NEW s \in Wait PROVE Once(s)' \/ Twice(s)'
  BY DEF Armed, Wait
<1>1. Once(s) \/ Twice(s)
  BY DEF Armed
<1>2. CASE Rows(Do(s))' \subseteq Rows(Do(s))
  BY <1>1, <1>2, ArmedStays
<1>3. ASSUME NEW t \in Rows(Do(s))', t \notin Rows(Do(s)) PROVE Once(s)' \/ Twice(s)'
  BY <1>1, <1>3, ArmedAnew
<1> QED
  BY <1>2, <1>3

LEMMA ArmedCounts ==
    ASSUME Armed
    PROVE  ArmedOnce
<1> SUFFICES ASSUME NEW s \in Wait PROVE Cardinality(Rows(Do(s))) <= 2
  BY DEF ArmedOnce, Wait
<1>1. PICK t, u : Rows(Do(s)) \subseteq {t, u}
  BY DEF Armed, Once, Twice
<1>2. IsFiniteSet({t, u}) /\ Cardinality({t, u}) \in {1, 2}
  <2>1. IsFiniteSet({t}) /\ Cardinality({t}) = 1
    BY FS_Singleton
  <2>2. {t} \cup {u} = {t, u}
    OBVIOUS
  <2>3. IsFiniteSet({t, u}) /\ (Cardinality({t, u}) = 1 \/ Cardinality({t, u}) = 1 + 1)
    BY <2>1, <2>2, FS_AddElement
  <2> QED
    BY <2>3
<1>3. Cardinality(Rows(Do(s))) \in Nat /\ Cardinality(Rows(Do(s))) <= Cardinality({t, u})
  BY <1>1, <1>2, RowsFinite, FS_Subset
<1> QED
  BY <1>2, <1>3

\* A wait is armed once, for every workflow and for a reaper that is as slow as it likes
\* or dies, as long as workers finish their rows: a step that was parked and came back is
\* not parked again (StepPlugin.should_defer).  A worker may die after it has finished the
\* row; the wait is then never resumed, and so not armed again either.
THEOREM WaitsArmOnce ==
    ASSUME RowsSafe
    PROVE  Spec => []ArmedOnce
<1> DEFINE Known == BInv /\ WorkersInv /\ SuccessFree /\ ReaperOrderly /\ Armed
<1>1. Init => Known
  <2> SUFFICES ASSUME Init PROVE Known
    OBVIOUS
  <2>1. SuccessFree /\ Armed
    BY NothingHeldAtFirst DEF SuccessFree, Armed, Once, Rowless
  <2>2. ReaperOrderly
    BY DEF Init, ReaperOrderly
  <2> QED
    BY <2>1, <2>2, BInit, WorkersInit
<1>2. Known /\ [Next]_vars => Known'
  <2> SUFFICES ASSUME Known, [Next]_vars PROVE Known'
    OBVIOUS
  <2>1. BInv' /\ WorkersInv'
    BY BNext, WorkersNext
  <2>2. SuccessFree' /\ ReaperOrderly'
    BY SuccessFreeNext, ReaperOrderlyNext DEF WorkersInv
  <2>3. Armed'
    BY <2>1, ArmedNext DEF WorkersInv
  <2> QED
    BY <2>1, <2>2, <2>3
<1>3. Known => ArmedOnce
  BY ArmedCounts
<1> HIDE DEF Known
<1> QED
  BY <1>1, <1>2, <1>3, PTL DEF Spec
===============================================================================
