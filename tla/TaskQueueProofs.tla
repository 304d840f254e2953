--------------------------- MODULE TaskQueueProofs ---------------------------
(***************************************************************************)
(* The task queue is type correct and fenced, for every number of workers  *)
(* and rows and every bound on attempts.  The inductive invariant is the   *)
(* conjunction of the invariants and two strengthenings, NothingHanded and *)
(* HandExists.                                                             *)
(***************************************************************************)
EXTENDS TaskQueue, TLAPS

\* A row that does not exist yet has been handed to nobody.
NothingHanded == \A t \in Task : ~Present(t) => handed[t] = {}

\* Nobody processes a row that does not exist.
HandExists == \A w \in Worker : hand[w] # NoTask => Present(hand[w])

Inv ==
    /\ TypeOK
    /\ Fencing
    /\ LostIsSound
    /\ FreshKeyOnRedelivery
    /\ NothingHanded
    /\ HandExists

------------------------------------------------------------------------------
(* The statements that write a row keep it well formed.                    *)

\* What enqueue_step inserts is well formed.
LEMMA ReadyRowOK ==
    ASSUME NEW attempt \in Nat \ {0}, NEW due \in BOOLEAN
    PROVE  WellFormed(ReadyRow(attempt, due))
BY DEF WellFormed, Row, ReadyRow, TaskStatus

\* What claim_task and the later statements write is well formed.
LEMMA WritesOK ==
    ASSUME NEW row, WellFormed(row)
    PROVE  /\ \A w \in Worker : WellFormed(Claimed(row, w))
           /\ row.status = "LEASED" => WellFormed(Renewed(row))
           /\ WellFormed(Finished(row))
           /\ WellFormed(Recovered(row))
           /\ WellFormed([row EXCEPT !.due = TRUE])
           /\ WellFormed([row EXCEPT !.fresh = FALSE])
<1>1. \A w \in Worker : WellFormed(Claimed(row, w))
  BY NobodyAssumption DEF Claimed, WellFormed, Row, TaskStatus
<1>2. row.status = "LEASED" => WellFormed(Renewed(row))
  BY DEF Renewed, WellFormed, Row
<1>3. WellFormed(Finished(row))
  BY DEF Finished, WellFormed, Row, TaskStatus
<1>4. WellFormed(Recovered(row))
  <2>1. row.attempt \in Nat \ {0}
    BY DEF WellFormed, Row
  <2>2. row.attempt + 1 \in Nat \ {0}
    BY <2>1
  <2> QED
    BY <2>2, ReadyRowOK DEF Recovered
<1>5. WellFormed([row EXCEPT !.due = TRUE])
  BY DEF WellFormed, Row
<1>6. WellFormed([row EXCEPT !.fresh = FALSE])
  BY DEF WellFormed, Row
<1> QED
  BY <1>1, <1>2, <1>3, <1>4, <1>5, <1>6

\* A well-formed row is not the absence of a row.
LEMMA RowIsPresent == \A row : WellFormed(row) => row # NoRow
BY NoRowAssumption DEF WellFormed
------------------------------------------------------------------------------
(* The invariant holds initially and every action preserves it.            *)

LEMMA InitInv == Init => Inv
BY NoTaskAssumption
   DEF Init, Inv, TypeOK, Present, Done, Fencing, LostIsSound,
       FreshKeyOnRedelivery, NothingHanded, HandExists

\* Changing one row into a well-formed row, and nothing else in the table.
LEMMA TableOK ==
    ASSUME TypeOK, NEW t \in Task, NEW row, WellFormed(row),
           task' = [task EXCEPT ![t] = row]
    PROVE  /\ task' \in [Task -> Row \cup {NoRow}]
           /\ \A u \in Task : Present(u)' => WellFormed(task'[u])
           /\ Present(t)' /\ task'[t] = row
           /\ \A u \in Task : u # t => task'[u] = task[u]
           /\ \A u \in Task : u # t => (Present(u)' <=> Present(u))
BY RowIsPresent DEF TypeOK, Present, WellFormed

\* Inserting rows disturbs no row that exists.
LEMMA EnqueueInv ==
    ASSUME Inv, NEW new \in SUBSET Task,
           NEW attempt \in [new -> Nat \ {0}], NEW due \in [new -> BOOLEAN],
           EnqueueSteps(new, attempt, due)
    PROVE  Inv'
<1> USE DEF Inv, EnqueueSteps
<1>1. \A t \in new : WellFormed(task'[t]) /\ Present(t)' /\ ~Present(t)
  <2> TAKE t \in new
  <2>1. attempt[t] \in Nat \ {0} /\ due[t] \in BOOLEAN
    OBVIOUS
  <2>2. task'[t] = ReadyRow(attempt[t], due[t])
    BY DEF TypeOK
  <2> QED
    BY <2>1, <2>2, ReadyRowOK, RowIsPresent DEF Present
<1>2. \A t \in Task \ new : task'[t] = task[t] /\ (Present(t)' <=> Present(t))
  BY DEF TypeOK, Present
<1>3. TypeOK'
  <2>1. task' \in [Task -> Row \cup {NoRow}]
    BY <1>1, <1>2 DEF TypeOK, WellFormed
  <2>2. \A t \in Task : Present(t)' => WellFormed(task'[t])
    BY <1>1, <1>2 DEF TypeOK
  <2> QED
    BY <2>1, <2>2 DEF TypeOK
<1>4. Fencing'
  BY <1>1, <1>2 DEF TypeOK, Fencing, Done
<1>5. LostIsSound'
  BY <1>1, <1>2 DEF TypeOK, LostIsSound, OwnedBy, ReadyRow
<1>6. FreshKeyOnRedelivery'
  BY <1>1, <1>2 DEF FreshKeyOnRedelivery, NothingHanded
<1>7. NothingHanded'
  BY <1>1, <1>2 DEF NothingHanded
<1>8. HandExists'
  BY <1>1, <1>2 DEF HandExists, TypeOK
<1> QED
  BY <1>3, <1>4, <1>5, <1>6, <1>7, <1>8

\* Time passing and the reaper: one row changes, in a way that keeps DONE rows
\* DONE, takes leases away but grants none, and raises attempts.
LEMMA RowStepInv ==
    ASSUME Inv, NEW t \in Task, RowStep(t)
    PROVE  Inv'
<1>1. TypeOK /\ Present(t) /\ WellFormed(task[t])
  BY DEF Inv, RowStep, TimerDue, LeaseLapses, Reap, ReapPoisoned, TypeOK
<1>2. UNCHANGED <<hand, lost, handed, outcomes>>
  BY DEF RowStep, TimerDue, LeaseLapses, Reap, ReapPoisoned
<1>3. PICK row :
        /\ WellFormed(row)
        /\ task' = [task EXCEPT ![t] = row]
        /\ task[t].status = "DONE" => row.status = "DONE"
        /\ \A w \in Worker : OwnedBy(row, w) => OwnedBy(task[t], w)
        /\ \/ /\ row.attempt = task[t].attempt
              /\ row.status = "READY" => task[t].status = "READY"
           \/ row.attempt = task[t].attempt + 1
  <2>1. CASE TimerDue(t)
    <3> WITNESS [task[t] EXCEPT !.due = TRUE]
    <3> QED
      BY <1>1, <2>1, WritesOK DEF TimerDue, WellFormed, Row, OwnedBy
  <2>2. CASE LeaseLapses(t)
    <3> WITNESS [task[t] EXCEPT !.fresh = FALSE]
    <3> QED
      BY <1>1, <2>2, WritesOK DEF LeaseLapses, WellFormed, Row, OwnedBy
  <2>3. CASE Reap(t)
    <3> WITNESS Recovered(task[t])
    <3>1. WellFormed(Recovered(task[t]))
      BY <1>1, WritesOK
    <3> QED
      BY <1>1, <2>3, <3>1 DEF Reap, TypeOK, Lapsed, Recovered, ReadyRow, OwnedBy
  <2>4. CASE ReapPoisoned(t)
    <3> WITNESS Finished(task[t])
    <3>1. WellFormed(Finished(task[t]))
      BY <1>1, WritesOK
    <3> QED
      BY <1>1, <2>4, <3>1
         DEF ReapPoisoned, TypeOK, Finished, OwnedBy, WellFormed, Row
  <2> QED
    BY <2>1, <2>2, <2>3, <2>4 DEF RowStep
<1>4. /\ task' \in [Task -> Row \cup {NoRow}]
      /\ \A u \in Task : Present(u)' => WellFormed(task'[u])
      /\ Present(t)' /\ task'[t] = row
      /\ \A u \in Task : u # t => task'[u] = task[u] /\ (Present(u)' <=> Present(u))
  BY <1>1, <1>3, TableOK
<1>5. TypeOK'
  BY <1>1, <1>2, <1>4 DEF TypeOK
<1>6. Fencing'
  BY <1>1, <1>2, <1>3, <1>4 DEF Inv, Fencing, Done
<1>7. LostIsSound'
  BY <1>1, <1>2, <1>3, <1>4 DEF Inv, LostIsSound, TypeOK
<1>8. FreshKeyOnRedelivery'
  <2> SUFFICES ASSUME NEW u \in Task, Present(u)'
               PROVE  /\ \A a \in handed[u] : a <= task'[u].attempt
                      /\ task'[u].status = "READY" => task'[u].attempt \notin handed[u]
    BY <1>2 DEF FreshKeyOnRedelivery
  <2>1. CASE u = t
    <3>1. /\ \A a \in handed[t] : a <= task[t].attempt
          /\ task[t].status = "READY" => task[t].attempt \notin handed[t]
          /\ handed[t] \subseteq Nat
          /\ task[t].attempt \in Nat
      BY <1>1 DEF Inv, FreshKeyOnRedelivery, TypeOK, WellFormed, Row
    <3> QED
      BY <1>3, <1>4, <2>1, <3>1
  <2>2. CASE u # t
    BY <1>4, <2>2 DEF Inv, FreshKeyOnRedelivery
  <2> QED
    BY <2>1, <2>2
<1>9. NothingHanded'
  BY <1>1, <1>2, <1>4 DEF Inv, NothingHanded
<1>10. HandExists'
  BY <1>1, <1>2, <1>4 DEF Inv, HandExists, TypeOK
<1> QED
  BY <1>5, <1>6, <1>7, <1>8, <1>9, <1>10 DEF Inv

\* Claiming: the row was READY, so it has had no outcome; its attempt number has
\* not been handed out; and a worker whose heartbeat is lost has another row, or
\* the row's new owner is not that worker.
LEMMA ClaimInv ==
    ASSUME Inv, NEW w \in Worker, NEW t \in Task, ClaimTask(w, t)
    PROVE  Inv'
<1> USE DEF Inv, ClaimTask, Claimable
<1>1. WellFormed(task[t]) /\ WellFormed(Claimed(task[t], w))
  BY WritesOK DEF TypeOK
<1>2. /\ task' \in [Task -> Row \cup {NoRow}]
      /\ \A u \in Task : Present(u)' => WellFormed(task'[u])
      /\ Present(t)' /\ task'[t] = Claimed(task[t], w)
      /\ \A u \in Task : u # t => task'[u] = task[u] /\ (Present(u)' <=> Present(u))
  BY <1>1, TableOK
<1>3. /\ task'[t].status = "LEASED"
      /\ task'[t].owner = w
      /\ task'[t].attempt = task[t].attempt
  BY <1>1, <1>2 DEF Claimed, WellFormed, Row
<1>4. task[t].attempt \in Nat \ {0}
  BY <1>1 DEF WellFormed, Row
<1>5. handed' = [handed EXCEPT ![t] = @ \cup {task[t].attempt}]
  OBVIOUS
<1>6. TypeOK'
  BY <1>2, <1>4, <1>5 DEF TypeOK
<1>7. Fencing'
  BY <1>2, <1>3 DEF Fencing, Done
<1>8. LostIsSound'
  BY <1>2, <1>3, NoTaskAssumption DEF LostIsSound, OwnedBy, TypeOK
<1>9. FreshKeyOnRedelivery'
  BY <1>2, <1>3, <1>4, <1>5 DEF FreshKeyOnRedelivery, TypeOK
<1>10. NothingHanded'
  BY <1>2, <1>5 DEF NothingHanded, TypeOK
<1>11. HandExists'
  BY <1>2 DEF HandExists, TypeOK
<1> QED
  BY <1>6, <1>7, <1>8, <1>9, <1>10, <1>11

\* A heartbeat writes only a row its worker owns; one that finds the row is not
\* owned reports the loss, and ownership cannot come back.
LEMMA RenewInv ==
    ASSUME Inv, NEW w \in Worker, RenewLease(w)
    PROVE  Inv'
<1> USE DEF Inv
<1>1. CASE OwnedBy(task[hand[w]], w)
  <2>0. PICK t \in Task : t = hand[w]
    BY DEF RenewLease, TypeOK
  <2>1. /\ Present(t) /\ WellFormed(task[t]) /\ WellFormed(Renewed(task[t]))
        /\ task' = [task EXCEPT ![t] = Renewed(task[t])]
        /\ UNCHANGED <<hand, lost, handed, outcomes>>
    <3>1. /\ task' = [task EXCEPT ![t] = Renewed(task[t])]
          /\ UNCHANGED <<hand, lost, handed, outcomes>>
      BY <1>1, <2>0 DEF RenewLease, TypeOK
    <3>2. Present(t)
      BY <2>0 DEF RenewLease, HandExists
    <3>3. WellFormed(task[t]) /\ task[t].status = "LEASED"
      BY <1>1, <2>0, <3>2 DEF TypeOK, OwnedBy
    <3> QED
      BY <3>1, <3>2, <3>3, WritesOK
  <2>2. /\ task' \in [Task -> Row \cup {NoRow}]
        /\ \A u \in Task : Present(u)' => WellFormed(task'[u])
        /\ Present(t)' /\ task'[t] = Renewed(task[t])
        /\ \A u \in Task : u # t => task'[u] = task[u] /\ (Present(u)' <=> Present(u))
    BY <2>1, TableOK
  <2>3. /\ task'[t].status = task[t].status
        /\ task'[t].owner = task[t].owner
        /\ task'[t].attempt = task[t].attempt
    BY <2>1, <2>2 DEF Renewed, WellFormed, Row
  <2>4. TypeOK'
    BY <2>1, <2>2 DEF TypeOK
  <2>5. Fencing'
    BY <2>1, <2>2, <2>3 DEF Fencing, Done
  <2>6. LostIsSound'
    BY <2>1, <2>2, <2>3 DEF LostIsSound, OwnedBy, TypeOK
  <2>7. FreshKeyOnRedelivery'
    BY <2>1, <2>2, <2>3 DEF FreshKeyOnRedelivery
  <2>8. NothingHanded'
    BY <2>1, <2>2 DEF NothingHanded
  <2>9. HandExists'
    BY <2>1, <2>2 DEF HandExists, TypeOK
  <2> QED
    BY <2>4, <2>5, <2>6, <2>7, <2>8, <2>9
<1>2. CASE ~OwnedBy(task[hand[w]], w)
  BY <1>2 DEF RenewLease, TypeOK, Fencing, LostIsSound, FreshKeyOnRedelivery,
              NothingHanded, HandExists, Present, Done, OwnedBy
<1> QED
  BY <1>1, <1>2

\* The fencing check passes for a LEASED row only, whose outcome is still open.
LEMMA FinishInv ==
    ASSUME Inv, NEW w \in Worker, FinishTaskIfOwned(w)
    PROVE  Inv'
<1> USE DEF Inv, FinishTaskIfOwned, LetGo
<1>0. PICK t \in Task : t = hand[w]
  BY DEF TypeOK
<1>1. Present(t) /\ task[t].status = "LEASED"
  BY <1>0 DEF TypeOK, OwnedBy, HandExists
<1>2. WellFormed(task[t]) /\ WellFormed(Finished(task[t]))
  BY <1>1, WritesOK DEF TypeOK
<1>3. /\ task' = [task EXCEPT ![t] = Finished(task[t])]
      /\ outcomes' = [outcomes EXCEPT ![t] = outcomes[t] + 1]
      /\ hand' = [hand EXCEPT ![w] = NoTask]
      /\ lost' = [lost EXCEPT ![w] = FALSE]
      /\ handed' = handed
  BY <1>0
<1> HIDE DEF FinishTaskIfOwned, LetGo
<1>4. /\ task' \in [Task -> Row \cup {NoRow}]
      /\ \A u \in Task : Present(u)' => WellFormed(task'[u])
      /\ Present(t)' /\ task'[t] = Finished(task[t])
      /\ \A u \in Task : u # t => task'[u] = task[u] /\ (Present(u)' <=> Present(u))
  BY <1>1, <1>2, <1>3, TableOK
<1>5. task'[t].status = "DONE" /\ task'[t].attempt = task[t].attempt
  BY <1>2, <1>4 DEF Finished, WellFormed, Row
<1>6. outcomes[t] = 0 /\ outcomes'[t] = 1
  BY <1>1, <1>3 DEF Fencing, Done, TypeOK
<1>7. TypeOK'
  BY <1>1, <1>3, <1>4 DEF TypeOK
<1>8. Fencing'
  BY <1>3, <1>4, <1>5, <1>6 DEF Fencing, Done, TypeOK
<1>9. LostIsSound'
  BY <1>3, <1>4, <1>5 DEF LostIsSound, OwnedBy, TypeOK
<1>10. FreshKeyOnRedelivery'
  BY <1>1, <1>3, <1>4, <1>5 DEF FreshKeyOnRedelivery
<1>11. NothingHanded'
  BY <1>3, <1>4 DEF NothingHanded
<1>12. HandExists'
  BY <1>3, <1>4 DEF HandExists, TypeOK
<1> QED
  BY <1>7, <1>8, <1>9, <1>10, <1>11, <1>12

\* Giving up on a row, or dying with it, leaves the table alone.
LEMMA LetGoInv ==
    ASSUME Inv, NEW w \in Worker, Abandon(w) \/ Crash(w)
    PROVE  Inv'
BY DEF Inv, Abandon, Crash, LetGo, TypeOK, Fencing, LostIsSound, OwnedBy,
       FreshKeyOnRedelivery, NothingHanded, HandExists, Present, Done

LEMMA NextInv == Inv /\ [Next]_vars => Inv'
<1> SUFFICES ASSUME Inv, [Next]_vars
             PROVE  Inv'
  OBVIOUS
<1>1. CASE Enqueue
  <2>1. PICK new \in SUBSET Task :
          \E attempt \in [new -> 1..MaxAttempt], due \in [new -> BOOLEAN] :
            EnqueueSteps(new, attempt, due)
    BY <1>1 DEF Enqueue
  <2>2. PICK attempt \in [new -> 1..MaxAttempt], due \in [new -> BOOLEAN] :
            EnqueueSteps(new, attempt, due)
    BY <2>1
  <2>3. attempt \in [new -> Nat \ {0}]
    BY MaxAttemptAssumption
  <2> QED
    BY <2>2, <2>3, EnqueueInv
<1>2. ASSUME NEW w \in Worker, WorkerStep(w)
      PROVE  Inv'
  BY <1>2, ClaimInv, RenewInv, FinishInv, LetGoInv DEF WorkerStep
<1>3. ASSUME NEW t \in Task, RowStep(t)
      PROVE  Inv'
  BY <1>3, RowStepInv
<1>4. CASE UNCHANGED vars
  BY <1>4 DEF vars, Inv, TypeOK, Fencing, LostIsSound, FreshKeyOnRedelivery,
              NothingHanded, HandExists, Present, Done
<1> QED
  BY <1>1, <1>2, <1>3, <1>4 DEF Next

\* A write to one existing row that neither reopens it nor lowers its attempt.
LEMMA WriteDoneStays ==
    ASSUME TypeOK, NEW t \in Task, Present(t), NEW row, WellFormed(row),
           task' = [task EXCEPT ![t] = row],
           row.attempt >= task[t].attempt,
           Done(t) => row.status = "DONE" /\ outcomes'[t] = outcomes[t],
           \A u \in Task : u # t => outcomes'[u] = outcomes[u]
    PROVE  DoneStays
<1>1. /\ Present(t)' /\ task'[t] = row
      /\ \A u \in Task : u # t => task'[u] = task[u] /\ (Present(u)' <=> Present(u))
  BY TableOK
<1>2. \A u \in Task : Present(u) => task[u].attempt >= task[u].attempt
  BY DEF TypeOK, WellFormed, Row
<1> QED
  BY <1>1, <1>2 DEF DoneStays, Done

\* A step that writes no row and lets no outcome through.
LEMMA NoWriteDoneStays ==
    ASSUME TypeOK, UNCHANGED <<task, outcomes>>
    PROVE  DoneStays
BY DEF TypeOK, WellFormed, Row, DoneStays, Done, Present

\* No worker reopens a finished row.
LEMMA WorkerDoneStays ==
    ASSUME Inv, NEW w \in Worker, WorkerStep(w)
    PROVE  DoneStays
<1>1. TypeOK
  BY DEF Inv
<1>2. ASSUME NEW t \in Task, ClaimTask(w, t)
      PROVE  DoneStays
  <2>1. Present(t) /\ WellFormed(task[t]) /\ task[t].status = "READY"
    BY <1>1, <1>2 DEF ClaimTask, Claimable, TypeOK
  <2>2. Claimed(task[t], w).attempt >= task[t].attempt
    BY <2>1 DEF Claimed, WellFormed, Row
  <2> QED
    BY <1>1, <1>2, <2>1, <2>2, WritesOK, WriteDoneStays DEF ClaimTask, Done
<1>3. ASSUME NEW t \in Task, t = hand[w], OwnedBy(task[t], w),
             RenewLease(w) \/ FinishTaskIfOwned(w)
      PROVE  DoneStays
  <2>1. Present(t) /\ WellFormed(task[t]) /\ task[t].status = "LEASED"
    BY <1>1, <1>3, NoTaskAssumption DEF Inv, HandExists, OwnedBy, TypeOK
  <2>2. /\ Renewed(task[t]).attempt >= task[t].attempt
        /\ Finished(task[t]).attempt >= task[t].attempt
    BY <2>1 DEF Renewed, Finished, WellFormed, Row
  <2>3. CASE RenewLease(w)
    <3>1. task' = [task EXCEPT ![t] = Renewed(task[t])] /\ UNCHANGED outcomes
      BY <1>3, <2>3 DEF RenewLease
    <3> QED
      BY <1>1, <2>1, <2>2, <3>1, WritesOK, WriteDoneStays DEF Done
  <2>4. CASE FinishTaskIfOwned(w)
    <3>1. /\ task' = [task EXCEPT ![t] = Finished(task[t])]
          /\ \A u \in Task : u # t => outcomes'[u] = outcomes[u]
      BY <1>1, <1>3, <2>4 DEF FinishTaskIfOwned, TypeOK
    <3> QED
      BY <1>1, <2>1, <2>2, <3>1, WritesOK, WriteDoneStays DEF Done
  <2> QED
    BY <1>3, <2>3, <2>4
<1>4. CASE UNCHANGED <<task, outcomes>>
  BY <1>1, <1>4, NoWriteDoneStays
<1> QED
  BY <1>1, <1>2, <1>3, <1>4
     DEF WorkerStep, RenewLease, FinishTaskIfOwned, Abandon, Crash, TypeOK

\* Neither the clock nor the reaper reopens a finished row.
LEMMA RowDoneStays ==
    ASSUME Inv, NEW t \in Task, RowStep(t)
    PROVE  DoneStays
<1>1. TypeOK /\ Present(t) /\ WellFormed(task[t]) /\ UNCHANGED outcomes
  BY DEF Inv, RowStep, TimerDue, LeaseLapses, Reap, ReapPoisoned, TypeOK
<1>2. task[t].attempt \in Nat
  BY <1>1 DEF WellFormed, Row
<1>3. CASE TimerDue(t)
  <2>1. [task[t] EXCEPT !.due = TRUE].attempt >= task[t].attempt
    BY <1>1, <1>2 DEF WellFormed, Row
  <2>2. [task[t] EXCEPT !.due = TRUE].status = task[t].status
    BY <1>1 DEF WellFormed, Row
  <2>3. task' = [task EXCEPT ![t] = [task[t] EXCEPT !.due = TRUE]]
    BY <1>3 DEF TimerDue
  <2>4. WellFormed([task[t] EXCEPT !.due = TRUE])
    BY <1>1, WritesOK
  <2> QED
    BY <1>1, <2>1, <2>2, <2>3, <2>4, WriteDoneStays DEF Done
<1>4. CASE LeaseLapses(t)
  <2>1. [task[t] EXCEPT !.fresh = FALSE].attempt >= task[t].attempt
    BY <1>1, <1>2 DEF WellFormed, Row
  <2>2. task' = [task EXCEPT ![t] = [task[t] EXCEPT !.fresh = FALSE]]
        /\ task[t].status = "LEASED"
    BY <1>4 DEF LeaseLapses
  <2>3. WellFormed([task[t] EXCEPT !.fresh = FALSE])
    BY <1>1, WritesOK
  <2> QED
    BY <1>1, <2>1, <2>2, <2>3, WriteDoneStays DEF Done
<1>5. CASE Reap(t)
  <2>1. Recovered(task[t]).attempt >= task[t].attempt
    BY <1>2 DEF Recovered, ReadyRow
  <2>2. task' = [task EXCEPT ![t] = Recovered(task[t])] /\ task[t].status = "LEASED"
    BY <1>5 DEF Reap, Lapsed
  <2> QED
    BY <1>1, <2>1, <2>2, WritesOK, WriteDoneStays DEF Done
<1>6. CASE ReapPoisoned(t)
  <2>1. Finished(task[t]).attempt >= task[t].attempt
    BY <1>1, <1>2 DEF Finished, WellFormed, Row
  <2>2. task' = [task EXCEPT ![t] = Finished(task[t])] /\ task[t].status = "LEASED"
    BY <1>6 DEF ReapPoisoned, Lapsed
  <2> QED
    BY <1>1, <2>1, <2>2, WritesOK, WriteDoneStays DEF Done
<1> QED
  BY <1>3, <1>4, <1>5, <1>6 DEF RowStep

\* No step does.
LEMMA NextDoneStays == Inv /\ Next => DoneStays
<1> SUFFICES ASSUME Inv, Next
             PROVE  DoneStays
  OBVIOUS
<1>1. CASE Enqueue
  <2>1. \A t \in Task : Present(t) => task'[t] = task[t]
    BY <1>1 DEF Enqueue, EnqueueSteps
  <2>2. UNCHANGED outcomes
    BY <1>1 DEF Enqueue, EnqueueSteps
  <2>3. \A t \in Task : Present(t) => task[t].attempt >= task[t].attempt
    BY DEF Inv, TypeOK, WellFormed, Row
  <2> QED
    BY <2>1, <2>2, <2>3 DEF DoneStays, Done, Present
<1> QED
  BY <1>1, WorkerDoneStays, RowDoneStays DEF Next

------------------------------------------------------------------------------
(* Theorems.                                                               *)

\* The inductive invariant holds throughout.
THEOREM Invariance == Spec => []Inv
BY InitInv, NextInv, PTL DEF Spec

\* The queue is type correct.
THEOREM TypeCorrect == Spec => []TypeOK
<1>1. Inv => TypeOK
  BY DEF Inv
<1> QED
  BY <1>1, Invariance, PTL

\* At most one outcome per row is let through, and only with the row DONE,
\* however many workers stalled with it or died of it.
THEOREM FencingHolds == Spec => []Fencing
<1>1. Inv => Fencing
  BY DEF Inv
<1> QED
  BY <1>1, Invariance, PTL

\* A heartbeat that reports the lease lost is right.
THEOREM HeartbeatSound == Spec => []LostIsSound
<1>1. Inv => LostIsSound
  BY DEF Inv
<1> QED
  BY <1>1, Invariance, PTL

\* A row is never handed out twice under one idempotency key.
THEOREM FreshKeys == Spec => []FreshKeyOnRedelivery
<1>1. Inv => FreshKeyOnRedelivery
  BY DEF Inv
<1> QED
  BY <1>1, Invariance, PTL

\* A finished row stays finished.
THEOREM DoneFinal == Spec => DoneIsFinal
BY Invariance, NextDoneStays, PTL DEF Spec, DoneIsFinal
==============================================================================
