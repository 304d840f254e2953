------------------------------- MODULE EventLog -------------------------------
(***************************************************************************)
(* The event log of one run and service.append_event: optimistic append,   *)
(* arbitrated by UNIQUE(run, seq).  The writers are the transactions that  *)
(* workers, the reaper and the approval API run; they are read-committed   *)
(* PostgreSQL transactions (Django's default), so                          *)
(*   - a writer sees committed rows and its own;                           *)
(*   - an insert whose key another transaction has inserted and not yet    *)
(*     committed waits for that transaction to end;                        *)
(*   - an insert whose key is committed raises IntegrityError, which       *)
(*     undoes only the savepoint around the insert.                        *)
(***************************************************************************)
EXTENDS Naturals

CONSTANTS
    Writer,
    MaxRetries,         \* MAX_SEQ_CONTENTION_RETRIES
    MaxBatch,           \* bound: events per transaction
    MaxLog              \* bound: no transaction begins on a log this long

ASSUME RetriesAssumption == MaxRetries \in Nat \ {0}
ASSUME BatchAssumption == MaxBatch \in Nat \ {0}
ASSUME LogAssumption == MaxLog \in Nat

VARIABLES
    rows,               \* the committed rows of run_events
    lastSeq,            \* the committed Run.last_seq
    draft,              \* the sequence numbers each writer has inserted so far
    pc,                 \* what each writer does next
    seen,               \* run.last_seq in each writer's memory
    tries,              \* collisions in the current call of append_event
    overtaken           \* history: commits by others during that call

vars == <<rows, lastSeq, draft, pc, seen, tries, overtaken>>

Seqs == {e.seq : e \in rows}

Init ==
    /\ rows = {}
    /\ lastSeq = 0
    /\ draft = [w \in Writer |-> {}]
    /\ pc = [w \in Writer |-> "idle"]
    /\ seen = [w \in Writer |-> 0]
    /\ tries = [w \in Writer |-> 0]
    /\ overtaken = [w \in Writer |-> 0]

\* append_event is called.
Enter(w) ==
    /\ pc' = [pc EXCEPT ![w] = "refresh"]
    /\ tries' = [tries EXCEPT ![w] = 0]
    /\ overtaken' = [overtaken EXCEPT ![w] = 0]
    /\ UNCHANGED <<rows, lastSeq, draft, seen>>

Begin(w) == pc[w] = "idle" /\ lastSeq < MaxLog /\ Enter(w)

\* The same transaction appends another event (STEP_SCHEDULED, RUN_FAILED, ...).
AppendAnother(w) == pc[w] = "appended" /\ seen[w] < lastSeq + MaxBatch /\ Enter(w)

\* Mutant: the number to insert is taken one too low.
RefreshBehind(w) ==
    /\ pc[w] = "refresh"
    /\ pc' = [pc EXCEPT ![w] = "insert"]
    /\ seen' = [seen EXCEPT ![w] = IF draft[w] = {} THEN lastSeq - 1 ELSE @]
    /\ UNCHANGED <<rows, lastSeq, draft, tries, overtaken>>

\* Mutant: last_seq is read once and not again after a collision.
RefreshOnce(w) ==
    /\ pc[w] = "refresh"
    /\ pc' = [pc EXCEPT ![w] = "insert"]
    /\ seen' = [seen EXCEPT ![w] = IF tries[w] = 0 /\ draft[w] = {} THEN lastSeq ELSE @]
    /\ UNCHANGED <<rows, lastSeq, draft, tries, overtaken>>

\* run.refresh_from_db: the committed last_seq, or the one this transaction wrote.
Refresh(w) ==
    /\ pc[w] = "refresh"
    /\ pc' = [pc EXCEPT ![w] = "insert"]
    /\ seen' = [seen EXCEPT ![w] = IF draft[w] = {} THEN lastSeq ELSE @]
    /\ UNCHANGED <<rows, lastSeq, draft, tries, overtaken>>

\* Mutant: no unique index arbitrates between open transactions.
InsertUnarbitrated(w) ==
    /\ pc[w] = "insert"
    /\ seen[w] + 1 \notin Seqs
    /\ draft' = [draft EXCEPT ![w] = @ \cup {seen[w] + 1}]
    /\ seen' = [seen EXCEPT ![w] = @ + 1]
    /\ pc' = [pc EXCEPT ![w] = "appended"]
    /\ UNCHANGED <<rows, lastSeq, tries, overtaken>>

\* RunEvent.create succeeds, and Run.last_seq is updated with it.
Insert(w) ==
    LET seq == seen[w] + 1
    IN  /\ pc[w] = "insert"
        /\ seq \notin Seqs
        /\ \A v \in Writer : seq \notin draft[v]
        /\ draft' = [draft EXCEPT ![w] = @ \cup {seq}]
        /\ seen' = [seen EXCEPT ![w] = seq]
        /\ pc' = [pc EXCEPT ![w] = "appended"]
        /\ UNCHANGED <<rows, lastSeq, tries, overtaken>>

\* Mutant: the transaction is left open.
RollBackLeavingRows(w) == pc' = [pc EXCEPT ![w] = "idle"] /\ UNCHANGED draft

RollBack(w) ==
    /\ pc' = [pc EXCEPT ![w] = "idle"]
    /\ draft' = [draft EXCEPT ![w] = {}]

\* IntegrityError: read again, or raise RuntimeError after the last attempt,
\* which takes the whole transaction with it.
Collide(w) ==
    /\ pc[w] = "insert"
    /\ seen[w] + 1 \in Seqs
    /\ tries' = [tries EXCEPT ![w] = @ + 1]
    /\ IF tries[w] + 1 < MaxRetries
       THEN pc' = [pc EXCEPT ![w] = "refresh"] /\ UNCHANGED draft
       ELSE RollBack(w)
    /\ UNCHANGED <<rows, lastSeq, seen, overtaken>>

\* Mutant: the event is inserted and last_seq is not updated.
CommitRowsOnly(w) ==
    /\ pc[w] = "appended"
    /\ rows' = rows \cup [seq : draft[w], by : {w}]
    /\ RollBack(w)
    /\ UNCHANGED <<lastSeq, seen, tries, overtaken>>

Commit(w) ==
    /\ pc[w] = "appended"
    /\ rows' = rows \cup [seq : draft[w], by : {w}]
    /\ lastSeq' = seen[w]
    /\ RollBack(w)
    /\ overtaken' = [v \in Writer |->
                        IF v = w THEN overtaken[v] ELSE overtaken[v] + 1]
    /\ UNCHANGED <<seen, tries>>

\* The process dies, or an exception (ApprovalError, ...) leaves the block.
Abort(w) ==
    /\ pc[w] # "idle"
    /\ RollBack(w)
    /\ UNCHANGED <<rows, lastSeq, seen, tries, overtaken>>

WriterStep(w) ==
    \/ Begin(w)
    \/ AppendAnother(w)
    \/ Refresh(w)
    \/ Insert(w)
    \/ Collide(w)
    \/ Commit(w)
    \/ Abort(w)

\* The bound on the log is reached and no transaction is open.
LogIsFull ==
    /\ lastSeq >= MaxLog
    /\ \A w \in Writer : pc[w] = "idle"
    /\ UNCHANGED vars

Next == (\E w \in Writer : WriterStep(w)) \/ LogIsFull

Spec == Init /\ [][Next]_vars

(***************************************************************************)
(* Fairness: a transaction that has begun is carried on with.  An insert   *)
(* that waits for another transaction is woken when that transaction ends, *)
(* hence the strong fairness of Insert.  Nobody has to begin or to abort.  *)
(***************************************************************************)
Fairness ==
    \A w \in Writer :
        /\ WF_vars(Refresh(w) \/ Collide(w) \/ Commit(w))
        /\ SF_vars(Insert(w))

FairSpec == Spec /\ Fairness

------------------------------------------------------------------------------
(* Properties.                                                             *)

\* Every variable has its type; sequence numbers are natural numbers.
TypeOK ==
    /\ rows \subseteq [seq : Nat, by : Writer]
    /\ lastSeq \in Nat
    /\ draft \in [Writer -> SUBSET Nat]
    /\ pc \in [Writer -> {"idle", "refresh", "insert", "appended"}]
    /\ seen \in [Writer -> Nat]
    /\ tries \in [Writer -> Nat]
    /\ overtaken \in [Writer -> Nat]

\* The committed log has no gap and no sequence number twice, and Run.last_seq
\* is its length: the counter and the rows, written by separate statements and
\* by competing transactions, never disagree.
Gapless ==
    /\ Seqs = 1..lastSeq
    /\ \A d, e \in rows : d.seq = e.seq => d = e

\* At most one transaction has uncommitted events in the log.  The unique index
\* alone makes appending transactions of one run take turns.
OneDraft ==
    \A v, w \in Writer : draft[v] # {} /\ draft[w] # {} => v = w

\* The transaction that has appended decides on the log it will extend: until it
\* ends nobody else's events are committed.  This is what makes it sound for
\* advance_run to re-derive the run's state after the first append and to act on
\* it (and for module Engine to take the transaction as one step).
OwnCommitOnly ==
    \A w \in Writer :
        draft[w] # {} /\ rows' # rows =>
            /\ draft'[w] = {}
            /\ rows' \ rows = [seq : draft[w], by : {w}]

DecidesOnLatest == [][OwnCommitOnly]_vars

\* Only appended to: a committed event never changes or disappears.
Grows == rows \subseteq rows' /\ lastSeq <= lastSeq'

AppendOnly == [][Grows]_vars

\* No collision is spent in vain: a call that has collided n times has been
\* overtaken by n commits, so append_event gives up only when MaxRetries other
\* transactions got through; and a transaction that already holds the end of the
\* log does not collide at all.
CollisionsPaidFor ==
    \A w \in Writer :
        /\ tries[w] <= overtaken[w]
        /\ draft[w] # {} /\ pc[w] # "appended" => tries[w] = 0

\* Every call of append_event comes to an end.
AppendEnds ==
    \A w \in Writer : pc[w] \in {"refresh", "insert"} ~> pc[w] \in {"idle", "appended"}

\* The log as the committed rows spell it out.
CommittedLog == [s \in 1..lastSeq |-> (CHOOSE e \in rows : e.seq = s).by]

Atomic == INSTANCE AtomicLog WITH log <- CommittedLog

\* The optimistic protocol implements the atomic log.
ImplementsAtomicLog == Atomic!Spec
==============================================================================
