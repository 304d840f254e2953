---------------------------- MODULE EventLogProofs ----------------------------
(***************************************************************************)
(* The event log is gapless, append-only and written by one transaction at *)
(* a time, for every number of writers and every bound, and it implements  *)
(* the atomic log.  The inductive invariant says where each writer stands  *)
(* relative to the end of the committed log.                               *)
(***************************************************************************)
EXTENDS EventLog, SequenceTheorems, TLAPS

\* Where a writer stands: what it has inserted is the stretch from the end of
\* the committed log to the number it last saw, and a writer that has inserted
\* nothing has not seen further than the end.
Position ==
    \A w \in Writer :
        /\ pc[w] = "appended" => draft[w] # {}
        /\ pc[w] = "idle" => draft[w] = {}
        /\ draft[w] # {} =>
              /\ draft[w] = (lastSeq + 1)..seen[w]
              /\ lastSeq < seen[w]
              /\ seen[w] <= lastSeq + MaxBatch
              /\ pc[w] # "appended" => seen[w] < lastSeq + MaxBatch
        /\ draft[w] = {} /\ pc[w] = "insert" => seen[w] <= lastSeq

\* A collision that is certain to come has been paid for already.
Behind ==
    \A w \in Writer :
        draft[w] = {} /\ pc[w] = "insert" /\ seen[w] < lastSeq
            => tries[w] < overtaken[w]

Inv ==
    /\ TypeOK
    /\ Gapless
    /\ OneDraft
    /\ CollisionsPaidFor
    /\ Position
    /\ Behind

LEMMA InitInv == Init => Inv
BY DEF Init, Inv, TypeOK, Gapless, Seqs, OneDraft, CollisionsPaidFor, Position,
       Behind

\* An insert goes to the end of the committed log, or right after the writer's
\* own events; a writer that is behind cannot insert.
LEMMA InsertAtEnd ==
    ASSUME Inv, NEW w \in Writer, Insert(w)
    PROVE  /\ draft[w] = {} => seen[w] = lastSeq
           /\ \A v \in Writer : v # w => draft[v] = {}
<1>1. seen[w] \in Nat /\ lastSeq \in Nat
  BY DEF Inv, TypeOK
<1>2. draft[w] = {} => seen[w] = lastSeq
  <2> SUFFICES ASSUME draft[w] = {}
               PROVE  seen[w] = lastSeq
    OBVIOUS
  <2>1. seen[w] <= lastSeq /\ seen[w] + 1 \notin 1..lastSeq
    BY DEF Inv, Insert, Position, Gapless
  <2> QED
    BY <1>1, <2>1
<1>3. ASSUME NEW v \in Writer, v # w, draft[v] # {}
      PROVE  FALSE
  <2>1. draft[w] = {}
    BY <1>3 DEF Inv, OneDraft
  <2>2. draft[v] = (lastSeq + 1)..seen[v] /\ lastSeq < seen[v] /\ seen[v] \in Nat
    BY <1>3 DEF Inv, Position, TypeOK
  <2>3. lastSeq + 1 \notin draft[v]
    BY <1>2, <2>1 DEF Insert
  <2> QED
    BY <1>1, <2>2, <2>3
<1> QED
  BY <1>2, <1>3

LEMMA InsertInv ==
    ASSUME Inv, NEW w \in Writer, Insert(w)
    PROVE  Inv'
<1> USE DEF Inv
<1>1. /\ draft[w] = {} => seen[w] = lastSeq
      /\ \A v \in Writer : v # w => draft[v] = {}
  BY InsertAtEnd
<1>2. /\ draft' = [draft EXCEPT ![w] = draft[w] \cup {seen[w] + 1}]
      /\ seen' = [seen EXCEPT ![w] = seen[w] + 1]
      /\ pc' = [pc EXCEPT ![w] = "appended"]
      /\ UNCHANGED <<rows, lastSeq, tries, overtaken>>
      /\ pc[w] = "insert"
  BY DEF Insert
<1>3. seen[w] \in Nat /\ lastSeq \in Nat /\ MaxBatch \in Nat \ {0}
  BY BatchAssumption DEF TypeOK
<1>4. TypeOK'
  BY <1>2, <1>3 DEF TypeOK
<1>5. Gapless'
  BY <1>2 DEF Gapless, Seqs
<1>6. OneDraft'
  BY <1>1, <1>2 DEF OneDraft, TypeOK
<1>7. CollisionsPaidFor'
  BY <1>1, <1>2 DEF CollisionsPaidFor, TypeOK
<1>8. Position'
  <2>1. /\ draft'[w] = (lastSeq + 1)..seen'[w]
        /\ lastSeq < seen'[w] /\ seen'[w] <= lastSeq + MaxBatch
    <3>1. CASE draft[w] = {}
      BY <1>1, <1>2, <1>3, <3>1 DEF TypeOK
    <3>2. CASE draft[w] # {}
      <4>1. /\ draft[w] = (lastSeq + 1)..seen[w] /\ lastSeq < seen[w]
            /\ seen[w] < lastSeq + MaxBatch
        BY <1>2, <3>2 DEF Position
      <4>2. ((lastSeq + 1)..seen[w]) \cup {seen[w] + 1} = (lastSeq + 1)..(seen[w] + 1)
        BY <1>3, <4>1
      <4>3. draft'[w] = draft[w] \cup {seen[w] + 1} /\ seen'[w] = seen[w] + 1
        BY <1>2 DEF TypeOK
      <4>4. draft'[w] = (lastSeq + 1)..(seen[w] + 1)
        BY <4>1, <4>2, <4>3
      <4> QED
        BY <1>3, <4>1, <4>3, <4>4
    <3> QED
      BY <3>1, <3>2
  <2>2. draft'[w] # {} /\ pc'[w] = "appended"
    BY <1>2 DEF TypeOK
  <2>3. \A v \in Writer : v # w =>
          pc'[v] = pc[v] /\ draft'[v] = draft[v] /\ seen'[v] = seen[v]
    BY <1>2 DEF TypeOK
  <2> QED
    BY <1>2, <2>1, <2>2, <2>3 DEF Position
<1>9. Behind'
  BY <1>2 DEF Behind, TypeOK
<1> QED
  BY <1>4, <1>5, <1>6, <1>7, <1>8, <1>9

\* A commit appends one writer's stretch to the end of the log.  The others, who
\* have inserted nothing, are now behind it, and have been overtaken once more.
LEMMA CommitInv ==
    ASSUME Inv, NEW w \in Writer, Commit(w)
    PROVE  Inv'
<1> USE DEF Inv
<1>1. /\ rows' = rows \cup [seq : draft[w], by : {w}]
      /\ lastSeq' = seen[w]
      /\ draft' = [draft EXCEPT ![w] = {}]
      /\ pc' = [pc EXCEPT ![w] = "idle"]
      /\ overtaken' = [v \in Writer |->
                          IF v = w THEN overtaken[v] ELSE overtaken[v] + 1]
      /\ UNCHANGED <<seen, tries>>
  BY DEF Commit, RollBack
<1>2. /\ draft[w] = (lastSeq + 1)..seen[w] /\ lastSeq < seen[w]
      /\ lastSeq \in Nat /\ seen[w] \in Nat
      /\ Seqs = 1..lastSeq
      /\ draft[w] # {}
  BY DEF Commit, Position, TypeOK, Gapless
<1>3. \A v \in Writer : v # w => draft[v] = {}
  BY <1>2 DEF OneDraft
<1>4. TypeOK'
  BY <1>1, <1>2 DEF TypeOK
<1>5. Gapless'
  <2>1. Seqs' = Seqs \cup draft[w]
    <3>1. Seqs' \subseteq Seqs \cup draft[w]
      BY <1>1 DEF Seqs
    <3>2. Seqs \subseteq Seqs'
      BY <1>1 DEF Seqs
    <3>3. ASSUME NEW s \in draft[w]
          PROVE  s \in Seqs'
      <4>1. [seq |-> s, by |-> w] \in rows'
        BY <1>1
      <4> QED
        BY <4>1 DEF Seqs
    <3> QED
      BY <3>1, <3>2, <3>3
  <2>2. 1..lastSeq' = (1..lastSeq) \cup ((lastSeq + 1)..seen[w])
    BY <1>1, <1>2
  <2>3. ASSUME NEW d \in rows', NEW e \in rows', d.seq = e.seq
        PROVE  d = e
    <3>1. CASE d \in rows /\ e \in rows
      BY <2>3, <3>1 DEF Gapless
    <3>2. CASE d \in [seq : draft[w], by : {w}] /\ e \in [seq : draft[w], by : {w}]
      BY <2>3, <3>2
    <3>3. \A x \in rows : x.seq \notin draft[w]
      <4>1. \A x \in rows : x.seq \in Seqs
        BY DEF Seqs
      <4> QED
        BY <1>2, <4>1
    <3>4. \A x \in [seq : draft[w], by : {w}] : x.seq \in draft[w]
      OBVIOUS
    <3> QED
      BY <1>1, <2>3, <3>1, <3>2, <3>3, <3>4
  <2> QED
    BY <1>2, <2>1, <2>2, <2>3 DEF Gapless
<1>6. OneDraft'
  BY <1>1, <1>3 DEF OneDraft, TypeOK
<1>7. CollisionsPaidFor'
  BY <1>1, <1>3 DEF CollisionsPaidFor, TypeOK
<1>8. Position'
  <2> SUFFICES ASSUME NEW v \in Writer
               PROVE  /\ draft'[v] = {}
                      /\ pc'[v] # "appended"
                      /\ pc'[v] = "insert" => seen'[v] <= lastSeq'
    BY DEF Position
  <2>1. CASE v = w
    BY <1>1, <2>1 DEF TypeOK
  <2>2. CASE v # w
    <3>1. draft[v] = {} /\ pc'[v] = pc[v] /\ seen'[v] = seen[v] /\ draft'[v] = {}
      BY <1>1, <1>3, <2>2 DEF TypeOK
    <3>2. pc[v] # "appended" /\ (pc[v] = "insert" => seen[v] <= lastSeq)
      BY <3>1 DEF Position
    <3>3. seen[v] \in Nat
      BY DEF TypeOK
    <3> QED
      BY <1>1, <1>2, <3>1, <3>2, <3>3
  <2> QED
    BY <2>1, <2>2
<1>9. Behind'
  <2> SUFFICES ASSUME NEW v \in Writer, pc'[v] = "insert"
               PROVE  tries'[v] < overtaken'[v]
    BY DEF Behind
  <2>1. v # w
    BY <1>1 DEF TypeOK
  <2>2. /\ tries[v] <= overtaken[v] /\ tries[v] \in Nat /\ overtaken[v] \in Nat
        /\ tries'[v] = tries[v] /\ overtaken'[v] = overtaken[v] + 1
    BY <1>1, <2>1 DEF CollisionsPaidFor, TypeOK
  <2> QED
    BY <2>2
<1> QED
  BY <1>4, <1>5, <1>6, <1>7, <1>8, <1>9

\* Steps that write neither the log nor a draft, and rollbacks.
LEMMA LocalStepInv ==
    ASSUME Inv, NEW w \in Writer,
           \/ Begin(w) \/ AppendAnother(w) \/ Refresh(w)
           \/ Collide(w) \/ Abort(w)
    PROVE  Inv'
<1> USE DEF Inv
<1>1. UNCHANGED <<rows, lastSeq>>
  BY DEF Begin, AppendAnother, Enter, Refresh, Collide, Abort
<1>2. Gapless'
  BY <1>1 DEF Gapless, Seqs
<1>3. CASE Begin(w) \/ AppendAnother(w)
  <2>1. /\ pc' = [pc EXCEPT ![w] = "refresh"]
        /\ tries' = [tries EXCEPT ![w] = 0]
        /\ overtaken' = [overtaken EXCEPT ![w] = 0]
        /\ UNCHANGED <<rows, lastSeq, draft, seen>>
    BY <1>3 DEF Begin, AppendAnother, Enter
  <2>2. TypeOK'
    BY <2>1 DEF TypeOK
  <2>3. OneDraft' /\ CollisionsPaidFor' /\ Behind'
    BY <2>1 DEF OneDraft, CollisionsPaidFor, Behind, TypeOK
  <2>4. Position'
    <3>1. draft[w] # {} => seen[w] < lastSeq + MaxBatch
      BY <1>3 DEF Begin, AppendAnother, Position
    <3> QED
      BY <2>1, <3>1 DEF Position, TypeOK
  <2> QED
    BY <1>2, <2>2, <2>3, <2>4
<1>4. CASE Refresh(w)
  <2>1. /\ pc[w] = "refresh"
        /\ pc' = [pc EXCEPT ![w] = "insert"]
        /\ seen' = [seen EXCEPT ![w] = IF draft[w] = {} THEN lastSeq ELSE seen[w]]
        /\ UNCHANGED <<rows, lastSeq, draft, tries, overtaken>>
    BY <1>4 DEF Refresh
  <2>2. TypeOK'
    BY <2>1 DEF TypeOK
  <2>3. OneDraft' /\ CollisionsPaidFor' /\ Behind'
    BY <2>1 DEF OneDraft, CollisionsPaidFor, Behind, TypeOK
  <2>4. Position'
    BY <2>1 DEF Position, TypeOK
  <2> QED
    BY <1>2, <2>2, <2>3, <2>4
<1>5. CASE Collide(w)
  <2>1. draft[w] = {} /\ seen[w] < lastSeq
    <3>1. seen[w] + 1 \in 1..lastSeq /\ seen[w] \in Nat /\ lastSeq \in Nat
      BY <1>5 DEF Collide, Gapless, TypeOK
    <3>2. seen[w] < lastSeq
      BY <3>1
    <3> QED
      BY <3>1, <3>2 DEF Position
  <2>2. tries[w] + 1 <= overtaken[w]
    BY <1>5, <2>1 DEF Behind, Collide, TypeOK
  <2>3. /\ pc[w] = "insert"
        /\ tries' = [tries EXCEPT ![w] = tries[w] + 1]
        /\ \/ pc' = [pc EXCEPT ![w] = "refresh"]
           \/ pc' = [pc EXCEPT ![w] = "idle"]
        /\ UNCHANGED <<rows, lastSeq, seen, overtaken>>
    BY <1>5 DEF Collide, RollBack
  <2>4. draft' = draft
    <3>1. draft' \in {draft, [draft EXCEPT ![w] = {}]}
      BY <1>5 DEF Collide, RollBack
    <3>2. [draft EXCEPT ![w] = {}] = [draft EXCEPT ![w] = draft[w]]
      BY <2>1
    <3>3. [draft EXCEPT ![w] = draft[w]] = draft
      BY DEF TypeOK
    <3> QED
      BY <3>1, <3>2, <3>3
  <2>5. TypeOK'
    BY <2>3, <2>4 DEF TypeOK
  <2>6. OneDraft' /\ Behind'
    BY <2>3, <2>4 DEF OneDraft, Behind, TypeOK
  <2>7. CollisionsPaidFor'
    BY <2>1, <2>2, <2>3, <2>4 DEF CollisionsPaidFor, TypeOK
  <2>8. Position'
    BY <2>1, <2>3, <2>4 DEF Position, TypeOK
  <2> QED
    BY <1>2, <2>5, <2>6, <2>7, <2>8
<1>6. CASE Abort(w)
  <2>1. /\ pc' = [pc EXCEPT ![w] = "idle"]
        /\ draft' = [draft EXCEPT ![w] = {}]
        /\ UNCHANGED <<rows, lastSeq, seen, tries, overtaken>>
    BY <1>6 DEF Abort, RollBack
  <2>2. TypeOK'
    BY <2>1 DEF TypeOK
  <2>3. OneDraft' /\ CollisionsPaidFor' /\ Behind'
    BY <2>1 DEF OneDraft, CollisionsPaidFor, Behind, TypeOK
  <2>4. Position'
    BY <2>1 DEF Position, TypeOK
  <2> QED
    BY <1>2, <2>2, <2>3, <2>4
<1> QED
  BY <1>3, <1>4, <1>5, <1>6

LEMMA NextInv == Inv /\ [Next]_vars => Inv'
<1> SUFFICES ASSUME Inv, [Next]_vars
             PROVE  Inv'
  OBVIOUS
<1>1. CASE UNCHANGED vars
  BY <1>1 DEF vars, Inv, TypeOK, Gapless, Seqs, OneDraft, CollisionsPaidFor,
              Position, Behind
<1>2. CASE \E w \in Writer : WriterStep(w)
  BY <1>2, InsertInv, CommitInv, LocalStepInv DEF WriterStep
<1> QED
  BY <1>1, <1>2 DEF Next, LogIsFull

------------------------------------------------------------------------------
(* What a step does to the committed log.                                  *)

\* Only Commit touches the committed rows, and it adds rows with new numbers.
LEMMA NextCommits ==
    ASSUME Inv, Next
    PROVE  \/ UNCHANGED <<rows, lastSeq>>
           \/ \E w \in Writer :
                /\ Commit(w)
                /\ draft[w] # {} /\ draft'[w] = {}
                /\ lastSeq < seen[w]
                /\ rows' \ rows = [seq : draft[w], by : {w}]
<1>1. ASSUME NEW w \in Writer, Commit(w)
      PROVE  /\ draft[w] # {} /\ draft'[w] = {}
             /\ lastSeq < seen[w]
             /\ rows' \ rows = [seq : draft[w], by : {w}]
  <2>1. draft[w] # {} /\ draft[w] = (lastSeq + 1)..seen[w] /\ lastSeq < seen[w]
        /\ lastSeq \in Nat /\ seen[w] \in Nat
    BY <1>1 DEF Commit, Inv, Position, TypeOK
  <2>2. draft'[w] = {}
    BY <1>1 DEF Commit, RollBack, Inv, TypeOK
  <2>3. \A e \in rows : e.seq \in 1..lastSeq
    BY DEF Inv, Gapless, Seqs
  <2>4. rows \cap [seq : draft[w], by : {w}] = {}
    BY <2>1, <2>3
  <2>5. rows' = rows \cup [seq : draft[w], by : {w}]
    BY <1>1 DEF Commit
  <2> QED
    BY <2>1, <2>2, <2>4, <2>5
<1>2. ASSUME NEW w \in Writer, WriterStep(w), ~Commit(w)
      PROVE  UNCHANGED <<rows, lastSeq>>
  BY <1>2 DEF WriterStep, Begin, AppendAnother, Enter, Refresh, Insert, Collide, Abort
<1> QED
  BY <1>1, <1>2 DEF Next, LogIsFull, vars

LEMMA NextGrows == Inv /\ Next => Grows
<1> SUFFICES ASSUME Inv, Next
             PROVE  Grows
  OBVIOUS
<1>1. lastSeq \in Nat
  BY DEF Inv, TypeOK
<1>2. CASE UNCHANGED <<rows, lastSeq>>
  BY <1>1, <1>2 DEF Grows
<1>3. ASSUME NEW w \in Writer, Commit(w), lastSeq < seen[w]
      PROVE  Grows
  <2>1. seen[w] \in Nat
    BY DEF Inv, TypeOK
  <2> QED
    BY <1>1, <1>3, <2>1 DEF Commit, Grows
<1> QED
  BY <1>2, <1>3, NextCommits

LEMMA NextOwnCommitOnly == Inv /\ Next => OwnCommitOnly
<1> SUFFICES ASSUME Inv, Next, NEW v \in Writer, draft[v] # {}, rows' # rows
             PROVE  /\ draft'[v] = {}
                    /\ rows' \ rows = [seq : draft[v], by : {v}]
  BY DEF OwnCommitOnly
<1>1. PICK w \in Writer :
        /\ draft[w] # {} /\ draft'[w] = {}
        /\ rows' \ rows = [seq : draft[w], by : {w}]
  BY NextCommits
<1>2. v = w
  BY <1>1 DEF Inv, OneDraft
<1> QED
  BY <1>1, <1>2

------------------------------------------------------------------------------
(* The refinement.                                                         *)

\* The log spells out the writer of every committed row.
SpelledOut ==
    \A e \in rows : e.seq \in 1..lastSeq /\ CommittedLog[e.seq] = e.by

\* The row at each number of the log is the only one.
LEMMA CommittedLogAt == Inv => SpelledOut
<1> SUFFICES ASSUME Inv, NEW e \in rows
             PROVE  e.seq \in 1..lastSeq /\ CommittedLog[e.seq] = e.by
  BY DEF SpelledOut
<1>1. e.seq \in 1..lastSeq
  BY DEF Inv, Gapless, Seqs
<1>2. (CHOOSE d \in rows : d.seq = e.seq) = e
  <2>1. \A d \in rows : d.seq = e.seq => d = e
    BY DEF Inv, Gapless
  <2> QED
    BY <2>1
<1> QED
  BY <1>1, <1>2 DEF CommittedLog

LEMMA CommittedLogType ==
    Inv => CommittedLog \in Seq(Writer) /\ Len(CommittedLog) = lastSeq
<1> SUFFICES ASSUME Inv
             PROVE  CommittedLog \in Seq(Writer) /\ Len(CommittedLog) = lastSeq
  OBVIOUS
<1>1. lastSeq \in Nat
  BY DEF Inv, TypeOK
<1>2. \A s \in 1..lastSeq : CommittedLog[s] \in Writer
  <2> TAKE s \in 1..lastSeq
  <2>1. PICK e \in rows : e.seq = s
    BY DEF Inv, Gapless, Seqs
  <2>2. e.by \in Writer
    BY DEF Inv, TypeOK
  <2> QED
    BY <2>1, <2>2, CommittedLogAt DEF SpelledOut
<1>3. CommittedLog \in [1..lastSeq -> Writer]
  BY <1>2 DEF CommittedLog
<1> QED
  BY <1>1, <1>3

\* A commit appends the writer's events, and nothing else, to the log.
LEMMA CommitExtends ==
    ASSUME Inv, NEW w \in Writer, Commit(w)
    PROVE  \E n \in 1..MaxBatch : CommittedLog' = CommittedLog \o [i \in 1..n |-> w]
<1>1. Inv'
  BY CommitInv
<1>2. /\ draft[w] = (lastSeq + 1)..seen[w] /\ lastSeq < seen[w]
      /\ seen[w] <= lastSeq + MaxBatch
      /\ lastSeq \in Nat /\ seen[w] \in Nat /\ MaxBatch \in Nat
      /\ lastSeq' = seen[w]
      /\ rows' = rows \cup [seq : draft[w], by : {w}]
  BY BatchAssumption DEF Commit, Inv, Position, TypeOK
<1> DEFINE n == seen[w] - lastSeq
           new == [i \in 1..n |-> w]
<1>3. n \in 1..MaxBatch
  BY <1>2
<1>4. new \in Seq(Writer) /\ Len(new) = n
  BY <1>3
<1>5. /\ CommittedLog \in Seq(Writer) /\ Len(CommittedLog) = lastSeq
      /\ CommittedLog' \in Seq(Writer) /\ Len(CommittedLog') = seen[w]
  <2>1. (CommittedLog \in Seq(Writer) /\ Len(CommittedLog) = lastSeq)'
    BY <1>1, CommittedLogType, PTL
  <2> QED
    BY <1>2, <2>1, CommittedLogType
<1>6. \A s \in 1..lastSeq : CommittedLog'[s] = CommittedLog[s]
  <2> TAKE s \in 1..lastSeq
  <2>1. PICK e \in rows : e.seq = s
    BY DEF Inv, Gapless, Seqs
  <2>2. CommittedLog[s] = e.by
    BY <2>1, CommittedLogAt DEF SpelledOut
  <2>3. e \in rows'
    BY <1>2
  <2>4. SpelledOut'
    BY <1>1, CommittedLogAt, PTL
  <2> QED
    BY <2>1, <2>2, <2>3, <2>4 DEF SpelledOut
<1>7. \A s \in (lastSeq + 1)..seen[w] : CommittedLog'[s] = w
  <2> TAKE s \in (lastSeq + 1)..seen[w]
  <2>1. [seq |-> s, by |-> w] \in rows'
    BY <1>2
  <2>2. SpelledOut'
    BY <1>1, CommittedLogAt, PTL
  <2> QED
    BY <2>1, <2>2 DEF SpelledOut
<1>8. /\ CommittedLog \o new \in Seq(Writer)
      /\ Len(CommittedLog \o new) = lastSeq + n
      /\ \A i \in 1..(lastSeq + n) :
            (CommittedLog \o new)[i] =
                IF i <= lastSeq THEN CommittedLog[i] ELSE new[i - lastSeq]
  <2> HIDE DEF n, new
  <2> QED
    BY <1>4, <1>5, ConcatProperties
<1>9. lastSeq + n = seen[w]
  BY <1>2
<1>10. \A i \in 1..seen[w] : CommittedLog'[i] = (CommittedLog \o new)[i]
  <2> TAKE i \in 1..seen[w]
  <2>1. CASE i <= lastSeq
    BY <1>2, <1>6, <1>8, <1>9, <2>1
  <2>2. CASE ~(i <= lastSeq)
    <3>1. i \in (lastSeq + 1)..seen[w] /\ i - lastSeq \in 1..n
      BY <1>2, <2>2
    <3>2. new[i - lastSeq] = w
      BY <3>1
    <3> HIDE DEF n, new
    <3> QED
      BY <1>7, <1>8, <1>9, <2>2, <3>1, <3>2
  <2> QED
    BY <2>1, <2>2
<1>11. CommittedLog' = CommittedLog \o new
  <2> HIDE DEF n, new
  <2> QED
    BY <1>5, <1>8, <1>9, <1>10, SeqEqual
<1> QED
  BY <1>3, <1>11
------------------------------------------------------------------------------
(* Theorems.                                                               *)

\* The inductive invariant holds throughout.
THEOREM Invariance == Spec => []Inv
BY InitInv, NextInv, PTL DEF Spec

\* The log is type correct.
THEOREM TypeCorrect == Spec => []TypeOK
<1>1. Inv => TypeOK
  BY DEF Inv
<1> QED
  BY <1>1, Invariance, PTL

\* Sequence numbers are 1..last_seq, each used once.
THEOREM LogGapless == Spec => []Gapless
<1>1. Inv => Gapless
  BY DEF Inv
<1> QED
  BY <1>1, Invariance, PTL

\* The unique index lets one transaction at a time extend the log.
THEOREM SingleAppender == Spec => []OneDraft
<1>1. Inv => OneDraft
  BY DEF Inv
<1> QED
  BY <1>1, Invariance, PTL

\* append_event is lock-free: every collision is somebody else's commit.
THEOREM LockFree == Spec => []CollisionsPaidFor
<1>1. Inv => CollisionsPaidFor
  BY DEF Inv
<1> QED
  BY <1>1, Invariance, PTL

\* Committed events stay.
THEOREM LogAppendOnly == Spec => AppendOnly
BY Invariance, NextGrows, PTL DEF Spec, AppendOnly

\* A transaction that has appended decides on the log it extends.
THEOREM DecisionsSerial == Spec => DecidesOnLatest
BY Invariance, NextOwnCommitOnly, PTL DEF Spec, DecidesOnLatest

\* append_event implements the atomic log: a committed transaction looks like one
\* that appended all of its events at once, and no other step changes the log.
THEOREM Refinement == Spec => ImplementsAtomicLog
<1>1. Init => Atomic!Init
  BY DEF Init, Atomic!Init, CommittedLog
<1>2. Inv /\ [Next]_vars => [Atomic!Next]_CommittedLog
  <2> SUFFICES ASSUME Inv, [Next]_vars
               PROVE  [Atomic!Next]_CommittedLog
    OBVIOUS
  <2>1. CASE UNCHANGED <<rows, lastSeq>>
    BY <2>1 DEF CommittedLog
  <2>2. ASSUME NEW w \in Writer, Commit(w)
        PROVE  Atomic!Next
    BY <2>2, CommitExtends DEF Atomic!Next, Atomic!Extend
  <2>3. CASE UNCHANGED vars
    BY <2>1, <2>3 DEF vars
  <2> QED
    BY <2>1, <2>2, <2>3, NextCommits
<1> QED
  BY <1>1, <1>2, Invariance, PTL DEF Spec, ImplementsAtomicLog, Atomic!Spec
==============================================================================
