----------------------------- MODULE OutboxProofs -----------------------------
(***************************************************************************)
(* The outbox tells what the graph went through, and a change fires its    *)
(* triggers once and on transitions only, for every number of entities,    *)
(* requests, triggers and dispatchers and every predicate.  The            *)
(* strengthenings say what holds while a transaction is open: what a       *)
(* writer has locked is as it has read it (WriteOK), and what a dispatcher *)
(* has claimed nobody else has (ClaimOK, ClaimsApart).                     *)
(***************************************************************************)
EXTENDS Outbox, Integers, FiniteSetTheorems, WellFoundedInduction, TLAPS

Written(w) == Has(w, "written")

Targets(c) == {t \in Trigger : c.entity \in Watches[t]}

Wanted(c) == {t \in Targets(c) : Wants(t, c)}

\* A key that is recorded as changed, and is something now, was something else.
KeysTell(c) ==
    \A a \in c.keys : Get(c.after, a) # None => Get(c.before, a) # Get(c.after, a)

Firing == [pc : {"firing"}, change : changes, held : SUBSET changes,
           fired : SUBSET Trigger, todo : SUBSET Trigger]

TypeOK ==
    /\ nextId \in 1..(MaxChange + 1)
    /\ \A e \in Entity : entity[e].version \in Nat
    /\ DOMAIN entity = Entity
    /\ IsFiniteSet(changes)
    /\ \A c \in changes : c.entity \in Entity /\ c.id \in 1..(nextId - 1)
    /\ processed \subseteq Ids
    /\ runs \in [1..MaxChange -> [Trigger -> Nat]]
    /\ DOMAIN writer = Writer
    /\ \A w \in Writer : Has(w, "absent") => writer[w].entity \in Entity
    /\ dispatcher \in [Dispatcher -> {NoClaim} \cup Firing]

\* A number is given to one change, and the entities of changes in between do not
\* matter to their order.
IdsUnique == \A b, c \in changes : b.id = c.id => b = c

\* What a writer has written and not committed still follows from what is committed:
\* it has locked the row, or the key of the row it inserts.
WriteOK(w) ==
    LET e == writer[w].entity
        c == writer[w].change
    IN  /\ e \in Entity /\ c.entity = e
        /\ c.id \in 1..(nextId - 1) /\ c.id \notin Ids
        /\ c.before = entity[e].attrs /\ c.after = writer[w].row.attrs
        /\ writer[w].row.version = entity[e].version + 1
        /\ \A b \in ChangesOf(e) : b.id < c.id
        /\ KeysTell(c)

WritersApart ==
    \A v, w \in Writer :
        v # w /\ Written(v) /\ Written(w)
        => writer[v].entity # writer[w].entity /\ writer[v].change.id # writer[w].change.id

\* The recorded changes of e lead from one to the next.
LeadsTo(e, c) ==
    LET earlier == {b \in ChangesOf(e) : b.id < c.id}
    IN  /\ earlier = {} => c.before = <<>>
        /\ earlier # {} => \E b \in earlier : /\ b.after = c.before
                                              /\ \A x \in earlier : x.id <= b.id

Chain(e) ==
    /\ entity[e].version = Cardinality(ChangesOf(e))
    /\ ChangesOf(e) = {} => entity[e].attrs = <<>>
    /\ ChangesOf(e) # {} =>
        \E last \in ChangesOf(e) : /\ last.after = entity[e].attrs
                                   /\ \A b \in ChangesOf(e) : b.id <= last.id
    /\ \A c \in ChangesOf(e) : LeadsTo(e, c)

\* If attribute a is not what c has left when d comes, some change in between has
\* taken it away from there.
Departs(c, d, a) ==
    c.id < d.id /\ Get(d.before, a) # Get(c.after, a)
    => \E b \in ChangesOf(c.entity) :
        /\ c.id < b.id /\ b.id < d.id
        /\ Get(b.before, a) = Get(c.after, a) /\ Get(b.after, a) # Get(c.after, a)

Departures ==
    \A c, d \in changes : c.entity = d.entity => \A a \in Attr : Departs(c, d, a)

ClaimOK(d) ==
    LET claim == dispatcher[d]
    IN  /\ claim.change \in claim.held
        /\ claim.change.id \notin processed
        /\ claim.todo \subseteq Targets(claim.change)
        /\ claim.fired = Wanted(claim.change) \ claim.todo

ClaimsApart ==
    \A d, o \in Dispatcher : d # o => dispatcher[d].held \cap dispatcher[o].held = {}

NothingEarly ==
    \A i \in 1..MaxChange, t \in Trigger : i \notin processed => runs[i][t] = 0

GraphInv ==
    /\ IdsUnique
    /\ \A w \in Writer : Written(w) => WriteOK(w)
    /\ WritersApart
    /\ \A e \in Entity : Chain(e)
    /\ Departures
    /\ \A c \in changes : KeysTell(c)

DispatchInv ==
    /\ \A d \in Dispatcher : ~Idling(d) => ClaimOK(d)
    /\ ClaimsApart
    /\ NothingEarly
    /\ FiredOnce

Inv == TypeOK /\ GraphInv /\ DispatchInv

------------------------------------------------------------------------------
(* Numbers.                                                                *)

\* Every set of numbers that is not empty has a least one.
LEMMA NatHasMin ==
    ASSUME NEW S \in SUBSET Nat, S # {}
    PROVE  \E x \in S : \A y \in S : x <= y
<1> DEFINE R == {ss \in Nat \X Nat : ss[1] < ss[2]}
<1>1. IsWellFoundedOn(R, Nat)
  BY NatLessThanWellFounded DEF OpToRel
<1>2. \A x, y \in Nat : y < x => <<y, x>> \in R
  OBVIOUS
<1> HIDE DEF R
<1>3. \E x \in S : \A y \in S : ~(<<y, x>> \in R)
  BY <1>1, WFMin, Zenon
<1>4. PICK x \in S : \A y \in S : ~(<<y, x>> \in R)
  BY <1>3
<1>5. ASSUME NEW y \in S
      PROVE  x <= y
  <2>1. ~(y < x)
    BY <1>2, <1>4
  <2> QED
    BY <2>1
<1> QED
  BY <1>5

\* order_by("id").first() finds a row if there is one.
LEMMA FirstOf ==
    ASSUME TypeOK, NEW pending \in SUBSET changes, pending # {}
    PROVE  First(pending) \in pending
<1> DEFINE ids == {c.id : c \in pending}
<1>1. ids \subseteq Nat /\ ids # {}
  BY DEF TypeOK
<1>2. PICK i \in ids : \A j \in ids : i <= j
  BY <1>1, NatHasMin
<1>3. PICK c \in pending : c.id = i
  BY <1>2
<1>4. \A b \in pending : c.id <= b.id
  BY <1>2, <1>3
<1> QED
  BY <1>3, <1>4 DEF First

------------------------------------------------------------------------------
(* Requests.                                                               *)

\* A transaction of the graph that commits nothing is nothing to the dispatchers.
LEMMA DispatchSame ==
    ASSUME DispatchInv, UNCHANGED <<changes, processed, runs, dispatcher>>
    PROVE  DispatchInv'
BY DEF DispatchInv, Idling, ClaimOK, Targets, Wanted, ClaimsApart, NothingEarly, FiredOnce

\* And what is committed stays as it was.
LEMMA CommittedSame ==
    ASSUME GraphInv, UNCHANGED <<entity, changes>>
    PROVE  /\ IdsUnique' /\ Departures' /\ \A e \in Entity : Chain(e)'
           /\ \A c \in changes' : KeysTell(c)
<1>1. \A e : ChangesOf(e)' = ChangesOf(e)
  BY DEF ChangesOf
<1>2. IdsUnique' /\ \A c \in changes' : KeysTell(c)
  BY DEF GraphInv, IdsUnique
<1>3. Departures'
  BY <1>1 DEF GraphInv, Departures, Departs
<1>4. \A e \in Entity : Chain(e)'
  BY <1>1 DEF GraphInv, Chain, LeadsTo
<1> QED
  BY <1>2, <1>3, <1>4

\* A request lets go of what it has done, or has found nothing yet.
LEMMA UnwrittenStep ==
    ASSUME Inv, NEW w \in Writer, NEW now, writer' = [writer EXCEPT ![w] = now],
           now.pc # "written", now.pc = "absent" => now.entity \in Entity,
           UNCHANGED <<entity, changes, nextId, dispatchVars>>
    PROVE  Inv'
<1> USE DEF dispatchVars
<1>1. DOMAIN writer' = Writer /\ \A v \in Writer : writer'[v] = IF v = w THEN now ELSE writer[v]
  BY DEF Inv, TypeOK
<1>2. TypeOK'
  BY <1>1 DEF Inv, TypeOK, Has, Ids, Firing
<1>3. \A v \in Writer : Written(v)' => Written(v) /\ writer'[v] = writer[v]
  BY <1>1 DEF Written, Has
<1>4. \A v \in Writer : Written(v)' => WriteOK(v)'
  BY <1>3 DEF Inv, GraphInv, WriteOK, Ids, ChangesOf, KeysTell
<1>5. WritersApart'
  BY <1>3 DEF Inv, GraphInv, WritersApart
<1>6. /\ IdsUnique' /\ Departures' /\ \A e \in Entity : Chain(e)'
      /\ \A c \in changes' : KeysTell(c)
  BY CommittedSame DEF Inv
<1> QED
  BY <1>2, <1>4, <1>5, <1>6, DispatchSame DEF Inv, GraphInv

\* What is written follows from the committed row, and from nobody else's.
LEMMA WriteStep ==
    ASSUME Inv, NEW w \in Writer, ~Written(w), NEW e \in Entity, NEW row, NEW keys,
           Write(w, e, row, entity[e].attrs, keys),
           row.version = entity[e].version + 1,
           \A a \in keys : Get(row.attrs, a) # None =>
                Get(entity[e].attrs, a) # Get(row.attrs, a),
           \A v \in Writer : ~Writing(v, e)
    PROVE  Inv'
<1> USE DEF dispatchVars
<1> DEFINE change == [id |-> nextId, entity |-> e, before |-> entity[e].attrs,
                      after |-> row.attrs, keys |-> keys]
           now    == [pc |-> "written", entity |-> e, row |-> row, change |-> change]
<1>1. /\ nextId \in 1..(MaxChange + 1) /\ MaxChange \in Nat
      /\ nextId <= MaxChange /\ nextId' = nextId + 1
      /\ UNCHANGED <<entity, changes, dispatchVars>>
  BY BoundsAssumption DEF Write, Inv, TypeOK
<1>2. /\ DOMAIN writer' = Writer
      /\ \A v \in Writer : writer'[v] = IF v = w THEN now ELSE writer[v]
  BY DEF Inv, TypeOK, Write
<1>3. TypeOK'
  <2>1. nextId' \in 1..(MaxChange + 1)
    BY <1>1
  <2>2. \A c \in changes' : c.entity \in Entity /\ c.id \in 1..(nextId' - 1)
    BY <1>1 DEF Inv, TypeOK
  <2>3. \A v \in Writer : Has(v, "absent")' => writer'[v].entity \in Entity
    BY <1>2 DEF Inv, TypeOK, Has
  <2> QED
    BY <1>1, <1>2, <2>1, <2>2, <2>3 DEF Inv, TypeOK, Ids, Firing
<1>4. ASSUME NEW v \in Writer, Written(v)'
      PROVE  WriteOK(v)'
  <2>1. CASE v = w
    <3>1. writer'[w] = now
      BY <1>2
    <3>2. nextId \in 1..(nextId' - 1)
      BY <1>1
    <3>3. \A c \in changes : c.id < nextId
      BY <1>1 DEF Inv, TypeOK
    <3>4. nextId \notin Ids' /\ \A b \in ChangesOf(e)' : b.id < nextId
      BY <1>1, <3>3 DEF Ids, ChangesOf
    <3>5. KeysTell(change)
      BY DEF KeysTell
    <3> QED
      BY <1>1, <2>1, <3>1, <3>2, <3>4, <3>5 DEF WriteOK, KeysTell
  <2>2. CASE v # w
    <3>1. writer'[v] = writer[v] /\ WriteOK(v)
      BY <1>2, <1>4, <2>2 DEF Written, Has, Inv, GraphInv
    <3>2. writer[v].change.id \in 1..(nextId' - 1)
      BY <1>1, <3>1 DEF WriteOK
    <3> QED
      BY <1>1, <3>1, <3>2 DEF WriteOK, Ids, ChangesOf, KeysTell
  <2> QED
    BY <2>1, <2>2
<1>5. WritersApart'
  <2>1. ASSUME NEW v \in Writer \ {w}, Written(v)'
        PROVE  /\ Written(v) /\ writer'[v] = writer[v]
               /\ writer[v].entity # e /\ writer[v].change.id # nextId
    <3>1. Written(v) /\ writer'[v] = writer[v]
      BY <1>2, <2>1 DEF Written, Has
    <3>2. writer[v].change.id \in 1..(nextId - 1)
      BY <3>1 DEF Inv, GraphInv, WriteOK
    <3> QED
      BY <1>1, <3>1, <3>2 DEF Writing, Written
  <2>2. writer'[w].entity = e /\ writer'[w].change.id = nextId
    BY <1>2
  <2>3. ASSUME NEW u \in Writer, NEW v \in Writer, u # v, Written(u)', Written(v)'
        PROVE  /\ writer'[u].entity # writer'[v].entity
               /\ writer'[u].change.id # writer'[v].change.id
    <3>1. CASE u = w
      BY <2>1, <2>2, <2>3, <3>1
    <3>2. CASE v = w
      BY <2>1, <2>2, <2>3, <3>2
    <3>3. CASE u # w /\ v # w
      BY <2>1, <2>3, <3>3 DEF Inv, GraphInv, WritersApart
    <3> QED
      BY <3>1, <3>2, <3>3
  <2> QED
    BY <2>3 DEF WritersApart
<1>6. /\ IdsUnique' /\ Departures' /\ \A x \in Entity : Chain(x)'
      /\ \A c \in changes' : KeysTell(c)
  BY <1>1, CommittedSame DEF Inv
<1> QED
  BY <1>1, <1>3, <1>4, <1>5, <1>6, DispatchSame DEF Inv, GraphInv

LEMMA CreateStep ==
    ASSUME Inv, NEW w \in Writer, Create(w)
    PROVE  Inv'
<1> DEFINE e     == writer[w].entity
           attrs == writer[w].attrs
           row   == [attrs |-> attrs, version |-> 1]
<1>1. /\ Has(w, "absent") /\ ~Exists(e) /\ \A v \in Writer : ~Writing(v, e)
      /\ Write(w, e, row, <<>>, DOMAIN attrs)
  BY DEF Create
<1>2. e \in Entity /\ ~Written(w)
  BY <1>1 DEF Inv, TypeOK, Has, Written
<1>3. entity[e].version = 0
  BY <1>1, <1>2 DEF Exists, Inv, TypeOK
<1>4. entity[e].attrs = <<>>
  <2>1. Cardinality(ChangesOf(e)) = 0 /\ IsFiniteSet(ChangesOf(e))
    <3>1. ChangesOf(e) \in SUBSET changes
      BY DEF ChangesOf
    <3> QED
      BY <1>2, <1>3, <3>1, FS_Subset DEF Inv, TypeOK, GraphInv, Chain
  <2>2. ChangesOf(e) = {}
    BY <2>1, FS_EmptySet
  <2> QED
    BY <1>2, <2>2 DEF Inv, GraphInv, Chain
<1>5. \A a \in DOMAIN attrs : Get(row.attrs, a) # None =>
            Get(entity[e].attrs, a) # Get(row.attrs, a)
  BY <1>4 DEF Get
<1>6. Write(w, e, row, entity[e].attrs, DOMAIN attrs)
  BY <1>1, <1>4
<1>7. row.version = entity[e].version + 1
  BY <1>3
<1> HIDE DEF e, row
<1> QED
  BY <1>1, <1>2, <1>5, <1>6, <1>7, WriteStep

LEMMA UpdateStep ==
    ASSUME Inv, NEW w \in Writer, NEW e \in Entity, NEW attrs, NEW replace \in BOOLEAN,
           Update(w, e, attrs, replace)
    PROVE  Inv'
<1> DEFINE before == entity[e].attrs
           after  == IF replace THEN attrs ELSE Merge(before, attrs)
           row    == [attrs |-> after, version |-> entity[e].version + 1]
<1>1. /\ Has(w, "idle") /\ \A v \in Writer : ~Writing(v, e)
      /\ Write(w, e, row, before, Diff(before, after))
  BY DEF Update, Locked
<1>2. ~Written(w)
  BY <1>1 DEF Written, Has
<1>3. \A a \in Diff(before, after) : Get(before, a) # Get(after, a)
  BY DEF Diff
<1> HIDE DEF after
<1> QED
  BY <1>1, <1>2, <1>3, WriteStep

LEMMA UnwrittenSteps ==
    ASSUME Inv, NEW w \in Writer,
           \/ \E e \in Entity, attrs \in Payload : FindNone(w, e, attrs)
           \/ CreateConflicts(w) \/ AbortWrite(w)
    PROVE  Inv'
<1>1. CASE \E e \in Entity, attrs \in Payload : FindNone(w, e, attrs)
  <2>1. PICK e \in Entity, attrs \in Payload : FindNone(w, e, attrs)
    BY <1>1
  <2> DEFINE now == [pc |-> "absent", entity |-> e, attrs |-> attrs]
  <2>2. now.pc # "written" /\ now.entity \in Entity
    OBVIOUS
  <2>3. /\ writer' = [writer EXCEPT ![w] = now]
        /\ UNCHANGED <<entity, changes, nextId, dispatchVars>>
    BY <2>1 DEF FindNone
  <2> HIDE DEF now
  <2> QED
    BY <2>2, <2>3, UnwrittenStep
<1>2. CASE CreateConflicts(w) \/ AbortWrite(w)
  <2>1. NoWrite.pc # "written" /\ NoWrite.pc # "absent"
    BY DEF NoWrite
  <2>2. /\ writer' = [writer EXCEPT ![w] = NoWrite]
        /\ UNCHANGED <<entity, changes, nextId, dispatchVars>>
    BY <1>2 DEF CreateConflicts, AbortWrite, LetGo
  <2> QED
    BY <2>1, <2>2, UnwrittenStep
<1> QED
  BY <1>1, <1>2

\* A commit appends one change to those of its entity, and each of the others keeps
\* its own.
LEMMA CommitStep ==
    ASSUME Inv, NEW w \in Writer, CommitWrite(w)
    PROVE  Inv'
<1> USE DEF dispatchVars
<1> DEFINE e == writer[w].entity
           c == writer[w].change
           row == writer[w].row
<1>1. /\ Written(w) /\ WriteOK(w)
      /\ entity' = [entity EXCEPT ![e] = row] /\ changes' = changes \cup {c}
      /\ UNCHANGED <<nextId, processed, runs, dispatcher, deaths>>
  BY DEF CommitWrite, Written, Inv, GraphInv
<1>2. /\ e \in Entity /\ c.entity = e /\ c.id \in 1..(nextId - 1) /\ c.id \notin Ids
      /\ c.before = entity[e].attrs /\ c.after = row.attrs
      /\ row.version = entity[e].version + 1
      /\ \A b \in ChangesOf(e) : b.id < c.id
      /\ KeysTell(c)
  BY <1>1 DEF WriteOK
<1>3. /\ DOMAIN writer' = Writer
      /\ \A v \in Writer : writer'[v] = IF v = w THEN NoWrite ELSE writer[v]
  BY DEF Inv, TypeOK, CommitWrite, LetGo
<1>4. ASSUME NEW v \in Writer, Written(v)'
      PROVE  Written(v) /\ v # w /\ writer'[v] = writer[v]
  BY <1>3, <1>4 DEF Written, Has, NoWrite
<1>5. /\ \A x : ChangesOf(x)' = IF x = e THEN ChangesOf(x) \cup {c} ELSE ChangesOf(x)
      /\ Ids' = Ids \cup {c.id} /\ c \notin changes
  BY <1>1, <1>2 DEF ChangesOf, Ids
<1>6. /\ \A x \in Entity : entity'[x] = IF x = e THEN row ELSE entity[x]
      /\ DOMAIN entity' = Entity
  BY <1>1, <1>2 DEF Inv, TypeOK
<1> HIDE DEF e, c, row
<1>7. TypeOK'
  <2>1. \A x \in Entity : entity'[x].version \in Nat
    BY <1>2, <1>6 DEF Inv, TypeOK
  <2>2. IsFiniteSet(changes')
    BY <1>1, FS_AddElement DEF Inv, TypeOK
  <2>3. \A b \in changes' : b.entity \in Entity /\ b.id \in 1..(nextId' - 1)
    BY <1>1, <1>2 DEF Inv, TypeOK
  <2>4. processed' \subseteq Ids'
    BY <1>1, <1>5 DEF Inv, TypeOK
  <2>5. \A v \in Writer : Has(v, "absent")' => writer'[v].entity \in Entity
    BY <1>3 DEF Inv, TypeOK, Has, NoWrite
  <2>6. Firing \subseteq Firing'
    BY <1>1 DEF Firing
  <2>7. dispatcher' \in [Dispatcher -> {NoClaim} \cup Firing']
    BY <1>1, <2>6 DEF Inv, TypeOK
  <2> QED
    BY <1>1, <1>3, <1>6, <2>1, <2>2, <2>3, <2>4, <2>5, <2>7 DEF Inv, TypeOK, NoClaim
<1>8. IdsUnique'
  BY <1>1, <1>2 DEF Inv, GraphInv, IdsUnique, Ids
<1>9. ASSUME NEW v \in Writer, Written(v)'
      PROVE  WriteOK(v)'
  <2>1. Written(v) /\ v # w /\ writer'[v] = writer[v] /\ WriteOK(v)
    BY <1>4, <1>9 DEF Inv, GraphInv
  <2>2. writer[v].entity # e /\ writer[v].change.id # c.id
    BY <1>1, <2>1 DEF Inv, GraphInv, WritersApart, e, c
  <2>3. /\ writer[v].entity \in Entity
        /\ entity'[writer[v].entity] = entity[writer[v].entity]
        /\ ChangesOf(writer[v].entity)' = ChangesOf(writer[v].entity)
    BY <1>5, <1>6, <2>1, <2>2 DEF WriteOK
  <2>4. writer[v].change.id \notin Ids'
    BY <1>5, <2>1, <2>2 DEF WriteOK
  <2> QED
    BY <1>1, <2>1, <2>3, <2>4 DEF WriteOK, KeysTell, ChangesOf
<1>10. WritersApart'
  BY <1>4 DEF Inv, GraphInv, WritersApart
<1>11. ASSUME NEW x \in Entity
       PROVE  Chain(x)'
  <2>1. CASE x # e
    <3>1. ChangesOf(x)' = ChangesOf(x) /\ entity'[x] = entity[x] /\ Chain(x)
      BY <1>5, <1>6, <2>1 DEF Inv, GraphInv
    <3> QED
      BY <3>1 DEF Chain, LeadsTo
  <2>2. CASE x = e
    <3> DEFINE old == ChangesOf(x)
    <3>0. /\ c.before = entity[x].attrs /\ c.after = row.attrs
          /\ row.version = entity[x].version + 1 /\ \A b \in old : b.id < c.id
      BY <1>2, <2>2
    <3>1. /\ ChangesOf(x)' = old \cup {c} /\ entity'[x] = row /\ Chain(x) /\ c \notin old
      <4>1. ChangesOf(x)' = old \cup {c} /\ entity'[x] = row
        BY <1>5, <1>6, <2>2
      <4> QED
        BY <1>5, <4>1 DEF Inv, GraphInv, ChangesOf
    <3>2. entity'[x].version = Cardinality(ChangesOf(x)')
      <4>1. IsFiniteSet(old)
        <5>1. old \in SUBSET changes
          BY DEF ChangesOf
        <5> QED
          BY <5>1, FS_Subset DEF Inv, TypeOK
      <4>2. Cardinality(old \cup {c}) = Cardinality(old) + 1
        BY <3>1, <4>1, FS_AddElement
      <4> QED
        BY <1>2, <3>0, <3>1, <4>2 DEF Chain
    <3>3. /\ c \in ChangesOf(x)' /\ c.after = entity'[x].attrs
          /\ \A b \in ChangesOf(x)' : b.id <= c.id
      <4>1. \A b \in old : b.id < c.id /\ b.id \in Nat
        BY <1>2, <3>0 DEF ChangesOf, Inv, TypeOK
      <4>2. c.id \in Nat
        BY <1>2
      <4> QED
        BY <1>2, <3>0, <3>1, <4>1, <4>2
    <3>4. ASSUME NEW b \in ChangesOf(x)'
          PROVE  LeadsTo(x, b)'
      <4>1. CASE b = c
        <5>1. {x1 \in ChangesOf(x)' : x1.id < c.id} = old
          <6>1. \A b1 \in old : b1.id < c.id
            BY <1>2, <3>0
          <6>2. ~(c.id < c.id)
            BY <1>2, <3>0
          <6> QED
            BY <3>1, <6>1, <6>2
        <5>2. old = {} => c.before = <<>>
          BY <1>2, <3>0, <3>1 DEF Chain
        <5>3. old # {} => \E last \in old : /\ last.after = c.before
                                            /\ \A x1 \in old : x1.id <= last.id
          BY <1>2, <3>0, <3>1 DEF Chain
        <5> QED
          BY <4>1, <5>1, <5>2, <5>3 DEF LeadsTo
      <4>2. CASE b # c
        <5>1. b \in old /\ LeadsTo(x, b) /\ b.id < c.id /\ b.id \in Nat /\ c.id \in Nat
          BY <1>2, <3>0, <3>1, <4>2 DEF Chain, Inv, TypeOK, ChangesOf
        <5>2. {x1 \in ChangesOf(x)' : x1.id < b.id} = {x1 \in old : x1.id < b.id}
          BY <3>1, <5>1
        <5> QED
          BY <5>1, <5>2 DEF LeadsTo
      <4> QED
        BY <4>1, <4>2
    <3> QED
      BY <3>2, <3>3, <3>4 DEF Chain
  <2> QED
    BY <2>1, <2>2
<1>12. Departures'
  <2>1. SUFFICES ASSUME NEW b \in changes', NEW d \in changes', b.entity = d.entity,
                        NEW a \in Attr, b.id < d.id, Get(d.before, a) # Get(b.after, a)
                 PROVE  \E m \in ChangesOf(b.entity)' :
                          /\ b.id < m.id /\ m.id < d.id
                          /\ Get(m.before, a) = Get(b.after, a)
                          /\ Get(m.after, a) # Get(b.after, a)
    BY DEF Departures, Departs
  <2>2. b # c
    <3>1. SUFFICES ASSUME b = c
                   PROVE  FALSE
      OBVIOUS
    <3>2. d = c \/ d \in ChangesOf(e)
      BY <1>1, <1>2, <2>1, <3>1 DEF ChangesOf
    <3>3. d.id < c.id \/ d = c
      BY <1>2, <3>2
    <3>4. c.id \in Nat /\ d.id \in Nat
      BY <1>1, <1>2, <3>2 DEF Inv, TypeOK, ChangesOf
    <3> QED
      BY <2>1, <3>1, <3>3, <3>4
  <2>3. b \in changes /\ b.id \in Nat /\ c.id \in Nat
    BY <1>1, <1>2, <2>2 DEF Inv, TypeOK
  <2>4. CASE d # c
    <3>1. d \in changes
      BY <1>1, <2>4
    <3>2. PICK m \in ChangesOf(b.entity) :
            /\ b.id < m.id /\ m.id < d.id
            /\ Get(m.before, a) = Get(b.after, a) /\ Get(m.after, a) # Get(b.after, a)
      BY <2>1, <2>3, <3>1 DEF Inv, GraphInv, Departures, Departs
    <3> QED
      BY <1>5, <3>2
  <2>5. CASE d = c
    <3>1. b \in ChangesOf(e) /\ Chain(e)
      BY <1>2, <2>1, <2>3, <2>5 DEF ChangesOf, Inv, GraphInv
    <3>2. PICK last \in ChangesOf(e) : /\ last.after = c.before
                                       /\ \A x \in ChangesOf(e) : x.id <= last.id
      BY <1>2, <3>1 DEF Chain
    <3>3. b # last /\ last \in changes /\ last.entity = b.entity
      BY <2>1, <2>5, <3>1, <3>2 DEF ChangesOf
    <3>4. b.id # last.id
      BY <2>3, <3>3 DEF Inv, GraphInv, IdsUnique
    <3>5. b.id < last.id /\ last.id < c.id
      BY <1>2, <2>3, <3>1, <3>2, <3>3, <3>4 DEF Inv, TypeOK
    <3>6. CASE Get(last.before, a) = Get(b.after, a)
      <4>1. last \in ChangesOf(b.entity)'
        BY <1>5, <3>3 DEF ChangesOf
      <4> QED
        BY <2>1, <2>5, <3>2, <3>5, <3>6, <4>1
    <3>7. CASE Get(last.before, a) # Get(b.after, a)
      <4>1. PICK m \in ChangesOf(b.entity) :
              /\ b.id < m.id /\ m.id < last.id
              /\ Get(m.before, a) = Get(b.after, a) /\ Get(m.after, a) # Get(b.after, a)
        BY <2>3, <3>3, <3>5, <3>7 DEF Inv, GraphInv, Departures, Departs
      <4>2. m.id < c.id /\ m \in ChangesOf(b.entity)'
        BY <1>2, <1>5, <2>3, <3>3, <3>5, <4>1 DEF ChangesOf, Inv, TypeOK
      <4> QED
        BY <2>5, <4>1, <4>2
    <3> QED
      BY <3>6, <3>7
  <2> QED
    BY <2>4, <2>5
<1>13. \A b \in changes' : KeysTell(b)
  BY <1>1, <1>2 DEF Inv, GraphInv
<1>14. DispatchInv'
  <2>1. ~(c.id \in processed) /\ c.id \in 1..MaxChange
    BY <1>2, BoundsAssumption DEF Inv, TypeOK
  <2>2. FiredOnce'
    BY <1>1, <2>1 DEF FiredOnce, Inv, DispatchInv, NothingEarly
  <2> QED
    BY <1>1, <2>2 DEF Inv, DispatchInv, Idling, ClaimOK, Targets, Wanted, ClaimsApart,
                      NothingEarly
<1> QED
  BY <1>7, <1>8, <1>9, <1>10, <1>11, <1>12, <1>13, <1>14 DEF Inv, GraphInv

------------------------------------------------------------------------------
(* Dispatchers.                                                            *)

\* Requests see nothing of what a dispatcher does.
LEMMA GraphSame ==
    ASSUME Inv, UNCHANGED graphVars
    PROVE  GraphInv'
<1> USE DEF graphVars
<1>1. \A w \in Writer : Written(w)' => WriteOK(w)'
  BY DEF Inv, GraphInv, Written, Has, WriteOK, Ids, ChangesOf, KeysTell
<1>2. WritersApart'
  BY DEF Inv, GraphInv, WritersApart, Written, Has
<1> QED
  BY <1>1, <1>2, CommittedSame DEF Inv, GraphInv

\* A dispatcher changes nothing but its claim, and its claim to one that is sound.
LEMMA ClaimStep ==
    ASSUME Inv, NEW d \in Dispatcher, NEW claim \in {NoClaim} \cup Firing,
           dispatcher' = [dispatcher EXCEPT ![d] = claim],
           UNCHANGED <<graphVars, processed, runs>>,
           claim # NoClaim =>
                /\ claim.change \in claim.held
                /\ claim.change.id \notin processed
                /\ claim.todo \subseteq Targets(claim.change)
                /\ claim.fired = Wanted(claim.change) \ claim.todo,
           \A o \in Dispatcher \ {d} : claim.held \cap dispatcher[o].held = {}
    PROVE  Inv'
<1> USE DEF graphVars
<1>1. /\ dispatcher' \in [Dispatcher -> {NoClaim} \cup Firing]
      /\ \A o \in Dispatcher : dispatcher'[o] = IF o = d THEN claim ELSE dispatcher[o]
  BY DEF Inv, TypeOK
<1>2. TypeOK'
  BY <1>1 DEF Inv, TypeOK, Ids, Has, Firing
<1>3. ASSUME NEW o \in Dispatcher, ~Idling(o)'
      PROVE  ClaimOK(o)'
  <2>1. CASE o = d
    <3>1. dispatcher'[o] = claim /\ claim # NoClaim
      BY <1>1, <1>3, <2>1 DEF Idling, NoClaim
    <3> QED
      BY <3>1 DEF ClaimOK, Targets, Wanted
  <2>2. CASE o # d
    BY <1>1, <1>3, <2>2 DEF Inv, DispatchInv, Idling, ClaimOK, Targets, Wanted
  <2> QED
    BY <2>1, <2>2
<1>4. ClaimsApart'
  BY <1>1 DEF Inv, DispatchInv, ClaimsApart
<1>5. NothingEarly' /\ FiredOnce'
  BY DEF Inv, DispatchInv, NothingEarly, FiredOnce
<1> QED
  BY <1>2, <1>3, <1>4, <1>5, GraphSame DEF Inv, DispatchInv

\* Letting go of a claim is always sound.
LEMMA ReleaseStep ==
    ASSUME Inv, NEW d \in Dispatcher, Release(d), UNCHANGED <<graphVars, processed, runs>>
    PROVE  Inv'
<1>1. NoClaim.held = {}
  BY DEF NoClaim
<1> QED
  BY <1>1, ClaimStep DEF Release

\* What is claimed is what nobody holds.
LEMMA ClaimsStep ==
    ASSUME Inv, NEW d \in Dispatcher, Claim(d)
    PROVE  Inv'
<1> DEFINE free  == {c \in Pending : \A o \in Dispatcher : c \notin dispatcher[o].held}
           ready == {c \in free : ~Locked(c.entity)}
           c     == First(ready)
           held  == {b \in free : b.id <= c.id}
           claim == [pc |-> "firing", change |-> c, held |-> held, fired |-> {},
                     todo |-> {t \in Trigger : c.entity \in Watches[t]}]
<1>1. /\ ready # {} /\ dispatcher' = [dispatcher EXCEPT ![d] = claim]
      /\ UNCHANGED <<graphVars, processed, runs, deaths>>
  BY DEF Claim, BeginFiring
<1>2. ready \in SUBSET changes
  BY DEF Pending
<1>3. c \in ready
  BY <1>1, <1>2, FirstOf DEF Inv
<1> HIDE DEF c
<1>4. c \in free /\ c \in changes /\ c.id \notin processed
  BY <1>3 DEF Pending
<1>5. c \in held
  BY <1>4 DEF Inv, TypeOK
<1>6. claim \in Firing
  BY <1>4 DEF Firing, Pending
<1>7. /\ claim.change \in claim.held /\ claim.change.id \notin processed
      /\ claim.todo \subseteq Targets(claim.change)
      /\ claim.fired = Wanted(claim.change) \ claim.todo
  BY <1>4, <1>5 DEF Targets, Wanted
<1>8. \A o \in Dispatcher \ {d} : claim.held \cap dispatcher[o].held = {}
  OBVIOUS
<1> HIDE DEF claim
<1> QED
  BY <1>1, <1>6, <1>7, <1>8, ClaimStep

\* One trigger is dealt with, as the change calls for.
LEMMA FireStep ==
    ASSUME Inv, NEW d \in Dispatcher, Fire(d)
    PROVE  Inv'
<1> DEFINE old == dispatcher[d]
           t   == Try(old.todo)
           c   == old.change
<1>1. /\ ~Idling(d) /\ old.todo # {} /\ UNCHANGED <<graphVars, processed, runs, deaths>>
  BY DEF Fire
<1>2. old \in Firing /\ ClaimOK(d)
  BY <1>1 DEF Inv, TypeOK, DispatchInv, Idling, NoClaim
<1>3. t \in old.todo
  BY <1>1 DEF Try
<1>4. CASE Wants(t, c) /\ c.entity \in Overlong
  BY <1>1, <1>4, ReleaseStep DEF Fire
<1>5. CASE ~(Wants(t, c) /\ c.entity \in Overlong)
  <2> DEFINE fired == IF Wants(t, c) THEN old.fired \cup {t} ELSE old.fired
             claim == [old EXCEPT !.todo = old.todo \ {t}, !.fired = fired]
  <2>1. dispatcher' = [dispatcher EXCEPT ![d] = claim]
    BY <1>2, <1>5 DEF Fire, Firing
  <2> HIDE DEF t
  <2>2. claim \in Firing
    BY <1>2, <1>3 DEF Firing
  <2>3. /\ claim.change = c /\ claim.held = old.held
        /\ claim.todo = old.todo \ {t} /\ claim.fired = fired
    BY <1>2 DEF Firing
  <2>4. fired = Wanted(c) \ (old.todo \ {t})
    BY <1>2, <1>3 DEF ClaimOK, Wanted, Targets
  <2>5. \A o \in Dispatcher \ {d} : old.held \cap dispatcher[o].held = {}
    BY DEF Inv, DispatchInv, ClaimsApart
  <2>6. c \in old.held /\ c.id \notin processed /\ old.todo \subseteq Targets(c)
    BY <1>2 DEF ClaimOK
  <2> HIDE DEF claim, fired
  <2>7. /\ claim.change \in claim.held /\ claim.change.id \notin processed
        /\ claim.todo \subseteq Targets(claim.change)
        /\ claim.fired = Wanted(claim.change) \ claim.todo
    BY <2>3, <2>4, <2>6
  <2>8. \A o \in Dispatcher \ {d} : claim.held \cap dispatcher[o].held = {}
    BY <2>3, <2>5
  <2> QED
    BY <1>1, <2>1, <2>2, <2>7, <2>8, ClaimStep
<1> QED
  BY <1>4, <1>5

\* The runs of a change are committed with the mark, and nobody else can be at it.
LEMMA FinishStep ==
    ASSUME Inv, NEW d \in Dispatcher, Finish(d)
    PROVE  Inv'
<1> USE DEF graphVars
<1> DEFINE old == dispatcher[d]
           c   == old.change
           i   == c.id
<1>1. /\ ~Idling(d) /\ old.todo = {} /\ UNCHANGED graphVars
      /\ processed' = processed \cup {i}
      /\ runs' = [runs EXCEPT ![i] =
            [t \in Trigger |-> IF t \in old.fired THEN runs[i][t] + 1 ELSE runs[i][t]]]
      /\ dispatcher' = [dispatcher EXCEPT ![d] = NoClaim]
  BY DEF Finish, Release
<1>2. old \in Firing /\ ClaimOK(d)
  BY <1>1 DEF Inv, TypeOK, DispatchInv, Idling, NoClaim
<1>3. /\ c \in changes /\ i \in 1..MaxChange /\ i \notin processed /\ old.fired = Wanted(c)
      /\ c \in old.held
  <2>1. c \in changes /\ c.id \notin processed /\ c \in old.held /\ old.fired = Wanted(c)
    BY <1>1, <1>2 DEF ClaimOK, Firing
  <2>2. c.id \in 1..MaxChange
    BY <2>1, BoundsAssumption DEF Inv, TypeOK
  <2> QED
    BY <2>1, <2>2
<1>4. \A t \in Trigger : runs[i][t] = 0
  BY <1>3 DEF Inv, DispatchInv, NothingEarly
<1>5. /\ runs' \in [1..MaxChange -> [Trigger -> Nat]]
      /\ \A j \in 1..MaxChange, t \in Trigger :
            runs'[j][t] = IF j = i THEN (IF t \in Wanted(c) THEN 1 ELSE 0) ELSE runs[j][t]
  <2>1. runs \in [1..MaxChange -> [Trigger -> Nat]]
    BY DEF Inv, TypeOK
  <2>2. [t \in Trigger |-> IF t \in old.fired THEN runs[i][t] + 1 ELSE runs[i][t]]
            = [t \in Trigger |-> IF t \in Wanted(c) THEN 1 ELSE 0]
    BY <1>3, <1>4
  <2>3. [t \in Trigger |-> IF t \in Wanted(c) THEN 1 ELSE 0] \in [Trigger -> Nat]
    OBVIOUS
  <2> QED
    BY <1>1, <1>3, <2>1, <2>2, <2>3
<1>6. \A o \in Dispatcher : dispatcher'[o] = IF o = d THEN NoClaim ELSE dispatcher[o]
  BY <1>1 DEF Inv, TypeOK
<1> HIDE DEF c, old
<1>7. TypeOK'
  <2>1. processed' \subseteq Ids'
    BY <1>1, <1>3 DEF Inv, TypeOK, Ids
  <2>2. dispatcher' \in [Dispatcher -> {NoClaim} \cup Firing']
    BY <1>1 DEF Inv, TypeOK, Firing
  <2> QED
    BY <1>1, <1>5, <2>1, <2>2 DEF Inv, TypeOK, Has, NoClaim
<1>8. ASSUME NEW o \in Dispatcher, ~Idling(o)'
      PROVE  ClaimOK(o)'
  <2>1. o # d /\ dispatcher'[o] = dispatcher[o]
    BY <1>6, <1>8 DEF Idling, NoClaim
  <2>2. ~Idling(o) /\ ClaimOK(o) /\ dispatcher[o] \in Firing
    BY <1>8, <2>1 DEF Idling, Inv, DispatchInv, TypeOK, NoClaim
  <2>3. dispatcher[o].change \in changes /\ dispatcher[o].change # c
    BY <1>3, <2>1, <2>2 DEF ClaimOK, Firing, Inv, DispatchInv, ClaimsApart, old
  <2>4. dispatcher[o].change.id # i
    BY <1>3, <2>3 DEF Inv, GraphInv, IdsUnique
  <2> QED
    BY <1>1, <2>1, <2>2, <2>4 DEF ClaimOK, Targets, Wanted
<1>9. ClaimsApart'
  BY <1>6 DEF Inv, DispatchInv, ClaimsApart, NoClaim
<1>10. NothingEarly'
  BY <1>1, <1>5 DEF Inv, DispatchInv, NothingEarly
<1>11. FiredOnce'
  <2>1. SUFFICES ASSUME NEW b \in changes, NEW t \in Trigger
                 PROVE  runs'[b.id][t] =
                            IF /\ b.id \in processed' /\ b.entity \in Watches[t]
                               /\ Wants(t, b)
                            THEN 1 ELSE 0
    BY <1>1 DEF FiredOnce
  <2>2. b.id \in 1..MaxChange
    BY BoundsAssumption DEF Inv, TypeOK
  <2>3. CASE b = c
    BY <1>1, <1>5, <2>2, <2>3 DEF Wanted, Targets
  <2>4. CASE b # c
    <3>1. b.id # i
      BY <1>3, <2>4 DEF Inv, GraphInv, IdsUnique
    <3> QED
      BY <1>1, <1>5, <2>2, <3>1 DEF Inv, DispatchInv, FiredOnce
  <2> QED
    BY <2>3, <2>4
<1> QED
  BY <1>1, <1>7, <1>8, <1>9, <1>10, <1>11, GraphSame DEF Inv, DispatchInv

------------------------------------------------------------------------------
(* The theorems.                                                           *)

LEMMA InitInv == Init => Inv
<1> SUFFICES ASSUME Init
             PROVE  Inv
  OBVIOUS
<1>1. changes = {} /\ IsFiniteSet(changes) /\ Ids = {} /\ \A e \in Entity : ChangesOf(e) = {}
  BY FS_EmptySet DEF Init, Ids, ChangesOf
<1>2. TypeOK
  <2>1. nextId \in 1..(MaxChange + 1)
    BY BoundsAssumption DEF Init
  <2>2. \A e \in Entity : entity[e].version \in Nat
    BY DEF Init, NoRow
  <2> QED
    BY <1>1, <2>1, <2>2 DEF Init, TypeOK, NoWrite, Has
<1>3. \A w \in Writer : ~Written(w)
  BY DEF Init, Written, Has, NoWrite
<1>4. \A e \in Entity : Chain(e)
  BY <1>1, FS_EmptySet DEF Init, Chain, NoRow
<1>5. GraphInv
  BY <1>1, <1>3, <1>4 DEF GraphInv, IdsUnique, WritersApart, Departures
<1>6. DispatchInv
  BY <1>1 DEF Init, DispatchInv, Idling, NoClaim, ClaimsApart, NothingEarly, FiredOnce
<1> QED
  BY <1>2, <1>5, <1>6 DEF Inv

LEMMA NextInv == Inv /\ [Next]_vars => Inv'
<1> SUFFICES ASSUME Inv, [Next]_vars
             PROVE  Inv'
  OBVIOUS
<1>1. ASSUME NEW w \in Writer, Upsert(w)
      PROVE  Inv'
  BY <1>1, UnwrittenSteps, UpdateStep, CreateStep, CommitStep DEF Upsert
<1>2. ASSUME NEW d \in Dispatcher, Dispatch(d)
      PROVE  Inv'
  BY <1>2, ClaimsStep, FireStep, FinishStep DEF Dispatch
<1>3. ASSUME NEW d \in Dispatcher, Die(d)
      PROVE  Inv'
  BY <1>3, ReleaseStep DEF Die
<1>4. CASE UNCHANGED vars
  <2>1. TypeOK'
    BY <1>4 DEF vars, graphVars, dispatchVars, Inv, TypeOK, Ids, Has, Firing
  <2>2. DispatchInv'
    BY <1>4, DispatchSame DEF vars, dispatchVars, graphVars, Inv
  <2> QED
    BY <1>4, <2>1, <2>2, GraphSame DEF vars, Inv
<1> QED
  BY <1>1, <1>2, <1>3, <1>4 DEF Next

LEMMA Invariance == Spec => []Inv
BY InitInv, NextInv, PTL DEF Spec

\* Concurrent requests lose no update, and upsert_entity's single transaction records
\* each of them, in order: the changes of an entity lead from nothing to its present
\* attributes, and its version counts them.
THEOREM OutboxTellsTruth == Spec => []OutboxAgrees
<1>1. ASSUME Inv
      PROVE  OutboxAgrees
  <2>1. SUFFICES ASSUME NEW e \in Entity, NEW c \in ChangesOf(e),
                        ChangesOf(e) \ ({b \in ChangesOf(e) : b.id < c.id} \cup {c}) = {}
                 PROVE  c.after = entity[e].attrs
    BY <1>1 DEF Inv, GraphInv, Chain, LeadsTo, OutboxAgrees
  <2>2. PICK last \in ChangesOf(e) : /\ last.after = entity[e].attrs
                                     /\ \A b \in ChangesOf(e) : b.id <= last.id
    BY <1>1 DEF Inv, GraphInv, Chain
  <2>3. c.id <= last.id /\ c.id \in Nat /\ last.id \in Nat
    BY <1>1, <2>2 DEF ChangesOf, Inv, TypeOK
  <2>4. ~(last.id < c.id)
    BY <2>3
  <2>5. last = c
    BY <2>1, <2>4
  <2> QED
    BY <2>2, <2>5
<1> QED
  BY <1>1, Invariance, PTL

\* dispatch_one marks a change and commits its runs in one transaction that has locked
\* it: whatever dispatchers compete for it and die over it, it starts each run its
\* triggers call for once, and none before it is marked.
THEOREM ChangesFireOnce == Spec => []FiredOnce
<1>1. Inv => FiredOnce
  BY DEF Inv, DispatchInv
<1> QED
  BY <1>1, Invariance, PTL

\* A trigger on a transition fires once for each time the entity gets there, and state
\* that is sent again fires nothing (_diff, matches).
THEOREM FiresOnTransitions == Spec => []FiresOnTransition
<1>1. ASSUME Inv
      PROVE  FiresOnTransition
  <2>1. SUFFICES ASSUME NEW t \in Trigger, NEW a \in Attr,
                        {"changed", "match"} \subseteq DOMAIN Predicate[t],
                        Predicate[t].changed = {a}, a \in DOMAIN Predicate[t].match,
                        Predicate[t].match[a].op = "eq",
                        Predicate[t].match[a].value # None,
                        NEW c \in changes, NEW d \in changes,
                        c.entity = d.entity, c.id < d.id,
                        runs[c.id][t] > 0, runs[d.id][t] > 0
                 PROVE  \E b \in ChangesOf(c.entity) :
                          /\ c.id < b.id /\ b.id < d.id
                          /\ Get(b.before, a) = Predicate[t].match[a].value
                          /\ Get(b.after, a) # Predicate[t].match[a].value
    BY DEF FiresOnTransition
  <2> DEFINE v == Predicate[t].match[a].value
  <2>2. Matches(Predicate[t], c) /\ Matches(Predicate[t], d)
    BY <1>1, <2>1 DEF Inv, DispatchInv, FiredOnce, Wants
  <2>3. Get(c.after, a) = v /\ Get(d.after, a) = v /\ a \in d.keys
    BY <2>1, <2>2 DEF Matches, AllMatch, Compare
  <2>4. Get(d.before, a) # v
    BY <1>1, <2>1, <2>3 DEF Inv, GraphInv, KeysTell
  <2> HIDE DEF v
  <2>5. \E b \in ChangesOf(c.entity) :
            /\ c.id < b.id /\ b.id < d.id
            /\ Get(b.before, a) = v /\ Get(b.after, a) # v
    BY <1>1, <2>1, <2>3, <2>4 DEF Inv, GraphInv, Departures, Departs
  <2> QED
    BY <2>5 DEF v
<1> QED
  BY <1>1, Invariance, PTL
==============================================================================
