-------------------------------- MODULE Outbox --------------------------------
(***************************************************************************)
(* The entity graph and its transactional outbox: requests that upsert     *)
(* entities (graph/service.py) and dispatchers that turn the recorded      *)
(* changes into runs (graph/dispatcher.py).                                *)
(*                                                                         *)
(* Both are read-committed transactions on PostgreSQL, and an action is    *)
(* one statement of theirs or their commit:                                *)
(*   - SELECT ... FOR UPDATE waits for whoever has locked the row, reads   *)
(*     the version committed last, and locks nothing when there is no row; *)
(*     what it has locked cannot change until it is written, so the two    *)
(*     are one action;                                                     *)
(*   - with SKIP LOCKED and select_related("entity") it locks the change   *)
(*     and its entity, skips a change when it cannot have both, and then   *)
(*     keeps the lock of the change it skipped;                            *)
(*   - an insert into the unique index of (tenant, type, external_id)      *)
(*     waits for an open transaction that has inserted the same key;       *)
(*   - the numbers of entity_changes come from a sequence, which an        *)
(*     aborted transaction does not give back.                             *)
(***************************************************************************)
EXTENDS Predicates, FiniteSets

CONSTANTS
    Entity,             \* (tenant, type, external_id)
    Attr,
    Payload,            \* the attrs a request may carry
    Trigger,            \* the enabled triggers, which nobody edits meanwhile
    Watches,            \* the entities of a trigger's tenant and entity_type
    Predicate,          \* the predicate of each trigger
    Unrenderable,       \* the triggers whose input_template does not render
    Overlong,           \* the entities whose ref does not fit into Run.entity_ref
    Writer,             \* the requests under way at a time
    Dispatcher,
    MaxChange,          \* bound: on the numbers of changes
    MaxDeath            \* bound: how often dispatchers die

ASSUME PayloadAssumption == \A p \in Payload : DOMAIN p \subseteq Attr
ASSUME WatchesAssumption == Watches \in [Trigger -> SUBSET Entity]
ASSUME FaultyAssumption == Unrenderable \subseteq Trigger /\ Overlong \subseteq Entity
ASSUME BoundsAssumption == MaxChange \in Nat /\ MaxDeath \in Nat

VARIABLES
    entity,             \* the committed row of each entity, NoRow if there is none
    changes,            \* the committed rows of entity_changes
    nextId,             \* their sequence
    processed,          \* the numbers of those with processed_at
    runs,               \* runs committed for each change and trigger
    writer,             \* what each request has done in its transaction
    dispatcher,         \* what each dispatcher has done in its transaction
    deaths

graphVars == <<entity, changes, nextId, writer>>
dispatchVars == <<processed, runs, dispatcher, deaths>>
vars == <<graphVars, dispatchVars>>

\* Rows are created with version 1.
NoRow   == [attrs |-> <<>>, version |-> 0]
NoWrite == [pc |-> "idle"]
NoClaim == [pc |-> "idle", held |-> {}]

Init ==
    /\ entity = [e \in Entity |-> NoRow]
    /\ changes = {}
    /\ nextId = 1
    /\ processed = {}
    /\ runs = [i \in 1..MaxChange |-> [t \in Trigger |-> 0]]
    /\ writer = [w \in Writer |-> NoWrite]
    /\ dispatcher = [d \in Dispatcher |-> NoClaim]
    /\ deaths = 0

Exists(e) == entity[e].version > 0

------------------------------------------------------------------------------
(* upsert_entity.                                                          *)

Has(w, pc) == writer[w].pc = pc

Idling(d) == dispatcher[d].pc = "idle"

\* v has a row of e that it has not committed: an insert of it, or an update.
Writing(v, e) == Has(v, "written") /\ writer[v].entity = e

\* d has locked the row of e, along with the change it is working on.
Dispatching(d, e) == ~Idling(d) /\ dispatcher[d].change.entity = e

Locked(e) ==
    \/ \E v \in Writer : Writing(v, e)
    \/ \E d \in Dispatcher : Dispatching(d, e)

LetGo(w) == writer' = [writer EXCEPT ![w] = NoWrite]

\* The row and the record of the change, inserted and not yet committed.
Write(w, e, row, before, keys) ==
    /\ nextId <= MaxChange
    /\ nextId' = nextId + 1
    /\ writer' = [writer EXCEPT ![w] =
          [pc |-> "written", entity |-> e, row |-> row,
           change |-> [id |-> nextId, entity |-> e, before |-> before,
                       after |-> row.attrs, keys |-> keys]]]
    /\ UNCHANGED <<entity, changes, dispatchVars>>

\* select_for_update().first() finds no row, and locks none.
FindNone(w, e, attrs) ==
    /\ Has(w, "idle")
    /\ ~Exists(e)
    /\ writer' = [writer EXCEPT ![w] = [pc |-> "absent", entity |-> e, attrs |-> attrs]]
    /\ UNCHANGED <<entity, changes, nextId, dispatchVars>>

Create(w) ==
    LET e == writer[w].entity
    IN  /\ Has(w, "absent")
        /\ ~Exists(e)
        /\ \A v \in Writer : ~Writing(v, e)
        /\ Write(w, e, [attrs |-> writer[w].attrs, version |-> 1], <<>>,
                 DOMAIN writer[w].attrs)

\* Somebody else has created it since: IntegrityError, and the request fails.
CreateConflicts(w) ==
    /\ Has(w, "absent")
    /\ Exists(writer[w].entity)
    /\ LetGo(w)
    /\ UNCHANGED <<entity, changes, nextId, dispatchVars>>

\* {**before, **attrs}
Merge(before, attrs) ==
    [a \in DOMAIN before \cup DOMAIN attrs |->
        IF a \in DOMAIN attrs THEN attrs[a] ELSE before[a]]

\* Mutant: every attribute there is counts as changed.
WrittenKeys(before, after) == DOMAIN after

\* _diff: a missing attribute and None are the same.
Diff(before, after) ==
    {a \in DOMAIN before \cup DOMAIN after : Get(before, a) # Get(after, a)}

\* Mutant: the row is read without FOR UPDATE.
UpdateUnlocked(w, e, attrs, replace) ==
    /\ Has(w, "idle")
    /\ Exists(e)
    /\ LET before == entity[e].attrs
           after  == IF replace THEN attrs ELSE Merge(before, attrs)
       IN  Write(w, e, [attrs |-> after, version |-> entity[e].version + 1],
                 before, Diff(before, after))

\* It finds the row.  A write that changes nothing is no write.
Update(w, e, attrs, replace) ==
    /\ Has(w, "idle")
    /\ Exists(e)
    /\ ~Locked(e)
    /\ LET before == entity[e].attrs
           after  == IF replace THEN attrs ELSE Merge(before, attrs)
       IN  /\ Diff(before, after) # {}
           /\ Write(w, e, [attrs |-> after, version |-> entity[e].version + 1],
                    before, Diff(before, after))

CommitWrite(w) ==
    /\ Has(w, "written")
    /\ entity' = [entity EXCEPT ![writer[w].entity] = writer[w].row]
    /\ changes' = changes \cup {writer[w].change}
    /\ LetGo(w)
    /\ UNCHANGED <<nextId, dispatchVars>>

\* The request fails or the process dies: the transaction is rolled back.
AbortWrite(w) ==
    /\ Has(w, "written")
    /\ LetGo(w)
    /\ UNCHANGED <<entity, changes, nextId, dispatchVars>>

------------------------------------------------------------------------------
(* dispatch_one.                                                           *)

Release(d) == dispatcher' = [dispatcher EXCEPT ![d] = NoClaim]

Pending == {c \in changes : c.id \notin processed}

First(pending) == CHOOSE c \in pending : \A b \in pending : c.id <= b.id

BeginFiring(d, c, held) ==
    /\ dispatcher' = [dispatcher EXCEPT ![d] =
          [pc |-> "firing", change |-> c, held |-> held, fired |-> {},
           todo |-> {t \in Trigger : c.entity \in Watches[t]}]]
    /\ UNCHANGED <<graphVars, processed, runs, deaths>>

\* Mutant: nothing is locked.
ClaimUnlocked(d) ==
    /\ Idling(d)
    /\ Pending # {}
    /\ BeginFiring(d, First(Pending), {})

\* The lowest number that is not processed and not locked, neither the change nor its
\* entity.  The changes before it that were skipped for their entities stay locked.
Claim(d) ==
    LET free  == {c \in Pending : \A o \in Dispatcher : c \notin dispatcher[o].held}
        ready == {c \in free : ~Locked(c.entity)}
    IN  /\ Idling(d)
        /\ ready # {}
        /\ BeginFiring(d, First(ready), {c \in free : c.id <= First(ready).id})

Wants(t, c) == Matches(Predicate[t], c) /\ t \notin Unrenderable

\* The next of the triggers, which come in the order of their names.
Try(triggers) == CHOOSE t \in triggers : TRUE

\* Mutant: an input_template that does not render ends the sweep.
FireOrDie(d) ==
    /\ ~Idling(d)
    /\ dispatcher[d].todo # {}
    /\ LET t == Try(dispatcher[d].todo)
           c == dispatcher[d].change
       IN  IF Matches(Predicate[t], c) /\ t \in Unrenderable
           THEN Release(d)
           ELSE dispatcher' = [dispatcher EXCEPT ![d].todo = @ \ {t},
                   ![d].fired = IF Wants(t, c) THEN @ \cup {t} ELSE @]
    /\ UNCHANGED <<graphVars, processed, runs, deaths>>

\* One iteration of _fire_triggers.  A run whose entity_ref the database refuses
\* raises, and the whole transaction is rolled back.
Fire(d) ==
    /\ ~Idling(d)
    /\ dispatcher[d].todo # {}
    /\ LET t == Try(dispatcher[d].todo)
           c == dispatcher[d].change
       IN  IF Wants(t, c) /\ c.entity \in Overlong
           THEN Release(d)
           ELSE dispatcher' = [dispatcher EXCEPT ![d].todo = @ \ {t},
                   ![d].fired = IF Wants(t, c) THEN @ \cup {t} ELSE @]
    /\ UNCHANGED <<graphVars, processed, runs, deaths>>

\* processed_at is set, and the runs are committed with it.
Finish(d) ==
    /\ ~Idling(d)
    /\ dispatcher[d].todo = {}
    /\ LET i == dispatcher[d].change.id
       IN  /\ processed' = processed \cup {i}
           /\ runs' = [runs EXCEPT ![i] =
                 [t \in Trigger |-> IF t \in dispatcher[d].fired THEN @[t] + 1 ELSE @[t]]]
    /\ Release(d)
    /\ UNCHANGED <<graphVars, deaths>>

Die(d) ==
    /\ ~Idling(d)
    /\ deaths < MaxDeath
    /\ deaths' = deaths + 1
    /\ Release(d)
    /\ UNCHANGED <<graphVars, processed, runs>>

------------------------------------------------------------------------------
Upsert(w) ==
    \/ \E e \in Entity, attrs \in Payload :
          FindNone(w, e, attrs) \/ \E replace \in BOOLEAN : Update(w, e, attrs, replace)
    \/ Create(w)
    \/ CreateConflicts(w)
    \/ CommitWrite(w)
    \/ AbortWrite(w)

Dispatch(d) ==
    \/ Claim(d)
    \/ Fire(d)
    \/ Finish(d)

Next ==
    \/ \E w \in Writer : Upsert(w)
    \/ \E d \in Dispatcher : Dispatch(d) \/ Die(d)

Spec == Init /\ [][Next]_vars

\* The loop of run_dispatcher goes on, and a transaction that has written ends one way
\* or the other.  Nobody has to write.
Fairness ==
    /\ \A d \in Dispatcher : WF_vars(Dispatch(d))
    /\ \A w \in Writer : WF_vars(CommitWrite(w) \/ AbortWrite(w))

FairSpec == Spec /\ Fairness

------------------------------------------------------------------------------
(* Properties.                                                             *)

Ids == {c.id : c \in changes}

ChangesOf(e) == {c \in changes : c.entity = e}

\* The outbox tells what the graph went through: the recorded changes of an
\* entity, in the order of their numbers, lead from nothing to its present
\* attributes, each from where the one before it ended, and its version counts
\* them.  Concurrent requests lose no update and no record of one, and nothing
\* is recorded that did not happen (upsert_entity's single transaction).
OutboxAgrees ==
    \A e \in Entity :
        /\ entity[e].version = Cardinality(ChangesOf(e))
        /\ \A c \in ChangesOf(e) :
            LET earlier == {b \in ChangesOf(e) : b.id < c.id}
                later   == ChangesOf(e) \ (earlier \cup {c})
            IN  /\ earlier = {} => c.before = <<>>
                /\ earlier # {} => \E b \in earlier : b.after = c.before /\ \A x \in earlier : x.id <= b.id
                /\ later = {} => c.after = entity[e].attrs

\* A change starts the runs its triggers call for exactly once, and all of them or
\* none: when it is marked processed, and not before, whatever dispatchers compete
\* for it and die over it (dispatch_one).
FiredOnce ==
    \A c \in changes, t \in Trigger :
        runs[c.id][t] =
            IF c.id \in processed /\ c.entity \in Watches[t] /\ Wants(t, c) THEN 1 ELSE 0

\* A trigger that asks for attribute a to have changed and to be v now fires when the
\* entity gets there, and not again before the entity has left: between two of its
\* runs there is a change that took a away from v.  Re-sent state fires nothing.
FiresOnTransition ==
    \A t \in Trigger : \A a \in Attr :
        /\ {"changed", "match"} \subseteq DOMAIN Predicate[t]
        /\ Predicate[t].changed = {a} /\ a \in DOMAIN Predicate[t].match
        /\ Predicate[t].match[a].op = "eq" /\ Predicate[t].match[a].value # None
        => LET v == Predicate[t].match[a].value
           IN  \A c, d \in changes :
                /\ c.entity = d.entity /\ c.id < d.id
                /\ runs[c.id][t] > 0 /\ runs[d.id][t] > 0
                => \E b \in ChangesOf(c.entity) :
                    /\ c.id < b.id /\ b.id < d.id
                    /\ Get(b.before, a) = v /\ Get(b.after, a) # v

\* Every change is processed in the end, whatever the triggers of other changes do
\* and whoever dies over them (dispatch_pending: the rows simply wait, and none
\* blocks the outbox).
Drains == \A i \in 1..MaxChange : i \in Ids ~> i \in processed
==============================================================================
