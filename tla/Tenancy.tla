-------------------------------- MODULE Tenancy --------------------------------
(***************************************************************************)
(* Tenants share every process and every table (core/tenancy.py): request  *)
(* threads, workers, dispatchers and seed commands take up jobs of any     *)
(* tenant, and keep whose job it is in a context variable of their own.    *)
(* What they store here are versions of definitions, triggers, changes of  *)
(* entities, and runs; what becomes of a run is module Engine, of a change *)
(* module Outbox.                                                          *)
(***************************************************************************)
EXTENDS Naturals, FiniteSets, SequencesExt

CONSTANTS
    Tenant, Default,    \* the tenants, the one that unknown slugs get
    Slug,               \* what requests name: tenants, and whatever else
    Name,               \* names of workflows
    Web, Worker, Dispatcher, Shell,     \* the threads, by what they are for
    Ask,                \* what requests ask for, see Asks
    NoTenant, NoName,
    MaxVersion, MaxRuns, MaxChanges, MaxTriggers    \* bounds

\* "stream" is the response of stream_run, which goes on after the request.
Asks == {"define", "start", "create trigger", "delete trigger", "upsert", "stream"}

Thread == Web \cup Worker \cup Dispatcher \cup Shell

ASSUME TenantAssumption ==
    Default \in Tenant /\ Tenant \subseteq Slug /\ NoTenant \notin Tenant
ASSUME AskAssumption == Ask \subseteq Asks

VARIABLES
    defs,               \* the rows of WorkflowDef
    stored,             \* history: how many were stored under each tenant and name
    triggers,           \* Trigger, and
    changes,            \* EntityChange, in the order of their ids
    runs,               \* Run, with whom it was asked for
    queued,             \* the runs with a task that is due
    scope,              \* _current_tenant of each thread
    job                 \* what each thread is doing

rows == <<defs, stored, triggers, changes, runs, queued>>
vars == <<rows, scope, job>>

Idle == [pc |-> "idle", ask |-> "nothing", tenant |-> NoTenant, saved |-> NoTenant,
         name |-> NoName, latest |-> 0, row |-> 0]

Init ==
    /\ defs = {} /\ stored = [tenant \in Tenant |-> [name \in Name |-> 0]]
    /\ triggers = <<>> /\ changes = <<>> /\ runs = <<>> /\ queued = {}
    /\ scope = [t \in Thread |-> NoTenant]
    /\ job = [t \in Thread |-> Idle]

------------------------------------------------------------------------------
At(t, pc) == job[t].pc = pc

GoTo(t, pc) == job' = [job EXCEPT ![t].pc = pc]

\* All that is left to do is to go back to what was.
GetOut(t) == job' = [job EXCEPT ![t].pc = "leaving", ![t].name = NoName,
                                ![t].latest = 0]

\* tenant_context, and the middleware: whose job it is, and what to go back to.
Enter(t, tenant, start) ==
    /\ scope' = [scope EXCEPT ![t] = tenant]
    /\ job' = [job EXCEPT ![t] = [start EXCEPT !.tenant = tenant, !.saved = scope[t]]]

\* The other end of both, whatever was raised in between.
Restore(t) ==
    /\ scope' = [scope EXCEPT ![t] = job[t].saved]
    /\ job' = [job EXCEPT ![t] = Idle]

\* TenantScopedManager.get_queryset.
Scoped(t, table) == {row \in table : row.tenant = scope[t]}

\* Mutant: a lookup by name alone.
DefinitionsByName(t, name) == {d \in defs : d.name = name}

\* WorkflowDef.objects.filter(tenant=..., name=...).
Definitions(t, name) ==
    {d \in Scoped(t, defs) : d.tenant = job[t].tenant /\ d.name = name}

Latest(definitions) ==
    CHOOSE d \in definitions : \A other \in definitions : other.version <= d.version

\* 0 if there is none.
LatestVersion(tenant, name) ==
    LET mine == {d \in defs : d.tenant = tenant /\ d.name = name}
    IN  IF mine = {} THEN 0 ELSE Latest(mine).version

\* start_run: a run belongs to the tenant of its definition.
NewRun(definition, asker) ==
    [tenant |-> definition.tenant, definition |-> definition, asker |-> asker]

StartRuns(new) ==
    /\ Len(runs) + Len(new) <= MaxRuns
    /\ runs' = runs \o new
    /\ queued' = queued \cup (Len(runs) + 1 .. Len(runs) + Len(new))

StoreTrigger(tenant, definition) ==
    /\ Len(triggers) < MaxTriggers
    /\ triggers' = Append(triggers, [tenant |-> tenant, definition |-> definition])

------------------------------------------------------------------------------
(* create_definition, from a request or from a seed command.               *)

ReadLatest(t) ==
    /\ At(t, "defining")
    /\ job' = [job EXCEPT ![t].pc = "storing",
                          ![t].latest = LatestVersion(job[t].tenant, job[t].name)]
    /\ UNCHANGED <<rows, scope>>

Following(t) ==
    [tenant |-> job[t].tenant, name |-> job[t].name, version |-> job[t].latest + 1]

Insert(new, t) ==
    /\ defs' = defs \cup {new}
    /\ stored' = [stored EXCEPT ![new.tenant][new.name] = @ + 1]
    /\ IF t \in Shell
       THEN job' = [job EXCEPT ![t].pc = "planting", ![t].latest = new.version]
       ELSE GetOut(t)

\* Mutant: there is no unique index.
StoreAnyway(t) ==
    /\ At(t, "storing")
    /\ job[t].latest < MaxVersion
    /\ Insert(Following(t), t)
    /\ UNCHANGED <<triggers, changes, runs, queued, scope>>

\* The unique index refuses a version somebody else has stored meanwhile, and the
\* error ends the request, or the command.
Store(t) ==
    /\ At(t, "storing")
    /\ job[t].latest < MaxVersion
    /\ IF Following(t) \in defs
       THEN UNCHANGED <<defs, stored>> /\ GetOut(t)
       ELSE Insert(Following(t), t)
    /\ UNCHANGED <<triggers, changes, runs, queued, scope>>

------------------------------------------------------------------------------
(* A request.                                                              *)

\* TenantMiddleware.__call__: an unknown slug, or none, stands for the default
\* tenant.
Resolve(slug) == IF slug \in Tenant THEN slug ELSE Default

Receive(t) ==
    /\ At(t, "idle")
    /\ \E slug \in Slug, ask \in Ask, name \in Name :
        Enter(t, Resolve(slug),
              [Idle EXCEPT !.ask = ask, !.name = name,
                           !.pc = IF ask = "define" THEN "defining" ELSE "serving"])
    /\ UNCHANGED rows

\* RunViewSet.create: a version that was asked for, or the latest one; 404 if there
\* is none.
StartRun(t) ==
    LET definitions == Definitions(t, job[t].name)
    IN  /\ job[t].ask = "start"
        /\ \/ definitions = {} /\ UNCHANGED <<runs, queued>>
           \/ \E d \in definitions : StartRuns(<<NewRun(d, job[t].tenant)>>)
        /\ UNCHANGED <<defs, stored, triggers, changes>>

\* TriggerViewSet.create: the trigger is for the latest version there is.
CreateTrigger(t) ==
    LET definitions == Definitions(t, job[t].name)
    IN  /\ job[t].ask = "create trigger"
        /\ IF definitions = {} THEN UNCHANGED triggers
           ELSE StoreTrigger(job[t].tenant, Latest(definitions))
        /\ UNCHANGED <<defs, stored, changes, runs, queued>>

DeleteTrigger(t) ==
    /\ job[t].ask = "delete trigger"
    /\ \/ \E i \in DOMAIN triggers :
            /\ triggers[i] \in Scoped(t, Range(triggers))
            /\ triggers' = RemoveAt(triggers, i)
       \/ UNCHANGED triggers
    /\ UNCHANGED <<defs, stored, changes, runs, queued>>

\* upsert_entity, when it changes something (module Outbox).
AppendChange(t) ==
    /\ Len(changes) < MaxChanges
    /\ changes' = Append(changes, [tenant |-> job[t].tenant, processed |-> FALSE])

Upsert(t) ==
    /\ job[t].ask = "upsert"
    /\ AppendChange(t)
    /\ UNCHANGED <<defs, stored, triggers, runs, queued>>

\* stream_run returns a generator and has read nothing yet.
ReturnStream(t) == job[t].ask = "stream" /\ UNCHANGED rows

Serve(t) ==
    /\ At(t, "serving")
    /\ \/ StartRun(t) \/ CreateTrigger(t) \/ DeleteTrigger(t) \/ Upsert(t)
       \/ ReturnStream(t)
    /\ GetOut(t)
    /\ UNCHANGED scope

\* What was sent is refused, or a view raises an exception.
Fail(t) ==
    /\ At(t, "serving") \/ At(t, "defining")
    /\ GetOut(t)
    /\ UNCHANGED <<rows, scope>>

\* The middleware returns, by its finally clause; a stream goes on after that.
Leave(t) ==
    /\ At(t, "leaving")
    /\ IF job[t].ask = "stream"
       THEN /\ scope' = [scope EXCEPT ![t] = job[t].saved]
            /\ GoTo(t, "streaming")
       ELSE Restore(t)
    /\ UNCHANGED rows

\* The first query of the generator; without a tenant it is refused.
Poll(t) ==
    /\ At(t, "streaming")
    /\ job' = [job EXCEPT ![t] = Idle]
    /\ UNCHANGED <<rows, scope>>

------------------------------------------------------------------------------
(* A worker, and a dispatcher: they claim for any tenant, then enter its    *)
(* context.                                                                *)

\* run_once.
ClaimTask(w) ==
    /\ At(w, "idle")
    /\ \E r \in queued :
        /\ \A other \in Worker : job[other].row # r
        /\ Enter(w, runs[r].tenant, [Idle EXCEPT !.pc = "working", !.row = r])
    /\ UNCHANGED rows

\* execute_task returns, with more of the run to do or not, or raises.
FinishTask(w) ==
    /\ At(w, "working")
    /\ queued' \in {queued, queued \ {job[w].row}}
    /\ Restore(w)
    /\ UNCHANGED <<defs, stored, triggers, changes, runs>>

\* dispatch_one: the oldest change that nobody has locked.
ClaimChange(d) ==
    LET open == {c \in DOMAIN changes :
                    /\ ~changes[c].processed
                    /\ \A other \in Dispatcher : job[other].row # c}
    IN  /\ At(d, "idle")
        /\ \E c \in open :
            /\ \A other \in open : c <= other
            /\ Enter(d, changes[c].tenant, [Idle EXCEPT !.pc = "firing", !.row = c])
        /\ UNCHANGED rows

TriggersFor(change) == {i \in DOMAIN triggers : triggers[i].tenant = change.tenant}

\* _fire_triggers and the commit: those of the triggers that match.  The change
\* stays as it was if something is raised.
FireTriggers(d) ==
    LET change == changes[job[d].row]
    IN  /\ At(d, "firing")
        /\ \/ \E matching \in SUBSET TriggersFor(change) :
                /\ StartRuns([k \in 1..Cardinality(matching) |->
                        NewRun(triggers[SetToSeq(matching)[k]].definition, change.tenant)])
                /\ changes' = [changes EXCEPT ![job[d].row].processed = TRUE]
           \/ UNCHANGED <<changes, runs, queued>>
        /\ Restore(d)
        /\ UNCHANGED <<defs, stored, triggers>>

------------------------------------------------------------------------------
(* A seed command: a definition, an entity and a trigger for one tenant.    *)

\* handle: default_tenant, or the slug seed_tenant was given.  A definition that is
\* there, and up to date, is kept.
Seed(s) ==
    /\ At(s, "idle")
    /\ \E tenant \in Tenant, name \in Name :
        LET latest == LatestVersion(tenant, name)
            seed   == [Idle EXCEPT !.ask = "seed", !.name = name]
        IN  \/ Enter(s, tenant, [seed EXCEPT !.pc = "defining"])
            \/ /\ latest > 0
               /\ Enter(s, tenant, [seed EXCEPT !.pc = "planting", !.latest = latest])
    /\ UNCHANGED rows

\* upsert_entity of the people or the nodes; seed_demo stores definitions only.
Plant(s) ==
    /\ At(s, "planting")
    /\ \/ AppendChange(s) /\ GoTo(s, "pointing")
       \/ UNCHANGED changes /\ (GoTo(s, "pointing") \/ GetOut(s))
    /\ UNCHANGED <<defs, stored, triggers, runs, queued, scope>>

\* Trigger.objects.update_or_create: one trigger is pointed at the definition, none
\* is created, several are an error.  The definition is the one the command found
\* or stored, or (seed_graph) the latest one by now.
Point(s) ==
    LET mine        == {i \in DOMAIN triggers :
                            triggers[i] \in Scoped(s, Range(triggers))}
        definitions == Definitions(s, job[s].name)
    IN  /\ At(s, "pointing")
        /\ \E d \in definitions :
            /\ d.version = job[s].latest \/ d = Latest(definitions)
            /\ \/ mine = {} /\ StoreTrigger(job[s].tenant, d)
               \/ \E i \in mine : /\ mine = {i}
                                  /\ triggers' = [triggers EXCEPT ![i].definition = d]
               \/ Cardinality(mine) > 1 /\ UNCHANGED triggers
        /\ GetOut(s)
        /\ UNCHANGED <<defs, stored, changes, runs, queued, scope>>

------------------------------------------------------------------------------
Next ==
    \/ \E t \in Web : Receive(t) \/ Serve(t) \/ Fail(t) \/ Poll(t)
    \/ \E t \in Web \cup Shell : ReadLatest(t) \/ Store(t) \/ Leave(t)
    \/ \E w \in Worker : ClaimTask(w) \/ FinishTask(w)
    \/ \E d \in Dispatcher : ClaimChange(d) \/ FireTriggers(d)
    \/ \E s \in Shell : Seed(s) \/ Plant(s) \/ Point(s)

Spec == Init /\ [][Next]_vars

------------------------------------------------------------------------------
(* Properties.                                                             *)

\* Nothing crosses from one tenant to another, whichever threads hand it on: no
\* thread acts for another tenant than the one whose job it is doing (core.tenancy:
\* a leak is "the exact bug this module exists to prevent"); a run belongs to the
\* tenant it was asked for, by a request or by a change of that tenant, and so does
\* the definition it runs, and the one a trigger will run.
TenantsApart ==
    /\ \A t \in Thread : scope[t] \in {job[t].tenant, NoTenant}
    /\ \A r \in DOMAIN runs :
        runs[r].tenant = runs[r].asker /\ runs[r].definition.tenant = runs[r].asker
    /\ \A i \in DOMAIN triggers : triggers[i].definition.tenant = triggers[i].tenant

\* The versions of a name are 1, 2, ..., each stored once, although requests and
\* seed commands number them from what they have read (create_definition).
VersionsGapless ==
    \A tenant \in Tenant, name \in Name :
        LET mine == {d \in defs : d.tenant = tenant /\ d.name = name}
        IN  {d.version : d \in mine} = 1..stored[tenant][name]

------------------------------------------------------------------------------
(* A promise of a comment that the code does not keep; README.md shows it.  *)

\* Whoever queries does so for somebody: a query without a tenant is "always a
\* bug" (core.tenancy.NoTenantContext), and the generator of a stream makes one.
AlwaysScoped == \A t \in Thread : scope[t] = job[t].tenant
==============================================================================
