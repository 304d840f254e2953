---------------------------- MODULE TenancyProofs ----------------------------
(***************************************************************************)
(* Tenants stay apart and versions have no gaps, for every number of       *)
(* threads, tenants and names, and every bound.  Neither is inductive:     *)
(* that a row belongs to its asker rests on the scope of the thread that   *)
(* writes it (Acting), and that no version is skipped on what the thread   *)
(* has read before it stores one (the last conjunct of Acting).            *)
(***************************************************************************)
EXTENDS Tenancy, SequenceTheorems, FiniteSetTheorems, TLAPS

Definition == [tenant : Tenant, name : Name, version : Nat \ {0}]
Trigger    == [tenant : Tenant, definition : Definition]
Change     == [tenant : Tenant, processed : BOOLEAN]
RunRow     == [tenant : Tenant, definition : Definition, asker : Tenant]

Places == {"idle", "defining", "storing", "serving", "leaving", "streaming",
           "working", "firing", "planting", "pointing"}

\* What was in scope before a job is always nobody's: a thread takes up a job when
\* it is idle, and is nobody's by then.
Job == [pc : Places, ask : Ask \cup {"nothing", "seed"},
        tenant : Tenant \cup {NoTenant}, saved : {NoTenant},
        name : Name \cup {NoName}, latest : Nat, row : Nat]

TypeOK ==
    /\ defs \subseteq Definition
    /\ stored \in [Tenant -> [Name -> Nat]]
    /\ triggers \in Seq(Trigger)
    /\ changes \in Seq(Change)
    /\ runs \in Seq(RunRow)
    /\ queued \subseteq DOMAIN runs
    /\ scope \in [Thread -> Tenant \cup {NoTenant}]
    /\ job \in [Thread -> Job]

\* A thread in the middle of a job acts for its tenant and for nobody else; the row
\* it has claimed is that tenant's; and nobody has taken back a version it has read.
Acting(t) ==
    /\ IF job[t].pc \in {"idle", "streaming"}
       THEN scope[t] = NoTenant
       ELSE job[t].tenant \in Tenant /\ scope[t] = job[t].tenant
    /\ At(t, "working") => /\ job[t].row \in DOMAIN runs
                           /\ runs[job[t].row].tenant = job[t].tenant
    /\ At(t, "firing") => /\ job[t].row \in DOMAIN changes
                          /\ changes[job[t].row].tenant = job[t].tenant
    /\ job[t].pc \in {"defining", "storing"} => job[t].name \in Name
    /\ At(t, "storing") => job[t].latest <= stored[job[t].tenant][job[t].name]

\* The second and third conjunct of TenantsApart, for one row.
OwnRun(run)         == run.tenant = run.asker /\ run.definition.tenant = run.asker
OwnTrigger(trigger) == trigger.definition.tenant = trigger.tenant

Inv ==
    /\ TypeOK
    /\ \A t \in Thread : Acting(t)
    /\ \A r \in DOMAIN runs : OwnRun(runs[r])
    /\ \A i \in DOMAIN triggers : OwnTrigger(triggers[i])
    /\ VersionsGapless

\* The rows that the jobs of threads refer to are never taken back.
RowsStay ==
    /\ \A r \in DOMAIN runs : r \in DOMAIN runs' /\ runs'[r].tenant = runs[r].tenant
    /\ \A c \in DOMAIN changes :
        c \in DOMAIN changes' /\ changes'[c].tenant = changes[c].tenant
    /\ \A tenant \in Tenant, name \in Name : stored[tenant][name] <= stored'[tenant][name]

------------------------------------------------------------------------------
(* What the helpers do.                                                    *)

\* A row of a table that is kept in the order of its ids.
LEMMA RowOf ==
    ASSUME NEW S, NEW table \in Seq(S), NEW i \in DOMAIN table
    PROVE  i \in Nat /\ table[i] \in S
<1>1. Len(table) \in Nat /\ DOMAIN table = 1..Len(table)
  BY LenProperties
<1> QED
  BY <1>1, ElementOfSeq

\* The latest of a tenant's definitions of one name is the last that was stored.
LEMMA LatestOwn ==
    ASSUME Inv, NEW tenant \in Tenant, NEW name \in Name,
           NEW mine, mine = {d \in defs : d.tenant = tenant /\ d.name = name}, mine # {}
    PROVE  Latest(mine) \in mine /\ Latest(mine).version = stored[tenant][name]
<1>1. {d.version : d \in mine} = 1..stored[tenant][name]
  BY DEF Inv, VersionsGapless
<1>2. stored[tenant][name] \in Nat
  BY DEF Inv, TypeOK
<1>3. \A d \in mine : d.version \in 1..stored[tenant][name]
  BY <1>1
<1>4. stored[tenant][name] \in {d.version : d \in mine}
  <2>1. PICK d \in mine : d.version \in 1..stored[tenant][name]
    BY <1>3
  <2>2. stored[tenant][name] \in 1..stored[tenant][name]
    BY <1>2, <2>1
  <2> QED
    BY <1>1, <2>2
<1>5. PICK last \in mine : last.version = stored[tenant][name]
  BY <1>4
<1>6. \A d \in mine : d.version <= last.version
  BY <1>2, <1>3, <1>5
<1>7. /\ Latest(mine) \in mine
      /\ \A d \in mine : d.version <= Latest(mine).version
  BY <1>5, <1>6 DEF Latest
<1> QED
  BY <1>2, <1>3, <1>5, <1>7

\* The version create_definition reads is the number of versions stored so far.
LEMMA LatestIsCount ==
    ASSUME Inv, NEW tenant \in Tenant, NEW name \in Name
    PROVE  LatestVersion(tenant, name) = stored[tenant][name]
<1> DEFINE mine == {d \in defs : d.tenant = tenant /\ d.name = name}
<1>1. CASE mine = {}
  <2>1. \A v \in 1..stored[tenant][name] : v \in {d.version : d \in mine}
    BY DEF Inv, VersionsGapless
  <2>2. stored[tenant][name] \in Nat /\ \A v \in 1..stored[tenant][name] : FALSE
    BY <1>1, <2>1 DEF Inv, TypeOK
  <2>3. stored[tenant][name] = 0
    BY <2>2
  <2> QED
    BY <1>1, <2>3 DEF LatestVersion
<1>2. CASE mine # {}
  BY <1>2, LatestOwn DEF LatestVersion
<1> QED
  BY <1>1, <1>2

\* What a scoped lookup returns is the tenant's own, and so is the latest of it.
LEMMA DefinitionsOwn ==
    ASSUME Inv, NEW t \in Thread, NEW name, job[t].tenant \in Tenant
    PROVE  /\ \A d \in Definitions(t, name) : d \in Definition /\ d.tenant = job[t].tenant
           /\ Definitions(t, name) # {} =>
                Latest(Definitions(t, name)) \in Definitions(t, name)
<1> DEFINE mine == Definitions(t, name)
<1>1. \A d \in mine : d \in Definition /\ d.tenant = job[t].tenant /\ d.name = name
  BY DEF Definitions, Scoped, Inv, TypeOK
<1>2. ASSUME mine # {}
      PROVE  Latest(mine) \in mine
  <2>1. name \in Name /\ scope[t] = job[t].tenant
    BY <1>1, <1>2 DEF Definitions, Scoped, Definition
  <2>2. mine = {d \in defs : d.tenant = job[t].tenant /\ d.name = name}
    BY <2>1 DEF Definitions, Scoped
  <2> QED
    BY <1>2, <2>1, <2>2, LatestOwn
<1> QED
  BY <1>1, <1>2

\* What start_run appends, if each of the new runs belongs to its asker.
LEMMA StartRunsOK ==
    ASSUME Inv, NEW new \in Seq(RunRow), \A k \in DOMAIN new : OwnRun(new[k]),
           StartRuns(new)
    PROVE  /\ runs' \in Seq(RunRow) /\ queued' \subseteq DOMAIN runs'
           /\ \A r \in DOMAIN runs : r \in DOMAIN runs' /\ runs'[r] = runs[r]
           /\ \A r \in DOMAIN runs' : OwnRun(runs'[r])
<1> USE DEF Inv, TypeOK, StartRuns
<1>1. /\ runs' \in Seq(RunRow) /\ Len(runs') = Len(runs) + Len(new)
      /\ \A r \in 1..Len(runs) : runs'[r] = runs[r]
      /\ \A r \in Len(runs) + 1 .. Len(runs) + Len(new) : runs'[r] = new[r - Len(runs)]
  BY ConcatProperties
<1>2. Len(runs) \in Nat /\ Len(new) \in Nat
  BY LenProperties
<1>3. DOMAIN runs = 1..Len(runs) /\ DOMAIN runs' = 1..Len(runs') /\ DOMAIN new = 1..Len(new)
  BY <1>1, LenProperties
<1>4. queued' \subseteq DOMAIN runs'
  BY <1>1, <1>2, <1>3
<1>5. ASSUME NEW r \in DOMAIN runs'
      PROVE  OwnRun(runs'[r])
  <2>1. CASE r \in 1..Len(runs)
    BY <1>1, <1>3, <2>1
  <2>2. CASE r \in Len(runs) + 1 .. Len(runs) + Len(new)
    <3>1. r - Len(runs) \in DOMAIN new
      BY <1>2, <1>3, <2>2
    <3> QED
      BY <1>1, <2>2, <3>1
  <2> QED
    BY <1>1, <1>2, <1>3, <2>1, <2>2
<1> QED
  BY <1>1, <1>2, <1>3, <1>4, <1>5

------------------------------------------------------------------------------
(* One thread takes a step.                                                *)

\* What a step of one thread leaves of the others' jobs.
LEMMA Others ==
    ASSUME Inv, TypeOK', RowsStay, NEW u \in Thread, job'[u] = job[u], scope'[u] = scope[u]
    PROVE  Acting(u)'
<1>1. Acting(u) /\ job[u] \in Job
  BY DEF Inv, TypeOK
<1>2. At(u, "working") => /\ job[u].row \in DOMAIN runs'
                          /\ runs'[job[u].row].tenant = job[u].tenant
  BY <1>1 DEF Acting, RowsStay
<1>3. At(u, "firing") => /\ job[u].row \in DOMAIN changes'
                         /\ changes'[job[u].row].tenant = job[u].tenant
  BY <1>1 DEF Acting, RowsStay
<1>4. ASSUME At(u, "storing")
      PROVE  job[u].latest <= stored'[job[u].tenant][job[u].name]
  <2>1. job[u].tenant \in Tenant /\ job[u].name \in Name
    BY <1>1, <1>4 DEF Acting, At
  <2>2. /\ job[u].latest <= stored[job[u].tenant][job[u].name]
        /\ stored[job[u].tenant][job[u].name] <= stored'[job[u].tenant][job[u].name]
    BY <1>1, <1>4, <2>1 DEF Acting, RowsStay
  <2>3. /\ job[u].latest \in Nat /\ stored[job[u].tenant][job[u].name] \in Nat
        /\ stored'[job[u].tenant][job[u].name] \in Nat
    BY <1>1, <2>1 DEF Inv, TypeOK, Job
  <2> QED
    BY <2>2, <2>3
<1> QED
  BY <1>1, <1>2, <1>3, <1>4 DEF Acting, At

\* Whatever one thread does, the invariant is about its own step.
LEMMA OneStep ==
    ASSUME Inv, TypeOK', RowsStay, VersionsGapless', NEW t \in Thread, Acting(t)',
           \A u \in Thread \ {t} : job'[u] = job[u] /\ scope'[u] = scope[u],
           \A r \in DOMAIN runs' : OwnRun(runs'[r]),
           \A i \in DOMAIN triggers' : OwnTrigger(triggers'[i])
    PROVE  Inv'
<1>1. \A u \in Thread : Acting(u)'
  BY Others
<1> QED
  BY <1>1 DEF Inv

\* A step that writes no row.
LEMMA NoRowStep ==
    ASSUME Inv, UNCHANGED rows, NEW t \in Thread,
           job' \in [Thread -> Job], scope' \in [Thread -> Tenant \cup {NoTenant}],
           \A u \in Thread \ {t} : job'[u] = job[u] /\ scope'[u] = scope[u], Acting(t)'
    PROVE  Inv'
<1> USE DEF rows
<1>1. TypeOK'
  BY DEF Inv, TypeOK
<1>2. RowsStay
  BY DEF Inv, TypeOK, RowsStay
<1>3. /\ VersionsGapless' /\ \A r \in DOMAIN runs' : OwnRun(runs'[r])
      /\ \A i \in DOMAIN triggers' : OwnTrigger(triggers'[i])
  BY DEF Inv, VersionsGapless
<1> QED
  BY <1>1, <1>2, <1>3, OneStep

\* A job ends early: its tenant stays in scope, until the thread leaves.
LEMMA GetOutOK ==
    ASSUME Inv, NEW t \in Thread, GetOut(t), UNCHANGED scope,
           job[t].pc \notin {"idle", "streaming"}
    PROVE  /\ job' \in [Thread -> Job] /\ scope' \in [Thread -> Tenant \cup {NoTenant}]
           /\ \A u \in Thread \ {t} : job'[u] = job[u] /\ scope'[u] = scope[u]
           /\ Acting(t)'
<1>1. job[t] \in Job /\ job \in [Thread -> Job] /\ Acting(t)
  BY DEF Inv, TypeOK
<1>2. job' = [job EXCEPT ![t] = [job[t] EXCEPT !.pc = "leaving", !.name = NoName,
                                               !.latest = 0]]
  BY <1>1 DEF GetOut
<1>3. [job[t] EXCEPT !.pc = "leaving", !.name = NoName, !.latest = 0] \in Job
  BY <1>1 DEF Job, Places
<1>4. /\ job'[t].pc = "leaving" /\ job'[t].tenant = job[t].tenant
      /\ \A u \in Thread \ {t} : job'[u] = job[u]
      /\ job' \in [Thread -> Job]
  BY <1>1, <1>2, <1>3 DEF Job
<1>5. Acting(t)'
  BY <1>1, <1>4 DEF Acting, At
<1> QED
  BY <1>4, <1>5 DEF Inv, TypeOK

\* A thread that takes up a job of some tenant is in its scope, and has been nobody's.
LEMMA EnterOK ==
    ASSUME Inv, NEW t \in Thread, At(t, "idle"), NEW tenant \in Tenant, NEW start \in Job,
           Enter(t, tenant, start)
    PROVE  /\ job' \in [Thread -> Job] /\ scope' \in [Thread -> Tenant \cup {NoTenant}]
           /\ \A u \in Thread \ {t} : job'[u] = job[u] /\ scope'[u] = scope[u]
           /\ scope'[t] = tenant
           /\ job'[t] = [start EXCEPT !.tenant = tenant, !.saved = NoTenant]
<1>1. scope[t] = NoTenant
  BY DEF Inv, Acting, At
<1>2. [start EXCEPT !.tenant = tenant, !.saved = NoTenant] \in Job
  BY DEF Job
<1> QED
  BY <1>1, <1>2 DEF Enter, Inv, TypeOK

\* And goes back to being nobody's.
LEMMA RestoreOK ==
    ASSUME Inv, NEW t \in Thread, Restore(t)
    PROVE  /\ job' \in [Thread -> Job] /\ scope' \in [Thread -> Tenant \cup {NoTenant}]
           /\ \A u \in Thread \ {t} : job'[u] = job[u] /\ scope'[u] = scope[u]
           /\ Acting(t)'
<1>1. job[t].saved = NoTenant /\ job \in [Thread -> Job]
  BY DEF Inv, TypeOK, Job
<1>2. Idle \in Job
  BY DEF Idle, Job, Places
<1>3. job'[t] = Idle /\ scope'[t] = NoTenant
  BY <1>1 DEF Restore, Inv, TypeOK
<1>4. Acting(t)'
  BY <1>3 DEF Acting, At, Idle
<1> QED
  BY <1>1, <1>2, <1>4 DEF Restore, Inv, TypeOK

------------------------------------------------------------------------------
(* The actions.                                                            *)

LEMMA ReceiveStep ==
    ASSUME Inv, NEW t \in Web, Receive(t)
    PROVE  Inv'
<1> t \in Thread
  BY DEF Thread
<1>1. At(t, "idle") /\ UNCHANGED rows
  BY DEF Receive
<1>2. PICK slug \in Slug, ask \in Ask, name \in Name :
        Enter(t, Resolve(slug),
              [Idle EXCEPT !.ask = ask, !.name = name,
                           !.pc = IF ask = "define" THEN "defining" ELSE "serving"])
  BY DEF Receive
<1> DEFINE start == [Idle EXCEPT !.ask = ask, !.name = name,
                                 !.pc = IF ask = "define" THEN "defining" ELSE "serving"]
<1>3. Resolve(slug) \in Tenant
  BY TenantAssumption DEF Resolve
<1>4. start \in Job
  BY DEF Idle, Job, Places
<1>5. /\ job' \in [Thread -> Job] /\ scope' \in [Thread -> Tenant \cup {NoTenant}]
      /\ \A u \in Thread \ {t} : job'[u] = job[u] /\ scope'[u] = scope[u]
      /\ scope'[t] = Resolve(slug)
      /\ job'[t] = [start EXCEPT !.tenant = Resolve(slug), !.saved = NoTenant]
  BY <1>1, <1>2, <1>3, <1>4, EnterOK
<1>6. Acting(t)'
  BY <1>3, <1>5 DEF Acting, At, Idle
<1> QED
  BY <1>1, <1>5, <1>6, NoRowStep

LEMMA FailStep ==
    ASSUME Inv, NEW t \in Web, Fail(t)
    PROVE  Inv'
<1>1. /\ t \in Thread /\ GetOut(t) /\ UNCHANGED scope /\ UNCHANGED rows
      /\ job[t].pc \notin {"idle", "streaming"}
  BY DEF Fail, Thread, At
<1> QED
  BY <1>1, GetOutOK, NoRowStep

LEMMA LeaveStep ==
    ASSUME Inv, NEW t \in Thread, Leave(t)
    PROVE  Inv'
<1>1. UNCHANGED rows /\ job[t] \in Job
  BY DEF Leave, Inv, TypeOK
<1>2. CASE job[t].ask = "stream"
  <2>1. /\ job' = [job EXCEPT ![t] = [job[t] EXCEPT !.pc = "streaming"]]
        /\ scope' = [scope EXCEPT ![t] = NoTenant]
    BY <1>1, <1>2 DEF Leave, GoTo, Job
  <2>2. [job[t] EXCEPT !.pc = "streaming"] \in Job
    BY <1>1 DEF Job, Places
  <2>3. /\ job' \in [Thread -> Job] /\ scope' \in [Thread -> Tenant \cup {NoTenant}]
        /\ \A u \in Thread \ {t} : job'[u] = job[u] /\ scope'[u] = scope[u]
        /\ job'[t].pc = "streaming" /\ scope'[t] = NoTenant
    BY <1>1, <2>1, <2>2 DEF Inv, TypeOK, Job
  <2>4. Acting(t)'
    BY <2>3 DEF Acting, At
  <2> QED
    BY <1>1, <2>3, <2>4, NoRowStep
<1>3. CASE job[t].ask # "stream"
  BY <1>1, <1>3, RestoreOK, NoRowStep DEF Leave
<1> QED
  BY <1>2, <1>3

LEMMA PollStep ==
    ASSUME Inv, NEW t \in Web, Poll(t)
    PROVE  Inv'
<1>1. t \in Thread /\ UNCHANGED rows /\ scope[t] = NoTenant
  BY DEF Poll, Thread, At, Inv, Acting
<1>2. Idle \in Job
  BY DEF Idle, Job, Places
<1>3. /\ job' \in [Thread -> Job] /\ scope' \in [Thread -> Tenant \cup {NoTenant}]
      /\ \A u \in Thread \ {t} : job'[u] = job[u] /\ scope'[u] = scope[u]
      /\ job'[t] = Idle /\ scope'[t] = NoTenant
  BY <1>1, <1>2 DEF Poll, Inv, TypeOK
<1>4. Acting(t)'
  BY <1>3 DEF Acting, At, Idle
<1> QED
  BY <1>1, <1>3, <1>4, NoRowStep

LEMMA ClaimTaskStep ==
    ASSUME Inv, NEW t \in Worker, ClaimTask(t)
    PROVE  Inv'
<1>1. t \in Thread /\ At(t, "idle") /\ UNCHANGED rows
  BY DEF ClaimTask, Thread
<1>2. PICK r \in queued : Enter(t, runs[r].tenant, [Idle EXCEPT !.pc = "working", !.row = r])
  BY DEF ClaimTask
<1> DEFINE start == [Idle EXCEPT !.pc = "working", !.row = r]
<1>3. r \in DOMAIN runs /\ r \in Nat /\ runs[r].tenant \in Tenant
  <2>1. r \in DOMAIN runs
    BY DEF Inv, TypeOK
  <2>2. r \in Nat /\ runs[r] \in RunRow
    BY <2>1, RowOf DEF Inv, TypeOK
  <2> QED
    BY <2>1, <2>2 DEF RunRow
<1>4. start \in Job
  BY <1>3 DEF Idle, Job, Places
<1>5. /\ job' \in [Thread -> Job] /\ scope' \in [Thread -> Tenant \cup {NoTenant}]
      /\ \A u \in Thread \ {t} : job'[u] = job[u] /\ scope'[u] = scope[u]
      /\ scope'[t] = runs[r].tenant
      /\ job'[t] = [start EXCEPT !.tenant = runs[r].tenant, !.saved = NoTenant]
  BY <1>1, <1>2, <1>3, <1>4, EnterOK
<1>6. Acting(t)'
  BY <1>1, <1>3, <1>5 DEF Acting, At, Idle, rows
<1> QED
  BY <1>1, <1>5, <1>6, NoRowStep

LEMMA ClaimChangeStep ==
    ASSUME Inv, NEW t \in Dispatcher, ClaimChange(t)
    PROVE  Inv'
<1>1. t \in Thread /\ At(t, "idle") /\ UNCHANGED rows
  BY DEF ClaimChange, Thread
<1>2. PICK c \in DOMAIN changes :
        Enter(t, changes[c].tenant, [Idle EXCEPT !.pc = "firing", !.row = c])
  BY DEF ClaimChange
<1> DEFINE start == [Idle EXCEPT !.pc = "firing", !.row = c]
<1>3. c \in Nat /\ changes[c].tenant \in Tenant
  <2>1. c \in Nat /\ changes[c] \in Change
    BY RowOf DEF Inv, TypeOK
  <2> QED
    BY <2>1 DEF Change
<1>4. start \in Job
  BY <1>3 DEF Idle, Job, Places
<1>5. /\ job' \in [Thread -> Job] /\ scope' \in [Thread -> Tenant \cup {NoTenant}]
      /\ \A u \in Thread \ {t} : job'[u] = job[u] /\ scope'[u] = scope[u]
      /\ scope'[t] = changes[c].tenant
      /\ job'[t] = [start EXCEPT !.tenant = changes[c].tenant, !.saved = NoTenant]
  BY <1>1, <1>2, <1>3, <1>4, EnterOK
<1>6. Acting(t)'
  BY <1>1, <1>3, <1>5 DEF Acting, At, Idle, rows
<1> QED
  BY <1>1, <1>5, <1>6, NoRowStep

LEMMA SeedStep ==
    ASSUME Inv, NEW t \in Shell, Seed(t)
    PROVE  Inv'
<1>1. t \in Thread /\ At(t, "idle") /\ UNCHANGED rows
  BY DEF Seed, Thread
<1>2. PICK tenant \in Tenant, name \in Name :
        LET latest == LatestVersion(tenant, name)
            seed   == [Idle EXCEPT !.ask = "seed", !.name = name]
        IN  \/ Enter(t, tenant, [seed EXCEPT !.pc = "defining"])
            \/ /\ latest > 0
               /\ Enter(t, tenant, [seed EXCEPT !.pc = "planting", !.latest = latest])
  BY DEF Seed
<1>3. LatestVersion(tenant, name) \in Nat
  BY LatestIsCount DEF Inv, TypeOK
<1>4. PICK start \in Job : /\ Enter(t, tenant, start) /\ start.pc \in {"defining", "planting"}
                           /\ start.name = name
  <2> DEFINE seed == [Idle EXCEPT !.ask = "seed", !.name = name]
  <2>1. [seed EXCEPT !.pc = "defining"] \in Job
    BY DEF Idle, Job, Places
  <2>2. [seed EXCEPT !.pc = "planting", !.latest = LatestVersion(tenant, name)] \in Job
    BY <1>3 DEF Idle, Job, Places
  <2> QED
    BY <1>2, <2>1, <2>2 DEF Idle
<1>5. /\ job' \in [Thread -> Job] /\ scope' \in [Thread -> Tenant \cup {NoTenant}]
      /\ \A u \in Thread \ {t} : job'[u] = job[u] /\ scope'[u] = scope[u]
      /\ scope'[t] = tenant
      /\ job'[t] = [start EXCEPT !.tenant = tenant, !.saved = NoTenant]
  BY <1>1, <1>4, EnterOK
<1>6. /\ job'[t].pc = start.pc /\ job'[t].name = name /\ job'[t].tenant = tenant
  BY <1>4, <1>5 DEF Job
<1>7. Acting(t)'
  BY <1>4, <1>5, <1>6 DEF Acting, At
<1> QED
  BY <1>1, <1>5, <1>7, NoRowStep

LEMMA ReadLatestStep ==
    ASSUME Inv, NEW t \in Thread, ReadLatest(t)
    PROVE  Inv'
<1>1. At(t, "defining") /\ UNCHANGED rows /\ UNCHANGED scope /\ job[t] \in Job
  BY DEF ReadLatest, Inv, TypeOK
<1>2. job[t].tenant \in Tenant /\ job[t].name \in Name /\ scope[t] = job[t].tenant
  BY <1>1 DEF Inv, Acting, At
<1> DEFINE latest == LatestVersion(job[t].tenant, job[t].name)
<1>3. latest = stored[job[t].tenant][job[t].name] /\ latest \in Nat
  BY <1>2, LatestIsCount DEF Inv, TypeOK
<1> HIDE DEF latest
<1>4. job' = [job EXCEPT ![t] = [job[t] EXCEPT !.pc = "storing", !.latest = latest]]
  BY DEF ReadLatest, latest
<1>5. [job[t] EXCEPT !.pc = "storing", !.latest = latest] \in Job
  BY <1>1, <1>3 DEF Job, Places
<1>6. /\ job' \in [Thread -> Job] /\ scope' \in [Thread -> Tenant \cup {NoTenant}]
      /\ \A u \in Thread \ {t} : job'[u] = job[u] /\ scope'[u] = scope[u]
      /\ job'[t].pc = "storing" /\ job'[t].latest = latest
      /\ job'[t].tenant = job[t].tenant /\ job'[t].name = job[t].name
  BY <1>1, <1>4, <1>5 DEF Inv, TypeOK, Job
<1>7. Acting(t)'
  BY <1>1, <1>2, <1>3, <1>6 DEF Acting, At, rows
<1> QED
  BY <1>1, <1>6, <1>7, NoRowStep

\* A version that is stored is the one after those that are there: whoever has read
\* an older count finds its number taken.
LEMMA StoreStep ==
    ASSUME Inv, NEW t \in Thread, Store(t)
    PROVE  Inv'
<1>1. /\ At(t, "storing") /\ UNCHANGED <<triggers, changes, runs, queued, scope>>
      /\ job[t] \in Job
  BY DEF Store, Inv, TypeOK
<1>2. CASE Following(t) \in defs
  <2>1. UNCHANGED <<defs, stored>> /\ GetOut(t)
    BY <1>2 DEF Store
  <2> QED
    BY <1>1, <2>1, GetOutOK, NoRowStep DEF At, rows
<1>3. CASE Following(t) \notin defs
  <2> DEFINE tenant == job[t].tenant
             name   == job[t].name
             new    == [tenant |-> tenant, name |-> name, version |-> job[t].latest + 1]
  <2>1. /\ tenant \in Tenant /\ name \in Name /\ scope[t] = tenant
        /\ job[t].latest <= stored[tenant][name]
        /\ job[t].latest \in Nat /\ stored[tenant][name] \in Nat
    <3>1. /\ tenant \in Tenant /\ name \in Name /\ scope[t] = tenant
          /\ job[t].latest <= stored[tenant][name]
      BY <1>1 DEF Inv, Acting, At
    <3>2. job[t].latest \in Nat
      BY <1>1 DEF Job
    <3> QED
      BY <3>1, <3>2 DEF Inv, TypeOK
  <2>2. {d.version : d \in {d \in defs : d.tenant = tenant /\ d.name = name}}
            = 1..stored[tenant][name]
    BY <2>1 DEF Inv, VersionsGapless
  <2>3. job[t].latest = stored[tenant][name]
    <3>1. SUFFICES ASSUME job[t].latest < stored[tenant][name]
                   PROVE  FALSE
      BY <2>1
    <3>2. job[t].latest + 1 \in 1..stored[tenant][name]
      BY <2>1, <3>1
    <3>3. PICK d \in defs : /\ d.tenant = tenant /\ d.name = name
                            /\ d.version = job[t].latest + 1
      BY <2>2, <3>2
    <3>4. d \in Definition
      BY DEF Inv, TypeOK
    <3>5. d = new
      BY <3>3, <3>4 DEF Definition
    <3> QED
      BY <1>3, <3>5 DEF Following
  <2>4. /\ defs' = defs \cup {new} /\ stored' = [stored EXCEPT ![tenant][name] = @ + 1]
        /\ IF t \in Shell
           THEN job' = [job EXCEPT ![t].pc = "planting", ![t].latest = new.version]
           ELSE GetOut(t)
    BY <1>3 DEF Store, Insert, Following
  <2>5. new \in Definition
    BY <2>1 DEF Definition
  <2>6. defs' \subseteq Definition /\ stored' \in [Tenant -> [Name -> Nat]]
    BY <2>1, <2>4, <2>5 DEF Inv, TypeOK
  <2>7. \A tt \in Tenant, nn \in Name :
          stored'[tt][nn] = IF tt = tenant /\ nn = name THEN stored[tt][nn] + 1
                            ELSE stored[tt][nn]
    BY <2>1, <2>4 DEF Inv, TypeOK
  <2>8. RowsStay
    <3>1. \A tt \in Tenant, nn \in Name : stored[tt][nn] \in Nat
      BY DEF Inv, TypeOK
    <3>2. \A tt \in Tenant, nn \in Name : stored[tt][nn] <= stored'[tt][nn]
      BY <2>7, <3>1
    <3> QED
      BY <1>1, <3>2 DEF RowsStay
  <2>9. VersionsGapless'
    <3>1. SUFFICES ASSUME NEW tt \in Tenant, NEW nn \in Name
                   PROVE  {d.version : d \in {d \in defs' : d.tenant = tt /\ d.name = nn}}
                            = 1..stored'[tt][nn]
      BY DEF VersionsGapless
    <3> DEFINE old == {d \in defs : d.tenant = tt /\ d.name = nn}
               now == {d \in defs' : d.tenant = tt /\ d.name = nn}
    <3>2. {d.version : d \in old} = 1..stored[tt][nn]
      BY DEF Inv, VersionsGapless
    <3>3. CASE tt = tenant /\ nn = name
      <4>1. now = old \cup {new}
        BY <2>4, <3>3
      <4>2. {d.version : d \in now} = {d.version : d \in old} \cup {new.version}
        BY <4>1
      <4>3. (1..stored[tt][nn]) \cup {stored[tt][nn] + 1} = 1..(stored[tt][nn] + 1)
        BY <2>1, <3>3
      <4> QED
        BY <2>3, <2>7, <3>2, <3>3, <4>2, <4>3
    <3>4. CASE ~(tt = tenant /\ nn = name)
      <4>1. now = old
        BY <2>4, <3>4
      <4> QED
        BY <2>7, <3>2, <3>4, <4>1
    <3> QED
      BY <3>3, <3>4
  <2>10. /\ job' \in [Thread -> Job] /\ Acting(t)'
         /\ \A u \in Thread \ {t} : job'[u] = job[u]
    <3>1. CASE t \in Shell
      <4>1. job' = [job EXCEPT ![t] = [job[t] EXCEPT !.pc = "planting",
                                                     !.latest = job[t].latest + 1]]
        BY <1>1, <2>4, <3>1 DEF Job
      <4>2. [job[t] EXCEPT !.pc = "planting", !.latest = job[t].latest + 1] \in Job
        <5>1. job[t].latest + 1 \in Nat
          BY <2>1
        <5> QED
          BY <1>1, <5>1 DEF Job, Places
      <4>3. /\ job' \in [Thread -> Job] /\ \A u \in Thread \ {t} : job'[u] = job[u]
            /\ job'[t].pc = "planting" /\ job'[t].tenant = job[t].tenant
        BY <1>1, <4>1, <4>2 DEF Inv, TypeOK, Job
      <4> QED
        BY <1>1, <2>1, <4>3 DEF Acting, At
    <3>2. CASE t \notin Shell
      BY <1>1, <2>4, <3>2, GetOutOK DEF At
    <3> QED
      BY <3>1, <3>2
  <2>11. TypeOK'
    BY <1>1, <2>6, <2>10 DEF Inv, TypeOK
  <2>12. /\ \A r \in DOMAIN runs' : OwnRun(runs'[r])
         /\ \A i \in DOMAIN triggers' : OwnTrigger(triggers'[i])
    BY <1>1 DEF Inv
  <2> QED
    BY <1>1, <2>8, <2>9, <2>10, <2>11, <2>12, OneStep
<1> QED
  BY <1>2, <1>3

------------------------------------------------------------------------------
(* The actions that write triggers, changes and runs.                      *)

\* What they have in common: no row that a job refers to goes, and the rows there
\* are afterwards belong to whoever asked for them.
TablesOK ==
    /\ UNCHANGED <<defs, stored>>
    /\ triggers' \in Seq(Trigger) /\ changes' \in Seq(Change) /\ runs' \in Seq(RunRow)
    /\ queued' \subseteq DOMAIN runs'
    /\ \A r \in DOMAIN runs : r \in DOMAIN runs' /\ runs'[r].tenant = runs[r].tenant
    /\ \A c \in DOMAIN changes :
        c \in DOMAIN changes' /\ changes'[c].tenant = changes[c].tenant
    /\ \A r \in DOMAIN runs' : OwnRun(runs'[r])
    /\ \A i \in DOMAIN triggers' : OwnTrigger(triggers'[i])

LEMMA TablesStep ==
    ASSUME Inv, TablesOK, NEW t \in Thread,
           job' \in [Thread -> Job], scope' \in [Thread -> Tenant \cup {NoTenant}],
           \A u \in Thread \ {t} : job'[u] = job[u] /\ scope'[u] = scope[u], Acting(t)'
    PROVE  Inv'
<1>1. TypeOK'
  BY DEF Inv, TypeOK, TablesOK
<1>2. RowsStay
  BY DEF Inv, TypeOK, RowsStay, TablesOK
<1>3. VersionsGapless'
  BY DEF Inv, VersionsGapless, TablesOK
<1> QED
  BY <1>1, <1>2, <1>3, OneStep DEF TablesOK

LEMMA SameTables ==
    ASSUME Inv, UNCHANGED rows
    PROVE  TablesOK
BY DEF Inv, TypeOK, TablesOK, rows

\* A row that is appended leaves the others where they were.
LEMMA AppendRow ==
    ASSUME NEW S, NEW table \in Seq(S), NEW new \in S,
           NEW longer, longer = Append(table, new)
    PROVE  /\ longer \in Seq(S)
           /\ \A i \in DOMAIN table : i \in DOMAIN longer /\ longer[i] = table[i]
           /\ \A i \in DOMAIN longer :
                longer[i] = new \/ (i \in DOMAIN table /\ longer[i] = table[i])
<1>1. Len(table) \in Nat /\ DOMAIN table = 1..Len(table)
  BY LenProperties
<1>2. /\ longer \in Seq(S) /\ DOMAIN longer = 1..(Len(table) + 1)
      /\ \A i \in 1..Len(table) : longer[i] = table[i]
      /\ longer[Len(table) + 1] = new
  BY <1>1
<1>3. \A i \in 1..(Len(table) + 1) : i = Len(table) + 1 \/ i \in 1..Len(table)
  BY <1>1
<1> QED
  BY <1>1, <1>2, <1>3

LEMMA StoreTriggerOK ==
    ASSUME Inv, NEW tenant \in Tenant, NEW d \in Definition, d.tenant = tenant,
           StoreTrigger(tenant, d), UNCHANGED <<defs, stored, changes, runs, queued>>
    PROVE  TablesOK
<1> DEFINE new == [tenant |-> tenant, definition |-> d]
<1>1. new \in Trigger /\ OwnTrigger(new)
  BY DEF Trigger, OwnTrigger
<1>2. triggers \in Seq(Trigger) /\ triggers' = Append(triggers, new)
  BY DEF StoreTrigger, Inv, TypeOK
<1> HIDE DEF new
<1>3. /\ triggers' \in Seq(Trigger)
      /\ \A i \in DOMAIN triggers' :
            triggers'[i] = new \/ (i \in DOMAIN triggers /\ triggers'[i] = triggers[i])
  BY <1>1, <1>2, AppendRow
<1>4. \A i \in DOMAIN triggers' : OwnTrigger(triggers'[i])
  BY <1>1, <1>3 DEF Inv
<1> QED
  BY <1>3, <1>4 DEF Inv, TypeOK, TablesOK

LEMMA AppendChangeOK ==
    ASSUME Inv, NEW t \in Thread, job[t].tenant \in Tenant, AppendChange(t),
           UNCHANGED <<defs, stored, triggers, runs, queued>>
    PROVE  TablesOK
<1> DEFINE new == [tenant |-> job[t].tenant, processed |-> FALSE]
<1>1. new \in Change
  BY DEF Change
<1>2. changes \in Seq(Change) /\ changes' = Append(changes, new)
  BY DEF AppendChange, Inv, TypeOK
<1>3. /\ changes' \in Seq(Change)
      /\ \A c \in DOMAIN changes : c \in DOMAIN changes' /\ changes'[c] = changes[c]
  BY <1>1, <1>2, AppendRow
<1> QED
  BY <1>3 DEF Inv, TypeOK, TablesOK

\* Whichever trigger goes, those that remain are as they were.
LEMMA RemoveOK ==
    ASSUME Inv, NEW i \in DOMAIN triggers, triggers' = RemoveAt(triggers, i),
           UNCHANGED <<defs, stored, changes, runs, queued>>
    PROVE  TablesOK
<1> DEFINE n == Len(triggers)
<1>1. /\ triggers \in Seq(Trigger) /\ n \in Nat /\ i \in 1..n
  BY LenProperties DEF Inv, TypeOK
<1>2. /\ SubSeq(triggers, 1, i - 1) \in Seq(Trigger)
      /\ SubSeq(triggers, i + 1, n) \in Seq(Trigger)
  <2>1. \A k \in 1..n : triggers[k] \in Trigger
    BY <1>1, ElementOfSeq
  <2> QED
    BY <1>1, <2>1, SubSeqProperties
<1> DEFINE front == SubSeq(triggers, 1, i - 1)
           back  == SubSeq(triggers, i + 1, n)
<1>3. /\ Len(front) = i - 1 /\ \A k \in 1..(i - 1) : front[k] = triggers[k]
      /\ Len(back) = n - i /\ \A k \in 1..(n - i) : back[k] = triggers[k + i]
  BY <1>1, SubSeqProperties
<1>4. /\ triggers' \in Seq(Trigger) /\ Len(triggers') = n - 1
      /\ \A k \in 1..(n - 1) :
            triggers'[k] = IF k <= i - 1 THEN front[k] ELSE back[k - (i - 1)]
  <2>1. triggers' = front \o back
    BY DEF RemoveAt
  <2>2. (i - 1) + (n - i) = n - 1
    BY <1>1
  <2>3. front \in Seq(Trigger) /\ back \in Seq(Trigger)
    BY <1>2
  <2> HIDE DEF front, back
  <2>4. /\ front \o back \in Seq(Trigger) /\ Len(front \o back) = Len(front) + Len(back)
        /\ \A k \in 1..(Len(front) + Len(back)) :
              (front \o back)[k] = IF k <= Len(front) THEN front[k] ELSE back[k - Len(front)]
    BY <2>3, ConcatProperties
  <2> QED
    BY <1>3, <2>1, <2>2, <2>4
<1> HIDE DEF front, back
<1>5. ASSUME NEW k \in DOMAIN triggers'
      PROVE  \E old \in DOMAIN triggers : triggers'[k] = triggers[old]
  <2>1. k \in 1..(n - 1) /\ DOMAIN triggers = 1..n
    BY <1>1, <1>4, LenProperties
  <2>2. CASE k <= i - 1
    <3>1. k \in 1..(i - 1) /\ k \in DOMAIN triggers
      BY <1>1, <2>1, <2>2
    <3> QED
      BY <1>3, <1>4, <2>1, <2>2, <3>1
  <2>3. CASE k > i - 1
    <3>1. k - (i - 1) \in 1..(n - i) /\ k + 1 \in 1..n /\ (k - (i - 1)) + i = k + 1
      BY <1>1, <2>1, <2>3
    <3>2. triggers'[k] = triggers[k + 1]
      <4>1. triggers'[k] = back[k - (i - 1)]
        BY <1>1, <1>4, <2>1, <2>3
      <4>2. back[k - (i - 1)] = triggers[(k - (i - 1)) + i]
        BY <1>3, <3>1
      <4> QED
        BY <3>1, <4>1, <4>2
    <3> QED
      BY <2>1, <3>1, <3>2
  <2> QED
    BY <1>1, <2>1, <2>2, <2>3
<1>6. \A k \in DOMAIN triggers' : OwnTrigger(triggers'[k])
  BY <1>5 DEF Inv
<1> QED
  BY <1>4, <1>6 DEF Inv, TypeOK, TablesOK

LEMMA StartRunOK ==
    ASSUME Inv, NEW t \in Thread, job[t].tenant \in Tenant, StartRun(t)
    PROVE  TablesOK
<1>1. UNCHANGED <<defs, stored, triggers, changes>>
  BY DEF StartRun
<1>2. CASE UNCHANGED <<runs, queued>>
  BY <1>1, <1>2, SameTables DEF rows
<1>3. CASE \E d \in Definitions(t, job[t].name) : StartRuns(<<NewRun(d, job[t].tenant)>>)
  <2>1. PICK d \in Definitions(t, job[t].name) : StartRuns(<<NewRun(d, job[t].tenant)>>)
    BY <1>3
  <2>2. d \in Definition /\ d.tenant = job[t].tenant
    BY DefinitionsOwn
  <2> DEFINE run == NewRun(d, job[t].tenant)
  <2>3. run \in RunRow /\ OwnRun(run)
    BY <2>2 DEF NewRun, RunRow, OwnRun
  <2> HIDE DEF run
  <2>4. <<run>> \in Seq(RunRow) /\ \A k \in DOMAIN <<run>> : OwnRun(<<run>>[k])
    BY <2>3
  <2>5. StartRuns(<<run>>)
    BY <2>1 DEF run
  <2> QED
    BY <1>1, <2>4, <2>5, StartRunsOK DEF Inv, TypeOK, TablesOK
<1> QED
  BY <1>2, <1>3 DEF StartRun

LEMMA CreateTriggerOK ==
    ASSUME Inv, NEW t \in Thread, job[t].tenant \in Tenant, CreateTrigger(t)
    PROVE  TablesOK
<1> DEFINE definitions == Definitions(t, job[t].name)
<1>1. UNCHANGED <<defs, stored, changes, runs, queued>>
  BY DEF CreateTrigger
<1>2. CASE definitions = {}
  BY <1>1, <1>2, SameTables DEF CreateTrigger, rows
<1>3. CASE definitions # {}
  <2>1. Latest(definitions) \in Definition /\ Latest(definitions).tenant = job[t].tenant
    BY <1>3, DefinitionsOwn
  <2> QED
    BY <1>1, <1>3, <2>1, StoreTriggerOK DEF CreateTrigger
<1> QED
  BY <1>2, <1>3

LEMMA ServeStep ==
    ASSUME Inv, NEW t \in Web, Serve(t)
    PROVE  Inv'
<1>1. /\ t \in Thread /\ GetOut(t) /\ UNCHANGED scope
      /\ job[t].pc \notin {"idle", "streaming"}
  BY DEF Serve, Thread, At
<1>2. job[t].tenant \in Tenant
  BY <1>1 DEF Inv, Acting
<1>3. TablesOK
  <2>1. CASE StartRun(t)
    BY <1>1, <1>2, <2>1, StartRunOK
  <2>2. CASE CreateTrigger(t)
    BY <1>1, <1>2, <2>2, CreateTriggerOK
  <2>3. CASE DeleteTrigger(t)
    BY <2>3, RemoveOK, SameTables DEF DeleteTrigger, rows
  <2>4. CASE Upsert(t)
    BY <1>1, <1>2, <2>4, AppendChangeOK DEF Upsert
  <2>5. CASE ReturnStream(t)
    BY <2>5, SameTables DEF ReturnStream
  <2> QED
    BY <2>1, <2>2, <2>3, <2>4, <2>5 DEF Serve
<1> QED
  BY <1>1, <1>3, GetOutOK, TablesStep

LEMMA FinishTaskStep ==
    ASSUME Inv, NEW w \in Worker, FinishTask(w)
    PROVE  Inv'
<1>1. w \in Thread /\ UNCHANGED <<defs, stored, triggers, changes, runs>> /\ Restore(w)
  BY DEF FinishTask, Thread
<1>2. queued' \subseteq DOMAIN runs'
  BY DEF FinishTask, Inv, TypeOK
<1>3. TablesOK
  BY <1>1, <1>2 DEF Inv, TypeOK, TablesOK
<1> QED
  BY <1>1, <1>3, RestoreOK, TablesStep

\* Every run that a dispatcher starts is asked for by the tenant of the change.
LEMMA FireTriggersStep ==
    ASSUME Inv, NEW d \in Dispatcher, FireTriggers(d)
    PROVE  Inv'
<1> DEFINE c      == job[d].row
           change == changes[c]
<1>1. /\ d \in Thread /\ At(d, "firing") /\ Restore(d) /\ UNCHANGED <<defs, stored, triggers>>
  BY DEF FireTriggers, Thread
<1>2. c \in DOMAIN changes /\ change \in Change
  <2>1. c \in DOMAIN changes
    BY <1>1 DEF Inv, Acting
  <2> QED
    BY <2>1, RowOf DEF Inv, TypeOK
<1>3. CASE UNCHANGED <<changes, runs, queued>>
  BY <1>1, <1>3, SameTables, RestoreOK, TablesStep DEF rows
<1>4. CASE \E matching \in SUBSET TriggersFor(change) :
              /\ StartRuns([k \in 1..Cardinality(matching) |->
                      NewRun(triggers[SetToSeq(matching)[k]].definition, change.tenant)])
              /\ changes' = [changes EXCEPT ![c].processed = TRUE]
  <2>1. PICK matching \in SUBSET TriggersFor(change) :
              /\ StartRuns([k \in 1..Cardinality(matching) |->
                      NewRun(triggers[SetToSeq(matching)[k]].definition, change.tenant)])
              /\ changes' = [changes EXCEPT ![c].processed = TRUE]
    BY <1>4
  <2> DEFINE n   == Cardinality(matching)
             new == [k \in 1..n |->
                        NewRun(triggers[SetToSeq(matching)[k]].definition, change.tenant)]
  <2>2. IsFiniteSet(matching)
    <3>1. Len(triggers) \in Nat /\ DOMAIN triggers = 1..Len(triggers)
      BY LenProperties DEF Inv, TypeOK
    <3>2. IsFiniteSet(1..Len(triggers)) /\ matching \subseteq 1..Len(triggers)
      BY <3>1, FS_Interval DEF TriggersFor
    <3> QED
      BY <3>2, FS_Subset
  <2>3. n \in Nat /\ SetToSeq(matching) \in [1..n -> matching]
    <3>1. n \in Nat /\ ExistsBijection(1..n, matching)
      BY <2>2, FS_CardinalityType
    <3>2. PICK f \in Bijection(1..n, matching) : TRUE
      BY <3>1 DEF ExistsBijection
    <3>3. f \in [1..n -> matching] /\ IsInjective(f)
      BY <3>2 DEF Bijection, Injection, IsInjective
    <3> QED
      BY <3>1, <3>3 DEF SetToSeq
  <2>4. ASSUME NEW i \in matching
        PROVE  /\ NewRun(triggers[i].definition, change.tenant) \in RunRow
               /\ OwnRun(NewRun(triggers[i].definition, change.tenant))
    <3>1. i \in DOMAIN triggers /\ triggers[i].tenant = change.tenant
      BY DEF TriggersFor
    <3>2. triggers[i] \in Trigger /\ OwnTrigger(triggers[i])
      BY <3>1, RowOf DEF Inv, TypeOK
    <3> QED
      BY <1>2, <3>1, <3>2 DEF NewRun, RunRow, Trigger, Change, OwnRun, OwnTrigger
  <2>5. /\ new \in Seq(RunRow) /\ \A k \in DOMAIN new : OwnRun(new[k])
    BY <2>3, <2>4
  <2> HIDE DEF new
  <2>6. StartRuns(new)
    BY <2>1 DEF new
  <2>7. /\ changes' \in Seq(Change)
        /\ \A e \in DOMAIN changes :
              e \in DOMAIN changes' /\ changes'[e].tenant = changes[e].tenant
    <3>1. [change EXCEPT !.processed = TRUE] \in Change
      BY <1>2 DEF Change
    <3>2. changes' = [changes EXCEPT ![c] = [change EXCEPT !.processed = TRUE]]
      BY <2>1
    <3>3. changes \in Seq(Change)
      BY DEF Inv, TypeOK
    <3>4. changes' \in Seq(Change)
      BY <1>2, <3>1, <3>2, <3>3, ExceptSeq
    <3>5. [change EXCEPT !.processed = TRUE].tenant = change.tenant
      BY <1>2 DEF Change
    <3> QED
      BY <1>2, <3>2, <3>3, <3>4, <3>5
  <2>8. /\ runs' \in Seq(RunRow) /\ queued' \subseteq DOMAIN runs'
        /\ \A r \in DOMAIN runs : r \in DOMAIN runs' /\ runs'[r] = runs[r]
        /\ \A r \in DOMAIN runs' : OwnRun(runs'[r])
    BY <2>5, <2>6, StartRunsOK
  <2>9. TablesOK
    BY <1>1, <2>7, <2>8 DEF Inv, TypeOK, TablesOK
  <2> QED
    BY <1>1, <2>9, RestoreOK, TablesStep
<1> QED
  BY <1>3, <1>4 DEF FireTriggers

LEMMA PlantStep ==
    ASSUME Inv, NEW s \in Shell, Plant(s)
    PROVE  Inv'
<1>1. /\ s \in Thread /\ At(s, "planting") /\ job[s] \in Job
      /\ UNCHANGED <<defs, stored, triggers, runs, queued, scope>>
  BY DEF Plant, Thread, Inv, TypeOK
<1>2. job[s].tenant \in Tenant /\ scope[s] = job[s].tenant
  BY <1>1 DEF Inv, Acting, At
<1>3. TablesOK
  BY <1>1, <1>2, AppendChangeOK, SameTables DEF Plant, rows
<1>4. CASE GetOut(s)
  BY <1>1, <1>3, <1>4, GetOutOK, TablesStep DEF At
<1>5. CASE GoTo(s, "pointing")
  <2>1. job' = [job EXCEPT ![s] = [job[s] EXCEPT !.pc = "pointing"]]
    BY <1>5 DEF GoTo
  <2>2. [job[s] EXCEPT !.pc = "pointing"] \in Job
    BY <1>1 DEF Job, Places
  <2>3. /\ job' \in [Thread -> Job] /\ \A u \in Thread \ {s} : job'[u] = job[u]
        /\ job'[s].pc = "pointing" /\ job'[s].tenant = job[s].tenant
    BY <1>1, <2>1, <2>2 DEF Inv, TypeOK, Job
  <2>4. Acting(s)'
    BY <1>1, <1>2, <2>3 DEF Acting, At
  <2> QED
    BY <1>1, <1>3, <2>3, <2>4, TablesStep DEF Inv, TypeOK
<1> QED
  BY <1>4, <1>5 DEF Plant

LEMMA PointStep ==
    ASSUME Inv, NEW s \in Shell, Point(s)
    PROVE  Inv'
<1> DEFINE mine == {i \in DOMAIN triggers : triggers[i] \in Scoped(s, Range(triggers))}
<1>1. /\ s \in Thread /\ At(s, "pointing") /\ GetOut(s)
      /\ UNCHANGED <<defs, stored, changes, runs, queued, scope>>
  BY DEF Point, Thread
<1>2. job[s].tenant \in Tenant /\ scope[s] = job[s].tenant
  BY <1>1 DEF Inv, Acting, At
<1>3. PICK d \in Definitions(s, job[s].name) :
        \/ mine = {} /\ StoreTrigger(job[s].tenant, d)
        \/ \E i \in mine : /\ mine = {i}
                           /\ triggers' = [triggers EXCEPT ![i].definition = d]
        \/ Cardinality(mine) > 1 /\ UNCHANGED triggers
  BY DEF Point
<1>4. d \in Definition /\ d.tenant = job[s].tenant
  BY <1>1, <1>2, DefinitionsOwn
<1>5. ASSUME NEW i \in mine, triggers' = [triggers EXCEPT ![i].definition = d]
      PROVE  TablesOK
  <2> DEFINE new == [triggers[i] EXCEPT !.definition = d]
  <2>1. i \in DOMAIN triggers /\ triggers[i].tenant = job[s].tenant
    BY <1>2 DEF Scoped
  <2>2. triggers \in Seq(Trigger) /\ triggers[i] \in Trigger
    BY <2>1, RowOf DEF Inv, TypeOK
  <2>3. new \in Trigger /\ OwnTrigger(new)
    BY <1>4, <2>1, <2>2 DEF Trigger, OwnTrigger
  <2> HIDE DEF new
  <2>4. triggers' = [triggers EXCEPT ![i] = new]
    BY <1>5, <2>1, <2>2 DEF new
  <2>5. triggers' \in Seq(Trigger)
    BY <2>1, <2>2, <2>3, <2>4, ExceptSeq
  <2>6. \A k \in DOMAIN triggers' : OwnTrigger(triggers'[k])
    BY <2>1, <2>2, <2>3, <2>4 DEF Inv
  <2> QED
    BY <1>1, <2>5, <2>6 DEF Inv, TypeOK, TablesOK
<1>6. TablesOK
  BY <1>1, <1>2, <1>3, <1>4, <1>5, StoreTriggerOK, SameTables DEF rows
<1> QED
  BY <1>1, <1>6, GetOutOK, TablesStep DEF At

------------------------------------------------------------------------------
(* The theorems.                                                           *)

LEMMA InitInv == Init => Inv
<1> SUFFICES ASSUME Init
             PROVE  Inv
  OBVIOUS
<1>1. Idle \in Job
  BY DEF Idle, Job, Places
<1>2. TypeOK
  BY <1>1 DEF Init, TypeOK
<1>3. \A t \in Thread : Acting(t)
  BY DEF Init, Acting, At, Idle
<1>4. VersionsGapless
  <2>1. SUFFICES ASSUME NEW tenant \in Tenant, NEW name \in Name
                 PROVE  {d.version : d \in {d \in defs : d.tenant = tenant /\ d.name = name}}
                          = 1..stored[tenant][name]
    BY DEF VersionsGapless
  <2>2. stored[tenant][name] = 0 /\ {d \in defs : d.tenant = tenant /\ d.name = name} = {}
    BY DEF Init
  <2>3. 1..0 = {}
    OBVIOUS
  <2> QED
    BY <2>2, <2>3
<1> QED
  BY <1>2, <1>3, <1>4 DEF Init, Inv

LEMMA NextInv == Inv /\ [Next]_vars => Inv'
<1> SUFFICES ASSUME Inv, [Next]_vars
             PROVE  Inv'
  OBVIOUS
<1>1. ASSUME NEW t \in Web, Receive(t) \/ Serve(t) \/ Fail(t) \/ Poll(t)
      PROVE  Inv'
  BY <1>1, ReceiveStep, ServeStep, FailStep, PollStep
<1>2. ASSUME NEW t \in Web \cup Shell, ReadLatest(t) \/ Store(t) \/ Leave(t)
      PROVE  Inv'
  <2>1. t \in Thread
    BY DEF Thread
  <2> QED
    BY <1>2, <2>1, ReadLatestStep, StoreStep, LeaveStep
<1>3. ASSUME NEW w \in Worker, ClaimTask(w) \/ FinishTask(w)
      PROVE  Inv'
  BY <1>3, ClaimTaskStep, FinishTaskStep
<1>4. ASSUME NEW d \in Dispatcher, ClaimChange(d) \/ FireTriggers(d)
      PROVE  Inv'
  BY <1>4, ClaimChangeStep, FireTriggersStep
<1>5. ASSUME NEW s \in Shell, Seed(s) \/ Plant(s) \/ Point(s)
      PROVE  Inv'
  BY <1>5, SeedStep, PlantStep, PointStep
<1>6. CASE UNCHANGED vars
  <2>1. UNCHANGED rows /\ UNCHANGED <<scope, job>>
    BY <1>6 DEF vars
  <2>2. TypeOK' /\ VersionsGapless'
    BY <2>1 DEF rows, Inv, TypeOK, VersionsGapless
  <2>3. \A t \in Thread : Acting(t)'
    BY <2>1 DEF rows, Inv, Acting, At
  <2> QED
    BY <2>1, <2>2, <2>3 DEF rows, Inv
<1> QED
  BY <1>1, <1>2, <1>3, <1>4, <1>5, <1>6 DEF Next

LEMMA Invariance == Spec => []Inv
BY InitInv, NextInv, PTL DEF Spec

\* Nothing crosses from one tenant to another, whichever threads hand it on: the
\* scope that core/tenancy.py keeps for each thread is the tenant of its job or
\* nobody's, and the runs and the triggers that views, workers, dispatchers and seed
\* commands write belong to whoever asked for them.
THEOREM TenantsStayApart == Spec => []TenantsApart
<1>1. Inv => TenantsApart
  BY DEF Inv, Acting, OwnRun, OwnTrigger, TenantsApart
<1> QED
  BY <1>1, Invariance, PTL

\* create_definition numbers versions from what it has read earlier, and the unique
\* index of WorkflowDef turns down a number that was taken meanwhile: the versions of
\* a name stay 1, 2, ..., however many requests and commands store some.
THEOREM VersionsHaveNoGaps == Spec => []VersionsGapless
<1>1. Inv => VersionsGapless
  BY DEF Inv
<1> QED
  BY <1>1, Invariance, PTL

\* A claim is made for any tenant (run_once, dispatch_one), and what follows is done
\* for the right one: the tenant of the run whose task is executed, or of the change
\* whose triggers are fired.
ActsForItsRow ==
    \A t \in Thread :
        /\ At(t, "working") => scope[t] = runs[job[t].row].tenant
        /\ At(t, "firing")  => scope[t] = changes[job[t].row].tenant

\* A worker or a dispatcher never serves one tenant's row in the scope of another.
THEOREM ClaimsAreScoped == Spec => []ActsForItsRow
<1>1. Inv => ActsForItsRow
  BY DEF Inv, Acting, ActsForItsRow, At
<1> QED
  BY <1>1, Invariance, PTL
==============================================================================
