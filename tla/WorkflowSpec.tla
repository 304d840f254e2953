----------------------------- MODULE WorkflowSpec -----------------------------
(***************************************************************************)
(* engine/spec.py: what happens to a submitted workflow definition before  *)
(* it is stored.  validate_spec refuses a definition of the wrong shape    *)
(* and searches it for cycles (detect_cycle); topological_order sorts it   *)
(* by Kahn's algorithm and finds cycles for itself.                        *)
(*                                                                         *)
(* The names of steps are numbers, which are only compared and sorted.     *)
(* Everything validate_spec asks of one step by itself (its type, config,  *)
(* on_error, retry and compensate blocks) is one attribute, wellFormed.    *)
(***************************************************************************)
EXTENDS Naturals, FiniteSets, Sequences

CONSTANTS
    Id,                 \* the names a definition may mention
    Submission          \* the definitions that are submitted

Entry == [id : Id, needs : Seq(Id), wellFormed : BOOLEAN]

ASSUME IdAssumption == Id \subseteq Nat
ASSUME SubmissionAssumption == Submission \subseteq Seq(Entry)

VARIABLES
    steps,              \* the definition
    verdict,            \* how far validate_spec is, or how it ended
    needs,              \* steps_by_id, the needs of each step
    colour,
    stack,              \* the path, and where in its needs each node's iterator is
    cycle,              \* the cycle that is reported
    sorting,            \* how far topological_order is, or how it ended
    indegree,
    queue,
    order

searchVars == <<steps, verdict, needs, colour, stack, cycle>>
sortVars == <<sorting, indegree, queue, order>>
vars == <<searchVars, sortVars>>

Init ==
    /\ steps \in Submission
    /\ verdict = "submitted"
    /\ needs = <<>>
    /\ colour = <<>>
    /\ stack = <<>>
    /\ cycle = <<>>
    /\ sorting = "no"
    /\ indegree = <<>>
    /\ queue = {}
    /\ order = <<>>

------------------------------------------------------------------------------
(* validate_spec.                                                          *)

Position == DOMAIN steps

Ids == {steps[i].id : i \in Position}

GoodShape ==
    /\ steps # <<>>
    /\ \A i \in Position : steps[i].wellFormed
    /\ \A i, j \in Position : steps[i].id = steps[j].id => i = j

Dangling == \E i \in Position : \E j \in DOMAIN steps[i].needs : steps[i].needs[j] \notin Ids

NeedsOf(s) == steps[CHOOSE i \in Position : steps[i].id = s].needs

Refuse(reason) ==
    /\ verdict' = reason
    /\ UNCHANGED <<steps, needs, colour, stack, cycle, sortVars>>

RefuseShape ==
    /\ verdict = "submitted"
    /\ ~GoodShape
    /\ Refuse("malformed")

RefuseDangling ==
    /\ verdict = "submitted"
    /\ GoodShape /\ Dangling
    /\ Refuse("dangling")

BeginSearch ==
    /\ verdict = "submitted"
    /\ GoodShape /\ ~Dangling
    /\ verdict' = "searching"
    /\ needs' = [s \in Ids |-> NeedsOf(s)]
    /\ colour' = [s \in Ids |-> "WHITE"]
    /\ UNCHANGED <<steps, stack, cycle, sortVars>>

------------------------------------------------------------------------------
(* detect_cycle.                                                           *)

Top == stack[Len(stack)]

Push(frames, s) == Append(frames, [node |-> s, next |-> 1])

Pop(frames) == SubSeq(frames, 1, Len(frames) - 1)

\* The iterator of the top frame has yielded one more need.
Yielded == [stack EXCEPT ![Len(stack)].next = @ + 1]

Searching == verdict = "searching"

Unchanging == UNCHANGED <<steps, needs, sortVars>>

StartTree(root) ==
    /\ Searching
    /\ stack = <<>>
    /\ colour[root] = "WHITE"
    /\ colour' = [colour EXCEPT ![root] = "GREY"]
    /\ stack' = Push(stack, root)
    /\ UNCHANGED <<verdict, cycle>> /\ Unchanging

\* The top node needs dep, and this is next.
Yields(dep) ==
    /\ Searching
    /\ stack # <<>>
    /\ Top.next <= Len(needs[Top.node])
    /\ dep = needs[Top.node][Top.next]

FindCycle(dep) ==
    /\ Yields(dep)
    /\ colour[dep] = "GREY"
    /\ \E k \in DOMAIN stack :
        /\ stack[k].node = dep
        /\ cycle' = Append([i \in 1..(Len(stack) - k + 1) |-> stack[k + i - 1].node], dep)
    /\ verdict' = "cycle"
    /\ UNCHANGED <<colour, stack>> /\ Unchanging

\* Mutant: two colours, visited and not.
DescendVisited(dep) ==
    /\ Yields(dep)
    /\ colour[dep] = "WHITE"
    /\ colour' = [colour EXCEPT ![dep] = "BLACK"]
    /\ stack' = Push(Yielded, dep)
    /\ UNCHANGED <<verdict, cycle>> /\ Unchanging

Descend(dep) ==
    /\ Yields(dep)
    /\ colour[dep] = "WHITE"
    /\ colour' = [colour EXCEPT ![dep] = "GREY"]
    /\ stack' = Push(Yielded, dep)
    /\ UNCHANGED <<verdict, cycle>> /\ Unchanging

Skip(dep) ==
    /\ Yields(dep)
    /\ colour[dep] = "BLACK"
    /\ stack' = Yielded
    /\ UNCHANGED <<verdict, colour, cycle>> /\ Unchanging

\* The needs of the top node are exhausted.
Exhausted ==
    /\ Searching
    /\ stack # <<>>
    /\ Top.next > Len(needs[Top.node])

\* Mutant: the explored node stays on the stack.
RetreatStaying ==
    /\ Exhausted
    /\ colour' = [colour EXCEPT ![Top.node] = "BLACK"]
    /\ UNCHANGED <<verdict, stack, cycle>> /\ Unchanging

Retreat ==
    /\ Exhausted
    /\ colour' = [colour EXCEPT ![Top.node] = "BLACK"]
    /\ stack' = Pop(stack)
    /\ UNCHANGED <<verdict, cycle>> /\ Unchanging

Accept ==
    /\ Searching
    /\ stack = <<>>
    /\ \A s \in DOMAIN needs : colour[s] # "WHITE"
    /\ verdict' = "accepted"
    /\ UNCHANGED <<colour, stack, cycle>> /\ Unchanging

------------------------------------------------------------------------------
(* topological_order, of a definition that is sound but for cycles.        *)

\* How often s lists dep.
Listed(s, dep) == Cardinality({i \in DOMAIN needs[s] : needs[s][i] = dep})

BeginSort ==
    /\ sorting = "no"
    /\ verdict \in {"accepted", "cycle"}
    /\ sorting' = "sorting"
    /\ indegree' = [s \in DOMAIN needs |-> Len(needs[s])]
    /\ queue' = {s \in DOMAIN needs : Len(needs[s]) = 0}
    /\ UNCHANGED <<order, searchVars>>

\* Mutant: a dependent counts a need once that it lists twice.
PlaceOnce(sid) ==
    LET released == {s \in DOMAIN needs : Listed(s, sid) > 0}
        left     == [s \in DOMAIN needs |-> indegree[s] - (IF s \in released THEN 1 ELSE 0)]
    IN  /\ sorting = "sorting"
        /\ sid \in queue /\ \A s \in queue : sid <= s
        /\ order' = Append(order, sid)
        /\ indegree' = left
        /\ queue' = (queue \ {sid}) \cup {s \in released : left[s] = 0}
        /\ UNCHANGED <<sorting, searchVars>>

\* queue.pop(0) of a sorted queue; dependents[sid] lists s once for each of its needs.
Place(sid) ==
    LET left == [s \in DOMAIN needs |-> indegree[s] - Listed(s, sid)]
    IN  /\ sorting = "sorting"
        /\ sid \in queue /\ \A s \in queue : sid <= s
        /\ order' = Append(order, sid)
        /\ indegree' = left
        /\ queue' = (queue \ {sid}) \cup
                    {s \in DOMAIN needs : Listed(s, sid) > 0 /\ left[s] = 0}
        /\ UNCHANGED <<sorting, searchVars>>

EndSort ==
    /\ sorting = "sorting"
    /\ queue = {}
    /\ sorting' = IF Len(order) = Cardinality(DOMAIN needs) THEN "sorted" ELSE "raised"
    /\ UNCHANGED <<indegree, queue, order, searchVars>>

------------------------------------------------------------------------------
Next ==
    \/ RefuseShape
    \/ RefuseDangling
    \/ BeginSearch
    \/ \E s \in DOMAIN needs :
        StartTree(s) \/ FindCycle(s) \/ Descend(s) \/ Skip(s)
    \/ Retreat
    \/ Accept
    \/ BeginSort
    \/ \E s \in DOMAIN needs : Place(s)
    \/ EndSort

Spec == Init /\ [][Next]_vars

\* It is a computation: it goes on.
FairSpec == Spec /\ WF_vars(Next)

------------------------------------------------------------------------------
(* Properties.                                                             *)

Needs(s) == {needs[s][i] : i \in DOMAIN needs[s]}

\* What Replay assumes of a definition: every set of steps has one that needs none of
\* the set, so that a run always finds a step that is ready.
Acyclic == \A S \in (SUBSET DOMAIN needs) \ {{}} : \E s \in S : Needs(s) \cap S = {}

\* c goes from need to need and comes back to where it began, and nowhere twice.
IsCycle(c) ==
    /\ Len(c) > 1 /\ c[1] = c[Len(c)]
    /\ \A i \in 1..(Len(c) - 1) : c[i] \in DOMAIN needs /\ c[i + 1] \in Needs(c[i])
    /\ \A i, j \in 1..(Len(c) - 1) : c[i] = c[j] => i = j

\* A definition that is accepted can be executed: no name is used twice, and the
\* dependencies lead to steps and never in a circle.
AcceptedIsAcyclic == verdict = "accepted" => GoodShape /\ ~Dangling /\ Acyclic

\* A definition is refused for a cycle only when it has the one that is reported.
CycleIsReal == verdict = "cycle" => IsCycle(cycle)

\* validate_spec tells the definitions that can be executed from those that cannot,
\* and the cycle it names is one of the definition (detect_cycle).
VerdictIsRight == AcceptedIsAcyclic /\ CycleIsReal

\* The order has every step once and after all it needs; and topological_order raises
\* for exactly the definitions that detect_cycle refuses.
OrderIsRight ==
    /\ sorting = "sorted" =>
        /\ verdict = "accepted"
        /\ \A s \in DOMAIN needs : \E i \in DOMAIN order : order[i] = s
        /\ \A i, j \in DOMAIN order : order[i] = order[j] => i = j
        /\ \A i, j \in DOMAIN order : order[j] \in Needs(order[i]) => j < i
    /\ sorting = "raised" => verdict = "cycle"

\* Neither algorithm runs for ever or gets stuck, on whatever is submitted.
Returns ==
    <>(verdict \in {"malformed", "dangling"} \/ sorting \in {"sorted", "raised"})
==============================================================================
