------------------------------- MODULE Systems -------------------------------
(***************************************************************************)
(* The systems outside the engine that http steps act on: the cluster and  *)
(* the company of fake_nodes/server.py.  A handler is an operator from the *)
(* state of the systems and a request to the state it leaves behind and    *)
(* the status it answers with.  LOCK makes every handler one step.         *)
(***************************************************************************)
EXTENDS FiniteSets, TLC

CONSTANTS
    Node,               \* the nodes of the cluster
    Person,             \* the people the company hires
    NoKey               \* a request without an Idempotency-Key

\* BASE_VERSION, TARGET_VERSION, and a previous_version of None.
Version == {"7.0", "7.1"}
NoVersion == "none"

NodeState == [version  : Version,
              previous : Version \cup {NoVersion},
              drained  : BOOLEAN,
              healthy  : BOOLEAN,
              armed    : BOOLEAN]           \* fail_after_upgrade

FreshNode == [version |-> "7.0", previous |-> NoVersion, drained |-> FALSE,
              healthy |-> TRUE, armed |-> FALSE]

\* The stores of COMPANY, with the route that puts a person into each ...
Provides ==
    [email_accounts   |-> "google/create-account",
     slack_members    |-> "slack/invite",
     github_members   |-> "github/add-member",
     payroll_enrolled |-> "payroll/enrol",
     laptop_orders    |-> "it/order-laptop"]

\* ... and the one that takes the person out.  Nobody leaves the payroll.
Withdraws ==
    [email_accounts   |-> "google/delete-account",
     slack_members    |-> "slack/deactivate",
     github_members   |-> "github/remove-member",
     laptop_orders    |-> "it/cancel-laptop"]

Store == DOMAIN Provides

\* /reset, and the state the server starts in.
FreshSystems ==
    [nodes   |-> [n \in Node |-> FreshNode],
     company |-> [store \in Store |-> {}],
     rejects |-> {},                        \* PAYROLL_WILL_REJECT
     seen    |-> {}]                        \* SEEN_KEYS

Request(route, target) == [route |-> route, target |-> target]

Answer(systems, status) == [systems |-> systems, status |-> status]

------------------------------------------------------------------------------
(* The cluster.                                                            *)

\* GET /nodes/<id>/health.  An armed node breaks once it has been upgraded, and
\* it is the question that breaks it.
Health(systems, n) ==
    LET node == systems.nodes[n]
        fine == node.healthy /\ ~(node.armed /\ node.previous # NoVersion)
    IN  Answer([systems EXCEPT !.nodes[n].healthy = fine],
               IF fine THEN 200 ELSE 503)

Upgraded(node) == [node EXCEPT !.previous = node.version, !.version = "7.1"]

RolledBack(node) ==
    [node EXCEPT !.version = IF node.previous # NoVersion THEN node.previous ELSE @,
                 !.previous = NoVersion, !.healthy = TRUE, !.armed = FALSE]

\* What each POST /nodes/<id>/... makes of a node.
NodeAfter(route, node) ==
    [drain    |-> [node EXCEPT !.drained = TRUE],
     undrain  |-> [node EXCEPT !.drained = FALSE],
     upgrade  |-> Upgraded(node),
     rollback |-> RolledBack(node),
     fail_after_upgrade |-> [node EXCEPT !.armed = TRUE]][route]

NodeRoute == {"drain", "undrain", "upgrade", "rollback", "fail_after_upgrade"}

\* _duplicate: this delivery, told by its key, was applied before.
Duplicate(systems, request, key) ==
    key # NoKey /\ <<request, key>> \in systems.seen

ChangeNode(systems, request, key) ==
    IF Duplicate(systems, request, key) THEN Answer(systems, 200)
    ELSE Answer([systems EXCEPT
                    !.nodes[request.target] = NodeAfter(request.route, @),
                    !.seen = IF key = NoKey THEN @ ELSE @ \cup {<<request, key>>}], 200)

------------------------------------------------------------------------------
(* The company (_company).  These handlers do not look at the key.         *)

Enrols(store, route) == Provides[store] = route

Leaves(store, route) == store \in DOMAIN Withdraws /\ Withdraws[store] = route

CompanyRoute == {Provides[store] : store \in Store}
                    \cup {Withdraws[store] : store \in DOMAIN Withdraws}

\* Payroll refuses the people it was told to refuse; nothing else does.
Refused(systems, request) ==
    request.route = "payroll/enrol" /\ request.target \in systems.rejects

ChangeCompany(systems, request) ==
    IF Refused(systems, request) THEN Answer(systems, 422)
    ELSE Answer([systems EXCEPT !.company = [store \in Store |->
                    IF Enrols(store, request.route) THEN @[store] \cup {request.target}
                    ELSE IF Leaves(store, request.route) THEN @[store] \ {request.target}
                    ELSE @[store]]],
                IF \E store \in Store : Enrols(store, request.route) THEN 201 ELSE 200)

\* POST /payroll/reject-next.
RejectNext(systems, p) == Answer([systems EXCEPT !.rejects = @ \cup {p}], 200)

------------------------------------------------------------------------------
\* do_GET and do_POST.
Handle(systems, request, key) ==
    CASE request.route = "health" -> Health(systems, request.target)
      [] request.route \in NodeRoute -> ChangeNode(systems, request, key)
      [] request.route \in CompanyRoute -> ChangeCompany(systems, request)
      [] request.route = "payroll/reject-next" -> RejectNext(systems, request.target)
==============================================================================
