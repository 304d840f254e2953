-------------------------- MODULE ProvisioningProofs --------------------------
(***************************************************************************)
(* What the log says of a step is so in the system the step is about, for  *)
(* every workflow that hires, however often workers die and answers get    *)
(* lost; and a run that has turned back and ended leaves nothing behind    *)
(* that it could undo. The first part is about the handlers of the node    *)
(* server. Then: that a run among the systems is a run of module Engine,   *)
(* so that its invariants can be used here; what workers know of the       *)
(* answers they have got and not recorded yet, which the rest depends on;  *)
(* the order in which steps are undone; the two workflows the seed         *)
(* commands store, and the node one of them upgrades.                      *)
(***************************************************************************)
EXTENDS Provisioning, SagaProofs

------------------------------------------------------------------------------
(* The systems.                                                            *)

\* The requests the server has a handler for.
Served ==
    [route : {"health"} \cup NodeRoute, target : Node]
        \cup [route : CompanyRoute \cup {"payroll/reject-next"}, target : Person]

SystemsOK(sys) ==
    /\ sys = [nodes |-> sys.nodes, company |-> sys.company,
              rejects |-> sys.rejects, seen |-> sys.seen]
    /\ sys.nodes \in [Node -> NodeState]
    /\ sys.company \in [Store -> SUBSET Person]

LEMMA Stores ==
    /\ Store = {"email_accounts", "slack_members", "github_members", "payroll_enrolled",
                "laptop_orders"}
    /\ DOMAIN Withdraws = Store \ {"payroll_enrolled"}
    /\ \A x, y \in Store : Provides[x] = Provides[y] => x = y
    /\ \A x, y \in DOMAIN Withdraws : Withdraws[x] = Withdraws[y] => x = y
    /\ \A x \in Store, y \in DOMAIN Withdraws : Provides[x] # Withdraws[y]
    /\ \A x \in Store : Provides[x] = "payroll/enrol" <=> x = "payroll_enrolled"
<1>1. /\ Store = {"email_accounts", "slack_members", "github_members", "payroll_enrolled",
                "laptop_orders"}
      /\ DOMAIN Withdraws = Store \ {"payroll_enrolled"}
  BY DEF Store, Provides, Withdraws
<1>2. /\ Provides["email_accounts"] = "google/create-account"
      /\ Provides["slack_members"] = "slack/invite"
      /\ Provides["github_members"] = "github/add-member"
      /\ Provides["payroll_enrolled"] = "payroll/enrol"
      /\ Provides["laptop_orders"] = "it/order-laptop"
  BY DEF Provides
<1>3. /\ Withdraws["email_accounts"] = "google/delete-account"
      /\ Withdraws["slack_members"] = "slack/deactivate"
      /\ Withdraws["github_members"] = "github/remove-member"
      /\ Withdraws["laptop_orders"] = "it/cancel-laptop"
  BY DEF Withdraws
<1> QED
  BY <1>1, <1>2, <1>3

\* What the handlers write leaves the rest of the systems alone.
LEMMA Changed ==
    ASSUME NEW sys, SystemsOK(sys), NEW new, NEW news
    PROVE  /\ [sys EXCEPT !.company = new] =
                    [nodes |-> sys.nodes, company |-> new,
                     rejects |-> sys.rejects, seen |-> sys.seen]
           /\ [sys EXCEPT !.nodes = new] =
                    [nodes |-> new, company |-> sys.company,
                     rejects |-> sys.rejects, seen |-> sys.seen]
           /\ [sys EXCEPT !.nodes = new, !.seen = news] =
                    [nodes |-> new, company |-> sys.company,
                     rejects |-> sys.rejects, seen |-> news]
           /\ [sys EXCEPT !.rejects = new] =
                    [nodes |-> sys.nodes, company |-> sys.company,
                     rejects |-> new, seen |-> sys.seen]
<1>1. ASSUME NEW nodes, NEW company, NEW rejects, NEW seen, NEW s,
             s = [nodes |-> nodes, company |-> company, rejects |-> rejects, seen |-> seen]
      PROVE  /\ [s EXCEPT !.company = new] =
                    [nodes |-> nodes, company |-> new, rejects |-> rejects, seen |-> seen]
             /\ [s EXCEPT !.nodes = new] =
                    [nodes |-> new, company |-> company, rejects |-> rejects, seen |-> seen]
             /\ [s EXCEPT !.seen = new] =
                    [nodes |-> nodes, company |-> company, rejects |-> rejects, seen |-> new]
             /\ [s EXCEPT !.rejects = new] =
                    [nodes |-> nodes, company |-> company, rejects |-> new, seen |-> seen]
  BY <1>1
<1> DEFINE moved == [sys EXCEPT !.nodes = new]
<1>2. [sys EXCEPT !.nodes = new, !.seen = news] = [moved EXCEPT !.seen = news]
  BY DEF SystemsOK
<1>3. moved = [nodes |-> new, company |-> sys.company,
               rejects |-> sys.rejects, seen |-> sys.seen]
  BY <1>1 DEF SystemsOK
<1> HIDE DEF moved
<1>4. [moved EXCEPT !.seen = news] = [nodes |-> new, company |-> sys.company,
                                      rejects |-> sys.rejects, seen |-> news]
  BY <1>3
<1> QED
  BY <1>1, <1>2, <1>3, <1>4 DEF moved, SystemsOK

\* A route of the company is none of the others.
LEMMA Routes ==
    ASSUME NEW route \in CompanyRoute
    PROVE  route \notin NodeRoute \cup {"health", "payroll/reject-next", "drain", "upgrade", NoRoute}
BY Stores DEF CompanyRoute, NodeRoute, NoRoute, Provides, Withdraws

LEMMA Enrolled ==
    ASSUME NEW sys, SystemsOK(sys), NEW store \in Store, NEW p \in Person, NEW key
    PROVE  LET answer == Handle(sys, Request(Provides[store], p), key)
           IN  /\ SystemsOK(answer.systems)
               /\ \/ answer = Answer(sys, 422)
                  \/ /\ answer.status = 201
                     /\ answer.systems.company =
                            [sys.company EXCEPT ![store] = sys.company[store] \cup {p}]
<1> DEFINE asked == Request(Provides[store], p)
           answer == Handle(sys, asked, key)
           company == [sys.company EXCEPT ![store] = sys.company[store] \cup {p}]
<1>1. Provides[store] \in CompanyRoute
  BY DEF CompanyRoute
<1>2. asked.route = Provides[store] /\ asked.target = p
  BY DEF Request
<1>3. answer = ChangeCompany(sys, asked)
  BY <1>1, <1>2, Routes DEF Handle
<1>4. CASE Refused(sys, asked)
  BY <1>3, <1>4 DEF ChangeCompany, Answer
<1>5. CASE ~Refused(sys, asked)
  <2>1. company = [x \in Store |->
                    IF Enrols(x, asked.route) THEN sys.company[x] \cup {asked.target}
                    ELSE IF Leaves(x, asked.route) THEN sys.company[x] \ {asked.target}
                    ELSE sys.company[x]]
    BY <1>2, Stores DEF SystemsOK, Enrols, Leaves
  <2>2. \E x \in Store : Enrols(x, asked.route)
    BY <1>2 DEF Enrols
  <2>3. answer = Answer([sys EXCEPT !.company = company], 201)
    BY <1>3, <1>5, <2>1, <2>2 DEF ChangeCompany
  <2>5. company \in [Store -> SUBSET Person]
    BY DEF SystemsOK
  <2> HIDE DEF company
  <2>4. [sys EXCEPT !.company = company] = [nodes |-> sys.nodes, company |-> company,
                                            rejects |-> sys.rejects, seen |-> sys.seen]
    BY Changed
  <2>6. answer.systems = [nodes |-> sys.nodes, company |-> company,
                          rejects |-> sys.rejects, seen |-> sys.seen]
    BY <2>3, <2>4 DEF Answer
  <2>7. SystemsOK(answer.systems)
    BY <2>5, <2>6 DEF SystemsOK
  <2>8. answer.status = 201 /\ answer.systems.company = company
    BY <2>3, <2>6 DEF Answer
  <2> QED
    BY <2>7, <2>8 DEF company
<1> QED
  BY <1>4, <1>5

LEMMA Withdrawn ==
    ASSUME NEW sys, SystemsOK(sys), NEW store \in DOMAIN Withdraws, NEW p \in Person, NEW key
    PROVE  LET answer == Handle(sys, Request(Withdraws[store], p), key)
           IN  /\ SystemsOK(answer.systems)
               /\ answer.status = 200
               /\ answer.systems.company =
                            [sys.company EXCEPT ![store] = sys.company[store] \ {p}]
<1> DEFINE asked == Request(Withdraws[store], p)
           answer == Handle(sys, asked, key)
           company == [sys.company EXCEPT ![store] = sys.company[store] \ {p}]
<1>1. Withdraws[store] \in CompanyRoute
  BY DEF CompanyRoute
<1>2. asked.route = Withdraws[store] /\ asked.target = p /\ store \in Store
  BY Stores DEF Request
<1>3. answer = ChangeCompany(sys, asked)
  BY <1>1, <1>2, Routes DEF Handle
<1>4. ~Refused(sys, asked)
  BY <1>2, Stores DEF Refused, Provides
<1>5. company = [x \in Store |->
                    IF Enrols(x, asked.route) THEN sys.company[x] \cup {asked.target}
                    ELSE IF Leaves(x, asked.route) THEN sys.company[x] \ {asked.target}
                    ELSE sys.company[x]]
  BY <1>2, Stores DEF SystemsOK, Enrols, Leaves
<1>6. ~\E x \in Store : Enrols(x, asked.route)
  BY <1>2, Stores DEF Enrols
<1>7. answer = Answer([sys EXCEPT !.company = company], 200)
  BY <1>3, <1>4, <1>5, <1>6 DEF ChangeCompany
<1>9. company \in [Store -> SUBSET Person]
  BY DEF SystemsOK
<1> HIDE DEF company
<1>8. [sys EXCEPT !.company = company] = [nodes |-> sys.nodes, company |-> company,
                                          rejects |-> sys.rejects, seen |-> sys.seen]
  BY Changed
<1>10. answer.systems = [nodes |-> sys.nodes, company |-> company,
                         rejects |-> sys.rejects, seen |-> sys.seen]
  BY <1>7, <1>8 DEF Answer
<1>11. SystemsOK(answer.systems)
  BY <1>9, <1>10 DEF SystemsOK
<1>12. answer.status = 200 /\ answer.systems.company = company
  BY <1>7, <1>10 DEF Answer
<1> QED
  BY <1>11, <1>12 DEF company

\* A node stays a node.
LEMMA NodeKept ==
    ASSUME NEW node \in NodeState, NEW route \in NodeRoute
    PROVE  NodeAfter(route, node) \in NodeState
<1>1. Upgraded(node) \in NodeState /\ RolledBack(node) \in NodeState
  BY DEF NodeState, Upgraded, RolledBack, Version, NoVersion
<1>2. /\ [node EXCEPT !.drained = TRUE] \in NodeState
      /\ [node EXCEPT !.drained = FALSE] \in NodeState
      /\ [node EXCEPT !.armed = TRUE] \in NodeState
  BY DEF NodeState
<1>3. CASE route = "drain"
  BY <1>2, <1>3 DEF NodeAfter
<1>4. CASE route = "undrain"
  BY <1>2, <1>4 DEF NodeAfter
<1>5. CASE route = "upgrade"
  BY <1>1, <1>5 DEF NodeAfter
<1>6. CASE route = "rollback"
  BY <1>1, <1>6 DEF NodeAfter
<1>7. CASE route = "fail_after_upgrade"
  BY <1>2, <1>7 DEF NodeAfter
<1> QED
  BY <1>3, <1>4, <1>5, <1>6, <1>7 DEF NodeRoute

\* The other requests leave the company alone.
LEMMA Elsewhere ==
    ASSUME NEW sys, SystemsOK(sys), NEW asked \in Served, asked.route \notin CompanyRoute,
           NEW key
    PROVE  LET answer == Handle(sys, asked, key)
           IN  SystemsOK(answer.systems) /\ answer.systems.company = sys.company
<1> DEFINE answer == Handle(sys, asked, key)
<1>1. ASSUME NEW nodes \in [Node -> NodeState], NEW seen, NEW rejects, NEW after,
             after = [nodes |-> nodes, company |-> sys.company,
                      rejects |-> rejects, seen |-> seen]
      PROVE  SystemsOK(after) /\ after.company = sys.company
  BY <1>1 DEF SystemsOK
<1>2. CASE asked.route = "health"
  <2>1. asked.target \in Node
    BY <1>2, Stores DEF Served, CompanyRoute, NodeRoute, Provides, Withdraws
  <2> DEFINE node == sys.nodes[asked.target]
             fine == node.healthy /\ ~(node.armed /\ node.previous # NoVersion)
             nodes == [sys.nodes EXCEPT ![asked.target] = [node EXCEPT !.healthy = fine]]
  <2>2. node \in NodeState /\ fine \in BOOLEAN
    BY <2>1 DEF SystemsOK, NodeState
  <2>3. nodes \in [Node -> NodeState]
    BY <2>2 DEF SystemsOK, NodeState
  <2>6. answer = Health(sys, asked.target)
    BY <1>2 DEF Handle, NodeRoute
  <2>7. answer.systems = [sys EXCEPT !.nodes[asked.target].healthy = fine]
    <3> HIDE DEF answer
    <3> QED
      BY <2>6 DEF Health, Answer
  <2>4. answer.systems = [sys EXCEPT !.nodes = nodes]
    <3> HIDE DEF answer, fine
    <3> QED
      BY <2>7
  <2> HIDE DEF nodes
  <2>5. answer.systems = [nodes |-> nodes, company |-> sys.company,
                          rejects |-> sys.rejects, seen |-> sys.seen]
    BY <2>4, Changed DEF SystemsOK
  <2> QED
    BY <1>1, <2>3, <2>5
<1>3. CASE asked.route \in NodeRoute
  <2>1. asked.target \in Node
    BY <1>3, Stores DEF Served, CompanyRoute, NodeRoute, Provides, Withdraws
  <2>2. answer = ChangeNode(sys, asked, key)
    BY <1>3 DEF Handle, NodeRoute
  <2>3. CASE Duplicate(sys, asked, key)
    BY <2>2, <2>3 DEF ChangeNode, Answer
  <2>4. CASE ~Duplicate(sys, asked, key)
    <3> DEFINE node == NodeAfter(asked.route, sys.nodes[asked.target])
               nodes == [sys.nodes EXCEPT ![asked.target] = node]
               seen == IF key = NoKey THEN sys.seen ELSE sys.seen \cup {<<asked, key>>}
    <3>1. node \in NodeState
      BY <1>3, <2>1, NodeKept DEF SystemsOK
    <3>2. nodes \in [Node -> NodeState]
      BY <3>1 DEF SystemsOK
    <3> HIDE DEF node
    <3>3. answer.systems = [sys EXCEPT !.nodes[asked.target] = node, !.seen = seen]
      BY <2>2, <2>4 DEF ChangeNode, Answer, node
    <3>4. answer.systems = [nodes |-> nodes, company |-> sys.company,
                            rejects |-> sys.rejects, seen |-> seen]
      BY <3>3, Changed DEF SystemsOK
    <3> QED
      BY <1>1, <3>2, <3>4
  <2> QED
    BY <2>3, <2>4
<1>4. CASE asked.route = "payroll/reject-next"
  <2>1. answer.systems = [sys EXCEPT !.rejects = sys.rejects \cup {asked.target}]
    BY <1>4 DEF Handle, NodeRoute, RejectNext, Answer
  <2>2. answer.systems = [nodes |-> sys.nodes, company |-> sys.company,
                          rejects |-> sys.rejects \cup {asked.target}, seen |-> sys.seen]
    BY <2>1, Changed DEF SystemsOK
  <2> QED
    BY <1>1, <2>2 DEF SystemsOK
<1> QED
  BY <1>2, <1>3, <1>4 DEF Served

------------------------------------------------------------------------------
(* A request that is sent again.                                           *)

LEMMA RolledBackNode ==
    ASSUME NEW node \in NodeState
    PROVE  /\ RolledBack(node).version =
                    IF node.previous # NoVersion THEN node.previous ELSE node.version
           /\ RolledBack(node).previous = NoVersion
           /\ RolledBack(node).drained = node.drained
           /\ RolledBack(node).healthy /\ ~RolledBack(node).armed
BY DEF NodeState, RolledBack

LEMMA SameNode ==
    ASSUME NEW node \in NodeState, NEW other \in NodeState,
           node.version = other.version, node.previous = other.previous,
           node.drained = other.drained, node.healthy = other.healthy,
           node.armed = other.armed
    PROVE  node = other
BY DEF NodeState

\* An upgrade is the only change of a node that makes a difference when it is made
\* again: the version to go back to is lost.
LEMMA NodeAgain ==
    ASSUME NEW node \in NodeState, NEW route \in NodeRoute, route # "upgrade"
    PROVE  NodeAfter(route, NodeAfter(route, node)) = NodeAfter(route, node)
<1>1. /\ \A n : NodeAfter("drain", n) = [n EXCEPT !.drained = TRUE]
      /\ \A n : NodeAfter("undrain", n) = [n EXCEPT !.drained = FALSE]
      /\ \A n : NodeAfter("rollback", n) = RolledBack(n)
      /\ \A n : NodeAfter("fail_after_upgrade", n) = [n EXCEPT !.armed = TRUE]
  BY DEF NodeAfter
<1>3. CASE route = "drain"
  <2> DEFINE after == [node EXCEPT !.drained = TRUE]
  <2>1. [after EXCEPT !.drained = TRUE] = after
    BY DEF NodeState
  <2>2. NodeAfter(route, node) = after
    BY <1>1, <1>3
  <2> HIDE DEF after
  <2> QED
    BY <1>1, <1>3, <2>1, <2>2
<1>4. CASE route = "undrain"
  <2> DEFINE after == [node EXCEPT !.drained = FALSE]
  <2>1. [after EXCEPT !.drained = FALSE] = after
    BY DEF NodeState
  <2>2. NodeAfter(route, node) = after
    BY <1>1, <1>4
  <2> HIDE DEF after
  <2> QED
    BY <1>1, <1>4, <2>1, <2>2
<1>5. CASE route = "fail_after_upgrade"
  <2> DEFINE after == [node EXCEPT !.armed = TRUE]
  <2>1. [after EXCEPT !.armed = TRUE] = after
    BY DEF NodeState
  <2>2. NodeAfter(route, node) = after
    BY <1>1, <1>5
  <2> HIDE DEF after
  <2> QED
    BY <1>1, <1>5, <2>1, <2>2
<1>6. CASE route = "rollback"
  <2> DEFINE after == RolledBack(node)
  <2>1. after \in NodeState /\ RolledBack(after) \in NodeState
    BY NodeKept, <1>1 DEF NodeRoute
  <2> HIDE DEF after
  <2>2. RolledBack(after) = after
    <3>1. /\ after.previous = NoVersion /\ after.healthy = TRUE /\ after.armed = FALSE
          /\ RolledBack(after).healthy = TRUE /\ RolledBack(after).armed = FALSE
      BY <2>1, RolledBackNode DEF after, NodeState
    <3>2. /\ RolledBack(after).previous = NoVersion
          /\ RolledBack(after).version = after.version
          /\ RolledBack(after).drained = after.drained
      BY <2>1, <3>1, RolledBackNode
    <3> QED
      BY <2>1, <3>1, <3>2, SameNode
  <2>3. NodeAfter(route, node) = RolledBack(node)
    BY <1>1, <1>6
  <2>4. NodeAfter(route, after) = RolledBack(after)
    BY <1>1, <1>6
  <2> QED
    BY <2>1, <2>2, <2>3, <2>4 DEF after
<1> QED
  BY <1>3, <1>4, <1>5, <1>6 DEF NodeRoute

LEMMA HealthAgain ==
    ASSUME NEW sys, SystemsOK(sys), NEW n \in Node
    PROVE  LET answer == Health(sys, n)
           IN  Health(answer.systems, n) = answer
<1> DEFINE node == sys.nodes[n]
           fine == node.healthy /\ ~(node.armed /\ node.previous # NoVersion)
           later == [node EXCEPT !.healthy = fine]
           nodes == [sys.nodes EXCEPT ![n] = later]
           after == [sys EXCEPT !.nodes = nodes]
           answer == Health(sys, n)
<1>1. node \in NodeState /\ fine \in BOOLEAN
  BY DEF SystemsOK, NodeState
<1>2. answer = Answer(after, IF fine THEN 200 ELSE 503)
  <2>1. [sys EXCEPT !.nodes[n].healthy = fine] = after
    <3> HIDE DEF fine
    <3> QED
      OBVIOUS
  <2> QED
    BY <2>1 DEF Health
<1>3. after = [nodes |-> nodes, company |-> sys.company,
               rejects |-> sys.rejects, seen |-> sys.seen]
  <2> HIDE DEF nodes
  <2> QED
    BY Changed
<1>4. after.nodes[n] = later /\ after.nodes = nodes
  BY <1>3 DEF SystemsOK
<1>5. /\ later.healthy = fine /\ later.armed = node.armed /\ later.previous = node.previous
      /\ [later EXCEPT !.healthy = fine] = later
  BY <1>1 DEF NodeState
<1>6. (later.healthy /\ ~(later.armed /\ later.previous # NoVersion)) = fine
  BY <1>1, <1>5
<1>7. [nodes EXCEPT ![n] = later] = nodes
  <2> HIDE DEF later
  <2> QED
    BY DEF SystemsOK
<1>8. [after EXCEPT !.nodes[n].healthy = fine] = after
  <2>1. [after EXCEPT !.nodes = nodes] = after
    <3> HIDE DEF nodes
    <3> QED
      BY <1>3
  <2>2. [after EXCEPT !.nodes[n].healthy = fine] =
            [after EXCEPT !.nodes = [after.nodes EXCEPT ![n] =
                                        [after.nodes[n] EXCEPT !.healthy = fine]]]
    <3> HIDE DEF after, fine
    <3> QED
      OBVIOUS
  <2> HIDE DEF later, fine, after
  <2> QED
    BY <1>4, <1>5, <1>7, <2>1, <2>2
<1>9. Health(after, n) = Answer(after, IF fine THEN 200 ELSE 503)
  <2> HIDE DEF after, later, fine
  <2> QED
    BY <1>4, <1>6, <1>8 DEF Health
<1> HIDE DEF after, fine, answer
<1>10. answer.systems = after
  BY <1>2 DEF Answer
<1> QED
  BY <1>2, <1>9, <1>10 DEF answer

LEMMA CompanyAgain ==
    ASSUME NEW sys, SystemsOK(sys), NEW asked
    PROVE  LET answer == ChangeCompany(sys, asked)
           IN  ChangeCompany(answer.systems, asked) = answer
<1> DEFINE Stored(company) ==
                [store \in Store |->
                    IF Enrols(store, asked.route) THEN company[store] \cup {asked.target}
                    ELSE IF Leaves(store, asked.route) THEN company[store] \ {asked.target}
                    ELSE company[store]]
           company == Stored(sys.company)
           after == [sys EXCEPT !.company = company]
           status == IF \E store \in Store : Enrols(store, asked.route) THEN 201 ELSE 200
           answer == ChangeCompany(sys, asked)
<1>1. CASE Refused(sys, asked)
  <2>1. answer = Answer(sys, 422)
    BY <1>1 DEF ChangeCompany
  <2> HIDE DEF answer
  <2>2. answer.systems = sys
    BY <2>1 DEF Answer
  <2> QED
    BY <2>2 DEF answer
<1>2. CASE ~Refused(sys, asked)
  <2>1. answer = Answer(after, status)
    BY <1>2 DEF ChangeCompany
  <2>2. after = [nodes |-> sys.nodes, company |-> company,
                 rejects |-> sys.rejects, seen |-> sys.seen]
    <3> HIDE DEF company
    <3> QED
      BY Changed
  <2>3. Stored(company) = company
    OBVIOUS
  <2> HIDE DEF company
  <2>4. after.company = company /\ after.rejects = sys.rejects
    BY <2>2
  <2>5. [after EXCEPT !.company = company] = after
    BY <2>2
  <2> HIDE DEF after, status
  <2>6. ~Refused(after, asked)
    BY <1>2, <2>4 DEF Refused
  <2>7. ChangeCompany(after, asked) = Answer([after EXCEPT !.company = Stored(after.company)], status)
    BY <2>6 DEF ChangeCompany, status
  <2> HIDE DEF Stored, answer
  <2>8. ChangeCompany(after, asked) = Answer(after, status)
    BY <2>3, <2>4, <2>5, <2>7
  <2>9. answer.systems = after
    BY <2>1 DEF Answer
  <2> QED
    BY <2>1, <2>8, <2>9 DEF answer
<1> QED
  BY <1>1, <1>2

LEMMA NodeChangeAgain ==
    ASSUME NEW sys, SystemsOK(sys), NEW asked, asked.route \in NodeRoute, asked.target \in Node,
           NEW key, key # NoKey \/ asked.route # "upgrade"
    PROVE  LET answer == ChangeNode(sys, asked, key)
           IN  ChangeNode(answer.systems, asked, key) = answer
<1> DEFINE answer == ChangeNode(sys, asked, key)
           node == NodeAfter(asked.route, sys.nodes[asked.target])
           nodes == [sys.nodes EXCEPT ![asked.target] = node]
           seen == IF key = NoKey THEN sys.seen ELSE sys.seen \cup {<<asked, key>>}
           after == [sys EXCEPT !.nodes = nodes, !.seen = seen]
<1>1. CASE Duplicate(sys, asked, key)
  <2>1. answer = Answer(sys, 200)
    BY <1>1 DEF ChangeNode
  <2> HIDE DEF answer
  <2>2. answer.systems = sys
    BY <2>1 DEF Answer
  <2> QED
    BY <2>2 DEF answer
<1>2. CASE ~Duplicate(sys, asked, key)
  <2>1. answer = Answer(after, 200)
    <3>1. [sys EXCEPT !.nodes[asked.target] = node, !.seen = seen] = after
      <4> HIDE DEF node, seen
      <4> QED
        BY DEF SystemsOK
    <3> QED
      BY <1>2, <3>1 DEF ChangeNode
  <2>2. after = [nodes |-> nodes, company |-> sys.company,
                 rejects |-> sys.rejects, seen |-> seen]
    <3> DEFINE moved == [sys EXCEPT !.nodes = nodes]
    <3> HIDE DEF nodes, seen
    <3>1. after = [moved EXCEPT !.seen = seen]
      OBVIOUS
    <3>2. moved = [nodes |-> nodes, company |-> sys.company,
                   rejects |-> sys.rejects, seen |-> sys.seen]
      BY Changed
    <3> HIDE DEF moved, after
    <3> QED
      BY <3>1, <3>2
  <2>3. answer.systems = after
    <3> HIDE DEF answer, after
    <3> QED
      BY <2>1 DEF Answer
  <2>4. CASE key # NoKey
    <3>1. <<asked, key>> \in after.seen
      <4> HIDE DEF after
      <4> QED
        BY <2>2, <2>4
    <3> HIDE DEF after, answer
    <3>2. Duplicate(after, asked, key)
      BY <2>4, <3>1 DEF Duplicate
    <3>3. ChangeNode(after, asked, key) = Answer(after, 200)
      BY <3>2 DEF ChangeNode
    <3> QED
      BY <2>1, <2>3, <3>3 DEF answer
  <2>5. CASE key = NoKey
    <3>1. after.nodes[asked.target] = node /\ after.nodes = nodes /\ after.seen = seen
      <4> HIDE DEF after, node
      <4> QED
        BY <2>2 DEF SystemsOK
    <3>2. NodeAfter(asked.route, node) = node
      BY <2>5, NodeAgain DEF SystemsOK
    <3> HIDE DEF after, answer, node, seen
    <3>3. ~Duplicate(after, asked, key)
      BY <2>5 DEF Duplicate
    <3>4. [after EXCEPT !.nodes[asked.target] = node, !.seen = after.seen] =
                [after EXCEPT !.nodes = [after.nodes EXCEPT ![asked.target] = node],
                              !.seen = after.seen]
      BY <2>2
    <3>5. [after.nodes EXCEPT ![asked.target] = node] = nodes
      BY <3>1
    <3>6. [after EXCEPT !.nodes = nodes, !.seen = after.seen] = after
      <4> HIDE DEF nodes
      <4> QED
        BY <2>2, <3>1
    <3>7. ChangeNode(after, asked, key) =
                Answer([after EXCEPT !.nodes[asked.target] = node, !.seen = after.seen], 200)
      BY <2>5, <3>1, <3>2, <3>3 DEF ChangeNode
    <3> QED
      BY <2>1, <2>3, <3>4, <3>5, <3>6, <3>7 DEF answer
  <2> QED
    BY <2>4, <2>5
<1> QED
  BY <1>1, <1>2

LEMMA RejectAgain ==
    ASSUME NEW sys, SystemsOK(sys), NEW p
    PROVE  LET answer == RejectNext(sys, p)
           IN  RejectNext(answer.systems, p) = answer
<1> DEFINE answer == RejectNext(sys, p)
           rejects == sys.rejects \cup {p}
           after == [sys EXCEPT !.rejects = rejects]
<1>1. answer = Answer(after, 200)
  BY DEF RejectNext
<1>2. after = [nodes |-> sys.nodes, company |-> sys.company,
               rejects |-> rejects, seen |-> sys.seen]
  <2> HIDE DEF rejects
  <2> QED
    BY Changed
<1>3. rejects \cup {p} = rejects
  OBVIOUS
<1> HIDE DEF rejects
<1>4. after.rejects = rejects /\ [after EXCEPT !.rejects = rejects] = after
  BY <1>2
<1> HIDE DEF after, answer
<1>5. answer.systems = after
  BY <1>1 DEF Answer
<1>6. RejectNext(after, p) = Answer([after EXCEPT !.rejects = after.rejects \cup {p}], 200)
  BY DEF RejectNext
<1> QED
  BY <1>1, <1>3, <1>4, <1>5, <1>6 DEF answer

\* A delivery that comes twice, because the answer to the first got lost or the worker
\* died before it had recorded it, finds the systems as it left them and is answered as
\* the first was: what a handler does, it does once.  Only an upgrade needs the key of
\* the delivery for that (fake_nodes/server.py _duplicate, which the company's handlers
\* and the health check do not ask).
THEOREM RepeatsChangeNothing ==
    ASSUME NEW sys, SystemsOK(sys), NEW asked \in Served,
           NEW key, key # NoKey \/ asked.route # "upgrade"
    PROVE  LET answer == Handle(sys, asked, key)
           IN  Handle(answer.systems, asked, key) = answer
<1> DEFINE answer == Handle(sys, asked, key)
<1>1. CASE asked.route = "health"
  <2>1. asked.target \in Node
    BY <1>1, Routes DEF Served, NodeRoute
  <2>2. ASSUME NEW other PROVE Handle(other, asked, key) = Health(other, asked.target)
    <3>1. asked.route \notin CompanyRoute
      BY <1>1, Routes
    <3> QED
      BY <1>1, <3>1 DEF Handle, NodeRoute
  <2> QED
    BY <2>1, <2>2, HealthAgain
<1>2. CASE asked.route \in NodeRoute
  <2>1. asked.target \in Node
    BY <1>2, Routes DEF Served, NodeRoute
  <2>2. ASSUME NEW other PROVE Handle(other, asked, key) = ChangeNode(other, asked, key)
    <3>1. asked.route \notin CompanyRoute
      BY <1>2, Routes
    <3> QED
      BY <1>2, <3>1 DEF Handle, NodeRoute
  <2> QED
    BY <1>2, <2>1, <2>2, NodeChangeAgain
<1>3. CASE asked.route \in CompanyRoute
  <2>1. ASSUME NEW other PROVE Handle(other, asked, key) = ChangeCompany(other, asked)
    BY <1>3, Routes DEF Handle
  <2> QED
    BY <2>1, CompanyAgain
<1>4. CASE asked.route = "payroll/reject-next"
  <2>1. ASSUME NEW other PROVE Handle(other, asked, key) = RejectNext(other, asked.target)
    BY <1>4, Routes DEF Handle, NodeRoute
  <2> QED
    BY <2>1, RejectAgain
<1> QED
  BY <1>1, <1>2, <1>3, <1>4 DEF Served

------------------------------------------------------------------------------
(* What the requests of a run bring about.                                 *)

\* A workflow that hires: every step that makes a request puts the person into a
\* store of the company, no two of them into the same one, and what undoes the
\* step takes the person out of it.  Nobody else meddles with the company.
Hires ==
    /\ Target \in Person
    /\ Sabotage \subseteq {request1 \in Served : request1.route \notin CompanyRoute}
    /\ \A s \in Step :
        /\ Workflow[s].call # NoRoute =>
            \E store \in Store : Enrols(store, Workflow[s].call)
        /\ Workflow[s].undo # NoRoute =>
            \E store \in Store : /\ Enrols(store, Workflow[s].call)
                                 /\ Leaves(store, Workflow[s].undo)
    /\ \A s, r \in Step :
        Workflow[s].call = Workflow[r].call /\ Workflow[s].call # NoRoute => s = r

\* A step is in effect while the person is in the store it is about.
LEMMA EffectOfStore ==
    ASSUME NEW s \in Step, NEW store \in Store, Enrols(store, Workflow[s].call)
    PROVE  /\ Workflow[s].call # NoRoute
           /\ InEffect(s) <=> Target \in systems.company[store]
           /\ InEffect(s)' <=> Target \in systems'.company[store]
<1>1. Workflow[s].call \in CompanyRoute
  BY DEF Enrols, CompanyRoute
<1>2. \A x \in Store : Enrols(x, Workflow[s].call) <=> x = store
  BY Stores DEF Enrols
<1> QED
  BY <1>1, <1>2, Routes DEF InEffect

LEMMA NoEffect ==
    ASSUME NEW s \in Step, Workflow[s].call = NoRoute
    PROVE  ~InEffect(s) /\ ~InEffect(s)'
<1>1. NoRoute \notin CompanyRoute /\ NoRoute # "drain" /\ NoRoute # "upgrade"
  BY Routes DEF NoRoute
<1> QED
  BY <1>1 DEF InEffect

\* The stores the request of another step, or another request, is about.
LEMMA SameEffect ==
    ASSUME Hires, NEW s \in Step,
           \A store \in Store : Enrols(store, Workflow[s].call) =>
                systems'.company[store] = systems.company[store]
    PROVE  InEffect(s)' <=> InEffect(s)
<1>1. CASE Workflow[s].call = NoRoute
  BY <1>1, NoEffect
<1>2. CASE Workflow[s].call # NoRoute
  <2>1. PICK store \in Store : Enrols(store, Workflow[s].call)
    BY <1>2 DEF Hires
  <2> QED
    BY <2>1, EffectOfStore
<1> QED
  BY <1>1, <1>2

\* A request for a step puts the person into the store of the step, or nowhere.
LEMMA DoEffects ==
    ASSUME Hires, SystemsOK(systems), NEW r \in Step, Workflow[r].call # NoRoute, NEW key,
           systems' = Handle(systems, Request(Workflow[r].call, Target), key).systems
    PROVE  LET answer == Handle(systems, Request(Workflow[r].call, Target), key)
           IN  /\ SystemsOK(systems)'
               /\ \A s \in Step \ {r} : InEffect(s)' <=> InEffect(s)
               /\ CarriedOut(answer) => InEffect(r)'
               /\ ~CarriedOut(answer) => (InEffect(r)' <=> InEffect(r))
               /\ InEffect(r) => InEffect(r)'
<1> DEFINE answer == Handle(systems, Request(Workflow[r].call, Target), key)
<1>1. PICK store \in Store : Enrols(store, Workflow[r].call)
  BY DEF Hires
<1>2. Workflow[r].call = Provides[store] /\ Target \in Person
  BY <1>1 DEF Enrols, Hires
<1>3. /\ SystemsOK(answer.systems)
      /\ \/ answer = Answer(systems, 422)
         \/ /\ answer.status = 201
            /\ answer.systems.company =
                [systems.company EXCEPT ![store] = systems.company[store] \cup {Target}]
  BY <1>2, Enrolled
<1> HIDE DEF answer
<1>4. systems' = answer.systems
  BY DEF answer
<1>5. SystemsOK(systems)'
  BY <1>3, <1>4 DEF SystemsOK
<1>6. CASE answer = Answer(systems, 422)
  <2>1. answer.systems = systems /\ answer.status = 422
    BY <1>6 DEF Answer
  <2>2. systems' = systems /\ ~CarriedOut(answer)
    BY <1>4, <2>1 DEF CarriedOut
  <2>3. \A s \in Step : InEffect(s)' <=> InEffect(s)
    BY <2>2, SameEffect
  <2> QED
    BY <1>5, <2>2, <2>3 DEF answer
<1>7. CASE /\ answer.status = 201
           /\ answer.systems.company =
                [systems.company EXCEPT ![store] = systems.company[store] \cup {Target}]
  <2>1. /\ Target \in systems'.company[store] /\ CarriedOut(answer)
        /\ \A x \in Store \ {store} : systems'.company[x] = systems.company[x]
    BY <1>4, <1>7 DEF SystemsOK, CarriedOut
  <2>2. InEffect(r)'
    BY <1>1, <2>1, EffectOfStore
  <2>3. ASSUME NEW s \in Step \ {r} PROVE InEffect(s)' <=> InEffect(s)
    <3>1. ~Enrols(store, Workflow[s].call)
      BY <1>1 DEF Hires, Enrols
    <3> QED
      BY <2>1, <3>1, SameEffect
  <2> QED
    BY <1>5, <2>1, <2>2, <2>3 DEF answer
<1> QED
  BY <1>3, <1>6, <1>7

\* A request to undo a step takes the person out of the store of the step.
LEMMA UndoEffects ==
    ASSUME Hires, SystemsOK(systems), NEW r \in Step, Workflow[r].undo # NoRoute, NEW key,
           systems' = Handle(systems, Request(Workflow[r].undo, Target), key).systems
    PROVE  /\ SystemsOK(systems)'
           /\ \A s \in Step \ {r} : InEffect(s)' <=> InEffect(s)
           /\ ~InEffect(r)'
<1> DEFINE answer == Handle(systems, Request(Workflow[r].undo, Target), key)
<1>1. PICK store \in Store : Enrols(store, Workflow[r].call) /\ Leaves(store, Workflow[r].undo)
  BY DEF Hires
<1>2. /\ store \in DOMAIN Withdraws /\ Workflow[r].undo = Withdraws[store]
      /\ Target \in Person
  BY <1>1 DEF Leaves, Hires
<1>3. /\ SystemsOK(answer.systems)
      /\ answer.systems.company =
            [systems.company EXCEPT ![store] = systems.company[store] \ {Target}]
  BY <1>2, Withdrawn
<1> HIDE DEF answer
<1>4. systems' = answer.systems
  BY DEF answer
<1>5. SystemsOK(systems)'
  BY <1>3, <1>4 DEF SystemsOK
<1>6. /\ Target \notin systems'.company[store]
      /\ \A x \in Store \ {store} : systems'.company[x] = systems.company[x]
  BY <1>3, <1>4 DEF SystemsOK
<1>7. ~InEffect(r)'
  BY <1>1, <1>6, EffectOfStore
<1>8. ASSUME NEW s \in Step \ {r} PROVE InEffect(s)' <=> InEffect(s)
  <2>1. ~Enrols(store, Workflow[s].call)
    BY <1>1, EffectOfStore DEF Hires, Enrols
  <2> QED
    BY <1>6, <2>1, SameEffect
<1> QED
  BY <1>5, <1>7, <1>8

------------------------------------------------------------------------------
(* A run among the systems is a run.                                       *)

\* What the systems answer is one of the outcomes module Engine allows.
LEMMA CallIsExecute ==
    ASSUME TInv, NEW w \in Worker, Call(w)
    PROVE  /\ Execute(w)
           /\ worker[w].slot \in Slot
           /\ \E ok \in BOOLEAN : CallReturns(w, ok)
<1>1. worker[w].slot \in Slot /\ StepOf(w) \in Step /\ At(w, "executing")
  BY SlotOfTyped DEF Call, At, TInv, MemoryOK, Fits, StepOf
<1>2. PICK ok \in BOOLEAN : CallReturns(w, ok)
  <2>1. CASE CallNothing(w)
    BY <2>1 DEF CallNothing
  <2>2. CASE CallSystem(w)
    <3>1. \A answer : CarriedOut(answer) \in BOOLEAN
      BY DEF CarriedOut
    <3> QED
      BY <2>2, <3>1 DEF CallSystem
  <2> QED
    BY <2>1, <2>2 DEF Call
<1>3. Answers(w) = BOOLEAN
  BY <1>1, WorkflowAssumption DEF Answers
<1> QED
  BY <1>1, <1>2, <1>3 DEF Execute

\* The ways a step of the run and the systems goes.
Elsewise ==
    \/ StartRun
    \/ \E w \in Worker : Bookkeeping(w) \/ Heartbeat(w)
    \/ \E t \in Pk : RowStep(t)
    \/ AnnounceRecovery

LEMMA WorldSteps ==
    ASSUME [ProvisioningNext]_provisioningVars
    PROVE  \/ UNCHANGED vars /\ (UNCHANGED systems \/ Interfere) /\ UNCHANGED crashes
           \/ Elsewise /\ UNCHANGED <<systems, crashes>>
           \/ \E w \in Worker : Call(w) /\ UNCHANGED crashes
           \/ \E w \in Worker : Crash(w) /\ UNCHANGED systems /\ crashes' = crashes + 1
<1>1. CASE UNCHANGED provisioningVars
  BY <1>1 DEF provisioningVars
<1>2. CASE Inside(StartRun) \/ Inside(AnnounceRecovery)
  BY <1>2 DEF Inside, Elsewise
<1>3. ASSUME NEW w \in Worker, WorkerGoesOn(w) \/ Inside(Heartbeat(w)) \/ Die(w)
      PROVE  \/ Elsewise /\ UNCHANGED <<systems, crashes>>
             \/ Call(w) /\ UNCHANGED crashes
             \/ Crash(w) /\ UNCHANGED systems /\ crashes' = crashes + 1
  BY <1>3 DEF WorkerGoesOn, Inside, Elsewise, Die, Call
<1>4. ASSUME NEW t \in Pk, Inside(TimerDue(t) \/ LeaseLapses(t)) \/ ReaperGoesOn(t)
      PROVE  Elsewise /\ UNCHANGED <<systems, crashes>>
  BY <1>4 DEF ReaperGoesOn, Inside, Elsewise, RowStep
<1>5. CASE Interfere
  BY <1>5 DEF Interfere
<1> QED
  BY <1>1, <1>2, <1>3, <1>4, <1>5 DEF ProvisioningNext

LEMMA WorldNext == TInv /\ [ProvisioningNext]_provisioningVars => [Next]_vars
<1> SUFFICES ASSUME TInv, [ProvisioningNext]_provisioningVars PROVE [Next]_vars
  OBVIOUS
<1>1. Elsewise => Next
  BY DEF Elsewise, Next, Work
<1>2. \A w \in Worker : Call(w) \/ Crash(w) => Next
  BY CallIsExecute DEF Next, Work
<1> QED
  BY <1>1, <1>2, WorldSteps

\* Among the systems a run does what module Engine says a run may do, so that what
\* is proved of every run holds of it (HttpPlugin, NoopPlugin).
THEOREM RunsInTheWorld == ProvisioningSpec => Spec
<1>1. ProvisioningInit => TInv /\ Init
  BY InitOK DEF ProvisioningInit
<1>2. TInv /\ [ProvisioningNext]_provisioningVars => TInv' /\ [Next]_vars
  BY WorldNext, NextOK
<1> QED
  BY <1>1, <1>2, PTL DEF ProvisioningSpec, Spec

------------------------------------------------------------------------------
(* What workers know.                                                      *)

\* A worker has been told that what the slot is for was carried out.
Told(w, slot) ==
    /\ worker[w].slot = slot
    /\ worker[w].pc \in {"executed", "recording"}
    /\ worker[w].ok

LEMMA CallEffects ==
    ASSUME Hires, SystemsOK(systems), TInv, NEW w \in Worker, Call(w)
    PROVE  /\ SystemsOK(systems)'
           /\ \A s \in Step :
                /\ InEffect(s)' /\ ~InEffect(s) =>
                    /\ worker[w].slot = Do(s)
                    /\ Told(w, Do(s))' \/ "lost answer" \in Trouble[Do(s)]
                /\ InEffect(s) /\ ~InEffect(s)' => worker[w].slot = Undo(s)
                /\ Told(w, Do(s))' /\ Workflow[s].call # NoRoute => InEffect(s)'
                /\ Told(w, Undo(s))' /\ s \in Compensable => ~InEffect(s)'
<1> DEFINE slot == worker[w].slot
           answer == Handle(systems, Request(RouteOf(slot), Target), KeyOf(w))
<1>1. slot \in Slot /\ worker \in [Worker -> Memory]
  BY CallIsExecute DEF TInv, MemoryOK
<1>2. PICK r \in Step : r = slot[1] /\ (slot = Do(r) \/ slot = Undo(r))
  BY <1>1, SlotIsDoOrUndo
<1>3. ASSUME NEW ok, CallReturns(w, ok)
      PROVE  /\ worker'[w].slot = slot
             /\ ok \in BOOLEAN /\ worker'[w].pc = "executed" => (Told(w, slot)' <=> ok)
             /\ \A s \in Step :
                /\ Told(w, Do(s))' => slot = Do(s)
                /\ Told(w, Undo(s))' => slot = Undo(s)
  BY <1>1, <1>3 DEF CallReturns, Told, Memory
<1>4. ASSUME UNCHANGED systems
      PROVE  SystemsOK(systems)' /\ \A s \in Step : InEffect(s)' <=> InEffect(s)
  BY <1>4 DEF SystemsOK, InEffect
<1>5. CASE CallNothing(w)
  <2>1. RouteOf(slot) = NoRoute /\ CallReturns(w, TRUE) /\ UNCHANGED systems
    BY <1>5 DEF CallNothing
  <2>2. ASSUME NEW s \in Step, slot = Do(s) PROVE Workflow[s].call = NoRoute
    BY <2>1, <2>2 DEF RouteOf, Do
  <2>3. ASSUME NEW s \in Step, slot = Undo(s) PROVE s \notin Compensable
    BY <2>1, <2>3, WorkflowAssumption DEF RouteOf, Undo
  <2> QED
    BY <1>3, <1>4, <2>1, <2>2, <2>3
<1>6. CASE CallSystem(w)
  <2>1. /\ RouteOf(slot) # NoRoute
        /\ \/ CallReturns(w, CarriedOut(answer)) /\ systems' = answer.systems
           \/ /\ "lost answer" \in Trouble[slot]
              /\ CallReturns(w, FALSE) /\ systems' = answer.systems
           \/ /\ "unreachable" \in Trouble[slot]
              /\ CallReturns(w, FALSE) /\ UNCHANGED systems
    BY <1>6 DEF CallSystem
  <2>2. \A ok : CallReturns(w, ok) => worker'[w].pc = "executed"
    BY <1>1 DEF CallReturns, Memory
  <2>3. CASE CallReturns(w, FALSE) /\ UNCHANGED systems
    <3>1. ~Told(w, slot)'
      BY <1>3, <2>2, <2>3
    <3> QED
      BY <1>3, <1>4, <2>3, <3>1
  <2>4. CASE slot = Do(r) /\ systems' = answer.systems
    <3>1. RouteOf(slot) = Workflow[r].call
      BY <2>4 DEF RouteOf, Do
    <3>2. /\ SystemsOK(systems)'
          /\ \A s \in Step \ {r} : InEffect(s)' <=> InEffect(s)
          /\ CarriedOut(answer) => InEffect(r)'
          /\ ~CarriedOut(answer) => (InEffect(r)' <=> InEffect(r))
          /\ InEffect(r) => InEffect(r)'
      <4> HIDE DEF slot
      <4> QED
        BY <2>1, <2>4, <3>1, DoEffects
    <3>3. \A s \in Step : (slot = Do(s) <=> s = r) /\ slot # Undo(s)
      BY <2>4, DoIsOne
    <3> HIDE DEF answer
    <3>4. CarriedOut(answer) \in BOOLEAN
      BY DEF CarriedOut
    <3>5. CASE CallReturns(w, CarriedOut(answer))
      <4>1. Told(w, slot)' <=> CarriedOut(answer)
        BY <1>3, <2>2, <3>4, <3>5
      <4> QED
        BY <1>3, <2>4, <3>2, <3>3, <3>5, <4>1
    <3>6. CASE "lost answer" \in Trouble[slot] /\ CallReturns(w, FALSE)
      <4>1. ~Told(w, slot)'
        BY <1>3, <2>2, <3>6
      <4> QED
        BY <1>3, <2>4, <3>2, <3>3, <3>6, <4>1
    <3> QED
      BY <2>1, <2>3, <3>5, <3>6
  <2>5. CASE slot = Undo(r) /\ systems' = answer.systems
    <3>1. RouteOf(slot) = Workflow[r].undo
      BY <2>5 DEF RouteOf, Undo
    <3>2. /\ SystemsOK(systems)'
          /\ \A s \in Step \ {r} : InEffect(s)' <=> InEffect(s)
          /\ ~InEffect(r)'
      <4> HIDE DEF slot
      <4> QED
        BY <2>1, <2>5, <3>1, UndoEffects
    <3>3. \A s \in Step : (slot = Undo(s) <=> s = r) /\ slot # Do(s)
      BY <2>5, DoIsOne
    <3>4. \E ok : CallReturns(w, ok)
      BY <2>1
    <3> QED
      BY <1>3, <2>5, <3>2, <3>3, <3>4
  <2> QED
    BY <1>2, <2>1, <2>3, <2>4, <2>5
<1> QED
  BY <1>5, <1>6 DEF Call

\* What has nothing to do with the calls tells a worker nothing.
LEMMA BookkeepingMemory ==
    ASSUME NEW w \in Worker, Bookkeeping(w)
    PROVE  worker[w].pc # "executing" /\ \E mem : worker' = [worker EXCEPT ![w] = mem]
<1>1. CASE Claim(w)
  BY <1>1 DEF Claim, At
<1>2. CASE LoadContext(w)
  BY <1>2 DEF LoadContext, At
<1>3. CASE RejectConfig(w) \/ FireTimer(w) \/ StartStep(w) \/ Finish(w)
  BY <1>3 DEF RejectConfig, FireTimer, StartStep, Finish, At, GoTo
<1>4. CASE Return(w) \/ Abandon(w) \/ Park(w)
  BY <1>4 DEF Return, Abandon, Park, At
<1>5. CASE RecordRetry(w) \/ RecordOutcome(w) \/ RecordUndo(w)
  BY <1>5 DEF RecordRetry, RecordOutcome, RecordUndo, At
<1> QED
  BY <1>1, <1>2, <1>3, <1>4, <1>5 DEF Bookkeeping

LEMMA ElseMemory ==
    ASSUME Elsewise
    PROVE  UNCHANGED worker \/ \E w \in Worker : Bookkeeping(w)
<1>1. ASSUME NEW t \in Pk, RowStep(t) PROVE UNCHANGED worker
  BY <1>1 DEF RowStep, TimerDue, LeaseLapses, Reap, ReapPoisoned
<1> QED
  BY <1>1 DEF Elsewise, StartRun, AnnounceRecovery, Heartbeat

LEMMA NothingTold ==
    ASSUME TInv, [Next]_vars,
           Elsewise \/ UNCHANGED vars \/ \E w \in Worker : Crash(w),
           NEW v \in Worker, NEW slot, Told(v, slot)'
    PROVE  Told(v, slot)
<1>0. worker \in [Worker -> Memory]
  BY DEF TInv, MemoryOK
<1>1. ASSUME worker[v].pc = "executing" PROVE worker'[v].pc # "executed"
  <2>1. CASE UNCHANGED worker
    BY <1>1, <2>1
  <2>2. ASSUME NEW w \in Worker, Bookkeeping(w) PROVE worker'[v].pc # "executed"
    BY <1>0, <1>1, <2>2, BookkeepingMemory
  <2>3. ASSUME NEW w \in Worker, Crash(w) PROVE worker'[v].pc # "executed"
    BY <1>0, <1>1, <2>3 DEF Crash, Idle
  <2> QED
    BY <2>1, <2>2, <2>3, ElseMemory DEF vars
<1>2. \A s : Route(s) \notin {"executed", "recording"}
  BY DEF Route
<1> QED
  BY <1>1, <1>2, PcSteps DEF Told, Proceeds

\* A worker that has been told so records the step, unless it dies.
LEMMA ToldIsRecorded ==
    ASSUME RInv, HInv, NoneLost, Elsewise \/ UNCHANGED vars, NEW v \in Worker, NEW s \in Step,
           Told(v, Do(s))
    PROVE  Told(v, Do(s))' \/ s \in Succeeded'
<1>0. TInv /\ Backed /\ worker \in [Worker -> Memory] /\ StepOf(v) = s /\ ~Undoing(v)
  BY DEF RInv, DInv, TInv, MemoryOK, Told, StepOf, Undoing, Do
<1>1. CASE UNCHANGED worker
  BY <1>1 DEF Told
<1>2. ASSUME NEW w \in Worker, Bookkeeping(w), w # v PROVE Told(v, Do(s))'
  BY <1>0, <1>2, BookkeepingMemory DEF Told
<1>3. CASE Bookkeeping(v)
  <2>1. ~Abandon(v)
    BY DEF Abandon, Queue!Abandon, NoneLost, HInv, Holds
  <2>2. CASE Finish(v)
    BY <1>0, <2>2 DEF Finish, At, GoTo, Told, Memory
  <2>3. CASE RecordOutcome(v)
    <3>1. PICK c : Writes("STEP_SUCCEEDED", s, c)
      BY <1>0, <2>3, RecordOutcomeWrites DEF Told
    <3> QED
      BY <1>0, <3>1, WritesMarks
  <2>4. ~RecordRetry(v) /\ ~RecordUndo(v)
    BY <1>0 DEF RecordRetry, RecordUndo, Told
  <2>5. ~(Claim(v) \/ LoadContext(v) \/ RejectConfig(v) \/ Return(v) \/ FireTimer(v)
            \/ StartStep(v) \/ Park(v))
    BY DEF Claim, LoadContext, RejectConfig, Return, FireTimer, StartStep, Park, At, Told
  <2> QED
    BY <1>3, <2>1, <2>2, <2>3, <2>4, <2>5 DEF Bookkeeping
<1> QED
  BY <1>1, <1>2, <1>3, ElseMemory DEF vars

------------------------------------------------------------------------------
(* The steps of a run that makes requests.                                 *)

\* No step of it waits, is decided on, or has a configuration that does not render.
LEMMA EachIsWork ==
    /\ \A s \in Step : s \in Automatic /\ s \notin BadConfig
    /\ \A slot \in Slot : Orderly(slot)
<1>1. \A s \in Step : StepType[s] = "work"
  BY WorkflowAssumption
<1> QED
  BY <1>1, DeferringAssumption, SlotOfTyped DEF Automatic, Orderly

\* Nobody decides on one.
LEMMA NobodyDecides ==
    ASSUME BInv, NEW a \in Actor
    PROVE  ~ResolveApproval(a)
<1> SUFFICES ASSUME ResolveApproval(a) PROVE FALSE
  OBVIOUS
<1>1. request[a].pc = "checked" /\ request[a].step \in Step
  BY DEF ResolveApproval, BInv, RInv, TInv, RequestsOK
<1> QED
  BY <1>1, WorkflowAssumption DEF BInv, CInv, Asking

\* What is known of it as long as no lease lapses under a worker.
Known == BInv /\ SuccessFree /\ HInv /\ HandedOK /\ NoneLost

LEMMA KnownInit == Init => Known
<1> SUFFICES ASSUME Init PROVE Known
  OBVIOUS
<1>1. SuccessFree
  BY NothingHeldAtFirst DEF SuccessFree
<1> QED
  BY <1>1, BInit, WorkersInit DEF WorkersInv, Known

LEMMA KnownNext ==
    ASSUME Known, "stall" \notin Faults, [Next]_vars
    PROVE  Known'
BY BNext, SuccessFreeNext, HNext, HandedNext, NoneLostNext DEF Known, BInv, RInv

\* A worker that has a step in hand keeps others from having succeeded with it, and
\* from undoing it.
LEMMA BusyOn ==
    ASSUME Known, NEW s \in Step, NEW w \in Worker, worker[w].pc # "idle",
           worker[w].slot = Do(s)
    PROVE  /\ s \notin Succeeded /\ Rowless(Undo(s)) /\ ~Settled(s) /\ ~Rowless(Do(s))
           /\ Custodians(Do(s)) # 0
<1>0. TInv /\ RInv /\ Backed /\ CInv
  BY DEF Known, BInv, RInv, DInv
<1>1. ~Free(Do(s)) /\ ~Rowless(Do(s))
  BY <1>0, BusyHolds, WorkerBacked DEF Known
<1>2. s \notin Succeeded
  BY <1>1, EachIsWork DEF Known, SuccessFree
<1>3. Rowless(Undo(s)) /\ ~Settled(s)
  BY <1>2 DEF Known, BInv, UndoneAfterTurn
<1>4. InOneHand(Do(s))
  BY <1>0, EachIsWork, AutomaticInOneHand
<1> QED
  BY <1>1, <1>2, <1>3, <1>4, HeldCounts

\* What is being undone has succeeded.
LEMMA BusyUndoing ==
    ASSUME Known, NEW s \in Step, NEW w \in Worker, worker[w].pc # "idle",
           worker[w].slot = Undo(s)
    PROVE  ~Rowless(Undo(s)) /\ s \in Succeeded
<1>1. ~Rowless(Undo(s))
  BY WorkerBacked DEF Known, BInv, RInv, DInv
<1> QED
  BY <1>1 DEF Known, BInv, UndoneAfterTurn

\* Only what can be undone is.
LEMMA OnlyCompensable ==
    ASSUME BInv, BInv', [Next]_vars, NEW s \in Step,
           ~Rowless(Undo(s)) => s \in Compensable, ~Rowless(Undo(s))'
    PROVE  s \in Compensable
<1>1. CASE Rowless(Undo(s))
  <2>1. Current(s)'
    BY <1>1, UndoQueued
  <2>2. ctx' \in Context
    BY DEF BInv, RInv, TInv
  <2>3. CompensationOrder(ctx') # <<>> /\ s = Head(CompensationOrder(ctx'))
    BY <2>1 DEF Current
  <2>4. PICK m \in ToRollBack(ctx') : s = ctx'.order[m]
    BY <2>2, <2>3, CompensationHead
  <2> QED
    BY <2>4 DEF ToRollBack
<1> QED
  BY <1>1

\* What fails for good was not failed before, and its worker says so.
LEMMA FailsBy ==
    ASSUME TInv, NEW type, NEW r, NEW c, Writes(type, r, c), NEW s \in Step,
           ctx'.steps[s].status = "FAILED"
    PROVE  \/ s = r /\ type \in {"STEP_FAILED", "APPROVAL_DENIED"}
           \/ ctx.steps[s].status = "FAILED" /\ ~(s = r /\ type = "STEP_SUCCEEDED")
<1>0. ctx \in Context /\ type \in StepEvent /\ r \in Step
  BY DEF TInv, Writes
<1> DEFINE d == ApplyEvent(ctx, Event(type, r))
<1>1. /\ d \in Context
      /\ d.steps[r] = ApplyToSlot(ctx.steps[r], type)
      /\ \A q \in Step \ {r} : d.steps[q] = ctx.steps[q]
  BY <1>0, AfterStepEvent
<1>2. c \in Context /\ c.steps = d.steps
  BY <1>0, <1>1, Unwound DEF Writes
<1>3. \/ ctx'.steps[s] = c.steps[s]
      \/ ctx'.steps[s] = ApplyToSlot(c.steps[s], "STEP_SCHEDULED")
  BY DEF Writes, Continues
<1> HIDE DEF d
<1>4. c.steps[s] \in StepSlot /\ ctx.steps[r] \in StepSlot
  BY <1>0, <1>2 DEF Context
<1>5. c.steps[s].status = "FAILED"
  BY <1>3, <1>4, SlotAfter
<1>6. ApplyToSlot(ctx.steps[r], "STEP_SUCCEEDED").status = "SUCCEEDED"
  <2>1. "STEP_SUCCEEDED" \in DOMAIN StepStatusAfter
        /\ StepStatusAfter["STEP_SUCCEEDED"] = "SUCCEEDED"
    BY DEF StepStatusAfter
  <2> QED
    BY <1>4, <2>1 DEF ApplyToSlot, StepSlot
<1> QED
  BY <1>1, <1>2, <1>4, <1>5, <1>6, SlotAfter

------------------------------------------------------------------------------
(* What has been done, and what is gone.                                   *)

\* The log says that the step was carried out, or a worker is about to say so.
DoneOf(s) == s \in Succeeded \/ \E w \in Worker : Told(w, Do(s))

\* The same of what undoes it.
GoneOf(s) == ctx.steps[s].compensated \/ \E w \in Worker : Told(w, Undo(s))

\* The log says so of an undo only after the worker that carried it out.
LEMMA UndoneBy ==
    ASSUME RInv, [Next]_vars, NEW s \in Step, ctx'.steps[s].compensated
    PROVE  ctx.steps[s].compensated \/ \E w \in Worker : Told(w, Undo(s))
<1> SUFFICES ASSUME ~ctx.steps[s].compensated PROVE \E w \in Worker : Told(w, Undo(s))
  OBVIOUS
<1>0. TInv /\ Backed /\ ctx \in Context
  BY DEF RInv, DInv, TInv
<1>1. CASE Quiet
  BY <1>1 DEF Quiet, runVars
<1>2. CASE StartRun
  <2>1. ctx'.steps[s] = ctx.steps[s] \/ ctx'.steps[s] = ApplyToSlot(ctx.steps[s], "STEP_SCHEDULED")
    <3> DEFINE c == ApplyEvent(ctx, Event("RUN_STARTED", NoStep))
    <3>1. c \in Context /\ c.steps = ctx.steps
      BY <1>0, RunStarted
    <3>2. ctx' = MarkScheduled(c)
      BY <1>2 DEF StartRun, Sync
    <3> HIDE DEF c
    <3> QED
      BY <3>1, <3>2, Marked
  <2>2. ctx.steps[s] \in StepSlot
    BY <1>0 DEF Context
  <2> QED
    BY <2>1, <2>2, MarksAfter
<1>3. ASSUME NEW type, NEW r, NEW c, Writes(type, r, c), WrittenBy(type, r)
      PROVE  \E w \in Worker : Told(w, Undo(s))
  <2>1. r = s /\ type \in UndoEnd
    BY <1>0, <1>3, WrittenUndo
  <2>2. PICK w \in Worker : RecordUndo(w) /\ StepOf(w) = s
    BY <1>3, <2>1 DEF WrittenBy, UndoEnd
  <2>3. worker[w].slot = Undo(s)
    <3>1. worker[w].pc = "recording" /\ Undoing(w)
      BY <2>2 DEF RecordUndo, At
    <3>2. worker[w].slot \in Slot
      BY <1>0, <3>1 DEF TInv, MemoryOK, Fits
    <3> QED
      BY <2>2, <3>1, <3>2, SlotOfTyped DEF StepOf, Undoing, Undo
  <2>4. CASE worker[w].ok
    BY <2>2, <2>3, <2>4 DEF Told, RecordUndo, At
  <2>5. CASE ~worker[w].ok
    <3>1. AdvanceRun(ApplyEvent(ctx, Event("COMPENSATION_FAILED", s)), <<>>)
      BY <2>2, <2>5 DEF RecordUndo, After
    <3>2. HasRow(s)
      BY <1>3, <2>1 DEF Writes
    <3> DEFINE d == ApplyEvent(ctx, Event("COMPENSATION_FAILED", s))
    <3>3. Writes("COMPENSATION_FAILED", s, d)
      BY <1>0, <3>1, <3>2, OutcomeWrites
    <3>4. ctx'.steps[s].compensated = d.steps[s].compensated
      <4> HIDE DEF d
      <4> QED
        BY <1>0, <3>3, WrittenUndo
    <3>5. d.steps[s] = ApplyToSlot(ctx.steps[s], "COMPENSATION_FAILED")
      BY <1>0, AfterStepEvent DEF StepEvent
    <3>6. ctx.steps[s] \in StepSlot
      BY <1>0 DEF Context
    <3> HIDE DEF d
    <3> QED
      BY <3>4, <3>5, <3>6, MarksAfter
  <2> QED
    BY <2>4, <2>5
<1> QED
  BY <1>0, <1>1, <1>2, <1>3, EveryWriter

\* And of a step only after the worker that carried it out.
LEMMA SucceededBy ==
    ASSUME RInv, [Next]_vars, NEW s \in Step, s \in Succeeded'
    PROVE  s \in Succeeded \/ \E w \in Worker : Told(w, Do(s))
<1>0. TInv /\ Backed
  BY DEF RInv, DInv
<1>1. CASE Quiet
  BY <1>1 DEF Quiet, runVars, Succeeded
<1>2. CASE StartRun
  BY <1>0, <1>2, StartMarks
<1>3. ASSUME NEW type, NEW r, NEW c, Writes(type, r, c), WrittenBy(type, r), s \notin Succeeded
      PROVE  \E w \in Worker : Told(w, Do(s))
  <2>1. r = s /\ type = "STEP_SUCCEEDED"
    BY <1>0, <1>3, WritesMarks
  <2>2. PICK w \in Worker : RecordOutcome(w) /\ worker[w].ok /\ StepOf(w) = s
    BY <1>3, <2>1 DEF WrittenBy
  <2>3. worker[w].pc = "recording" /\ ~Undoing(w)
    BY <2>2 DEF RecordOutcome, At
  <2>4. worker[w].slot = Do(s)
    BY <1>0, <2>2, <2>3, WorkerBacked
  <2> QED
    BY <2>2, <2>3, <2>4 DEF Told
<1> QED
  BY <1>0, <1>1, <1>2, <1>3, EveryWriter

\* Success is not forgotten.
LEMMA SuccessKept ==
    ASSUME RInv, [Next]_vars
    PROVE  Succeeded \subseteq Succeeded'
<1>1. PICK c : GoesOnBy(c)
  BY EveryStepGoesOn DEF RInv
<1> QED
  BY <1>1 DEF GoesOnBy, Onward, Succeeded

\* Apart from the calls, nothing is done or gone that was not.
LEMMA NothingDone ==
    ASSUME RInv, [Next]_vars,
           Elsewise \/ UNCHANGED vars \/ \E w \in Worker : Crash(w), NEW s \in Step
    PROVE  (DoneOf(s)' => DoneOf(s)) /\ (GoneOf(s)' => GoneOf(s))
<1>0. TInv
  BY DEF RInv
<1>1. \A w \in Worker, slot \in {Do(s), Undo(s)} : Told(w, slot)' => Told(w, slot)
  BY <1>0, NothingTold
<1>2. \A w \in Worker : /\ Told(w, Do(s))' => Told(w, Do(s))
                        /\ Told(w, Undo(s))' => Told(w, Undo(s))
  BY <1>1 DEF Told, Do, Undo
<1>3. DoneOf(s)' => DoneOf(s)
  BY <1>2, SucceededBy DEF DoneOf, Do, Told
<1>4. GoneOf(s)' => GoneOf(s)
  BY <1>2, UndoneBy DEF GoneOf, Undo, Told
<1> QED
  BY <1>3, <1>4

\* And what is done stays so, as long as no worker dies.
LEMMA DoneStays ==
    ASSUME Known, [Next]_vars, Elsewise \/ UNCHANGED vars, NEW s \in Step, DoneOf(s)
    PROVE  DoneOf(s)'
<1>1. CASE s \in Succeeded
  BY <1>1, SuccessKept DEF Known, BInv, DoneOf
<1>2. ASSUME NEW w \in Worker, Told(w, Do(s)) PROVE DoneOf(s)'
  <2>1. Told(w, Do(s))' \/ s \in Succeeded'
    BY <1>2, ToldIsRecorded DEF Known, BInv
  <2> QED
    BY <2>1 DEF DoneOf, Told, Do
<1> QED
  BY <1>1, <1>2 DEF DoneOf

------------------------------------------------------------------------------
(* The log tells the truth.                                                *)

\* While nobody has died: no row was dropped, and no step failed that had succeeded.
Intact ==
    crashes = 0 =>
        Kept /\ \A s \in Step : s \in Succeeded => ctx.steps[s].status # "FAILED"

\* What holds of the systems.  A step that was carried out is in effect until somebody
\* has to undo it, one that was undone is not, none is in effect that was not
\* scheduled, and none that is known to nobody - if its worker could be told.
EffectOf(s) ==
    /\ DoneOf(s) /\ Workflow[s].call # NoRoute /\ Rowless(Undo(s)) => InEffect(s)
    /\ GoneOf(s) => ~InEffect(s)
    /\ InEffect(s) => ~Rowless(Do(s))
    /\ TakenAtItsWord(s) /\ InEffect(s) => DoneOf(s)
    /\ ~Rowless(Undo(s)) => s \in Compensable

TruthInv ==
    /\ SystemsOK(systems)
    /\ crashes \in Nat
    /\ Intact
    /\ \A s \in Step : EffectOf(s)

\* A worker dies with a row in his hand only by dying: whatever else looks like it
\* needs a faulty configuration or a lost lease.
LEMMA ElseDropsNothing ==
    ASSUME Known, Elsewise \/ UNCHANGED vars, NEW w \in Worker, Crash(w)
    PROVE  UNCHANGED hand
<1>0. TInv /\ Backed /\ worker \in [Worker -> Memory] /\ Knows(w)
  BY DEF Known, BInv, RInv, DInv, TInv, MemoryOK, KInv
<1>1. /\ UNCHANGED queueVars \/ Queue!Crash(w)
      /\ worker' = [worker EXCEPT ![w] = Idle]
  BY Zenon DEF Crash
<1> SUFFICES ASSUME Queue!Crash(w) PROVE FALSE
  BY <1>1 DEF queueVars
<1>2. hand[w] # NoTask /\ worker'[w] = Idle /\ worker[w].pc \notin Rest
  BY <1>0, <1>1 DEF Queue!Crash, TInv, MemoryOK, Fits, Rest, Recording
<1>3. worker'[w].pc = "idle" /\ worker[w].pc # "idle"
  BY <1>2 DEF Idle, Rest
<1>4. PICK v \in Worker : Bookkeeping(v)
  BY <1>3, ElseMemory DEF vars
<1>5. v = w
  BY <1>0, <1>3, <1>4, BookkeepingMemory
<1>6. ~Return(w)
  <2>1. ASSUME worker[w].pc = "returning" PROVE FALSE
    <3>1. StepOf(w) \in Step /\ ~Undoing(w)
      BY <1>0, <2>1 DEF TInv, MemoryOK, Fits, Forward, Undoing, StepOf, Slot
    <3> QED
      BY <1>0, <1>3, <2>1, <3>1, EachIsWork DEF Knows
  <2> QED
    BY <2>1 DEF Return, At
<1>7. ~Abandon(w)
  BY DEF Abandon, Queue!Abandon, Known, NoneLost, HInv, Holds
<1>8. ~(Park(w) \/ RecordRetry(w) \/ RecordOutcome(w) \/ RecordUndo(w))
  BY <1>2 DEF Park, RecordRetry, RecordOutcome, RecordUndo, At, Rest, Recording
<1>9. ~Claim(w)
  BY <1>3 DEF Claim, At
<1>10. ~LoadContext(w)
  <2>1. \A slot : Route(slot) # "idle"
    BY DEF Route
  <2>2. LoadContext(w) => worker'[w].pc = Route(worker[w].slot)
    BY <1>0 DEF LoadContext, Memory
  <2> QED
    BY <1>3, <2>1, <2>2
<1>11. ASSUME NEW pc, GoTo(w, pc) PROVE worker'[w].pc = pc
  BY <1>0, <1>11 DEF GoTo, Memory
<1>12. ~(RejectConfig(w) \/ FireTimer(w) \/ StartStep(w) \/ Finish(w))
  BY <1>3, <1>11 DEF RejectConfig, FireTimer, StartStep, Finish
<1> QED
  BY <1>4, <1>5, <1>6, <1>7, <1>8, <1>9, <1>10, <1>12 DEF Bookkeeping

\* As long as nobody has died, no row is dropped ...
LEMMA KeptOn ==
    ASSUME Known, Kept, [Next]_vars, \A w \in Worker : Crash(w) => UNCHANGED hand
    PROVE  Kept'
BY KeptNext DEF Known, BInv, NoneDropped

\* ... and no step that has succeeded fails.
LEMMA SuccessUnfailed ==
    ASSUME Known, Kept, [Next]_vars, NEW s \in Step, s \in Succeeded',
           s \in Succeeded => ctx.steps[s].status # "FAILED"
    PROVE  ctx'.steps[s].status # "FAILED"
<1> SUFFICES ASSUME ctx'.steps[s].status = "FAILED" PROVE FALSE
  OBVIOUS
<1>0. TInv /\ Backed /\ BInv
  BY DEF Known, BInv, RInv, DInv
<1>1. CASE Quiet
  BY <1>1 DEF Quiet, runVars, Succeeded
<1>2. CASE StartRun
  <2>1. Succeeded' = Succeeded
    BY <1>0, <1>2, StartMarks
  <2> QED
    BY <1>0, <1>2, <2>1, StartSchedules
<1>3. ASSUME NEW type, NEW r, NEW c, Writes(type, r, c), WrittenBy(type, r) PROVE FALSE
  <2>1. Succeeded' = Succeeded \cup (IF type = "STEP_SUCCEEDED" THEN {r} ELSE {})
    BY <1>0, <1>3, WritesMarks
  <2>2. s = r /\ type \in {"STEP_FAILED", "APPROVAL_DENIED"} /\ s \in Succeeded
    BY <1>0, <1>3, <2>1, FailsBy
  <2>3. Fails(s)
    BY <1>3, <2>2 DEF WrittenBy
  <2>4. ASSUME NEW w \in Worker, StepOf(w) = s, RejectConfig(w) \/ RecordOutcome(w) PROVE FALSE
    <3>1. worker[w].slot = Do(s) /\ worker[w].pc # "idle"
      BY <1>0, <2>4, FailingWorker DEF RejectConfig, RecordOutcome, At
    <3> QED
      BY <2>2, <3>1, BusyOn
  <2>5. ASSUME NEW t \in Pk, ReapPoisoned(t) PROVE FALSE
    BY <2>5, EachIsWork, LeftInPeace, SlotOfTyped DEF Known
  <2> QED
    BY <1>0, <2>3, <2>4, <2>5, NobodyDecides DEF Fails
<1> QED
  BY <1>0, <1>1, <1>2, <1>3, EveryWriter

LEMMA IntactNext ==
    ASSUME Known, [Next]_vars, Intact, crashes \in Nat,
           \/ crashes' = crashes /\ \A w \in Worker : Crash(w) => UNCHANGED hand
           \/ crashes' = crashes + 1
    PROVE  Intact'
<1> SUFFICES ASSUME crashes' = 0
             PROVE  Kept' /\ \A s \in Step : s \in Succeeded' => ctx'.steps[s].status # "FAILED"
  BY DEF Intact
<1>1. crashes = 0 /\ \A w \in Worker : Crash(w) => UNCHANGED hand
  OBVIOUS
<1>2. Kept /\ \A s \in Step : s \in Succeeded => ctx.steps[s].status # "FAILED"
  BY <1>1 DEF Intact
<1> QED
  BY <1>1, <1>2, KeptOn, SuccessUnfailed

\* Systems do not change apart from the calls, or where nobody is hired.
LEMMA EffectsKept ==
    ASSUME Hires, SystemsOK(systems), UNCHANGED systems \/ Interfere
    PROVE  SystemsOK(systems)' /\ \A s \in Step : InEffect(s)' <=> InEffect(s)
<1>1. CASE UNCHANGED systems
  BY <1>1 DEF SystemsOK, InEffect
<1>2. CASE Interfere
  <2>1. PICK request1 \in Sabotage : systems' = Handle(systems, request1, NoKey).systems
    BY <1>2 DEF Interfere
  <2>2. request1 \in Served /\ request1.route \notin CompanyRoute
    BY DEF Hires
  <2> DEFINE answer == Handle(systems, request1, NoKey)
  <2>3. SystemsOK(answer.systems) /\ answer.systems.company = systems.company
    BY <2>2, Elsewhere
  <2> HIDE DEF answer
  <2>4. systems' = answer.systems
    BY <2>1 DEF answer
  <2>5. SystemsOK(systems)' /\ systems'.company = systems.company
    BY <2>3, <2>4 DEF SystemsOK
  <2> QED
    BY <2>5, SameEffect
<1> QED
  BY <1>1, <1>2

\* A step of the run that is no call, or of an operator.
LEMMA TruthElsewise ==
    ASSUME Hires, Known, Known', [Next]_vars, TruthInv,
           \/ Elsewise \/ UNCHANGED vars
           \/ (\E w \in Worker : Crash(w)) /\ crashes' = crashes + 1,
           UNCHANGED systems \/ Interfere, crashes' \in {crashes, crashes + 1}
    PROVE  TruthInv'
<1>0. RInv /\ BInv /\ BInv' /\ TInv /\ SystemsOK(systems) /\ crashes \in Nat /\ Intact
  BY DEF Known, BInv, RInv, TruthInv
<1>1. SystemsOK(systems)' /\ \A s \in Step : InEffect(s)' <=> InEffect(s)
  BY <1>0, EffectsKept
<1>2. Intact' /\ crashes' \in Nat
  BY <1>0, IntactNext, ElseDropsNothing
<1>3. ASSUME NEW s \in Step PROVE EffectOf(s)'
  <2>1. (DoneOf(s)' => DoneOf(s)) /\ (GoneOf(s)' => GoneOf(s))
    BY <1>0, NothingDone
  <2>2. EffectOf(s)
    BY DEF TruthInv
  <2>3. /\ Rowless(Undo(s))' => Rowless(Undo(s))
        /\ Rowless(Do(s))' => Rowless(Do(s))
    BY <1>0, RowlessBefore
  <2>4. ~Rowless(Undo(s))' => s \in Compensable
    BY <1>0, <2>2, OnlyCompensable DEF EffectOf
  <2>5. TakenAtItsWord(s)' /\ InEffect(s) => DoneOf(s)'
    <3> SUFFICES ASSUME TakenAtItsWord(s)', InEffect(s) PROVE DoneOf(s)'
      OBVIOUS
    <3>1. crashes' = 0
      BY Zenon DEF TakenAtItsWord
    <3>2. crashes = 0 /\ (Elsewise \/ UNCHANGED vars)
      BY <1>0, <3>1
    <3>3. TakenAtItsWord(s)
      BY <3>2, Zenon DEF TakenAtItsWord, Do
    <3>4. DoneOf(s)
      BY <2>2, <3>3 DEF EffectOf
    <3> QED
      BY <3>2, <3>4, DoneStays
  <2> QED
    BY <1>1, <2>1, <2>2, <2>3, <2>4, <2>5 DEF EffectOf
<1> QED
  BY <1>1, <1>2, <1>3 DEF TruthInv

\* What a call leaves alone: the log, the rows, and the other workers.
LEMMA CallLeaves ==
    ASSUME Known, NEW w \in Worker, Call(w), NEW s \in Step
    PROVE  /\ Rowless(Do(s))' = Rowless(Do(s)) /\ Rowless(Undo(s))' = Rowless(Undo(s))
           /\ (s \in Succeeded)' <=> s \in Succeeded
           /\ ctx' = ctx /\ worker[w].pc = "executing"
           /\ \A v \in Worker \ {w} : /\ Told(v, Do(s))' <=> Told(v, Do(s))
                                      /\ Told(v, Undo(s))' <=> Told(v, Undo(s))
           /\ ~Told(w, Do(s)) /\ ~Told(w, Undo(s))
           /\ Told(w, Undo(s))' => worker[w].slot = Undo(s)
<1>0. worker \in [Worker -> Memory] /\ TInv
  BY DEF Known, BInv, RInv, TInv, MemoryOK
<1>1. PICK ok \in BOOLEAN : CallReturns(w, ok)
  BY <1>0, CallIsExecute
<1>2. UNCHANGED <<task, ctx>> /\ \A v \in Worker \ {w} : worker'[v] = worker[v]
  BY <1>0, <1>1 DEF CallReturns, queueVars, runVars
<1>3. worker[w].pc = "executing" /\ worker'[w].slot = worker[w].slot
  BY <1>0, <1>1 DEF Call, At, CallReturns, Memory
<1> QED
  BY <1>2, <1>3 DEF Rowless, Rows, Queue!Present, Succeeded, Told, Do, Undo

\* A call, for the step it is for and for the others.
LEMMA TruthCall ==
    ASSUME Hires, Known, [Next]_vars, TruthInv, NEW w \in Worker, Call(w),
           crashes' = crashes
    PROVE  TruthInv'
<1>0. TInv /\ SystemsOK(systems) /\ crashes \in Nat /\ Intact
  BY DEF Known, BInv, RInv, TruthInv
<1>1. SystemsOK(systems)' /\ crashes' \in Nat
  BY <1>0, CallEffects
<1>2. Intact'
  <2>1. \A v \in Worker : Crash(v) => UNCHANGED hand
    <3>1. Execute(w)
      BY <1>0, CallIsExecute
    <3> QED
      BY <3>1 DEF Execute, CallReturns, queueVars
  <2> QED
    BY <1>0, <2>1, IntactNext
<1>3. ASSUME NEW s \in Step PROVE EffectOf(s)'
  <2>0. EffectOf(s)
    BY DEF TruthInv
  <2>1. /\ InEffect(s)' /\ ~InEffect(s) =>
            /\ worker[w].slot = Do(s)
            /\ Told(w, Do(s))' \/ "lost answer" \in Trouble[Do(s)]
        /\ InEffect(s) /\ ~InEffect(s)' => worker[w].slot = Undo(s)
        /\ Told(w, Do(s))' /\ Workflow[s].call # NoRoute => InEffect(s)'
        /\ Told(w, Undo(s))' /\ s \in Compensable => ~InEffect(s)'
    BY <1>0, CallEffects, Zenon
  <2>2. /\ Rowless(Do(s))' = Rowless(Do(s)) /\ Rowless(Undo(s))' = Rowless(Undo(s))
        /\ (s \in Succeeded)' <=> s \in Succeeded
        /\ ctx' = ctx /\ worker[w].pc = "executing"
        /\ \A v \in Worker \ {w} : /\ Told(v, Do(s))' <=> Told(v, Do(s))
                                   /\ Told(v, Undo(s))' <=> Told(v, Undo(s))
        /\ ~Told(w, Do(s)) /\ ~Told(w, Undo(s))
        /\ Told(w, Undo(s))' => worker[w].slot = Undo(s)
    BY CallLeaves
  <2>3. /\ DoneOf(s)' <=> DoneOf(s) \/ Told(w, Do(s))'
        /\ GoneOf(s)' <=> GoneOf(s) \/ Told(w, Undo(s))'
    BY <2>2 DEF DoneOf, GoneOf, Told, Do, Undo
  <2>4. worker[w].slot = Do(s) => ~GoneOf(s) /\ ~Rowless(Do(s))
    <3> SUFFICES ASSUME worker[w].slot = Do(s) PROVE ~GoneOf(s) /\ ~Rowless(Do(s))
      OBVIOUS
    <3>1. s \notin Succeeded /\ Rowless(Undo(s)) /\ ~Settled(s) /\ ~Rowless(Do(s))
      BY <2>2, BusyOn
    <3>2. ASSUME NEW v \in Worker, Told(v, Undo(s)) PROVE FALSE
      BY <3>1, <3>2, BusyUndoing DEF Told
    <3> QED
      BY <3>1, <3>2 DEF GoneOf, Settled
  <2>5. worker[w].slot = Undo(s) => ~Rowless(Undo(s))
    BY <2>2, BusyUndoing
  <2>6. Told(w, Undo(s))' => s \in Compensable
    BY <2>0, <2>2, <2>5 DEF EffectOf
  <2>7. TakenAtItsWord(s)' => TakenAtItsWord(s) /\ "lost answer" \notin Trouble[Do(s)]
    BY Zenon DEF TakenAtItsWord, Do
  <2> HIDE DEF TakenAtItsWord
  <2> QED
    BY <2>0, <2>1, <2>2, <2>3, <2>4, <2>5, <2>6, <2>7, Zenon DEF EffectOf
<1> QED
  BY <1>1, <1>2, <1>3 DEF TruthInv

LEMMA TruthInit ==
    ASSUME Hires, ProvisioningInit
    PROVE  TruthInv
<1>1. Init /\ systems = FreshSystems /\ crashes = 0
  BY DEF ProvisioningInit
<1>2. SystemsOK(systems) /\ \A store \in Store : systems.company[store] = {}
  <2>1. FreshNode \in NodeState
    BY DEF FreshNode, NodeState, Version, NoVersion
  <2> QED
    BY <1>1, <2>1 DEF FreshSystems, SystemsOK
<1>3. ASSUME NEW s \in Step PROVE ~InEffect(s)
  <2>1. CASE Workflow[s].call = NoRoute
    BY <2>1, NoEffect
  <2>2. CASE Workflow[s].call # NoRoute
    <3>1. PICK store \in Store : Enrols(store, Workflow[s].call)
      BY <2>2 DEF Hires
    <3> QED
      BY <1>2, <3>1, EffectOfStore
  <2> QED
    BY <2>1, <2>2
<1>4. \A slot : Rowless(slot)
  BY <1>1, NothingHeldAtFirst
<1>5. ASSUME NEW s \in Step PROVE s \notin Succeeded /\ ~ctx.steps[s].compensated
  <2>1. Untouched /\ UndoneAfterTurn /\ Queued
    BY <1>1, BInit DEF BInv, PInv
  <2>2. s \notin Succeeded
    BY <1>4, <2>1 DEF Queued
  <2> QED
    BY <2>1, <2>2 DEF UndoneAfterTurn, Settled
<1>6. \A w \in Worker : \A slot : ~Told(w, slot)
  BY <1>1 DEF Init, Told, Idle
<1>7. Intact
  BY <1>1, <1>5, WorkersInit DEF WorkersInv, Intact
<1>8. ASSUME NEW s \in Step PROVE EffectOf(s)
  BY <1>3, <1>4, <1>5, <1>6 DEF EffectOf, DoneOf, GoneOf
<1> QED
  BY <1>1, <1>2, <1>7, <1>8 DEF TruthInv

LEMMA TruthNext ==
    ASSUME Hires, "stall" \notin Faults, Known, TruthInv,
           [ProvisioningNext]_provisioningVars
    PROVE  Known' /\ TruthInv'
<1>1. [Next]_vars
  BY WorldNext DEF Known, BInv, RInv
<1>2. Known'
  BY <1>1, KnownNext
<1>3. CASE UNCHANGED vars /\ (UNCHANGED systems \/ Interfere) /\ UNCHANGED crashes
  BY <1>1, <1>2, <1>3, TruthElsewise
<1>4. CASE Elsewise /\ UNCHANGED <<systems, crashes>>
  BY <1>1, <1>2, <1>4, TruthElsewise
<1>5. ASSUME NEW w \in Worker, Call(w), UNCHANGED crashes PROVE TruthInv'
  BY <1>1, <1>5, TruthCall
<1>6. CASE (\E w \in Worker : Crash(w)) /\ UNCHANGED systems /\ crashes' = crashes + 1
  BY <1>1, <1>2, <1>6, TruthElsewise
<1> QED
  BY <1>2, <1>3, <1>4, <1>5, <1>6, WorldSteps

LEMMA TruthTold ==
    ASSUME Known, TruthInv
    PROVE  LogTellsTruth
<1>1. UndoneIsGone
  BY DEF UndoneIsGone, TruthInv, EffectOf, GoneOf
<1>2. ASSUME NEW s \in Step
      PROVE  /\ Workflow[s].call # NoRoute /\ s \in Succeeded /\ Rowless(Undo(s)) => InEffect(s)
             /\ Rowless(Do(s)) => ~InEffect(s)
  BY DEF TruthInv, EffectOf, DoneOf
<1>3. ASSUME NEW s \in Step, TakenAtItsWord(s), ctx.steps[s].status = "FAILED",
             Custodians(Do(s)) = 0
      PROVE  ~InEffect(s)
  <2> SUFFICES ASSUME InEffect(s) PROVE FALSE
    OBVIOUS
  <2>1. DoneOf(s)
    BY <1>3 DEF TruthInv, EffectOf
  <2>2. s \notin Succeeded
    <3>1. crashes = 0
      BY <1>3, Zenon DEF TakenAtItsWord
    <3> QED
      BY <1>3, <3>1 DEF TruthInv, Intact
  <2>3. PICK w \in Worker : worker[w].slot = Do(s) /\ worker[w].pc # "idle"
    BY <2>1, <2>2 DEF DoneOf, Told
  <2> QED
    BY <1>3, <2>3, BusyOn
<1> QED
  BY <1>1, <1>2, <1>3, Zenon DEF LogTellsTruth

\* The log tells the truth about the systems, in every run of a workflow that hires:
\* whatever its steps, however many workers die at whatever moment, whatever answers
\* get lost, how often requests are repeated, and whatever operators do to the rest of
\* the systems.  A step that has succeeded is in effect until it is to be undone, one
\* that was undone or never scheduled is not, and one that failed for good while every
\* worker lived and no answer was lost is not either (HttpPlugin.execute, the handlers of
\* fake_nodes/server.py, worker.execute_task and _run_compensation).  A lease must not
\* lapse under a worker that goes on: the request of that worker and the one of whoever
\* has the step then could come in any order.
THEOREM LogIsTrue ==
    ASSUME Hires, "stall" \notin Faults
    PROVE  ProvisioningSpec => []LogTellsTruth
<1>1. ProvisioningInit => Known /\ TruthInv
  BY KnownInit, TruthInit DEF ProvisioningInit
<1>2. Known /\ TruthInv /\ [ProvisioningNext]_provisioningVars => Known' /\ TruthInv'
  BY TruthNext
<1>3. Known /\ TruthInv => LogTellsTruth
  BY TruthTold
<1> QED
  BY <1>1, <1>2, <1>3, PTL DEF ProvisioningSpec

------------------------------------------------------------------------------
(* A run that turns back.                                                  *)

\* No decision has been taken.
NothingDecided == \A a \in Actor : request[a].pc # "done"

LEMMA NothingDecidedNext ==
    ASSUME BInv, NothingDecided, [Next]_vars
    PROVE  NothingDecided'
<1>1. CASE UNCHANGED request
  BY <1>1 DEF NothingDecided
<1>2. ASSUME NEW b \in Actor, NEW s \in Step, NEW approve \in BOOLEAN, CheckApproval(b, s, approve)
      PROVE  NothingDecided'
  BY <1>2 DEF NothingDecided, CheckApproval, BInv, RInv, TInv, RequestsOK
<1> QED
  BY <1>1, <1>2, NobodyDecides, RequestSteps

LEMMA Decisions ==
    /\ Deadline = {} /\ DecidedWell
    /\ NothingDecided => OneDecision
<1>1. \A s \in Step : StepType[s] = "work"
  BY WorkflowAssumption
<1> QED
  BY <1>1, DeferringAssumption DEF DecidedWell, Decided, NothingDecided, OneDecision

\* Among the systems a run keeps the promise of a saga and undoes one step at a time,
\* and an end that was recorded stays, without the condition that nothing is decided
\* twice: there is nothing to decide on.
THEOREM KeepsPromiseInTheWorld ==
    ASSUME TurnsAlone, Faults \cap {"stall", "slow reaper"} = {}
    PROVE  ProvisioningSpec =>
                ImplementsSaga /\ EndIsFinal /\ [](SequentialUnwind /\ SingleCustody)
<1>1. ProvisioningInit => BInv /\ NothingDecided
  <2> SUFFICES ASSUME Init PROVE BInv /\ NothingDecided
    BY DEF ProvisioningInit
  <2>1. BInv
    BY BInit
  <2>2. NothingDecided
    BY DEF Init, NothingDecided, NewRequest
  <2> QED
    BY <2>1, <2>2
<1>2. BInv /\ NothingDecided /\ [ProvisioningNext]_provisioningVars => BInv' /\ NothingDecided'
  BY WorldNext, BNext, NothingDecidedNext DEF BInv, RInv
<1>3. NothingDecided => OneDecision
  BY Decisions
<1>4. Spec /\ []OneDecision => ImplementsSaga
  BY Decisions, KeepsPromise
<1>5. Spec /\ []OneDecision => EndIsFinal
  BY Decisions, EndsForGood
<1>6. Spec /\ []OneDecision => [](SequentialUnwind /\ SingleCustody)
  BY Decisions, UnwindsInTurn
<1> QED
  BY <1>1, <1>2, <1>3, <1>4, <1>5, <1>6, RunsInTheWorld, PTL DEF ProvisioningSpec

\* The run has turned back because of a step that may turn it back, was tried and has
\* not succeeded.
TurnHasCause ==
    ctx.compensating => \E x \in Step : Turner(x) /\ HasRow(x) /\ x \notin Succeeded

TurnInv == OInv /\ UnwindInv /\ PhaseOK /\ TurnHasCause

LEMMA RowRemains ==
    ASSUME TInv, [Next]_vars, NEW s, HasRow(s)
    PROVE  HasRow(s)'
BY NextOK DEF AsQueue, RowsStay, HasRow

LEMMA NobodyAtWork ==
    ASSUME Known, OInv, ctx.compensating, NEW s \in Step, NEW w \in Worker, Told(w, Do(s))
    PROVE  FALSE
<1>1. TInv /\ RInv /\ Backed
  BY DEF Known, BInv, RInv, DInv
<1>2. ~Free(Do(s))
  BY <1>1, BusyHolds, WorkerBacked DEF Known, Told
<1> QED
  BY <1>2 DEF OInv, UnwindOver, Over

LEMMA NoSuccessOnceBack ==
    ASSUME Known, [Next]_vars, OInv, ctx.compensating, NEW s \in Step
    PROVE  s \in Succeeded' <=> s \in Succeeded
BY SucceededBy, SuccessKept, NobodyAtWork DEF Known, BInv

LEMMA TurnNext ==
    ASSUME Known, Known', TurnsAlone, [Next]_vars, TurnInv
    PROVE  TurnInv'
<1>0. /\ BInv /\ BInv' /\ RInv /\ TInv
      /\ Deadline = {} /\ DecidedWell /\ OInv /\ UnwindInv /\ PhaseOK
  BY Decisions DEF Known, BInv, RInv, TurnInv
<1>1. DecidedWell'
  <2>1. \A s \in Step : StepType[s] = "work"
    BY WorkflowAssumption
  <2> QED
    BY <2>1 DEF DecidedWell, Decided
<1>2. OInv'
  BY <1>0, <1>1, ONext
<1>3. UnwindInv'
  BY <1>0, <1>1, UndoInTurnNext DEF UnwindInv
<1>4. PhaseOK'
  BY <1>0, <1>1, PhaseNext
<1>5. TurnHasCause'
  <2> SUFFICES ASSUME ctx'.compensating
               PROVE  \E x \in Step : Turner(x) /\ HasRow(x)' /\ x \notin Succeeded'
    BY DEF TurnHasCause, Turner
  <2>1. CASE ctx.compensating
    <3>1. PICK x \in Step : Turner(x) /\ HasRow(x) /\ x \notin Succeeded
      BY <2>1 DEF TurnInv, TurnHasCause
    <3> QED
      BY <1>0, <2>1, <3>1, RowRemains, NoSuccessOnceBack
  <2>2. CASE ~ctx.compensating
    <3>1. PICK x \in Step : TurnedBy(x)
      BY <1>0, <2>2, TurnBy
    <3>2. Turner(x) /\ Fails(x) /\ HasRow(x) /\ Succeeded' = Succeeded
      BY <3>1 DEF TurnedBy
    <3>3. x \notin Succeeded
      BY <1>0, <1>1, <2>2, <3>2, FailsEarly DEF DecidedWell, OInv, SuccessOver
    <3> QED
      BY <1>0, <3>2, <3>3, RowRemains
  <2> QED
    BY <2>1, <2>2
<1> QED
  BY <1>2, <1>3, <1>4, <1>5 DEF TurnInv

LEMMA TurnInit ==
    ASSUME Init
    PROVE  TurnInv
<1>1. OInv /\ UnwindInv
  BY OInit, NothingHeldAtFirst DEF UnwindInv, UndoInTurn
<1>2. ctx.status = "PENDING" /\ ~ctx.compensating
  BY DEF Init, NewContext
<1> QED
  BY <1>1, <1>2 DEF TurnInv, PhaseOK, TurnHasCause

\* What a run that has turned back leaves behind at its end: steps that have succeeded
\* and cannot be undone, or whose undo was given up; and steps that failed only as far
\* as anybody was told.
NothingLeftOver ==
    ctx.compensating /\ ctx.status \in TerminalRunStates =>
        \A s \in Step : InEffect(s) =>
            IF s \in Succeeded THEN s \notin Compensable \/ ctx.steps[s].compensationFailed
            ELSE ~TakenAtItsWord(s)

LEMMA NothingLeft ==
    ASSUME Known, TruthInv, TurnInv
    PROVE  NothingLeftOver
<1>1. SUFFICES ASSUME ctx.compensating, ctx.status \in TerminalRunStates,
                    NEW s \in Step, InEffect(s)
             PROVE  IF s \in Succeeded
                    THEN s \notin Compensable \/ ctx.steps[s].compensationFailed
                    ELSE ~TakenAtItsWord(s)
  BY <1>1, Zenon DEF NothingLeftOver
<1>2. CASE s \in Succeeded
  <2>1. BackTells
    BY TellsBack DEF TurnInv, Known
  <2>2. Promise!ToUndo = {}
    BY <1>1, <2>1 DEF BackTells, TerminalRunStates
  <2>3. s \in Compensable => Settled(s)
    BY <1>2, <2>2 DEF Promise!ToUndo, Succeeded, Promise!Range, Range
  <2>4. ~ctx.steps[s].compensated
    BY <1>1 DEF TruthInv, EffectOf, GoneOf
  <2> QED
    BY <1>2, <2>3, <2>4 DEF Settled
<1>3. CASE s \notin Succeeded
  <2>1. ~DoneOf(s)
    BY <1>1, <1>3, NobodyAtWork DEF DoneOf, TurnInv
  <2>2. ~TakenAtItsWord(s)
    BY <1>1, <2>1, Zenon DEF TruthInv, EffectOf
  <2> QED
    BY <1>3, <2>2, Zenon
<1> QED
  BY <1>2, <1>3, Zenon

\* Once a run of a workflow that hires has turned back and ended, nothing is in effect
\* that it has brought about and could undo, unless the undo was given up and the log
\* says so (service.start_compensation, replay.compensation_order,
\* worker._run_compensation): whichever workers died meanwhile.  A request whose answer
\* nobody got may have been carried out nevertheless.
THEOREM UnwindLeavesNothing ==
    ASSUME Hires, TurnsAlone, "stall" \notin Faults
    PROVE  ProvisioningSpec => []NothingLeftOver
<1>1. ProvisioningInit => Known /\ TruthInv /\ TurnInv
  BY KnownInit, TruthInit, TurnInit DEF ProvisioningInit
<1>2. ASSUME Known, TruthInv, TurnInv, [ProvisioningNext]_provisioningVars
      PROVE  Known' /\ TruthInv' /\ TurnInv'
  <2>1. Known' /\ TruthInv'
    BY <1>2, TruthNext
  <2>2. [Next]_vars
    BY <1>2, WorldNext DEF Known, BInv, RInv
  <2> QED
    BY <1>2, <2>1, <2>2, TurnNext
<1>3. Known /\ TruthInv /\ TurnInv => NothingLeftOver
  BY NothingLeft
<1> QED
  BY <1>1, <1>2, <1>3, PTL DEF ProvisioningSpec

------------------------------------------------------------------------------
(* The order of undos.                                                     *)

\* Steps have completed in the order of the graph.
InOrder ==
    \A i, k \in DOMAIN ctx.order : ctx.order[k] \in Needs[ctx.order[i]] => k < i

\* No step is up to be undone before what needed it is undone, or given up.
DependentsFirst ==
    \A x, y \in Step :
        x \in Needs[y] /\ y \in Succeeded \cap Compensable /\ ~Rowless(Undo(x)) => Settled(y)

\* A completion is appended, once all that the step needs has completed.
LEMMA OrderGrows ==
    ASSUME BInv, [Next]_vars
    PROVE  \/ ctx'.order = ctx.order
           \/ \E s \in Step : /\ s \notin Succeeded /\ Needs[s] \subseteq Succeeded
                            /\ ctx'.order = Append(ctx.order, s)
<1>0. /\ TInv /\ Backed /\ RInv /\ ctx \in Context
  BY DEF BInv, RInv, DInv, TInv
<1>1. CASE Quiet
  BY <1>1 DEF Quiet, runVars
<1>2. CASE StartRun
  <2> DEFINE c == ApplyEvent(ctx, Event("RUN_STARTED", NoStep))
  <2>1. c \in Context /\ c.order = ctx.order
    BY <1>0, RunStarted
  <2>2. ctx' = MarkScheduled(c)
    BY <1>2 DEF StartRun, Sync
  <2> HIDE DEF c
  <2> QED
    BY <2>1, <2>2, Marked
<1>3. ASSUME NEW type, NEW s, NEW c, Writes(type, s, c), ctx'.order # ctx.order
      PROVE  /\ s \in Step /\ s \notin Succeeded /\ Needs[s] \subseteq Succeeded
             /\ ctx'.order = Append(ctx.order, s)
  <2>1. type = "STEP_SUCCEEDED" /\ ctx'.order = c.order
    BY <1>0, <1>3, WrittenUndo
  <2>2. c = ApplyEvent(ctx, Event(type, s)) /\ s \in Step /\ HasRow(s)
    BY <1>3, <2>1 DEF Writes
  <2>3. c.order = IF ~Contains(ctx.order, s) THEN Append(ctx.order, s) ELSE ctx.order
    BY <2>1, <2>2 DEF ApplyEvent, Event
  <2>4. ~Contains(ctx.order, s) /\ ctx'.order = Append(ctx.order, s)
    BY <1>3, <2>1, <2>3
  <2>5. s \notin Succeeded
    BY <1>0, <2>2, <2>4, ContainsIsRange DEF Context, Succeeded
  <2>6. Needs[s] \subseteq Succeeded
    BY <1>0, <2>2 DEF RInv, DInv, RowsCleared, Cleared
  <2> QED
    BY <2>2, <2>4, <2>5, <2>6
<1> QED
  BY <1>0, <1>1, <1>2, <1>3, EveryWriter

LEMMA InOrderNext ==
    ASSUME BInv, [Next]_vars, InOrder
    PROVE  InOrder'
<1>1. CASE ctx'.order = ctx.order
  BY <1>1 DEF InOrder
<1>2. ASSUME NEW s \in Step, s \notin Succeeded, Needs[s] \subseteq Succeeded,
             ctx'.order = Append(ctx.order, s)
      PROVE  InOrder'
  <2> DEFINE n == Len(ctx.order)
  <2>1. ctx.order \in Seq(Step) /\ n \in Nat /\ DOMAIN ctx.order = 1..n
    BY DEF BInv, RInv, TInv, Context
  <2>2. /\ DOMAIN ctx'.order = 1..(n + 1) /\ ctx'.order[n + 1] = s
        /\ \A i \in 1..n : ctx'.order[i] = ctx.order[i]
    BY <1>2, <2>1
  <2>3. \A i \in 1..n : ctx.order[i] \in Succeeded /\ Needs[ctx.order[i]] \subseteq Succeeded
    BY <2>1 DEF BInv, RInv, DInv, LogOK, Succeeded, Range
  <2> HIDE DEF n
  <2>4. ASSUME NEW i \in 1..(n + 1), NEW k \in 1..(n + 1),
               ctx'.order[k] \in Needs[ctx'.order[i]]
        PROVE  k < i
    <3>1. CASE k = n + 1
      BY <1>2, <2>1, <2>2, <2>3, <2>4, <3>1
    <3>2. CASE k # n + 1 /\ i = n + 1
      BY <2>1, <3>2
    <3>3. CASE k # n + 1 /\ i # n + 1
      <4>1. i \in 1..n /\ k \in 1..n
        BY <2>1, <3>3
      <4> QED
        BY <2>1, <2>2, <2>4, <4>1 DEF InOrder
    <3> QED
      BY <3>1, <3>2, <3>3
  <2> QED
    BY <2>2, <2>4 DEF InOrder
<1> QED
  BY <1>1, <1>2, OrderGrows

\* The steps of a run complete in the order of the graph, whichever workers die, stall or
\* overtake each other (replay.ready_steps, apply_event): every completion in the log
\* comes after those of all the steps it needs.
THEOREM CompletesInOrder == Spec => []InOrder
<1>1. Init => BInv /\ InOrder
  <2> SUFFICES ASSUME Init PROVE BInv /\ InOrder
    OBVIOUS
  <2>1. ctx.order = <<>>
    BY DEF Init, NewContext
  <2> QED
    BY <2>1, BInit DEF InOrder
<1>2. BInv /\ InOrder /\ [Next]_vars => BInv' /\ InOrder'
  BY BNext, InOrderNext
<1> QED
  BY <1>1, <1>2, PTL DEF Spec

\* What is next to be undone is needed by nothing that is still to be undone.
NeededNoMore ==
    \A x, y \in Step :
        x \in Needs[y] /\ y \in Succeeded \cap Compensable /\ Current(x) => Settled(y)

LEMMA CurrentIsLast == BInv /\ InOrder => NeededNoMore
<1> SUFFICES ASSUME BInv, InOrder, NEW x \in Step, Current(x), NEW y \in Step, x \in Needs[y],
                    y \in Succeeded, y \in Compensable, ~Settled(y)
             PROVE  FALSE
  BY DEF NeededNoMore
<1>1. ctx \in Context /\ DOMAIN ctx.order = 1..Len(ctx.order) /\ Len(ctx.order) \in Nat
  BY DEF BInv, RInv, TInv, Context
<1>2. PICK m \in ToRollBack(ctx) : ctx.order[m] = x /\ \A i \in ToRollBack(ctx) : i <= m
  BY <1>1, CompensationHead DEF Current
<1>3. PICK i \in DOMAIN ctx.order : ctx.order[i] = y
  BY DEF Succeeded, Range
<1>4. i \in ToRollBack(ctx) /\ m \in DOMAIN ctx.order
  BY <1>3 DEF ToRollBack, Settled
<1>5. m < i
  BY <1>2, <1>3, <1>4 DEF InOrder
<1> QED
  BY <1>1, <1>2, <1>4, <1>5

LEMMA SettledForGood ==
    ASSUME BInv, [Next]_vars, NEW x \in Step, ~Rowless(Undo(x)), NEW s \in Step, Settled(s)
    PROVE  Settled(s)'
<1>0. TInv /\ Backed
  BY DEF BInv, RInv, DInv
<1>1. ~StartRun
  BY DEF StartRun, BInv, PInv, Untouched, Rowless, Rows
<1>2. CASE Quiet
  BY <1>2 DEF Quiet, runVars, Settled
<1>3. ASSUME NEW type, NEW r, NEW c, Writes(type, r, c) PROVE Settled(s)'
  BY <1>0, <1>3, WrittenUndo DEF Settled
<1> QED
  BY <1>0, <1>1, <1>2, <1>3, EveryWriter

LEMMA DependentsNext ==
    ASSUME Known, Known', OInv, [Next]_vars, InOrder, DependentsFirst
    PROVE  InOrder' /\ DependentsFirst'
<1>0. BInv /\ BInv' /\ InOrder'
  BY InOrderNext DEF Known
<1>1. ASSUME NEW x \in Step, NEW y \in Step, x \in Needs[y], (y \in Succeeded)', y \in Compensable,
             ~Rowless(Undo(x))'
      PROVE  Settled(y)'
  <2>1. CASE Rowless(Undo(x))
    <3>1. Current(x)'
      BY <1>0, <1>1, <2>1, UndoQueued
    <3>2. BInv' /\ InOrder' => NeededNoMore'
      BY CurrentIsLast, PTL
    <3> QED
      BY <1>0, <1>1, <3>1, <3>2 DEF NeededNoMore
  <2>2. CASE ~Rowless(Undo(x))
    <3>1. ctx.compensating
      BY <1>0, <2>2 DEF BInv, UndoneAfterTurn
    <3>2. y \in Succeeded
      BY <1>1, <3>1, NoSuccessOnceBack
    <3>3. Settled(y)
      BY <1>1, <2>2, <3>2 DEF DependentsFirst
    <3> QED
      BY <1>0, <2>2, <3>3, SettledForGood
  <2> QED
    BY <2>1, <2>2
<1> QED
  BY <1>0, <1>1 DEF DependentsFirst

LEMMA DependentsInit ==
    ASSUME Init
    PROVE  InOrder /\ DependentsFirst
<1>1. ctx.order = <<>>
  BY DEF Init, NewContext
<1>2. \A x \in Step : Rowless(Undo(x))
  BY NothingHeldAtFirst
<1> QED
  BY <1>1, <1>2 DEF InOrder, DependentsFirst

\* A run among the systems that turns back undoes no step before what needed it: the undo
\* of a step is not even queued while one that was built on it is still to be undone
\* (replay.compensation_order, which reverses completions and never looks at the graph;
\* service.enqueue_next_compensation).
THEOREM DependentsUndoneFirst ==
    ASSUME TurnsAlone, "stall" \notin Faults
    PROVE  ProvisioningSpec => [](InOrder /\ DependentsFirst)
<1> DEFINE I == Known /\ TurnInv /\ InOrder /\ DependentsFirst
<1>1. ProvisioningInit => I
  BY KnownInit, TurnInit, DependentsInit DEF ProvisioningInit
<1>2. ASSUME I, [ProvisioningNext]_provisioningVars PROVE I'
  <2>1. [Next]_vars
    BY <1>2, WorldNext DEF Known, BInv, RInv
  <2>2. Known' /\ OInv
    BY <1>2, <2>1, KnownNext DEF TurnInv
  <2> QED
    BY <1>2, <2>1, <2>2, TurnNext, DependentsNext
<1>3. I => InOrder /\ DependentsFirst
  OBVIOUS
<1> HIDE DEF I
<1> QED
  BY <1>1, <1>2, <1>3, PTL DEF ProvisioningSpec

------------------------------------------------------------------------------
(* The seeded workflows.                                                   *)

\* The table of module Workflows, field by field.
LEMMA JoinerSteps ==
    ASSUME Workflow = NewJoiner
    PROVE  /\ Step = {"create_email_account", "order_laptop", "invite_to_slack",
                      "grant_github_access", "enrol_in_payroll", "email_the_manager"}
           /\ Needs["create_email_account"] = {}
           /\ Needs["order_laptop"] = {"create_email_account"}
           /\ Needs["invite_to_slack"] = {"create_email_account"}
           /\ Needs["grant_github_access"] = {"create_email_account"}
           /\ Needs["enrol_in_payroll"] =
                    {"order_laptop", "invite_to_slack", "grant_github_access"}
           /\ Needs["email_the_manager"] = {"enrol_in_payroll"}
           /\ \A s \in Step : OnError[s] = "compensate" <=> s = "enrol_in_payroll"
           /\ Workflow["create_email_account"].call = "google/create-account"
           /\ Workflow["create_email_account"].undo = "google/delete-account"
           /\ Workflow["order_laptop"].call = "it/order-laptop"
           /\ Workflow["order_laptop"].undo = "it/cancel-laptop"
           /\ Workflow["invite_to_slack"].call = "slack/invite"
           /\ Workflow["invite_to_slack"].undo = "slack/deactivate"
           /\ Workflow["grant_github_access"].call = "github/add-member"
           /\ Workflow["grant_github_access"].undo = "github/remove-member"
           /\ Workflow["enrol_in_payroll"].call = "payroll/enrol"
           /\ Workflow["enrol_in_payroll"].undo = NoRoute
           /\ Workflow["email_the_manager"].call = NoRoute
           /\ Workflow["email_the_manager"].undo = NoRoute
<1>1. /\ \A needs, route :
            /\ HttpStep(needs, route).needs = needs
            /\ HttpStep(needs, route).call = route
            /\ HttpStep(needs, route).undo = NoRoute
            /\ HttpStep(needs, route).onError = "fail"
            /\ HttpStep(needs, route) = [needs |-> needs, call |-> route, undo |-> NoRoute,
                                        tries |-> 1, onError |-> "fail"]
  BY DEF HttpStep
<1>2. /\ \A needs, route, undo :
            /\ Undoable(needs, route, undo).needs = needs
            /\ Undoable(needs, route, undo).call = route
            /\ Undoable(needs, route, undo).undo = undo
            /\ Undoable(needs, route, undo).onError = "fail"
            /\ Undoable(needs, route, undo) = [needs |-> needs, call |-> route, undo |-> undo,
                                              tries |-> 1, onError |-> "fail"]
  BY DEF HttpStep, Undoable
<1>3. /\ Step = DOMAIN NewJoiner
      /\ \A s \in Step : Needs[s] = NewJoiner[s].needs /\ OnError[s] = NewJoiner[s].onError
  BY WorkflowAssumption
<1>4. DOMAIN NewJoiner = {"create_email_account", "order_laptop", "invite_to_slack",
                      "grant_github_access", "enrol_in_payroll", "email_the_manager"}
  BY DEF NewJoiner
<1>5. /\ NewJoiner["order_laptop"] =
            Undoable({"create_email_account"}, "it/order-laptop", "it/cancel-laptop")
      /\ NewJoiner["invite_to_slack"] =
            Undoable({"create_email_account"}, "slack/invite", "slack/deactivate")
      /\ NewJoiner["grant_github_access"] =
            Undoable({"create_email_account"}, "github/add-member", "github/remove-member")
      /\ NewJoiner["email_the_manager"] = HttpStep({"enrol_in_payroll"}, NoRoute)
  BY DEF NewJoiner
<1>6. /\ NewJoiner["create_email_account"].needs = {}
      /\ NewJoiner["create_email_account"].call = "google/create-account"
      /\ NewJoiner["create_email_account"].undo = "google/delete-account"
      /\ NewJoiner["create_email_account"].onError = "fail"
  <2>1. NewJoiner["create_email_account"] =
            [Undoable({}, "google/create-account", "google/delete-account") EXCEPT !.tries = 3]
    BY DEF NewJoiner
  <2> QED
    BY <1>2, <2>1
<1>7. /\ NewJoiner["enrol_in_payroll"].needs =
                    {"order_laptop", "invite_to_slack", "grant_github_access"}
      /\ NewJoiner["enrol_in_payroll"].call = "payroll/enrol"
      /\ NewJoiner["enrol_in_payroll"].undo = NoRoute
      /\ NewJoiner["enrol_in_payroll"].onError = "compensate"
  <2>1. NewJoiner["enrol_in_payroll"] =
            [HttpStep({"order_laptop", "invite_to_slack", "grant_github_access"},
                      "payroll/enrol") EXCEPT !.onError = "compensate"]
    BY DEF NewJoiner
  <2> QED
    BY <1>1, <2>1
<1> QED
  BY <1>1, <1>2, <1>3, <1>4, <1>5, <1>6, <1>7

\* A hire is about a person, and what operators do besides is not about the company.
AboutAPerson ==
    /\ Target \in Person
    /\ Sabotage \subseteq {request1 \in Served : request1.route \notin CompanyRoute}

LEMMA JoinerHires ==
    ASSUME Workflow = NewJoiner, AboutAPerson
    PROVE  Hires
<1>1. /\ Enrols("email_accounts", "google/create-account")
      /\ Leaves("email_accounts", "google/delete-account")
      /\ Enrols("laptop_orders", "it/order-laptop")
      /\ Leaves("laptop_orders", "it/cancel-laptop")
      /\ Enrols("slack_members", "slack/invite")
      /\ Leaves("slack_members", "slack/deactivate")
      /\ Enrols("github_members", "github/add-member")
      /\ Leaves("github_members", "github/remove-member")
      /\ Enrols("payroll_enrolled", "payroll/enrol")
  BY DEF Enrols, Leaves, Provides, Withdraws
<1>2. ASSUME NEW s \in Step
      PROVE  /\ Workflow[s].call # NoRoute =>
                    \E store \in Store : Enrols(store, Workflow[s].call)
             /\ Workflow[s].undo # NoRoute =>
                    \E store \in Store : /\ Enrols(store, Workflow[s].call)
                                         /\ Leaves(store, Workflow[s].undo)
  BY <1>1, JoinerSteps, Stores
<1>3. ASSUME NEW s \in Step, NEW r \in Step,
             Workflow[s].call = Workflow[r].call, Workflow[s].call # NoRoute
      PROVE  s = r
  BY <1>3, JoinerSteps
<1> QED
  BY <1>2, <1>3 DEF Hires, AboutAPerson

LEMMA JoinerTurnsAlone ==
    ASSUME Workflow = NewJoiner
    PROVE  TurnsAlone
<1> DEFINE x == "enrol_in_payroll"
<1>1. ASSUME NEW S \in SUBSET Step, Leads(S), Needs[x] \subseteq S
      PROVE  {"create_email_account", "order_laptop", "invite_to_slack",
              "grant_github_access"} \subseteq S
  BY <1>1, JoinerSteps DEF Leads
<1>2. \A y \in Step \ {x} : y # "email_the_manager" => Comes(y, x)
  BY <1>1, JoinerSteps DEF Comes
<1>3. Comes(x, "email_the_manager")
  BY JoinerSteps DEF Comes
<1>4. Alone(x)
  BY <1>2, <1>3 DEF Alone
<1> QED
  BY <1>4, JoinerSteps, EachIsWork DEF TurnsAlone

LEMMA UpgradeSteps ==
    ASSUME Workflow = RollingUpgrade
    PROVE  /\ Step = {"preflight", "drain", "upgrade", "verify", "return_to_service"}
           /\ Needs["drain"] = {"preflight"}
           /\ Needs["upgrade"] = {"drain"}
           /\ Needs["verify"] = {"upgrade"}
           /\ Needs["return_to_service"] = {"verify"}
           /\ \A s \in Step : OnError[s] = "compensate" <=> s = "verify"
<1>1. \A needs, route :
            /\ HttpStep(needs, route).needs = needs
            /\ HttpStep(needs, route).onError = "fail"
            /\ HttpStep(needs, route) = [needs |-> needs, call |-> route, undo |-> NoRoute,
                                        tries |-> 1, onError |-> "fail"]
  BY DEF HttpStep
<1>2. \A needs, route, undo :
            /\ Undoable(needs, route, undo).needs = needs
            /\ Undoable(needs, route, undo).onError = "fail"
  BY DEF HttpStep, Undoable
<1>3. /\ Step = DOMAIN RollingUpgrade
      /\ \A s \in Step : /\ Needs[s] = RollingUpgrade[s].needs
                          /\ OnError[s] = RollingUpgrade[s].onError
  BY WorkflowAssumption
<1>4. DOMAIN RollingUpgrade = {"preflight", "drain", "upgrade", "verify", "return_to_service"}
  BY DEF RollingUpgrade
<1>5. /\ RollingUpgrade["drain"] = Undoable({"preflight"}, "drain", "undrain")
      /\ RollingUpgrade["upgrade"] = Undoable({"drain"}, "upgrade", "rollback")
      /\ RollingUpgrade["return_to_service"] = HttpStep({"verify"}, "undrain")
  BY DEF RollingUpgrade
<1>6. RollingUpgrade["preflight"].onError = "fail"
  <2>1. RollingUpgrade["preflight"] = [HttpStep({}, "health") EXCEPT !.tries = 3]
    BY DEF RollingUpgrade
  <2> QED
    BY <1>1, <2>1
<1>7. RollingUpgrade["verify"].needs = {"upgrade"} /\ RollingUpgrade["verify"].onError = "compensate"
  <2>1. RollingUpgrade["verify"] = [HttpStep({"upgrade"}, "health") EXCEPT !.onError = "compensate"]
    BY DEF RollingUpgrade
  <2> QED
    BY <1>1, <2>1
<1> QED
  BY <1>1, <1>2, <1>3, <1>4, <1>5, <1>6, <1>7

LEMMA UpgradeTurnsAlone ==
    ASSUME Workflow = RollingUpgrade
    PROVE  TurnsAlone
<1>1. ASSUME NEW S \in SUBSET Step, Leads(S), Needs["verify"] \subseteq S
      PROVE  {"preflight", "drain", "upgrade"} \subseteq S
  BY <1>1, UpgradeSteps DEF Leads
<1>2. \A y \in Step \ {"verify"} : y # "return_to_service" => Comes(y, "verify")
  BY <1>1, UpgradeSteps DEF Comes
<1>3. Comes("verify", "return_to_service")
  BY UpgradeSteps DEF Comes
<1>4. Alone("verify")
  BY <1>2, <1>3 DEF Alone
<1> QED
  BY <1>4, UpgradeSteps, EachIsWork DEF TurnsAlone

\* A run of either of the seeded workflows keeps the promise of a saga, undoes one step
\* at a time, and stays as it has ended (seed_demo.py, seed_joiner.py): the step that
\* turns it back is never at work beside another one.
THEOREM SeededKeepPromise ==
    ASSUME Workflow \in {NewJoiner, RollingUpgrade}, Faults \cap {"stall", "slow reaper"} = {}
    PROVE  ProvisioningSpec =>
                ImplementsSaga /\ EndIsFinal /\ [](SequentialUnwind /\ SingleCustody)
BY JoinerTurnsAlone, UpgradeTurnsAlone, KeepsPromiseInTheWorld

\* What is left of a hire that payroll refused once the run has ended: systems the
\* person could not be taken out of, of which the log says so, and perhaps the payroll,
\* if it never got to say that it had enrolled the person.
NobodyHalfHired ==
    ctx.compensating /\ ctx.status \in TerminalRunStates =>
        \A s \in Step : InEffect(s) =>
            \/ ctx.steps[s].compensationFailed
            \/ s = "enrol_in_payroll" /\ ~TakenAtItsWord(s)

\* The seeded onboarding "turns a half-onboarded person into no person at all"
\* (seed_joiner.py): a run of it that turns back leaves the person in no system, unless
\* the log says that one could not be undone, or a worker died or an answer got lost
\* over the request to payroll, which has no compensate block.
THEOREM HalfHiredIsNobody ==
    ASSUME Workflow = NewJoiner, AboutAPerson, "stall" \notin Faults
    PROVE  ProvisioningSpec => [](LogTellsTruth /\ NobodyHalfHired)
<1>1. Hires /\ TurnsAlone
  BY JoinerHires, JoinerTurnsAlone
<1>2. ProvisioningInit => Known /\ TruthInv /\ TurnInv
  BY <1>1, KnownInit, TruthInit, TurnInit DEF ProvisioningInit
<1>3. ASSUME Known, TruthInv, TurnInv, [ProvisioningNext]_provisioningVars
      PROVE  Known' /\ TruthInv' /\ TurnInv'
  <2>1. Known' /\ TruthInv'
    BY <1>1, <1>3, TruthNext
  <2>2. [Next]_vars
    BY <1>3, WorldNext DEF Known, BInv, RInv
  <2> QED
    BY <1>1, <1>3, <2>1, <2>2, TurnNext
<1>4. ASSUME Known, TruthInv, TurnInv PROVE NobodyHalfHired
  <2>1. SUFFICES ASSUME ctx.compensating, ctx.status \in TerminalRunStates,
                      NEW s \in Step, InEffect(s)
               PROVE  \/ ctx.steps[s].compensationFailed
                      \/ s = "enrol_in_payroll" /\ ~TakenAtItsWord(s)
    BY <2>1, Zenon DEF NobodyHalfHired
  <2>2. IF s \in Succeeded THEN s \notin Compensable \/ ctx.steps[s].compensationFailed
        ELSE ~TakenAtItsWord(s)
    BY <1>4, <2>1, NothingLeft, Zenon DEF NothingLeftOver
  <2>3. /\ HasRow("enrol_in_payroll") /\ "enrol_in_payroll" \in Step
        /\ "enrol_in_payroll" \notin Succeeded
    BY <1>4, <2>1, JoinerSteps DEF TurnInv, TurnHasCause, Turner
  <2>4. CASE s = "enrol_in_payroll"
    BY <2>2, <2>3, <2>4, Zenon
  <2>5. CASE s = "email_the_manager"
    BY <2>1, <2>5, JoinerSteps, NoEffect
  <2>6. CASE s \notin {"enrol_in_payroll", "email_the_manager"}
    <3>1. Comes(s, "enrol_in_payroll")
      <4>1. ASSUME NEW S \in SUBSET Step, Leads(S), Needs["enrol_in_payroll"] \subseteq S
            PROVE  s \in S
        BY <2>6, <4>1, JoinerSteps DEF Leads
      <4> QED
        BY <4>1 DEF Comes
    <3>2. s \in Succeeded
      BY <1>4, <2>3, <3>1, RunSequenced DEF Known, BInv, Sequenced
    <3>3. s \in Compensable
      BY <2>6, JoinerSteps, WorkflowAssumption DEF NoRoute
    <3> QED
      BY <2>2, <3>2, <3>3, Zenon
  <2> QED
    BY <2>4, <2>5, <2>6, Zenon
<1>5. Known /\ TruthInv => LogTellsTruth
  BY TruthTold
<1> QED
  BY <1>2, <1>3, <1>4, <1>5, PTL DEF ProvisioningSpec
------------------------------------------------------------------------------
(* The upgrade of a node.                                                  *)

\* The node the run is about.
Aim == systems.nodes[Target]

\* An upgrade is about a node, and operators break nodes that were upgraded, no more.
AboutANode ==
    /\ Target \in Node
    /\ Sabotage \subseteq {Request("fail_after_upgrade", n) : n \in Node}

\* A request for the slot has been applied.
Applied(slot) == \E asked, attempt : <<asked, <<slot, attempt>>>> \in systems.seen

LEMMA NodeChanges ==
    ASSUME NEW node \in NodeState, NEW route \in NodeRoute
    PROVE  /\ NodeAfter(route, node).drained =
                (route = "drain" \/ (route # "undrain" /\ node.drained))
           /\ route = "upgrade" => /\ NodeAfter(route, node).version = "7.1"
                                   /\ NodeAfter(route, node).previous = node.version
           /\ route = "rollback" =>
                /\ NodeAfter(route, node).version =
                        IF node.previous # NoVersion THEN node.previous ELSE node.version
                /\ NodeAfter(route, node).previous = NoVersion
           /\ route \notin {"upgrade", "rollback"} =>
                /\ NodeAfter(route, node).version = node.version
                /\ NodeAfter(route, node).previous = node.previous
<1>1. /\ NodeAfter("drain", node) = [node EXCEPT !.drained = TRUE]
      /\ NodeAfter("undrain", node) = [node EXCEPT !.drained = FALSE]
      /\ NodeAfter("fail_after_upgrade", node) = [node EXCEPT !.armed = TRUE]
      /\ NodeAfter("upgrade", node) = Upgraded(node)
      /\ NodeAfter("rollback", node) = RolledBack(node)
  BY DEF NodeAfter
<1>2. CASE route \in {"drain", "undrain", "fail_after_upgrade"}
  <2>1. PICK value \in BOOLEAN : NodeAfter(route, node) \in
            {[node EXCEPT !.drained = value], [node EXCEPT !.armed = value]}
    BY <1>1, <1>2
  <2>2. /\ NodeAfter(route, node).version = node.version
        /\ NodeAfter(route, node).previous = node.previous
    BY <2>1 DEF NodeState
  <2>3. /\ [node EXCEPT !.drained = TRUE].drained
        /\ ~[node EXCEPT !.drained = FALSE].drained
        /\ [node EXCEPT !.armed = TRUE].drained = node.drained
        /\ node.drained \in BOOLEAN
    BY DEF NodeState
  <2> QED
    BY <1>1, <1>2, <2>2, <2>3
<1>3. CASE route = "upgrade"
  <2>1. /\ Upgraded(node).version = "7.1" /\ Upgraded(node).previous = node.version
        /\ Upgraded(node).drained = node.drained /\ node.drained \in BOOLEAN
    BY DEF NodeState, Upgraded
  <2> QED
    BY <1>1, <1>3, <2>1
<1>4. CASE route = "rollback"
  <2>1. node.drained \in BOOLEAN
    BY DEF NodeState
  <2> QED
    BY <1>1, <1>4, <2>1, RolledBackNode
<1> QED
  BY <1>2, <1>3, <1>4 DEF NodeRoute

LEMMA Handlers ==
    ASSUME NEW sys, NEW asked, NEW key
    PROVE  /\ asked.route = "health" => Handle(sys, asked, key) = Health(sys, asked.target)
           /\ asked.route \in NodeRoute => Handle(sys, asked, key) = ChangeNode(sys, asked, key)
<1>0. asked.route \in NodeRoute \cup {"health"} => asked.route \notin CompanyRoute
  BY Routes
<1>1. ASSUME asked.route = "health" PROVE Handle(sys, asked, key) = Health(sys, asked.target)
  BY <1>0, <1>1 DEF Handle, NodeRoute
<1>2. ASSUME asked.route \in NodeRoute PROVE Handle(sys, asked, key) = ChangeNode(sys, asked, key)
  BY <1>0, <1>2 DEF Handle, NodeRoute
<1> QED
  BY <1>1, <1>2

\* A request to a node: a duplicate changes nothing, and another one the node.
NodeAnswered(sys, route, n, key, other) ==
    LET answer == Handle(sys, Request(route, n), key)
    IN  /\ SystemsOK(answer.systems)
        /\ \/ /\ answer.systems = sys
              /\ key # NoKey /\ <<Request(route, n), key>> \in sys.seen
           \/ /\ answer.systems.nodes[n] = NodeAfter(route, sys.nodes[n])
              /\ other # n => answer.systems.nodes[other] = sys.nodes[other]
              /\ answer.systems.seen \subseteq sys.seen \cup {<<Request(route, n), key>>}
              /\ key = NoKey => answer.systems.seen = sys.seen

LEMMA NodeAnswers ==
    ASSUME NEW sys, SystemsOK(sys), NEW route \in NodeRoute, NEW n \in Node, NEW key,
           NEW other \in Node
    PROVE  NodeAnswered(sys, route, n, key, other)
<1> DEFINE asked == Request(route, n)
           answer == Handle(sys, asked, key)
           node == NodeAfter(route, sys.nodes[n])
           nodes == [sys.nodes EXCEPT ![n] = node]
           seen == IF key = NoKey THEN sys.seen ELSE sys.seen \cup {<<asked, key>>}
<1>1. asked.route = route /\ asked.target = n /\ asked = [route |-> route, target |-> n]
  BY DEF Request
<1>2. asked \in Served /\ asked.route \notin CompanyRoute
  BY <1>1, Routes DEF Served
<1>3. SystemsOK(answer.systems)
  BY <1>2, Elsewhere
<1>4. answer = ChangeNode(sys, asked, key)
  BY <1>1, Handlers
<1>5. CASE Duplicate(sys, asked, key)
  <2>1. answer = Answer(sys, 200)
    BY <1>4, <1>5 DEF ChangeNode
  <2> HIDE DEF answer
  <2>2. answer.systems = sys
    BY <2>1 DEF Answer
  <2> QED
    BY <1>3, <1>5, <2>2 DEF answer, asked, Duplicate, NodeAnswered
<1>6. CASE ~Duplicate(sys, asked, key)
  <2> HIDE DEF node, asked
  <2>1. answer.systems = [sys EXCEPT !.nodes[n] = node, !.seen = seen]
    BY <1>1, <1>4, <1>6 DEF ChangeNode, Answer, node
  <2>2. answer.systems = [nodes |-> nodes, company |-> sys.company,
                          rejects |-> sys.rejects, seen |-> seen]
    BY <2>1, Changed DEF SystemsOK
  <2> HIDE DEF answer
  <2>3. answer.systems.nodes = nodes /\ answer.systems.seen = seen
    BY <2>2
  <2>4. nodes[n] = node /\ (other # n => nodes[other] = sys.nodes[other])
    BY DEF SystemsOK
  <2> QED
    BY <1>3, <2>3, <2>4 DEF answer, asked, node, NodeAnswered
<1> QED
  BY <1>5, <1>6

\* A question about its health changes nothing but that.
LEMMA HealthAnswers ==
    ASSUME NEW sys, SystemsOK(sys), NEW n \in Node, NEW key
    PROVE  LET answer == Handle(sys, Request("health", n), key)
           IN  /\ SystemsOK(answer.systems)
               /\ answer.systems.seen = sys.seen
               /\ answer.systems.nodes[n].drained = sys.nodes[n].drained
               /\ answer.systems.nodes[n].version = sys.nodes[n].version
               /\ answer.systems.nodes[n].previous = sys.nodes[n].previous
<1> DEFINE asked == Request("health", n)
           answer == Handle(sys, asked, key)
           node == sys.nodes[n]
           fine == node.healthy /\ ~(node.armed /\ node.previous # NoVersion)
           later == [node EXCEPT !.healthy = fine]
           nodes == [sys.nodes EXCEPT ![n] = later]
<1>1. asked.route = "health" /\ asked.target = n /\ asked = [route |-> "health", target |-> n]
  BY DEF Request
<1>2. asked \in Served /\ asked.route \notin CompanyRoute
  BY <1>1, Routes DEF Served
<1>3. SystemsOK(answer.systems)
  BY <1>2, Elsewhere
<1>4. answer = Health(sys, n)
  BY <1>1, Handlers
<1>5. node \in NodeState /\ fine \in BOOLEAN
  BY DEF SystemsOK, NodeState
<1> HIDE DEF asked, fine, answer
<1>6. answer.systems = [sys EXCEPT !.nodes[n].healthy = fine]
  BY <1>4 DEF Health, Answer, fine
<1>7. answer.systems = [sys EXCEPT !.nodes = nodes]
  BY <1>6
<1>8. answer.systems = [nodes |-> nodes, company |-> sys.company,
                        rejects |-> sys.rejects, seen |-> sys.seen]
  <2> HIDE DEF nodes
  <2> QED
    BY <1>7, Changed DEF SystemsOK
<1>9. answer.systems.nodes[n] = later /\ answer.systems.seen = sys.seen
  BY <1>8 DEF SystemsOK
<1>10. later.drained = node.drained /\ later.version = node.version
       /\ later.previous = node.previous
  BY <1>5 DEF NodeState
<1> QED
  BY <1>3, <1>9, <1>10 DEF asked, answer

\* The requests an upgrade makes, but the questions for the health of the node.
LEMMA UpgradeRequests ==
    ASSUME Workflow = RollingUpgrade
    PROVE  /\ Workflow["preflight"].call = "health" /\ Workflow["verify"].call = "health"
           /\ Workflow["drain"].call = "drain" /\ Workflow["drain"].undo = "undrain"
           /\ Workflow["upgrade"].call = "upgrade" /\ Workflow["upgrade"].undo = "rollback"
           /\ Workflow["return_to_service"].call = "undrain"
           /\ \A s \in {"preflight", "verify", "return_to_service"} : Workflow[s].undo = NoRoute
<1>1. \A needs, route : HttpStep(needs, route) =
            [needs |-> needs, call |-> route, undo |-> NoRoute, tries |-> 1, onError |-> "fail"]
  BY DEF HttpStep
<1>2. \A needs, route, undo : /\ Undoable(needs, route, undo).call = route
                              /\ Undoable(needs, route, undo).undo = undo
  BY <1>1 DEF Undoable
<1>3. /\ RollingUpgrade["drain"] = Undoable({"preflight"}, "drain", "undrain")
      /\ RollingUpgrade["upgrade"] = Undoable({"drain"}, "upgrade", "rollback")
      /\ RollingUpgrade["return_to_service"] = HttpStep({"verify"}, "undrain")
      /\ RollingUpgrade["preflight"] = [HttpStep({}, "health") EXCEPT !.tries = 3]
      /\ RollingUpgrade["verify"] = [HttpStep({"upgrade"}, "health") EXCEPT !.onError = "compensate"]
  BY DEF RollingUpgrade
<1>4. /\ RollingUpgrade["preflight"].call = "health" /\ RollingUpgrade["preflight"].undo = NoRoute
      /\ RollingUpgrade["verify"].call = "health" /\ RollingUpgrade["verify"].undo = NoRoute
      /\ RollingUpgrade["return_to_service"].call = "undrain"
      /\ RollingUpgrade["return_to_service"].undo = NoRoute
  BY <1>1, <1>3
<1>5. /\ Workflow["drain"] = Undoable({"preflight"}, "drain", "undrain")
      /\ Workflow["upgrade"] = Undoable({"drain"}, "upgrade", "rollback")
      /\ \A s : Workflow[s] = RollingUpgrade[s]
  BY <1>3
<1>6. /\ Workflow["drain"].call = "drain" /\ Workflow["drain"].undo = "undrain"
      /\ Workflow["upgrade"].call = "upgrade" /\ Workflow["upgrade"].undo = "rollback"
  BY <1>2, <1>5
<1> QED
  BY <1>4, <1>5, <1>6

NodeSlots == {Do("drain"), Undo("drain"), Do("upgrade"), Undo("upgrade"),
                Do("return_to_service")}

LEMMA SlotRoutes ==
    ASSUME Workflow = RollingUpgrade, NEW slot \in Slot
    PROVE  /\ RouteOf(Do("drain")) = "drain" /\ RouteOf(Undo("drain")) = "undrain"
           /\ RouteOf(Do("upgrade")) = "upgrade" /\ RouteOf(Undo("upgrade")) = "rollback"
           /\ RouteOf(Do("return_to_service")) = "undrain"
           /\ slot \notin NodeSlots => RouteOf(slot) \in {"health", NoRoute}
           /\ slot \in NodeSlots => RouteOf(slot) \in NodeRoute
<1>1. PICK s \in Step : slot = Do(s) \/ slot = Undo(s)
  BY SlotIsDoOrUndo
<1>2. \A r : /\ RouteOf(Do(r)) = Workflow[r].call
             /\ RouteOf(Undo(r)) = Workflow[r].undo
  BY DEF RouteOf, Do, Undo
<1>3. s \in {"preflight", "drain", "upgrade", "verify", "return_to_service"}
  BY UpgradeSteps
<1>4. slot \notin NodeSlots => RouteOf(slot) \in {"health", NoRoute}
  BY <1>1, <1>2, <1>3, UpgradeRequests DEF NodeSlots
<1> QED
  BY <1>2, <1>4, UpgradeRequests DEF NodeSlots, NodeRoute

\* An answer from the system of a step that does not arrive.
Lossy(slot) == "lost answer" \in Trouble[slot]

\* The node is in the same version and in or out of service as it was.
SameAim ==
    /\ Aim'.drained = Aim.drained
    /\ Aim'.version = Aim.version /\ Aim'.previous = Aim.previous

\* What a call does to the node: what its route does, or nothing, if it was a
\* question, was not delivered, or had been carried out under that key before.
LEMMA NodeCall ==
    ASSUME Workflow = RollingUpgrade, AboutANode, SystemsOK(systems), TInv,
           NEW w \in Worker, Call(w), NEW slot, worker[w].slot = slot
    PROVE  /\ slot \in Slot
           /\ SystemsOK(systems)'
           /\ \A x : Applied(x)' => Applied(x) \/ x = slot
           /\ \/ /\ slot \in NodeSlots
                 /\ Aim' = NodeAfter(RouteOf(slot), Aim)
                 /\ Told(w, slot)' \/ Lossy(slot)
              \/ /\ SameAim
                 /\ Applied(slot)' => Applied(slot)
                 /\ slot \in NodeSlots /\ Told(w, slot)' => Applied(slot)
<1> DEFINE route == RouteOf(slot)
           answer == Handle(systems, Request(route, Target), KeyOf(w))
<1>1. slot \in Slot /\ worker \in [Worker -> Memory] /\ Target \in Node
  BY CallIsExecute DEF TInv, MemoryOK, AboutANode
<1>2. /\ slot \notin NodeSlots => route \in {"health", NoRoute}
      /\ slot \in NodeSlots => route \in NodeRoute
  BY <1>1, SlotRoutes
<1>3. KeyOf(w) = <<slot, worker[w].attempt>>
  BY DEF KeyOf
<1>4. ASSUME NEW ok \in BOOLEAN, CallReturns(w, ok) PROVE Told(w, slot)' <=> ok
  BY <1>1, <1>4 DEF CallReturns, Told, Memory
<1>5. ASSUME UNCHANGED systems
      PROVE  /\ SystemsOK(systems)'
             /\ \A x : Applied(x)' => Applied(x)
             /\ SameAim
  BY <1>5 DEF SystemsOK, Aim, Applied, SameAim
<1>6. CASE CallNothing(w)
  <2>1. route = NoRoute /\ UNCHANGED systems
    BY <1>6 DEF CallNothing
  <2>2. slot \notin NodeSlots
    BY <1>2, <2>1 DEF NodeRoute, NoRoute
  <2> QED
    BY <1>1, <1>5, <2>1, <2>2
<1>7. CASE CallSystem(w)
  <2>1. /\ route # NoRoute
        /\ \/ CallReturns(w, CarriedOut(answer)) /\ systems' = answer.systems
           \/ Lossy(slot) /\ CallReturns(w, FALSE) /\ systems' = answer.systems
           \/ CallReturns(w, FALSE) /\ UNCHANGED systems
    BY <1>7, Zenon DEF CallSystem, Lossy
  <2>2. CASE CallReturns(w, FALSE) /\ UNCHANGED systems
    <3>1. ~Told(w, slot)'
      BY <1>4, <2>2
    <3> QED
      BY <1>1, <1>5, <2>2, <3>1
  <2>3. CASE route = "health" /\ systems' = answer.systems
    <3>1. slot \notin NodeSlots
      BY <1>2, <2>3 DEF NodeRoute
    <3>2. /\ SystemsOK(answer.systems)
          /\ answer.systems.seen = systems.seen
          /\ answer.systems.nodes[Target].drained = systems.nodes[Target].drained
          /\ answer.systems.nodes[Target].version = systems.nodes[Target].version
          /\ answer.systems.nodes[Target].previous = systems.nodes[Target].previous
      BY <1>1, <2>3, HealthAnswers
    <3> HIDE DEF answer
    <3>3. SystemsOK(systems)' /\ \A x : Applied(x)' <=> Applied(x)
      BY <2>3, <3>2 DEF SystemsOK, Applied
    <3>4. SameAim
      BY <2>3, <3>2 DEF Aim, SameAim
    <3> QED
      BY <1>1, <3>1, <3>3, <3>4
  <2>4. CASE /\ route \in NodeRoute /\ systems' = answer.systems
             /\ CallReturns(w, CarriedOut(answer)) \/ Lossy(slot)
    <3> DEFINE asked == Request(route, Target)
    <3>1. slot \in NodeSlots
      BY <1>2, <2>1, <2>4 DEF NodeRoute
    <3>2. /\ SystemsOK(answer.systems)
          /\ \/ /\ answer.systems = systems
                /\ <<asked, KeyOf(w)>> \in systems.seen
             \/ /\ answer.systems.nodes[Target] = NodeAfter(route, systems.nodes[Target])
                /\ answer.systems.seen \subseteq systems.seen \cup {<<asked, KeyOf(w)>>}
      <4>1. route \in NodeRoute
        BY <2>4
      <4>2. NodeAnswered(systems, route, Target, KeyOf(w), Target)
        BY <1>1, <4>1, NodeAnswers
      <4> QED
        BY <4>2 DEF NodeAnswered
    <3>3. Told(w, slot)' \/ Lossy(slot)
      <4>1. answer.status = 200
        <5>1. asked.route = route
          BY DEF Request
        <5>2. answer = ChangeNode(systems, asked, KeyOf(w))
          BY <2>4, <5>1, Handlers
        <5> HIDE DEF answer
        <5> QED
          BY <5>2 DEF ChangeNode, Answer
      <4>2. CarriedOut(answer) = TRUE
        BY <4>1 DEF CarriedOut
      <4> QED
        BY <1>4, <2>4, <4>2
    <3> HIDE DEF answer, asked
    <3>4. SystemsOK(systems)'
      BY <2>4, <3>2 DEF SystemsOK
    <3>5. CASE answer.systems = systems /\ <<asked, KeyOf(w)>> \in systems.seen
      <4>1. Applied(slot) /\ UNCHANGED systems
        BY <1>3, <2>4, <3>5 DEF Applied
      <4> QED
        BY <1>1, <1>5, <4>1
    <3>6. CASE /\ answer.systems.nodes[Target] = NodeAfter(route, systems.nodes[Target])
               /\ answer.systems.seen \subseteq systems.seen \cup {<<asked, KeyOf(w)>>}
      <4>1. Aim' = NodeAfter(route, Aim) /\ (Told(w, slot)' \/ Lossy(slot))
        BY <2>4, <3>3, <3>6 DEF Aim
      <4>2. ASSUME NEW x, Applied(x)' PROVE Applied(x) \/ x = slot
        <5>1. PICK other, attempt : <<other, <<x, attempt>>>> \in systems'.seen
          BY <4>2 DEF Applied
        <5>2. \/ <<other, <<x, attempt>>>> \in systems.seen
              \/ <<other, <<x, attempt>>>> = <<asked, <<slot, worker[w].attempt>>>>
          BY <1>3, <2>4, <3>6, <5>1
        <5> QED
          BY <5>2 DEF Applied
      <4> QED
        BY <1>1, <3>1, <3>4, <4>1, <4>2
    <3> QED
      BY <3>2, <3>5, <3>6
  <2> QED
    BY <1>1, <1>2, <2>1, <2>2, <2>3, <2>4
<1> QED
  BY <1>6, <1>7 DEF Call

\* A request without a key is no duplicate, and nothing remembers it.
LEMMA KeylessAnswers ==
    ASSUME NEW sys, SystemsOK(sys), NEW route \in NodeRoute, NEW n \in Node,
           NEW other \in Node
    PROVE  LET after == Handle(sys, Request(route, n), NoKey).systems
           IN  /\ SystemsOK(after)
               /\ \/ after = sys
                  \/ /\ after.nodes[n] = NodeAfter(route, sys.nodes[n])
                     /\ other # n => after.nodes[other] = sys.nodes[other]
                     /\ after.seen = sys.seen
<1>1. NodeAnswered(sys, route, n, NoKey, other)
  BY NodeAnswers
<1> QED
  BY <1>1 DEF NodeAnswered

\* What an operator does to the node: the next question for its health will break it.
LEMMA NodeLeft ==
    ASSUME AboutANode, SystemsOK(systems), UNCHANGED systems \/ Interfere
    PROVE  SystemsOK(systems)' /\ SameAim /\ \A x : Applied(x)' <=> Applied(x)
<1>1. CASE UNCHANGED systems
  BY <1>1 DEF SystemsOK, Aim, Applied, SameAim
<1>2. CASE Interfere
  <2>1. PICK n \in Node :
            systems' = Handle(systems, Request("fail_after_upgrade", n), NoKey).systems
    BY <1>2 DEF Interfere, AboutANode
  <2> DEFINE answer == Handle(systems, Request("fail_after_upgrade", n), NoKey)
  <2>2. /\ SystemsOK(answer.systems)
        /\ \/ answer.systems = systems
           \/ /\ answer.systems.nodes[n] = NodeAfter("fail_after_upgrade", systems.nodes[n])
              /\ Target # n => answer.systems.nodes[Target] = systems.nodes[Target]
              /\ answer.systems.seen = systems.seen
    <3>1. "fail_after_upgrade" \in NodeRoute /\ Target \in Node
      BY DEF NodeRoute, AboutANode
    <3> QED
      BY <3>1, KeylessAnswers
  <2> HIDE DEF answer
  <2>3. systems' = answer.systems
    BY <2>1 DEF answer
  <2>4. SystemsOK(systems)' /\ \A x : Applied(x)' <=> Applied(x)
    BY <2>2, <2>3 DEF SystemsOK, Applied
  <2>5. SameAim
    <3>1. Target \in Node /\ systems.nodes[n] \in NodeState
      BY DEF AboutANode, SystemsOK
    <3>2. LET after == NodeAfter("fail_after_upgrade", systems.nodes[n])
          IN  /\ after.drained = systems.nodes[n].drained
              /\ after.version = systems.nodes[n].version
              /\ after.previous = systems.nodes[n].previous
      <4>1. NodeAfter("fail_after_upgrade", systems.nodes[n]) =
                [systems.nodes[n] EXCEPT !.armed = TRUE]
        BY DEF NodeAfter
      <4> QED
        BY <3>1, <4>1 DEF NodeState
    <3> QED
      BY <2>2, <2>3, <3>1, <3>2 DEF Aim, SameAim
  <2> QED
    BY <2>4, <2>5
<1> QED
  BY <1>1, <1>2

\* No two workers have one step in hand.
LEMMA OneAtWork ==
    ASSUME Known, NEW s \in Step, NEW v \in Worker, NEW w \in Worker,
           worker[v].pc # "idle", worker[v].slot = Do(s),
           worker[w].pc # "idle", worker[w].slot = Do(s)
    PROVE  v = w
<1>0. TInv /\ HInv /\ CInv
  BY DEF Known, BInv, RInv
<1>1. InOneHand(Do(s))
  BY <1>0, EachIsWork, AutomaticInOneHand
<1>2. \A u \in {v, w} : \/ u \in Closing(Do(s))
                        \/ hand[u] \in LiveRows(Do(s)) /\ Queue!OwnedBy(task[hand[u]], u)
  <2>1. \A u \in {v, w} : /\ worker[u].pc \in Recording => u \in Closing(Do(s))
                          /\ worker[u].pc \notin Recording => hand[u] \in LiveRows(Do(s))
    BY <1>0, BusyHolds
  <2>2. \A u \in {v, w} : worker[u].pc \notin Recording => Queue!OwnedBy(task[hand[u]], u)
    BY <1>0 DEF HInv, Holds, Rest
  <2> QED
    BY <2>1, <2>2
<1> QED
  BY <1>1, <1>2 DEF InOneHand, Queue!OwnedBy

\* A worker that is about to carry out a step is the first to do so, or nobody has
\* told the log about it.
LEMMA NotDoneYet ==
    ASSUME Known, NEW s \in Step, NEW w \in Worker, worker[w].pc = "executing",
           worker[w].slot = Do(s)
    PROVE  ~DoneOf(s) /\ ~GoneOf(s) /\ Rowless(Undo(s)) /\ ~Rowless(Do(s))
<1>1. s \notin Succeeded /\ Rowless(Undo(s)) /\ ~Settled(s) /\ ~Rowless(Do(s))
  BY BusyOn
<1>2. ASSUME NEW v \in Worker, Told(v, Undo(s)) PROVE FALSE
  BY <1>1, <1>2, BusyUndoing DEF Told
<1>3. ASSUME NEW v \in Worker, Told(v, Do(s)) PROVE FALSE
  BY <1>3, OneAtWork DEF Told
<1> QED
  BY <1>1, <1>2, <1>3 DEF DoneOf, GoneOf, Settled

\* Out of service until the drain is undone, or the end of the upgrade undoes it.
DrainHolds ==
    /\ Applied(Undo("drain")) \/ GoneOf("drain") => ~Aim.drained
    /\ /\ Applied(Do("drain")) \/ DoneOf("drain")
       /\ Rowless(Undo("drain")) /\ Rowless(Do("return_to_service"))
       => Aim.drained

\* Upgraded by the step to upgrade it, and by nothing else.
UpgradeHolds ==
    /\ /\ Applied(Do("upgrade")) \/ DoneOf("upgrade")
       /\ Rowless(Undo("upgrade"))
       => Aim.version = "7.1"
    /\ Aim.version = "7.1" => ~Rowless(Do("upgrade"))

\* The version to go back to is kept: the node was upgraded once.
UpgradedOnce ==
    /\ Aim.previous # "7.1"
    /\ Aim.version = "7.1" => Aim.previous = "7.0" /\ DoneOf("upgrade")
    /\ Applied(Undo("upgrade")) \/ GoneOf("upgrade") => Aim.version = "7.0"

\* Everybody who was to hear of the upgrade has: nobody has died, no answer was lost.
UpgradeReported == crashes = 0 /\ ~Lossy(Do("upgrade"))

AppliedHasRow == \A slot \in Slot : Applied(slot) => ~Rowless(slot)

NodeInv ==
    /\ SystemsOK(systems)
    /\ crashes \in Nat
    /\ AppliedHasRow
    /\ DrainHolds
    /\ UpgradeHolds
    /\ UpgradeReported => UpgradedOnce

LEMMA AimTyped ==
    ASSUME AboutANode, SystemsOK(systems)
    PROVE  /\ Aim \in NodeState /\ Aim.version \in {"7.0", "7.1"}
           /\ Aim.previous \in {"7.0", "7.1", "none"} /\ Aim.drained \in BOOLEAN
BY DEF AboutANode, SystemsOK, Aim, NodeState, Version, NoVersion

\* A step of the run that is no call, or of an operator.
LEMMA NodeElsewise ==
    ASSUME Workflow = RollingUpgrade, AboutANode, Known, [Next]_vars, NodeInv,
           \/ (Elsewise \/ UNCHANGED vars) /\ crashes' = crashes
           \/ (\E w \in Worker : Crash(w)) /\ crashes' = crashes + 1,
           UNCHANGED systems \/ Interfere
    PROVE  NodeInv'
<1>0. RInv /\ BInv /\ TInv /\ SystemsOK(systems) /\ crashes \in Nat
      /\ {"drain", "upgrade", "return_to_service"} \subseteq Step
  BY UpgradeSteps DEF Known, BInv, RInv, NodeInv
<1>1. SystemsOK(systems)' /\ SameAim /\ \A x : Applied(x)' <=> Applied(x)
  BY <1>0, NodeLeft
<1>2. \A slot : Rowless(slot)' => Rowless(slot)
  BY <1>0, RowlessBefore
<1>3. \A s \in Step : (DoneOf(s)' => DoneOf(s)) /\ (GoneOf(s)' => GoneOf(s))
  BY <1>0, NothingDone
<1>4. AppliedHasRow'
  BY <1>1, <1>2 DEF NodeInv, AppliedHasRow
<1>5. /\ DoneOf("drain")' => DoneOf("drain")
      /\ GoneOf("drain")' => GoneOf("drain")
      /\ DoneOf("upgrade")' => DoneOf("upgrade")
      /\ GoneOf("upgrade")' => GoneOf("upgrade")
  BY <1>0, <1>3
<1>6. /\ Applied(Do("drain"))' <=> Applied(Do("drain"))
      /\ Applied(Undo("drain"))' <=> Applied(Undo("drain"))
      /\ Applied(Do("upgrade"))' <=> Applied(Do("upgrade"))
      /\ Applied(Undo("upgrade"))' <=> Applied(Undo("upgrade"))
  BY <1>1 DEF Do, Undo
<1>7. /\ Rowless(Undo("drain"))' => Rowless(Undo("drain"))
      /\ Rowless(Do("return_to_service"))' => Rowless(Do("return_to_service"))
      /\ Rowless(Do("upgrade"))' => Rowless(Do("upgrade"))
      /\ Rowless(Undo("upgrade"))' => Rowless(Undo("upgrade"))
  BY <1>2 DEF Do, Undo
<1>8. DrainHolds' /\ UpgradeHolds'
  BY <1>1, <1>5, <1>6, <1>7 DEF NodeInv, DrainHolds, UpgradeHolds, SameAim
<1>9. ASSUME UpgradeReported' PROVE UpgradedOnce'
  <2>1. crashes' = 0 /\ ~Lossy(Do("upgrade"))
    BY <1>9 DEF UpgradeReported, Lossy, Do
  <2>2. crashes = 0 /\ (Elsewise \/ UNCHANGED vars)
    BY <1>0, <2>1
  <2>3. UpgradedOnce
    BY <2>1, <2>2 DEF NodeInv, UpgradeReported
  <2>4. DoneOf("upgrade") => DoneOf("upgrade")'
    BY <1>0, <2>2, DoneStays
  <2> QED
    BY <1>1, <1>5, <1>6, <2>3, <2>4 DEF UpgradedOnce, SameAim
<1> QED
  BY <1>0, <1>1, <1>4, <1>8, <1>9 DEF NodeInv
\* A call tells the worker about the slot it is for, and adds to what is done.
LEMMA CallTells ==
    ASSUME Known, NEW w \in Worker, Call(w), NEW s \in Step
    PROVE  /\ DoneOf(s)' <=> DoneOf(s) \/ Told(w, Do(s))'
           /\ GoneOf(s)' <=> GoneOf(s) \/ Told(w, Undo(s))'
           /\ Told(w, Do(s))' => worker[w].slot = Do(s)
           /\ Told(w, Undo(s))' => worker[w].slot = Undo(s)
<1>0. worker \in [Worker -> Memory] /\ TInv
  BY DEF Known, BInv, RInv, TInv, MemoryOK
<1>1. PICK ok \in BOOLEAN : CallReturns(w, ok)
  BY <1>0, CallIsExecute
<1>2. worker'[w].slot = worker[w].slot
  BY <1>0, <1>1 DEF CallReturns, Memory
<1>3. /\ (s \in Succeeded)' <=> s \in Succeeded
      /\ ctx' = ctx
      /\ \A v \in Worker \ {w} : /\ Told(v, Do(s))' <=> Told(v, Do(s))
                                 /\ Told(v, Undo(s))' <=> Told(v, Undo(s))
      /\ ~Told(w, Do(s)) /\ ~Told(w, Undo(s))
  BY CallLeaves
<1> QED
  BY <1>2, <1>3 DEF DoneOf, GoneOf, Told, Do, Undo

\* A call that leaves the node as it is.
LEMMA NodeCallSame ==
    ASSUME Workflow = RollingUpgrade, AboutANode, Known, NodeInv, NEW w \in Worker, Call(w),
           crashes' = crashes, NEW slot, worker[w].slot = slot,
           SameAim, SystemsOK(systems)', \A x : Applied(x)' => Applied(x),
           slot \in NodeSlots /\ Told(w, slot)' => Applied(slot)
    PROVE  NodeInv'
<1>0. /\ {"drain", "upgrade", "return_to_service"} \subseteq Step
      /\ {Do("drain"), Undo("drain"), Do("upgrade"), Undo("upgrade")} \subseteq NodeSlots
  BY UpgradeSteps DEF NodeSlots
<1>1. ASSUME NEW s \in Step
      PROVE  Rowless(Do(s))' = Rowless(Do(s)) /\ Rowless(Undo(s))' = Rowless(Undo(s))
  BY CallLeaves
<1>2. AppliedHasRow'
  <2> SUFFICES ASSUME NEW x \in Slot, Applied(x)' PROVE ~Rowless(x)'
    BY DEF AppliedHasRow
  <2>1. ~Rowless(x)
    BY DEF NodeInv, AppliedHasRow
  <2>2. PICK s \in Step : x = Do(s) \/ x = Undo(s)
    BY SlotIsDoOrUndo
  <2> QED
    BY <1>1, <2>1, <2>2
<1>3. ASSUME NEW s \in {"drain", "upgrade"}
      PROVE  /\ DoneOf(s) => DoneOf(s)'
             /\ DoneOf(s)' => DoneOf(s) \/ Applied(Do(s))
             /\ GoneOf(s)' => GoneOf(s) \/ Applied(Undo(s))
             /\ Applied(Do(s))' => Applied(Do(s))
             /\ Applied(Undo(s))' => Applied(Undo(s))
             /\ Rowless(Do(s))' = Rowless(Do(s)) /\ Rowless(Undo(s))' = Rowless(Undo(s))
  <2>1. s \in Step /\ Do(s) \in NodeSlots /\ Undo(s) \in NodeSlots
    BY <1>0
  <2>2. /\ DoneOf(s)' <=> DoneOf(s) \/ Told(w, Do(s))'
        /\ GoneOf(s)' <=> GoneOf(s) \/ Told(w, Undo(s))'
        /\ Told(w, Do(s))' => slot = Do(s)
        /\ Told(w, Undo(s))' => slot = Undo(s)
    BY <2>1, CallTells
  <2>3. /\ Told(w, Do(s))' => Applied(Do(s))
        /\ Told(w, Undo(s))' => Applied(Undo(s))
    BY <2>1, <2>2
  <2>4. /\ Applied(Do(s))' => Applied(Do(s))
        /\ Applied(Undo(s))' => Applied(Undo(s))
    BY DEF Do, Undo
  <2> QED
    BY <1>1, <2>1, <2>2, <2>3, <2>4
<1>4. Rowless(Do("return_to_service"))' = Rowless(Do("return_to_service"))
  BY <1>0, <1>1
<1>5. DrainHolds' /\ UpgradeHolds'
  BY <1>3, <1>4 DEF NodeInv, DrainHolds, UpgradeHolds, SameAim
<1>6. UpgradeReported' => UpgradedOnce'
  <2>1. UpgradeReported' => UpgradeReported
    BY DEF UpgradeReported, Lossy, Do
  <2> QED
    BY <1>3, <2>1 DEF NodeInv, UpgradedOnce, SameAim
<1> QED
  BY <1>2, <1>5, <1>6 DEF NodeInv

\* A call that changes it.
LEMMA NodeCallChanges ==
    ASSUME Workflow = RollingUpgrade, AboutANode, Known, NodeInv, NEW w \in Worker, Call(w),
           crashes' = crashes, NEW slot \in NodeSlots, worker[w].slot = slot, slot \in Slot,
           SystemsOK(systems)', \A x : Applied(x)' => Applied(x) \/ x = slot,
           Aim' = NodeAfter(RouteOf(slot), Aim), Told(w, slot)' \/ Lossy(slot)
    PROVE  NodeInv'
<1>0. /\ "drain" \in Step /\ "upgrade" \in Step /\ "return_to_service" \in Step
      /\ BInv /\ worker[w].pc = "executing" /\ worker[w].pc # "idle"
  BY UpgradeSteps, CallLeaves DEF Known
<1>1. ASSUME NEW s \in Step
      PROVE  Rowless(Do(s))' = Rowless(Do(s)) /\ Rowless(Undo(s))' = Rowless(Undo(s))
  BY CallLeaves
<1>2. ~Rowless(slot)
  <2>1. PICK s \in Step : slot = Do(s) \/ slot = Undo(s)
    BY SlotIsDoOrUndo
  <2> QED
    BY <1>0, <2>1, NotDoneYet, BusyUndoing
<1>3. AppliedHasRow'
  <2> SUFFICES ASSUME NEW x \in Slot, Applied(x)' PROVE ~Rowless(x)'
    BY DEF AppliedHasRow
  <2>1. ~Rowless(x)
    BY <1>2 DEF NodeInv, AppliedHasRow
  <2>2. PICK s \in Step : x = Do(s) \/ x = Undo(s)
    BY SlotIsDoOrUndo
  <2> QED
    BY <1>1, <2>1, <2>2
<1>4. ASSUME NEW s \in {"drain", "upgrade"}
      PROVE  /\ DoneOf(s) => DoneOf(s)'
             /\ DoneOf(s)' => DoneOf(s) \/ slot = Do(s)
             /\ GoneOf(s)' => GoneOf(s) \/ slot = Undo(s)
             /\ slot = Do(s) /\ ~Lossy(Do(s)) => DoneOf(s)'
             /\ Applied(Do(s))' => Applied(Do(s)) \/ slot = Do(s)
             /\ Applied(Undo(s))' => Applied(Undo(s)) \/ slot = Undo(s)
             /\ Rowless(Do(s))' = Rowless(Do(s)) /\ Rowless(Undo(s))' = Rowless(Undo(s))
             /\ Applied(Undo(s)) => ~Rowless(Undo(s))
             /\ slot = Do(s) => ~DoneOf(s) /\ ~GoneOf(s) /\ Rowless(Undo(s)) /\ ~Rowless(Do(s))
             /\ slot = Undo(s) => ~Rowless(Undo(s)) /\ ~Rowless(Do(s))
  <2>1. s \in Step
    BY <1>0
  <2>2. /\ DoneOf(s)' <=> DoneOf(s) \/ Told(w, Do(s))'
        /\ GoneOf(s)' <=> GoneOf(s) \/ Told(w, Undo(s))'
        /\ Told(w, Do(s))' => slot = Do(s)
        /\ Told(w, Undo(s))' => slot = Undo(s)
    BY <2>1, CallTells
  <2>3. /\ Applied(Do(s))' => Applied(Do(s)) \/ slot = Do(s)
        /\ Applied(Undo(s))' => Applied(Undo(s)) \/ slot = Undo(s)
    BY DEF Do, Undo
  <2>4. Applied(Undo(s)) => ~Rowless(Undo(s))
    BY <2>1 DEF NodeInv, AppliedHasRow, Slot, Undo
  <2>5. slot = Do(s) => ~DoneOf(s) /\ ~GoneOf(s) /\ Rowless(Undo(s)) /\ ~Rowless(Do(s))
    BY <1>0, <2>1, NotDoneYet
  <2>6. slot = Undo(s) => ~Rowless(Undo(s)) /\ ~Rowless(Do(s))
    BY <1>0, <2>1, BusyUndoing DEF BInv, Queued
  <2>7. slot = Do(s) /\ ~Lossy(Do(s)) => DoneOf(s)'
    BY <2>2
  <2> QED
    BY <1>1, <2>1, <2>2, <2>3, <2>4, <2>5, <2>6, <2>7
<1>5. /\ Rowless(Do("return_to_service"))' = Rowless(Do("return_to_service"))
      /\ slot = Do("return_to_service") => ~Rowless(Do("return_to_service"))
  BY <1>0, <1>1, <1>2
<1>6. /\ Aim \in NodeState /\ Aim.version \in {"7.0", "7.1"}
      /\ Aim.previous \in {"7.0", "7.1", "none"} /\ Aim.drained \in BOOLEAN
  BY AimTyped DEF NodeInv
<1>7. LET route == RouteOf(slot)
      IN  /\ slot = Do("drain") => route = "drain"
          /\ slot = Undo("drain") => route = "undrain"
          /\ slot = Do("upgrade") => route = "upgrade"
          /\ slot = Undo("upgrade") => route = "rollback"
          /\ slot = Do("return_to_service") => route = "undrain"
          /\ route \in NodeRoute
  BY SlotRoutes
<1>8. /\ Aim'.drained = (RouteOf(slot) = "drain" \/ (RouteOf(slot) # "undrain" /\ Aim.drained))
      /\ RouteOf(slot) = "upgrade" => Aim'.version = "7.1" /\ Aim'.previous = Aim.version
      /\ RouteOf(slot) = "rollback" =>
            /\ Aim'.version = IF Aim.previous # "none" THEN Aim.previous ELSE Aim.version
            /\ Aim'.previous = "none"
      /\ RouteOf(slot) \notin {"upgrade", "rollback"} =>
            Aim'.version = Aim.version /\ Aim'.previous = Aim.previous
  BY <1>6, <1>7, NodeChanges DEF NoVersion
<1>9. slot \in {Do("drain"), Undo("drain"), Do("upgrade"), Undo("upgrade"),
                Do("return_to_service")}
  BY DEF NodeSlots
<1> HIDE DEF NodeSlots
<1>10. DrainHolds'
  <2>1. DrainHolds
    BY DEF NodeInv
  <2> QED
    BY <1>4, <1>5, <1>7, <1>8, <1>9, <2>1 DEF DrainHolds
<1>11. UpgradeHolds'
  <2>1. UpgradeHolds
    BY DEF NodeInv
  <2> QED
    BY <1>4, <1>7, <1>8, <1>9, <2>1 DEF UpgradeHolds
<1>12. UpgradeReported' => UpgradedOnce'
  <2> SUFFICES ASSUME UpgradeReported' PROVE UpgradedOnce'
    OBVIOUS
  <2>1. UpgradeReported /\ ~Lossy(Do("upgrade"))
    BY DEF UpgradeReported, Lossy, Do
  <2>2. UpgradedOnce
    BY <2>1 DEF NodeInv
  <2> QED
    BY <1>4, <1>6, <1>7, <1>8, <1>9, <2>1, <2>2 DEF UpgradedOnce
<1> QED
  BY <1>3, <1>10, <1>11, <1>12 DEF NodeInv

LEMMA NodeCallInv ==
    ASSUME Workflow = RollingUpgrade, AboutANode, Known, NodeInv, NEW w \in Worker, Call(w),
           crashes' = crashes
    PROVE  NodeInv'
<1>1. PICK slot : worker[w].slot = slot
  OBVIOUS
<1>2. TInv /\ SystemsOK(systems)
  BY DEF NodeInv, Known, BInv, RInv
<1>3. /\ slot \in Slot
      /\ SystemsOK(systems)'
      /\ \A x : Applied(x)' => Applied(x) \/ x = slot
      /\ \/ /\ slot \in NodeSlots
            /\ Aim' = NodeAfter(RouteOf(slot), Aim)
            /\ Told(w, slot)' \/ Lossy(slot)
         \/ /\ SameAim
            /\ Applied(slot)' => Applied(slot)
            /\ slot \in NodeSlots /\ Told(w, slot)' => Applied(slot)
  BY <1>1, <1>2, NodeCall
<1>4. CASE slot \in NodeSlots /\ Aim' = NodeAfter(RouteOf(slot), Aim)
           /\ (Told(w, slot)' \/ Lossy(slot))
  BY <1>1, <1>3, <1>4, NodeCallChanges
<1>5. CASE /\ SameAim
           /\ Applied(slot)' => Applied(slot)
           /\ slot \in NodeSlots /\ Told(w, slot)' => Applied(slot)
  <2>1. \A x : Applied(x)' => Applied(x)
    BY <1>3, <1>5
  <2> QED
    BY <1>1, <1>3, <1>5, <2>1, NodeCallSame
<1> QED
  BY <1>3, <1>4, <1>5

LEMMA NodeInit ==
    ASSUME Workflow = RollingUpgrade, AboutANode, ProvisioningInit
    PROVE  NodeInv
<1>1. Init /\ systems = FreshSystems /\ crashes = 0 /\ Target \in Node
  BY DEF ProvisioningInit, AboutANode
<1>2. SystemsOK(systems) /\ Aim = FreshNode /\ systems.seen = {}
  <2>1. FreshNode \in NodeState
    BY DEF FreshNode, NodeState, Version, NoVersion
  <2> QED
    BY <1>1, <2>1 DEF FreshSystems, SystemsOK, Aim
<1>3. ~Aim.drained /\ Aim.version = "7.0" /\ Aim.previous = "none"
  BY <1>2 DEF FreshNode, NoVersion
<1>4. \A slot : ~Applied(slot)
  BY <1>2 DEF Applied
<1>5. \A s \in Step : s \notin Succeeded /\ ~ctx.steps[s].compensated
  <2>1. Untouched /\ UndoneAfterTurn /\ Queued /\ \A slot : Rowless(slot)
    BY <1>1, BInit, NothingHeldAtFirst DEF BInv, PInv
  <2> QED
    BY <2>1 DEF Queued, UndoneAfterTurn, Settled
<1>6. \A w \in Worker : \A slot : ~Told(w, slot)
  BY <1>1 DEF Init, Told, Idle
<1>7. \A s \in Step : ~DoneOf(s)
  <2> HIDE DEF Succeeded
  <2> QED
    BY <1>5, <1>6 DEF DoneOf
<1>8. ~DoneOf("drain") /\ ~DoneOf("upgrade")
  BY <1>7, UpgradeSteps
<1> QED
  BY <1>1, <1>2, <1>3, <1>4, <1>8 DEF NodeInv, AppliedHasRow, DrainHolds, UpgradeHolds, UpgradedOnce

LEMMA NodeNext ==
    ASSUME Workflow = RollingUpgrade, AboutANode, "stall" \notin Faults, Known, NodeInv,
           [ProvisioningNext]_provisioningVars
    PROVE  Known' /\ NodeInv'
<1>1. [Next]_vars
  BY WorldNext DEF Known, BInv, RInv
<1>2. Known'
  BY <1>1, KnownNext
<1>3. CASE UNCHANGED vars /\ (UNCHANGED systems \/ Interfere) /\ UNCHANGED crashes
  BY <1>1, <1>2, <1>3, NodeElsewise
<1>4. CASE Elsewise /\ UNCHANGED <<systems, crashes>>
  BY <1>1, <1>2, <1>4, NodeElsewise
<1>5. ASSUME NEW w \in Worker, Call(w), UNCHANGED crashes PROVE NodeInv'
  BY <1>5, NodeCallInv
<1>6. CASE (\E w \in Worker : Crash(w)) /\ UNCHANGED systems /\ crashes' = crashes + 1
  BY <1>1, <1>2, <1>6, NodeElsewise
<1> QED
  BY <1>2, <1>3, <1>4, <1>5, <1>6, WorldSteps

\* What the log says of a drain that was undone, and of an upgrade.
LEMMA NodeTold ==
    ASSUME Workflow = RollingUpgrade, Known, NodeInv
    PROVE  /\ Workflow["drain"].call = "drain" /\ Workflow["upgrade"].call = "upgrade"
           /\ ctx.steps["drain"].compensated => ~InEffect("drain")
           /\ UpgradeReported /\ ctx.steps["upgrade"].compensated => ~InEffect("upgrade")
           /\ \A s \in Step \ {"drain", "upgrade"} : ~InEffect(s)
           /\ InEffect("upgrade") <=> Aim.version = "7.1"
<1>1. /\ Workflow["drain"].call = "drain" /\ Workflow["upgrade"].call = "upgrade"
      /\ \A s \in Step \ {"drain", "upgrade"} : Workflow[s].call \in {"health", "undrain"}
  BY UpgradeRequests, UpgradeSteps
<1>2. {"drain", "upgrade", "undrain", "health"} \cap CompanyRoute = {}
  BY Routes DEF NodeRoute
<1>3. /\ InEffect("drain") <=> Aim.drained
      /\ InEffect("upgrade") <=> Aim.version = "7.1"
      /\ \A s \in Step \ {"drain", "upgrade"} : ~InEffect(s)
  BY <1>1, <1>2 DEF InEffect, Aim
<1>4. /\ ctx.steps["drain"].compensated => ~Aim.drained
      /\ UpgradeReported /\ ctx.steps["upgrade"].compensated => Aim.version = "7.0"
  BY DEF NodeInv, DrainHolds, UpgradedOnce, GoneOf
<1> QED
  BY <1>1, <1>3, <1>4

\* What the log says of the node, as far as a step can be taken at its word: the drain is
\* known to be undone whoever died, the upgrade only as long as nobody has and no answer
\* to its request was lost.
NodeTellsTruth ==
    /\ \A s \in Step :
        ctx.steps[s].compensated /\ (s = "upgrade" => TakenAtItsWord(s)) => ~InEffect(s)
    /\ "upgrade" \in Succeeded /\ Rowless(Undo("upgrade")) => InEffect("upgrade")
    /\ Rowless(Do("upgrade")) => ~InEffect("upgrade")

\* An upgrade that the log shows as undone is gone from the node, and a drain too: the
\* drain whichever workers died and whichever answers got lost, the upgrade if none did
\* (worker._run_compensation; drain, undrain, upgrade and rollback of
\* fake_nodes/server.py).  The condition is what run upgraded_twice shows to be needed:
\* a second upgrade takes the version to go back to.
THEOREM NodeIsAsTold ==
    ASSUME Workflow = RollingUpgrade, AboutANode, "stall" \notin Faults
    PROVE  ProvisioningSpec => []NodeTellsTruth
<1>1. ProvisioningInit => Known /\ NodeInv
  BY KnownInit, NodeInit DEF ProvisioningInit
<1>2. Known /\ NodeInv /\ [ProvisioningNext]_provisioningVars => Known' /\ NodeInv'
  BY NodeNext
<1>3. ASSUME Known, NodeInv PROVE NodeTellsTruth
  <2>1. /\ ctx.steps["drain"].compensated => ~InEffect("drain")
        /\ UpgradeReported /\ ctx.steps["upgrade"].compensated => ~InEffect("upgrade")
        /\ \A s \in Step \ {"drain", "upgrade"} : ~InEffect(s)
        /\ InEffect("upgrade") <=> Aim.version = "7.1"
    BY <1>3, NodeTold
  <2>2. TakenAtItsWord("upgrade") => UpgradeReported
    BY Zenon DEF TakenAtItsWord, UpgradeReported, Lossy
  <2>3. /\ "upgrade" \in Succeeded /\ Rowless(Undo("upgrade")) => Aim.version = "7.1"
        /\ Rowless(Do("upgrade")) => Aim.version # "7.1"
    BY <1>3 DEF NodeInv, UpgradeHolds, DoneOf
  <2>4. ASSUME NEW s \in Step, ctx.steps[s].compensated, s = "upgrade" => TakenAtItsWord(s)
        PROVE  ~InEffect(s)
    BY <2>1, <2>2, <2>4, Zenon
  <2> QED
    BY <2>1, <2>3, <2>4, Zenon DEF NodeTellsTruth
<1> QED
  BY <1>1, <1>2, <1>3, PTL DEF ProvisioningSpec

\* No worker has died.
AllAlive == crashes = 0

LEMMA NobodyDies ==
    ASSUME MaxCrash = 0
    PROVE  ProvisioningSpec => []AllAlive
<1>1. ProvisioningInit => AllAlive
  BY DEF ProvisioningInit, AllAlive
<1>2. AllAlive /\ [ProvisioningNext]_provisioningVars => AllAlive'
  BY DEF ProvisioningNext, Inside, WorkerGoesOn, ReaperGoesOn, Call, Interfere, Die,
         provisioningVars, AllAlive
<1> QED
  BY <1>1, <1>2, PTL DEF ProvisioningSpec

\* So where no worker dies or is overtaken, and the answer to the upgrade gets through,
\* whatever the log shows as undone is gone from the node (seed_demo.py).
THEOREM UndoneNodeIsBack ==
    ASSUME Workflow = RollingUpgrade, AboutANode, "stall" \notin Faults, MaxCrash = 0,
           ~Lossy(Do("upgrade"))
    PROVE  ProvisioningSpec => []UndoneIsGone
<1>1. ASSUME AllAlive, NodeTellsTruth PROVE UndoneIsGone
  <2>1. TakenAtItsWord("upgrade")
    BY <1>1, Zenon DEF TakenAtItsWord, Lossy, AllAlive
  <2> QED
    BY <1>1, <2>1, Zenon DEF NodeTellsTruth, UndoneIsGone
<1> QED
  BY <1>1, NobodyDies, NodeIsAsTold, PTL

\* The version of the node changes while it is out of service, and not otherwise.
UpgradedOutOfService == [][Aim'.version # Aim.version => Aim.drained]_provisioningVars

\* While a worker is about to upgrade the node, or to take it back, it is out of service.
LEMMA OutOfService ==
    ASSUME Workflow = RollingUpgrade, AboutANode, Known, TurnInv, DependentsFirst, NodeInv,
           NEW w \in Worker, worker[w].pc = "executing",
           worker[w].slot \in {Do("upgrade"), Undo("upgrade")}
    PROVE  Aim.drained
<1>0. /\ BInv /\ RInv /\ TInv /\ HInv /\ OInv
      /\ "drain" \in Step /\ "upgrade" \in Step /\ "verify" \in Step
      /\ "return_to_service" \in Step
  BY UpgradeSteps DEF Known, BInv, RInv, TurnInv
<1>1. ~Rowless(Do("upgrade"))
  BY <1>0, BusyOn, BusyUndoing DEF BInv, Queued
<1>2. \A s \in Step : ~Rowless(Do(s)) => HasRow(s)
  BY DEF Rowless, Rows, HasRow, Do
<1>3. /\ Comes("drain", "upgrade") /\ Comes("upgrade", "verify")
      /\ Comes("upgrade", "return_to_service") /\ Comes("verify", "return_to_service")
  BY UpgradeSteps DEF Comes, Leads
<1>4. \A x, s \in Step : Comes(x, s) /\ HasRow(s) => x \in Succeeded
  BY <1>0, RunSequenced DEF Sequenced
<1>5. "drain" \in Succeeded
  BY <1>0, <1>1, <1>2, <1>3, <1>4
<1>6. Rowless(Undo("drain")) /\ Rowless(Do("return_to_service"))
  <2>1. CASE worker[w].slot = Do("upgrade")
    <3>1. "upgrade" \notin Succeeded
      BY <1>0, <2>1, BusyOn
    <3>2. ~HasRow("verify") /\ Rowless(Do("return_to_service"))
      BY <1>0, <1>2, <1>3, <1>4, <3>1
    <3>3. ~ctx.compensating
      <4> SUFFICES ASSUME ctx.compensating PROVE FALSE
        OBVIOUS
      <4>1. PICK x \in Step : OnError[x] = "compensate" /\ HasRow(x)
        BY DEF TurnInv, TurnHasCause, Turner
      <4> QED
        BY <3>2, <4>1, UpgradeSteps
    <3> QED
      BY <1>0, <3>2, <3>3 DEF BInv, UndoneAfterTurn
  <2>2. CASE worker[w].slot = Undo("upgrade")
    <3>1. ~Rowless(Undo("upgrade")) /\ "upgrade" \in Succeeded
      BY <1>0, <2>2, BusyUndoing
    <3>2. ~Free(Undo("upgrade"))
      BY <1>0, <2>2, BusyHolds
    <3>3. ~Settled("upgrade")
      BY <1>0, <3>2, CurrentOpen DEF TurnInv, UnwindInv, UndoInTurn, CurrentIsOpen
    <3>4. "upgrade" \in Compensable /\ "drain" \in Needs["upgrade"]
      BY <1>0, UpgradeRequests, UpgradeSteps, WorkflowAssumption DEF NoRoute
    <3>5. Rowless(Undo("drain"))
      BY <1>0, <3>1, <3>3, <3>4 DEF DependentsFirst
    <3>6. ctx.compensating
      BY <1>0, <3>1 DEF BInv, UndoneAfterTurn
    <3>7. PICK x \in Step : OnError[x] = "compensate" /\ x \notin Succeeded
      BY <3>6 DEF TurnInv, TurnHasCause, Turner
    <3>8. "verify" \notin Succeeded
      BY <3>7, UpgradeSteps
    <3> QED
      BY <1>0, <1>2, <1>3, <1>4, <3>5, <3>8
  <2> QED
    BY <2>1, <2>2
<1> QED
  BY <1>5, <1>6 DEF NodeInv, DrainHolds, DoneOf

\* Only a request to upgrade it, or to take it back, changes the version of the node.
LEMMA VersionChanges ==
    ASSUME Workflow = RollingUpgrade, AboutANode, Known, NodeInv,
           [ProvisioningNext]_provisioningVars, Aim'.version # Aim.version
    PROVE  \E w \in Worker : /\ worker[w].pc = "executing"
                            /\ worker[w].slot \in {Do("upgrade"), Undo("upgrade")}
<1>0. TInv /\ SystemsOK(systems)
  BY DEF Known, BInv, RInv, NodeInv
<1>1. ASSUME UNCHANGED systems \/ Interfere PROVE FALSE
  BY <1>0, <1>1, NodeLeft DEF SameAim
<1>2. PICK w \in Worker : Call(w)
  BY <1>0, <1>1, WorldSteps
<1>3. PICK slot : worker[w].slot = slot
  OBVIOUS
<1>4. /\ slot \in Slot /\ slot \in NodeSlots
      /\ Aim' = NodeAfter(RouteOf(slot), Aim)
  BY <1>0, <1>2, <1>3, NodeCall DEF SameAim
<1>5. RouteOf(slot) \in NodeRoute
  BY <1>4, SlotRoutes
<1>6. RouteOf(slot) \in {"upgrade", "rollback"}
  <2>1. Aim \in NodeState
    BY <1>0, AimTyped
  <2> QED
    BY <1>4, <1>5, <2>1, NodeChanges
<1>7. slot \in {Do("upgrade"), Undo("upgrade")}
  <2>1. /\ RouteOf(Do("drain")) = "drain" /\ RouteOf(Undo("drain")) = "undrain"
        /\ RouteOf(Do("return_to_service")) = "undrain"
    BY <1>4, SlotRoutes
  <2> QED
    BY <1>4, <1>6, <2>1 DEF NodeSlots
<1> QED
  BY <1>2, <1>3, <1>7 DEF Call, At

\* A node is upgraded, and taken back, only while it is out of service: drained before the
\* first, and not put back before the run is done with the other, whichever workers die,
\* whichever answers get lost and however often a request is repeated
\* (seed_demo.ROLLING_UPGRADE, replay.ready_steps and compensation_order,
\* service.enqueue_next_compensation).
THEOREM NodeIsOutOfService ==
    ASSUME Workflow = RollingUpgrade, AboutANode, "stall" \notin Faults
    PROVE  ProvisioningSpec => UpgradedOutOfService
<1> DEFINE I == Known /\ NodeInv
           J == TurnInv /\ InOrder /\ DependentsFirst
<1>0. TurnsAlone
  BY UpgradeTurnsAlone
<1>1. ProvisioningInit => I /\ J
  BY KnownInit, NodeInit, TurnInit, DependentsInit DEF ProvisioningInit
<1>2. ASSUME I, J, [ProvisioningNext]_provisioningVars PROVE I' /\ J'
  <2>1. [Next]_vars
    BY <1>2, WorldNext DEF Known, BInv, RInv
  <2>2. I'
    BY <1>2, NodeNext
  <2>3. J'
    BY <1>0, <1>2, <2>1, <2>2, TurnNext, DependentsNext DEF TurnInv
  <2> QED
    BY <2>2, <2>3
<1>3. ASSUME I, J, [ProvisioningNext]_provisioningVars
      PROVE  Aim'.version # Aim.version => Aim.drained
  BY <1>3, VersionChanges, OutOfService
<1> HIDE DEF I, J
<1> QED
  BY <1>1, <1>2, <1>3, PTL DEF ProvisioningSpec, UpgradedOutOfService

==============================================================================
