------------------------------ MODULE Workflows ------------------------------
(***************************************************************************)
(* Two of the workflows the repository seeds, in the terms of modules      *)
(* Engine and Systems: what each step needs, the request it makes and the  *)
(* one that undoes it, how often it is tried, and its on_error.            *)
(***************************************************************************)

\* A step without a request (noop), or without a compensate block.
NoRoute == "none"

HttpStep(needs, route) ==
    [needs |-> needs, call |-> route, undo |-> NoRoute, tries |-> 1, onError |-> "fail"]

Undoable(needs, route, undo) == [HttpStep(needs, route) EXCEPT !.undo = undo]

\* seed_joiner: what happens when somebody accepts an offer.
NewJoiner ==
    [create_email_account |->
        [Undoable({}, "google/create-account", "google/delete-account")
            EXCEPT !.tries = 3],
     order_laptop |->
        Undoable({"create_email_account"}, "it/order-laptop", "it/cancel-laptop"),
     invite_to_slack |->
        Undoable({"create_email_account"}, "slack/invite", "slack/deactivate"),
     grant_github_access |->
        Undoable({"create_email_account"}, "github/add-member", "github/remove-member"),
     enrol_in_payroll |->
        [HttpStep({"order_laptop", "invite_to_slack", "grant_github_access"},
                  "payroll/enrol") EXCEPT !.onError = "compensate"],
     email_the_manager |-> HttpStep({"enrol_in_payroll"}, NoRoute)]

\* seed_demo: the upgrade of one node.
RollingUpgrade ==
    [preflight |-> [HttpStep({}, "health") EXCEPT !.tries = 3],
     drain     |-> Undoable({"preflight"}, "drain", "undrain"),
     upgrade   |-> Undoable({"drain"}, "upgrade", "rollback"),
     verify    |-> [HttpStep({"upgrade"}, "health") EXCEPT !.onError = "compensate"],
     return_to_service |-> HttpStep({"verify"}, "undrain")]

\* The part of a workflow that consists of the given steps: the others count as
\* done when they are needed.
Part(workflow, steps) ==
    [s \in steps |-> [workflow[s] EXCEPT !.needs = @ \cap steps]]
==============================================================================
