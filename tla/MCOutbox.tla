------------------------------ MODULE MCOutbox -------------------------------
(* Two attributes, each of which is 1 or missing, and two triggers.         *)
EXTENDS Outbox, TLC

CONSTANTS e1, e2, level, title, promoted, left

Payloads == {level :> 1, title :> 1}

All == [t \in Trigger |-> Entity]

Rules ==
    (promoted :> [changed |-> {level},
                  match |-> (level :> [op |-> "eq", value |-> 1])])
    @@ (left :> [was |-> (level :> [op |-> "gt", value |-> 0]),
                 match |-> (level :> [op |-> "exists", value |-> FALSE])])
==============================================================================
