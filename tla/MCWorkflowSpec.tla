---------------------------- MODULE MCWorkflowSpec ----------------------------
(* Every definition of three steps, each with up to two needs, some of them *)
(* twice; and of two steps with a name that may be taken, missing or wrong. *)
EXTENDS WorkflowSpec

Lists(names) == {<<>>} \cup {<<a>> : a \in names} \cup {<<a, b>> : a, b \in names}

Graphs ==
    {<<[id |-> 2, needs |-> x, wellFormed |-> TRUE],
       [id |-> 1, needs |-> y, wellFormed |-> TRUE],
       [id |-> 3, needs |-> z, wellFormed |-> TRUE]>> :
        x, y, z \in Lists({1, 2, 3})}

Slips ==
    {<<[id |-> 1, needs |-> <<>>, wellFormed |-> good],
       [id |-> other, needs |-> <<dep>>, wellFormed |-> TRUE]>> :
        good \in BOOLEAN, other \in {1, 2}, dep \in {1, 3}}

Submissions == Graphs \cup Slips \cup {<<>>}
==============================================================================
