------------------------------ MODULE MCEngine -------------------------------
(* Workflows small enough for TLC.                                          *)
EXTENDS Engine, TLC

CONSTANTS A, B, C, D, E

AllWork == [s \in Step |-> "work"]

\* Two independent steps and one that needs both.
Join == (A :> {}) @@ (B :> {}) @@ (C :> {A, B})

\* One after the other.
Chain == (A :> {}) @@ (B :> {A}) @@ (C :> {B})

\* All at once.
Parallel == [s \in Step |-> {}]

\* Work, then a person's decision, then two timers, then work after one of them.
Parked == [s \in Step |-> CASE s = A -> {}
                            [] s = B -> {A}
                            [] s \in {C, D} -> {B}
                            [] s = E -> {C}]

ParkedTypes == [s \in Step |-> CASE s = B -> "approval"
                                 [] s \in {C, D} -> "wait"
                                 [] OTHER -> "work"]

OneTry == [slot \in Slot |-> 1]

\* A second try of the undo of B.
RetryUndo == [slot \in Slot |-> IF slot = Undo(B) THEN 2 ELSE 1]

AllFail == [s \in Step |-> "fail"]

AllCompensate == [s \in Step |-> "compensate"]

\* A failure of D ends the run without an unwind.
TimerFails == [s \in Step |-> IF s = D THEN "fail" ELSE "compensate"]

\* A failure of C compensates.
LastCompensates == [s \in Step |-> IF s = C THEN "compensate" ELSE "fail"]

\* A failure of B does not matter to the run.
SecondContinues == [s \in Step |-> IF s = B THEN "continue" ELSE "fail"]

AnyResult == [slot \in Slot |-> BOOLEAN]

AlwaysOk == [slot \in Slot |-> {TRUE}]

\* C always fails, an undo may.
LastFails ==
    [slot \in Slot |-> IF slot[2] = "COMPENSATE" THEN BOOLEAN ELSE {slot[1] # C}]

\* E may fail, and so may every undo, which is tried twice.
UndoMayFail ==
    [slot \in Slot |->
        IF slot[2] = "COMPENSATE" \/ slot[1] = E THEN BOOLEAN ELSE {TRUE}]

RetryUndos == [slot \in Slot |-> IF slot[2] = "COMPENSATE" THEN 2 ELSE 1]

Symmetry == Permutations(Worker)
==============================================================================
