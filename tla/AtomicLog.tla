------------------------------ MODULE AtomicLog ------------------------------
(***************************************************************************)
(* What the rest of the engine takes the event log of a run to be: a       *)
(* sequence of events to which a transaction appends all of its events at  *)
(* once.  replay.py folds it in this order, and module Engine relies on it *)
(* when it makes a recording transaction one step.                         *)
(***************************************************************************)
EXTENDS Naturals, Sequences

CONSTANTS Writer, MaxBatch

VARIABLE log            \* who appended the event at each sequence number

Init == log = <<>>

Extend(w, n) == log' = log \o [i \in 1..n |-> w]

Next == \E w \in Writer, n \in 1..MaxBatch : Extend(w, n)

Spec == Init /\ [][Next]_log
==============================================================================
