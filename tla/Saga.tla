--------------------------------- MODULE Saga ---------------------------------
(***************************************************************************)
(* What a run promises whoever started it, whatever workers, queue and log *)
(* it takes to keep it.  Steps take effect one after the other; then the   *)
(* run ends in success, or ends in failure, or turns back: it undoes what  *)
(* has taken effect, the latest first, and ends when nothing is left to    *)
(* undo.  Its end is final.  Module Engine implements it.                  *)
(***************************************************************************)
EXTENDS SequencesExt

CONSTANTS
    Step,
    Compensable         \* the steps that can be undone

VARIABLES
    phase,              \* how far the run has got
    back,               \* it has turned back
    done,               \* the steps that have taken effect, in this order
    settled             \* those whose undo was carried out, or given up

sagaVars == <<phase, back, done, settled>>

Init ==
    /\ phase = "PENDING"
    /\ back = FALSE
    /\ done = <<>>
    /\ settled = {}

ToUndo == (Range(done) \cap Compensable) \ settled

\* Nothing that took effect after s is left to undo.
Latest(s) ==
    \E i \in DOMAIN done :
        /\ done[i] = s
        /\ \A j \in i+1..Len(done) : done[j] \notin ToUndo

Begin ==
    /\ phase = "PENDING"
    /\ phase' = "RUNNING"
    /\ UNCHANGED <<back, done, settled>>

\* A step that was under way when the run failed or turned back may still take
\* effect.
Complete(s) ==
    /\ phase # "PENDING"
    /\ s \notin Range(done)
    /\ done' = Append(done, s)
    /\ phase' = IF phase = "RUNNING" /\ Range(done') = Step THEN "SUCCEEDED" ELSE phase
    /\ UNCHANGED <<back, settled>>

Fail ==
    /\ phase = "RUNNING"
    /\ phase' = "FAILED"
    /\ UNCHANGED <<back, done, settled>>

TurnBack ==
    /\ phase = "RUNNING"
    /\ ToUndo # {}
    /\ phase' = "COMPENSATING"
    /\ back' = TRUE
    /\ UNCHANGED <<done, settled>>

\* The undo of s was carried out, or given up.
Settle(s) ==
    /\ phase = "COMPENSATING"
    /\ s \in ToUndo /\ Latest(s)
    /\ settled' = settled \cup {s}
    /\ phase' = IF ToUndo = {s} THEN "FAILED" ELSE phase
    /\ UNCHANGED <<back, done>>

Next ==
    \/ Begin
    \/ \E s \in Step : Complete(s)
    \/ Fail
    \/ TurnBack
    \/ \E s \in Step : Settle(s)

Spec == Init /\ [][Next]_sagaVars
==============================================================================
