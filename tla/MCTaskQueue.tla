----------------------------- MODULE MCTaskQueue -----------------------------
(* Three rows of two slots: t1 and t2 compete for the keys of one slot.     *)
EXTENDS TaskQueue, TLC

CONSTANTS t1, t2, t3, s1, s2

MCSlotOf == (t1 :> s1) @@ (t2 :> s1) @@ (t3 :> s2)
==============================================================================
