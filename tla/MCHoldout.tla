------------------------------ MODULE MCHoldout ------------------------------
(* The one-shot protocol for TLC: three runners, two of which share a lock  *)
(* and two an output.                                                       *)
EXTENDS HoldoutOnce

CONSTANTS r1, r2, r3, l1, l2, o1, o2

MCLockOf == [r \in Runners |-> IF r = r3 THEN l2 ELSE l1]
MCOutputOf == [r \in Runners |-> IF r = r1 THEN o1 ELSE o2]
==============================================================================
