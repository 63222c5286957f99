------------------------- MODULE DocumentLifecycle --------------------------
(***************************************************************************)
(* What the system promises of one document, whatever requests, workers    *)
(* and stores are involved: once recorded it is pending, it settles        *)
(* exactly once, and an administrator may remove it for good at any time.  *)
(***************************************************************************)
CONSTANT Docs

VARIABLE stage

Init == stage = [d \in Docs |-> "none"]

Move(d, from, to) ==
    /\ stage[d] \in from
    /\ stage' = [stage EXCEPT ![d] = to]

Record(d) == Move(d, {"none"}, "pending")
Settle(d) == Move(d, {"pending"}, "completed") \/ Move(d, {"pending"}, "failed")
Remove(d) == Move(d, {"pending", "completed", "failed"}, "gone")

Next == \E d \in Docs : Record(d) \/ Settle(d) \/ Remove(d)

Spec == Init /\ [][Next]_stage

\* Work on a failed document may be delivered, and done, again.
Reopen(d) == Move(d, {"failed"}, "pending")

RedeliverySpec == Init /\ [][Next \/ \E d \in Docs : Reopen(d)]_stage

\* No recorded document waits forever.
FairSpec == Spec /\ \A d \in Docs : WF_stage(Settle(d))
=============================================================================
