----------------------------- MODULE HoldoutSeal -----------------------------
(***************************************************************************)
(* What a holdout lock promises (docs/product-spec.md, FR-19): a sealed    *)
(* holdout is opened at most once, by one evaluation, and only the         *)
(* evaluation that opened it can report, once.  HoldoutOnce implements     *)
(* this.                                                                   *)
(***************************************************************************)
CONSTANTS Locks, Runners, Nobody

VARIABLES opener,    \* opener[l]: the evaluation that opened l, or Nobody
          reported   \* reported[l]: has the opening led to a report?

vars == <<opener, reported>>

Init == /\ opener = [l \in Locks |-> Nobody]
        /\ reported = [l \in Locks |-> FALSE]

Open(l, r) == /\ opener[l] = Nobody
              /\ opener' = [opener EXCEPT ![l] = r]
              /\ UNCHANGED reported

Report(l) == /\ opener[l] # Nobody
             /\ ~ reported[l]
             /\ reported' = [reported EXCEPT ![l] = TRUE]
             /\ UNCHANGED opener

Next == \E l \in Locks : Report(l) \/ \E r \in Runners : Open(l, r)

Spec == Init /\ [][Next]_vars
==============================================================================
