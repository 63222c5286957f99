---------------------------- MODULE MCEvaluation ----------------------------
(* The evaluation tools for TLC: small values for the constants.            *)
EXTENDS Evaluation, MCHoldout, TLC

CONSTANTS e1, e2

EngineSymmetry == Permutations({e1, e2})

\* A short text within a longer one, which is part of two others.
MCTexts == {"short", "base", "left", "right"}
MCWordy == MCTexts \ {"short"}
MCPartOf == ({"short"} \X {"base", "left", "right"}) \cup ({"base"} \X {"left", "right"})
MCAmounts == "short" :> {} @@ "base" :> {1, 2} @@ "left" :> {1} @@ "right" :> {2}

\* Two cases, one of them answerable.
MCProtocol == [total |-> 2, answerable |-> 1, unanswerable |-> 0, adversarial |-> 0]
=============================================================================
