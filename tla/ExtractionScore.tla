--------------------------- MODULE ExtractionScore ---------------------------
(***************************************************************************)
(* How an extracted field is scored against its gold values:               *)
(* _extraction_evaluation of src/evals/runner.py.  The expected values are *)
(* taken in order; each takes the first extracted value not yet used that  *)
(* matches it, and uses it up only if a citation of the field matches too. *)
(*                                                                         *)
(* Normalised values are abstract.  Dates match when they are equal, money *)
(* when an amount is common, and a text of three words or more also        *)
(* matches one it is part of.                                              *)
(***************************************************************************)
EXTENDS Naturals, Sequences, SequencesExt

CONSTANTS Values,      \* normalised values
          PartOf,      \* pairs <<v, w>>: v is a part of w
          Wordy,       \* the values of three words or more
          Amounts,     \* the amounts a value names
          MaxValues    \* bound: values of a field on either side

Fields == SeqOf(Values, MaxValues)

VARIABLES type,       \* of the field: text, date or money
          expected,   \* its gold values
          cited,      \* cited[i]: does a citation match expected value i?
          actual,     \* the extracted values
          unmatched,  \* those not yet used
          truePositive,
          decisions   \* value_decisions

vars == <<type, expected, cited, actual, unmatched, truePositive, decisions>>

Init == /\ type \in {"text", "date", "money"}
        /\ expected \in Fields
        /\ cited \in [1 .. Len(expected) -> BOOLEAN]
        /\ actual \in Fields
        /\ unmatched = actual
        /\ truePositive = 0
        /\ decisions = <<>>
-----------------------------------------------------------------------------
(* Forms the definitions below must not take. *)
LastMatch(v) == LET M == {i \in DOMAIN unmatched : unmatched[i] = v}
                IN  IF M = {} THEN 0 ELSE CHOOSE i \in M : \A j \in M : j <= i
-----------------------------------------------------------------------------
(* _value_matches.  The shorter of two texts must have three words.  *)
Matches(v, w) ==
    \/ type # "money" /\ v = w
    \/ type = "money" /\ Amounts[v] \cap Amounts[w] # {}
    \/ /\ type = "text"
       /\ \/ <<v, w>> \in PartOf /\ v \in Wordy
          \/ <<w, v>> \in PartOf /\ w \in Wordy

(* The first unused value that matches, or 0.  *)
FirstMatch(v) ==
    LET M == {i \in DOMAIN unmatched : Matches(unmatched[i], v)}
    IN  IF M = {} THEN 0 ELSE CHOOSE i \in M : \A j \in M : i <= j

Used(values, i) == RemoveAt(values, i)
Counts(i) == cited[i]

ScoreValue ==
    /\ Len(decisions) < Len(expected)
    /\ LET i == Len(decisions) + 1
           m == FirstMatch(expected[i])
       IN  /\ decisions' = Append(decisions, m # 0)
           /\ IF m # 0 /\ Counts(i)
              THEN /\ unmatched' = Used(unmatched, m)
                   /\ truePositive' = truePositive + 1
              ELSE UNCHANGED <<unmatched, truePositive>>
    /\ UNCHANGED <<type, expected, cited, actual>>

Next == ScoreValue

Spec == Init /\ [][Next]_vars
-----------------------------------------------------------------------------
Scored == Len(decisions) = Len(expected)

(* Every way to give cited expected values matching extracted values of    *)
(* their own, and how many of them get one.                                *)
Assignments ==
    {f \in [{i \in DOMAIN expected : cited[i]} -> 0 .. Len(actual)] :
        \A i, j \in DOMAIN f :
            f[i] # 0 => /\ Matches(actual[f[i]], expected[i])
                        /\ i # j => f[i] # f[j]}
Assigned(f) == Cardinality({i \in DOMAIN f : f[i] # 0})

(* No extracted value earns two true positives, so that precision and      *)
(* recall stay within one; and taking the first match costs dates nothing  *)
(* against any other assignment, texts and amounts at most half of it.     *)
FirstMatchIsGood ==
    /\ \E f \in Assignments : truePositive <= Assigned(f)
    /\ Scored =>
          \A f \in Assignments :
              Assigned(f) <= IF type = "date" THEN truePositive ELSE 2 * truePositive
-----------------------------------------------------------------------------
(* The inductive invariant: the expected values D took the extracted ones  *)
(* taken[i], each its own; place[k] is where unmatched value k stood; and  *)
(* a cited value that took none matches nothing that is left.              *)
Pairing(D, taken, place) ==
    /\ IsFiniteSet(D) /\ Cardinality(D) = truePositive
    /\ \A i \in D : /\ i <= Len(decisions) /\ cited[i]
                    /\ Matches(actual[taken[i]], expected[i])
    /\ \A i, j \in D : taken[i] = taken[j] => i = j
    /\ \A k, l \in DOMAIN unmatched : place[k] = place[l] => k = l
    /\ \A k \in DOMAIN unmatched : unmatched[k] = actual[place[k]]
    /\ \A i \in D, k \in DOMAIN unmatched : taken[i] # place[k]
    /\ \A a \in DOMAIN actual : \/ \E i \in D : taken[i] = a
                                \/ \E k \in DOMAIN unmatched : place[k] = a
    /\ \A i \in 1 .. Len(decisions) :
          cited[i] /\ i \notin D => \A k \in DOMAIN unmatched : ~ Matches(unmatched[k], expected[i])

ScoreInv ==
    /\ expected \in Seq(Values) /\ actual \in Seq(Values) /\ unmatched \in Seq(Values)
    /\ decisions \in Seq(BOOLEAN) /\ Len(decisions) <= Len(expected)
    /\ cited \in [DOMAIN expected -> BOOLEAN]
    /\ truePositive \in Nat
    /\ \E D \in SUBSET DOMAIN expected :
          \E taken \in [D -> DOMAIN actual], place \in [DOMAIN unmatched -> DOMAIN actual] :
             Pairing(D, taken, place)
==============================================================================
