----------------------------- MODULE EvalMetrics -----------------------------
(***************************************************************************)
(* The measures of an evaluation: the loop over cases of                   *)
(* src/evals/runner.py, which counts while it runs and records every case, *)
(* and src/evals/recalculate.py, which counts again from the recorded      *)
(* artifact alone.  Retrieval and the answer engine may raise at any case; *)
(* an answer may break its contract.                                       *)
(*                                                                         *)
(* Passages, citations and answers are abstracted to the decisions the     *)
(* metrics are made of: does a passage, a citation or an answer match the  *)
(* expected one.  A ratio is kept as its two counts.                       *)
(***************************************************************************)
EXTENDS Naturals, Sequences, FiniteSets

CONSTANT MaxCases              \* bound: cases of the split

Kinds == {"answerable", "unanswerable", "ambiguous"}
Statuses == {"answered", "partially_supported", "ambiguous", "abstained"}
Raises == "raises"             \* an exception that is not about the schema
Violates == "violates"         \* AnswerSchemaError and its like

(* What the passages, and the citations, of a case may match.  *)
Retrievals == {<<>>, <<FALSE>>, <<TRUE>>, <<FALSE, TRUE>>}
Citations == {<<>>, <<FALSE>>, <<TRUE>>, <<FALSE, TRUE>>}
Matched(decisions) == \E i \in DOMAIN decisions : decisions[i]
Hits(decisions) == Cardinality({i \in DOMAIN decisions : decisions[i]})

(* One or two expected citations, of which the second is never found.      *)
Answers == [status : Statuses, match : BOOLEAN, citations : Citations,
            expected : {<<TRUE>>, <<FALSE>>, <<TRUE, FALSE>>}]
Consistent(a) == a.expected[1] = Matched(a.citations)

(* The cases that are not answerable are only told apart by their status.  *)
Plain(a) == a.citations = <<>> /\ ~ a.match /\ Len(a.expected) = 1

VARIABLES cases,      \* how many cases the split has
          counts,     \* the runner's counters
          raw         \* the recorded cases

vars == <<cases, counts, raw>>

Counters == {"citation_correct", "citation_returned", "citation_expected",
             "citation_expected_matched", "answerable_correct", "answerable_total",
             "retrieval_hits", "abstention_correct", "abstention_total",
             "errors", "schema_errors"}

Init == /\ cases \in 0 .. MaxCases
        /\ counts = [c \in Counters |-> 0]
        /\ raw = <<>>

One(b) == IF b THEN 1 ELSE 0

(* The rank of the first matching passage among the five first, or 0.  *)
Rank(decisions) ==
    IF Matched(decisions) THEN CHOOSE i \in DOMAIN decisions :
                                  decisions[i] /\ \A j \in 1 .. i - 1 : ~ decisions[j]
                          ELSE 0
-----------------------------------------------------------------------------
(* Forms the definitions below must not take. *)
HitsUncounted(kind, decisions) == 0
PassOnRatios(c) ==
    LET Reaches(n, d, hundredths) == 100 * n >= hundredths * d
    IN  /\ Reaches(c.citation_correct, c.citation_returned, 90)
        /\ Reaches(c.answerable_correct, c.answerable_total, 90)
        /\ Reaches(c.abstention_correct, c.abstention_total, 85)
        /\ c.errors = 0
-----------------------------------------------------------------------------
(* A case is answered correctly only with a citation that matches.  *)
Correct(a) == a.status = "answered" /\ a.match /\ Matched(a.citations)

(* An ambiguous case wants "ambiguous", every other one an abstention.  *)
Abstains(kind, status) == status = (IF kind = "ambiguous" THEN "ambiguous" ELSE "abstained")

Recorded(case) == raw' = Append(raw, case)

(* answerable_total and abstention_total are fixed by the kinds before the *)
(* loop; here they grow with it.                                           *)
Total(kind) == IF kind = "answerable" THEN [answerable_total |-> 1]
                                      ELSE [abstention_total |-> 1]
Count(kind, rest) ==
    counts' = [c \in Counters |->
                 counts[c] + (IF c \in DOMAIN Total(kind) THEN 1
                              ELSE IF c \in DOMAIN rest THEN rest[c] ELSE 0)]

(* A retrieval hit counts before the answer is asked for.  *)
Retrieved(kind, decisions) == One(kind = "answerable" /\ Matched(decisions))

(* The loop body of _evaluate_manifest for a case that does not raise.     *)
Measure(kind, decisions, a) ==
    /\ Consistent(a)
    /\ Count(kind,
         IF kind = "answerable"
         THEN [citation_correct |-> Hits(a.citations),
               citation_returned |-> Len(a.citations),
               citation_expected |-> Len(a.expected),
               citation_expected_matched |-> Hits(a.expected),
               answerable_correct |-> One(Correct(a)),
               retrieval_hits |-> Retrieved(kind, decisions)]
         ELSE [abstention_correct |-> One(Abstains(kind, a.status))])
    /\ Recorded([kind |-> kind, status |-> a.status, completed |-> TRUE,
                 retrieved |-> decisions, match |-> a.match,
                 citations |-> a.citations, expected |-> a.expected,
                 schema |-> FALSE])

(* Its exception handler: what was counted before the exception stays.     *)
Fail(kind, decisions, completed, error) ==
    /\ Count(kind, [errors |-> 1, schema_errors |-> One(error = Violates),
                    retrieval_hits |-> Retrieved(kind, decisions)])
    /\ Recorded([kind |-> kind, status |-> "error", completed |-> completed,
                 retrieved |-> decisions, match |-> FALSE,
                 citations |-> <<>>, expected |-> <<>>,
                 schema |-> error = Violates])

EvaluateCase ==
    /\ Len(raw) < cases
    /\ UNCHANGED cases
    /\ \E kind \in Kinds :
          \/ \E decisions \in Retrievals, a \in Answers :
                /\ kind = "answerable" \/ (decisions = <<>> /\ Plain(a))
                /\ Measure(kind, decisions, a)
          \/ \E decisions \in Retrievals, error \in {Raises, Violates} :
                /\ kind = "answerable" \/ decisions = <<>>
                /\ Fail(kind, decisions, TRUE, error)
          \/ Fail(kind, <<>>, FALSE, Raises)

Next == EvaluateCase

Spec == Init /\ [][Next]_vars
-----------------------------------------------------------------------------
(* _meets_acceptance_targets: a ratio of nothing is 0 and fails.  The      *)
(* abstention target is 0.85, the others 0.9 and no error.                 *)
Pass(c) ==
    LET Reaches(n, d, hundredths) == d > 0 /\ 100 * n >= hundredths * d
    IN  /\ Reaches(c.citation_correct, c.citation_returned, 90)
        /\ Reaches(c.citation_expected_matched, c.citation_expected, 90)
        /\ Reaches(c.answerable_correct, c.answerable_total, 90)
        /\ Reaches(c.abstention_correct, c.abstention_total, 85)
        /\ c.errors = 0
        /\ c.schema_errors = 0

(* recalculate_metrics, from the artifact alone.  *)
Answerable == {i \in DOMAIN raw : raw[i].kind = "answerable"}
Others == DOMAIN raw \ Answerable
Decisions(list) == UNION {{i} \X DOMAIN raw[i][list] : i \in Answerable}
Positive(list) == {p \in Decisions(list) : raw[p[1]][list][p[2]]}
Evidence(case) == case.retrieved

Recalculated ==
    [citation_correct |-> Cardinality(Positive("citations")),
     citation_returned |-> Cardinality(Decisions("citations")),
     citation_expected |-> Cardinality(Decisions("expected")),
     citation_expected_matched |-> Cardinality(Positive("expected")),
     answerable_correct |-> Cardinality({i \in Answerable : Correct(raw[i])}),
     answerable_total |-> Cardinality(Answerable),
     retrieval_hits |-> Cardinality({i \in Answerable : Rank(Evidence(raw[i])) # 0}),
     abstention_correct |-> Cardinality({i \in Others : Abstains(raw[i].kind, raw[i].status)}),
     abstention_total |-> Cardinality(Others),
     errors |-> Cardinality({i \in DOMAIN raw : raw[i].status = "error"}),
     schema_errors |-> Cardinality({i \in DOMAIN raw : raw[i].schema})]

(* It refuses passages of a retrieval that did not complete.  *)
Accepted == \A i \in Answerable : raw[i].completed \/ raw[i].retrieved = <<>>
-----------------------------------------------------------------------------
(* Whatever raised in between, the artifact recalculates to the counts the *)
(* runner reported, and is accepted.                                       *)
CountsRecalculate == Accepted /\ counts = Recalculated

(* A passing verdict is earned on both kinds of case: no error, at most    *)
(* one answerable case in ten without a correct and cited answer, and at   *)
(* most fifteen in a hundred of the others answered.                       *)
PassIsEarned ==
    Len(raw) = cases /\ Pass(counts) =>
        /\ Others # {} /\ Answerable # {}
        /\ \A i \in DOMAIN raw : raw[i].status # "error"
        /\ 10 * Cardinality({i \in Answerable : ~ (raw[i].match /\ Matched(raw[i].citations))})
              <= Cardinality(Answerable)
        /\ 100 * Cardinality({i \in Others : raw[i].status = "answered"})
              <= 15 * Cardinality(Others)
-----------------------------------------------------------------------------
(* The inductive invariant: what is recorded of a case, and the counts.     *)
Cases == [kind : Kinds, status : Statuses \cup {"error"}, completed : BOOLEAN,
          retrieved : Retrievals, match : BOOLEAN, citations : Seq(BOOLEAN),
          expected : Seq(BOOLEAN), schema : BOOLEAN]

CountsInv == raw \in Seq(Cases) /\ CountsRecalculate
==============================================================================
