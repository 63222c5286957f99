----------------------------- MODULE AnswerGates -----------------------------
(* The two answer providers that consult a local model.  The NLI provider   *)
(* puts the draft of the deterministic one to an entailment model; the Qwen *)
(* provider lets a language model decide, and parses, validates and grounds *)
(* what it says.  A model may return anything: what leaves is the outcome   *)
(* of the gates.                                                            *)
EXTENDS Naturals, FiniteSets

CONSTANTS Pages          \* pages among the retrieved passages

VARIABLES gate,          \* "nli" or "qwen"
          said,          \* the draft and its scores, or the reply of the model
          stage,
          outcome

vars == <<gate, said, stage, outcome>>

Refused == "refused"     \* an exception: no answer at all
Statuses == {"answered", "partially_supported", "ambiguous", "abstained"}

\* Scores against their thresholds, or not finite; low thresholds may both be
\* reached.
Scores == [finite : BOOLEAN, entails : BOOLEAN, contradicts : BOOLEAN]
Drafts == [status : Statuses, scores : Scores]

\* A reply.  shape: exactly the required keys, each of its type.  support:
\* which of document, page and excerpt are given.  page: a page in the
\* context of the model, one retrieved but not given to it, or none of them;
\* excerpt: words of the page, of an instruction on it, or of neither.
Support == {"document", "page", "excerpt"}
Replies == [shape : BOOLEAN, answerable : BOOLEAN,
            answer : {"none", "blank", "quoted", "invented"},
            support : {{}, {"excerpt"}, Support},
            page : Pages \cup {"elsewhere"},
            excerpt : {"quoted", "instruction", "invented"},
            reason : {"none", "empty", "given"},
            fields : {"none", "quoted", "invented"}]
Supported(r) == r.support # {}
-----------------------------------------------------------------------------
(* Forms the definitions below must not take. *)
EntailedOnly(s) == s.entails
-----------------------------------------------------------------------------
(* NliGroundedAnswerProvider.answer: an answer stands if it is entailed, a  *)
(* conflict if the model sees one between its two passages.                 *)
Contradicted(s) == s.contradicts
Reconsidered(d) ==
    CASE d.status = "answered" /\ d.scores.entails -> "answered"
      [] d.status = "answered" /\ ~d.scores.entails ->
             IF d.scores.contradicts THEN "abstained" ELSE "partially_supported"
      [] d.status = "ambiguous" ->
             IF Contradicted(d.scores) THEN "ambiguous" ELSE "partially_supported"
      [] OTHER -> d.status
Scored(d) == d.status \in {"answered", "ambiguous"}

(* The draft keeps its support, except when the answer is contradicted.    *)
NliDecide ==
    /\ gate = "nli"
    /\ stage = "said"
    /\ stage' = "done"
    /\ outcome' = IF Scored(said) /\ ~said.scores.finite THEN [status |-> Refused]
                  ELSE [status |-> Reconsidered(said),
                        cites |-> Reconsidered(said) # "abstained"]
    /\ UNCHANGED <<gate, said>>
-----------------------------------------------------------------------------
(* _parse_decision.  *)
Parses(r) ==
    /\ r.shape
    /\ r.answerable => r.answer \notin {"none", "blank"} /\ r.reason = "none"
    /\ ~r.answerable => r.answer = "none"
    /\ ~r.answerable /\ r.reason = "none" => ~Supported(r) /\ r.fields = "none"

(* validate_qwen_decision, against the passages the model was given.       *)
InContext(r) == r.page \in Pages
Validates(r) ==
    IF "excerpt" \notin r.support
    THEN r.support = {} /\ ~r.answerable /\ r.fields = "none" /\ r.reason # "given"
    ELSE /\ r.support = Support
         /\ InContext(r)
         /\ r.excerpt = "quoted"
         /\ r.answerable => r.answer = "quoted"
         /\ r.fields # "invented"

(* QwenDecision.status, and validate_grounded_answer on the result.        *)
Status(r) == IF r.answerable THEN "answered"
             ELSE IF r.reason = "given" THEN "ambiguous" ELSE "abstained"
Grounded(r) ==
    /\ Status(r) = "answered" => r.reason = "none" /\ r.answer = "quoted"
    /\ Status(r) = "abstained" => ~Supported(r) /\ r.reason = "none" /\ r.fields = "none"
    /\ Status(r) # "abstained" => InContext(r) /\ r.excerpt = "quoted" /\ r.fields # "invented"

QwenStep(from, to, passes) ==
    /\ gate = "qwen"
    /\ stage = from
    /\ stage' = IF passes THEN to ELSE "done"
    /\ outcome' = IF ~passes THEN [status |-> Refused]
                  ELSE IF to = "done" THEN [status |-> Status(said), cites |-> Supported(said)]
                       ELSE outcome
    /\ UNCHANGED <<gate, said>>

ParseDecision == QwenStep("said", "parsed", Parses(said))
ValidateDecision == QwenStep("parsed", "validated", Validates(said))
GroundDecision == QwenStep("validated", "done", Grounded(said))
-----------------------------------------------------------------------------
Init == /\ \/ gate = "nli" /\ said \in Drafts
           \/ gate = "qwen" /\ said \in Replies
        /\ stage = "said"
        /\ outcome = [status |-> "pending"]

Next == NliDecide \/ ParseDecision \/ ValidateDecision \/ GroundDecision

Spec == Init /\ [][Next]_vars
-----------------------------------------------------------------------------
Certainty == [abstained |-> 0, partially_supported |-> 1, ambiguous |-> 2, answered |-> 3]

(* A model never makes an answer out of anything: the entailment model only *)
(* lowers what the draft claimed, and upholds a conflict only when it sees  *)
(* a contradiction; whatever the language model says, an answer quotes an   *)
(* excerpt of a page it was given, an abstention shows no evidence, and     *)
(* everything else refuses.                                                 *)
GatesFailClosed ==
    stage = "done" /\ outcome.status # Refused =>
        /\ outcome.status = "abstained" <=> ~outcome.cites
        /\ gate = "nli" =>
              /\ Certainty[outcome.status] <= Certainty[said.status]
              /\ outcome.status = "answered" => said.scores.entails
              /\ outcome.status = "ambiguous" => said.scores.contradicts
              /\ outcome.status = "abstained" /\ said.status # "abstained" =>
                    said.scores.contradicts /\ ~said.scores.entails
        /\ gate = "qwen" =>
              /\ outcome.cites => said.page \in Pages /\ said.excerpt = "quoted"
              /\ outcome.status = "answered" => said.answer = "quoted"
              /\ said.fields = "invented" => ~outcome.cites
-----------------------------------------------------------------------------
(* The inductive invariant: what a reply has passed by the time the next    *)
(* gate sees it.                                                            *)
GateInv ==
    /\ \/ gate = "nli" /\ said \in Drafts
       \/ gate = "qwen" /\ said \in Replies
    /\ gate = "qwen" /\ stage \in {"parsed", "validated"} => Parses(said)
    /\ gate = "qwen" /\ stage = "validated" => Validates(said)
    /\ GatesFailClosed
==============================================================================
