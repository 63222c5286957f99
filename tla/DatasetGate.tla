----------------------------- MODULE DatasetGate -----------------------------
(***************************************************************************)
(* Which holdout datasets may be opened: validate_manifest of              *)
(* src/evals/validate_dataset.py, whose report verify_holdout_protocol of  *)
(* src/evals/holdout.py holds against the frozen protocol.  An author adds *)
(* cases and an extraction target one by one; at every moment the gate's   *)
(* answer is compared with what the runner (EvalMetrics) and the           *)
(* recalculation later need, which nothing checks again.                   *)
(***************************************************************************)
EXTENDS Naturals, Sequences, SequencesExt, FiniteSets

CONSTANTS Ids,              \* case ids
          MaxCases,         \* bound: cases added
          Protocol          \* total_cases and the three minima

Kinds == {"answerable", "unanswerable", "adversarial"}    \* the last also ambiguous
NoScope == "all"
Documents == {"known", "unknown"}       \* a document of the corpus, another name
LastPage == 1                           \* pages of the known document

(* A citation names a document and a page, and its excerpt is or is not    *)
(* on that page.                                                           *)
CitationsOf == [document : Documents, page : 0 .. LastPage + 1, found : BOOLEAN]

Cases == [id : Ids, split : {"development", "holdout"}, kind : Kinds,
          answer : BOOLEAN, scope : {NoScope} \cup Documents,
          citations : SeqOf(CitationsOf, 1)]
Targets == [split : {"development", "holdout", "another"}, document : Documents, values : 0 .. 2,
            citations : SeqOf([own : BOOLEAN, page : {1, 2}, found : BOOLEAN], 2)]

VARIABLES cases, targets

vars == <<cases, targets>>

-----------------------------------------------------------------------------
(* A form the definition below must not take. *)
ScopeOfStrings(c) == TRUE
-----------------------------------------------------------------------------
(* What raises.  *)
UniqueIds == \A i, j \in DOMAIN cases : cases[i].id = cases[j].id => i = j
AnswerFits(c) == c.answer <=> c.kind = "answerable"
ScopeFits(c) == c.scope \in {NoScope, "known"}
CitationFits(c) == /\ c.kind = "answerable" => c.citations # <<>>
                   /\ c.kind = "unanswerable" => c.citations = <<>>
CaseFits(c) == AnswerFits(c) /\ ScopeFits(c) /\ CitationFits(c)

(* An extraction field needs one citation per expected value.  A target    *)
(* of an unknown document is only reported, one of the other split is fit. *)
OnePerValue(t) == Len(t.citations) = t.values
TargetFits(t) == t.split # "another" /\ (t.document = "known" => OnePerValue(t))

Validates == /\ UniqueIds
             /\ \A i \in DOMAIN cases : CaseFits(cases[i])
             /\ \A i \in DOMAIN targets : TargetFits(targets[i])

(* What is reported. *)
OnPage(page) == page >= 1 /\ page <= LastPage
CitationsIn(c) == ToSet(c.citations)
DocumentsKnown == \A i \in DOMAIN cases : \A q \in CitationsIn(cases[i]) : q.document = "known"
CitationsExact == \A i \in DOMAIN cases : \A q \in CitationsIn(cases[i]) :
                     q.document = "known" => OnPage(q.page) /\ q.found
Traceable == \A i \in DOMAIN targets :
                /\ targets[i].document = "known"
                /\ \A q \in ToSet(targets[i].citations) : q.own /\ OnPage(q.page) /\ q.found
OfKind(k) == Cardinality({i \in DOMAIN cases : cases[i].kind = k})

(* Every row is fit for the protocol, whatever their number.               *)
OnTrack == /\ Validates
           /\ \A i \in DOMAIN cases : cases[i].split = "holdout"
           /\ DocumentsKnown /\ CitationsExact /\ Traceable

(* verify_holdout_protocol on the report.                                  *)
MeetsProtocol ==
    /\ Len(cases) = Protocol.total
    /\ \A k \in Kinds : OfKind(k) >= Protocol[k]
    /\ OnTrack

Opened == Validates /\ MeetsProtocol
-----------------------------------------------------------------------------
Init == cases = <<>> /\ targets = <<>>

(* The gate is a conjunction over the rows, so only datasets it would take *)
(* so far are extended.                                                    *)
AddCase == /\ Len(cases) < MaxCases
           /\ targets = <<>>
           /\ OnTrack
           /\ \E c \in Cases : cases' = Append(cases, c)
           /\ UNCHANGED targets

AddTarget == /\ targets = <<>>
             /\ OnTrack
             /\ \E t \in Targets : targets' = <<t>>
             /\ UNCHANGED cases

Next == AddCase \/ AddTarget

Spec == Init /\ [][Next]_vars
-----------------------------------------------------------------------------
RowsInv == cases \in Seq(Cases) /\ targets \in Seq(Targets)

(* A dataset that may be opened wastes no holdout: recalculating its raw   *)
(* artifact cannot fail, since every answerable case has expected          *)
(* locations, all of them real pages; no case fails before retrieval,      *)
(* since scopes name documents of the corpus; gold values pair with their  *)
(* citations by position; and no answer counts twice, there being one      *)
(* result per case id, either to be answered or to be refused.             *)
OpenedIsMeasurable ==
    Opened =>
        /\ Cardinality({cases[i].id : i \in DOMAIN cases}) = Protocol.total
        /\ \A i \in DOMAIN cases :
              /\ cases[i].answer <=> cases[i].kind = "answerable"
              /\ cases[i].scope # "unknown"
              /\ cases[i].answer => /\ CitationsIn(cases[i]) # {}
                                    /\ \A q \in CitationsIn(cases[i]) : q.page \in 1 .. LastPage
        /\ \A i \in DOMAIN targets : Len(targets[i].citations) = targets[i].values
==============================================================================
