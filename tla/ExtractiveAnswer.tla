--------------------------- MODULE ExtractiveAnswer ---------------------------
(* The extractive provider (retrieval.ExtractiveAnswerProvider.answer): the *)
(* question's intent, the first direct evidence of each ranked chunk, and a *)
(* decision on the evidence of all of them.                                 *)
EXTENDS Naturals, Sequences, FiniteSets, SequencesExt

CONSTANTS Keys,          \* what evidence says: a date, an amount, ...
          MaxSegments    \* bound: segments of the ranked chunks together

VARIABLES request, ranked

vars == <<request, ranked>>

Missing == "missing"     \* evidence that no date is recorded
Other == "other"         \* no evidence for the intent
Blocked == "blocked"     \* within an untrusted instruction

\* singular: an intent with one answer.  deadline: that of a notification,
\* compared across documents even when the question is not broad.
Requests == [adversarial : BOOLEAN, intent : {"none", "renewal", "deadline", "amount", "plural"},
             broad : BOOLEAN]
Singular == request.intent \in {"renewal", "deadline", "amount"}

ChunksOf(n) == [document : 1 .. 2, named : BOOLEAN,
                segments : [1 .. n -> Keys \cup {Missing, Other, Blocked}]]
RankedChunks == UNION {ChunksOf(n) : n \in 1 .. MaxSegments}
-----------------------------------------------------------------------------
Earliest(I) == CHOOSE i \in I : \A j \in I : i <= j

(* Unless the question is broad, chunks of named documents alone count.  *)
Relevant == IF ~request.broad /\ \E i \in DOMAIN ranked : ranked[i].named
            THEN {i \in DOMAIN ranked : ranked[i].named}
            ELSE DOMAIN ranked

(* _is_intent_evidence and _evidence_key: of the evidence in a chunk only   *)
(* the first counts.                                                        *)
EvidenceIn(c) == {n \in DOMAIN c.segments : c.segments[n] \notin {Other, Blocked}}
Evidence == {i \in Relevant : EvidenceIn(ranked[i]) # {}}
KeyOf(i) == ranked[i].segments[Earliest(EvidenceIn(ranked[i]))]
Cite(i) == [key |-> KeyOf(i), document |-> ranked[i].document]

(* The first evidence of each key.  *)
Distinct == {i \in Evidence : \A j \in Evidence : KeyOf(j) = KeyOf(i) => i <= j}
DocumentsOf(I) == {ranked[i].document : i \in I}

Conflict ==
    /\ Cardinality(Distinct) > 1
    /\ \/ Cardinality(DocumentsOf(Distinct)) = 1
       \/ request.broad \/ request.intent = "deadline"

Answer ==
    LET best == Earliest(Evidence)
    IN  IF request.adversarial \/ request.intent = "none" \/ Evidence = {}
        THEN [status |-> "abstained", cites |-> {}]
        ELSE IF request.intent = "renewal" /\ KeyOf(best) = Missing
             THEN [status |-> "abstained", cites |-> {Cite(best)}]
             ELSE IF Singular /\ Conflict
                  THEN [status |-> "ambiguous",
                        cites |-> {Cite(best), Cite(Earliest(Distinct \ {best}))}]
                  ELSE [status |-> "answered", cites |-> {Cite(best)}]
-----------------------------------------------------------------------------
Init == request \in Requests /\ ranked = <<>>

Segments(r) == FoldLeft(LAMBDA n, c : n + Len(c.segments), 0, r)
Rank == /\ \E n \in 1 .. MaxSegments :
              /\ Segments(ranked) + n <= MaxSegments
              /\ \E c \in ChunksOf(n) :
                    /\ ranked = <<>> => c.document = 1
                    /\ ranked' = Append(ranked, c)
        /\ UNCHANGED request

Next == Rank

Spec == Init /\ [][Next]_vars
-----------------------------------------------------------------------------
(* A question with one answer is answered only if the first evidence of the *)
(* chunks that count is unanimous, or is of several documents while the     *)
(* question is neither broad nor about a deadline; an ambiguous answer      *)
(* shows two evidences that differ.  Nothing untrusted is cited, and no     *)
(* document the question did not name answers for one it did.  What differs *)
(* from the answer beyond that is not reported: SourcesAgree and            *)
(* PassagesAgree do not hold.                                               *)
ExtractIsUndisputed ==
    LET answer == Answer
    IN  /\ answer.status = "answered" /\ Singular =>
              \/ Cardinality({KeyOf(i) : i \in Evidence}) = 1
              \/ /\ Cardinality(DocumentsOf(Evidence)) > 1
                 /\ ~request.broad
                 /\ request.intent # "deadline"
        /\ answer.status = "ambiguous" => Cardinality({e.key : e \in answer.cites}) = 2
        /\ Blocked \notin {e.key : e \in answer.cites}
        /\ ~request.broad /\ (\E i \in DOMAIN ranked : ranked[i].named) =>
              \A e \in answer.cites :
                  \E i \in DOMAIN ranked : ranked[i].named /\ ranked[i].document = e.document

(* docs/product-spec.md, EC-8: two sources that contradict each other make  *)
(* the answer ambiguous, or an abstention.  It does not hold.               *)
SourcesAgree ==
    Answer.status = "answered" /\ Singular => Cardinality({KeyOf(i) : i \in Evidence}) = 1

(* docs/product-spec.md, FR-11: contradictory evidence is not answered, so  *)
(* no passage that counts says two things.  It does not hold.               *)
PassagesAgree ==
    Answer.status = "answered" /\ Singular =>
        \A i \in Evidence :
            LET c == ranked[i].segments
            IN  \A m, n \in EvidenceIn(ranked[i]) : c[m] = c[n]
-----------------------------------------------------------------------------
(* The inductive invariant: what is ranked are chunks.  *)
ExtractiveInv == request \in Requests /\ ranked \in Seq(RankedChunks)
=============================================================================
