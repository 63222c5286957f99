---------------------------- MODULE GroundedAnswer ----------------------------
(* The decision of DeterministicGroundedAnswerProvider.answer: the passages *)
(* of the chunks in scope are judged one by one; then one status is decided *)
(* for the question, one assessment for every chunk, and the whole is       *)
(* validated against the chunks before it leaves.                           *)
(*                                                                          *)
(* A passage is abstracted to how it was judged: its score against the two  *)
(* thresholds, the value it gives and whether it bears on the relation, in  *)
(* so many words or by similarity only.                                     *)
EXTENDS Naturals, Sequences, FiniteSets

CONSTANTS Values,        \* what passages may answer: yes and no, dates, ...
          MaxChunks,     \* bound: chunks in scope
          MaxPassages    \* bound: passages of all chunks

VARIABLES asked,         \* the question
          chunk,         \* the chunk being read, 0 before the first
          evaluated,     \* rows per chunk; a row tells of one passage
          candidates, partials,
          blocked,       \* chunks with an untrusted fragment
          passages,      \* number of passages read
          result

vars == <<asked, chunk, evaluated, candidates, partials, blocked, passages, result>>
reading == <<asked, chunk, evaluated, candidates, partials, blocked, passages>>

NoValue == "none"
Partial == 1             \* partial_support_threshold
Support == 2             \* support_threshold

\* single: of a kind that has one answer: boolean, date, amount, duration,
\* severity.  past: when an event took place.
Questions == [gate : {"open"}, single : BOOLEAN, past : BOOLEAN]
             \cup [gate : {"unsafe", "multi_slot"}, single : {FALSE}, past : {FALSE}]

Judged == [score : 0 .. Support, value : Values \cup {NoValue},
           relation : {"none", "similar", "stated"}]
Row(c, j) == [score |-> j.score, value |-> j.value, relation |-> j.relation,
              chunk |-> c, passage |-> passages]
Denied(c) == Row(c, [score |-> 0, value |-> NoValue, relation |-> "none"])

Pending == [status |-> "pending"]
Abstained == [status |-> "abstained", support |-> {}, answerable |-> FALSE, reason |-> FALSE]
-----------------------------------------------------------------------------
Init == /\ asked \in {q \in Questions : q.past => q.single}
        /\ chunk = 0
        /\ evaluated = <<>>
        /\ candidates = {}
        /\ partials = {}
        /\ blocked = {}
        /\ passages = 0
        /\ result = Pending

(* Refused before any evidence is read; or nothing retrieved or in scope.  *)
Refuse == /\ chunk = 0
          /\ result = Pending
          /\ result' = Abstained
          /\ UNCHANGED reading

(* The next chunk in scope.  *)
NextChunk == /\ asked.gate = "open"
             /\ result = Pending
             /\ chunk < MaxChunks
             /\ chunk' = chunk + 1
             /\ evaluated' = Append(evaluated, {})
             /\ UNCHANGED <<asked, candidates, partials, blocked, passages, result>>

Reading == result = Pending /\ chunk > 0 /\ passages < MaxPassages
Log(row) == evaluated' = [evaluated EXCEPT ![chunk] = @ \cup {row}]

(* An untrusted fragment, an excerpt that is not admitted, a heading.  *)
SkipPassage == /\ Reading
               /\ passages' = passages + 1
               /\ blocked' \in {blocked, blocked \cup {chunk}}
               /\ UNCHANGED <<asked, chunk, evaluated, candidates, partials, result>>

(* _has_explicit_absence, _has_negated_relation.  *)
DenyPassage == /\ Reading
               /\ passages' = passages + 1
               /\ Log(Denied(chunk))
               /\ UNCHANGED <<asked, chunk, candidates, partials, blocked, result>>

IsCandidate(j) == j.value # NoValue /\ j.relation # "none"
IsPartial(j) == j.score >= Partial /\ j.relation = "stated" /\ ~asked.past

EvaluatePassage ==
    /\ Reading
    /\ passages' = passages + 1
    /\ \E j \in Judged :
          /\ Log(Row(chunk, j))
          /\ candidates' = IF IsCandidate(j) THEN candidates \cup {Row(chunk, j)}
                           ELSE candidates
          /\ partials' = IF ~IsCandidate(j) /\ IsPartial(j) THEN partials \cup {Row(chunk, j)}
                         ELSE partials
    /\ UNCHANGED <<asked, chunk, blocked, result>>
-----------------------------------------------------------------------------
(* By score; among equals, by the rank of the chunk and the place in it.   *)
Stronger(a, b) == \/ a.score > b.score
                  \/ a.score = b.score /\ a.chunk < b.chunk
                  \/ a.score = b.score /\ a.chunk = b.chunk /\ a.passage < b.passage
Strongest(rows) == CHOOSE r \in rows : \A o \in rows \ {r} : Stronger(r, o)

(* _candidate_assessments.  *)
Direct(rows) == {r \in rows : IsCandidate(r)}
Related(rows) == {r \in rows : r.score >= Partial /\ r.relation # "none"}
Assess(rows) ==
    IF Direct(rows) # {}
    THEN [answerable |-> Strongest(Direct(rows)).score >= Support,
          support |-> {Strongest(Direct(rows))}]
    ELSE [answerable |-> FALSE,
          support |-> IF Related(rows) = {} THEN {} ELSE {Strongest(Related(rows))}]
Assessments == [c \in DOMAIN evaluated |-> Assess(evaluated[c])]

Supported == {r \in candidates : r.score >= Support}

(* A form the definition below must not take. *)
NextOnly(best) == {r \in Supported \ {best} : /\ r = Strongest(Supported \ {best})
                                              /\ r.value # best.value}

(* Other values, not only other passages.  *)
Distinct(best) == {r \in Supported : r.value # best.value}

Decision ==
    IF Supported = {}
    THEN IF partials = {} THEN Abstained
         ELSE [status |-> "partially_supported", answerable |-> FALSE, reason |-> TRUE,
               support |-> {Strongest(partials)}]
    ELSE LET best == Strongest(Supported)
         IN  IF Distinct(best) # {} /\ asked.single
             THEN [status |-> "ambiguous", answerable |-> FALSE, reason |-> TRUE,
                   support |-> {best, Strongest(Distinct(best))}]
             ELSE [status |-> "answered", answerable |-> TRUE, reason |-> FALSE,
                   support |-> {best}]

(* validate_grounded_answer.  echoed: the cited excerpt also stands within *)
(* an untrusted fragment of its page.                                      *)
Valid(d, echoed) ==
    /\ d.answerable <=> d.status = "answered"
    /\ d.status \in {"partially_supported", "ambiguous"} <=> d.reason
    /\ d.support = {} <=> d.status = "abstained"
    /\ ~echoed
    /\ \A r \in d.support : r.chunk \in DOMAIN evaluated /\ r \in evaluated[r.chunk]
    /\ d.status = "answered" => \A r \in d.support : r.value # NoValue

Decide == /\ chunk > 0
          /\ result = Pending
          /\ \E echoed \in {FALSE, Decision.support # {} /\ blocked # {}} :
                result' = IF Valid(Decision, echoed)
                          THEN Decision
                          ELSE [status |-> "GroundingValidationError", echoed |-> echoed]
          /\ UNCHANGED reading

Next == Refuse \/ NextChunk \/ SkipPassage \/ DenyPassage \/ EvaluatePassage \/ Decide

Spec == Init /\ [][Next]_vars
-----------------------------------------------------------------------------
Rows == UNION {evaluated[c] : c \in DOMAIN evaluated}
Answers == {r \in Rows : r.score >= Support /\ r.value # NoValue /\ r.relation # "none"}

(* The decision and its final validation agree: only an excerpt repeated   *)
(* by an untrusted fragment makes it fail.  The assessments of the chunks  *)
(* and the status of the whole agree: some chunk answers exactly when the  *)
(* question is answered or ambiguous.  Nothing but one value anywhere in   *)
(* the chunks answers a question that has one answer (FR-11), and partial  *)
(* support is only given when nothing answers.                             *)
DecisionIsSound ==
    /\ result.status = "GroundingValidationError" => result.echoed
    /\ result.status \in {"answered", "ambiguous"} =>
          \E c \in DOMAIN evaluated : Assessments[c].answerable
    /\ result.status \in {"abstained", "partially_supported"} =>
          \A c \in DOMAIN evaluated : ~Assessments[c].answerable
    /\ result.status = "answered" /\ asked.single => Cardinality({r.value : r \in Answers}) = 1
    /\ result.status = "ambiguous" => Cardinality({r.value : r \in result.support}) = 2
    /\ result.status = "partially_supported" => Answers = {}
-----------------------------------------------------------------------------
(* The inductive invariant: each row is of its chunk and of one passage,    *)
(* the candidates are the rows that may answer, and a result is the         *)
(* decision on the rows, validated.                                         *)
RowOf(c) == [score : 0 .. Support, value : Values \cup {NoValue},
             relation : {"none", "similar", "stated"}, chunk : {c}, passage : Nat]

GroundedInv ==
    /\ chunk \in Nat /\ passages \in Nat
    /\ DOMAIN evaluated = 1 .. chunk /\ evaluated \in Seq(SUBSET Rows)
    /\ \A c \in DOMAIN evaluated : evaluated[c] \subseteq RowOf(c)
    /\ \A r \in Rows : r.passage < passages
    /\ \A r, o \in Rows : r.passage = o.passage => r = o
    /\ candidates = {r \in Rows : IsCandidate(r)}
    /\ partials \subseteq Rows
    /\ \/ result = Pending
       \/ result = Abstained /\ chunk = 0
       \/ /\ chunk > 0
          /\ \E echoed \in BOOLEAN :
                result = IF Valid(Decision, echoed)
                         THEN Decision
                         ELSE [status |-> "GroundingValidationError", echoed |-> echoed]
==============================================================================
