----------------------------- MODULE AnswerValue -----------------------------
(* What a passage says about a question (answering._value_for and           *)
(* _relation_supported): the value it gives, and whether that is a value of *)
(* the relation the question asks about.                                    *)
(*                                                                          *)
(* A question is abstracted to its kind, its relation terms, the terms it   *)
(* excludes, the date role and events it names and, for a yes/no question,  *)
(* the values it proposes; a passage to its clauses, each with its terms,   *)
(* at most one value, its date role, the literal words of a role, its       *)
(* events and whether it negates what it is about or says that it is        *)
(* missing.  Clauses are separated by semicolons, which separate them for   *)
(* every rule of the code.                                                  *)
EXTENDS Integers, Sequences, FiniteSets, SequencesExt

CONSTANTS Terms,        \* relation words
          Values,       \* dates, amounts, durations
          Events,       \* kinds of incident
          MaxClauses    \* bound: clauses of a passage

VARIABLES question, passage

vars == <<question, passage>>

Kinds == {"boolean", "date", "amount", "duration", "severity"}
\* A yes/no answer must repeat one of the anchors that are asked about.
Anchors == {"access", "amend"}
Roles == {"none", "renewal", "effective"}
NoValue == "none"
OnlyOf(kinds, S) == IF question.kind \in kinds THEN SUBSET S ELSE {{}}

\* paraphrase: the local model finds passage and question close enough.
Questions == [kind : Kinds, terms : SUBSET Terms, excluded : SUBSET Terms, role : Roles,
              events : SUBSET Events, proposed : SUBSET Values, paraphrase : BOOLEAN]
AskedFor(q) == /\ q.terms \cap q.excluded = {}
               /\ q.kind # "amount" => q.excluded = {}
               /\ q.kind # "date" => q.role = "none"
               /\ q.kind # "duration" => q.events = {}
               /\ q.kind # "boolean" => q.proposed = {}
               /\ q.paraphrase => q.kind \in {"date", "amount", "duration"}
                                  /\ q.role = "none" /\ q.events = {}

Clauses == [terms : SUBSET Terms, value : Values \cup {NoValue},
            role : IF question.kind = "date" THEN Roles ELSE {"none"},
            words : OnlyOf({"date"}, Roles \ {"none"}),
            events : OnlyOf({"duration"}, Events),
            denial : {"none", "negated", "absent"}]
\* Nothing reads the words of a clause that negates nothing.
Sayable(c) == /\ Cardinality(c.events) <= 1
              /\ c.denial = "absent" => c.value = NoValue
              /\ c.words # {} => c.denial = "negated"
              /\ \A r \in c.words : c.role \in {"none", r}
-----------------------------------------------------------------------------
(* Forms the definitions below must not take. *)
WholePassage(s) == {s}
-----------------------------------------------------------------------------
First(I) == IF I = {} THEN 0 ELSE CHOOSE i \in I : \A j \in I : i <= j
Valued(s) == {i \in DOMAIN s : s[i].value # NoValue}
TermsOf(s) == UNION {s[i].terms : i \in DOMAIN s}
EventsOf(s) == UNION {s[i].events : i \in DOMAIN s}
Overlap(terms) == question.terms \cap terms

(* _has_related_absence, _has_negated_relation: a clause about the relation *)
(* that denies it; a date question is also about the word of its role, not  *)
(* about the other words by which _date_role knows the role.                *)
AboutRole(c) == question.role \in c.words
Denies(c) == c.denial # "none" /\ (Overlap(c.terms) # {} \/ AboutRole(c))
DeniesRelation(s) == \E i \in DOMAIN s : Denies(s[i])

(* _date_match_for_question: the first date of the asked role, or the first *)
DateMatch(s) == LET asked == {i \in Valued(s) : s[i].role = question.role}
                IN  IF question.role = "none" \/ asked = {} THEN First(Valued(s))
                    ELSE First(asked)

(* The amount whose clause has most of the terms, the first of several;    *)
(* clauses about excluded terms do not count.                              *)
Bids(s) == {i \in Valued(s) : s[i].terms \cap question.excluded = {}}
Weight(s, i) == Cardinality(Overlap(s[i].terms))
BestAmount(s) == First({i \in Bids(s) : \A j \in Bids(s) : Weight(s, j) <= Weight(s, i)})

(* _value_for, other than yes and no: the clause that gives the value.  *)
ValueAt(s) == CASE question.kind = "date" -> DateMatch(s)
                [] question.kind = "amount" -> BestAmount(s)
                [] OTHER -> First(Valued(s))

(* _local_value_clause, of the first place where the chosen value stands.  *)
ContextOf(s) == First({i \in Valued(s) : s[i].value = s[ValueAt(s)].value})

(* _semantic_relation_fallback: only the one value of a passage that shares *)
(* a word with the question may be a paraphrase.                            *)
Paraphrased(s, terms) ==
    Cardinality(Valued(s)) = 1 /\ question.paraphrase /\ Overlap(terms) # {}

(* _relation_supported, by the kind of question.  *)
MostTerms(terms) == /\ Overlap(terms) # {}
                    /\ 5 * Cardinality(Overlap(terms)) >= 2 * Cardinality(question.terms)
AtLeast(n, terms) == LET k == Cardinality(question.terms)
                     IN  Cardinality(Overlap(terms)) >= IF k < n THEN k ELSE n

InContext(s) ==
    /\ ValueAt(s) # 0
    /\ \/ question.terms = {}
       \/ MostTerms(s[ContextOf(s)].terms)
       \/ Paraphrased(s, s[ContextOf(s)].terms)
DurationSupported(s) ==
    IF question.events # {}
    THEN question.events \cap EventsOf(s) # {} /\ ValueAt(s) # 0
    ELSE InContext(s)
DateSupported(s) ==
    IF question.role # "none"
    THEN ValueAt(s) # 0 /\ s[ValueAt(s)].role = question.role
    ELSE \/ question.terms # {} /\ AtLeast(2, TermsOf(s))
         \/ Paraphrased(s, TermsOf(s))
BooleanSupported(s) ==
    /\ question.terms \cap Anchors # {} => Overlap(TermsOf(s)) \cap Anchors # {}
    /\ \/ Cardinality(Overlap(TermsOf(s))) >= 2
       \/ "amend" \in Overlap(TermsOf(s))
       \/ DeniesRelation(s)
RelationSupported(s) ==
    CASE question.kind = "boolean" -> BooleanSupported(s)
      [] question.kind = "date" -> DateSupported(s)
      [] question.kind = "amount" -> InContext(s)
      [] question.kind = "duration" -> DurationSupported(s)
      [] question.kind = "severity" -> ValueAt(s) # 0 \/ Overlap(TermsOf(s)) # {}

(* A yes/no answer: no when the relation is denied, or when values are     *)
(* proposed and others given.                                              *)
Observed(s) == {s[i].value : i \in Valued(s)}
Contradicts(s) == /\ question.proposed # {}
                  /\ Observed(s) # {}
                  /\ question.proposed \cap Observed(s) = {}
Polarity(s) == IF DeniesRelation(s) \/ Contradicts(s) THEN "no" ELSE "yes"

(* _date_evidence_segments: each date of several is judged in its clause.  *)
DateEvidence(s) ==
    LET own == {<<s[i]>> : i \in {j \in Valued(s) : question.role \in {"none", s[j].role}}}
    IN  IF Cardinality(Valued(s)) < 2 \/ own = {} THEN {s} ELSE own
Evidence(s) == IF question.kind = "date" THEN DateEvidence(s) ELSE {s}

(* A passage that says something is missing, or denies the relation, gives *)
(* no value.                                                               *)
Rejected(e) == /\ question.kind # "boolean"
               /\ \/ \E i \in DOMAIN e : e[i].denial = "absent"
                  \/ DeniesRelation(e)
Accepted(e) == ~Rejected(e) /\ RelationSupported(e)
                            /\ (question.kind = "boolean" \/ ValueAt(e) # 0)
Given(e) == IF question.kind = "boolean" THEN Polarity(e) ELSE e[ValueAt(e)].value

(* The values for which a passage becomes a candidate.  *)
Candidates(s) == {Given(e) : e \in {f \in Evidence(s) : Accepted(f)}}
-----------------------------------------------------------------------------
Init == /\ question \in {q \in Questions : AskedFor(q)}
        /\ passage = <<>>

Say == /\ Len(passage) < MaxClauses
       /\ \E c \in Clauses : Sayable(c) /\ passage' = Append(passage, c)
       /\ UNCHANGED question

Next == Say

Spec == Init /\ [][Next]_vars
-----------------------------------------------------------------------------
Unrelated(c) == c.terms = {} /\ c.events = {} /\ c.role = "none" /\ c.denial = "none"
                /\ c.words = {} /\ (question.kind = "boolean" => c.value = NoValue)
Giving(v) == {i \in Valued(passage) : passage[i].value = v}

\* What asks of a clause that gives an amount or a duration of no event, and of
\* one that gives one of several dates.
SharesMost(c) == MostTerms(c.terms) \/ (question.paraphrase /\ Overlap(c.terms) # {})
SharesEnough(c) == \/ question.terms # {} /\ AtLeast(2, c.terms)
                   \/ question.paraphrase /\ Overlap(c.terms) # {}

(* No value is accepted that every clause giving it denies, in the words    *)
(* by which the code knows the relation.  A date of a role comes from a     *)
(* clause of that role, one of several dates from a clause that shares the  *)
(* terms of the question, an amount or a duration of no event from one that *)
(* shares most of them; an amount stands where nothing excluded does; yes   *)
(* is never said of what a clause denies.  And a clause about something     *)
(* else, before or after the passage, never changes the answer to a         *)
(* question about a relation into another one: at most the passage stops    *)
(* answering.  Not said, as it does not hold: the clause of the only date   *)
(* of a passage (DateIsOfAskedClause), a denial in other words              *)
(* (DateIsNotDenied), the event of a duration (DurationIsOfAskedEvent); a   *)
(* severity needs no relation.                                              *)
AcceptedIsAsked ==
    /\ question.kind # "boolean" =>
          \A v \in Candidates(passage) : \E i \in Giving(v) : ~Denies(passage[i])
    /\ question.role # "none" =>
          \A v \in Candidates(passage) :
              \E i \in Giving(v) : passage[i].role = question.role /\ ~Denies(passage[i])
    /\ /\ question.kind = "date"
       /\ question.role = "none"
       /\ Cardinality(Valued(passage)) >= 2
       => \A v \in Candidates(passage) :
              \E i \in Giving(v) : SharesEnough(passage[i]) /\ ~Denies(passage[i])
    /\ /\ question.kind \in {"amount", "duration"}
       /\ question.terms # {}
       /\ question.events = {}
       => \A v \in Candidates(passage) : \E i \in Giving(v) : SharesMost(passage[i])
    /\ question.kind = "amount" =>
          \A v \in Candidates(passage) : Giving(v) \cap Bids(passage) # {}
    /\ question.kind = "boolean" /\ "yes" \in Candidates(passage) => ~DeniesRelation(passage)
    /\ /\ Candidates(passage) # {}
       /\ question.terms # {}
       /\ question.events = {}
       /\ question.kind # "severity"
       => \A c \in {d \in Clauses : Unrelated(d)} :
              /\ Candidates(<<c>> \o passage) \subseteq Candidates(passage)
              /\ Candidates(Append(passage, c)) \subseteq Candidates(passage)

(* docs/architecture.md: a value is taken with the conditions of its       *)
(* clause, such as the kind of incident a deadline applies to.  So one     *)
(* that is only stated of other incidents is not the answer.               *)
DurationIsOfAskedEvent ==
    question.events # {} =>
        \A v \in Candidates(passage) :
            \E i \in Valued(passage) : /\ passage[i].value = v
                                       /\ \/ passage[i].events = {}
                                          \/ passage[i].events \cap question.events # {}

(* docs/architecture.md: values and relations are found with regard to      *)
(* their own clause.  So the date that is the answer stands in a clause     *)
(* that has a term of the question.  It does not hold (README.md, section   *)
(* 4).                                                                      *)
DateIsOfAskedClause ==
    question.kind = "date" /\ question.role = "none" =>
        \A v \in Candidates(passage) :
            \E i \in Giving(v) : Overlap(passage[i].terms) # {}

(* _has_negated_relation: a value is rejected when the relation near it is  *)
(* negated.  So a date of a role is not taken from a clause of that role    *)
(* that negates it.  It does not hold (README.md, section 4).               *)
DateIsNotDenied ==
    question.role # "none" =>
        \A v \in Candidates(passage) :
            \E i \in Giving(v) : passage[i].role = question.role /\ passage[i].denial = "none"
-----------------------------------------------------------------------------
(* The inductive invariant: what is asked is a question, and what is said   *)
(* are clauses.                                                             *)
ValueInv == question \in Questions /\ AskedFor(question) /\ passage \in Seq(Clauses)
==============================================================================
