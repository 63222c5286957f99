----------------------------- MODULE AnswerScope -----------------------------
(* Which documents may answer a question (answering._scope_ranked).  A      *)
(* question may ask for a type of document and name subjects; the sources   *)
(* it may draw from are those of the type that name enough of the subjects. *)
(* When none names them all, sources are joined, but only through the       *)
(* identifier of one record, of the type the question asks about.           *)
(*                                                                          *)
(* A question is abstracted to the type words it contains, in order, each   *)
(* with the cues around it, and to its subjects; a document to the type     *)
(* words of its name and title, the subjects it names and the records it    *)
(* identifies.  Chunks of one document are kept or dropped together.        *)
EXTENDS Naturals, Sequences, FiniteSets, SequencesExt

CONSTANTS Records,       \* <<type, value>>: explicit record identifiers
          MaxSubjects,   \* bound: names a question mentions
          MaxSources,    \* bound: documents that retrieval found
          MaxSize        \* bound: question and documents together

VARIABLES asked,         \* the question
          sources        \* the documents of the ranked chunks

vars == <<asked, sources>>

\* The types, by the precedence of _document_type.
TypeOrder == <<"addendum", "agreement", "register", "report">>
DocumentTypes == Range(TypeOrder)
LinkTypes == {r[1] : r \in Records}

\* A type word: within "... status of renewal ..", before "renewal date" and
\* the like, or after "in the", "under the".
Occurrences == [type : {"agreement", "report"}, renewal : {FALSE},
                field : BOOLEAN, cue : BOOLEAN]
               \cup [type : {"agreement", "report"}, renewal : {TRUE},
                     field : {FALSE}, cue : {FALSE}]

\* change: the first type word a change verb follows closely, or 0.
Questions == [words : UNION {[1 .. n -> Occurrences] : n \in 0 .. 2}, change : 0 .. 2,
              subjects : {1 .. n : n \in 0 .. MaxSubjects}, link : LinkTypes \cup {"none"}]

Sources == [name : {{}, {"report"}}, title : {{}, {"agreement", "report"}},
            subjects : SUBSET (1 .. MaxSubjects),
            records : {R \in SUBSET Records : Cardinality(R) <= 2}]
-----------------------------------------------------------------------------
(* Forms the definitions below must not take. *)
SomeRecord(G) == \E r \in Records : /\ r[1] = asked.link
                                    /\ \E i \in G : r \in sources[i].records
-----------------------------------------------------------------------------
(* _requested_document_type.  *)
Eligible == SelectSeq(asked.words, LAMBDA w : ~w.renewal)
Cued == SelectSeq(Eligible, LAMBDA w : w.cue /\ ~w.field)
Changing == IF asked.change \in DOMAIN asked.words
            THEN SelectSeq(SubSeq(asked.words, asked.change, Len(asked.words)),
                           LAMBDA w : ~w.renewal)
            ELSE <<>>
FirstType(words) == IF words = <<>> THEN "none" ELSE words[1].type

RequestedType ==
    IF Cued # <<>> THEN FirstType(Cued)
    ELSE IF Cardinality({w.type : w \in Range(Eligible)}) = 1
         THEN IF Eligible[1].field THEN "none" ELSE FirstType(Eligible)
         ELSE FirstType(Changing)

(* _document_type: the name decides before the title.  *)
FirstOf(words) == LET I == {i \in DOMAIN TypeOrder : TypeOrder[i] \in words}
                  IN  IF I = {} THEN "none"
                      ELSE TypeOrder[CHOOSE i \in I : \A j \in I : i <= j]
TypeOf(s) == IF FirstOf(s.name) # "none" THEN FirstOf(s.name) ELSE FirstOf(s.title)

(* _scope_ranked: documents of the type, the subjects each names, and the  *)
(* two thirds of them that it must name.                                   *)
OfType == {i \in DOMAIN sources : RequestedType \in {"none", TypeOf(sources[i])}}
Named(i) == sources[i].subjects \cap asked.subjects
NamedBy(G) == UNION {Named(i) : i \in G}
Threshold == LET n == (2 * Cardinality(asked.subjects) + 2) \div 3 IN IF n < 1 THEN 1 ELSE n
Allowed == {i \in OfType : asked.subjects = {} \/ Cardinality(Named(i)) >= Threshold}

(* Sources are joined when they all identify the one record of the asked   *)
(* type, and together name every subject.                                  *)
Sharing(r) == {i \in OfType : r \in sources[i].records}
OneRecord(G) == Cardinality({r \in Records : r[1] = asked.link
                                 /\ \E i \in G : r \in sources[i].records}) = 1
Joins(r) == /\ Cardinality(Sharing(r)) >= 2
            /\ r[1] = asked.link
            /\ OneRecord(Sharing(r))
            /\ NamedBy(Sharing(r)) = asked.subjects
Linked == UNION {Sharing(r) : r \in {q \in Records : Joins(q)}}

NeedsJoin == /\ RequestedType = "none"
             /\ asked.subjects # {}
             /\ NamedBy(OfType) = asked.subjects
             /\ \A i \in OfType : Named(i) # asked.subjects

ScopeRanked ==
    IF RequestedType = "none" /\ asked.subjects = {} THEN DOMAIN sources
    ELSE IF NeedsJoin THEN Linked
         ELSE Allowed
-----------------------------------------------------------------------------
Init == /\ asked \in Questions
        /\ asked.change <= Len(asked.words)
        /\ asked.words = <<>> \/ asked.link = "none"
        /\ sources = <<>>

(* Retrieval finds a document.  What the question cannot tell apart is not *)
(* varied.                                                                 *)
Size == 2 * Len(asked.words) + 2 * Cardinality(asked.subjects) + Len(sources)

Find == /\ Len(sources) < MaxSources
        /\ Size < MaxSize
        /\ \E s \in Sources :
              /\ asked.words = <<>> => s.name = {} /\ s.title = {}
              /\ asked.link = "none" => s.records = {}
              /\ s.subjects \subseteq asked.subjects
              /\ sources' = Append(sources, s)
        /\ UNCHANGED asked

Next == Find

Spec == Init /\ [][Next]_vars
-----------------------------------------------------------------------------
(* A group of sources that tells of one record: they all identify it and   *)
(* no other of the asked type, and no subject is left without a source.    *)
TellsOfOneRecord(G) ==
    /\ Cardinality(G) >= 2
    /\ \E r \in Records : \A i \in G :
          {q \in sources[i].records : q[1] = asked.link} = {r}
    /\ asked.subjects \subseteq UNION {sources[i].subjects : i \in G}

(* A source is in scope for a reason of its own or of its group: it names  *)
(* most subjects, while the others occur nowhere or together in one        *)
(* document, or it tells with others of one record.  Subjects that only    *)
(* happen to occur in several documents of the corpus never join them.     *)
ScopeIsJustified ==
    asked.subjects # {} =>
        \A i \in ScopeRanked :
            \/ /\ 3 * Cardinality(Named(i)) >= 2 * Cardinality(asked.subjects)
               /\ ~NeedsJoin
            \/ \E G \in SUBSET ScopeRanked : i \in G /\ TellsOfOneRecord(G)

\* The inductive invariant.
ScopeInv == asked \in Questions /\ sources \in Seq(Sources)
==============================================================================
