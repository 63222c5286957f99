-------------------------- MODULE SupplierExtraction --------------------------
(* One field of the structured extraction, from the lines of a document to  *)
(* what the API serves: lines that read as instructions are left out, the   *)
(* field is read by the rules of its extractor (v1 or v3), each value cites *)
(* its line, and what is stored is filtered once more when it is served.    *)
(*                                                                          *)
(* A line is abstracted to whether it bears on the field, labelled or in    *)
(* prose, to its value, and to its trust: plain, an instruction, or half of *)
(* one that is split over lines.  The fields do not interact, except that   *)
(* conflicting renewal dates become a risk; duties are the obligations.     *)
EXTENDS Naturals, Sequences, FiniteSets, SequencesExt

CONSTANTS Fields,        \* fields to extract
          Values,        \* values a line may give
          MaxLines       \* bound: lines of the document, by field

VARIABLES version,       \* the extractor, 1 or 3; 0: of an earlier release
          field,
          lines,
          stored, served

vars == <<version, field, lines, stored, served>>

Single == {"organization", "document_type", "effective", "renewal"}
Listed == {"amounts", "duties", "people", "risks"}
Short == {"effective", "renewal", "amounts"}   \* never an instruction themselves

\* chunk 1 is on page 1; heading: a Markdown heading.  within: whether the
\* value, not only its line, reads as the instruction.
Lines == [chunk : 1 .. 2, form : {"label", "prose"}, value : Values, heading : BOOLEAN,
          trust : {"plain", "half", "unsafe"}, within : BOOLEAN]
         \cup [chunk : 1 .. 2, form : {"none"}, value : {"none"}, heading : {FALSE},
               trust : {"half"}, within : {FALSE}]
Sayable(l) ==
    /\ l.heading => field = "document_type" /\ l.form = "prose"
    /\ l.within => l.trust # "plain" /\ field \notin Short
    /\ field = "duties" /\ l.form = "prose" => l.within = (l.trust # "plain")

Pending == [values |-> {}, cites |-> {}, conflict |-> FALSE]
-----------------------------------------------------------------------------
(* Forms the definitions below must not take. *)
LineByLine(trust) == {i \in DOMAIN trust : trust[i] = "unsafe"}
-----------------------------------------------------------------------------
First(I) == CHOOSE i \in I : \A j \in I : i <= j
Firsts(I) == IF I = {} THEN {} ELSE {First(I)}

(* untrusted_document_fragment_indexes: instructions, and all of a group    *)
(* that only is one when it is joined.                                      *)
FragmentIndexes(trust) ==
    IF Cardinality({i \in DOMAIN trust : trust[i] = "half"}) >= 2 THEN DOMAIN trust
    ELSE {i \in DOMAIN trust : trust[i] = "unsafe"}

(* _line_entries, chunk by chunk, without headings.  *)
LinesOf(c) == {i \in DOMAIN lines : lines[i].chunk = c /\ ~lines[i].heading}
Entries == UNION {LinesOf(c) \ FragmentIndexes([i \in LinesOf(c) |-> lines[i].trust]) :
                     c \in 1 .. 2}

Labelled(I) == {i \in I : lines[i].form = "label"}
Prose(I) == {i \in I : lines[i].form = "prose"}
Page1(I) == {i \in I : lines[i].chunk = 1}

(* _append_unique: the first line of each value.  *)
Unique(I) == {i \in I : \A j \in I : j < i => lines[j].value # lines[i].value}

(* Each rule returns the lines it takes its values from.                   *)
LabelFirst(prose) == IF Labelled(Entries) # {} THEN Firsts(Labelled(Entries)) ELSE Firsts(prose)
Hits == Labelled(Entries) \cup Prose(Entries)

(* extract_supplier_fields.  A title is looked for in all lines of page 1,  *)
(* also in those that are left out above.                                   *)
RenewalDates == Unique(Hits)
FieldsV1 ==
    CASE field = "organization" -> LabelFirst(Page1(Prose(Entries)))
      [] field = "document_type" -> LabelFirst(Page1(Prose(DOMAIN lines)))
      [] field = "effective" -> Firsts(Hits)
      [] field = "renewal" -> IF Cardinality(RenewalDates) > 1 THEN {} ELSE RenewalDates
      [] field = "people" -> Unique(Labelled(Entries))
      [] OTHER -> Unique(Hits)
Conflict == field = "renewal" /\ Cardinality(RenewalDates) > 1

(* extract_supplier_fields_v3.  *)
TitleFirst == IF Page1(Prose(Entries)) # {} THEN Firsts(Page1(Prose(Entries)))
              ELSE Firsts(Labelled(Entries))
FieldsV3 ==
    CASE field = "document_type" -> TitleFirst
      [] field \in {"organization", "effective", "renewal"} -> LabelFirst(Prose(Entries))
      [] OTHER -> Unique(Hits)

(* Records of earlier releases cite every line.  *)
Sources == CASE version = 1 -> FieldsV1
             [] version = 3 -> FieldsV3
             [] version = 0 -> IF field \in Single THEN Firsts(Labelled(DOMAIN lines))
                               ELSE Unique(Labelled(DOMAIN lines) \cup Prose(DOMAIN lines))

(* Conflicting dates are stored as a risk that cites all of them.          *)
Extracted == IF version = 1 /\ Conflict
             THEN [values |-> {}, cites |-> RenewalDates, conflict |-> TRUE]
             ELSE [values |-> Sources, cites |-> Sources, conflict |-> FALSE]

Extract == /\ stored = Pending
           /\ lines # <<>>
           /\ stored' = Extracted
           /\ UNCHANGED <<version, field, lines, served>>
-----------------------------------------------------------------------------
(* _sanitize_document_output of {value, citations}.  Version 1 cites the    *)
(* amount, not its line.                                                    *)
ValueTrust(i) == IF lines[i].within THEN lines[i].trust ELSE "plain"
CiteTrust(i) == IF field = "amounts" /\ version = 1 THEN "plain" ELSE lines[i].trust

SafeValues == IF field \in Listed
              THEN stored.values \ FragmentIndexes([i \in stored.values |-> ValueTrust(i)])
              ELSE {i \in stored.values : ValueTrust(i) # "unsafe"}
SafeCites == {i \in stored.cites : CiteTrust(i) # "unsafe"}
Sanitized == IF SafeValues # {} /\ SafeCites = {} THEN Pending
             ELSE [values |-> SafeValues, cites |-> SafeCites, conflict |-> stored.conflict]

Serve == /\ stored # Pending
         /\ served = Pending
         /\ served' = Sanitized
         /\ UNCHANGED <<version, field, lines, stored>>
-----------------------------------------------------------------------------
Init == /\ version \in {0, 1, 3}
        /\ field \in Fields
        /\ lines = <<>>
        /\ stored = Pending
        /\ served = Pending

ReadLine == /\ stored = Pending
            /\ Len(lines) < MaxLines[field]
            /\ \E l \in Lines : /\ Sayable(l)
                                /\ lines = <<>> => l.chunk = 1
                                /\ lines # <<>> => Last(lines).chunk <= l.chunk
                                /\ lines' = Append(lines, l)
            /\ UNCHANGED <<version, field, stored, served>>

Next == ReadLine \/ Extract \/ Serve

Spec == Init /\ [][Next]_vars
-----------------------------------------------------------------------------
(* Half of an instruction whose other half stands in the same chunk.       *)
SplitInstruction(i) ==
    /\ lines[i].trust = "half"
    /\ \E j \in DOMAIN lines \ {i} : /\ lines[j].trust = "half"
                                     /\ lines[j].chunk = lines[i].chunk
                                     /\ ~lines[j].heading

(* What is served rests on evidence (FR-12, FR-13): no value without a      *)
(* citation, and none without its own unless an earlier release stored it;  *)
(* no value or citation that is an instruction, whole or split over lines,  *)
(* except a title, which version 1 reads from any line of page 1.  When     *)
(* version 1 serves a renewal date, no admitted line gives another; when    *)
(* they differ it serves none, and the risk cites two dates at least.       *)
ServedIsCited ==
    /\ served.values # {} => served.cites # {}
    /\ version # 0 => served.values \subseteq served.cites
    /\ \A i \in served.values : ~(lines[i].within /\ lines[i].trust = "unsafe")
    /\ version # 0 =>
          \A i \in served.values \cup served.cites :
              /\ lines[i].trust # "unsafe"
              /\ SplitInstruction(i) => version = 1 /\ field = "document_type"
    /\ version = 1 /\ field = "renewal" =>
          /\ \A i \in served.values : \A j \in Hits : lines[j].value = lines[i].value
          /\ served.conflict => served.values = {} /\ Cardinality(served.cites) > 1

\* The inductive invariant: no line is read once something is stored.
ExtractionInv ==
    /\ version \in {0, 1, 3}
    /\ lines \in Seq(Lines)
    /\ stored # Pending => stored = Extracted
    /\ served # Pending => stored # Pending /\ served = Sanitized
==============================================================================
