------------------------------ MODULE PdfParser ------------------------------
(* The isolation of the PDF parser (processing._parse_pdf_isolated): a      *)
(* child process parses under resource limits and sends one message through *)
(* a pipe; the parent waits for its first bytes until a deadline, then      *)
(* receives it without one, and stops the child whatever happened.          *)
EXTENDS Naturals, Sequences

VARIABLES document,      \* what the file holds
          child,         \* "running", "sending", "sent", "dead"
          lingers,       \* the child does not die of a SIGTERM
          message, pipe, \* what is being sent; how much of it has arrived
          parent,        \* "polling", "receiving", "stopping", "killing", "done"
          late,          \* the deadline has passed
          result

vars == <<document, child, lingers, message, pipe, parent, late, result>>

\* Kinds of file: readable, refused by name, too hungry, or endless.
Documents == {"pages", "encrypted_pdf", "too_many_pages", "too_much_extracted_text",
              "invalid_pdf", "hungry", "endless"}
Codes == {"encrypted_pdf", "too_many_pages", "too_much_extracted_text", "invalid_pdf",
          "pdf_resource_limit", "pdf_processing_timeout"}
Alive == child # "dead"
-----------------------------------------------------------------------------
(* Forms the definitions below must not take. *)
HeldOpen == TRUE
-----------------------------------------------------------------------------
(* The end of the pipe that is written is only open in the child: the       *)
(* parent closed its own.                                                   *)
WriteEndOpen == Alive

(* _pdf_parser_child and _parse_pdf_pages: the pages, the refusal, or the   *)
(* limit that was met.                                                      *)
Verdict == CASE document = "pages" -> "ok"
             [] document = "hungry" -> "pdf_resource_limit"
             [] OTHER -> document

ParsePages == /\ child = "running"
              /\ document # "endless"
              /\ child' = "sending"
              /\ message' = Verdict
              /\ UNCHANGED <<document, lingers, pipe, parent, late, result>>

(* A message is written in pieces; then the child closes its end and exits. *)
Send == /\ child = "sending"
        /\ \/ pipe = "empty" /\ pipe' = "partial" /\ UNCHANGED child
           \/ pipe' = "whole" /\ child' = "sent"
        /\ UNCHANGED <<document, lingers, message, parent, late, result>>

(* Its CPU limit, or the kernel, at any moment; an endless one for sure.   *)
ChildDies == /\ Alive
             /\ child' = "dead"
             /\ UNCHANGED <<document, lingers, message, pipe, parent, late, result>>
-----------------------------------------------------------------------------
Deadline == /\ parent = "polling" /\ ~late
            /\ late' = TRUE
            /\ UNCHANGED <<document, child, lingers, message, pipe, parent, result>>

EndOfFile == ~WriteEndOpen /\ pipe # "whole"

(* poll: bytes or the end of the pipe have arrived, or the deadline passed. *)
Poll == /\ parent = "polling"
        /\ \/ /\ pipe # "empty" \/ EndOfFile
              /\ parent' = "receiving"
              /\ UNCHANGED result
           \/ /\ pipe = "empty" /\ ~EndOfFile /\ late
              /\ parent' = "stopping"
              /\ result' = "pdf_processing_timeout"
        /\ UNCHANGED <<document, child, lingers, message, pipe, late>>

(* recv: the message; EOFError before it, OSError within it.               *)
CanReceive == pipe = "whole" \/ EndOfFile
Receive == /\ parent = "receiving"
           /\ CanReceive
           /\ parent' = "stopping"
           /\ result' = CASE pipe = "whole" -> message
                          [] pipe = "empty" -> "pdf_resource_limit"
                          [] pipe = "partial" -> "OSError"
           /\ UNCHANGED <<document, child, lingers, message, pipe, late>>

(* _stop_process: join, terminate, kill.  *)
StopProcess == /\ parent = "stopping"
               /\ IF Alive /\ lingers THEN parent' = "killing" /\ UNCHANGED child
                  ELSE parent' = "done" /\ child' = "dead"
               /\ UNCHANGED <<document, lingers, message, pipe, late, result>>

KillProcess == /\ parent = "killing"
               /\ parent' = "done"
               /\ child' = "dead"
               /\ UNCHANGED <<document, lingers, message, pipe, late, result>>
-----------------------------------------------------------------------------
Init == /\ document \in Documents
        /\ lingers \in BOOLEAN
        /\ child = "running"
        /\ message = "none" /\ pipe = "empty"
        /\ parent = "polling"
        /\ late = FALSE
        /\ result = "none"

Next == \/ ParsePages \/ Send \/ ChildDies
        \/ Deadline \/ Poll \/ Receive \/ StopProcess \/ KillProcess

Spec == Init /\ [][Next]_vars
-----------------------------------------------------------------------------
(* The parent says of a document only what its child found: pages when it   *)
(* parsed them all, a refusal it sent, the limit when it died without a     *)
(* word, a timeout when nothing had come; only a child that died within its *)
(* message escapes as an OSError.  While the parent receives, the child     *)
(* lives or all is there: it never waits on a dead one; and the child is    *)
(* gone when the parent is done.                                            *)
VerdictIsOfChild ==
    /\ parent = "receiving" => Alive \/ CanReceive
    /\ parent = "done" =>
          /\ ~Alive
          /\ result = "ok" => document = "pages"
          /\ result = "OSError" => pipe = "partial"
          /\ result \in {"ok", "OSError"} \cup Codes
          /\ result \in Codes \ {"pdf_processing_timeout"} =>
                result = Verdict \/ (result = "pdf_resource_limit" /\ pipe = "empty")
          /\ result = "pdf_processing_timeout" => late
-----------------------------------------------------------------------------
(* The inductive invariant: what has been sent is the verdict, and what the *)
(* parent says once it stops waiting stays true of the child.               *)
ResultIsOfChild ==
    \/ result = Verdict /\ document # "endless"
    \/ result = "pdf_processing_timeout" /\ late
    \/ result = "pdf_resource_limit" /\ pipe = "empty" /\ ~Alive
    \/ result = "OSError" /\ pipe = "partial" /\ ~Alive

PdfInv ==
    /\ document \in Documents
    /\ child \in {"running", "sending", "sent", "dead"}
    /\ pipe \in {"empty", "partial", "whole"}
    /\ child = "running" => pipe = "empty"
    /\ child = "sent" => pipe = "whole"
    /\ child = "sending" \/ pipe # "empty" => message = Verdict /\ document # "endless"
    /\ parent \in {"polling", "receiving", "stopping", "killing", "done"}
    /\ parent \in {"stopping", "killing", "done"} => ResultIsOfChild
    /\ parent = "done" => ~Alive
==============================================================================
