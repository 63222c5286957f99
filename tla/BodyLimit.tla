------------------------------ MODULE BodyLimit ------------------------------
(***************************************************************************)
(* RequestBodyLimitMiddleware around one HTTP request: the declared length *)
(* is checked before the application runs, the streamed length while it    *)
(* reads.  The application (external) reads chunks, starts its response    *)
(* whenever it likes, and may or may not catch the exception its receive   *)
(* raises.                                                                 *)
(***************************************************************************)
EXTENDS Integers

CONSTANTS
    MaxBytes,  \* max_request_bytes
    Chunks,    \* sizes of the chunks a client sends
    Lengths,   \* values of the first Content-Length header
    MaxReads   \* bound of the chunks the application reads

\* The header as int() reads it: {} when missing or malformed.
Headers == {{}} \cup {{n} : n \in Lengths}

VARIABLES
    header,     \* the Content-Length header
    pc,         \* "screen", "app", "raised", "refused", "failed" or "done"
    consumed,   \* bytes counted by limited_receive
    delivered,  \* bytes the application was given
    starts,     \* http.response.start messages sent
    reads       \* chunks received

vars == <<header, pc, consumed, delivered, starts, reads>>

Init ==
    /\ header \in Headers
    /\ pc = "screen"
    /\ consumed = 0
    /\ delivered = 0
    /\ starts = 0
    /\ reads = 0

\* A negative length declares nothing.
DeclaredTooLarge == \E bytes \in header : bytes >= 0 /\ bytes > MaxBytes

SendTooLarge ==
    /\ pc' = "refused"
    /\ starts' = starts + 1

Screen ==
    /\ pc = "screen"
    /\ IF DeclaredTooLarge THEN SendTooLarge ELSE pc' = "app" /\ UNCHANGED starts
    /\ UNCHANGED <<header, consumed, delivered, reads>>

\* Mutant: each chunk is compared by itself.
OverByChunk(n) == n > MaxBytes

Over(n) == consumed + n > MaxBytes

LimitedReceive(n) ==
    /\ pc = "app" /\ reads < MaxReads
    /\ reads' = reads + 1
    /\ consumed' = consumed + n
    /\ IF Over(n) THEN pc' = "raised" /\ UNCHANGED delivered
                  ELSE delivered' = delivered + n /\ UNCHANGED pc
    /\ UNCHANGED <<header, starts>>

\* tracked_send passes the application's response start on.
TrackedSend ==
    /\ pc = "app" /\ starts = 0
    /\ starts' = 1
    /\ UNCHANGED <<header, pc, consumed, delivered, reads>>

AppCatches ==
    /\ pc = "raised"
    /\ pc' = "app"
    /\ UNCHANGED <<header, consumed, delivered, starts, reads>>

\* Mutant: the answer is sent whatever went out before.
EscapesUnchecked ==
    /\ pc = "raised"
    /\ SendTooLarge
    /\ UNCHANGED <<header, consumed, delivered, reads>>

Escapes ==
    /\ pc = "raised"
    /\ IF starts > 0 THEN pc' = "failed" /\ UNCHANGED starts ELSE SendTooLarge
    /\ UNCHANGED <<header, consumed, delivered, reads>>

AppFinishes ==
    /\ pc = "app" /\ starts = 1
    /\ pc' = "done"
    /\ UNCHANGED <<header, consumed, delivered, starts, reads>>

Next ==
    \/ Screen
    \/ \E n \in Chunks : LimitedReceive(n)
    \/ TrackedSend
    \/ AppCatches
    \/ Escapes
    \/ AppFinishes

Spec == Init /\ [][Next]_vars
-----------------------------------------------------------------------------
(* However the body is cut into chunks and whatever its header says, the    *)
(* application is never given more than max_request_bytes (limited_receive).*)
BodyIsBounded == delivered <= MaxBytes

(* A response is started once: _send_too_large never follows a response the *)
(* application had started (tracked_send).                                  *)
OneResponse == starts <= 1

\* The inductive invariant.  Nothing is delivered that was not counted, and no
\* chunk once the count is over; a response starts in the application or,
\* instead, in a refusal.
BodyInv ==
    /\ consumed \in Nat /\ delivered \in Nat
    /\ delivered <= consumed /\ BodyIsBounded
    /\ starts \in {0, 1}
    /\ pc = "screen" => starts = 0
==============================================================================
