----------------------------- MODULE RateLimiter -----------------------------
(***************************************************************************)
(* RateLimitMiddleware: a sliding log of admitted requests per (bucket,    *)
(* client) with a bounded number of logs.                                  *)
(*                                                                         *)
(* The deque of a key is kept as the whole history of its admissions and a *)
(* head: popleft moves the head, evicting a key moves it past the end.     *)
(* _admit reads the clock and runs its locked section without a suspension *)
(* in between (nothing is awaited under the lock), so it is one step.      *)
(* Time is counted in ticks, Second of them to a second, because a float   *)
(* clock can differ by fractions that retry_after rounds up.               *)
(***************************************************************************)
EXTENDS Integers, Sequences, FiniteSets

CONSTANTS
    Keys,     \* (bucket, client) pairs
    Limit,    \* the limit of each key's bucket
    Window,   \* window_seconds, in ticks
    Second,   \* ticks in a second
    MaxKeys,  \* max_keys
    MaxTime,  \* bound of the clock
    MaxAdmitted  \* bound of the admissions of each key

\* What the constructor refuses, and a clock that has a resolution.
ASSUME LimiterAssumption ==
    /\ Limit \in [Keys -> Nat \ {0}]
    /\ Window \in Nat \ {0}
    /\ Second \in Nat \ {0}
    /\ MaxKeys \in Nat \ {0}
    /\ MaxTime \in Nat
    /\ MaxAdmitted \in Nat

VARIABLES
    clock,     \* monotonic()
    known,     \* the keys of _events
    admitted,  \* admitted[k]: the times of all admissions of k
    head,      \* the deque of k is admitted[k] from head[k] on
    lost,      \* how many admissions of k an eviction forgot too early
    promise    \* promise[k]: when the last refusal of k said to come back

vars == <<clock, known, admitted, head, lost, promise>>

Logged(k) == head[k] .. Len(admitted[k])
Expired(k, i) == admitted[k][i] <= clock - Window

Init ==
    /\ clock = 0
    /\ known = {}
    /\ admitted = [k \in Keys |-> <<>>]
    /\ head = [k \in Keys |-> 1]
    /\ lost = [k \in Keys |-> 0]
    /\ promise = [k \in Keys |-> 0]

Tick ==
    /\ clock < MaxTime
    /\ clock' = clock + 1
    /\ UNCHANGED <<known, admitted, head, lost, promise>>

-----------------------------------------------------------------------------
\* Mutant: the loop looks one event too far.
PrunedTooFar(k, h) ==
    /\ h \in head[k] .. Len(admitted[k]) + 1
    /\ \A i \in head[k] .. h - 2 : Expired(k, i)
    /\ h - 1 \in Logged(k) => ~Expired(k, h - 1)

\* Where "while events and events[0] <= cutoff: popleft()" stops.
Pruned(k, h) ==
    /\ h \in head[k] .. Len(admitted[k]) + 1
    /\ \A i \in head[k] .. h - 1 : Expired(k, i)
    /\ h \in Logged(k) => ~Expired(k, h)

Newest(k) == admitted[k][Len(admitted[k])]

\* Who makes room for k.  Several logs may end at one time: min takes the
\* first in insertion order, here any of them.
Evicted(k) ==
    IF k \in known \/ Cardinality(known) < MaxKeys
    THEN {{}}
    ELSE {{v} : v \in {u \in known : \A w \in known : Newest(u) <= Newest(w)}}

\* Mutant: rounded down.
RetryAfterFloor(k, h) ==
    LET wait == (admitted[k][h] + Window - clock) \div Second
    IN  IF wait < 1 THEN 1 ELSE wait

\* max(1, math.ceil(events[0] + window - now))
RetryAfter(k, h) ==
    LET wait == (admitted[k][h] + Window - clock + Second - 1) \div Second
    IN  IF wait < 1 THEN 1 ELSE wait

\* Mutant: one request too many.
FullOffByOne(k, h) == Len(admitted[k]) - h + 1 > Limit[k]

\* len(events) >= limit, after pruning.
Full(k, h) == Len(admitted[k]) - h + 1 >= Limit[k]

Admit(k, h, out) ==
    /\ ~Full(k, h)
    /\ admitted' = [admitted EXCEPT ![k] = Append(@, clock)]
    /\ head' = [j \in Keys |-> IF j \in out THEN Len(admitted[j]) + 1
                               ELSE IF j = k THEN h ELSE head[j]]
    /\ promise' = [promise EXCEPT ![k] = 0]

Refuse(k, h, out) ==
    /\ Full(k, h)
    /\ promise' = [promise EXCEPT ![k] = clock + Second * RetryAfter(k, h)]
    /\ head' = [j \in Keys |-> IF j \in out THEN Len(admitted[j]) + 1
                               ELSE IF j = k THEN h ELSE head[j]]
    /\ UNCHANGED admitted

Serve(k, h, out) ==
    /\ Pruned(k, h)
    /\ known' = (known \ out) \cup {k}
    /\ lost' = [j \in Keys |-> IF j \in out /\ ~Expired(j, Len(admitted[j]))
                               THEN Len(admitted[j]) ELSE lost[j]]
    /\ Admit(k, h, out) \/ Refuse(k, h, out)
    /\ UNCHANGED clock

Request(k) ==
    /\ Len(admitted[k]) < MaxAdmitted
    /\ \E h \in 1 .. Len(admitted[k]) + 1, out \in Evicted(k) : Serve(k, h, out)

Next == Tick \/ \E k \in Keys : Request(k)

Spec == Init /\ [][Next]_vars

-----------------------------------------------------------------------------
TypeOK ==
    /\ clock \in 0 .. MaxTime
    /\ known \subseteq Keys
    /\ admitted \in [Keys -> Seq(0 .. MaxTime)]
    /\ head \in [Keys -> Nat \ {0}]
    /\ lost \in [Keys -> Nat]
    /\ promise \in [Keys -> Nat]

(* The memory of _admit is bounded: at most max_keys logs, none longer than *)
(* its limit.  None is ever empty, so that min may look at its last event.  *)
LogsBounded ==
    /\ Cardinality(known) <= MaxKeys
    /\ \A k \in Keys : /\ Len(admitted[k]) - head[k] + 1 <= Limit[k]
                       /\ head[k] <= Len(admitted[k]) <=> k \in known

(* What _admit is for: of any limit + 1 consecutive admissions of a client  *)
(* the last is at least a window after the first, wherever the window       *)
(* starts, unless evictions made _events forget the first.                  *)
WindowBound ==
    \A k \in Keys : \A i \in lost[k] + 1 .. Len(admitted[k]) - Limit[k] :
        admitted[k][i + Limit[k]] - admitted[k][i] >= Window

(* A client that comes back when Retry-After of _send_rate_limited said,    *)
(* with no other request of its key admitted in between, is not refused     *)
(* again.                                                                   *)
RetryIsHonest ==
    [][\A k \in Keys : promise[k] # 0 /\ promise'[k] > promise[k]
                       => clock < promise[k]]_vars
=============================================================================
