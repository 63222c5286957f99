---------------------------- MODULE ServiceProofs ----------------------------
(* Theorems about the parts of Service that AnsweringProofs leaves: what    *)
(* they say of a behaviour of the service is that while it is of the part,  *)
(* the inductive invariant of the part's module holds.                      *)
EXTENDS Service, FiniteSetTheorems, FunctionTheorems, SequenceTheorems,
        WellFoundedInduction, TLAPS

\* Some number of a set of numbers is the least.
LEMMA HasLeast ==
    ASSUME NEW T, T \subseteq Nat, T # {}
    PROVE  \E x \in T : \A y \in T : x <= y
<1> DEFINE R == OpToRel(<, Nat)
<1>1. IsWellFoundedOn(R, Nat)
  BY NatLessThanWellFounded
<1> HIDE DEF R
<1>2. PICK x \in T : \A y \in T : ~ (<<y, x>> \in R)
  BY <1>1, WFMin
<1>3. \A y \in T : y < x => <<y, x>> \in R
  <2> SUFFICES ASSUME NEW y \in T, y < x
               PROVE  <<y, x>> \in {ss \in Nat \X Nat : ss[1] < ss[2]}
    BY DEF R, OpToRel
  <2> QED
    OBVIOUS
<1>4. \A y \in T : ~ (y < x)
  BY <1>2, <1>3, Zenon
<1>5. \A y \in T : x <= y
  BY <1>4
<1> QED
  BY <1>5

-----------------------------------------------------------------------------
(* The rate limiter, for every set of keys, limits, window, resolution and  *)
(* number of logs.                                                          *)
(* Admission times of a key do not decrease and are in the past.            *)
TimesOrdered ==
    \A k \in Keys : \A i, j \in 1 .. Len(admitted[k]) :
        i <= j => admitted[k][i] <= admitted[k][j] /\ admitted[k][j] <= clock

(* Everything popped or evicted had expired, except what evictions lost.    *)
PoppedHaveExpired ==
    \A k \in Keys : \A i \in lost[k] + 1 .. head[k] - 1 : Expired(k, i)

(* The head of a deque is at most one past its end.                         *)
HeadInLog ==
    \A k \in Keys : /\ head[k] <= Len(admitted[k]) + 1
                    /\ k \notin known => head[k] = Len(admitted[k]) + 1
                    /\ k \in known => head[k] <= Len(admitted[k])
                    /\ Len(admitted[k]) - head[k] + 1 <= Limit[k]

LimiterInv ==
    /\ TypeOK
    /\ TimesOrdered
    /\ HeadInLog
    /\ PoppedHaveExpired
    /\ WindowBound

(* Types are inductive.                                                     *)
LEMMA TypeStep == TypeOK /\ [Next]_vars => TypeOK'
<1> USE LimiterAssumption DEF LimiterAssumption
<1> SUFFICES ASSUME TypeOK, [Next]_vars PROVE TypeOK'
  OBVIOUS
<1>1. CASE Tick
  BY <1>1 DEF Tick, TypeOK
<1>2. ASSUME NEW k \in Keys, Request(k) PROVE TypeOK'
  <2> PICK h \in 1 .. Len(admitted[k]) + 1, out \in Evicted(k) : Serve(k, h, out)
    BY <1>2 DEF Request
  <2>1. \A j \in Keys : Len(admitted[j]) \in Nat /\ admitted[j] \in Seq(0 .. MaxTime)
    BY DEF TypeOK
  <2>2. known' \subseteq Keys /\ clock' \in 0 .. MaxTime /\ lost' \in [Keys -> Nat]
    BY <2>1 DEF TypeOK, Serve
  <2>3. head' \in [Keys -> Nat \ {0}]
    <3>1. head' = [j \in Keys |-> IF j \in out THEN Len(admitted[j]) + 1
                                  ELSE IF j = k THEN h ELSE head[j]]
      BY DEF Serve, Admit, Refuse
    <3>2. h \in Nat \ {0} /\ \A j \in Keys : Len(admitted[j]) + 1 \in Nat \ {0}
      BY <2>1
    <3> QED BY <3>1, <3>2 DEF TypeOK
  <2>4. admitted' \in [Keys -> Seq(0 .. MaxTime)]
    <3>1. Append(admitted[k], clock) \in Seq(0 .. MaxTime)
      BY <2>1, AppendProperties DEF TypeOK
    <3> QED BY <3>1 DEF TypeOK, Serve, Admit, Refuse
  <2>5. promise' \in [Keys -> Nat]
    <3>1. CASE Admit(k, h, out)
      BY <3>1 DEF TypeOK, Admit
    <3>2. CASE Refuse(k, h, out)
      <4>1. h \in Logged(k) /\ ~Expired(k, h)
        BY <3>2, <2>1, SMTT(30) DEF Serve, Refuse, Full, Pruned, Logged, TypeOK
      <4>2. admitted[k][h] + Window - clock \in Nat
        BY <4>1, <2>1 DEF Expired, TypeOK, Logged
      <4> DEFINE wait == RetryAfter(k, h)
      <4>3. wait \in Nat
        BY <4>2 DEF RetryAfter
      <4>4. promise' = [promise EXCEPT ![k] = clock + Second * wait]
        BY <3>2 DEF Refuse
      <4> HIDE DEF wait
      <4>5. Second * wait \in Nat
        BY <4>3
      <4>6. clock + Second * wait \in Nat
        BY <4>5 DEF TypeOK
      <4> QED BY <4>4, <4>6 DEF TypeOK
    <3> QED BY <3>1, <3>2 DEF Serve
  <2> QED BY <2>2, <2>3, <2>4, <2>5 DEF TypeOK
<1>3. CASE UNCHANGED vars
  BY <1>3 DEF vars, TypeOK
<1> QED BY <1>1, <1>2, <1>3 DEF Next

(* The entries of a log are times.                                          *)
LEMMA ElementsAreTimes ==
    TypeOK => \A j \in Keys : /\ Len(admitted[j]) \in Nat
                              /\ \A i \in 1 .. Len(admitted[j]) : admitted[j][i] \in Nat
<1> SUFFICES ASSUME TypeOK, NEW j \in Keys
             PROVE  /\ Len(admitted[j]) \in Nat
                    /\ \A i \in 1 .. Len(admitted[j]) : admitted[j][i] \in Nat
  OBVIOUS
<1>1. admitted[j] \in Seq(0 .. MaxTime)
  BY DEF TypeOK
<1>2. Len(admitted[j]) \in Nat /\ \A i \in 1 .. Len(admitted[j]) : admitted[j][i] \in 0 .. MaxTime
  BY <1>1, ElementOfSeq, LenProperties
<1> QED BY <1>2, LimiterAssumption DEF LimiterAssumption

(* Who is evicted is another key.                                           *)
LEMMA EvictedIsOther ==
    ASSUME NEW k \in Keys, NEW out \in Evicted(k)
    PROVE  k \notin out /\ out \subseteq known
BY DEF Evicted

(* What a request does to the key it is about.                              *)
LEMMA ServeKeepsOrder ==
    ASSUME LimiterInv, NEW k \in Keys, NEW h \in 1 .. Len(admitted[k]) + 1,
           NEW out \in Evicted(k), Serve(k, h, out), TypeOK'
    PROVE  LimiterInv'
<1> USE LimiterAssumption DEF LimiterAssumption
<1>1. k \notin out /\ out \subseteq known
  BY EvictedIsOther
<1>2. \A j \in Keys : /\ Len(admitted[j]) \in Nat /\ head[j] \in Nat \ {0}
                      /\ Limit[j] \in Nat \ {0} /\ lost[j] \in Nat
  BY DEF LimiterInv, TypeOK
<1>0. \A j \in Keys : \A i \in 1 .. Len(admitted[j]) : admitted[j][i] \in Nat
  BY ElementsAreTimes DEF LimiterInv
<1>3. \A j \in Keys : \A i \in 1 .. Len(admitted[j]) :
        i \in 1 .. Len(admitted'[j]) /\ admitted'[j][i] = admitted[j][i]
  <2>1. CASE Admit(k, h, out)
    <3> SUFFICES ASSUME NEW j \in Keys, NEW i \in 1 .. Len(admitted[j])
                 PROVE  i \in 1 .. Len(admitted'[j]) /\ admitted'[j][i] = admitted[j][i]
      OBVIOUS
    <3>1. CASE j = k
      BY <2>1, <3>1, <1>2, AppendProperties DEF LimiterInv, TypeOK, Admit
    <3>2. CASE j # k
      BY <2>1, <3>2 DEF LimiterInv, TypeOK, Admit
    <3> QED BY <3>1, <3>2
  <2>2. CASE Refuse(k, h, out)
    BY <2>2 DEF Refuse
  <2> QED BY <2>1, <2>2 DEF Serve
<1>4. \A j \in Keys \ {k} : admitted'[j] = admitted[j]
  BY DEF LimiterInv, TypeOK, Serve, Admit, Refuse
<1>5. \A j \in Keys : head'[j] = IF j \in out THEN Len(admitted[j]) + 1
                                 ELSE IF j = k THEN h ELSE head[j]
  BY DEF Serve, Admit, Refuse
<1>6. \A j \in Keys : lost'[j] = IF j \in out /\ ~Expired(j, Len(admitted[j]))
                                 THEN Len(admitted[j]) ELSE lost[j]
  BY DEF Serve
<1>7. clock' = clock /\ clock \in Nat
  BY DEF Serve, LimiterInv, TypeOK
<1>8. h >= head[k] /\ \A i \in head[k] .. h - 1 : Expired(k, i)
  BY <1>2 DEF Serve, Pruned
<1>11. PoppedHaveExpired'
  <2> SUFFICES ASSUME NEW j \in Keys, NEW i \in lost'[j] + 1 .. head'[j] - 1
               PROVE  admitted'[j][i] <= clock' - Window
    BY DEF PoppedHaveExpired, Expired
  <2>0. /\ Len(admitted[j]) \in Nat /\ head[j] \in Nat \ {0} /\ lost[j] \in Nat
        /\ head[j] <= Len(admitted[j]) + 1
    BY <1>2 DEF LimiterInv, HeadInLog
  <2>1. lost'[j] \in Nat /\ head'[j] \in Nat /\ head'[j] <= Len(admitted[j]) + 1
    <3>1. j = k => h \in Nat /\ h <= Len(admitted[j]) + 1
      BY <2>0
    <3> QED BY <2>0, <3>1, <1>5, <1>6, SMTT(30)
  <2>2. i \in 1 .. Len(admitted[j]) /\ i \in Nat
    BY <2>1, <1>2
  <2>3. Expired(j, i)
    <3>1. CASE j \in out
      <4>1. Expired(j, Len(admitted[j]))
        BY <3>1, <2>1, <1>2, <1>5, <1>6
      <4>2. Len(admitted[j]) \in 1 .. Len(admitted[j]) /\ i <= Len(admitted[j])
        BY <2>2, <1>2
      <4>3. admitted[j][i] <= admitted[j][Len(admitted[j])]
        BY <2>2, <4>2 DEF LimiterInv, TimesOrdered
      <4>4. admitted[j][i] \in Nat /\ admitted[j][Len(admitted[j])] \in Nat
        BY <2>2, <4>2, <1>0
      <4> QED BY <4>1, <4>3, <4>4, <1>7 DEF Expired
    <3>2. CASE j \notin out /\ i < head[j]
      <4>1. lost'[j] = lost[j] /\ i \in lost[j] + 1 .. head[j] - 1
        BY <3>2, <1>2, <1>6, <2>1, <2>2, SMTT(30)
      <4> QED BY <4>1 DEF LimiterInv, PoppedHaveExpired
    <3>3. CASE j \notin out /\ ~(i < head[j])
      <4>1. j = k /\ i \in head[k] .. h - 1
        BY <3>3, <1>2, <1>5, <2>1, <2>2
      <4> QED BY <4>1, <1>8
    <3> QED BY <3>1, <3>2, <3>3
  <2> QED BY <2>2, <2>3, <1>3, <1>7 DEF Expired
<1>9. CASE Admit(k, h, out)
  <2>1. /\ Len(admitted'[k]) = Len(admitted[k]) + 1
        /\ admitted'[k][Len(admitted[k]) + 1] = clock
    BY <1>9, <1>2 DEF LimiterInv, TypeOK, Admit
  <2>2. TimesOrdered'
    <3> SUFFICES ASSUME NEW j \in Keys, NEW a \in 1 .. Len(admitted'[j]),
                        NEW b \in 1 .. Len(admitted'[j]), a <= b
                 PROVE  admitted'[j][a] <= admitted'[j][b] /\ admitted'[j][b] <= clock'
      BY DEF TimesOrdered
    <3>1. CASE b <= Len(admitted[j])
      <4>1. a \in 1 .. Len(admitted[j]) /\ b \in 1 .. Len(admitted[j])
        BY <3>1, <1>2
      <4>2. admitted[j][a] <= admitted[j][b] /\ admitted[j][b] <= clock
        BY <4>1 DEF LimiterInv, TimesOrdered
      <4> QED BY <4>1, <4>2, <1>3, <1>7
    <3>2. CASE b > Len(admitted[j])
      <4>1. j = k /\ b = Len(admitted[k]) + 1
        BY <3>2, <1>2, <1>4, <2>1
      <4>2. CASE a = b
        BY <4>1, <4>2, <1>7, <2>1
      <4>3. CASE a < b
        <5>1. a \in 1 .. Len(admitted[k])
          BY <4>1, <4>3, <1>2
        <5>2. admitted[k][a] <= clock
          BY <5>1 DEF LimiterInv, TimesOrdered
        <5> QED BY <5>1, <5>2, <4>1, <1>3, <1>7, <2>1
      <4> QED BY <4>2, <4>3
    <3> QED BY <3>1, <3>2, <1>2
  <2>3. Len(admitted[k]) - h + 1 < Limit[k]
    BY <1>9, <1>2 DEF Admit, Full
  <2>4. HeadInLog'
    BY <1>1, <1>2, <1>4, <1>5, <2>1, <2>3, SMTT(30) DEF LimiterInv, HeadInLog, Serve
  <2>6. WindowBound'
    <3> SUFFICES ASSUME NEW j \in Keys,
                        NEW i \in lost'[j] + 1 .. Len(admitted'[j]) - Limit[j]
                 PROVE  admitted'[j][i + Limit[j]] - admitted'[j][i] >= Window
      BY DEF WindowBound
    <3>0. Len(admitted[j]) \in Nat /\ Limit[j] \in Nat \ {0} /\ lost[j] \in Nat
      BY <1>2
    <3>1. lost'[j] \in Nat /\ i \in Nat /\ (lost'[j] = lost[j] \/ lost'[j] = Len(admitted[j]))
      BY <1>2, <1>6
    <3>2. CASE i <= Len(admitted[j]) - Limit[j]
      <4>1. i \in lost[j] + 1 .. Len(admitted[j]) - Limit[j]
        BY <3>1, <3>2, <3>0
      <4>2. admitted[j][i + Limit[j]] - admitted[j][i] >= Window
        BY <4>1 DEF LimiterInv, WindowBound
      <4>3. i \in 1 .. Len(admitted[j]) /\ i + Limit[j] \in 1 .. Len(admitted[j])
        BY <4>1, <3>0, <3>1, SMTT(30)
      <4> QED BY <4>2, <4>3, <1>3
    <3>3. CASE i > Len(admitted[j]) - Limit[j]
      <4>1. j = k /\ i = Len(admitted[k]) + 1 - Limit[k]
        <5>1. i <= Len(admitted'[j]) - Limit[j]
          BY <3>0, <3>1, <2>1, <1>4
        <5>2. j = k
          BY <5>1, <3>0, <3>3, <1>4
        <5>3. Len(admitted'[j]) = Len(admitted[j]) + 1
          BY <5>2, <2>1
        <5> QED BY <5>1, <5>2, <5>3, <3>0, <3>1, <3>3, SMTT(30)
      <4>2. lost'[k] = lost[k]
        BY <1>1, <1>6
      <4>3. i \in lost[k] + 1 .. h - 1 /\ i \in 1 .. Len(admitted[k])
        BY <4>1, <4>2, <3>1, <2>3, <1>2, SMTT(30)
      <4>4. Expired(k, i)
        <5>1. CASE i < head[k]
          <6>1. i \in lost[k] + 1 .. head[k] - 1
            BY <5>1, <4>3, <1>2
          <6> QED BY <6>1 DEF LimiterInv, PoppedHaveExpired
        <5>2. CASE ~(i < head[k])
          <6>1. i \in head[k] .. h - 1
            BY <5>2, <4>3, <1>2
          <6> QED BY <6>1, <1>8
        <5> QED BY <5>1, <5>2
      <4>5. i + Limit[k] = Len(admitted[k]) + 1
        BY <4>1, <1>2
      <4>6. admitted'[k][i] = admitted[k][i] /\ admitted[k][i] \in Nat
        BY <4>3, <1>0, <1>3
      <4>7. admitted'[k][i + Limit[k]] = clock /\ admitted[k][i] <= clock - Window
        BY <4>4, <4>5, <2>1 DEF Expired
      <4>8. clock - admitted[k][i] >= Window
        BY <4>6, <4>7, <1>7
      <4> QED BY <4>1, <4>6, <4>7, <4>8
    <3> QED BY <3>2, <3>3
  <2> QED BY <1>11, <2>2, <2>4, <2>6 DEF LimiterInv
<1>10. CASE Refuse(k, h, out)
  <2>1. admitted' = admitted /\ h <= Len(admitted[k])
    BY <1>10, <1>2 DEF Refuse, Full
  <2>2. TimesOrdered'
    BY <1>7, <2>1 DEF LimiterInv, TimesOrdered
  <2>3. HeadInLog'
    BY <1>1, <1>2, <1>5, <1>8, <2>1, SMTT(30) DEF LimiterInv, HeadInLog, Serve
  <2>5. WindowBound'
    <3> SUFFICES ASSUME NEW j \in Keys,
                        NEW i \in lost'[j] + 1 .. Len(admitted[j]) - Limit[j]
                 PROVE  admitted[j][i + Limit[j]] - admitted[j][i] >= Window
      BY <2>1 DEF WindowBound
    <3>1. lost'[j] \in Nat /\ (lost'[j] = lost[j] \/ lost'[j] = Len(admitted[j]))
      BY <1>2, <1>6
    <3>2. i \in lost[j] + 1 .. Len(admitted[j]) - Limit[j]
      BY <3>1, <1>2
    <3> QED BY <3>2 DEF LimiterInv, WindowBound
  <2> QED BY <1>11, <2>2, <2>3, <2>5 DEF LimiterInv
<1> QED BY <1>9, <1>10 DEF Serve

(* The inductive invariant of the limiter.                                  *)
THEOREM LimiterInvariant == Spec => []LimiterInv
<1>1. Init => LimiterInv
  BY LimiterAssumption DEF LimiterAssumption, Init, LimiterInv, TypeOK, TimesOrdered, HeadInLog,
     PoppedHaveExpired, WindowBound
<1>2. LimiterInv /\ [Next]_vars => LimiterInv'
  <2> SUFFICES ASSUME LimiterInv, [Next]_vars PROVE LimiterInv'
    OBVIOUS
  <2>1. TypeOK'
    BY TypeStep DEF LimiterInv
  <2>2. CASE Tick
    <3>1. clock' = clock + 1 /\ clock \in Nat
      BY <2>2 DEF Tick, LimiterInv, TypeOK
    <3>2. HeadInLog' /\ WindowBound'
      BY <2>2 DEF Tick, LimiterInv, HeadInLog, WindowBound
    <3>3. UNCHANGED <<admitted, head, lost>>
      BY <2>2 DEF Tick
    <3>4. \A j \in Keys : \A i \in 1 .. Len(admitted[j]) : admitted[j][i] \in Nat
      BY ElementsAreTimes DEF LimiterInv
    <3>5. TimesOrdered'
      <4> SUFFICES ASSUME NEW j \in Keys, NEW a \in 1 .. Len(admitted[j]),
                          NEW b \in 1 .. Len(admitted[j]), a <= b
                   PROVE  admitted[j][a] <= admitted[j][b] /\ admitted[j][b] <= clock'
        BY <3>3 DEF TimesOrdered
      <4>1. admitted[j][a] <= admitted[j][b] /\ admitted[j][b] <= clock
        BY DEF LimiterInv, TimesOrdered
      <4> QED BY <4>1, <3>1, <3>4
    <3>6. PoppedHaveExpired'
      <4> SUFFICES ASSUME NEW j \in Keys, NEW i \in lost[j] + 1 .. head[j] - 1
                   PROVE  admitted[j][i] <= clock' - Window
        BY <3>3 DEF PoppedHaveExpired, Expired
      <4>1. i \in 1 .. Len(admitted[j])
        BY ElementsAreTimes DEF LimiterInv, TypeOK, HeadInLog
      <4>2. admitted[j][i] <= clock - Window
        BY DEF LimiterInv, PoppedHaveExpired, Expired
      <4> QED BY <4>1, <4>2, <3>1, <3>4, LimiterAssumption DEF LimiterAssumption
    <3> QED BY <2>1, <3>2, <3>5, <3>6 DEF LimiterInv
  <2>3. ASSUME NEW k \in Keys, Request(k) PROVE LimiterInv'
    BY <2>1, <2>3, ServeKeepsOrder DEF Request
  <2>4. CASE UNCHANGED vars
    BY <2>4 DEF vars, LimiterInv, TypeOK, TimesOrdered, HeadInLog, PoppedHaveExpired,
       WindowBound, Expired
  <2> QED BY <2>2, <2>3, <2>4 DEF Next
<1> QED BY <1>1, <1>2, PTL DEF Spec

(* Whatever the clients do, limit + 1 admissions of one client take at      *)
(* least a window, unless an eviction forgot the first.                     *)
THEOREM WindowIsRespected == Spec => []WindowBound
BY LimiterInvariant, PTL DEF LimiterInv

(* The eviction of _admit makes room before a log is added.                 *)
FewLogs == IsFiniteSet(known) /\ Cardinality(known) <= MaxKeys

LEMMA FewLogsStep == TypeOK /\ FewLogs /\ [Next]_vars => FewLogs'
<1> SUFFICES ASSUME TypeOK, FewLogs, [Next]_vars PROVE FewLogs'
  OBVIOUS
<1> USE LimiterAssumption DEF LimiterAssumption
<1>1. CASE UNCHANGED known
  BY <1>1 DEF FewLogs
<1>2. ASSUME NEW k \in Keys, Request(k) PROVE FewLogs'
  <2>1. PICK h \in 1 .. Len(admitted[k]) + 1, out \in Evicted(k) : Serve(k, h, out)
    BY <1>2 DEF Request
  <2>2. known' = (known \ out) \cup {k}
    BY <2>1 DEF Serve
  <2>3. Cardinality(known) \in Nat
    BY FS_CardinalityType DEF FewLogs
  <2>4. CASE k \in known
    BY <2>1, <2>2, <2>4 DEF Evicted, FewLogs
  <2>5. CASE k \notin known /\ Cardinality(known) < MaxKeys
    <3>1. known' = known \cup {k}
      BY <2>1, <2>2, <2>5 DEF Evicted
    <3>2. IsFiniteSet(known') /\ Cardinality(known') = Cardinality(known) + 1
      BY <3>1, <2>5, FS_AddElement DEF FewLogs
    <3> QED BY <3>2, <2>3, <2>5 DEF FewLogs
  <2>6. CASE k \notin known /\ ~(Cardinality(known) < MaxKeys)
    <3>1. PICK v \in known : out = {v}
      BY <2>6, <2>1 DEF Evicted
    <3>2. IsFiniteSet(known \ {v}) /\ Cardinality(known \ {v}) = Cardinality(known) - 1
      BY <3>1, FS_RemoveElement DEF FewLogs
    <3>3. IsFiniteSet((known \ {v}) \cup {k})
          /\ Cardinality((known \ {v}) \cup {k}) = Cardinality(known \ {v}) + 1
      BY <2>6, <3>2, FS_AddElement
    <3> QED BY <2>2, <2>3, <3>1, <3>2, <3>3 DEF FewLogs
  <2> QED BY <2>4, <2>5, <2>6
<1> QED BY <1>1, <1>2 DEF Next, Tick, vars

(* At most max_keys logs, none longer than its limit and none empty, so     *)
(* that the eviction of _admit may look at the last event of every log.     *)
THEOREM LogsAreBounded == Spec => []LogsBounded
<1>1. Init => FewLogs
  BY FS_EmptySet, LimiterAssumption DEF LimiterAssumption, Init, FewLogs
<1>2. LimiterInv /\ FewLogs => LogsBounded
  <2> SUFFICES ASSUME LimiterInv, FewLogs PROVE LogsBounded
    OBVIOUS
  <2>1. \A k \in Keys : head[k] \in Nat /\ Len(admitted[k]) \in Nat
    BY ElementsAreTimes DEF LimiterInv, TypeOK
  <2> QED BY <2>1 DEF LimiterInv, FewLogs, HeadInLog, LogsBounded
<1>3. LimiterInv => TypeOK
  BY DEF LimiterInv
<1> QED BY <1>1, <1>2, <1>3, FewLogsStep, LimiterInvariant, PTL DEF Spec

(* A refusal promises the end of the window that its client's oldest        *)
(* counted admission opened, and that admission stays the limit-th last.    *)
PromiseKept ==
    \A k \in Keys : promise[k] # 0 =>
        LET i == Len(admitted[k]) - Limit[k] + 1
        IN  /\ i \in 1 .. Len(admitted[k])
            /\ admitted[k][i] + Window <= promise[k]

(* ceil in seconds does not round the wait down.                            *)
LEMMA CeilingCovers ==
    ASSUME NEW k \in Keys, NEW h, admitted[k][h] \in Nat, clock \in Nat,
           admitted[k][h] + Window - clock \in Nat
    PROVE  /\ RetryAfter(k, h) \in Nat
           /\ admitted[k][h] + Window <= clock + Second * RetryAfter(k, h)
<1> USE LimiterAssumption DEF LimiterAssumption
<1> DEFINE w == admitted[k][h] + Window - clock
           q == (w + Second - 1) \div Second
<1>1. w \in Nat /\ w + Second - 1 \in Nat /\ Second > 0 /\ Second \in Nat
  OBVIOUS
<1>2. q \in Nat /\ w <= Second * q
  BY <1>1, SMTT(30)
<1>3. RetryAfter(k, h) = IF q < 1 THEN 1 ELSE q
  BY DEF RetryAfter
<1> HIDE DEF q
<1>4. RetryAfter(k, h) \in Nat /\ w <= Second * RetryAfter(k, h)
  <2>1. CASE q < 1
    <3>1. q = 0 /\ w = 0 /\ RetryAfter(k, h) = 1
      BY <1>1, <1>2, <1>3, <2>1
    <3> QED BY <1>1, <3>1
  <2>2. CASE ~(q < 1)
    BY <1>2, <1>3, <2>2
  <2> QED BY <2>1, <2>2
<1> DEFINE p == Second * RetryAfter(k, h)
<1>5. p \in Nat
  BY <1>1, <1>4
<1> HIDE DEF p
<1>6. admitted[k][h] + Window <= clock + p
  BY <1>4, <1>5 DEF p
<1> QED BY <1>4, <1>6 DEF p

(* What a refusal looks at: the limit-th last admission, not yet expired.   *)
LEMMA RefusalCounts ==
    ASSUME LimiterInv, NEW k \in Keys, NEW h \in 1 .. Len(admitted[k]) + 1, NEW out,
           Pruned(k, h), Full(k, h)
    PROVE  /\ h \in Logged(k) /\ h \in 1 .. Len(admitted[k]) /\ ~Expired(k, h)
           /\ h = Len(admitted[k]) - Limit[k] + 1
<1> USE LimiterAssumption DEF LimiterAssumption
<1>1. Len(admitted[k]) \in Nat /\ Limit[k] \in Nat \ {0} /\ head[k] \in Nat \ {0}
      /\ Len(admitted[k]) - head[k] + 1 <= Limit[k]
  BY ElementsAreTimes DEF LimiterInv, TypeOK, HeadInLog
<1>2. h >= head[k] /\ Len(admitted[k]) - h + 1 >= Limit[k] /\ h \in Nat
  BY <1>1 DEF Pruned, Full
<1>3. h \in Logged(k) /\ h \in 1 .. Len(admitted[k])
  BY <1>1, <1>2 DEF Logged
<1> QED BY <1>1, <1>2, <1>3 DEF Pruned

LEMMA PromiseStep == LimiterInv /\ LimiterInv' /\ PromiseKept /\ [Next]_vars => PromiseKept'
<1> SUFFICES ASSUME LimiterInv, LimiterInv', PromiseKept, [Next]_vars PROVE PromiseKept'
  OBVIOUS
<1> USE LimiterAssumption DEF LimiterAssumption
<1>1. CASE UNCHANGED <<admitted, promise>>
  BY <1>1 DEF PromiseKept
<1>2. ASSUME NEW k \in Keys, Request(k) PROVE PromiseKept'
  <2>1. PICK h \in 1 .. Len(admitted[k]) + 1, out \in Evicted(k) : Serve(k, h, out)
    BY <1>2 DEF Request
  <2>2. CASE Admit(k, h, out)
    <3>1. promise' = [promise EXCEPT ![k] = 0]
          /\ admitted' = [admitted EXCEPT ![k] = Append(@, clock)]
      BY <2>2 DEF Admit
    <3> QED BY <3>1 DEF PromiseKept, LimiterInv, TypeOK
  <2>3. CASE Refuse(k, h, out)
    <3>1. /\ admitted' = admitted
          /\ promise' = [promise EXCEPT ![k] = clock + Second * RetryAfter(k, h)]
      BY <2>3 DEF Refuse
    <3>2. h \in 1 .. Len(admitted[k]) /\ ~Expired(k, h) /\ h = Len(admitted[k]) - Limit[k] + 1
      BY <2>1, <2>3, RefusalCounts DEF Serve, Refuse
    <3>3. admitted[k][h] \in Nat /\ clock \in Nat
      <4>1. TypeOK /\ clock \in Nat
        BY DEF LimiterInv, TypeOK
      <4> QED BY <3>2, <4>1, ElementsAreTimes
    <3>4. admitted[k][h] + Window - clock \in Nat
      BY <3>2, <3>3 DEF Expired
    <3>5. admitted[k][h] + Window <= clock + Second * RetryAfter(k, h)
      BY <3>3, <3>4, CeilingCovers
    <3> DEFINE p == clock + Second * RetryAfter(k, h)
    <3>6. promise' = [promise EXCEPT ![k] = p] /\ admitted[k][h] + Window <= p
      BY <3>1, <3>5
    <3> HIDE DEF p
    <3>7. ASSUME NEW j \in Keys, promise'[j] # 0
          PROVE  LET i == Len(admitted'[j]) - Limit[j] + 1
                 IN  i \in 1 .. Len(admitted'[j]) /\ admitted'[j][i] + Window <= promise'[j]
      <4>1. CASE j = k
        BY <4>1, <3>1, <3>2, <3>6 DEF LimiterInv, TypeOK
      <4>2. CASE j # k
        BY <4>2, <3>1, <3>6, <3>7 DEF LimiterInv, TypeOK, PromiseKept
      <4> QED BY <4>1, <4>2
    <3> QED BY <3>7 DEF PromiseKept
  <2> QED BY <2>1, <2>2, <2>3 DEF Serve
<1> QED BY <1>1, <1>2 DEF Next, Tick, vars

(* Retry-After is honest: who comes back when it said is not refused again, *)
(* since the admission it waited for has expired and limit - 1 are left.    *)
THEOREM RetriesAreHonest == Spec => RetryIsHonest
<1> USE LimiterAssumption DEF LimiterAssumption
<1>1. Init => PromiseKept
  BY DEF Init, PromiseKept
<1>2. LimiterInv /\ PromiseKept /\ [Next]_vars =>
        [\A k \in Keys : promise[k] # 0 /\ promise'[k] > promise[k] => clock < promise[k]]_vars
  <2> SUFFICES ASSUME LimiterInv, PromiseKept, Next,
                      NEW k \in Keys, promise[k] # 0, promise'[k] > promise[k]
               PROVE  clock < promise[k]
    OBVIOUS
  <2>0. promise[k] \in Nat /\ clock \in Nat
    BY DEF LimiterInv, TypeOK
  <2>1. PICK j \in Keys : Request(j)
    BY <2>0 DEF Next, Tick
  <2>2. PICK h \in 1 .. Len(admitted[j]) + 1, out \in Evicted(j) : Serve(j, h, out)
    BY <2>1 DEF Request
  <2>3. j = k /\ Refuse(k, h, out)
    <3>1. promise \in [Keys -> Nat]
      BY DEF LimiterInv, TypeOK
    <3>2. ~Admit(j, h, out)
      <4> SUFFICES ASSUME promise' = [promise EXCEPT ![j] = 0] PROVE FALSE
        BY DEF Admit
      <4> QED BY <2>0, <3>1
    <3>3. Refuse(j, h, out)
      BY <2>2, <3>2 DEF Serve
    <3>4. j = k
      BY <2>0, <3>1, <3>3 DEF Refuse
    <3> QED BY <3>3, <3>4
  <2>4. h \in 1 .. Len(admitted[k]) /\ ~Expired(k, h) /\ h = Len(admitted[k]) - Limit[k] + 1
    BY <2>2, <2>3, RefusalCounts DEF Serve, Refuse
  <2>5. admitted[k][h] + Window <= promise[k]
    BY <2>4 DEF PromiseKept
  <2>6. admitted[k][h] \in Nat
    BY <2>4, ElementsAreTimes DEF LimiterInv
  <2> QED BY <2>0, <2>4, <2>5, <2>6 DEF Expired
<1> QED BY <1>1, <1>2, PromiseStep, LimiterInvariant, PTL DEF Spec, RetryIsHonest

(* Whichever part a behaviour of the service is of, it is one of the        *)
(* limiter: what the theorems above say of Spec they say of the service.    *)
LEMMA LimiterInService == ServiceSpec => Spec
<1>1. ServiceInit => Init
  BY DEF ServiceInit
<1>2. [ServiceNext]_serviceVars => [Next]_vars
  BY DEF ServiceNext, serviceVars
<1> QED
  BY <1>1, <1>2, PTL DEF ServiceSpec, Spec

-----------------------------------------------------------------------------
(* The request limit, for every limit, every way to cut a body into chunks, *)
(* every header and any number of reads.                                    *)

LEMMA BodyMoves ==
    ASSUME [ServiceNext]_serviceVars, part' = "body"
    PROVE  part = "body" /\ [Body!Next]_(Body!vars)
BY DEF ServiceNext, serviceVars, shared, rest3, rest5, rest6, Body!vars

LEMMA BodyInvariant == ServiceSpec => [](part = "body" => Body!BodyInv)
<1> DEFINE Inv == part = "body" => Body!BodyInv
<1>1. ServiceInit => Inv
  BY SizesAssumption DEF ServiceInit, Body!Init, Body!BodyInv, Body!BodyIsBounded
<1>2. Inv /\ [ServiceNext]_serviceVars => Inv'
  <2> SUFFICES ASSUME Body!BodyInv, [Body!Next]_(Body!vars)
               PROVE  Body!BodyInv'
    BY BodyMoves
  <2> USE SizesAssumption DEF Body!BodyInv, Body!BodyIsBounded
  <2>1. CASE Body!Screen
    BY <2>1 DEF Body!Screen, Body!SendTooLarge
  <2>2. ASSUME NEW n \in ReadSizes, Body!LimitedReceive(n)
        PROVE  Body!BodyInv'
    BY <2>2 DEF Body!LimitedReceive, Body!Over
  <2>3. CASE Body!TrackedSend
    BY <2>3 DEF Body!TrackedSend
  <2>4. CASE Body!AppCatches
    BY <2>4 DEF Body!AppCatches
  <2>5. CASE Body!Escapes
    BY <2>5 DEF Body!Escapes, Body!SendTooLarge
  <2>6. CASE Body!AppFinishes
    BY <2>6 DEF Body!AppFinishes
  <2>7. CASE UNCHANGED Body!vars
    BY <2>7 DEF Body!vars
  <2> QED
    BY <2>1, <2>2, <2>3, <2>4, <2>5, <2>6, <2>7 DEF Body!Next
<1> QED
  BY <1>1, <1>2, PTL DEF ServiceSpec

\* The application never reads more than max_request_bytes, not even when it
\* catches the exception and goes on reading (limited_receive).
THEOREM BodyAlwaysBounded == ServiceSpec => []BodyIsBounded
<1>1. (part = "body" => Body!BodyInv) => BodyIsBounded
  BY DEF Body!BodyInv, BodyIsBounded
<1> QED
  BY <1>1, BodyInvariant, PTL

\* A client sees one response start (tracked_send, _send_too_large).
THEOREM ResponseStartsOnce == ServiceSpec => []OneResponse
<1>1. (part = "body" => Body!BodyInv) => OneResponse
  BY DEF Body!BodyInv, Body!OneResponse, OneResponse
<1> QED
  BY <1>1, BodyInvariant, PTL

-----------------------------------------------------------------------------
(* Loading a local model, for every set of files, however often and         *)
(* whenever files are replaced, and embedding any number of texts.          *)

LEMMA ModelsMoves ==
    ASSUME [ServiceNext]_serviceVars, part' = "models"
    PROVE  part = "models" /\ [Models!Next]_(Models!vars)
BY DEF ServiceNext, serviceVars, shared, rest3, rest5, rest6, rest9, Models!vars,
   Models!load

LEMMA ModelsCounts == \A S : Models!Cardinality(S) = Cardinality(S)
BY DEF Models!Cardinality, Cardinality

\* Replacing a file forgets no earlier replacement.
LEMMA ReplacementsStay ==
    ASSUME x7 \in Seq(Files \X BOOLEAN), NEW f \in Files, NEW h \in BOOLEAN,
           x7' = Append(x7, <<f, h>>)
    PROVE  /\ x7' \in Seq(Files \X BOOLEAN)
           /\ \A g \in Files : Models!ReplacedAfterHashing(g) => Models!ReplacedAfterHashing(g)'
           /\ h => Models!ReplacedAfterHashing(f)'
<1>1. /\ x7' \in Seq(Files \X BOOLEAN)
      /\ DOMAIN x7 = 1 .. Len(x7) /\ DOMAIN x7' = 1 .. Len(x7) + 1
      /\ Len(x7) \in Nat
  OBVIOUS
<1>2. \A i \in DOMAIN x7 : i \in DOMAIN x7' /\ x7'[i] = x7[i]
  BY <1>1
<1>3. Len(x7) + 1 \in DOMAIN x7' /\ x7'[Len(x7) + 1] = <<f, h>>
  BY <1>1
<1>4. h => <<f, h>> = <<f, TRUE>>
  OBVIOUS
<1> QED
  BY <1>1, <1>2, <1>3, <1>4 DEF Models!ReplacedAfterHashing

\* A batch appends the numbers that follow.
LEMMA BatchContinues ==
    ASSUME NEW v, NEW n \in Nat, NEW k \in Nat, v = [i \in 1 .. n |-> i]
    PROVE  v \o [j \in 1 .. k |-> n + j] = [i \in 1 .. n + k |-> i]
<1> DEFINE w == [j \in 1 .. k |-> n + j]
<1>1. v \in Seq(Nat) /\ Len(v) = n /\ w \in Seq(Nat) /\ Len(w) = k
  OBVIOUS
<1>2. v \o w \in Seq(Nat) /\ Len(v \o w) = n + k
  BY <1>1
<1>3. \A i \in 1 .. n + k : (v \o w)[i] = i
  BY <1>1
<1> QED
  BY <1>2, <1>3

LEMMA BatchIsFinite ==
    ASSUME Models!VectorsInOrder
    PROVE  Cardinality(Models!Batch) \in Nat
<1>1. Models!Batch \subseteq Len(x9) + 1 .. Len(x9) + BatchSize
  BY DEF Models!Batch
<1>2. IsFiniteSet(Len(x9) + 1 .. Len(x9) + BatchSize)
  BY FS_Interval, SizesAssumption DEF Models!VectorsInOrder
<1> QED
  BY <1>1, <1>2, FS_Subset, FS_CardinalityType

LEMMA ModelStep ==
    ASSUME Models!ModelInv, [Models!Next]_(Models!vars)
    PROVE  Models!ModelInv'
<1> USE DEF Models!load, Models!Goto, Models!Idle, Models!ModelInv, Models!TypeInv,
   Models!Stages, Models!Opened
<1>1. ASSUME NEW f \in Files, Models!Replace(f)
      PROVE  Models!ModelInv'
  <2>1. /\ x7' \in Seq(Files \X BOOLEAN)
        /\ \A g \in Files : Models!ReplacedAfterHashing(g) => Models!ReplacedAfterHashing(g)'
        /\ f \in x5 => Models!ReplacedAfterHashing(f)'
    <3>1. x7' = Append(x7, <<f, f \in x5>>)
      BY <1>1 DEF Models!Replace
    <3>2. CASE f \in x5
      <4>1. (f \in x5) = TRUE
        BY <3>2
      <4>2. x7' = Append(x7, <<f, TRUE>>)
        BY <3>1, <4>1
      <4> QED
        BY <4>2, ReplacementsStay
    <3>3. CASE f \notin x5
      <4>1. (f \in x5) = FALSE
        BY <3>3
      <4>2. x7' = Append(x7, <<f, FALSE>>)
        BY <3>1, <4>1
      <4> QED
        BY <3>3, <4>2, ReplacementsStay
    <3> QED
      BY <3>2, <3>3
  <2>2. \A g \in x5 : g # f => x3'[g] = x3[g]
    BY <1>1 DEF Models!Replace
  <2>3. x5 \subseteq Files /\ Models!Needed \subseteq Files /\ Models!Needed' = Models!Needed
    BY <1>1, WeightsAssumption DEF Models!Replace, Models!Needed, Models!Manifests,
       Models!HashedIsListed
  <2>4. Models!HashedIsListed'
    BY <1>1, <2>1, <2>2, <2>3 DEF Models!Replace, Models!HashedIsListed
  <2>5. Models!OpenedIsHashed'
    BY <1>1, <2>1, <2>3 DEF Models!Replace, Models!OpenedIsHashed
  <2>6. Models!VectorsInOrder'
    BY <1>1 DEF Models!Replace, Models!VectorsInOrder
  <2> QED
    BY <1>1, <2>1, <2>4, <2>5, <2>6 DEF Models!Replace
<1>2. CASE Models!CheckIdentity
  BY <1>2 DEF Models!CheckIdentity, Models!HashedIsListed, Models!OpenedIsHashed,
     Models!VectorsInOrder,
     Models!ReplacedAfterHashing
<1>3. ASSUME NEW f \in Files, Models!VerifyFile(f)
      PROVE  Models!ModelInv'
  BY <1>3 DEF Models!VerifyFile, Models!HashedIsListed, Models!OpenedIsHashed,
     Models!VectorsInOrder,
     Models!ReplacedAfterHashing
<1>4. CASE Models!CheckFiles
  <2>1. x4' = "opening" =>
          \A f \in Models!Needed : f \in x5 \/ (x1 = "embedding" /\ f \notin x2.listed)
    BY <1>4 DEF Models!CheckFiles, Models!AllHashed, Models!Complete, Models!Needed
  <2> QED
    BY <1>4, <2>1 DEF Models!CheckFiles, Models!HashedIsListed, Models!OpenedIsHashed,
       Models!VectorsInOrder,
       Models!ReplacedAfterHashing, Models!Needed
<1>5. CASE Models!OpenSession
  <2>1. Models!Needed \subseteq Files /\ Models!Needed' = Models!Needed
    BY <1>5, WeightsAssumption DEF Models!OpenSession, Models!Needed
  <2>2. \A f \in Models!Needed : x6'[f] = x3[f]
    BY <1>5, <2>1 DEF Models!OpenSession
  <2> QED
    BY <1>5, <2>1, <2>2 DEF Models!OpenSession, Models!HashedIsListed,
       Models!OpenedIsHashed, Models!VectorsInOrder,
       Models!ReplacedAfterHashing
<1>6. CASE Models!EmbedBatch
  <2>1. x4 = "loaded" /\ x4' \in {"loaded", "failed"}
        /\ UNCHANGED <<x1, x2, x5, x6, x3, x7, x8>>
    BY <1>6 DEF Models!EmbedBatch
  <2>2. Models!VectorsInOrder'
    <3>1. CASE x9' = x9
      BY <2>1, <3>1 DEF Models!VectorsInOrder
    <3>2. CASE x9' = x9 \o [j \in 1 .. Cardinality(Models!Batch) |-> Len(x9) + j]
      <4> DEFINE n == Len(x9)
                 k == Cardinality(Models!Batch)
      <4>1. n \in Nat /\ k \in Nat /\ x9 = [i \in 1 .. n |-> i]
        BY BatchIsFinite, ModelsCounts DEF Models!VectorsInOrder
      <4>2. x9' = x9 \o [j \in 1 .. k |-> n + j]
        BY <3>2
      <4> HIDE DEF n, k
      <4>3. x9' = [i \in 1 .. n + k |-> i]
        BY <4>1, <4>2, BatchContinues
      <4>4. Len(x9') = n + k /\ n + k \in Nat
        BY <4>1, <4>3
      <4> QED
        BY <2>1, <4>3, <4>4 DEF Models!VectorsInOrder
    <3> QED
      BY <1>6, <3>1, <3>2, ModelsCounts DEF Models!EmbedBatch
  <2> QED
    BY <2>1, <2>2 DEF Models!HashedIsListed, Models!OpenedIsHashed,
       Models!ReplacedAfterHashing, Models!Needed
<1>7. CASE Models!EmbedMany
  <2>1. /\ x4 = "loaded" /\ x4' = "embedded" /\ Len(x9) = x8
        /\ UNCHANGED <<x1, x2, x3, x5, x6, x7, x8, x9>>
    BY <1>7 DEF Models!EmbedMany
  <2>2. Models!HashedIsListed'
    BY <2>1 DEF Models!HashedIsListed, Models!ReplacedAfterHashing
  <2>3. Models!OpenedIsHashed'
    BY <2>1 DEF Models!OpenedIsHashed, Models!ReplacedAfterHashing, Models!Needed
  <2>4. Models!VectorsInOrder'
    BY <2>1 DEF Models!VectorsInOrder
  <2> QED
    BY <2>1, <2>2, <2>3, <2>4
<1>8. CASE UNCHANGED Models!vars
  BY <1>8 DEF Models!vars, Models!HashedIsListed, Models!OpenedIsHashed,
     Models!VectorsInOrder,
     Models!ReplacedAfterHashing, Models!Needed
<1> QED
  BY <1>1, <1>2, <1>3, <1>4, <1>5, <1>6, <1>7, <1>8 DEF Models!Next

(* What is loaded has the expected names, and for NLI and Qwen the pinned   *)
(* digest; each file it reads was hashed and is what the manifest lists,    *)
(* but for one replaced after its hash and, for the embedding runtime, one  *)
(* its manifest does not list.                                              *)
THEOREM LoadedAlwaysVerified == ServiceSpec => []LoadedIsVerified
<1> DEFINE Inv == part = "models" => Models!ModelInv
<1>1. ServiceInit => Inv
  BY SizesAssumption DEF ServiceInit, Models!Init, Models!ModelInv, Models!TypeInv,
     Models!Stages,
     Models!Opened, Models!HashedIsListed, Models!OpenedIsHashed, Models!VectorsInOrder
<1>2. Inv /\ [ServiceNext]_serviceVars => Inv'
  BY ModelsMoves, ModelStep
<1>3. Inv => LoadedIsVerified
  BY DEF Models!ModelInv, Models!Stages, Models!Opened, Models!HashedIsListed,
     Models!OpenedIsHashed, Models!VectorsInOrder, Models!LoadedIsVerified, LoadedIsVerified
<1> QED
  BY <1>1, <1>2, <1>3, PTL DEF ServiceSpec

-----------------------------------------------------------------------------
(* The isolated PDF parser: whenever the child dies, sends or is slow.      *)

LEMMA PdfMoves ==
    ASSUME [ServiceNext]_serviceVars, part' = "pdf"
    PROVE  part = "pdf" /\ [Pdf!Next]_(Pdf!vars)
BY DEF ServiceNext, serviceVars, shared, rest3, rest5, rest6, rest9, Pdf!vars

LEMMA PdfStep ==
    ASSUME Pdf!PdfInv, [Pdf!Next]_(Pdf!vars)
    PROVE  Pdf!PdfInv'
<1> USE DEF Pdf!PdfInv, Pdf!ResultIsOfChild, Pdf!Verdict, Pdf!Documents, Pdf!Alive
<1>1. CASE Pdf!ParsePages
  BY <1>1 DEF Pdf!ParsePages
<1>2. CASE Pdf!Send
  BY <1>2 DEF Pdf!Send
<1>3. CASE Pdf!ChildDies
  BY <1>3 DEF Pdf!ChildDies
<1>4. CASE Pdf!Deadline
  BY <1>4 DEF Pdf!Deadline
<1>5. CASE Pdf!Poll
  BY <1>5 DEF Pdf!Poll
<1>6. CASE Pdf!Receive
  BY <1>6 DEF Pdf!Receive, Pdf!CanReceive, Pdf!EndOfFile, Pdf!WriteEndOpen
<1>7. CASE Pdf!StopProcess
  BY <1>7 DEF Pdf!StopProcess
<1>8. CASE Pdf!KillProcess
  BY <1>8 DEF Pdf!KillProcess
<1>9. CASE UNCHANGED Pdf!vars
  BY <1>9 DEF Pdf!vars
<1> QED
  BY <1>1, <1>2, <1>3, <1>4, <1>5, <1>6, <1>7, <1>8, <1>9 DEF Pdf!Next

(* A PDF has the verdict its child reached, the limit the child met or the  *)
(* timeout, and no child outlives its parent's answer (_parse_pdf_isolated).*)
THEOREM PdfVerdictIsOfChild == ServiceSpec => []PdfIsOfChild
<1> DEFINE Inv == part = "pdf" => Pdf!PdfInv
<1>1. ServiceInit => Inv
  BY DEF ServiceInit, Pdf!Init, Pdf!PdfInv
<1>2. Inv /\ [ServiceNext]_serviceVars => Inv'
  BY PdfMoves, PdfStep
<1>3. Inv => PdfIsOfChild
  <2> SUFFICES ASSUME Pdf!PdfInv PROVE Pdf!VerdictIsOfChild
    BY DEF PdfIsOfChild
  <2>1. x6 = "receiving" => Pdf!Alive \/ Pdf!CanReceive
    BY DEF Pdf!CanReceive, Pdf!EndOfFile, Pdf!WriteEndOpen
  <2> QED
    BY <2>1 DEF Pdf!PdfInv, Pdf!ResultIsOfChild, Pdf!VerdictIsOfChild, Pdf!Verdict,
       Pdf!Documents, Pdf!Codes
<1> QED
  BY <1>1, <1>2, <1>3, PTL DEF ServiceSpec

-----------------------------------------------------------------------------
(* Seeding the demonstration, for every manifest, whatever is uploaded,     *)
(* deleted, published or interrupted, however often it is repeated.         *)

LEMMA DemoMoves ==
    ASSUME [ServiceNext]_serviceVars, part' = "demo"
    PROVE  part = "demo" /\ [Demo!Next]_(Demo!vars)
BY DEF ServiceNext, serviceVars, shared, rest3, rest5, rest6, rest9, rest10, Demo!vars

\* Setting the status of a row leaves the others as they are.
LEMMA RowChanges ==
    ASSUME x4 \in Seq(Demo!Rows), NEW n \in DOMAIN x4, NEW t \in Demo!Statuses,
           x4' = [x4 EXCEPT ![n].status = t]
    PROVE  /\ x4' \in Seq(Demo!Rows) /\ Len(x4') = Len(x4) /\ DOMAIN x4' = DOMAIN x4
           /\ x4'[n] = [item |-> x4[n].item, status |-> t]
           /\ \A m \in DOMAIN x4 : m # n => x4'[m] = x4[m]
<1> DEFINE e == [item |-> x4[n].item, status |-> t]
<1>1. n \in 1 .. Len(x4) /\ x4[n] \in Demo!Rows /\ DOMAIN x4 = 1 .. Len(x4)
  BY ElementOfSeq
<1>2. [x4[n] EXCEPT !.status = t] = e /\ e \in Demo!Rows
  BY <1>1 DEF Demo!Rows
<1>3. x4' = [x4 EXCEPT ![n] = e]
  BY <1>2
<1> HIDE DEF e
<1>4. /\ x4' \in Seq(Demo!Rows) /\ Len(x4') = Len(x4)
      /\ \A j \in 1 .. Len(x4) : x4'[j] = IF j = n THEN e ELSE x4[j]
  BY <1>1, <1>2, <1>3, ExceptSeq
<1> QED
  BY <1>1, <1>4 DEF e

\* A row of its own is added after the others.
LEMMA RowAdded ==
    ASSUME x4 \in Seq(Demo!Rows), NEW i \in Items, NEW t \in Demo!Statuses,
           x4' = Append(x4, [item |-> i, status |-> t])
    PROVE  /\ x4' \in Seq(Demo!Rows) /\ DOMAIN x4' = DOMAIN x4 \cup {Len(x4) + 1}
           /\ Len(x4) + 1 \in Nat /\ Len(x4) + 1 \notin DOMAIN x4
           /\ x4'[Len(x4) + 1] = [item |-> i, status |-> t]
           /\ \A n \in DOMAIN x4 : x4'[n] = x4[n]
<1> DEFINE r == [item |-> i, status |-> t]
<1>1. /\ r \in Demo!Rows /\ x4' = Append(x4, r)
      /\ DOMAIN x4 = 1 .. Len(x4) /\ Len(x4) \in Nat
  BY DEF Demo!Rows
<1> HIDE DEF r
<1>2. /\ x4' \in Seq(Demo!Rows) /\ DOMAIN x4' = 1 .. Len(x4) + 1
      /\ x4'[Len(x4) + 1] = r
      /\ \A n \in DOMAIN x4 : x4'[n] = x4[n]
  BY <1>1, AppendProperties
<1> QED
  BY <1>1, <1>2 DEF r

LEMMA InsertedArtifacts ==
    ASSUME NEW S, NEW s \in Seq(S), NEW e \in S, NEW n \in 0 .. Len(s)
    PROVE  Demo!InsertAt(s, n + 1, e) \in Seq(S)
<1>1. SubSeq(s, 1, n) \in Seq(S) /\ SubSeq(s, n + 1, Len(s)) \in Seq(S)
  <2>1. \A i \in 1 .. Len(s) : s[i] \in S
    BY ElementOfSeq
  <2> QED
    BY <2>1, SubSeqProperties
<1>2. n + 1 - 1 = n
  OBVIOUS
<1> QED
  BY <1>1, <1>2 DEF Demo!InsertAt

LEMMA DemoCounts == \A S : Demo!Cardinality(S) = Cardinality(S)
BY DEF Demo!Cardinality, Cardinality

\* Where no row changes, the seed leaves the row it was at, or stays at it.
LEMMA DemoIdle ==
    ASSUME Demo!SeedInv, UNCHANGED <<x4, x9>>, x10'.abandoned = x10.abandoned,
           x7' \notin {"commit", "process"}, x7 # "process"
    PROVE  Demo!DocumentsOnce' /\ Demo!RestAbandoned'
BY DEF Demo!SeedInv, Demo!DocumentsOnce, Demo!RestAbandoned, Demo!Live

LEMMA DemoFind ==
    ASSUME Demo!SeedInv, Demo!Find
    PROVE  Demo!SeedInv'
<1> USE DEF Demo!SeedInv, Demo!Find, Demo!NextItem, Demo!Goto
<1>1. Demo!EvaluationsOnce' /\ Demo!UsersAsSet' /\ x10' = x10
  BY DEF Demo!EvaluationsOnce, Demo!UsersAsSet
<1>2. CASE Demo!Existing(x8) /\ Demo!NextItem /\ UNCHANGED <<x4, x9>>
  <2>1. Demo!DocumentsOnce' /\ Demo!RestAbandoned'
    BY <1>1, <1>2, DemoIdle
  <2>2. x8 \in 1 .. Cardinality(Items) /\ Cardinality(Items) \in Nat /\ x8' = x8 + 1
    BY <1>2, ManifestAssumption, FS_CardinalityType
  <2>3. \A i \in (1 .. x8) \ x10.deleted : Demo!Existing(i)'
    BY <1>2, <2>2 DEF Demo!SeededInOrder, Demo!Existing, Demo!Live
  <2>4. Demo!SeededInOrder'
    BY <1>1, <1>2, <2>2, <2>3, DemoCounts DEF Demo!SeededInOrder
  <2> QED
    BY <1>1, <1>2, <2>1, <2>4
<1>3. CASE /\ ~Demo!Existing(x8)
           /\ x4' = Append(x4, [item |-> x8, status |-> "stored"])
           /\ x9' = Len(x4) + 1
           /\ Demo!Goto("commit") /\ UNCHANGED x8
  <2>1. "stored" \in Demo!Statuses /\ x8 \in Items
    BY DEF Demo!Statuses
  <2>2. /\ x4' \in Seq(Demo!Rows) /\ DOMAIN x4' = DOMAIN x4 \cup {Len(x4) + 1}
        /\ Len(x4) + 1 \in Nat /\ Len(x4) + 1 \notin DOMAIN x4
        /\ x4'[Len(x4) + 1] = [item |-> x8, status |-> "stored"]
        /\ \A n \in DOMAIN x4 : x4'[n] = x4[n]
    BY <1>3, <2>1, RowAdded DEF Demo!DocumentsOnce
  <2>3. Demo!DocumentsOnce' /\ Demo!RestAbandoned'
    BY <1>1, <1>3, <2>1, <2>2 DEF Demo!DocumentsOnce, Demo!RestAbandoned, Demo!Live,
       Demo!Existing, Demo!Unfinished
  <2>4. \A i : Demo!Existing(i) => Demo!Existing(i)'
    BY <2>2 DEF Demo!Existing
  <2>5. Demo!SeededInOrder'
    BY <1>1, <1>3, <2>4 DEF Demo!SeededInOrder
  <2> QED
    BY <1>1, <1>3, <2>2, <2>3, <2>5
<1> QED
  BY <1>2, <1>3

\* A seed that fails or dies abandons the row it is processing.
LEMMA DemoFail ==
    ASSUME Demo!SeedInv, Demo!Fail, UNCHANGED <<x1, x3, x5, x6, x9>>, x7 \notin {"idle", "done"},
           Demo!DocumentsOnce', DOMAIN x4' = DOMAIN x4,
           \A n \in DOMAIN x4 : n # x9 \/ x7 # "process" => x4'[n] = x4[n]
    PROVE  Demo!SeedInv'
<1> USE DEF Demo!SeedInv, Demo!Fail, Demo!Goto
<1>1. /\ x10' \in [seeds : Nat, changes : Nat, abandoned : SUBSET Nat, deleted : SUBSET Items]
      /\ x10.abandoned \subseteq x10'.abandoned
      /\ x7 = "process" => x9 \in x10'.abandoned
  OBVIOUS
<1>2. Demo!RestAbandoned'
  BY <1>1 DEF Demo!RestAbandoned
<1>3. Demo!SeededInOrder'
  BY DEF Demo!SeededInOrder
<1>4. Demo!EvaluationsOnce' /\ Demo!UsersAsSet'
  BY DEF Demo!EvaluationsOnce, Demo!UsersAsSet
<1> QED
  BY <1>1, <1>2, <1>3, <1>4

LEMMA DemoCommitRow ==
    ASSUME Demo!SeedInv, Demo!CommitRow
    PROVE  Demo!SeedInv'
<1> USE DEF Demo!SeedInv, Demo!CommitRow
<1>1. CASE /\ ~Demo!Existing(x8) /\ Demo!Goto("process")
           /\ x4' = [x4 EXCEPT ![x9].status = "queued"]
           /\ UNCHANGED <<x8, x10>>
  <2> USE DEF Demo!Goto
  <2>1. Demo!EvaluationsOnce' /\ Demo!UsersAsSet'
    BY <1>1 DEF Demo!EvaluationsOnce, Demo!UsersAsSet
  <2>2. /\ x4 \in Seq(Demo!Rows) /\ x9 \in DOMAIN x4
        /\ x4[x9].item = x8 /\ x4[x9].status = "stored" /\ ~Demo!Existing(x8)
    BY <1>1 DEF Demo!DocumentsOnce
  <2>3. /\ x4' \in Seq(Demo!Rows) /\ Len(x4') = Len(x4) /\ DOMAIN x4' = DOMAIN x4
        /\ x4'[x9] = [item |-> x8, status |-> "queued"]
        /\ \A m \in DOMAIN x4 : m # x9 => x4'[m] = x4[m]
    <3>1. "queued" \in Demo!Statuses
      BY DEF Demo!Statuses
    <3> QED
      BY <1>1, <2>2, <3>1, RowChanges
  <2>4. Demo!DocumentsOnce' /\ Demo!RestAbandoned'
    BY <1>1, <2>2, <2>3 DEF Demo!DocumentsOnce, Demo!RestAbandoned, Demo!Live, Demo!Existing
  <2>5. \A i : Demo!Existing(i) => Demo!Existing(i)'
    BY <2>2, <2>3 DEF Demo!Existing, Demo!Live
  <2>6. Demo!SeededInOrder'
    BY <1>1, <2>3, <2>5 DEF Demo!SeededInOrder
  <2> QED
    BY <1>1, <2>1, <2>4, <2>6
<1>2. CASE Demo!Existing(x8) /\ Demo!Fail /\ UNCHANGED x4
  <2>1. Demo!DocumentsOnce'
    BY <1>2 DEF Demo!Fail, Demo!Goto, Demo!DocumentsOnce, Demo!Live
  <2> QED
    BY <1>2, <2>1, DemoFail
<1> QED
  BY <1>1, <1>2

\* A row the seed is processing that changes its status stays the only one.
LEMMA DemoRowMoves ==
    ASSUME Demo!SeedInv, x7 = "process", x4[x9].status \in {"queued", "processing"},
           NEW t \in {"processing", "completed", "failed", "queued"},
           x4' = [x4 EXCEPT ![x9].status = t], x9' = x9,
           \/ x7' \in {"find", "idle"}
           \/ x7' = "process" /\ x8' = x8 /\ t = "processing"
    PROVE  /\ Demo!DocumentsOnce' /\ DOMAIN x4' = DOMAIN x4
           /\ x4'[x9] = [item |-> x8, status |-> t]
           /\ \A n \in DOMAIN x4 : n # x9 => x4'[n] = x4[n]
           /\ \A i : Demo!Existing(i) => Demo!Existing(i)'
           /\ \E n \in DOMAIN x4' : x4'[n].item = x8 /\ Demo!Live(x4'[n])
<1>1. /\ x4 \in Seq(Demo!Rows) /\ x9 \in DOMAIN x4 /\ x4[x9].item = x8 /\ x8 \in Items
      /\ \A n, m \in DOMAIN x4 :
             Demo!Live(x4[n]) /\ Demo!Live(x4[m]) /\ x4[n].item = x4[m].item => n = m
  BY DEF Demo!SeedInv, Demo!DocumentsOnce
<1>2. /\ x4' \in Seq(Demo!Rows) /\ DOMAIN x4' = DOMAIN x4
      /\ x4'[x9] = [item |-> x8, status |-> t]
      /\ \A n \in DOMAIN x4 : n # x9 => x4'[n] = x4[n]
  <2>1. t \in Demo!Statuses
    BY DEF Demo!Statuses
  <2>2. /\ x4' \in Seq(Demo!Rows) /\ DOMAIN x4' = DOMAIN x4
        /\ x4'[x9] = [item |-> x4[x9].item, status |-> t]
        /\ \A n \in DOMAIN x4 : n # x9 => x4'[n] = x4[n]
    BY <1>1, <2>1, RowChanges
  <2> QED
    BY <1>1, <2>2
<1>3. Demo!Live(x4[x9]) /\ Demo!Live(x4'[x9])
  BY <1>2 DEF Demo!Live
<1>4. \A j \in DOMAIN x4 : x4'[j].item = x4[j].item /\ (Demo!Live(x4'[j]) <=> Demo!Live(x4[j]))
  <2> TAKE j \in DOMAIN x4
  <2>1. CASE j = x9
    <3>1. x4'[j].item = x8 /\ x4[j].item = x8
      BY <1>1, <1>2, <2>1
    <3> QED
      BY <1>3, <2>1, <3>1
  <2>2. CASE j # x9
    BY <1>2, <2>2
  <2> QED
    BY <2>1, <2>2
<1>5. Demo!DocumentsOnce'
  <2>1. ASSUME NEW k \in DOMAIN x4', NEW m \in DOMAIN x4',
               Demo!Live(x4'[k]), Demo!Live(x4'[m]), x4'[k].item = x4'[m].item
        PROVE  k = m
    BY <1>1, <1>2, <1>4, <2>1
  <2>2. x7' # "commit" /\ (x7' = "process" => x8' = x8 /\ t = "processing")
    OBVIOUS
  <2> QED
    BY <1>1, <1>2, <2>1, <2>2 DEF Demo!DocumentsOnce
<1>6. \A i : Demo!Existing(i) => Demo!Existing(i)'
  <2> SUFFICES ASSUME NEW i, NEW n \in DOMAIN x4, x4[n].item = i, Demo!Live(x4[n])
               PROVE  \E m \in DOMAIN x4' : x4'[m].item = i /\ Demo!Live(x4'[m])
    BY DEF Demo!Existing, Demo!Live
  <2>1. n \in DOMAIN x4' /\ x4'[n].item = i /\ Demo!Live(x4'[n])
    BY <1>2, <1>4
  <2> QED
    BY <2>1
<1>7. \E n \in DOMAIN x4' : x4'[n].item = x8 /\ Demo!Live(x4'[n])
  <2>1. x9 \in DOMAIN x4' /\ x4'[x9].item = x8 /\ Demo!Live(x4'[x9])
    BY <1>1, <1>2, <1>3
  <2> QED
    BY <2>1
<1> QED
  BY <1>2, <1>5, <1>6, <1>7

LEMMA DemoProcess ==
    ASSUME Demo!SeedInv, Demo!ProcessDocument
    PROVE  Demo!SeedInv'
<1> USE DEF Demo!SeedInv
<1>1. UNCHANGED <<x1, x2, x3, x5, x6, x9>> /\ x7 = "process" /\ x8 \in Items
  BY DEF Demo!ProcessDocument, Demo!DocumentsOnce
<1>2. CASE /\ x4[x9].status = "queued"
           /\ x4' = [x4 EXCEPT ![x9].status = "processing"]
           /\ UNCHANGED <<x8, x7, x10>>
  <2>1. /\ Demo!DocumentsOnce' /\ DOMAIN x4' = DOMAIN x4
        /\ \A n \in DOMAIN x4 : n # x9 => x4'[n] = x4[n]
        /\ \A i : Demo!Existing(i) => Demo!Existing(i)'
    BY <1>1, <1>2, DemoRowMoves
  <2> QED
    BY <1>1, <1>2, <2>1 DEF Demo!RestAbandoned, Demo!SeededInOrder, Demo!EvaluationsOnce,
       Demo!UsersAsSet
<1>3. CASE /\ x4[x9].status = "processing"
           /\ x4' = [x4 EXCEPT ![x9].status = "completed"]
           /\ Demo!NextItem /\ UNCHANGED x10
  <2> USE DEF Demo!NextItem, Demo!Goto
  <2>1. /\ Demo!DocumentsOnce' /\ DOMAIN x4' = DOMAIN x4
        /\ x4'[x9].status = "completed"
        /\ \A n \in DOMAIN x4 : n # x9 => x4'[n] = x4[n]
        /\ \A i : Demo!Existing(i) => Demo!Existing(i)'
        /\ \E n \in DOMAIN x4' : x4'[n].item = x8 /\ Demo!Live(x4'[n])
    BY <1>1, <1>3, DemoRowMoves
  <2>2. x8 \in 1 .. Cardinality(Items) /\ Cardinality(Items) \in Nat
    BY <1>1, ManifestAssumption, FS_CardinalityType
  <2>3. ASSUME NEW i \in (1 .. x8) \ x10.deleted
        PROVE  Demo!Existing(i)'
    <3>1. CASE i = x8
      BY <2>1, <3>1 DEF Demo!Existing, Demo!Live
    <3>2. CASE i # x8
      <4>1. i \in (1 .. x8 - 1) \ x10.deleted
        BY <2>2, <3>2
      <4>2. Demo!Existing(i)
        BY <1>1, <4>1 DEF Demo!SeededInOrder
      <4> QED
        BY <2>1, <4>2
    <3> QED
      BY <3>1, <3>2
  <2>4. Demo!SeededInOrder'
    BY <1>3, <2>2, <2>3, DemoCounts DEF Demo!SeededInOrder
  <2>5. Demo!RestAbandoned'
    BY <1>1, <1>3, <2>1 DEF Demo!RestAbandoned, Demo!Unfinished
  <2> QED
    BY <1>1, <1>3, <2>1, <2>4, <2>5 DEF Demo!EvaluationsOnce, Demo!UsersAsSet
<1>4. ASSUME x4[x9].status = "processing",
             NEW t \in {"failed", "queued"}, x4' = [x4 EXCEPT ![x9].status = t],
             Demo!Fail
      PROVE  Demo!SeedInv'
  <2>1. x7' = "idle"
    BY <1>4 DEF Demo!Fail, Demo!Goto
  <2>2. /\ Demo!DocumentsOnce' /\ DOMAIN x4' = DOMAIN x4
        /\ \A n \in DOMAIN x4 : n # x9 => x4'[n] = x4[n]
    BY <1>1, <1>4, <2>1, DemoRowMoves
  <2> QED
    BY <1>1, <1>4, <2>2, DemoFail
<1>5. CASE x4[x9].status = "deleted" /\ Demo!Fail /\ UNCHANGED x4
  <2>1. Demo!DocumentsOnce'
    BY <1>5 DEF Demo!Fail, Demo!Goto, Demo!DocumentsOnce, Demo!Live
  <2> QED
    BY <1>1, <1>5, <2>1, DemoFail
<1> QED
  BY <1>2, <1>3, <1>4, <1>5 DEF Demo!ProcessDocument

\* What others do leaves the seed where it is, unless it is done.
LEMMA DemoChange ==
    ASSUME NEW D, D \subseteq Items, Demo!SeedInv, Demo!Change(D),
           Demo!DocumentsOnce', Demo!RestAbandoned', x5' \in Seq([identity : Identities, created : 1 .. 3]),
           \A i \in Items \ x10'.deleted : Demo!Existing(i) => Demo!Existing(i)'
    PROVE  Demo!SeedInv'
<1> USE DEF Demo!SeedInv, Demo!Change, Demo!Goto
<1>1. /\ x10' \in [seeds : Nat, changes : Nat, abandoned : SUBSET Nat, deleted : SUBSET Items]
      /\ x10'.deleted = x10.deleted \cup D
  <2>1. /\ x10.seeds \in Nat /\ x10.changes + 1 \in Nat
        /\ x10.abandoned \in SUBSET Nat /\ x10.deleted \cup D \in SUBSET Items
    OBVIOUS
  <2>2. x10' = [seeds |-> x10.seeds, changes |-> x10.changes + 1,
                abandoned |-> x10.abandoned, deleted |-> x10.deleted \cup D]
    OBVIOUS
  <2> QED
    BY <2>1, <2>2
<1>2. Demo!EvaluationsOnce' /\ Demo!UsersAsSet'
  BY DEF Demo!EvaluationsOnce, Demo!UsersAsSet
<1>3. Demo!SeededInOrder'
  <2>1. Cardinality(Items) \in Nat
    BY ManifestAssumption, FS_CardinalityType
  <2>2. x7' = x7 \/ x7' = "idle"
    OBVIOUS
  <2>3. x7' \in {"find", "commit", "process"} =>
          \A i \in (1 .. x8 - 1) \ x10'.deleted : i \in Items /\ Demo!Existing(i)'
    BY <1>1, <2>1, <2>2, ManifestAssumption, DemoCounts DEF Demo!SeededInOrder
  <2> QED
    BY <2>2, <2>3 DEF Demo!SeededInOrder
<1> QED
  BY <1>1, <1>2, <1>3

LEMMA DemoDelete ==
    ASSUME Demo!SeedInv, NEW n \in DOMAIN x4, Demo!Delete(n)
    PROVE  Demo!SeedInv'
<1> USE DEF Demo!SeedInv, Demo!Delete
<1>1. /\ x4' \in Seq(Demo!Rows) /\ DOMAIN x4' = DOMAIN x4
      /\ x4'[n] = [item |-> x4[n].item, status |-> "deleted"]
      /\ \A m \in DOMAIN x4 : m # n => x4'[m] = x4[m]
      /\ x4[n].item \in Items
  <2>1. /\ x4 \in Seq(Demo!Rows) /\ "deleted" \in Demo!Statuses
        /\ x4' = [x4 EXCEPT ![n].status = "deleted"]
    BY DEF Demo!DocumentsOnce, Demo!Statuses
  <2>2. x4[n] \in Demo!Rows
    BY <2>1, ElementOfSeq
  <2> QED
    BY <2>1, <2>2, RowChanges DEF Demo!Rows
<1>2. /\ Demo!Change({x4[n].item}) /\ UNCHANGED <<x8, x9>> /\ (x7' = x7 \/ x7' = "idle")
      /\ x7 = "done" => x7' = "idle"
      /\ x10'.abandoned = x10.abandoned /\ x4[n].item \in x10'.deleted
      /\ x5' \in Seq([identity : Identities, created : 1 .. 3])
  BY DEF Demo!Change, Demo!Goto, Demo!EvaluationsOnce
<1>3. x7' \in {"commit", "process"} => x7' = x7
  BY <1>2
<1>4. x7 = "process" => x7' = "process"
  BY DEF Demo!Change, Demo!Goto
<1>5. Demo!DocumentsOnce'
  <2>1. Demo!Live(x4[n]) /\ ~Demo!Live(x4'[n])
    BY <1>1 DEF Demo!Live
  <2>2. \A k, m \in DOMAIN x4' :
            Demo!Live(x4'[k]) /\ Demo!Live(x4'[m]) /\ x4'[k].item = x4'[m].item => k = m
    BY <1>1, <2>1 DEF Demo!DocumentsOnce
  <2>3. x7' \in {"commit", "process"} =>
            x8 \in Items /\ x9 \in DOMAIN x4' /\ x4'[x9].item = x8
    BY <1>1, <1>3 DEF Demo!DocumentsOnce
  <2>4. x7' = "commit" => x4'[x9].status = "stored"
    BY <1>1, <1>3 DEF Demo!DocumentsOnce, Demo!Live
  <2>5. x7' = "process" => x4'[x9].status \in {"queued", "processing", "deleted"}
    BY <1>1, <1>3 DEF Demo!DocumentsOnce
  <2> QED
    BY <1>1, <1>2, <2>2, <2>3, <2>4, <2>5 DEF Demo!DocumentsOnce, Demo!Live
<1>6. Demo!RestAbandoned'
  BY <1>1, <1>2, <1>4 DEF Demo!RestAbandoned, Demo!Unfinished
<1>7. \A i \in Items \ x10'.deleted : Demo!Existing(i) => Demo!Existing(i)'
  BY <1>1, <1>2 DEF Demo!Existing
<1> QED
  BY <1>1, <1>2, <1>5, <1>6, <1>7, DemoChange

LEMMA DemoUpload ==
    ASSUME Demo!SeedInv, NEW i \in Items, Demo!Upload(i)
    PROVE  Demo!SeedInv'
<1> USE DEF Demo!SeedInv, Demo!Upload
<1>1. /\ x4' \in Seq(Demo!Rows) /\ DOMAIN x4' = DOMAIN x4 \cup {Len(x4) + 1}
      /\ Len(x4) + 1 \in Nat /\ Len(x4) + 1 \notin DOMAIN x4
      /\ x4'[Len(x4) + 1] = [item |-> i, status |-> "uploaded"]
      /\ \A n \in DOMAIN x4 : x4'[n] = x4[n]
  <2>1. "uploaded" \in Demo!Statuses /\ x4 \in Seq(Demo!Rows)
    BY DEF Demo!Statuses, Demo!DocumentsOnce
  <2> QED
    BY <2>1, RowAdded
<1>2. /\ Demo!Change({}) /\ UNCHANGED <<x8, x9>> /\ (x7' = x7 \/ x7' = "idle")
      /\ x7 = "process" => x7' = "process"
      /\ x10'.abandoned = x10.abandoned
      /\ x5' \in Seq([identity : Identities, created : 1 .. 3])
  BY DEF Demo!Change, Demo!Goto, Demo!EvaluationsOnce
<1>3. Demo!DocumentsOnce'
  BY <1>1, <1>2 DEF Demo!DocumentsOnce, Demo!Live, Demo!Existing
<1>4. Demo!RestAbandoned'
  BY <1>1, <1>2 DEF Demo!RestAbandoned, Demo!Unfinished
<1>5. \A j \in Items : Demo!Existing(j) => Demo!Existing(j)'
  BY <1>1 DEF Demo!Existing
<1> QED
  BY <1>2, <1>3, <1>4, <1>5, DemoChange

\* Actions between and around the documents.
LEMMA DemoAround ==
    ASSUME Demo!SeedInv,
           Demo!Start \/ Demo!EnsureUsers \/ Demo!NotApproved \/ Demo!Die \/ Demo!Approve
    PROVE  Demo!SeedInv'
<1> USE DEF Demo!SeedInv, Demo!Goto
<1>1. CASE Demo!Start
  <2>1. /\ x10' \in [seeds : Nat, changes : Nat, abandoned : SUBSET Nat, deleted : SUBSET Items]
        /\ x10'.abandoned = x10.abandoned
    <3>1. x10.seeds + 1 \in Nat /\ x10.changes \in Nat /\ x10.abandoned \in SUBSET Nat
      OBVIOUS
    <3>2. x10' = [seeds |-> x10.seeds + 1, changes |-> x10.changes,
                  abandoned |-> x10.abandoned, deleted |-> {}]
      BY <1>1 DEF Demo!Start
    <3> QED
      BY <3>1, <3>2
  <2>2. Demo!DocumentsOnce' /\ Demo!RestAbandoned'
    BY <1>1, <2>1, DemoIdle DEF Demo!Start
  <2> QED
    BY <1>1, <2>1, <2>2 DEF Demo!Start, Demo!SeededInOrder, Demo!EvaluationsOnce,
       Demo!UsersAsSet
<1>2. CASE Demo!EnsureUsers
  <2>1. Demo!DocumentsOnce' /\ Demo!RestAbandoned'
    BY <1>2, DemoIdle DEF Demo!EnsureUsers
  <2>2. Demo!UsersAsSet'
    BY <1>2 DEF Demo!EnsureUsers, Demo!UsersAsSet, Demo!Users
  <2>3. Demo!SeededInOrder'
    <3>1. Cardinality(Items) \in Nat
      BY ManifestAssumption, FS_CardinalityType
    <3> QED
      BY <1>2, <3>1, DemoCounts DEF Demo!EnsureUsers, Demo!SeededInOrder
  <2> QED
    BY <1>2, <2>1, <2>2, <2>3 DEF Demo!EnsureUsers, Demo!EvaluationsOnce
<1>3. CASE Demo!NotApproved \/ Demo!Die
  <2>1. Demo!Fail /\ UNCHANGED <<x1, x3, x4, x5, x6, x9>> /\ x7 \notin {"idle", "done"}
    BY <1>3 DEF Demo!NotApproved, Demo!Die
  <2>2. Demo!DocumentsOnce'
    BY <2>1 DEF Demo!Fail, Demo!DocumentsOnce, Demo!Live
  <2> QED
    BY <2>1, <2>2, DemoFail
<1>4. CASE Demo!Approve
  <2>1. Demo!Change({}) /\ UNCHANGED <<x4, x5, x9>> /\ x7' \in {"idle", "done"} /\ x7 # "process"
        /\ x10'.abandoned = x10.abandoned
    BY <1>4 DEF Demo!Approve, Demo!Change
  <2>2. Demo!DocumentsOnce' /\ Demo!RestAbandoned'
    BY <2>1, DemoIdle
  <2>3. /\ \A i : Demo!Existing(i) => Demo!Existing(i)'
        /\ x5' \in Seq([identity : Identities, created : 1 .. 3])
    BY <2>1 DEF Demo!Existing, Demo!EvaluationsOnce
  <2> QED
    BY <2>1, <2>2, <2>3, DemoChange
<1> QED
  BY <1>1, <1>2, <1>3, <1>4

LEMMA DemoPublish ==
    ASSUME Demo!SeedInv, Demo!Publish
    PROVE  Demo!SeedInv'
<1> USE DEF Demo!SeedInv
<1>1. PICK i \in Identities, t \in 1 .. 3, n \in 0 .. Len(x5) :
        x5' = Demo!InsertAt(x5, n + 1, [identity |-> i, created |-> t])
  BY DEF Demo!Publish
<1>2. x5' \in Seq([identity : Identities, created : 1 .. 3])
  <2> DEFINE S == [identity : Identities, created : 1 .. 3]
             e == [identity |-> i, created |-> t]
  <2>1. x5 \in Seq(S) /\ e \in S /\ x5' = Demo!InsertAt(x5, n + 1, e)
    BY <1>1 DEF Demo!EvaluationsOnce
  <2> HIDE DEF S, e
  <2>2. x5' \in Seq(S)
    BY <2>1, InsertedArtifacts
  <2> QED
    BY <2>2 DEF S
<1>3. /\ Demo!Change({}) /\ UNCHANGED <<x4, x8, x9>> /\ (x7' = x7 \/ x7' = "idle")
      /\ x7 = "process" => x7' = "process"
      /\ x10'.abandoned = x10.abandoned
  BY DEF Demo!Publish, Demo!Change, Demo!Goto
<1>4. Demo!DocumentsOnce' /\ Demo!RestAbandoned'
  BY <1>3 DEF Demo!DocumentsOnce, Demo!RestAbandoned, Demo!Live
<1>5. \A j : Demo!Existing(j) => Demo!Existing(j)'
  BY <1>3 DEF Demo!Existing
<1> QED
  BY <1>2, <1>3, <1>4, <1>5, DemoChange

\* Every published identity has one latest file.
LEMMA LatestOfEach ==
    ASSUME Demo!EvaluationsOnce
    PROVE  /\ \A a \in Demo!Range(x5) : \E b \in Demo!Latest : b.identity = a.identity
           /\ \A a, b \in Demo!Latest : a.identity = b.identity => a = b
<1>1. /\ DOMAIN x5 = 1 .. Len(x5) /\ Len(x5) \in Nat
      /\ \A n \in DOMAIN x5 : x5[n] \in [identity : Identities, created : 1 .. 3]
  <2> DEFINE S == [identity : Identities, created : 1 .. 3]
  <2>1. x5 \in Seq(S)
    BY DEF Demo!EvaluationsOnce
  <2> HIDE DEF S
  <2>2. DOMAIN x5 = 1 .. Len(x5) /\ Len(x5) \in Nat /\ \A n \in 1 .. Len(x5) : x5[n] \in S
    BY <2>1, ElementOfSeq
  <2> QED
    BY <2>2 DEF S
<1>2. ASSUME NEW n \in DOMAIN x5
      PROVE  \E b \in Demo!Latest : b.identity = x5[n].identity
  <2> DEFINE Same == {m \in DOMAIN x5 : x5[m].identity = x5[n].identity}
             Ages == {3 - x5[m].created : m \in Same}
  <2>1. Ages \subseteq Nat /\ Ages # {}
    BY <1>1
  <2>2. PICK age \in Ages : \A other \in Ages : age <= other
    BY <2>1, HasLeast
  <2> DEFINE Youngest == {m \in Same : 3 - x5[m].created = age}
  <2>3. Youngest \subseteq Nat /\ Youngest # {}
    BY <1>1, <2>2
  <2>4. PICK l \in Youngest : \A m \in Youngest : l <= m
    BY <2>3, HasLeast
  <2>5. ASSUME NEW m \in DOMAIN x5 \ {l}, x5[m].identity = x5[l].identity
        PROVE  \/ x5[m].created < x5[l].created
               \/ x5[m].created = x5[l].created /\ l < m
    <3>1. m \in Same /\ l \in Same /\ m # l
      BY <2>4, <2>5
    <3>2. x5[m].created \in 1 .. 3 /\ x5[l].created \in 1 .. 3 /\ m \in Nat /\ l \in Nat
      BY <1>1, <3>1
    <3>3. 3 - x5[l].created <= 3 - x5[m].created
      BY <2>2, <2>4, <3>1
    <3>4. x5[m].created = x5[l].created => m \in Youngest
      BY <2>4, <3>1
    <3>5. m \in Youngest => l <= m
      BY <2>4
    <3> QED
      BY <3>1, <3>2, <3>3, <3>4, <3>5
  <2>6. l \in DOMAIN x5 /\ x5[l].identity = x5[n].identity
    BY <2>4
  <2>7. x5[l] \in Demo!Latest
    BY <2>5, <2>6 DEF Demo!Latest
  <2> QED
    BY <2>6, <2>7
<1>3. ASSUME NEW a \in Demo!Latest, NEW b \in Demo!Latest, a.identity = b.identity
      PROVE  a = b
  <2>1. PICK n \in DOMAIN x5 :
          /\ a = x5[n]
          /\ \A m \in DOMAIN x5 \ {n} :
                x5[m].identity = x5[n].identity
                => \/ x5[m].created < x5[n].created
                   \/ x5[m].created = x5[n].created /\ n < m
    BY DEF Demo!Latest
  <2>2. PICK k \in DOMAIN x5 :
          /\ b = x5[k]
          /\ \A m \in DOMAIN x5 \ {k} :
                x5[m].identity = x5[k].identity
                => \/ x5[m].created < x5[k].created
                   \/ x5[m].created = x5[k].created /\ k < m
    BY DEF Demo!Latest
  <2>3. x5[n].created \in 1 .. 3 /\ x5[k].created \in 1 .. 3 /\ n \in Nat /\ k \in Nat
    BY <1>1
  <2>4. n = k
    BY <1>3, <2>1, <2>2, <2>3
  <2> QED
    BY <2>1, <2>2, <2>4
<1> QED
  BY <1>2, <1>3 DEF Demo!Range

LEMMA DemoArtifacts ==
    ASSUME Demo!SeedInv, Demo!SeedArtifacts
    PROVE  Demo!SeedInv'
<1> USE DEF Demo!SeedInv, Demo!Goto, Demo!SeedArtifacts
<1>1. Demo!DocumentsOnce' /\ Demo!RestAbandoned'
  BY DemoIdle
<1>2. \A i \in Items \ x10.deleted : Demo!Existing(i)
  <2>1. Cardinality(Items) \in Nat
    BY ManifestAssumption, FS_CardinalityType
  <2>2. Items = 1 .. x8 - 1
    BY <2>1, ManifestAssumption, DemoCounts DEF Demo!SeededInOrder
  <2> QED
    BY <2>2 DEF Demo!SeededInOrder
<1>3. Demo!SeededInOrder'
  BY <1>2 DEF Demo!SeededInOrder, Demo!Existing
<1>4. Demo!EvaluationsOnce'
  BY LatestOfEach DEF Demo!EvaluationsOnce, Demo!Range
<1>5. Demo!UsersAsSet'
  BY DEF Demo!UsersAsSet
<1> QED
  BY <1>1, <1>3, <1>4, <1>5

(* However often seeds are repeated, die or meet uploads and deletions, one *)
(* that ends has every document of the manifest that was not deleted        *)
(* meanwhile, once: completed, a user's own, or left by a seed that ended   *)
(* between committing and completing it.  Every evaluation is there once    *)
(* and the users are as set (seed_demo_data, _add_document).                *)
THEOREM SeedsAreIdempotent == ServiceSpec => []SeedIsIdempotent
<1> DEFINE Inv == part = "demo" => Demo!SeedInv
<1>1. ServiceInit => Inv
  <2> SUFFICES ASSUME Demo!Init PROVE Demo!SeedInv
    BY DEF ServiceInit
  <2>1. x5 \in Seq([identity : Identities, created : 1 .. 3])
    <3>1. CASE x5 = <<>>
      BY <3>1
    <3>2. ASSUME NEW i \in Identities, x5 = <<[identity |-> i, created |-> 2]>>
          PROVE  x5 \in Seq([identity : Identities, created : 1 .. 3])
      <4>1. [identity |-> i, created |-> 2] \in [identity : Identities, created : 1 .. 3]
        OBVIOUS
      <4> QED
        BY <3>2, <4>1
    <3> QED
      BY <3>1, <3>2 DEF Demo!Init
  <2> QED
    BY <2>1 DEF Demo!Init, Demo!SeedInv, Demo!DocumentsOnce, Demo!RestAbandoned,
       Demo!SeededInOrder, Demo!EvaluationsOnce, Demo!UsersAsSet
<1>2. Inv /\ [ServiceNext]_serviceVars => Inv'
  <2> SUFFICES ASSUME Demo!SeedInv, [Demo!Next]_(Demo!vars) PROVE Demo!SeedInv'
    BY DemoMoves
  <2>1. CASE UNCHANGED Demo!vars
    BY <2>1 DEF Demo!vars, Demo!SeedInv, Demo!DocumentsOnce, Demo!RestAbandoned,
       Demo!SeededInOrder, Demo!EvaluationsOnce, Demo!UsersAsSet, Demo!Existing, Demo!Live
  <2> QED
    BY <2>1, DemoFind, DemoCommitRow, DemoProcess, DemoDelete, DemoUpload, DemoAround,
       DemoPublish, DemoArtifacts DEF Demo!Next, Demo!Seed
<1>3. Inv => SeedIsIdempotent
  <2> SUFFICES ASSUME Demo!SeedInv PROVE Demo!SeedIsIdempotent
    BY DEF SeedIsIdempotent
  <2>1. ASSUME x7 = "done", NEW i \in Items \ x10.deleted
        PROVE  \E n \in DOMAIN x4 :
                  /\ x4[n].item = i
                  /\ \/ x4[n].status \in {"completed", "uploaded"}
                     \/ n \in x10.abandoned /\ x4[n].status \in {"queued", "processing", "failed"}
    <3>1. PICK n \in DOMAIN x4 : x4[n].item = i /\ Demo!Live(x4[n])
      BY <2>1 DEF Demo!SeedInv, Demo!SeededInOrder, Demo!Existing
    <3>2. x4[n] \in Demo!Rows
      BY ElementOfSeq DEF Demo!SeedInv, Demo!DocumentsOnce
    <3>3. x4[n].status \in Demo!Unfinished \cup {"completed", "uploaded"}
      BY <3>1, <3>2 DEF Demo!Rows, Demo!Statuses, Demo!Live, Demo!Unfinished
    <3>4. x4[n].status \in Demo!Unfinished => n \in x10.abandoned
      BY <2>1 DEF Demo!SeedInv, Demo!RestAbandoned
    <3> QED
      BY <3>1, <3>3, <3>4 DEF Demo!Unfinished
  <2> QED
    BY <2>1 DEF Demo!SeedInv, Demo!DocumentsOnce, Demo!EvaluationsOnce, Demo!UsersAsSet,
       Demo!SeedIsIdempotent
<1> QED
  BY <1>1, <1>2, <1>3, PTL DEF ServiceSpec

-----------------------------------------------------------------------------
(* The page, for any number of documents, requests and sessions.            *)

WebProofs == INSTANCE WebClientProofs
    WITH server <- x1, session <- x2, selected <- x3, documents <- x4, current <- x5,
         chunks <- x6, cited <- x7, loading <- x8, requests <- x9, history <- x10

ReloginProofs == INSTANCE WebClientProofs
    WITH MaxDocuments <- 1, MaxRequests <- 4, MaxLogins <- 2,
         server <- x1, session <- x2, selected <- x3, documents <- x4, current <- x5,
         chunks <- x6, cited <- x7, loading <- x8, requests <- x9, history <- x10

LEMMA WebMoves ==
    ASSUME [ServiceNext]_serviceVars, part' = "web"
    PROVE  part = "web" /\ [Web!Next]_(Web!vars)
BY DEF ServiceNext, serviceVars, shared, rest3, rest5, rest6, rest9, rest10, Web!vars

\* Both instances of WebClient are the same specification.
LEMMA WebStepsAgree == [Web!Next]_(Web!vars) => [WebProofs!Next]_(WebProofs!vars)
<1>1. /\ Web!Spoiled = WebProofs!Spoiled /\ Web!Empty = WebProofs!Empty
      /\ Web!Pending = WebProofs!Pending /\ Web!Live = WebProofs!Live
      /\ Web!Completed = WebProofs!Completed
      /\ \A list : Web!Newest(list) = WebProofs!Newest(list)
      /\ \A k, d : Web!Request(k, d) = WebProofs!Request(k, d)
      /\ \A r : Web!Alone(r) = WebProofs!Alone(r)
      /\ \A i : Web!Awaits(i) = WebProofs!Awaits(i)
      /\ Web!Stored = WebProofs!Stored
      /\ \A s, i : Web!RemoveAt(s, i) = WebProofs!RemoveAt(s, i)
  BY DEF Web!Spoiled, WebProofs!Spoiled, Web!Empty, WebProofs!Empty,
         Web!Pending, WebProofs!Pending, Web!Live, WebProofs!Live,
         Web!Completed, WebProofs!Completed, Web!Newest, WebProofs!Newest,
         Web!Request, WebProofs!Request, Web!Waiting, WebProofs!Waiting,
         Web!Alone, WebProofs!Alone, Web!Awaits, WebProofs!Awaits,
         Web!Stored, WebProofs!Stored, Web!RemoveAt, WebProofs!RemoveAt
<1>2. /\ Web!CurrentList = WebProofs!CurrentList
      /\ \A list : Web!OnePending(list) = WebProofs!OnePending(list)
      /\ \A rs : Web!Send(rs) = WebProofs!Send(rs)
  BY <1>1
     DEF Web!CurrentList, WebProofs!CurrentList, Web!OnePending, WebProofs!OnePending,
         Web!Send, WebProofs!Send
<1>3. \A k, d : Web!Answered(k, d) = WebProofs!Answered(k, d)
  BY <1>1, <1>2
     DEF Web!Answered, WebProofs!Answered, Web!Lists, WebProofs!Lists
<1>4. Web!Polling = WebProofs!Polling
  BY <1>2
     DEF Web!Polling, WebProofs!Polling
<1>5. \A d, after : Web!Select(d, after) = WebProofs!Select(d, after)
  BY <1>1
     DEF Web!Select, WebProofs!Select
<1>6. \A list, after : Web!Show(list, after) = WebProofs!Show(list, after)
  BY <1>1, <1>5
     DEF Web!Show, WebProofs!Show
<1>7. Web!User = WebProofs!User /\ Web!Poll = WebProofs!Poll
  BY <1>1, <1>2, <1>4, <1>5
     DEF Web!User, WebProofs!User, Web!Login, WebProofs!Login, Web!Logout, WebProofs!Logout,
         Web!Upload, WebProofs!Upload, Web!Ask, WebProofs!Ask, Web!Click, WebProofs!Click,
         Web!OpenCitation, WebProofs!OpenCitation, Web!Poll, WebProofs!Poll
<1>8. \A d : Web!Process(d) = WebProofs!Process(d)
  BY <1>1
     DEF Web!Process, WebProofs!Process
<1>9. \A i : Web!Serve(i) = WebProofs!Serve(i)
  <2>1. \A r : Web!Reply(r) = WebProofs!Reply(r)
    <3>1. {[of |-> d, status |-> x1[d]] : d \in Web!Live}
             = {[of |-> d, status |-> x1[d]] : d \in WebProofs!Live}
      BY <1>1, Zenon
    <3> QED
      BY <1>3, <3>1
         DEF Web!Reply, WebProofs!Reply
  <2> QED
    BY <1>1, <2>1
       DEF Web!Serve, WebProofs!Serve
<1>10. \A i : Web!Fail(i) = WebProofs!Fail(i)
  <2>1. \A i : Web!Half(i) = WebProofs!Half(i)
    BY <1>1
       DEF Web!Half, WebProofs!Half
  <2> QED
    BY <1>1, <2>1
       DEF Web!Fail, WebProofs!Fail
<1>11. \A r, rest :
         /\ Web!Dossiers(rest) = WebProofs!Dossiers(rest)
         /\ Web!Polled(r, rest) = WebProofs!Polled(r, rest)
         /\ Web!Opened(r, rest) = WebProofs!Opened(r, rest)
         /\ Web!Extraction(r, rest) = WebProofs!Extraction(r, rest)
         /\ Web!Content(r, rest) = WebProofs!Content(r, rest)
         /\ Web!Answer(r, rest) = WebProofs!Answer(r, rest)
         /\ Web!Uploaded(r, rest) = WebProofs!Uploaded(r, rest)
         /\ Web!Unread(rest) = WebProofs!Unread(rest)
  BY <1>1, <1>2, <1>5, <1>6
     DEF Web!Dossiers, WebProofs!Dossiers, Web!Polled, WebProofs!Polled,
         Web!Opened, WebProofs!Opened, Web!Extraction, WebProofs!Extraction,
         Web!Content, WebProofs!Content, Web!Answer, WebProofs!Answer,
         Web!Uploaded, WebProofs!Uploaded, Web!Unread, WebProofs!Unread
<1>12. \A i : Web!Arrive(i) = WebProofs!Arrive(i)
  BY <1>1, <1>11
     DEF Web!Arrive, WebProofs!Arrive
<1> QED
  BY <1>7, <1>8, <1>9, <1>10, <1>12
     DEF Web!Next, WebProofs!Next, Web!vars, WebProofs!vars

LEMMA WebInvariant == ServiceSpec => [](part = "web" => WebProofs!PageInv)
<1> DEFINE Inv == part = "web" => WebProofs!PageInv
<1>1. ServiceInit => Inv
  BY WebProofs!PageInit
     DEF ServiceInit, Web!Init, WebProofs!Init, Web!Empty, WebProofs!Empty
<1>2. Inv /\ [ServiceNext]_serviceVars => Inv'
  BY WebMoves, WebStepsAgree, WebProofs!PageStep
<1> QED BY <1>1, <1>2, PTL DEF ServiceSpec

LEMMA ReloginMoves ==
    ASSUME [ServiceNext]_serviceVars, part' = "relogin"
    PROVE  part = "relogin" /\ [Relogin!Next]_(Relogin!vars)
BY DEF ServiceNext, serviceVars, shared, rest3, rest5, rest6, rest9, rest10, Relogin!vars

\* Both instances of WebClient are the same specification.
LEMMA ReloginStepsAgree ==
    [Relogin!Next]_(Relogin!vars) => [ReloginProofs!Next]_(ReloginProofs!vars)
<1>1. /\ Relogin!Spoiled = ReloginProofs!Spoiled /\ Relogin!Empty = ReloginProofs!Empty
      /\ Relogin!Pending = ReloginProofs!Pending /\ Relogin!Live = ReloginProofs!Live
      /\ Relogin!Completed = ReloginProofs!Completed
      /\ \A list : Relogin!Newest(list) = ReloginProofs!Newest(list)
      /\ \A k, d : Relogin!Request(k, d) = ReloginProofs!Request(k, d)
      /\ \A r : Relogin!Alone(r) = ReloginProofs!Alone(r)
      /\ \A i : Relogin!Awaits(i) = ReloginProofs!Awaits(i)
      /\ Relogin!Stored = ReloginProofs!Stored
      /\ \A s, i : Relogin!RemoveAt(s, i) = ReloginProofs!RemoveAt(s, i)
  BY DEF Relogin!Spoiled, ReloginProofs!Spoiled, Relogin!Empty, ReloginProofs!Empty,
         Relogin!Pending, ReloginProofs!Pending, Relogin!Live, ReloginProofs!Live,
         Relogin!Completed, ReloginProofs!Completed, Relogin!Newest, ReloginProofs!Newest,
         Relogin!Request, ReloginProofs!Request, Relogin!Waiting, ReloginProofs!Waiting,
         Relogin!Alone, ReloginProofs!Alone, Relogin!Awaits, ReloginProofs!Awaits,
         Relogin!Stored, ReloginProofs!Stored, Relogin!RemoveAt, ReloginProofs!RemoveAt
<1>2. /\ Relogin!CurrentList = ReloginProofs!CurrentList
      /\ \A list : Relogin!OnePending(list) = ReloginProofs!OnePending(list)
      /\ \A rs : Relogin!Send(rs) = ReloginProofs!Send(rs)
  BY <1>1
     DEF Relogin!CurrentList, ReloginProofs!CurrentList,
         Relogin!OnePending, ReloginProofs!OnePending, Relogin!Send, ReloginProofs!Send
<1>3. \A k, d : Relogin!Answered(k, d) = ReloginProofs!Answered(k, d)
  BY <1>1, <1>2
     DEF Relogin!Answered, ReloginProofs!Answered, Relogin!Lists, ReloginProofs!Lists
<1>4. Relogin!Polling = ReloginProofs!Polling
  BY <1>2
     DEF Relogin!Polling, ReloginProofs!Polling
<1>5. \A d, after : Relogin!Select(d, after) = ReloginProofs!Select(d, after)
  BY <1>1
     DEF Relogin!Select, ReloginProofs!Select
<1>6. \A list, after : Relogin!Show(list, after) = ReloginProofs!Show(list, after)
  BY <1>1, <1>5
     DEF Relogin!Show, ReloginProofs!Show
<1>7. Relogin!User = ReloginProofs!User /\ Relogin!Poll = ReloginProofs!Poll
  BY <1>1, <1>2, <1>4, <1>5
     DEF Relogin!User, ReloginProofs!User, Relogin!Login, ReloginProofs!Login,
         Relogin!Logout, ReloginProofs!Logout, Relogin!Upload, ReloginProofs!Upload,
         Relogin!Ask, ReloginProofs!Ask, Relogin!Click, ReloginProofs!Click,
         Relogin!OpenCitation, ReloginProofs!OpenCitation, Relogin!Poll, ReloginProofs!Poll
<1>8. \A d : Relogin!Process(d) = ReloginProofs!Process(d)
  BY <1>1
     DEF Relogin!Process, ReloginProofs!Process
<1>9. \A i : Relogin!Serve(i) = ReloginProofs!Serve(i)
  <2>1. \A r : Relogin!Reply(r) = ReloginProofs!Reply(r)
    <3>1. {[of |-> d, status |-> x1[d]] : d \in Relogin!Live}
             = {[of |-> d, status |-> x1[d]] : d \in ReloginProofs!Live}
      BY <1>1, Zenon
    <3> QED
      BY <1>3, <3>1
         DEF Relogin!Reply, ReloginProofs!Reply
  <2> QED
    BY <1>1, <2>1
       DEF Relogin!Serve, ReloginProofs!Serve
<1>10. \A i : Relogin!Fail(i) = ReloginProofs!Fail(i)
  <2>1. \A i : Relogin!Half(i) = ReloginProofs!Half(i)
    BY <1>1
       DEF Relogin!Half, ReloginProofs!Half
  <2> QED
    BY <1>1, <2>1
       DEF Relogin!Fail, ReloginProofs!Fail
<1>11. \A r, rest :
         /\ Relogin!Dossiers(rest) = ReloginProofs!Dossiers(rest)
         /\ Relogin!Polled(r, rest) = ReloginProofs!Polled(r, rest)
         /\ Relogin!Opened(r, rest) = ReloginProofs!Opened(r, rest)
         /\ Relogin!Extraction(r, rest) = ReloginProofs!Extraction(r, rest)
         /\ Relogin!Content(r, rest) = ReloginProofs!Content(r, rest)
         /\ Relogin!Answer(r, rest) = ReloginProofs!Answer(r, rest)
         /\ Relogin!Uploaded(r, rest) = ReloginProofs!Uploaded(r, rest)
         /\ Relogin!Unread(rest) = ReloginProofs!Unread(rest)
  BY <1>1, <1>2, <1>5, <1>6
     DEF Relogin!Dossiers, ReloginProofs!Dossiers, Relogin!Polled, ReloginProofs!Polled,
         Relogin!Opened, ReloginProofs!Opened, Relogin!Extraction, ReloginProofs!Extraction,
         Relogin!Content, ReloginProofs!Content, Relogin!Answer, ReloginProofs!Answer,
         Relogin!Uploaded, ReloginProofs!Uploaded, Relogin!Unread, ReloginProofs!Unread
<1>12. \A i : Relogin!Arrive(i) = ReloginProofs!Arrive(i)
  BY <1>1, <1>11
     DEF Relogin!Arrive, ReloginProofs!Arrive
<1> QED
  BY <1>7, <1>8, <1>9, <1>10, <1>12
     DEF Relogin!Next, ReloginProofs!Next, Relogin!vars, ReloginProofs!vars

LEMMA ReloginInvariant == ServiceSpec => [](part = "relogin" => ReloginProofs!PageInv)
<1> DEFINE Inv == part = "relogin" => ReloginProofs!PageInv
<1>1. ServiceInit => Inv
  BY ReloginProofs!PageInit
     DEF ServiceInit, Relogin!Init, ReloginProofs!Init, Relogin!Empty, ReloginProofs!Empty
<1>2. Inv /\ [ServiceNext]_serviceVars => Inv'
  BY ReloginMoves, ReloginStepsAgree, ReloginProofs!PageStep
<1> QED BY <1>1, <1>2, PTL DEF ServiceSpec

(* In whatever order its requests are served and answered, and whichever of *)
(* them fail, a page at rest shows no status that has changed since; while  *)
(* all of them succeed in turn it also lists its own uploads and shows the  *)
(* passages of no other document (loadDocuments, upload, openCitation).     *)
THEOREM RestIsAlwaysTrue == ServiceSpec => []RestIsTrue
<1>1. WebProofs!PageInv => Web!RestIsTrue
  BY WebProofs!PageAtRest
     DEF Web!RestIsTrue, WebProofs!RestIsTrue, Web!AtRest, WebProofs!AtRest,
         Web!Polling, WebProofs!Polling, Web!OnePending, WebProofs!OnePending,
         Web!Pending, WebProofs!Pending
<1>2. ReloginProofs!PageInv => Web!RestIsTrue
  BY ReloginProofs!PageAtRest
     DEF Web!RestIsTrue, ReloginProofs!RestIsTrue, Web!AtRest, ReloginProofs!AtRest,
         Web!Polling, ReloginProofs!Polling, Web!OnePending, ReloginProofs!OnePending,
         Web!Pending, ReloginProofs!Pending
<1>3. (part = "web" => WebProofs!PageInv) /\ (part = "relogin" => ReloginProofs!PageInv)
         => RestIsTrue
  BY <1>1, <1>2 DEF RestIsTrue
<1> QED BY <1>3, WebInvariant, ReloginInvariant, PTL

-----------------------------------------------------------------------------
(* The text of a document, for any lines and any limits.                    *)

TextProofs == INSTANCE DocumentTextProofs
    WITH MaxLines <- MaxTextLines,
         media <- x1, source <- x2, blocks <- x3, page <- x4, section <- x5,
         paragraph <- x6, chunks <- x7, cut <- x8, status <- x9

LEMMA TextMoves ==
    ASSUME [ServiceNext]_serviceVars, part' = "text"
    PROVE  part = "text" /\ [Text!Next]_(Text!vars)
BY DEF ServiceNext, serviceVars, shared, rest3, rest5, rest6, rest9, rest10, Text!vars

\* Both instances of DocumentText are the same specification.
LEMMA TextsAgree ==
    /\ Text!Trimmed = TextProofs!Trimmed /\ Text!Lines = TextProofs!Lines
    /\ Text!Flush = TextProofs!Flush /\ Text!Pending = TextProofs!Pending
    /\ \A char : Text!IsBlank(char) = TextProofs!IsBlank(char)
    /\ \A i, l : Text!CharsOf(i, l) = TextProofs!CharsOf(i, l)
BY DEF Text!Trimmed, TextProofs!Trimmed, Text!Kinds, TextProofs!Kinds,
       Text!Lines, TextProofs!Lines, Text!Flush, TextProofs!Flush,
       Text!Block, TextProofs!Block, Text!Pending, TextProofs!Pending,
       Text!IsBlank, TextProofs!IsBlank, Text!CharsOf, TextProofs!CharsOf

LEMMA TextStepsAgree == [Text!Next]_(Text!vars) => [TextProofs!Next]_(TextProofs!vars)
<1>1. Text!ReadLine = TextProofs!ReadLine
  <2>1. /\ \A b : Text!NextPage(b) = TextProofs!NextPage(b)
        /\ \A under, text : Text!Block(under, text) = TextProofs!Block(under, text)
        /\ Text!Separator = TextProofs!Separator
    BY DEF Text!NextPage, TextProofs!NextPage, Text!Block, TextProofs!Block,
           Text!Separator, TextProofs!Separator
  <2>2. /\ \A i, l : Text!Heading(i, l) = TextProofs!Heading(i, l)
        /\ \A i, l : Text!TextLine(i, l) = TextProofs!TextLine(i, l)
        /\ Text!BlankLine = TextProofs!BlankLine
    BY <2>1, TextsAgree
       DEF Text!Heading, TextProofs!Heading, Text!TextLine, TextProofs!TextLine,
           Text!BlankLine, TextProofs!BlankLine
  <2> QED BY <2>2, TextsAgree DEF Text!ReadLine, TextProofs!ReadLine
<1>2. Text!Parse = TextProofs!Parse
  BY TextsAgree DEF Text!Parse, TextProofs!Parse
<1>3. /\ \A pieces : Text!Yield(pieces) = TextProofs!Yield(pieces)
      /\ Text!Text = TextProofs!Text
  BY DEF Text!Yield, TextProofs!Yield, Text!Text, TextProofs!Text
<1>4. /\ \A s : Text!Starts(s) = TextProofs!Starts(s)
      /\ \A e : Text!NothingUntil(e) = TextProofs!NothingUntil(e)
      /\ \A e : Text!EndsSentence(e) = TextProofs!EndsSentence(e)
      /\ \A e : Text!EndsWord(e) = TextProofs!EndsWord(e)
  BY <1>3, TextsAgree
     DEF Text!Starts, TextProofs!Starts, Text!NothingUntil, TextProofs!NothingUntil,
         Text!EndsSentence, TextProofs!EndsSentence, Text!EndsWord, TextProofs!EndsWord
<1>5. Text!Sentence = TextProofs!Sentence
  BY <1>3, <1>4, Zenon DEF Text!Sentence, TextProofs!Sentence
<1>6. \A w, after : Text!AddWord(w, after) = TextProofs!AddWord(w, after)
  <2>1. \A w : /\ Text!Parts(w) = TextProofs!Parts(w)
               /\ Text!Longer(w) = TextProofs!Longer(w)
               /\ Text!Fits(w) = TextProofs!Fits(w)
    BY DEF Text!Parts, TextProofs!Parts, Text!Longer, TextProofs!Longer, Text!Fits, TextProofs!Fits
  <2> QED BY <1>3, <2>1, TextsAgree
             DEF Text!AddWord, TextProofs!AddWord, Text!Space, TextProofs!Space
<1>7. Text!Word = TextProofs!Word
  BY <1>3, <1>4, <1>6 DEF Text!Word, TextProofs!Word
<1>8. Text!EndOfSentence = TextProofs!EndOfSentence /\ Text!EndOfBlock = TextProofs!EndOfBlock
  BY <1>3, <1>4, TextsAgree
     DEF Text!EndOfSentence, TextProofs!EndOfSentence, Text!EndOfBlock, TextProofs!EndOfBlock
<1> QED BY <1>1, <1>2, <1>5, <1>7, <1>8
           DEF Text!Next, TextProofs!Next, Text!vars, TextProofs!vars

LEMMA KeptAgrees == TextProofs!SourceIsKept => Text!SourceIsKept
<1>1. /\ \A text : Text!Letters(text) = TextProofs!Letters(text)
      /\ \A x, y : Text!Before(x, y) = TextProofs!Before(x, y)
      /\ \A i, s : Text!StandsUnder(i, s) = TextProofs!StandsUnder(i, s)
      /\ \A i, j : Text!Breaks(i, j) = TextProofs!Breaks(i, j)
      /\ \A i, p : Text!LongWordAt(i, p) = TextProofs!LongWordAt(i, p)
  BY TextsAgree
     DEF Text!Letters, TextProofs!Letters, Text!Before, TextProofs!Before,
         Text!StandsUnder, TextProofs!StandsUnder, Text!None, TextProofs!None,
         Text!Breaks, TextProofs!Breaks, Text!LongWordAt, TextProofs!LongWordAt
<1>2. \A text : Text!Ordered(text) = TextProofs!Ordered(text)
  BY <1>1, TextsAgree DEF Text!Ordered, TextProofs!Ordered
<1>3. /\ \A list : Text!InOrder(list) = TextProofs!InOrder(list)
      /\ \A list : Text!LettersIn(list) = TextProofs!LettersIn(list)
      /\ Text!Written = TextProofs!Written
  BY <1>1, <1>2, TextsAgree
     DEF Text!InOrder, TextProofs!InOrder, Text!LettersIn, TextProofs!LettersIn,
         Text!Written, TextProofs!Written
<1> QED BY <1>1, <1>3 DEF Text!SourceIsKept, TextProofs!SourceIsKept

(* The chunks are the text of their document, in order, under its sections  *)
(* and on its pages, however its lines and words fall (chunk_pages).        *)
THEOREM ChunksAreAlwaysSource == ServiceSpec => []ChunksAreSource
<1> DEFINE Inv == part = "text" => TextProofs!TextInv
<1>1. TextProofs!Trimmed
  BY TextAssumption, TextsAgree
<1>2. ServiceInit => Inv
  BY <1>1, TextProofs!TextInit
     DEF ServiceInit, Text!Init, TextProofs!Init, Text!None, TextProofs!None
<1>3. Inv /\ [ServiceNext]_serviceVars => Inv'
  BY <1>1, TextMoves, TextStepsAgree, TextProofs!TextStep
<1>4. Inv => ChunksAreSource
  BY <1>1, KeptAgrees, TextProofs!TextKept DEF ChunksAreSource
<1> QED BY <1>2, <1>3, <1>4, PTL DEF ServiceSpec
==============================================================================
