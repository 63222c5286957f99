--------------------------- MODULE WebClientProofs ---------------------------
(* The page keeps PageInv, step by step, for every number of documents, of   *)
(* requests under way and of sessions, whatever the order of the replies.    *)
(* ServiceProofs makes a theorem of the whole specification of it.           *)
EXTENDS WebClient, SequenceTheorems, WellFoundedInduction, TLAPS

Kinds == {"dossiers", "opened", "listed", "poll", "content", "upload", "ask", "extraction",
          "extracted", "unread"}
New == {Request(kind, d) : kind \in Kinds, d \in Nat}
UnderWay == {requests[i] : i \in DOMAIN requests}

\* The requests under way or about to be sent are those after the first k, and new ones.
Continues(after, k) ==
    /\ after \in Seq(UnderWay \cup New)
    /\ k \in {0, 1} /\ k <= Len(requests) /\ Len(requests) - k <= Len(after)
    /\ \A i \in 1 .. Len(after) : IF i <= Len(requests) - k THEN after[i] = requests[i + k]
                                  ELSE after[i] \in New

\* None of the new ones is for passages.
NoContent(after, k) ==
    \A i \in 1 .. Len(after) : i > Len(requests) - k => after[i].kind # "content"

LEMMA RequestsAre ==
    ASSUME StatusInv
    PROVE  /\ requests \in Seq(UnderWay) /\ Len(requests) \in Nat
           /\ DOMAIN requests = 1 .. Len(requests)
           /\ \A r \in UnderWay : Fits(r)
<1>1. requests \in Seq(UnderWay)
  BY DEF StatusInv, UnderWay
<1>2. Len(requests) \in Nat /\ DOMAIN requests = 1 .. Len(requests)
  BY <1>1
<1> QED BY <1>1, <1>2 DEF StatusInv, UnderWay

LEMMA NewAre ==
    \A r \in New : /\ Fits(r) /\ ~ r.reply.served /\ Names(r) = {}
                   /\ r = [kind |-> r.kind, document |-> r.document, reply |-> r.reply]
BY DEF New, Request, Waiting, Fits, Names

LEMMA Nothing ==
    ASSUME StatusInv
    PROVE  Continues(requests, 0) /\ NoContent(requests, 0)
<1>1. requests \in Seq(UnderWay \cup New)
  BY RequestsAre
<1> QED BY <1>1, RequestsAre DEF Continues, NoContent

LEMMA FirstLeaves ==
    ASSUME StatusInv, 1 \in DOMAIN requests
    PROVE  /\ Continues(RemoveAt(requests, 1), 1) /\ NoContent(RemoveAt(requests, 1), 1)
           /\ Len(RemoveAt(requests, 1)) = Len(requests) - 1
<1> DEFINE n == Len(requests)
           rest == RemoveAt(requests, 1)
<1>1. requests \in Seq(UnderWay \cup New) /\ n \in Nat /\ 1 <= n
  BY RequestsAre
<1>2. SubSeq(requests, 1, 0) = <<>>
  BY <1>1
<1> DEFINE T == UnderWay \cup New
           tail == SubSeq(requests, 2, n)
<1> HIDE DEF T, n
<1>3. tail \in Seq(T) /\ Len(tail) = n - 1 /\ \A i \in 1 .. n - 1 : tail[i] = requests[i + 1]
  <2>1. requests \in Seq(T) /\ n = Len(requests)
    BY <1>1 DEF T, n
  <2> QED BY <1>1, <2>1, SubSeqProperties
<1> HIDE DEF tail
<1>4. rest = <<>> \o tail
  BY <1>2 DEF tail, RemoveAt, n
<1>5. rest = tail
  BY <1>3, <1>4
<1> HIDE DEF rest
<1>6. /\ rest \in Seq(T) /\ Len(rest) = n - 1 /\ DOMAIN rest = 1 .. n - 1
      /\ \A i \in 1 .. n - 1 : rest[i] = requests[i + 1]
  BY <1>1, <1>3, <1>5
<1>7. n = Len(requests)
  BY DEF n
<1>8. Continues(rest, 1) /\ NoContent(rest, 1) /\ Len(rest) = Len(requests) - 1
  BY <1>1, <1>6, <1>7 DEF Continues, NoContent, T
<1> QED BY <1>8 DEF rest

LEMMA OneMore ==
    ASSUME StatusInv, NEW k, NEW after, Continues(after, k), NEW r \in New
    PROVE  /\ Continues(Append(after, r), k)
           /\ NoContent(after, k) /\ r.kind # "content" => NoContent(Append(after, r), k)
<1>1. after \in Seq(UnderWay \cup New) /\ Len(requests) \in Nat /\ Len(after) \in Nat
  BY RequestsAre DEF Continues
<1>2. /\ Append(after, r) \in Seq(UnderWay \cup New) /\ Len(Append(after, r)) = Len(after) + 1
      /\ \A i \in 1 .. Len(after) : Append(after, r)[i] = after[i]
      /\ Append(after, r)[Len(after) + 1] = r
  BY <1>1, AppendProperties
<1>3. \A i \in 1 .. Len(after) + 1 : i \in 1 .. Len(after) \/ i = Len(after) + 1
  BY <1>1
<1>4. k \in {0, 1} /\ k <= Len(requests) /\ Len(requests) - k <= Len(after)
  BY DEF Continues
<1> DEFINE more == Append(after, r)
<1> HIDE DEF more
<1>5. Continues(more, k)
  BY <1>1, <1>2, <1>3, <1>4 DEF Continues, more
<1>6. NoContent(after, k) /\ r.kind # "content" => NoContent(more, k)
  BY <1>1, <1>2, <1>3, <1>4 DEF NoContent, more
<1> QED BY <1>5, <1>6 DEF more

-----------------------------------------------------------------------------
(* What the server does to a document: a status that is not pending stays.  *)
Grows == \A d \in DOMAIN server :
            /\ d \in DOMAIN server'
            /\ server[d] \notin Pending => server'[d] = server[d]
            /\ server[d] # "deleted" => server'[d] # "deleted"

LEMMA StillRecent ==
    ASSUME Grows
    PROVE  /\ \A d \in Live : \A status : IsRecent(d, status) => IsRecent(d, status)'
           /\ \A list : DOMAIN list \subseteq Live /\ Recent(list) => Recent(list)'
<1>1. \A d \in Live : \A status : IsRecent(d, status) => IsRecent(d, status)'
  BY DEF Grows, IsRecent, Live
<1> QED BY <1>1 DEF Recent

LEMMA StillFits ==
    ASSUME Grows, NEW r, Fits(r)
    PROVE  Fits(r)'
<1>1. Live \subseteq Live'
  BY DEF Grows, Live
<1>2. Names(r)' = Names(r)
  BY DEF Names
<1>3. ASSUME r.reply.served, r.kind \in Lists PROVE Recent(r.reply.value)'
  <2>1. DOMAIN r.reply.value \subseteq Live /\ Recent(r.reply.value)
    BY <1>3 DEF Fits, Names, Lists
  <2> QED BY <2>1, StillRecent
<1>4. ASSUME r.reply.served, r.kind = "upload"
      PROVE  IsRecent(r.reply.value.of, r.reply.value.status)'
  <2>1. /\ r.reply.value.of \in Live
        /\ IsRecent(r.reply.value.of, r.reply.value.status)
    BY <1>4 DEF Fits, Names, Lists
  <2> QED BY <2>1, StillRecent
<1> QED BY <1>1, <1>2, <1>3, <1>4 DEF Fits

LEMMA StatusFrom ==
    ASSUME StatusInv, Grows, server' \in Seq(Pending \cup {"completed", "failed", "deleted"}),
           NEW T, requests' \in Seq(T), \A r \in T : Fits(r)',
           Known' \subseteq Live', Recent(documents)',
           session' = [logins |-> session'.logins, active |-> session'.active],
           history' = [clean |-> history'.clean, mine |-> history'.mine],
           ~ history'.clean => history'.mine = {}
    PROVE  StatusInv'
<1>1. \A i \in DOMAIN requests' : requests'[i] \in T
  BY ElementOfSeq
<1>2. \A i \in DOMAIN requests' : Fits(requests[i])'
  BY <1>1 DEF Fits, Names
<1>3. requests' \in Seq({requests'[i] : i \in DOMAIN requests'})
  <2>1. Len(requests') \in Nat /\ DOMAIN requests' = 1 .. Len(requests')
    OBVIOUS
  <2>2. requests' = [i \in 1 .. Len(requests') |-> requests'[i]]
    BY <2>1
  <2> QED BY <2>1, <2>2
<1> QED BY <1>2, <1>3 DEF StatusInv

\* The page did something, the server did not.
LEMMA PageStatus ==
    ASSUME StatusInv, UNCHANGED server, NEW T, requests' \in Seq(T), \A r \in T : Fits(r),
           Known' \subseteq Live, DOMAIN documents' \subseteq Live, Recent(documents'),
           session' = [logins |-> session'.logins, active |-> session'.active],
           history' = [clean |-> history'.clean, mine |-> history'.mine],
           ~ history'.clean => history'.mine = {}
    PROVE  StatusInv'
<1>1. Grows /\ server' \in Seq(Pending \cup {"completed", "failed", "deleted"})
  BY DEF Grows, StatusInv
<1>2. Known' \subseteq Live' /\ Recent(documents)'
  BY DEF Live, Recent, IsRecent
<1>3. \A r \in T : Fits(r)'
  BY <1>1, StillFits
<1> QED BY <1>1, <1>2, <1>3, StatusFrom

-----------------------------------------------------------------------------
(* Requests that leave at the front and are added at the end keep the order.*)
LEMMA QueueMoves ==
    ASSUME StatusInv, ServedInTurn, ListsGrow, NEW k, Continues(requests', k),
           Known' \subseteq Known \cup (IF k = 1 THEN Names(requests[1]) ELSE {})
    PROVE  ServedInTurn' /\ ListsGrow'
<1> DEFINE n == Len(requests)
           m == Len(requests')
<1>1. /\ n \in Nat /\ DOMAIN requests = 1 .. n /\ m \in Nat /\ DOMAIN requests' = 1 .. m
      /\ k \in {0, 1} /\ k <= n /\ n - k <= m
  BY RequestsAre DEF Continues
<1>2. \A i \in 1 .. m : IF i <= n - k THEN requests'[i] = requests[i + k]
                        ELSE ~ requests'[i].reply.served
  BY NewAre DEF Continues
<1> HIDE DEF n, m
<1>3. ASSUME NEW i \in 1 .. m, requests'[i].reply.served
      PROVE  /\ i + k \in 1 .. n /\ requests'[i] = requests[i + k]
             /\ \A j \in 1 .. i - 1 : /\ j \in 1 .. m /\ j + k \in 1 .. i + k - 1
                                      /\ j + k \in 1 .. n /\ requests'[j] = requests[j + k]
             /\ k = 1 => 1 \in 1 .. i + k - 1
  <2>1. i \in Nat /\ i >= 1 /\ i <= m /\ i <= n - k
    BY <1>1, <1>2, <1>3
  <2>2. i + k \in 1 .. n /\ requests'[i] = requests[i + k]
    BY <1>1, <1>2, <2>1
  <2>3. ASSUME NEW j \in 1 .. i - 1
        PROVE  /\ j \in 1 .. m /\ j + k \in 1 .. i + k - 1
               /\ j + k \in 1 .. n /\ requests'[j] = requests[j + k]
    <3>1. j \in 1 .. m /\ j <= n - k
      BY <1>1, <2>1
    <3>2. j + k \in 1 .. i + k - 1 /\ j + k \in 1 .. n
      BY <1>1, <2>1, <3>1
    <3> QED
      BY <1>2, <3>1, <3>2
  <2>4. k = 1 => 1 \in 1 .. i + k - 1
    BY <2>1
  <2> QED
    BY <2>2, <2>3, <2>4
<1>4. ServedInTurn'
  <2> SUFFICES ASSUME NEW i \in 1 .. m, NEW j \in 1 .. m, j < i, requests'[i].reply.served
               PROVE  requests'[j].reply.served
    BY <1>1 DEF ServedInTurn
  <2>1. j \in 1 .. i - 1 /\ i + k \in 1 .. n /\ j + k \in 1 .. n /\ j + k < i + k
    BY <1>1, <1>3
  <2> QED BY <1>1, <1>3, <2>1 DEF ServedInTurn
<1>5. ListsGrow'
  <2> SUFFICES ASSUME NEW i \in 1 .. m, requests'[i].kind \in Lists, requests'[i].reply.served
               PROVE  /\ Known' \subseteq Names(requests'[i])
                      /\ \A j \in 1 .. i - 1 : Names(requests'[j]) \subseteq Names(requests'[i])
    BY <1>1 DEF ListsGrow, Names
  <2>1. /\ Known \subseteq Names(requests[i + k])
        /\ \A j \in 1 .. i + k - 1 : Names(requests[j]) \subseteq Names(requests[i + k])
    BY <1>1, <1>3 DEF ListsGrow
  <2>2. k = 1 => Names(requests[1]) \subseteq Names(requests[i + k])
    BY <1>3, <2>1
  <2> QED BY <1>3, <2>1, <2>2
<1> QED BY <1>4, <1>5

\* The passages last asked for are those of the selected document.
LEMMA AskedLast ==
    ASSUME NEW T, requests' \in Seq(T), Len(requests') > 0,
           requests'[Len(requests')].kind = "content",
           requests'[Len(requests')].document = current', current' # 0
    PROVE  ContentIsCurrent'
<1>1. Len(requests') \in Nat /\ DOMAIN requests' = 1 .. Len(requests')
  OBVIOUS
<1>2. Len(requests') \in Contents'
  BY <1>1 DEF Contents
<1>3. \A i \in Contents' : i <= Len(requests') /\ i \in Nat
  BY <1>1 DEF Contents
<1>4. \A i \in Contents' : (\A j \in Contents' : j <= i) => i = Len(requests')
  BY <1>1, <1>2, <1>3
<1> QED BY <1>2, <1>4 DEF ContentIsCurrent

\* Nothing was asked, or shown, about passages.
LEMMA ContentStays ==
    ASSUME StatusInv, ContentIsCurrent, NEW k, Continues(requests', k), NoContent(requests', k),
           k = 1 => requests[1].kind # "content",
           UNCHANGED current, chunks' \in {chunks, Empty}, session'.active => session.active
    PROVE  ContentIsCurrent'
<1> DEFINE n == Len(requests)
           m == Len(requests')
<1>1. /\ n \in Nat /\ DOMAIN requests = 1 .. n /\ m \in Nat /\ DOMAIN requests' = 1 .. m
      /\ k \in {0, 1} /\ k <= n /\ n - k <= m
  BY RequestsAre DEF Continues
<1>2. \A i \in 1 .. m : IF i <= n - k THEN requests'[i] = requests[i + k]
                        ELSE requests'[i].kind # "content"
  BY DEF Continues, NoContent
<1> HIDE DEF n, m
<1>3. \A i \in Contents' : i + k \in Contents /\ requests'[i] = requests[i + k] /\ i \in Nat
  BY <1>1, <1>2 DEF Contents
<1>4. \A i \in Contents : i - k \in Contents' /\ i \in Nat
  BY <1>1, <1>2 DEF Contents
<1>5. Contents' = {} <=> Contents = {}
  BY <1>3, <1>4
<1>6. chunks'.any => chunks.any /\ chunks' = chunks
  BY DEF Empty
<1>7. ASSUME NEW i \in Contents', \A j \in Contents' : j <= i
      PROVE  \A j \in Contents : j <= i + k
  BY <1>1, <1>3, <1>4, <1>7
<1> QED BY <1>3, <1>5, <1>6, <1>7 DEF ContentIsCurrent

\* The first reply is shown: passages.
LEMMA ContentArrives ==
    ASSUME StatusInv, ContentIsCurrent, Continues(requests', 1), NoContent(requests', 1),
           requests[1].kind = "content", requests[1].reply.served,
           chunks' = requests[1].reply.value, UNCHANGED <<current, session>>
    PROVE  ContentIsCurrent'
<1> DEFINE n == Len(requests)
           m == Len(requests')
<1>1. /\ n \in Nat /\ DOMAIN requests = 1 .. n /\ m \in Nat /\ DOMAIN requests' = 1 .. m
      /\ 1 <= n /\ n - 1 <= m
  BY RequestsAre DEF Continues
<1>2. \A i \in 1 .. m : IF i <= n - 1 THEN requests'[i] = requests[i + 1]
                        ELSE requests'[i].kind # "content"
  BY DEF Continues, NoContent
<1>3. chunks'.of = requests[1].document
  BY <1>1, RequestsAre DEF Fits, UnderWay
<1> HIDE DEF n, m
<1>4. 1 \in Contents
  BY <1>1 DEF Contents
<1>5. \A i \in Contents' : i + 1 \in Contents /\ requests'[i] = requests[i + 1] /\ i \in Nat
  BY <1>1, <1>2 DEF Contents
<1>6. \A i \in Contents : (i = 1 \/ i - 1 \in Contents') /\ i \in Nat
  BY <1>1, <1>2 DEF Contents
<1>7. ASSUME NEW i \in Contents', \A j \in Contents' : j <= i
      PROVE  \A j \in Contents : j <= i + 1
  BY <1>1, <1>5, <1>6, <1>7
<1>8. current # 0
  BY <1>4 DEF ContentIsCurrent
<1>9. ASSUME session.active, Contents' = {} PROVE chunks'.of = current
  <2>1. \A j \in Contents : j <= 1
    BY <1>6, <1>9
  <2> QED BY <1>3, <1>4, <1>9, <2>1 DEF ContentIsCurrent
<1> QED BY <1>4, <1>5, <1>7, <1>8, <1>9 DEF ContentIsCurrent

\* No document was selected: no passages were asked for, and none are.
LEMMA NoneSelected ==
    ASSUME StatusInv, ContentIsCurrent, current = 0, NEW k, Continues(requests', k),
           NoContent(requests', k), chunks' \in {chunks, Empty}
    PROVE  ContentIsCurrent'
<1> DEFINE n == Len(requests)
           m == Len(requests')
<1>1. /\ n \in Nat /\ DOMAIN requests = 1 .. n /\ m \in Nat /\ DOMAIN requests' = 1 .. m
      /\ k \in {0, 1} /\ k <= n /\ n - k <= m
  BY RequestsAre DEF Continues
<1>2. \A i \in 1 .. m : IF i <= n - k THEN requests'[i] = requests[i + k]
                        ELSE requests'[i].kind # "content"
  BY DEF Continues, NoContent
<1>3. Contents = {} /\ ~ chunks.any
  BY DEF ContentIsCurrent
<1> HIDE DEF n, m
<1>4. Contents' = {}
  <2>1. \A i \in 1 .. n : requests[i].kind # "content"
    BY <1>1, <1>3 DEF Contents
  <2>2. \A i \in 1 .. m : requests'[i].kind # "content"
    BY <1>1, <1>2, <2>1
  <2> QED BY <1>1, <2>2 DEF Contents
<1>5. ~ chunks'.any
  BY <1>3 DEF Empty
<1> QED BY <1>4, <1>5 DEF ContentIsCurrent

-----------------------------------------------------------------------------
(* What the user and the timer do.                                          *)

LEMMA ContinuesFit ==
    ASSUME StatusInv, NEW k, NEW after, Continues(after, k)
    PROVE  after \in Seq(UnderWay \cup New) /\ \A r \in UnderWay \cup New : Fits(r)
BY RequestsAre, NewAre DEF Continues

\* A step that changes nothing of what the page knows or the server has.
LEMMA NothingLearnt ==
    ASSUME StatusInv, UNCHANGED <<server, documents, cited, history>>,
           NEW k, Continues(requests', k), current' \in Live \cup {0, current},
           session' = [logins |-> session'.logins, active |-> session'.active]
    PROVE  StatusInv'
<1>1. Known' \subseteq Live /\ DOMAIN documents' \subseteq Live /\ Recent(documents')
  BY DEF StatusInv, Known
<1>2. history' = [clean |-> history'.clean, mine |-> history'.mine]
      /\ (~ history'.clean => history'.mine = {})
  BY DEF StatusInv
<1> QED BY <1>1, <1>2, ContinuesFit, PageStatus

LEMMA RequestsKinds ==
    \A kind \in Kinds, d \in Nat :
        Request(kind, d) \in New /\ Request(kind, d).kind = kind /\ Request(kind, d).document = d
BY DEF New, Request

LEMMA SendingKeeps ==
    ASSUME PageInv, NEW kind \in Kinds \ {"content"}, Send(<<Request(kind, 0)>>),
           UNCHANGED <<server, session, documents, current, chunks, cited, history>>
    PROVE  PageInv'
<1>1. StatusInv /\ CleanInv
  BY DEF PageInv
<1>2. requests' = Append(requests, Request(kind, 0))
  BY <1>1, RequestsAre, AppendIsConcat DEF Send
<1>3. Continues(requests', 0) /\ NoContent(requests', 0)
  BY <1>1, <1>2, Nothing, OneMore, RequestsKinds
<1>4. StatusInv'
  <2>1. session' = [logins |-> session'.logins, active |-> session'.active]
    BY <1>1 DEF StatusInv
  <2> QED BY <1>1, <1>3, <2>1, NothingLearnt
<1>5. Known' = Known
  BY DEF Known
<1>6. CleanInv'
  <2> SUFFICES ASSUME history.clean
               PROVE  ServedInTurn' /\ ListsGrow' /\ ContentIsCurrent'
                      /\ history'.mine \subseteq DOMAIN documents'
    BY DEF CleanInv
  <2> QED BY <1>1, <1>3, <1>5, QueueMoves, ContentStays DEF CleanInv
<1> QED BY <1>4, <1>6 DEF PageInv

\* Documents are numbered from 1.
LEMMA LiveAreNumbers == ASSUME StatusInv PROVE \A d \in Live : d \in Nat /\ d # 0
<1>1. Len(server) \in Nat /\ DOMAIN server = 1 .. Len(server)
  BY DEF StatusInv
<1> QED BY <1>1 DEF Live

LEMMA Selects ==
    ASSUME StatusInv, NEW k, NEW after, Continues(after, k), NEW d \in Nat, Select(d, after)
    PROVE  Continues(requests', k) /\ current' = d /\ chunks' \in {chunks, Empty}
<1>1. current' = d /\ chunks' \in {chunks, Empty}
  BY DEF Select
<1>2. requests' = after \/ requests' = Append(after, Request("content", d))
  BY DEF Select
<1>3. Request("content", d) \in New
  BY RequestsKinds DEF Kinds
<1>4. Continues(requests', k)
  BY <1>2, <1>3, OneMore
<1> QED BY <1>1, <1>4

LEMMA SelectsItsContent ==
    ASSUME StatusInv, ContentIsCurrent, NEW k, NEW after, Continues(after, k), NoContent(after, k),
           k = 1 => requests[1].kind # "content",
           NEW d \in Nat, Select(d, after), d = 0 => current = 0, UNCHANGED session
    PROVE  ContentIsCurrent'
<1>1. Continues(requests', k) /\ current' = d /\ chunks' \in {chunks, Empty}
  BY Selects
<1>2. CASE d = current
  <2>1. requests' = after
    BY <1>2 DEF Select
  <2> QED BY <1>1, <1>2, <2>1, ContentStays
<1>3. CASE d # current /\ ~ session.active
  BY <1>1, <1>3 DEF ContentIsCurrent
<1>4. CASE d # current /\ session.active
  <2>1. d # 0 /\ requests' = Append(after, Request("content", d))
    BY <1>4 DEF Select
  <2>2. after \in Seq(UnderWay \cup New) /\ Request("content", d) \in New
    BY RequestsKinds DEF Continues, Kinds
  <2>3. /\ requests' \in Seq(UnderWay \cup New) /\ Len(requests') > 0
        /\ requests'[Len(requests')] = Request("content", d)
    BY <2>1, <2>2, AppendProperties
  <2> QED BY <1>1, <2>1, <2>3, AskedLast, RequestsKinds DEF Kinds
<1> QED BY <1>2, <1>3, <1>4

LEMMA ClickKeeps ==
    ASSUME PageInv, NEW d, Click(d)
    PROVE  PageInv'
<1>1. /\ StatusInv /\ CleanInv /\ d \in DOMAIN documents /\ Select(d, requests)
      /\ UNCHANGED <<server, session, documents, cited, history>>
  BY DEF PageInv, Click
<1>2. d \in Known /\ d \in Live /\ d \in Nat /\ d # 0
  BY <1>1, LiveAreNumbers DEF StatusInv, Known
<1>3. Continues(requests, 0) /\ NoContent(requests, 0)
  BY <1>1, Nothing
<1>4. Continues(requests', 0) /\ current' = d
  BY <1>1, <1>2, <1>3, Selects
<1>5. session' = [logins |-> session'.logins, active |-> session'.active]
  BY <1>1 DEF StatusInv
<1>6. StatusInv'
  BY <1>1, <1>2, <1>4, <1>5, NothingLearnt
<1>7. Known' \subseteq Known
  BY <1>1, <1>2, <1>4 DEF Known
<1>8. ASSUME history.clean PROVE ServedInTurn' /\ ListsGrow' /\ ContentIsCurrent'
  BY <1>1, <1>2, <1>3, <1>4, <1>7, <1>8, QueueMoves, SelectsItsContent DEF CleanInv
<1>9. CleanInv'
  BY <1>1, <1>8 DEF CleanInv
<1> QED BY <1>6, <1>9 DEF PageInv

LEMMA CitationKeeps ==
    ASSUME PageInv, NEW d, OpenCitation(d)
    PROVE  PageInv'
<1> DEFINE asked == Append(requests, Request("content", d))
<1>1. /\ StatusInv /\ CleanInv /\ d \in cited /\ Select(d, asked) /\ session.active
      /\ UNCHANGED <<server, session, documents, cited, history>>
  BY DEF PageInv, OpenCitation
<1>2. d \in Known /\ d \in Live /\ d \in Nat /\ d # 0
  BY <1>1, LiveAreNumbers DEF StatusInv, Known
<1>3. Continues(asked, 0)
  BY <1>1, <1>2, Nothing, OneMore, RequestsKinds DEF Kinds
<1>4. Continues(requests', 0) /\ current' = d
  <2> HIDE DEF asked
  <2> QED BY <1>1, <1>2, <1>3, Selects
<1>5. session' = [logins |-> session'.logins, active |-> session'.active]
  BY <1>1 DEF StatusInv
<1>6. StatusInv'
  BY <1>1, <1>2, <1>4, <1>5, NothingLearnt
<1>7. Known' \subseteq Known
  BY <1>1, <1>2, <1>4 DEF Known
<1>8. ContentIsCurrent'
  <2>1. Request("content", d) \in New
    BY <1>2, RequestsKinds DEF Kinds
  <2>2. PICK before \in Seq(UnderWay \cup New) : requests' = Append(before, Request("content", d))
    <3>1. requests \in Seq(UnderWay \cup New) /\ asked \in Seq(UnderWay \cup New)
      BY <1>1, <1>3, Nothing DEF Continues
    <3>2. requests' = asked \/ requests' = Append(asked, Request("content", d))
      BY <1>1 DEF Select
    <3> QED BY <3>1, <3>2
  <2>3. /\ requests' \in Seq(UnderWay \cup New) /\ Len(requests') > 0
        /\ requests'[Len(requests')] = Request("content", d)
    BY <2>1, <2>2, AppendProperties
  <2> QED BY <1>2, <1>4, <2>3, AskedLast, RequestsKinds DEF Kinds
<1>9. ASSUME history.clean PROVE ServedInTurn' /\ ListsGrow'
  BY <1>1, <1>4, <1>7, <1>9, QueueMoves DEF CleanInv
<1>10. CleanInv'
  BY <1>1, <1>8, <1>9 DEF CleanInv
<1> QED BY <1>6, <1>10 DEF PageInv

\* New requests for something else than passages.
Others == {r \in New : r.kind # "content"}

LEMMA OthersAre ==
    \A kind \in Kinds \ {"content"}, d \in Nat : Request(kind, d) \in Others
BY RequestsKinds DEF Others

LEMMA MoreAtTheEnd ==
    ASSUME StatusInv, NEW k, NEW after, Continues(after, k), NEW rs \in Seq(New)
    PROVE  /\ Continues(after \o rs, k)
           /\ NoContent(after, k) /\ rs \in Seq(Others) => NoContent(after \o rs, k)
<1> DEFINE more == after \o rs
           T == UnderWay \cup New
<1>1. after \in Seq(T) /\ rs \in Seq(T)
  BY DEF Continues
<1>2. Len(requests) \in Nat /\ Len(after) \in Nat /\ Len(rs) \in Nat
  BY <1>1, RequestsAre
<1> HIDE DEF T
<1>3. /\ more \in Seq(T) /\ Len(more) = Len(after) + Len(rs)
      /\ \A i \in 1 .. Len(more) : more[i] = IF i <= Len(after) THEN after[i]
                                             ELSE rs[i - Len(after)]
  BY <1>1, ConcatProperties
<1> HIDE DEF more
<1>4. ASSUME NEW i \in 1 .. Len(more)
      PROVE  \/ i \in 1 .. Len(after) /\ more[i] = after[i]
             \/ i > Len(after) /\ i - Len(after) \in 1 .. Len(rs) /\ more[i] = rs[i - Len(after)]
  BY <1>2, <1>3
<1>5. \A i \in 1 .. Len(rs) : rs[i] \in New /\ (rs \in Seq(Others) => rs[i].kind # "content")
  BY DEF Others
<1>6. Continues(more, k)
  <2>1. /\ k \in {0, 1} /\ k <= Len(requests) /\ Len(requests) - k <= Len(after)
        /\ \A i \in 1 .. Len(after) : IF i <= Len(requests) - k THEN after[i] = requests[i + k]
                                      ELSE after[i] \in New
    BY DEF Continues
  <2>2. more \in Seq(UnderWay \cup New)
    BY <1>3 DEF T
  <2>3. Len(requests) - k <= Len(more)
    BY <1>2, <1>3, <2>1
  <2>4. ASSUME NEW i \in 1 .. Len(more)
        PROVE  IF i <= Len(requests) - k THEN more[i] = requests[i + k] ELSE more[i] \in New
    <3>1. CASE i \in 1 .. Len(after) /\ more[i] = after[i]
      BY <2>1, <3>1
    <3>2. CASE i > Len(after) /\ i - Len(after) \in 1 .. Len(rs) /\ more[i] = rs[i - Len(after)]
      <4>1. more[i] \in New
        BY <1>5, <3>2
      <4>2. ~(i <= Len(requests) - k)
        BY <1>2, <2>1, <3>2
      <4> QED BY <4>1, <4>2
    <3> QED BY <1>4, <3>1, <3>2
  <2> QED BY <2>1, <2>2, <2>3, <2>4 DEF Continues
<1>7. ASSUME NoContent(after, k), rs \in Seq(Others)
      PROVE  NoContent(more, k)
  <2>1. SUFFICES ASSUME NEW i \in 1 .. Len(more), i > Len(requests) - k
                 PROVE  more[i].kind # "content"
    BY DEF NoContent
  <2>2. CASE i \in 1 .. Len(after) /\ more[i] = after[i]
    BY <1>7, <2>1, <2>2 DEF NoContent
  <2>3. CASE i > Len(after) /\ i - Len(after) \in 1 .. Len(rs) /\ more[i] = rs[i - Len(after)]
    BY <1>5, <1>7, <2>3
  <2> QED BY <1>4, <2>2, <2>3
<1> QED BY <1>6, <1>7 DEF more

LEMMA LoginKeeps ==
    ASSUME PageInv, Login
    PROVE  PageInv'
<1> DEFINE u == <<Request("dossiers", 0)>>
           v == IF selected THEN <<Request("opened", 0), Request("extraction", 0)>> ELSE <<>>
           w == IF current = 0 THEN <<>> ELSE <<Request("content", current)>>
<1>1. /\ StatusInv /\ CleanInv /\ requests' = requests \o (u \o v \o w)
      /\ session' = [logins |-> session.logins + 1, active |-> TRUE]
      /\ chunks' = IF current = 0 THEN Empty ELSE chunks
      /\ UNCHANGED <<server, documents, current, cited, history>>
  BY DEF PageInv, Login, Send
<1>2. u \in Seq(Others) /\ v \in Seq(Others)
  <2>1. Request("dossiers", 0) \in Others /\ Request("opened", 0) \in Others
        /\ Request("extraction", 0) \in Others
    BY OthersAre DEF Kinds
  <2> QED BY <2>1
<1>3. current \in Nat /\ (current # 0 => Request("content", current) \in New)
  <2>1. current \in Nat
    BY <1>1, LiveAreNumbers DEF StatusInv, Known
  <2> QED BY <2>1, RequestsKinds DEF Kinds
<1>4. w \in Seq(New)
  BY <1>3
<1> HIDE DEF u, v
<1>5. u \o v \in Seq(Others) /\ Others \subseteq New
  BY <1>2, ConcatProperties DEF Others
<1>6. u \o v \in Seq(New)
  BY <1>5
<1> DEFINE rs == (u \o v) \o w
<1>7. rs \in Seq(New) /\ Len(rs) = Len(u \o v) + Len(w)
      /\ \A i \in 1 .. Len(rs) :
            rs[i] = IF i <= Len(u \o v) THEN (u \o v)[i] ELSE w[i - Len(u \o v)]
  BY <1>4, <1>6, ConcatProperties
<1>8. Continues(requests, 0) /\ NoContent(requests, 0)
  BY <1>1, Nothing
<1>9. requests' = requests \o rs
  BY <1>1
<1>10. Continues(requests', 0)
  <2> HIDE DEF rs
  <2> QED BY <1>1, <1>7, <1>8, <1>9, MoreAtTheEnd
<1>11. StatusInv'
  BY <1>1, <1>10, NothingLearnt
<1>12. Known' = Known
  BY <1>1 DEF Known
<1>13. ASSUME history.clean PROVE ContentIsCurrent'
  <2>1. ContentIsCurrent
    BY <1>1, <1>13 DEF CleanInv
  <2>2. CASE current = 0
    <3>1. w = <<>>
      BY <2>2
    <3>2. rs = u \o v
      BY <1>6, <3>1, ConcatEmptySeq
    <3>3. NoContent(requests', 0)
      BY <1>1, <1>5, <1>6, <1>8, <1>9, <3>2, MoreAtTheEnd
    <3> QED BY <1>1, <1>10, <2>1, <2>2, <3>3, NoneSelected
  <2>3. CASE current # 0
    <3>1. w = <<Request("content", current)>>
      BY <2>3
    <3>2. Len(w) = 1 /\ w[1] = Request("content", current) /\ Len(u \o v) \in Nat
      BY <1>6, <3>1
    <3> HIDE DEF w
    <3>3. Len(rs) = Len(u \o v) + 1 /\ rs[Len(rs)] = Request("content", current)
      BY <1>7, <3>2
    <3> HIDE DEF rs
    <3>4. requests \in Seq(UnderWay \cup New) /\ rs \in Seq(UnderWay \cup New)
      BY <1>7, <1>8 DEF Continues
    <3>5. Len(rs) \in Nat /\ Len(rs) > 0 /\ Len(requests) \in Nat
      BY <1>1, <1>7, <3>2, <3>3, RequestsAre
    <3>6. /\ requests' \in Seq(UnderWay \cup New) /\ Len(requests') = Len(requests) + Len(rs)
          /\ requests'[Len(requests')] = rs[Len(rs)]
      BY <1>9, <3>4, <3>5, ConcatProperties
    <3>7. Request("content", current).kind = "content"
          /\ Request("content", current).document = current
      BY <1>3, RequestsKinds DEF Kinds
    <3> QED BY <1>1, <2>3, <3>3, <3>5, <3>6, <3>7, AskedLast
  <2> QED BY <2>2, <2>3
<1>14. ASSUME history.clean PROVE ServedInTurn' /\ ListsGrow'
  BY <1>1, <1>10, <1>12, <1>14, QueueMoves DEF CleanInv
<1>15. CleanInv'
  BY <1>1, <1>13, <1>14 DEF CleanInv
<1> QED BY <1>11, <1>15 DEF PageInv

LEMMA LogoutKeeps ==
    ASSUME PageInv, Logout
    PROVE  PageInv'
<1>1. /\ StatusInv /\ CleanInv /\ chunks' = Empty
      /\ session' = [session EXCEPT !.active = FALSE]
      /\ UNCHANGED <<server, documents, current, cited, requests, history>>
  BY DEF PageInv, Logout
<1>2. session' = [logins |-> session.logins, active |-> FALSE]
  BY <1>1 DEF StatusInv
<1>3. Continues(requests', 0) /\ NoContent(requests', 0)
  BY <1>1, Nothing
<1>4. StatusInv'
  BY <1>1, <1>2, <1>3, NothingLearnt
<1>5. Known' = Known
  BY <1>1 DEF Known
<1>6. ASSUME history.clean PROVE ServedInTurn' /\ ListsGrow' /\ ContentIsCurrent'
  BY <1>1, <1>2, <1>3, <1>5, <1>6, QueueMoves, ContentStays DEF CleanInv
<1>7. CleanInv'
  BY <1>1, <1>6 DEF CleanInv
<1> QED BY <1>4, <1>7 DEF PageInv

LEMMA UserKeeps ==
    ASSUME PageInv, User \/ Poll
    PROVE  PageInv'
<1>1. CASE Upload
  BY <1>1, SendingKeeps DEF Upload, Kinds
<1>2. CASE Ask
  BY <1>2, SendingKeeps DEF Ask, Kinds
<1>3. CASE Poll
  BY <1>3, SendingKeeps DEF Poll, Kinds
<1> QED BY <1>1, <1>2, <1>3, LoginKeeps, LogoutKeeps, ClickKeeps, CitationKeeps DEF User

-----------------------------------------------------------------------------
(* What the server does.                                                    *)

LEMMA ServerKeeps ==
    ASSUME PageInv, NEW d, Process(d)
    PROVE  PageInv'
<1>1. /\ StatusInv /\ CleanInv /\ d \in DOMAIN server /\ server[d] \in Pending
      /\ UNCHANGED <<session, documents, current, chunks, cited, requests, history>>
  BY DEF PageInv, Process
<1>2. PICK s \in {"processing", "completed", "failed"} : server' = [server EXCEPT ![d] = s]
  BY DEF Process
<1>3. /\ server \in Seq(Pending \cup {"completed", "failed", "deleted"})
      /\ DOMAIN server = 1 .. Len(server)
  BY <1>1 DEF StatusInv
<1>4. /\ server' \in Seq(Pending \cup {"completed", "failed", "deleted"})
      /\ Grows
  <2>1. s \in Pending \cup {"completed", "failed", "deleted"}
    BY DEF Pending
  <2>2. server' \in Seq(Pending \cup {"completed", "failed", "deleted"})
    BY <1>1, <1>2, <1>3, <2>1, ExceptSeq
  <2>3. \A e \in DOMAIN server : /\ e \in DOMAIN server'
                                 /\ server'[e] = IF e = d THEN s ELSE server[e]
    BY <1>1, <1>2, <1>3
  <2> QED BY <1>1, <2>2, <2>3 DEF Grows
<1>5. Live \subseteq Live'
  BY <1>4 DEF Grows, Live
<1>6. Known' \subseteq Live' /\ Recent(documents)'
  <2>1. Recent(documents) /\ DOMAIN documents \subseteq Live /\ Known \subseteq Live
    BY <1>1 DEF StatusInv, Known
  <2>2. Recent(documents)'
    BY <1>1, <1>4, <2>1, StillRecent DEF Recent
  <2> QED BY <1>1, <1>5, <2>1, <2>2 DEF Known
<1>7. requests' \in Seq(UnderWay) /\ \A r \in UnderWay : Fits(r)'
  BY <1>1, <1>4, RequestsAre, StillFits
<1>8. /\ session' = [logins |-> session'.logins, active |-> session'.active]
      /\ history' = [clean |-> history'.clean, mine |-> history'.mine]
      /\ ~ history'.clean => history'.mine = {}
  BY <1>1 DEF StatusInv
<1>9. StatusInv'
  BY <1>1, <1>4, <1>6, <1>7, <1>8, StatusFrom
<1>10. CleanInv'
  BY <1>1 DEF CleanInv, ServedInTurn, ListsGrow, Names, Known, ContentIsCurrent, Contents
<1> QED BY <1>9, <1>10 DEF PageInv

\* A reply that has not arrived says what the server has.
LEMMA AnswerFits ==
    ASSUME StatusInv, NEW i \in DOMAIN requests, Serve(i),
           NEW value, value \in Reply(requests[i]),
           requests' = [requests EXCEPT ![i].reply = [served |-> TRUE, value |-> value]],
           NEW s, s = [kind |-> requests[i].kind, document |-> requests[i].document,
                       reply |-> [served |-> TRUE, value |-> value]]
    PROVE  /\ requests' = [requests EXCEPT ![i] = s] /\ ~ requests[i].reply.served
           /\ Fits(s)'
           /\ requests[i].kind \in Lists => Names(s) = Live
           /\ Grows /\ server' \in Seq(Pending \cup {"completed", "failed", "deleted"})
<1> DEFINE r == requests[i]
<1>1. r = [kind |-> r.kind, document |-> r.document, reply |-> r.reply]
  BY DEF StatusInv, Fits
<1>2. requests' = [requests EXCEPT ![i] = s] /\ ~ r.reply.served
  <2>1. s = [r EXCEPT !.reply = [served |-> TRUE, value |-> value]]
    <3> PICK k, d, y : r = [kind |-> k, document |-> d, reply |-> y]
      BY <1>1
    <3> HIDE DEF r
    <3>1. r.kind = k /\ r.document = d
      OBVIOUS
    <3>2. s = [kind |-> k, document |-> d, reply |-> [served |-> TRUE, value |-> value]]
      BY <3>1 DEF r
    <3>3. \A z : [[kind |-> k, document |-> d, reply |-> y] EXCEPT !.reply = z]
                  = [kind |-> k, document |-> d, reply |-> z]
      OBVIOUS
    <3> QED BY <3>2, <3>3
  <2> QED BY <2>1 DEF Serve
<1>3. /\ server \in Seq(Pending \cup {"completed", "failed", "deleted"})
      /\ DOMAIN server = 1 .. Len(server) /\ Len(server) \in Nat
  BY DEF StatusInv
<1>3a. s.kind = r.kind /\ s.reply.served /\ s.reply.value = value
       /\ s = [kind |-> s.kind, document |-> s.document, reply |-> s.reply]
  OBVIOUS
<1>4. CASE r.kind = "upload"
  <2>1. CASE server' # server
    <3>1. server' = Append(server, "queued")
      BY <1>4, <2>1 DEF Serve, Stored
    <3>2. value = [of |-> Len(server'), status |-> "queued"]
      BY <1>4, <2>1 DEF Reply
    <3>3. /\ server' \in Seq(Pending \cup {"completed", "failed", "deleted"})
          /\ Len(server') = Len(server) + 1
          /\ \A e \in DOMAIN server : server'[e] = server[e]
          /\ server'[Len(server) + 1] = "queued"
      BY <1>3, <3>1, AppendProperties DEF Pending
    <3>4. Grows /\ Len(server) + 1 \in Live'
      BY <1>3, <3>3 DEF Grows, Live
    <3>5. value.of = Len(server) + 1 /\ value.status \in Pending
      BY <3>2, <3>3 DEF Pending
    <3>6. Names(s)' \subseteq Live'
      BY <1>3a, <1>4, <3>4, <3>5 DEF Names, Lists
    <3>7. IsRecent(value.of, value.status)'
      BY <3>5 DEF IsRecent
    <3>8. Fits(s)'
      BY <1>3a, <1>4, <3>6, <3>7 DEF Fits, Lists
    <3> QED BY <1>2, <1>4, <3>3, <3>4, <3>8 DEF Lists
  <2>2. CASE server' = server
    <3>1. PICK d \in Live : value = [of |-> d, status |-> server[d]]
      BY <1>4, <2>2 DEF Reply
    <3>2. Grows
      BY <2>2 DEF Grows
    <3>3. Names(s) \subseteq Live
      BY <1>3a, <1>4, <3>1 DEF Names, Lists
    <3>4. IsRecent(value.of, value.status)
      BY <3>1 DEF IsRecent
    <3>5. Fits(s)
      BY <1>3a, <1>4, <3>3, <3>4 DEF Fits, Lists
    <3> QED BY <1>2, <1>3, <1>4, <2>2, <3>2, <3>5, StillFits DEF Lists
  <2> QED BY <2>1, <2>2
<1>5. CASE r.kind # "upload"
  <2>1. server' = server /\ value = Answered(r.kind, r.document)
    BY <1>5 DEF Serve, Reply
  <2>2. Grows /\ Live' = Live
    BY <2>1 DEF Grows, Live
  <2>3. Completed \subseteq Live
    BY DEF Completed, Live
  <2>4. DOMAIN CurrentList = Live /\ Recent(CurrentList)
    BY DEF CurrentList, Recent, IsRecent
  <2>5. CASE r.kind \in Lists
    <3>1. value = CurrentList /\ s.kind \in Lists /\ s.kind # "content" /\ s.kind # "dossiers"
      BY <2>1, <2>5 DEF Answered, Lists
    <3>2. Names(s) = Live /\ Recent(s.reply.value) /\ s.reply.served
      BY <2>4, <3>1 DEF Names
    <3>3. Fits(s)
      BY <1>3a, <1>5, <2>2, <3>1, <3>2 DEF Fits
    <3> QED BY <1>2, <1>3, <2>1, <2>2, <3>2, <3>3, StillFits
  <2>6. CASE r.kind = "content"
    <3>1. value.of = r.document
      BY <2>1, <2>6 DEF Answered, Lists
    <3>2. Fits(s)
      BY <2>6, <3>1 DEF Fits, Names, Lists
    <3> QED BY <1>2, <1>3, <2>1, <2>2, <2>6, <3>2, StillFits DEF Lists
  <2>7. CASE r.kind \notin Lists \cup {"content"}
    <3>1. value = Completed \/ r.kind = "dossiers"
      BY <1>5, <2>1, <2>7 DEF Answered
    <3>2. Fits(s)
      BY <1>5, <2>3, <2>7, <3>1 DEF Fits, Names, Lists
    <3> QED BY <1>2, <1>3, <2>1, <2>2, <2>7, <3>2, StillFits DEF Lists
  <2> QED BY <1>5, <2>5, <2>6, <2>7
<1> QED BY <1>4, <1>5

LEMMA ServeKeeps ==
    ASSUME PageInv, NEW i \in DOMAIN requests, Serve(i)
    PROVE  PageInv'
<1> DEFINE r == requests[i]
<1>0. PICK value :
        /\ value \in Reply(r)
        /\ requests' = [requests EXCEPT ![i].reply = [served |-> TRUE, value |-> value]]
  BY DEF Serve
<1> PICK s : s = [kind |-> r.kind, document |-> r.document,
                  reply |-> [served |-> TRUE, value |-> value]]
  OBVIOUS
<1>1. /\ StatusInv /\ CleanInv
      /\ UNCHANGED <<session, documents, current, chunks, cited>>
      /\ history' = IF \A j \in 1 .. i - 1 : requests[j].reply.served THEN history ELSE Spoiled
  BY DEF PageInv, Serve
<1>2. /\ requests' = [requests EXCEPT ![i] = s] /\ ~ r.reply.served /\ Fits(s)'
      /\ r.kind \in Lists => Names(s) = Live
      /\ Grows /\ server' \in Seq(Pending \cup {"completed", "failed", "deleted"})
  BY <1>0, <1>1, AnswerFits
<1>3. s.kind = r.kind /\ s.document = r.document /\ s.reply.served
  OBVIOUS
<1>4. /\ requests \in Seq(UnderWay) /\ DOMAIN requests = 1 .. Len(requests)
      /\ Len(requests) \in Nat /\ \A x \in UnderWay : Fits(x)
  BY <1>1, RequestsAre
<1>5. /\ requests' \in Seq(UnderWay \cup {s}) /\ DOMAIN requests' = DOMAIN requests
      /\ \A j \in DOMAIN requests : requests'[j] = IF j = i THEN s ELSE requests[j]
  <2>1. requests \in Seq(UnderWay \cup {s})
    BY <1>4
  <2> QED BY <1>2, <1>4, <2>1, ExceptSeq
<1>6. \A x \in UnderWay \cup {s} : Fits(x)'
  <2>1. \A x \in UnderWay : Fits(x)'
    BY <1>2, <1>4, StillFits
  <2> QED BY <1>2, <2>1
<1>7. Live \subseteq Live'
  BY <1>2 DEF Grows, Live
<1>8. Known' \subseteq Known /\ Known' \subseteq Live' /\ Recent(documents)'
  <2>1. Recent(documents) /\ DOMAIN documents \subseteq Live /\ Known \subseteq Live
    BY <1>1 DEF StatusInv, Known
  <2>2. Recent(documents)'
    BY <1>1, <1>2, <2>1, StillRecent DEF Recent
  <2>3. history'.mine \subseteq history.mine
    BY <1>1 DEF Spoiled
  <2> QED BY <1>1, <1>7, <2>1, <2>2, <2>3 DEF Known
<1>9. /\ session' = [logins |-> session'.logins, active |-> session'.active]
      /\ history' = [clean |-> history'.clean, mine |-> history'.mine]
      /\ ~ history'.clean => history'.mine = {}
  BY <1>1 DEF StatusInv, Spoiled
<1>10. StatusInv'
  BY <1>1, <1>2, <1>5, <1>6, <1>8, <1>9, StatusFrom
<1>11. ASSUME history'.clean
       PROVE  ServedInTurn' /\ ListsGrow' /\ ContentIsCurrent'
              /\ history'.mine \subseteq DOMAIN documents'
  <2>1. /\ history' = history /\ history.clean /\ \A j \in 1 .. i - 1 : requests[j].reply.served
        /\ ServedInTurn /\ ListsGrow /\ ContentIsCurrent /\ history.mine \subseteq DOMAIN documents
    BY <1>1, <1>11 DEF Spoiled, CleanInv
  <2>2. \A j \in DOMAIN requests : requests[j].reply.served => j < i
    BY <1>2, <1>4, <2>1 DEF ServedInTurn
  <2>3. \A j \in DOMAIN requests : requests'[j].reply.served => j <= i
    BY <1>3, <1>4, <1>5, <2>2
  <2>4. \A j \in 1 .. i : requests'[j].reply.served
    <3>1. \A j \in 1 .. i : j \in DOMAIN requests /\ (j # i => j \in 1 .. i - 1)
      BY <1>4
    <3> QED BY <1>3, <1>5, <2>1, <3>1
  <2>5. ServedInTurn'
    BY <1>4, <1>5, <2>3, <2>4 DEF ServedInTurn
  <2>6. ASSUME NEW m \in DOMAIN requests, requests'[m].kind \in Lists, requests'[m].reply.served
        PROVE  /\ Known' \subseteq Names(requests'[m])
               /\ \A j \in 1 .. m - 1 : Names(requests'[j]) \subseteq Names(requests'[m])
    <3>1. CASE m = i
      <4>1. requests'[m] = s /\ Names(s) = Live
        BY <1>2, <1>3, <1>5, <2>6, <3>1
      <4>2. Known' \subseteq Live
        BY <1>1, <1>8 DEF StatusInv
      <4>3. \A j \in 1 .. m - 1 : requests'[j] = requests[j] /\ Names(requests[j]) \subseteq Live
        <5> SUFFICES ASSUME NEW j \in 1 .. i - 1
                     PROVE  requests'[j] = requests[j] /\ Names(requests[j]) \subseteq Live
          BY <3>1
        <5>1. j \in DOMAIN requests /\ j # i
          BY <1>4
        <5>2. requests[j] \in UnderWay
          BY <5>1 DEF UnderWay
        <5> QED BY <1>4, <1>5, <5>1, <5>2 DEF Fits
      <4> QED BY <4>1, <4>2, <4>3
    <3>2. CASE m # i
      <4>1. m < i /\ requests'[m] = requests[m]
        BY <1>4, <1>5, <2>3, <2>6, <3>2
      <4>2. \A j \in 1 .. m - 1 : requests'[j] = requests[j]
        <5>1. \A j \in 1 .. m - 1 : j \in DOMAIN requests /\ j # i
          BY <1>4, <4>1
        <5> QED BY <1>5, <5>1
      <4> QED BY <1>8, <2>1, <2>6, <4>1, <4>2 DEF ListsGrow
    <3> QED BY <3>1, <3>2
  <2>7. ListsGrow'
    BY <1>5, <2>6 DEF ListsGrow, Names
  <2>8. Contents' = Contents /\ \A j \in Contents : requests'[j].document = requests[j].document
    BY <1>3, <1>5 DEF Contents
  <2>9. ContentIsCurrent'
    BY <1>1, <2>1, <2>8 DEF ContentIsCurrent
  <2> QED BY <1>1, <2>1, <2>5, <2>7, <2>9
<1> QED BY <1>10, <1>11 DEF PageInv, CleanInv

-----------------------------------------------------------------------------
(* What a reply does.                                                       *)

LEMMA RestIs ==
    ASSUME StatusInv, NEW i \in DOMAIN requests
    PROVE  RemoveAt(requests, i) \in Seq(UnderWay)
<1> DEFINE n == Len(requests)
           before == SubSeq(requests, 1, i - 1)
           behind == SubSeq(requests, i + 1, n)
<1>1. requests \in Seq(UnderWay) /\ n \in Nat /\ i \in 1 .. n
  BY RequestsAre
<1>2. \A j \in 1 .. n : requests[j] \in UnderWay
  BY <1>1
<1> HIDE DEF n
<1>3. before \in Seq(UnderWay)
  <2>1. \A j \in 1 .. i - 1 : requests[j] \in UnderWay
    BY <1>1, <1>2
  <2> QED BY <1>1, <2>1, SubSeqProperties
<1>4. behind \in Seq(UnderWay)
  <2>1. \A j \in i + 1 .. n : requests[j] \in UnderWay
    BY <1>1, <1>2
  <2> QED BY <1>1, <2>1, SubSeqProperties
<1> HIDE DEF before, behind
<1>5. before \o behind \in Seq(UnderWay)
  BY <1>3, <1>4
<1> QED BY <1>5 DEF before, behind, RemoveAt, n

LEMMA FailKeeps ==
    ASSUME PageInv, NEW i \in DOMAIN requests, Fail(i)
    PROVE  PageInv'
<1> DEFINE rest == RemoveAt(requests, i)
           T == UnderWay \cup {Alone(r) : r \in UnderWay}
<1>1. /\ StatusInv /\ history' = Spoiled
      /\ UNCHANGED <<server, session, documents, current, chunks, cited>>
      /\ requests' = [j \in DOMAIN rest |-> IF j = Half(i) THEN Alone(rest[j]) ELSE rest[j]]
  BY DEF PageInv, Fail
<1>2. rest \in Seq(UnderWay) /\ \A r \in UnderWay : Fits(r)
  BY <1>1, RestIs, RequestsAre
<1>3. ASSUME NEW r \in UnderWay PROVE Fits(Alone(r))
  <2>1. CASE r.kind \notin {"opened", "extraction"}
    BY <1>2, <2>1 DEF Alone
  <2>2. CASE r.kind \in {"opened", "extraction"}
    <3> PICK k, d, y : r = [kind |-> k, document |-> d, reply |-> y]
      BY <1>2 DEF Fits
    <3> DEFINE alone == IF r.kind = "opened" THEN "listed" ELSE "unread"
               s == [kind |-> alone, document |-> d, reply |-> y]
    <3>1. \A z : [[kind |-> k, document |-> d, reply |-> y] EXCEPT !.kind = z]
                 = [kind |-> z, document |-> d, reply |-> y]
      OBVIOUS
    <3>2. Alone(r) = s
      BY <2>2, <3>1 DEF Alone
    <3>3. Fits(r) /\ r.reply = y
      BY <1>2
    <3>4. s.kind = alone /\ s.reply = y /\ s = [kind |-> s.kind, document |-> s.document,
                                                reply |-> s.reply]
      OBVIOUS
    <3> HIDE DEF s
    <3>5. Names(s) \subseteq Live
      BY <2>2, <3>3, <3>4 DEF Fits, Names, Lists
    <3>6. s.reply.served /\ s.kind \in Lists => Recent(s.reply.value)
      BY <2>2, <3>3, <3>4 DEF Fits, Lists
    <3>7. Fits(s)
      BY <3>4, <3>5, <3>6 DEF Fits
    <3> QED BY <3>2, <3>7
  <2> QED BY <2>1, <2>2
<1> HIDE DEF rest
<1>4. requests' \in Seq(T)
  <2> DEFINE after(j) == IF j = Half(i) THEN Alone(rest[j]) ELSE rest[j]
  <2>1. Len(rest) \in Nat /\ DOMAIN rest = 1 .. Len(rest)
        /\ \A j \in 1 .. Len(rest) : rest[j] \in UnderWay
    BY <1>2
  <2>2. \A j \in 1 .. Len(rest) : after(j) \in T
    BY <2>1
  <2>3. requests' = [j \in 1 .. Len(rest) |-> after(j)]
    BY <1>1, <2>1
  <2> HIDE DEF T, after
  <2> QED BY <2>1, <2>2, <2>3
<1>5. \A r \in T : Fits(r)
  BY <1>2, <1>3
<1> HIDE DEF T
<1>6. Known' \subseteq Live /\ DOMAIN documents' \subseteq Live /\ Recent(documents')
  BY <1>1 DEF Known, StatusInv, Spoiled
<1>7. /\ session' = [logins |-> session'.logins, active |-> session'.active]
      /\ history' = [clean |-> history'.clean, mine |-> history'.mine]
      /\ history'.mine = {} /\ ~ history'.clean
  BY <1>1 DEF StatusInv, Spoiled
<1>8. StatusInv'
  BY <1>1, <1>4, <1>5, <1>6, <1>7, PageStatus
<1> QED BY <1>7, <1>8 DEF PageInv, CleanInv

\* Some document of a list is the newest.
LEMMA NewestIsListed ==
    ASSUME StatusInv, NEW list, DOMAIN list \subseteq Live, DOMAIN list # {}
    PROVE  Newest(list) \in DOMAIN list
<1> DEFINE n == Len(server)
           T == {n - d : d \in DOMAIN list}
           R == OpToRel(<, Nat)
<1>1. n \in Nat /\ \A d \in DOMAIN list : d \in 1 .. n
  BY DEF StatusInv, Live
<1> HIDE DEF n
<1>2. T \subseteq Nat /\ T # {}
  BY <1>1
<1>3. IsWellFoundedOn(R, Nat)
  BY NatLessThanWellFounded
<1> HIDE DEF R
<1>4. PICK x \in T : \A y \in T : ~ (<<y, x>> \in R)
  BY <1>2, <1>3, WFMin
<1>5. \A y \in T : y < x => <<y, x>> \in R
  <2> SUFFICES ASSUME NEW y \in T, y < x
               PROVE  <<y, x>> \in {ss \in Nat \X Nat : ss[1] < ss[2]}
    BY DEF R, OpToRel
  <2> QED BY <1>2
<1>6. \A y \in T : ~ (y < x)
  BY <1>4, <1>5, Zenon
<1>7. PICK d \in DOMAIN list : x = n - d
  OBVIOUS
<1>8. \A e \in DOMAIN list : e <= d
  <2> SUFFICES ASSUME NEW e \in DOMAIN list PROVE e <= d
    OBVIOUS
  <2>1. ~ (n - e < n - d)
    BY <1>6, <1>7
  <2> QED BY <1>1, <2>1
<1> QED BY <1>8 DEF Newest

LEMMA Shows ==
    ASSUME StatusInv, NEW list, DOMAIN list \subseteq Live, NEW after, Show(list, after)
    PROVE  \E d \in Nat : /\ Select(d, after) /\ current' = d /\ documents' = list
                          /\ d \in {0, current} \cup DOMAIN list
                          /\ d = 0 /\ current # 0 => current \notin DOMAIN list
<1>1. current \in Nat
  BY LiveAreNumbers DEF StatusInv, Known
<1>2. \A d : Select(d, after) => current' = d
  BY DEF Select
<1>3. CASE current # 0 /\ current \in DOMAIN list
  BY <1>1, <1>2, <1>3 DEF Show
<1>4. CASE DOMAIN list = {} /\ ~ (current # 0 /\ current \in DOMAIN list)
  BY <1>2, <1>4 DEF Show
<1>5. CASE DOMAIN list # {} /\ ~ (current # 0 /\ current \in DOMAIN list)
  <2>1. Newest(list) \in DOMAIN list /\ Newest(list) \in Nat /\ Newest(list) # 0
    BY <1>5, NewestIsListed, LiveAreNumbers
  <2> QED BY <1>2, <1>5, <2>1 DEF Show
<1> QED BY <1>3, <1>4, <1>5

LEMMA Joined ==
    ASSUME NEW T, NEW s \in Seq(T), NEW t \in Seq(T)
    PROVE  s \o t \in Seq(T)
  BY ConcatProperties

\* What a reply tells the page it did not know.
LEMMA Arrived ==
    ASSUME StatusInv, NEW i \in DOMAIN requests, Arrive(i)
    PROVE  /\ requests' \in Seq(UnderWay \cup New)
           /\ Known' \subseteq Known \cup Names(requests[i])
           /\ DOMAIN documents' \subseteq Live /\ Recent(documents')
           /\ Names(requests[i]) \subseteq Live
<1> DEFINE r == requests[i]
           rest == RemoveAt(requests, i)
           all == Seq(UnderWay \cup New)
<1>1. rest \in all /\ Fits(r) /\ r.reply.served
  <2>1. rest \in Seq(UnderWay) /\ Fits(r)
    BY RestIs, RequestsAre DEF UnderWay
  <2> QED BY <2>1 DEF Arrive
<1>2. history'.mine \subseteq history.mine \cup (IF r.kind = "upload" THEN {r.reply.value.of} ELSE {})
  BY DEF Arrive, Spoiled, StatusInv
<1>3. /\ Names(r) \subseteq Live /\ DOMAIN documents \subseteq Live /\ Recent(documents)
      /\ \A kind \in Kinds \ {"content"} : Request(kind, 0) \in New
  BY <1>1, RequestsKinds DEF Fits, StatusInv, Known
<1>3a. \A t \in all : rest \o t \in all
  BY <1>1, Joined
<1> HIDE DEF rest, r
<1>4. ASSUME NEW after \in all, NEW d \in Nat, Select(d, after)
      PROVE  requests' \in all /\ current' = d
  <2>1. Request("content", d) \in New
    BY RequestsKinds DEF Kinds
  <2> QED BY <1>4, <2>1 DEF Select
<1>5. ASSUME r.kind \in Lists, NEW after \in all, Show(r.reply.value, after), UNCHANGED cited
      PROVE  /\ requests' \in all /\ Known' \subseteq Known \cup Names(r)
             /\ DOMAIN documents' \subseteq Live /\ Recent(documents')
  <2>1. Names(r) = DOMAIN r.reply.value /\ Recent(r.reply.value) /\ r.kind # "upload"
    BY <1>1, <1>5 DEF Names, Lists, Fits
  <2>2. PICK d \in Nat : /\ Select(d, after) /\ current' = d /\ documents' = r.reply.value
                         /\ d \in {0, current} \cup DOMAIN r.reply.value
    BY <1>3, <1>5, <2>1, Shows
  <2>3. requests' \in all
    BY <1>4, <2>2
  <2>4. Known' \subseteq Known \cup Names(r)
    BY <1>2, <1>5, <2>1, <2>2 DEF Known
  <2> QED BY <1>3, <2>1, <2>2, <2>3, <2>4
<1>6. CASE r.kind = "dossiers" /\ Dossiers(rest)
  <2>1. <<Request("opened", 0), Request("extraction", 0)>> \in all
    BY <1>3 DEF Kinds
  <2>2. requests' \in all
    BY <1>1, <1>6, <1>3a, <2>1 DEF Dossiers
  <2>3. documents' = documents /\ Known' \subseteq Known
    BY <1>2, <1>6 DEF Dossiers, Known
  <2> QED BY <1>3, <2>2, <2>3 DEF r
<1>7. CASE r.kind \in {"opened", "listed"} /\ Opened(r.reply.value, rest)
  BY <1>1, <1>3, <1>5, <1>7 DEF Opened, Lists, r
<1>8. CASE r.kind = "poll" /\ Polled(r.reply.value, rest)
  <2> DEFINE after == rest \o IF OnePending(r.reply.value) THEN <<>>
                              ELSE <<Request("extracted", 0)>>
  <2>1. <<>> \in all /\ <<Request("extracted", 0)>> \in all
    BY <1>3 DEF Kinds
  <2>2. after \in all
    BY <1>1, <1>3a, <2>1
  <2>3. Show(r.reply.value, after) /\ UNCHANGED cited
    BY <1>8 DEF Polled
  <2> HIDE DEF after
  <2> QED BY <1>3, <1>5, <1>8, <2>2, <2>3 DEF Lists, r
<1>9. CASE r.kind \in {"extraction", "extracted"} /\ Extraction(r, rest)
  <2>1. Names(r) = r.reply.value
    BY <1>1, <1>9 DEF Names, Lists
  <2>2. requests' = rest /\ documents' = documents /\ Known' \subseteq Known \cup Names(r)
    BY <1>2, <1>9, <2>1 DEF Extraction, Known
  <2> QED BY <1>1, <1>3, <2>2 DEF r
<1>10. CASE r.kind = "content" /\ Content(r, rest)
  <2>1. requests' = rest /\ documents' = documents /\ Known' \subseteq Known
    BY <1>2, <1>10 DEF Content, Known
  <2> QED BY <1>1, <1>3, <2>1 DEF r
<1>11. CASE r.kind = "ask" /\ Answer(r, rest)
  <2>1. Names(r) = r.reply.value
    BY <1>1, <1>11 DEF Names, Lists
  <2>2. requests' = rest /\ documents' = documents /\ Known' \subseteq Known \cup Names(r)
    BY <1>2, <1>11, <2>1 DEF Answer, Known
  <2> QED BY <1>1, <1>3, <2>2 DEF r
<1>12. CASE r.kind = "upload" /\ Uploaded(r.reply.value, rest)
  <2> DEFINE d == r.reply.value.of
             status == r.reply.value.status
  <2>1. Names(r) = {d} /\ IsRecent(d, status)
    BY <1>1, <1>12 DEF Names, Lists, Fits
  <2>2. d \in Live /\ d \in Nat
    BY <1>3, <2>1, LiveAreNumbers
  <2>3. Select(d, rest) /\ UNCHANGED cited
        /\ documents' = [e \in DOMAIN documents \cup {d} |->
                            IF e = d THEN status ELSE documents[e]]
    BY <1>12 DEF Uploaded
  <2> HIDE DEF d, status
  <2>4. requests' \in all /\ current' = d
    BY <1>1, <1>4, <2>2, <2>3
  <2>5. Known' \subseteq Known \cup Names(r)
    BY <1>2, <2>1, <2>3, <2>4 DEF Known, d
  <2>6. Recent(documents')
    BY <1>3, <2>1, <2>3 DEF Recent
  <2> QED BY <1>3, <2>2, <2>3, <2>4, <2>5, <2>6 DEF r
<1>13. CASE r.kind = "unread" /\ Unread(rest)
  <2>1. requests' = rest /\ documents' = documents /\ Known' \subseteq Known
    BY <1>2, <1>13 DEF Unread, Known
  <2> QED BY <1>1, <1>3, <2>1 DEF r
<1> QED BY <1>6, <1>7, <1>8, <1>9, <1>10, <1>11, <1>12, <1>13 DEF Arrive, r, rest

\* Replies in turn: the page learns nothing that a later list does not name.
LEMMA FirstArrives ==
    ASSUME StatusInv, CleanInv, history.clean, 1 \in DOMAIN requests, Arrive(1)
    PROVE  Continues(requests', 1) /\ ContentIsCurrent' /\ history'.mine \subseteq DOMAIN documents'
<1> DEFINE r == requests[1]
           rest == RemoveAt(requests, 1)
<1>1. Continues(rest, 1) /\ NoContent(rest, 1)
  BY FirstLeaves
<1>2. /\ ListsGrow /\ ContentIsCurrent /\ history.mine \subseteq DOMAIN documents
      /\ r.reply.served /\ session' = session
      /\ history'.mine = history.mine \cup (IF r.kind = "upload" THEN {r.reply.value.of} ELSE {})
  BY DEF CleanInv, Arrive, StatusInv
<1>3. \A kind \in Kinds \ {"content"} : Request(kind, 0) \in Others
  BY OthersAre
<1>4. Fits(r) /\ Others \subseteq New
  BY RequestsAre DEF UnderWay, Others
<1> HIDE DEF rest, r
<1>5. r = requests[1]
  BY DEF r
<1>6. ASSUME r.kind # "content", r.kind # "upload", NEW rs \in Seq(Others), requests' = rest \o rs,
             UNCHANGED <<documents, current, chunks>>
      PROVE  /\ Continues(requests', 1) /\ ContentIsCurrent'
             /\ history'.mine \subseteq DOMAIN documents'
  <2>1. rs \in Seq(New)
    BY <1>4
  <2>2. Continues(requests', 1) /\ NoContent(requests', 1)
    BY <1>1, <1>6, <2>1, MoreAtTheEnd
  <2> QED BY <1>2, <1>5, <1>6, <2>2, ContentStays
<1>7. <<>> \in Seq(Others) /\ rest = rest \o <<>>
  <2>1. rest \in Seq(UnderWay \cup New)
    BY <1>1 DEF Continues
  <2> QED BY <2>1
<1>8. ASSUME r.kind \in Lists, NEW rs \in Seq(Others), Show(r.reply.value, rest \o rs)
      PROVE  /\ Continues(requests', 1) /\ ContentIsCurrent'
             /\ history'.mine \subseteq DOMAIN documents'
  <2> DEFINE after == rest \o rs
  <2>1. rs \in Seq(New)
    BY <1>4
  <2>2. Continues(after, 1) /\ NoContent(after, 1)
    BY <1>1, <2>1, MoreAtTheEnd
  <2>3. Names(r) = DOMAIN r.reply.value /\ r.kind # "content" /\ r.kind # "upload"
    BY <1>2, <1>8 DEF Names, Lists
  <2>4. Known \subseteq DOMAIN r.reply.value
    BY <1>2, <1>5, <1>8, <2>3 DEF ListsGrow
  <2> HIDE DEF after
  <2>5. PICK d \in Nat : /\ Select(d, after) /\ documents' = r.reply.value
                         /\ d = 0 /\ current # 0 => current \notin DOMAIN r.reply.value
    <3>1. DOMAIN r.reply.value \subseteq Live
      BY <1>4, <2>3 DEF Fits
    <3> QED BY <1>8, <3>1, Shows DEF after
  <2>6. d = 0 => current = 0
    BY <2>4, <2>5 DEF Known
  <2>7. Continues(requests', 1)
    BY <2>2, <2>5, Selects
  <2>8. ContentIsCurrent'
    BY <1>2, <1>5, <2>2, <2>3, <2>5, <2>6, SelectsItsContent
  <2> QED BY <1>2, <2>3, <2>4, <2>5, <2>7, <2>8 DEF Known
<1>9. CASE r.kind = "dossiers" /\ Dossiers(rest)
  <2>1. <<Request("opened", 0), Request("extraction", 0)>> \in Seq(Others)
    BY <1>3 DEF Kinds
  <2>2. UNCHANGED <<documents, current, chunks>>
        /\ \/ requests' = rest \o <<Request("opened", 0), Request("extraction", 0)>>
           \/ requests' = rest \o <<>>
    BY <1>7, <1>9 DEF Dossiers
  <2> QED BY <1>6, <1>7, <1>9, <2>1, <2>2
<1>10. CASE r.kind \in {"opened", "listed"} /\ Opened(r.reply.value, rest)
  BY <1>7, <1>8, <1>10 DEF Opened, Lists
<1>11. CASE r.kind = "poll" /\ Polled(r.reply.value, rest)
  <2>1. <<Request("extracted", 0)>> \in Seq(Others)
    BY <1>3 DEF Kinds
  <2>2. PICK rs \in Seq(Others) : Show(r.reply.value, rest \o rs)
    BY <1>7, <1>11, <2>1 DEF Polled
  <2> QED BY <1>8, <1>11, <2>2 DEF Lists
<1>12. CASE \/ r.kind \in {"extraction", "extracted"} /\ Extraction(r, rest)
            \/ r.kind = "ask" /\ Answer(r, rest)
            \/ r.kind = "unread" /\ Unread(rest)
  <2>1. UNCHANGED <<documents, current, chunks>> /\ requests' = rest \o <<>>
        /\ r.kind # "content" /\ r.kind # "upload"
    BY <1>7, <1>12 DEF Extraction, Answer, Unread
  <2> QED BY <1>6, <1>7, <2>1
<1>13. CASE r.kind = "content" /\ Content(r, rest)
  <2>1. UNCHANGED <<documents, current>> /\ requests' = rest /\ chunks' = r.reply.value
    BY <1>13 DEF Content
  <2> QED BY <1>1, <1>2, <1>5, <1>13, <2>1, ContentArrives
<1>14. CASE r.kind = "upload" /\ Uploaded(r.reply.value, rest)
  <2> DEFINE d == r.reply.value.of
  <2>1. d \in Live /\ d \in Nat /\ d # 0
    <3>1. Names(r) = {d}
      BY <1>2, <1>14 DEF Names, Lists
    <3> QED BY <1>4, <3>1, LiveAreNumbers DEF Fits
  <2>2. Select(d, rest) /\ DOMAIN documents' = DOMAIN documents \cup {d}
    BY <1>14 DEF Uploaded
  <2> HIDE DEF d
  <2>3. Continues(requests', 1)
    BY <1>1, <2>1, <2>2, Selects
  <2>4. ContentIsCurrent'
    BY <1>1, <1>2, <1>5, <1>14, <2>1, <2>2, SelectsItsContent
  <2> QED BY <1>2, <2>2, <2>3, <2>4 DEF d
<1> QED BY <1>9, <1>10, <1>11, <1>12, <1>13, <1>14 DEF Arrive, r, rest

LEMMA ArriveKeeps ==
    ASSUME PageInv, NEW i \in DOMAIN requests, Arrive(i)
    PROVE  PageInv'
<1>1. /\ StatusInv /\ CleanInv /\ UNCHANGED <<server, session>>
      /\ history' = IF i # 1 THEN Spoiled
                    ELSE IF history.clean /\ requests[i].kind = "upload"
                    THEN [history EXCEPT !.mine = @ \cup {requests[i].reply.value.of}] ELSE history
  BY DEF PageInv, Arrive
<1>2. /\ requests' \in Seq(UnderWay \cup New)
      /\ Known' \subseteq Known \cup Names(requests[i])
      /\ DOMAIN documents' \subseteq Live /\ Recent(documents')
      /\ Names(requests[i]) \subseteq Live
  BY <1>1, Arrived
<1>3. Known' \subseteq Live /\ \A r \in UnderWay \cup New : Fits(r)
  BY <1>1, <1>2, RequestsAre, NewAre DEF StatusInv
<1>4. /\ session' = [logins |-> session'.logins, active |-> session'.active]
      /\ history' = [clean |-> history'.clean, mine |-> history'.mine]
      /\ ~ history'.clean => history'.mine = {}
      /\ history'.clean => i = 1 /\ history.clean
  BY <1>1 DEF StatusInv, Spoiled
<1>5. StatusInv'
  BY <1>1, <1>2, <1>3, <1>4, PageStatus
<1>6. ASSUME history'.clean
      PROVE  ServedInTurn' /\ ListsGrow' /\ ContentIsCurrent'
             /\ history'.mine \subseteq DOMAIN documents'
  <2>1. i = 1 /\ history.clean /\ ServedInTurn /\ ListsGrow
    BY <1>1, <1>4, <1>6 DEF CleanInv
  <2>2. Continues(requests', 1) /\ ContentIsCurrent' /\ history'.mine \subseteq DOMAIN documents'
    BY <1>1, <2>1, FirstArrives
  <2> QED BY <1>1, <1>2, <2>1, <2>2, QueueMoves
<1> QED BY <1>5, <1>6 DEF PageInv, CleanInv

-----------------------------------------------------------------------------
LEMMA PageInit == Init => PageInv
<1> SUFFICES ASSUME Init PROVE PageInv
  OBVIOUS
<1>1. requests = <<>> /\ DOMAIN requests = {} /\ DOMAIN documents = {}
  BY DEF Init
<1>2. server \in Seq(Pending \cup {"completed", "failed", "deleted"})
  <2> DEFINE T == Pending \cup {"completed", "failed", "deleted"}
  <2>1. PICK s \in {"deleted", "processing"} : server = <<s>>
    BY DEF Init
  <2>2. s \in T
    BY DEF Pending
  <2> HIDE DEF T
  <2>3. <<s>> \in Seq(T)
    BY <2>2
  <2> QED BY <2>1, <2>3 DEF T
<1>3. requests \in Seq({requests[i] : i \in DOMAIN requests})
  BY <1>1
<1>4. Contents = {} /\ Known = {}
  BY <1>1 DEF Contents, Known, Init
<1>5. StatusInv
  BY <1>1, <1>2, <1>3, <1>4 DEF StatusInv, Init, Recent
<1>6. CleanInv
  BY <1>1, <1>4 DEF CleanInv, ServedInTurn, ListsGrow, ContentIsCurrent, Init, Empty
<1> QED BY <1>5, <1>6 DEF PageInv

LEMMA PageStep == PageInv /\ [Next]_vars => PageInv'
<1> SUFFICES ASSUME PageInv, [Next]_vars PROVE PageInv'
  OBVIOUS
<1>1. CASE UNCHANGED vars
  <2>1. UNCHANGED <<server, session, documents, current, chunks, cited, requests, history>>
    BY <1>1 DEF vars
  <2> QED BY <2>1 DEF PageInv, StatusInv, CleanInv, ServedInTurn, ListsGrow, ContentIsCurrent,
                      Contents, Known, Live, Names, Recent, IsRecent, Fits
<1> QED BY <1>1, UserKeeps, ServerKeeps, ServeKeeps, ArriveKeeps, FailKeeps DEF Next

LEMMA PageAtRest == PageInv => RestIsTrue
<1> SUFFICES ASSUME PageInv, AtRest
             PROVE  /\ \A d \in DOMAIN documents : documents[d] = server[d]
                    /\ history.mine \subseteq DOMAIN documents
                    /\ history.clean /\ chunks.any => chunks.of = current
  BY DEF RestIsTrue
<1>1. \A d \in DOMAIN documents : documents[d] \notin Pending
  BY DEF AtRest, Polling, OnePending
<1>2. Contents = {}
  BY DEF AtRest, Contents
<1> QED BY <1>1, <1>2
        DEF PageInv, StatusInv, CleanInv, ContentIsCurrent, Recent, IsRecent, AtRest
=============================================================================
