------------------------------- MODULE WebClient -------------------------------
(* The page of one user (apps/web/src/App.tsx) and the server it asks.      *)
(* Requests are never cancelled: each is served at some moment, its reply   *)
(* arrives at some later one, and every reply overwrites what the page      *)
(* shows.  While a listed document is pending a timer asks for the list     *)
(* again.  The administrator's views, which nothing else here reads, are    *)
(* left out.                                                                *)
EXTENDS Naturals, Sequences, SequencesExt, FiniteSets

CONSTANTS MaxDocuments,
          MaxRequests,   \* bound: requests under way
          MaxLogins      \* bound: sessions

VARIABLES server,        \* the status of each document of the dossier, by its number
          session,       \* [logins, active]: whether a user is logged in
          selected,      \* the dossier is selected
          documents,     \* listed: their statuses, by number
          current,       \* selectedDocumentId, or 0
          chunks,        \* the passages shown: of which document, and whether any
          cited,         \* the documents the answer and the extractions cite
          loading,       \* disables the question and the upload
          requests,      \* the requests under way, oldest first
          history        \* [clean, mine]: every request succeeded and was served and
                         \* answered in turn; if so, the uploads the page was told of

vars == <<server, session, selected, documents, current, chunks, cited, loading,
          requests, history>>

Pending == {"queued", "processing"}
Empty == [of |-> 0, any |-> FALSE]
Waiting == [served |-> FALSE, value |-> 0]
-----------------------------------------------------------------------------
(* A form the definition of OnePending must not take. *)
QueuedOnly(list) == \E d \in DOMAIN list : list[d] = "queued"
-----------------------------------------------------------------------------
Lists == {"opened", "listed", "poll"}

Spoiled == [clean |-> FALSE, mine |-> {}]

Request(kind, d) == [kind |-> kind, document |-> d, reply |-> Waiting]

Send(rs) == Len(requests) + Len(rs) <= MaxRequests /\ requests' = requests \o rs

OnePending(list) == \E d \in DOMAIN list : list[d] \in Pending

(* pendingDocuments, and with it the timer, which a logout also stops.      *)
Polling == OnePending(documents) /\ selected /\ session.active

(* The effect on selectedDocumentId: a new one has its passages fetched,    *)
(* none has none.  after: the requests still under way.                     *)
Select(d, after) ==
    /\ current' = d
    /\ IF d = current THEN requests' = after /\ UNCHANGED chunks
       ELSE IF d = 0 \/ ~session.active THEN requests' = after /\ chunks' = Empty
       ELSE /\ Len(after) < MaxRequests
            /\ requests' = Append(after, Request("content", d))
            /\ UNCHANGED chunks

Init == /\ server \in {<<s>> : s \in {"deleted", "processing"}}
        /\ session = [logins |-> 0, active |-> FALSE]
        /\ selected = FALSE /\ documents = [d \in {} |-> "queued"] /\ current = 0
        /\ chunks = Empty /\ cited = {}
        /\ loading = FALSE
        /\ requests = <<>>
        /\ history = [clean |-> TRUE, mine |-> {}]
-----------------------------------------------------------------------------
(* A token arrives: the effects on it ask for the dossiers, and for what a  *)
(* page used before already selects.                                        *)
Login == /\ ~session.active /\ session.logins < MaxLogins
         /\ session' = [logins |-> session.logins + 1, active |-> TRUE]
         /\ Send(<<Request("dossiers", 0)>>
                 \o (IF selected THEN <<Request("opened", 0), Request("extraction", 0)>> ELSE <<>>)
                 \o (IF current = 0 THEN <<>> ELSE <<Request("content", current)>>))
         /\ loading' = TRUE
         /\ chunks' = IF current = 0 THEN Empty ELSE chunks
         /\ UNCHANGED <<server, selected, documents, current, cited, history>>

(* Only the token goes, and the passages with it.  *)
Logout == /\ session.active
          /\ session' = [session EXCEPT !.active = FALSE]
          /\ chunks' = Empty
          /\ UNCHANGED <<server, selected, documents, current, cited, loading, requests, history>>

\* The box to be ticked before an upload can always be ticked.
Upload == /\ session.active /\ selected
          /\ ~loading /\ loading' = TRUE
          /\ Send(<<Request("upload", 0)>>)
          /\ UNCHANGED <<server, session, selected, documents, current, chunks, cited, history>>

Ask == /\ session.active /\ selected
       /\ ~loading /\ loading' = TRUE
       /\ Send(<<Request("ask", 0)>>)
       /\ UNCHANGED <<server, session, selected, documents, current, chunks, cited, history>>

Click(d) == /\ session.active /\ d \in DOMAIN documents
            /\ Select(d, requests)
            /\ UNCHANGED <<server, session, selected, documents, cited, loading, history>>

(* The effect fetches the passages of a newly selected document, and the    *)
(* click itself fetches them again to focus the cited one.                  *)
OpenCitation(d) == /\ session.active /\ d \in cited
                   /\ Len(requests) < MaxRequests
                   /\ Select(d, Append(requests, Request("content", d)))
                   /\ UNCHANGED <<server, session, selected, documents, cited, loading, history>>

Poll == /\ Polling
        /\ Send(<<Request("poll", 0)>>)
        /\ UNCHANGED <<server, session, selected, documents, current, chunks, cited, loading,
                       history>>

User == \/ Login \/ Logout \/ Upload \/ Ask
        \/ \E d \in 1 .. MaxDocuments : Click(d) \/ OpenCitation(d)
-----------------------------------------------------------------------------
(* What the server reads for a request: the documents that are not deleted, *)
(* listed from the newest on.                                               *)
Live == {d \in DOMAIN server : server[d] # "deleted"}

CurrentList == [d \in Live |-> server[d]]

Newest(list) == CHOOSE d \in DOMAIN list : \A e \in DOMAIN list : e <= d

Completed == {d \in DOMAIN server : server[d] = "completed"}

Answered(kind, d) ==
    CASE kind = "dossiers" -> TRUE
      [] kind \in Lists -> CurrentList
      [] kind = "content" -> [of |-> d, any |-> d \in Completed]
      [] OTHER -> Completed

(* An upload of a content that is already there gives the document it is.   *)
Stored == \/ /\ Len(server) < MaxDocuments
             /\ server' = Append(server, "queued")
          \/ UNCHANGED server

Reply(r) ==
    IF r.kind # "upload" THEN {Answered(r.kind, r.document)}
    ELSE IF server' # server THEN {[of |-> Len(server'), status |-> "queued"]}
    ELSE {[of |-> d, status |-> server[d]] : d \in Live}

Serve(i) ==
    LET r == requests[i] IN
    /\ ~r.reply.served
    /\ IF r.kind = "upload" THEN Stored ELSE UNCHANGED server
    /\ \E value \in Reply(r) :
          requests' = [requests EXCEPT ![i].reply = [served |-> TRUE, value |-> value]]
    /\ history' = IF \A j \in 1 .. i - 1 : requests[j].reply.served THEN history ELSE Spoiled
    /\ UNCHANGED <<session, selected, documents, current, chunks, cited, loading>>

(* The worker.  *)
Process(d) == /\ d \in DOMAIN server /\ server[d] \in Pending
              /\ \E s \in IF server[d] = "queued" THEN {"processing"} ELSE {"completed", "failed"} :
                     server' = [server EXCEPT ![d] = s]
              /\ UNCHANGED <<session, selected, documents, current, chunks, cited, loading,
                             requests, history>>
-----------------------------------------------------------------------------
(* loadDocuments: the list replaces the old one, and a selected document it *)
(* does not name is replaced by its first.                                  *)
Show(list, after) ==
    /\ documents' = list
    /\ Select(IF current # 0 /\ current \in DOMAIN list THEN current
              ELSE IF DOMAIN list = {} THEN 0 ELSE Newest(list), after)

(* A dossier read again is a new object, which opens it again.  *)
Dossiers(rest) ==
    /\ selected' = TRUE
    /\ loading' = session.active
    /\ requests' = IF session.active
                   THEN rest \o <<Request("opened", 0), Request("extraction", 0)>> ELSE rest
    /\ Len(requests') <= MaxRequests
    /\ UNCHANGED <<documents, current, chunks, cited>>

(* The last poll asks for the extractions.  *)
Polled(list, rest) ==
    /\ Show(list, rest \o IF OnePending(list) THEN <<>> ELSE <<Request("extracted", 0)>>)
    /\ UNCHANGED <<selected, cited, loading>>

Opened(list, rest) == Show(list, rest) /\ UNCHANGED <<selected, cited, loading>>

(* Opening a dossier asks for its list and its extractions together, which  *)
(* are shown once the list has arrived as well (Promise.all).               *)
Awaits(i) == requests[i].kind = "extraction" /\ i > 1 /\ requests[i - 1].kind = "opened"

Extraction(r, rest) ==
    /\ cited' = r.reply.value
    /\ loading' = (loading /\ r.kind # "extraction")
    /\ requests' = rest
    /\ UNCHANGED <<selected, documents, current, chunks>>

Content(r, rest) == /\ chunks' = r.reply.value
                    /\ requests' = rest
                    /\ UNCHANGED <<selected, documents, current, cited, loading>>

Answer(r, rest) == /\ cited' = cited \cup r.reply.value
                   /\ loading' = FALSE
                   /\ requests' = rest
                   /\ UNCHANGED <<selected, documents, current, chunks>>

(* The document is listed as the reply has it, whatever the list said of it.*)
Uploaded(created, rest) ==
    /\ documents' = [d \in DOMAIN documents \cup {created.of} |->
                        IF d = created.of THEN created.status ELSE documents[d]]
    /\ loading' = FALSE
    /\ Select(created.of, rest)
    /\ UNCHANGED <<selected, cited>>

Unread(rest) == /\ requests' = rest
                /\ UNCHANGED <<selected, documents, current, chunks, cited, loading>>

Arrive(i) ==
    LET r == requests[i]
        rest == RemoveAt(requests, i)
    IN  /\ r.reply.served
        /\ history' = IF i # 1 THEN Spoiled
                      ELSE IF history.clean /\ r.kind = "upload"
                      THEN [history EXCEPT !.mine = @ \cup {r.reply.value.of}] ELSE history
        /\ \/ r.kind = "dossiers" /\ Dossiers(rest)
           \/ r.kind \in {"opened", "listed"} /\ Opened(r.reply.value, rest)
           \/ r.kind = "poll" /\ Polled(r.reply.value, rest)
           \/ r.kind \in {"extraction", "extracted"} /\ ~Awaits(i) /\ Extraction(r, rest)
           \/ r.kind = "content" /\ Content(r, rest)
           \/ r.kind = "ask" /\ Answer(r, rest)
           \/ r.kind = "upload" /\ Uploaded(r.reply.value, rest)
           \/ r.kind = "unread" /\ Unread(rest)
        /\ UNCHANGED <<server, session>>

(* An error is shown, nothing else changes; an opening that failed is over, *)
(* and of its other half a list is shown, extractions are not.              *)
Alone(r) == CASE r.kind = "opened" -> [r EXCEPT !.kind = "listed"]
              [] r.kind = "extraction" -> [r EXCEPT !.kind = "unread"]
              [] OTHER -> r

\* Where the other half is once request i has left.
Half(i) == IF requests[i].kind = "opened" THEN i ELSE IF Awaits(i) THEN i - 1 ELSE 0

Fail(i) ==
    LET r == requests[i]
        rest == RemoveAt(requests, i)
    IN  /\ requests' = [j \in DOMAIN rest |-> IF j = Half(i) THEN Alone(rest[j]) ELSE rest[j]]
        /\ loading' = (loading /\ r.kind \in {"poll", "listed", "extracted", "content", "unread"})
        /\ history' = Spoiled
        /\ UNCHANGED <<server, session, selected, documents, current, chunks, cited>>

Next == \/ User \/ Poll
        \/ \E d \in 1 .. MaxDocuments : Process(d)
        \/ \E i \in DOMAIN requests : Serve(i) \/ Arrive(i) \/ Fail(i)

Spec == Init /\ [][Next]_vars
-----------------------------------------------------------------------------
(* The page has nothing under way and will ask for nothing by itself.       *)
AtRest == session.active /\ selected /\ requests = <<>> /\ ~Polling

(* Whatever the order of the replies, a page at rest shows no status that   *)
(* has changed since.  When every request was served and answered in turn   *)
(* it lists every document it uploaded, and shows no passages of another    *)
(* document than the selected one (loadDocuments, the timer, upload and     *)
(* openCitation all set these).                                             *)
RestIsTrue ==
    AtRest => /\ \A d \in DOMAIN documents : documents[d] = server[d]
              /\ history.mine \subseteq DOMAIN documents
              /\ history.clean /\ chunks.any => chunks.of = current

(* "Le contenu apparaîtra après traitement": the passages of the selected   *)
(* document are shown once it is shown as completed.                        *)
ContentAppears ==
    AtRest /\ history.clean /\ current \in DOMAIN documents /\ documents[current] = "completed"
        => chunks = [of |-> current, any |-> TRUE]
-----------------------------------------------------------------------------
(* What keeps the first true at every step.                                 *)
\* The documents that a reply names.
Names(r) == IF ~ r.reply.served \/ r.kind \in {"dossiers", "content"} THEN {}
            ELSE IF r.kind \in Lists THEN DOMAIN r.reply.value
            ELSE IF r.kind = "upload" THEN {r.reply.value.of} ELSE r.reply.value

\* The documents that the page knows of.
Known == DOMAIN documents \cup cited \cup history.mine \cup ({current} \ {0})

\* A listed status is the server's or is still to change.
IsRecent(d, status) == status \in Pending \/ status = server[d]
Recent(list) == \A d \in DOMAIN list : IsRecent(d, list[d])

Fits(r) == /\ r = [kind |-> r.kind, document |-> r.document, reply |-> r.reply]
           /\ Names(r) \subseteq Live
           /\ r.reply.served /\ r.kind \in Lists => Recent(r.reply.value)
           /\ r.reply.served /\ r.kind = "upload" =>
                IsRecent(r.reply.value.of, r.reply.value.status)
           /\ r.reply.served /\ r.kind = "content" => r.reply.value.of = r.document

StatusInv == /\ session = [logins |-> session.logins, active |-> session.active]
             /\ history = [clean |-> history.clean, mine |-> history.mine]
             /\ server \in Seq(Pending \cup {"completed", "failed", "deleted"})
             /\ requests \in Seq({requests[i] : i \in DOMAIN requests})
             /\ \A i \in DOMAIN requests : Fits(requests[i])
             /\ Known \subseteq Live /\ Recent(documents)
             /\ ~ history.clean => history.mine = {}

ServedInTurn == \A i, j \in DOMAIN requests :
                   j < i /\ requests[i].reply.served => requests[j].reply.served

\* A list names what the page knows of and what it will be told before it gets the list.
ListsGrow == \A i \in DOMAIN requests :
                requests[i].kind \in Lists /\ requests[i].reply.served =>
                   /\ Known \subseteq Names(requests[i])
                   /\ \A j \in 1 .. i - 1 : Names(requests[j]) \subseteq Names(requests[i])

Contents == {i \in DOMAIN requests : requests[i].kind = "content"}

\* The passages that will be shown in the end are those of the selected document.
ContentIsCurrent ==
    /\ chunks.any \/ Contents # {} => current # 0
    /\ session.active =>
          IF Contents = {} THEN chunks.any => chunks.of = current
          ELSE \A i \in Contents : (\A j \in Contents : j <= i) => requests[i].document = current

CleanInv == history.clean => /\ ServedInTurn
                             /\ ListsGrow
                             /\ ContentIsCurrent
                             /\ history.mine \subseteq DOMAIN documents

PageInv == StatusInv /\ CleanInv
=============================================================================
