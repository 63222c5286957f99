-------------------------- MODULE DocumentPipeline --------------------------
(***************************************************************************)
(* The life of an uploaded document: the API request that stores, records  *)
(* and enqueues it, the ARQ worker that indexes it, and the request that   *)
(* deletes it.  They share PostgreSQL rows, files on a local disk and a    *)
(* Redis queue, and no transaction spans two of these stores.              *)
(*                                                                         *)
(* A database transaction that locks the task row and then the document    *)
(* row, decides, writes and commits is one step.  Whatever happens outside *)
(* a transaction (a file, the queue, computing an index) is a step of its  *)
(* own, so that every other actor may run in between.                      *)
(***************************************************************************)
EXTENDS Naturals, FiniteSets

CONSTANTS
    Docs,         \* document ids; an upload request is named by the id it mints
    Contents,     \* (dossier, sha256) pairs
    Content,      \* what each upload request carries
    Runs,         \* executions of process_document that can overlap
    MaxAttempts,  \* the 3 of "attempt < 3" in jobs.py
    MaxTries,     \* WorkerSettings.max_tries
    FaultKinds,   \* the faults a configuration allows, see AllFaults
    MaxFaults     \* how many of them happen in one behaviour

\* crash     : a worker process dies in the middle of a job
\* duplicate : ARQ delivers a job again while a first run is still alive
\* abort     : an exception nobody catches, or ARQ's job timeout, ends a run
\* redis     : Redis restarts and, keeping no data, forgets every job
\* api       : the API process dies, or PostgreSQL refuses its commit
\* lostreply : Redis accepts a job but the API sees the call fail
AllFaults == {"crash", "duplicate", "abort", "redis", "api", "lostreply"}

ASSUME ContentAssumption == Content \in [Docs -> Contents]
ASSUME RunsAssumption == IsFiniteSet(Runs)
ASSUME LimitsAssumption ==
    /\ MaxAttempts \in Nat \ {0}
    /\ MaxTries \in Nat \ {0}
    /\ MaxFaults \in Nat
    /\ FaultKinds \subseteq AllFaults

VARIABLES
    upload,      \* where each upload request stands, or what it answered
    docStatus,   \* documents.status, "absent" before the row exists
    docError,    \* documents.error_code
    deletedAt,   \* documents.deleted_at is set
    taskStatus,  \* processing_tasks.status
    taskError,   \* processing_tasks.error_code
    attempts,    \* processing_tasks.attempts
    index,       \* generations of chunks and extraction stored for a document
    audit,       \* results of the audit events that concern a document
    deleting,    \* documents whose two rows a DELETE request holds locked
    files,       \* documents that have a stored file
    jobs,        \* documents whose job is in the Redis queue
    leases,      \* jobs whose in-progress key is present
    tries,       \* how often Redis handed out a job (ARQ's job_try)
    run,         \* what each execution of process_document is doing
    faults       \* faults still to come

docVars == <<docStatus, docError, deletedAt>>
taskVars == <<taskStatus, taskError, attempts>>
rowVars == <<docVars, taskVars, index, audit>>
queueVars == <<jobs, leases, tries>>
vars == <<upload, rowVars, deleting, files, queueVars, run, faults>>

-----------------------------------------------------------------------------
DocumentStatus == {"queued", "processing", "completed", "failed", "deleted"}
TaskStatus == {"queued", "processing", "completed", "failed"}
ErrorCode ==
    {"none", "queue_unavailable", "document_deleted", "parse_error",
     "storage_temporarily_unavailable", "storage_unavailable",
     "processing_temporarily_unavailable", "processing_failed"}
AuditResult ==
    {"queued", "deduplicated", "enqueue_failed", "deleted",
     "retry", "failed", "completed", "cancelled"}

\* An upload before its row is committed, between commit and answer, answered.
Unrecorded == {"new", "put", "commit", "conflict", "existing", "error"}
Enqueueing == {"enqueue", "enqueue_failed"}
Answers == {"accepted", "existing", "unavailable", "error"}
UploadState == Unrecorded \cup Enqueueing \cup Answers \cup {"lost"}

FailureState == {"storage_failure", "parse_failure", "stage_failure"}
RunState == {"idle", "claim", "fetch", "process", "persist", "retry", "finish"}
                \cup FailureState
Idle == [pc |-> "idle"]
At(pc, d, attempt) == [pc |-> pc, doc |-> d, attempt |-> attempt]
Busy(r) == run[r].pc # "idle"

Recorded(d) == docStatus[d] # "absent"
Live(d) == Recorded(d) /\ ~deletedAt[d]
Unlocked(d) == d \notin deleting

\* Mutants (each replaces the definition it precedes in one run).
GoneByStatus(d) == docStatus[d] = "deleted"
NeverGone(d) == FALSE
NeverDone(d) == FALSE
AuditedOnSuccess(d, result) ==
    IF result = "failed" THEN audit ELSE [audit EXCEPT ![d] = @ \cup {result}]
SetRowsKeepingDocError(d, status, error) ==
    /\ docStatus' = [docStatus EXCEPT ![d] = status]
    /\ taskStatus' = [taskStatus EXCEPT ![d] = status]
    /\ taskError' = [taskError EXCEPT ![d] = error]
    /\ UNCHANGED docError

\* The worker's tests for a deleted and for a completed document.
Gone(d) == deletedAt[d] \/ docStatus[d] = "deleted"
Done(d) == docStatus[d] = "completed"

Audited(d, result) == [audit EXCEPT ![d] = @ \cup {result}]

\* The same status and error code, written to both rows.
SetRows(d, status, error) ==
    /\ docStatus' = [docStatus EXCEPT ![d] = status]
    /\ docError' = [docError EXCEPT ![d] = error]
    /\ taskStatus' = [taskStatus EXCEPT ![d] = status]
    /\ taskError' = [taskError EXCEPT ![d] = error]

Fault(kind) ==
    /\ kind \in FaultKinds
    /\ faults > 0
    /\ faults' = faults - 1

Init ==
    /\ upload = [d \in Docs |-> "new"]
    /\ docStatus = [d \in Docs |-> "absent"]
    /\ docError = [d \in Docs |-> "none"]
    /\ deletedAt = [d \in Docs |-> FALSE]
    /\ taskStatus = [d \in Docs |-> "absent"]
    /\ taskError = [d \in Docs |-> "none"]
    /\ attempts = [d \in Docs |-> 0]
    /\ index = [d \in Docs |-> 0]
    /\ audit = [d \in Docs |-> {}]
    /\ deleting = {}
    /\ files = {}
    /\ jobs = {}
    /\ leases = {}
    /\ tries = [d \in Docs |-> 0]
    /\ run = [r \in Runs |-> Idle]
    /\ faults = MaxFaults

-----------------------------------------------------------------------------
(* POST /documents                                                         *)

Goto(u, state) == upload' = [upload EXCEPT ![u] = state]

SameCompletedContent(u) ==
    {d \in Docs : docStatus[d] = "completed" /\ Content[d] = Content[u]}

SameContent(u) == {d \in Docs : Live(d) /\ Content[d] = Content[u]}

\* An active document with this content answers the request.
Deduplicate(u) ==
    /\ upload[u] = "new"
    /\ SameContent(u) # {}
    /\ Goto(u, "existing")
    /\ audit' = Audited(u, "deduplicated")
    /\ UNCHANGED <<docVars, taskVars, index, deleting, files, queueVars, run, faults>>

MissesDuplicate(u) ==
    /\ upload[u] = "new"
    /\ SameContent(u) = {}
    /\ Goto(u, "put")
    /\ UNCHANGED <<rowVars, deleting, files, queueVars, run, faults>>

PutFile(u) ==
    /\ upload[u] = "put"
    /\ files' = files \cup {u}
    /\ Goto(u, "commit")
    /\ UNCHANGED <<rowVars, deleting, queueVars, run, faults>>

\* The partial unique index uq_active_document_hash decides between requests
\* that all missed the duplicate.
CommitUpload(u) ==
    /\ upload[u] = "commit"
    /\ SameContent(u) = {}
    /\ docStatus' = [docStatus EXCEPT ![u] = "queued"]
    /\ taskStatus' = [taskStatus EXCEPT ![u] = "queued"]
    /\ audit' = Audited(u, "queued")
    /\ Goto(u, "enqueue")
    /\ UNCHANGED <<docError, deletedAt, taskError, attempts, index, deleting,
                   files, queueVars, run, faults>>

CommitConflicts(u) ==
    /\ upload[u] = "commit"
    /\ SameContent(u) # {}
    /\ Goto(u, "conflict")
    /\ UNCHANGED <<rowVars, deleting, files, queueVars, run, faults>>

ResolveKeepingFile(u) ==
    /\ upload[u] = "conflict"
    /\ Goto(u, IF SameContent(u) # {} THEN "existing" ELSE "error")
    /\ UNCHANGED <<rowVars, deleting, files, queueVars, run, faults>>

ResolveRemovingWinner(u) ==
    /\ upload[u] = "conflict"
    /\ files' = files \ ({u} \cup SameContent(u))
    /\ Goto(u, IF SameContent(u) # {} THEN "existing" ELSE "error")
    /\ UNCHANGED <<rowVars, deleting, queueVars, run, faults>>

\* The loser removes its file and answers with the winner, or with an error
\* when the winner was deleted meanwhile.  The rollback took its audit event.
ResolveConflict(u) ==
    /\ upload[u] = "conflict"
    /\ files' = files \ {u}
    /\ Goto(u, IF SameContent(u) # {} THEN "existing" ELSE "error")
    /\ UNCHANGED <<rowVars, deleting, queueVars, run, faults>>

EnqueueJob(u) ==
    /\ upload[u] = "enqueue"
    /\ jobs' = jobs \cup {u}
    /\ Goto(u, "accepted")
    /\ UNCHANGED <<rowVars, deleting, files, leases, tries, run, faults>>

EnqueueFails(u) ==
    /\ upload[u] = "enqueue"
    /\ Goto(u, "enqueue_failed")
    /\ UNCHANGED <<rowVars, deleting, files, queueVars, run, faults>>

EnqueueReplyLost(u) ==
    /\ upload[u] = "enqueue"
    /\ Fault("lostreply")
    /\ jobs' = jobs \cup {u}
    /\ Goto(u, "enqueue_failed")
    /\ UNCHANGED <<rowVars, deleting, files, leases, tries, run>>

\* The handler writes both rows from the objects it still holds.  It reads
\* nothing back: neither a deletion nor a worker's result stops it.
RecordEnqueueFailure(u) ==
    /\ upload[u] = "enqueue_failed"
    /\ Unlocked(u)
    /\ SetRows(u, "failed", "queue_unavailable")
    /\ audit' = Audited(u, "enqueue_failed")
    /\ Goto(u, "unavailable")
    /\ UNCHANGED <<deletedAt, attempts, index, deleting, files, queueVars, run, faults>>

\* The process dies, or the commit fails with anything but IntegrityError.
UploadLost(u) ==
    /\ upload[u] \in {"put", "commit", "conflict"} \cup Enqueueing
    /\ Fault("api")
    /\ Goto(u, "lost")
    /\ UNCHANGED <<rowVars, deleting, files, queueVars, run>>

UploadStep(u) ==
    \/ Deduplicate(u) \/ MissesDuplicate(u) \/ PutFile(u)
    \/ CommitUpload(u) \/ CommitConflicts(u) \/ ResolveConflict(u)
    \/ EnqueueJob(u) \/ EnqueueFails(u) \/ RecordEnqueueFailure(u)

-----------------------------------------------------------------------------
(* DELETE /documents/{id}                                                  *)

DeleteFileAndIndex(d) ==
    /\ Live(d)
    /\ Unlocked(d)
    /\ deleting' = deleting \cup {d}
    /\ files' = files \ {d}
    /\ index' = [index EXCEPT ![d] = 0]
    /\ UNCHANGED <<upload, docVars, taskVars, audit, queueVars, run, faults>>

\* Under both row locks the file goes first, before anything is committed.
DeleteFile(d) ==
    /\ Live(d)
    /\ Unlocked(d)
    /\ deleting' = deleting \cup {d}
    /\ files' = files \ {d}
    /\ UNCHANGED <<upload, rowVars, queueVars, run, faults>>

CommitDelete(d) ==
    /\ d \in deleting
    /\ deleting' = deleting \ {d}
    /\ index' = [index EXCEPT ![d] = 0]
    /\ IF taskStatus[d] \in {"completed", "failed"}
       THEN UNCHANGED <<taskStatus, taskError>>
       ELSE /\ taskStatus' = [taskStatus EXCEPT ![d] = "failed"]
            /\ taskError' = [taskError EXCEPT ![d] = "document_deleted"]
    /\ docStatus' = [docStatus EXCEPT ![d] = "deleted"]
    /\ deletedAt' = [deletedAt EXCEPT ![d] = TRUE]
    /\ audit' = Audited(d, "deleted")
    /\ UNCHANGED <<upload, docError, attempts, files, queueVars, run, faults>>

\* The transaction is rolled back; the file is not put back.
DeleteLost(d) ==
    /\ d \in deleting
    /\ Fault("api")
    /\ deleting' = deleting \ {d}
    /\ UNCHANGED <<upload, rowVars, files, queueVars, run>>

-----------------------------------------------------------------------------
(* The ARQ worker: handing out jobs                                        *)

HasTriesLeft(d) == tries[d] < MaxTries

StartJob(r, d) ==
    /\ ~Busy(r)
    /\ d \in jobs \ leases
    /\ HasTriesLeft(d)
    /\ tries' = [tries EXCEPT ![d] = @ + 1]
    /\ leases' = leases \cup {d}
    /\ run' = [run EXCEPT ![r] = At("claim", d, 0)]
    /\ UNCHANGED <<upload, rowVars, deleting, files, jobs, faults>>

\* Past max_tries ARQ fails the job without calling process_document.
DropJob(d) ==
    /\ d \in jobs \ leases
    /\ ~HasTriesLeft(d)
    /\ jobs' = jobs \ {d}
    /\ UNCHANGED <<upload, rowVars, deleting, files, leases, tries, run, faults>>

\* process_document returned: the job and its in-progress key are removed.
FinishJob(r) ==
    /\ run[r].pc = "finish"
    /\ jobs' = jobs \ {run[r].doc}
    /\ leases' = leases \ {run[r].doc}
    /\ run' = [run EXCEPT ![r] = Idle]
    /\ UNCHANGED <<upload, rowVars, deleting, files, tries, faults>>

\* process_document raised Retry: the job stays and may be handed out again.
RequeueJob(r) ==
    /\ run[r].pc = "retry"
    /\ leases' = leases \ {run[r].doc}
    /\ run' = [run EXCEPT ![r] = Idle]
    /\ UNCHANGED <<upload, rowVars, deleting, files, jobs, tries, faults>>

\* The key of a dead run times out.
LeaseExpires(d) ==
    /\ d \in leases
    /\ \A r \in Runs : Busy(r) => run[r].doc # d
    /\ leases' = leases \ {d}
    /\ UNCHANGED <<upload, rowVars, deleting, files, jobs, tries, run, faults>>

DuplicateDelivery(d) ==
    /\ d \in leases
    /\ \E r \in Runs : Busy(r) /\ run[r].doc = d
    /\ Fault("duplicate")
    /\ leases' = leases \ {d}
    /\ UNCHANGED <<upload, rowVars, deleting, files, jobs, tries, run>>

WorkerCrash(r) ==
    /\ Busy(r)
    /\ Fault("crash")
    /\ run' = [run EXCEPT ![r] = Idle]
    /\ UNCHANGED <<upload, rowVars, deleting, files, queueVars>>

\* Any exception but Retry finishes the job for ARQ, whatever the rows say.
AbortJob(r) ==
    /\ Busy(r)
    /\ Fault("abort")
    /\ jobs' = jobs \ {run[r].doc}
    /\ leases' = leases \ {run[r].doc}
    /\ run' = [run EXCEPT ![r] = Idle]
    /\ UNCHANGED <<upload, rowVars, deleting, files, tries>>

RedisRestart ==
    /\ Fault("redis")
    /\ jobs' = {}
    /\ leases' = {}
    /\ UNCHANGED <<upload, rowVars, deleting, files, tries, run>>

-----------------------------------------------------------------------------
(* The ARQ worker: process_document.  A job is only ever enqueued for rows *)
(* that are committed and rows are never removed, so the "missing" returns *)
(* cannot be taken.                                                        *)

RunAt(r, pc) == run[r].pc = pc /\ Unlocked(run[r].doc)
Continue(r, pc) == run' = [run EXCEPT ![r] = At(pc, run[r].doc, run[r].attempt)]

\* _cancel_deleted_document; the document row is left as it is.
CancelDeleted(r) ==
    LET d == run[r].doc
    IN  /\ Gone(d)
        /\ taskStatus' = [taskStatus EXCEPT ![d] = "failed"]
        /\ taskError' = [taskError EXCEPT ![d] = "document_deleted"]
        /\ audit' = IF taskStatus[d] = "failed" /\ taskError[d] = "document_deleted"
                    THEN audit ELSE Audited(d, "cancelled")
        /\ Continue(r, "finish")
        /\ UNCHANGED <<upload, docVars, attempts, index, deleting, files, queueVars, faults>>

\* A deletion found in any of the worker's transactions.
NoticeDeleted(r) ==
    /\ run[r].pc \in {"claim", "persist"} \cup FailureState
    /\ Unlocked(run[r].doc)
    /\ CancelDeleted(r)

\* Another run has completed the document.
AlreadyCompleted(r) ==
    /\ run[r].pc \in {"claim", "persist"}
    /\ Unlocked(run[r].doc)
    /\ ~Gone(run[r].doc)
    /\ Done(run[r].doc)
    /\ Continue(r, "finish")
    /\ UNCHANGED <<upload, rowVars, deleting, files, queueVars, faults>>

Claim(r) ==
    LET d == run[r].doc
    IN  /\ RunAt(r, "claim")
        /\ ~Gone(d)
        /\ ~Done(d)
        /\ attempts' = [attempts EXCEPT ![d] = @ + 1]
        /\ SetRows(d, "processing", "none")
        /\ run' = [run EXCEPT ![r] = At("fetch", d, attempts[d] + 1)]
        /\ UNCHANGED <<upload, deletedAt, index, audit, deleting, files, queueVars, faults>>

\* storage.get, outside any transaction; a missing file is an OSError too.
Fetch(r) ==
    /\ run[r].pc = "fetch"
    /\ \/ run[r].doc \in files /\ Continue(r, "process")
       \/ Continue(r, "storage_failure")
    /\ UNCHANGED <<upload, rowVars, deleting, files, queueVars, faults>>

\* Parse, redact, split, embed and extract: local to the run.
Process(r) ==
    /\ run[r].pc = "process"
    /\ \E next \in {"persist", "parse_failure", "stage_failure"} : Continue(r, next)
    /\ UNCHANGED <<upload, rowVars, deleting, files, queueVars, faults>>

\* Old chunks and extraction are deleted, the new ones inserted.
Persist(r) ==
    LET d == run[r].doc
    IN  /\ RunAt(r, "persist")
        /\ ~Gone(d)
        /\ ~Done(d)
        /\ index' = [index EXCEPT ![d] = 1]
        /\ SetRows(d, "completed", "none")
        /\ audit' = Audited(d, "completed")
        /\ Continue(r, "finish")
        /\ UNCHANGED <<upload, deletedAt, attempts, deleting, files, queueVars, faults>>

PersistFails(r) ==
    /\ run[r].pc = "persist"
    /\ Continue(r, "stage_failure")
    /\ UNCHANGED <<upload, rowVars, deleting, files, queueVars, faults>>

ShouldRetryOffByOne(r) == run[r].pc # "parse_failure" /\ run[r].attempt <= MaxAttempts
ShouldRetry(r) == run[r].pc # "parse_failure" /\ run[r].attempt < MaxAttempts

FailureCodeByStage(r) == run[r].pc
FailureCode(r) ==
    CASE run[r].pc = "parse_failure" -> "parse_error"
      [] run[r].pc = "storage_failure" ->
            IF ShouldRetry(r) THEN "storage_temporarily_unavailable" ELSE "storage_unavailable"
      [] OTHER ->
            IF ShouldRetry(r) THEN "processing_temporarily_unavailable" ELSE "processing_failed"

\* The three _record_*_failure transactions.
RecordFailure(r) ==
    LET d == run[r].doc
    IN  /\ run[r].pc \in FailureState
        /\ Unlocked(d)
        /\ ~Gone(d)
        /\ SetRows(d, IF ShouldRetry(r) THEN "queued" ELSE "failed", FailureCode(r))
        /\ audit' = Audited(d, IF ShouldRetry(r) THEN "retry" ELSE "failed")
        /\ Continue(r, IF ShouldRetry(r) THEN "retry" ELSE "finish")
        /\ UNCHANGED <<upload, deletedAt, attempts, index, deleting, files, queueVars, faults>>

WorkerStep(r) ==
    \/ NoticeDeleted(r) \/ AlreadyCompleted(r) \/ Claim(r) \/ Fetch(r) \/ Process(r)
    \/ Persist(r) \/ PersistFails(r) \/ RecordFailure(r)
    \/ FinishJob(r) \/ RequeueJob(r)

-----------------------------------------------------------------------------
Next ==
    \/ \E u \in Docs : UploadStep(u) \/ EnqueueReplyLost(u) \/ UploadLost(u)
    \/ \E d \in Docs : DeleteFile(d) \/ CommitDelete(d) \/ DeleteLost(d)
    \/ \E r \in Runs, d \in Docs : StartJob(r, d)
    \/ \E d \in Docs : DropJob(d) \/ LeaseExpires(d) \/ DuplicateDelivery(d)
    \/ \E r \in Runs : WorkerStep(r) \/ WorkerCrash(r) \/ AbortJob(r)
    \/ RedisRestart

Spec == Init /\ [][Next]_vars

\* A request the API has accepted runs to its answer, a run to its end, ARQ
\* polls its queue, and keys expire.  Nobody is obliged to send a request.
Fairness ==
    /\ \A u \in Docs : WF_vars(upload[u] # "new" /\ UploadStep(u))
    /\ \A d \in Docs : WF_vars(CommitDelete(d))
    /\ \A d \in Docs : WF_vars(\E r \in Runs : StartJob(r, d))
    /\ \A d \in Docs : WF_vars(DropJob(d) \/ LeaseExpires(d))
    /\ \A r \in Runs : WF_vars(WorkerStep(r))

FairSpec == Spec /\ Fairness

-----------------------------------------------------------------------------
(* Properties                                                              *)

\* Every variable stays in its type; a busy run works on a recorded document.
TypeOK ==
    /\ upload \in [Docs -> UploadState]
    /\ docStatus \in [Docs -> DocumentStatus \cup {"absent"}]
    /\ docError \in [Docs -> ErrorCode]
    /\ deletedAt \in [Docs -> BOOLEAN]
    /\ taskStatus \in [Docs -> TaskStatus \cup {"absent"}]
    /\ taskError \in [Docs -> ErrorCode]
    /\ attempts \in [Docs -> Nat]
    /\ index \in [Docs -> Nat]
    /\ audit \in [Docs -> SUBSET AuditResult]
    /\ deleting \subseteq Docs
    /\ files \subseteq Docs
    /\ jobs \subseteq Docs
    /\ leases \subseteq Docs
    /\ tries \in [Docs -> Nat]
    /\ run \in [Runs -> {Idle} \cup [pc : RunState \ {"idle"}, doc : Docs, attempt : Nat]]
    /\ faults \in 0..MaxFaults

\* FR-15: once DELETE has committed, no passage, extraction or file of the
\* document is left, and none comes back, whatever a worker still computes.
DeletedLeavesNothing ==
    \A d \in Docs : deletedAt[d] => index[d] = 0 /\ d \notin files

\* AC-4: the passages of a content are stored once, under one document, however
\* many requests, retries and deliveries there were.
OneIndexPerContent ==
    \A d, e \in Docs :
        Content[d] = Content[e] /\ index[d] > 0 /\ index[e] > 0 =>
            d = e /\ index[d] = 1

\* The document row the interface polls and the task row the worker counts
\* attempts in never disagree on status or error, until the document is deleted.
RowsAgree ==
    \A d \in Docs :
        ~deletedAt[d] => /\ taskStatus[d] = docStatus[d]
                         /\ taskError[d] = docError[d]

\* A document shown as completed has its passages and extraction stored.
CompletedIsSearchable ==
    \A d \in Docs : docStatus[d] = "completed" => index[d] = 1 /\ ~deletedAt[d]

\* FR-7: no sequence of failures, crashes and deliveries makes more attempts
\* than ARQ made deliveries, nor more than max_tries.
AttemptsBounded ==
    \A d \in Docs : attempts[d] <= tries[d] /\ tries[d] <= MaxTries

\* FR-16: the outcome the rows show has an event in the audit trail.
AuditTrailComplete ==
    \A d \in Docs :
        /\ Recorded(d) => "queued" \in audit[d]
        /\ docStatus[d] = "completed" => "completed" \in audit[d]
        /\ docStatus[d] = "failed" => audit[d] \cap {"failed", "enqueue_failed"} # {}
        /\ deletedAt[d] => "deleted" \in audit[d]
        /\ taskError[d] = "document_deleted" =>
                audit[d] \cap {"deleted", "cancelled"} # {}

\* Among all writers of a deleted document's row only the handler of a failed
\* enqueue changes it: no worker transaction brings a deleted document back.
WorkerNeverRevives ==
    [][\A d \in Docs :
        deletedAt[d] => \/ deletedAt'[d] /\ docStatus'[d] = docStatus[d]
                        \/ deletedAt'[d] /\ upload[d] = "enqueue_failed"]_vars

\* No stored file outlives its document or the request that wrote it.
NoOrphanFiles ==
    \A d \in files : Live(d) \/ upload[d] \in {"commit", "conflict"}

\* A document that is not being deleted still has the file a worker will read.
LiveHasFile == \A d \in Docs : Live(d) /\ Unlocked(d) => d \in files

\* A pending document has a job in the queue or a request about to enqueue it:
\* nothing else would ever finish it.
NoAbandonedDocument ==
    \A d \in Docs :
        Live(d) /\ docStatus[d] \in {"queued", "processing"} =>
            d \in jobs \/ upload[d] \in Enqueueing

\* A completed document stays completed until it is deleted: no late run takes
\* it back to the queue, marks it failed or creates its passages again.
CompletedIsFinal ==
    [][\A d \in Docs :
        docStatus[d] = "completed" =>
            docStatus'[d] \in {"completed", "deleted"} /\ index'[d] <= index[d]]_vars

\* AC-11: after a deletion the document's status is deleted.
DeletedStaysDeleted == \A d \in Docs : deletedAt[d] => docStatus[d] = "deleted"

\* FR-16: every upload answered with a document has its audit event. It does
\* not hold of the loser of a race for the content.
UploadsAudited ==
    \A u \in Docs :
        upload[u] \in {"accepted", "existing"} =>
            audit[u] \cap {"queued", "deduplicated"} # {}

\* The stage of DocumentLifecycle a document's rows stand for.
Stage(d) ==
    CASE ~Recorded(d) -> "none"
      [] deletedAt[d] -> "gone"
      [] ~deletedAt[d] /\ docStatus[d] \in {"queued", "processing"} -> "pending"
      [] OTHER -> docStatus[d]
Lifecycle == INSTANCE DocumentLifecycle WITH stage <- [d \in Docs |-> Stage(d)]

\* Without faults the pipeline implements DocumentLifecycle: however requests
\* and runs interleave, each document settles once, stays so, and does settle.
ImplementsLifecycle == Lifecycle!FairSpec

\* With jobs delivered again after a crash it still never leaves completed or
\* gone: only a failed document may be taken up again.
ImplementsRedelivery == Lifecycle!RedeliverySpec

=============================================================================
