----------------------- MODULE DocumentPipelineProofs -----------------------
(***************************************************************************)
(* Theorems about DocumentPipeline, for every set of documents, contents   *)
(* and runs, every limit and every choice of faults.                       *)
(***************************************************************************)
EXTENDS DocumentPipeline, FiniteSetTheorems, TLAPS

-----------------------------------------------------------------------------
(* Type correctness                                                        *)

BusyRun == [pc : RunState \ {"idle"}, doc : Docs, attempt : Nat]

\* A busy run has a document and an attempt number.
LEMMA BusyRunType ==
    ASSUME TypeOK, NEW r \in Runs, Busy(r)
    PROVE  run[r] \in BusyRun /\ run[r].doc \in Docs /\ run[r].attempt \in Nat
<1>1. run[r] \in {Idle} \cup BusyRun
  BY DEF TypeOK, BusyRun
<1>2. run[r] # Idle
  BY DEF Busy, Idle
<1> QED
  BY <1>1, <1>2 DEF BusyRun

\* A busy run that moves on is busy with the same document.
LEMMA ContinueType ==
    ASSUME TypeOK, NEW r \in Runs, Busy(r), NEW pc \in RunState \ {"idle"},
           Continue(r, pc)
    PROVE  run' \in [Runs -> {Idle} \cup BusyRun]
<1>1. At(pc, run[r].doc, run[r].attempt) \in BusyRun
  BY BusyRunType DEF At, BusyRun
<1> QED
  BY <1>1 DEF TypeOK, Continue, BusyRun

\* Every step keeps the variables in their types.
LEMMA TypeStep == TypeOK /\ [Next]_vars => TypeOK'
<1> SUFFICES ASSUME TypeOK, [Next]_vars
             PROVE  TypeOK'
  OBVIOUS
<1> USE LimitsAssumption DEF docVars, taskVars, rowVars, queueVars
<1>1. ASSUME NEW u \in Docs, UploadStep(u) \/ EnqueueReplyLost(u) \/ UploadLost(u)
      PROVE  TypeOK'
  <2> USE DEF TypeOK, UploadState, Unrecorded, Enqueueing, Answers, AuditResult,
              DocumentStatus, TaskStatus, ErrorCode, Goto, Audited
  <2>1. CASE Deduplicate(u)           BY <2>1 DEF Deduplicate
  <2>2. CASE MissesDuplicate(u)       BY <2>2 DEF MissesDuplicate
  <2>3. CASE PutFile(u)               BY <2>3 DEF PutFile
  <2>4. CASE CommitUpload(u)          BY <2>4 DEF CommitUpload
  <2>5. CASE CommitConflicts(u)       BY <2>5 DEF CommitConflicts
  <2>6. CASE ResolveConflict(u)       BY <2>6 DEF ResolveConflict
  <2>7. CASE EnqueueJob(u)            BY <2>7 DEF EnqueueJob
  <2>8. CASE EnqueueFails(u)          BY <2>8 DEF EnqueueFails
  <2>9. CASE RecordEnqueueFailure(u)  BY <2>9 DEF RecordEnqueueFailure, SetRows
  <2>10. CASE EnqueueReplyLost(u)     BY <2>10 DEF EnqueueReplyLost, Fault
  <2>11. CASE UploadLost(u)           BY <2>11 DEF UploadLost, Fault
  <2> QED
    BY <1>1, <2>1, <2>2, <2>3, <2>4, <2>5, <2>6, <2>7, <2>8, <2>9, <2>10, <2>11
       DEF UploadStep
<1>2. ASSUME NEW d \in Docs, DeleteFile(d) \/ CommitDelete(d) \/ DeleteLost(d)
      PROVE  TypeOK'
  <2> USE DEF TypeOK, DocumentStatus, TaskStatus, ErrorCode, AuditResult, Audited
  <2>1. CASE DeleteFile(d)    BY <2>1 DEF DeleteFile
  <2>2. CASE CommitDelete(d)  BY <2>2 DEF CommitDelete
  <2>3. CASE DeleteLost(d)    BY <2>3 DEF DeleteLost, Fault
  <2> QED
    BY <1>2, <2>1, <2>2, <2>3
<1>3. ASSUME NEW r \in Runs, NEW d \in Docs, StartJob(r, d)
      PROVE  TypeOK'
  BY <1>3 DEF TypeOK, StartJob, At, RunState, FailureState
<1>4. ASSUME NEW d \in Docs, DropJob(d) \/ LeaseExpires(d) \/ DuplicateDelivery(d)
      PROVE  TypeOK'
  BY <1>4 DEF TypeOK, DropJob, LeaseExpires, DuplicateDelivery, Fault
<1>5. ASSUME NEW r \in Runs, WorkerCrash(r) \/ AbortJob(r)
      PROVE  TypeOK'
  BY <1>5 DEF TypeOK, WorkerCrash, AbortJob, Fault
<1>6. ASSUME NEW r \in Runs, WorkerStep(r)
      PROVE  TypeOK'
  <2>1. Busy(r)
    BY <1>6 DEF WorkerStep, Busy, NoticeDeleted, AlreadyCompleted, Claim, Fetch, Process,
                Persist, PersistFails, RecordFailure, FinishJob, RequeueJob, RunAt, FailureState
  <2>2. /\ run[r].doc \in Docs
        /\ run[r].attempt \in Nat
        /\ \A pc \in RunState \ {"idle"} :
              Continue(r, pc) => run' \in [Runs -> {Idle} \cup BusyRun]
    BY <2>1, BusyRunType, ContinueType
  <2> USE DEF TypeOK, BusyRun, RunState, FailureState, DocumentStatus, TaskStatus,
              ErrorCode, AuditResult, Audited
  <2>3. CASE NoticeDeleted(r)     BY <2>2, <2>3 DEF NoticeDeleted, CancelDeleted
  <2>4. CASE AlreadyCompleted(r)  BY <2>2, <2>4 DEF AlreadyCompleted
  <2>5. CASE Claim(r)             BY <2>2, <2>5 DEF Claim, SetRows, At
  <2>6. CASE Fetch(r)             BY <2>2, <2>6 DEF Fetch
  <2>7. CASE Process(r)           BY <2>2, <2>7 DEF Process
  <2>8. CASE Persist(r)           BY <2>2, <2>8 DEF Persist, SetRows
  <2>9. CASE PersistFails(r)      BY <2>2, <2>9 DEF PersistFails
  <2>10. CASE RecordFailure(r)    BY <2>2, <2>10 DEF RecordFailure, SetRows, FailureCode
  <2>11. CASE FinishJob(r)        BY <2>11 DEF FinishJob
  <2>12. CASE RequeueJob(r)       BY <2>12 DEF RequeueJob
  <2> QED
    BY <1>6, <2>3, <2>4, <2>5, <2>6, <2>7, <2>8, <2>9, <2>10, <2>11, <2>12 DEF WorkerStep
<1>7. CASE RedisRestart
  BY <1>7 DEF TypeOK, RedisRestart, Fault
<1>8. CASE UNCHANGED vars
  BY <1>8 DEF TypeOK, vars
<1> QED
  BY <1>1, <1>2, <1>3, <1>4, <1>5, <1>6, <1>7, <1>8 DEF Next

\* Every variable always has its type.
THEOREM TypeCorrect == Spec => []TypeOK
<1>1. Init => TypeOK
  BY LimitsAssumption DEF Init, TypeOK, UploadState, Unrecorded, Enqueueing, Answers, ErrorCode
<1> QED
  BY <1>1, TypeStep, PTL DEF Spec

-----------------------------------------------------------------------------
(* The inductive invariant behind the safety theorems                      *)

\* A request knows whether it has committed its row.
RequestsKnowRows ==
    \A d \in Docs :
        /\ upload[d] \in Unrecorded => ~Recorded(d)
        /\ upload[d] \in Enqueueing => Recorded(d)

\* Jobs and runs are about recorded documents only.
WorkIsRecorded ==
    /\ \A d \in jobs : Recorded(d)
    /\ \A r \in Runs : Busy(r) => Recorded(run[r].doc)

\* Between its two steps a deletion holds a live document without file; after
\* them nothing is left.  No file is written for a document with a row.
DeletionTakesAll ==
    /\ \A d \in deleting : Live(d) /\ d \notin files
    /\ \A d \in Docs : deletedAt[d] => Recorded(d) /\ index[d] = 0 /\ d \notin files
    /\ \A d \in Docs : docStatus[d] = "deleted" => deletedAt[d]

\* Only live documents have passages, and at most one generation of them.
IndexIsLive ==
    \A d \in Docs : index[d] # 0 => index[d] = 1 /\ Live(d)

\* The unique index: one live document per content.
OneLivePerContent ==
    \A d, e \in Docs : Live(d) /\ Live(e) /\ Content[d] = Content[e] => d = e

PipelineInv ==
    /\ RequestsKnowRows
    /\ WorkIsRecorded
    /\ DeletionTakesAll
    /\ IndexIsLive
    /\ OneLivePerContent
    /\ CompletedIsSearchable

\* Every step keeps the invariant.
LEMMA PipelineStep == TypeOK /\ PipelineInv /\ [Next]_vars => PipelineInv'
<1> SUFFICES ASSUME TypeOK, PipelineInv, [Next]_vars
             PROVE  PipelineInv'
  OBVIOUS
<1> USE DEF docVars, taskVars, rowVars, queueVars, PipelineInv, RequestsKnowRows,
            WorkIsRecorded, DeletionTakesAll, IndexIsLive, OneLivePerContent,
            CompletedIsSearchable, Recorded, Live, Busy
<1>1. ASSUME NEW u \in Docs, UploadStep(u) \/ EnqueueReplyLost(u) \/ UploadLost(u)
      PROVE  PipelineInv'
  <2> USE DEF TypeOK, Unrecorded, Enqueueing, Answers, Goto
  <2>1. CASE Deduplicate(u)           BY <2>1 DEF Deduplicate
  <2>2. CASE MissesDuplicate(u)       BY <2>2 DEF MissesDuplicate
  <2>3. CASE PutFile(u)               BY <2>3 DEF PutFile
  <2>4. CASE CommitUpload(u)          BY <2>4 DEF CommitUpload, SameContent
  <2>5. CASE CommitConflicts(u)       BY <2>5 DEF CommitConflicts
  <2>6. CASE ResolveConflict(u)       BY <2>6 DEF ResolveConflict
  <2>7. CASE EnqueueJob(u)            BY <2>7 DEF EnqueueJob
  <2>8. CASE EnqueueFails(u)          BY <2>8 DEF EnqueueFails
  <2>9. CASE RecordEnqueueFailure(u)  BY <2>9 DEF RecordEnqueueFailure, SetRows
  <2>10. CASE EnqueueReplyLost(u)     BY <2>10 DEF EnqueueReplyLost
  <2>11. CASE UploadLost(u)           BY <2>11 DEF UploadLost
  <2> QED
    BY <1>1, <2>1, <2>2, <2>3, <2>4, <2>5, <2>6, <2>7, <2>8, <2>9, <2>10, <2>11
       DEF UploadStep
<1>2. ASSUME NEW d \in Docs, DeleteFile(d) \/ CommitDelete(d) \/ DeleteLost(d)
      PROVE  PipelineInv'
  <2>1. CASE DeleteFile(d)    BY <2>1 DEF TypeOK, DeleteFile
  <2>2. CASE CommitDelete(d)  BY <2>2 DEF TypeOK, CommitDelete
  <2>3. CASE DeleteLost(d)    BY <2>3 DEF TypeOK, DeleteLost
  <2> QED
    BY <1>2, <2>1, <2>2, <2>3
<1>3. ASSUME NEW r \in Runs, NEW d \in Docs, StartJob(r, d)
      PROVE  PipelineInv'
  BY <1>3 DEF TypeOK, StartJob, At
<1>4. ASSUME NEW d \in Docs, DropJob(d) \/ LeaseExpires(d) \/ DuplicateDelivery(d)
      PROVE  PipelineInv'
  BY <1>4 DEF DropJob, LeaseExpires, DuplicateDelivery
<1>5. ASSUME NEW r \in Runs, WorkerCrash(r) \/ AbortJob(r)
      PROVE  PipelineInv'
  BY <1>5 DEF TypeOK, WorkerCrash, AbortJob, Idle
<1>6. ASSUME NEW r \in Runs, WorkerStep(r)
      PROVE  PipelineInv'
  <2>1. Busy(r)
    BY <1>6 DEF WorkerStep, NoticeDeleted, AlreadyCompleted, Claim, Fetch, Process,
                Persist, PersistFails, RecordFailure, FinishJob, RequeueJob, RunAt, FailureState
  <2>2. run[r].doc \in Docs
    BY <2>1, BusyRunType
  <2> USE DEF TypeOK, Continue, At, Gone
  <2>3. CASE NoticeDeleted(r)     BY <2>1, <2>2, <2>3 DEF NoticeDeleted, CancelDeleted
  <2>4. CASE AlreadyCompleted(r)  BY <2>1, <2>2, <2>4 DEF AlreadyCompleted
  <2>5. CASE Claim(r)             BY <2>1, <2>2, <2>5 DEF Claim, SetRows
  <2>6. CASE Fetch(r)
    <3>1. \A q \in Runs : run'[q].doc = run[q].doc /\ (Busy(q)' => Busy(q))
      BY <2>1, <2>6 DEF Fetch
    <3>2. UNCHANGED <<upload, rowVars, deleting, files, jobs>>
      BY <2>6 DEF Fetch, queueVars
    <3> QED
      BY <3>1, <3>2
  <2>7. CASE Process(r)           BY <2>1, <2>2, <2>7 DEF Process
  <2>8. CASE Persist(r)           BY <2>1, <2>2, <2>8 DEF Persist, SetRows
  <2>9. CASE PersistFails(r)      BY <2>1, <2>2, <2>9 DEF PersistFails
  <2>10. CASE RecordFailure(r)    BY <2>1, <2>2, <2>10 DEF RecordFailure, SetRows
  <2>11. CASE FinishJob(r)        BY <2>11 DEF FinishJob, Idle
  <2>12. CASE RequeueJob(r)       BY <2>12 DEF RequeueJob, Idle
  <2> QED
    BY <1>6, <2>3, <2>4, <2>5, <2>6, <2>7, <2>8, <2>9, <2>10, <2>11, <2>12 DEF WorkerStep
<1>7. CASE RedisRestart
  BY <1>7 DEF RedisRestart
<1>8. CASE UNCHANGED vars
  BY <1>8 DEF vars
<1> QED
  BY <1>1, <1>2, <1>3, <1>4, <1>5, <1>6, <1>7, <1>8 DEF Next

THEOREM PipelineInvariant == Spec => []PipelineInv
<1>1. Init => PipelineInv
  BY DEF Init, PipelineInv, RequestsKnowRows, WorkIsRecorded, DeletionTakesAll, IndexIsLive,
         OneLivePerContent, CompletedIsSearchable, Recorded, Live, Busy, Idle, Enqueueing
<1> QED
  BY <1>1, TypeCorrect, PipelineStep, PTL DEF Spec

-----------------------------------------------------------------------------
(* What follows from the invariant                                         *)

\* FR-15: after DELETE nothing of a document is left and nothing returns,
\* whatever fails, and however often its job is delivered.
THEOREM DeletionLeavesNothing == Spec => []DeletedLeavesNothing
<1>1. PipelineInv => DeletedLeavesNothing
  BY DEF PipelineInv, DeletionTakesAll, DeletedLeavesNothing
<1> QED
  BY <1>1, PipelineInvariant, PTL

\* AC-4: the passages of a content are never stored twice.
THEOREM ContentIndexedOnce == Spec => []OneIndexPerContent
<1>1. TypeOK /\ PipelineInv => OneIndexPerContent
  BY DEF TypeOK, PipelineInv, IndexIsLive, OneLivePerContent, OneIndexPerContent
<1> QED
  BY <1>1, TypeCorrect, PipelineInvariant, PTL

\* A completed document has its passages and is not deleted.
THEOREM CompletedAreSearchable == Spec => []CompletedIsSearchable
<1>1. PipelineInv => CompletedIsSearchable
  BY DEF PipelineInv
<1> QED
  BY <1>1, PipelineInvariant, PTL

\* No step but a failed enqueue's touches a deleted document's row.
THEOREM WorkersNeverRevive == Spec => WorkerNeverRevives
<1>1. TypeOK /\ PipelineInv /\ [Next]_vars =>
        [\A d \in Docs :
           deletedAt[d] => \/ deletedAt'[d] /\ docStatus'[d] = docStatus[d]
                           \/ deletedAt'[d] /\ upload[d] = "enqueue_failed"]_vars
  <2> SUFFICES ASSUME TypeOK, PipelineInv, Next, NEW d \in Docs, deletedAt[d]
               PROVE  \/ deletedAt'[d] /\ docStatus'[d] = docStatus[d]
                      \/ deletedAt'[d] /\ upload[d] = "enqueue_failed"
    OBVIOUS
  <2> USE DEF TypeOK, docVars, taskVars, rowVars, queueVars
  <2>1. d \notin deleting /\ Recorded(d) /\ upload[d] \notin Unrecorded
    BY DEF PipelineInv, DeletionTakesAll, RequestsKnowRows, Live
  <2>2. ASSUME NEW u \in Docs, UploadStep(u) \/ EnqueueReplyLost(u) \/ UploadLost(u)
        PROVE  \/ deletedAt'[d] /\ docStatus'[d] = docStatus[d]
               \/ deletedAt'[d] /\ upload[d] = "enqueue_failed"
    BY <2>1, <2>2 DEF UploadStep, Deduplicate, MissesDuplicate, PutFile, CommitUpload,
       CommitConflicts, ResolveConflict, EnqueueJob, EnqueueFails, RecordEnqueueFailure,
       EnqueueReplyLost, UploadLost, SetRows, Unrecorded
  <2>3. ASSUME NEW e \in Docs, DeleteFile(e) \/ CommitDelete(e) \/ DeleteLost(e)
        PROVE  deletedAt'[d] /\ docStatus'[d] = docStatus[d]
    BY <2>1, <2>3 DEF DeleteFile, CommitDelete, DeleteLost
  <2>4. ASSUME NEW r \in Runs, WorkerStep(r)
        PROVE  deletedAt'[d] /\ docStatus'[d] = docStatus[d]
    BY <2>4 DEF WorkerStep, NoticeDeleted, CancelDeleted, AlreadyCompleted, Claim, Fetch,
       Process, Persist, PersistFails, RecordFailure, FinishJob, RequeueJob, SetRows, Gone
  <2>5. ASSUME \/ \E r \in Runs, e \in Docs : StartJob(r, e)
               \/ \E e \in Docs : DropJob(e) \/ LeaseExpires(e) \/ DuplicateDelivery(e)
               \/ \E r \in Runs : WorkerCrash(r) \/ AbortJob(r)
               \/ RedisRestart
        PROVE  deletedAt'[d] /\ docStatus'[d] = docStatus[d]
    BY <2>5 DEF StartJob, DropJob, LeaseExpires, DuplicateDelivery, WorkerCrash, AbortJob,
       RedisRestart
  <2> QED
    BY <2>2, <2>3, <2>4, <2>5 DEF Next
<1> QED
  BY <1>1, TypeCorrect, PipelineInvariant, PTL DEF Spec, WorkerNeverRevives

\* Document and task row agree until the document is deleted.
THEOREM RowsAlwaysAgree == Spec => []RowsAgree
<1>1. Init => RowsAgree
  BY DEF Init, RowsAgree
<1>2. TypeOK /\ PipelineInv /\ RowsAgree /\ [Next]_vars => RowsAgree'
  <2> SUFFICES ASSUME TypeOK, PipelineInv, RowsAgree, [Next]_vars
               PROVE  RowsAgree'
    OBVIOUS
  <2> USE DEF TypeOK, RowsAgree, docVars, taskVars, rowVars, queueVars
  <2>1. ASSUME NEW u \in Docs, UploadStep(u) \/ EnqueueReplyLost(u) \/ UploadLost(u)
        PROVE  RowsAgree'
    BY <2>1 DEF UploadStep, Deduplicate, MissesDuplicate, PutFile, CommitUpload,
       CommitConflicts, ResolveConflict, EnqueueJob, EnqueueFails, RecordEnqueueFailure,
       EnqueueReplyLost, UploadLost, SetRows
  <2>2. ASSUME NEW e \in Docs, DeleteFile(e) \/ CommitDelete(e) \/ DeleteLost(e)
        PROVE  RowsAgree'
    BY <2>2 DEF DeleteFile, CommitDelete, DeleteLost
  <2>3. ASSUME NEW r \in Runs, WorkerStep(r)
        PROVE  RowsAgree'
    <3>1. Gone(run[r].doc) /\ run[r].doc \in Docs => deletedAt[run[r].doc]
      BY DEF Gone, PipelineInv, DeletionTakesAll
    <3>2. Busy(r)
      BY <2>3 DEF WorkerStep, Busy, NoticeDeleted, AlreadyCompleted, Claim, Fetch, Process,
                  Persist, PersistFails, RecordFailure, FinishJob, RequeueJob, RunAt, FailureState
    <3> QED
      BY <2>3, <3>1, <3>2, BusyRunType DEF WorkerStep, NoticeDeleted, CancelDeleted,
         AlreadyCompleted, Claim, Fetch, Process, Persist, PersistFails, RecordFailure,
         FinishJob, RequeueJob, SetRows
  <2>4. ASSUME \/ \E r \in Runs, e \in Docs : StartJob(r, e)
               \/ \E e \in Docs : DropJob(e) \/ LeaseExpires(e) \/ DuplicateDelivery(e)
               \/ \E r \in Runs : WorkerCrash(r) \/ AbortJob(r)
               \/ RedisRestart
               \/ UNCHANGED vars
        PROVE  RowsAgree'
    BY <2>4 DEF StartJob, DropJob, LeaseExpires, DuplicateDelivery, WorkerCrash, AbortJob,
       RedisRestart, vars
  <2> QED
    BY <2>1, <2>2, <2>3, <2>4 DEF Next
<1> QED
  BY <1>1, <1>2, TypeCorrect, PipelineInvariant, PTL DEF Spec

\* FR-16: the outcome that the rows show has its audit event, whatever fails.
THEOREM AuditTrailIsComplete == Spec => []AuditTrailComplete
<1>1. Init => AuditTrailComplete
  BY DEF Init, AuditTrailComplete, Recorded
<1>2. TypeOK /\ PipelineInv /\ AuditTrailComplete /\ [Next]_vars => AuditTrailComplete'
  <2> SUFFICES ASSUME TypeOK, PipelineInv, AuditTrailComplete, [Next]_vars
               PROVE  AuditTrailComplete'
    OBVIOUS
  <2> USE DEF TypeOK, AuditTrailComplete, Recorded, Audited, docVars, taskVars, rowVars, queueVars
  <2>1. ASSUME NEW u \in Docs, UploadStep(u) \/ EnqueueReplyLost(u) \/ UploadLost(u)
        PROVE  AuditTrailComplete'
    <3>1. upload[u] \in Enqueueing => Recorded(u)
      BY DEF PipelineInv, RequestsKnowRows
    <3>2. CASE Deduplicate(u)
      BY <3>2 DEF Deduplicate
    <3>3. CASE CommitUpload(u)
      BY <3>3 DEF CommitUpload
    <3>4. CASE RecordEnqueueFailure(u)
      BY <3>1, <3>4 DEF RecordEnqueueFailure, SetRows, Enqueueing
    <3>5. ASSUME UNCHANGED rowVars PROVE AuditTrailComplete'
      BY <3>5
    <3> QED
      BY <2>1, <3>2, <3>3, <3>4, <3>5 DEF UploadStep, MissesDuplicate, PutFile,
         CommitConflicts, ResolveConflict, EnqueueJob, EnqueueFails, EnqueueReplyLost, UploadLost
  <2>2. ASSUME NEW e \in Docs, DeleteFile(e) \/ CommitDelete(e) \/ DeleteLost(e)
        PROVE  AuditTrailComplete'
    <3>1. e \in deleting => Recorded(e)
      BY DEF PipelineInv, DeletionTakesAll, Live
    <3> QED
      BY <2>2, <3>1 DEF DeleteFile, CommitDelete, DeleteLost
  <2>3. ASSUME NEW r \in Runs, WorkerStep(r)
        PROVE  AuditTrailComplete'
    <3>1. Busy(r)
      BY <2>3 DEF WorkerStep, Busy, NoticeDeleted, AlreadyCompleted, Claim, Fetch, Process,
                  Persist, PersistFails, RecordFailure, FinishJob, RequeueJob, RunAt, FailureState
    <3>2. run[r].doc \in Docs /\ Recorded(run[r].doc)
      BY <3>1, BusyRunType DEF PipelineInv, WorkIsRecorded
    <3>3. CASE NoticeDeleted(r)
      BY <3>2, <3>3 DEF NoticeDeleted, CancelDeleted
    <3>4. CASE Claim(r)
      BY <3>2, <3>4 DEF Claim, SetRows
    <3>5. CASE Persist(r)
      BY <3>2, <3>5 DEF Persist, SetRows
    <3>6. CASE RecordFailure(r)
      BY <3>2, <3>6 DEF RecordFailure, SetRows, FailureCode
    <3> QED
      BY <2>3, <3>3, <3>4, <3>5, <3>6 DEF WorkerStep, AlreadyCompleted, Fetch, Process,
         PersistFails, FinishJob, RequeueJob
  <2>4. ASSUME \/ \E r \in Runs, e \in Docs : StartJob(r, e)
               \/ \E e \in Docs : DropJob(e) \/ LeaseExpires(e) \/ DuplicateDelivery(e)
               \/ \E r \in Runs : WorkerCrash(r) \/ AbortJob(r)
               \/ RedisRestart
               \/ UNCHANGED vars
        PROVE  AuditTrailComplete'
    BY <2>4 DEF StartJob, DropJob, LeaseExpires, DuplicateDelivery, WorkerCrash, AbortJob,
       RedisRestart, vars
  <2> QED
    BY <2>1, <2>2, <2>3, <2>4 DEF Next
<1> QED
  BY <1>1, <1>2, TypeCorrect, PipelineInvariant, PTL DEF Spec

-----------------------------------------------------------------------------
(* Attempts.  A delivery pays for one claim: until the run it started has   *)
(* claimed the task, the payment is outstanding.                            *)

Claiming(d) == {r \in Runs : run[r].pc = "claim" /\ run[r].doc = d}

AttemptsPaid ==
    \A d \in Docs : attempts[d] + Cardinality(Claiming(d)) <= tries[d] /\ tries[d] <= MaxTries

LEMMA ClaimingFinite ==
    ASSUME NEW d
    PROVE  IsFiniteSet(Claiming(d)) /\ Cardinality(Claiming(d)) \in Nat
BY RunsAssumption, FS_Subset, FS_CardinalityType DEF Claiming

\* A run that was already claiming may stop, no other starts.
LEMMA NoNewClaim ==
    ASSUME TypeOK, AttemptsPaid, attempts' = attempts, tries' = tries,
           \A r \in Runs : run'[r] = run[r] \/ run'[r].pc # "claim"
    PROVE  AttemptsPaid'
<1> SUFFICES ASSUME NEW d \in Docs
             PROVE  attempts[d] + Cardinality(Claiming(d)') <= tries[d] /\ tries[d] <= MaxTries
  BY DEF AttemptsPaid
<1>1. Claiming(d)' \subseteq Claiming(d)
  BY DEF Claiming
<1>2. Cardinality(Claiming(d)') <= Cardinality(Claiming(d)) /\ Cardinality(Claiming(d)') \in Nat
  BY <1>1, ClaimingFinite, FS_Subset, FS_CardinalityType
<1> QED
  BY <1>2, ClaimingFinite, LimitsAssumption DEF AttemptsPaid, TypeOK

LEMMA AttemptsStep == TypeOK /\ AttemptsPaid /\ [Next]_vars => AttemptsPaid'
<1> SUFFICES ASSUME TypeOK, AttemptsPaid, [Next]_vars
             PROVE  AttemptsPaid'
  OBVIOUS
<1> USE DEF docVars, taskVars, rowVars, queueVars
<1>1. ASSUME NEW r \in Runs, NEW d \in Docs, StartJob(r, d)
      PROVE  AttemptsPaid'
  <2>1. /\ run' = [run EXCEPT ![r] = At("claim", d, 0)]
        /\ tries' = [tries EXCEPT ![d] = @ + 1]
        /\ attempts' = attempts
        /\ tries[d] < MaxTries
    BY <1>1 DEF StartJob, HasTriesLeft
  <2>2. Claiming(d)' \subseteq Claiming(d) \cup {r}
    BY <2>1 DEF Claiming, At, TypeOK
  <2>3. \A e \in Docs : e # d => Claiming(e)' \subseteq Claiming(e)
    BY <2>1 DEF Claiming, At, TypeOK
  <2>4. Cardinality(Claiming(d)') \in Nat /\ Cardinality(Claiming(d)') <= Cardinality(Claiming(d)) + 1
    <3>1. /\ IsFiniteSet(Claiming(d) \cup {r})
          /\ Cardinality(Claiming(d) \cup {r}) <= Cardinality(Claiming(d)) + 1
          /\ Cardinality(Claiming(d) \cup {r}) \in Nat
      <4>1. IsFiniteSet(Claiming(d)) /\ Cardinality(Claiming(d)) \in Nat
        BY ClaimingFinite
      <4>2. /\ IsFiniteSet(Claiming(d) \cup {r})
            /\ Cardinality(Claiming(d) \cup {r}) =
                 IF r \in Claiming(d) THEN Cardinality(Claiming(d)) ELSE Cardinality(Claiming(d)) + 1
        BY <4>1, FS_AddElement, Zenon
      <4> QED
        BY <4>1, <4>2
    <3>2. IsFiniteSet(Claiming(d)') /\ Cardinality(Claiming(d)') <= Cardinality(Claiming(d) \cup {r})
      BY <2>2, <3>1, FS_Subset
    <3>3. Cardinality(Claiming(d)') \in Nat
      BY <3>2, FS_CardinalityType
    <3>4. Cardinality(Claiming(d)) \in Nat
      BY ClaimingFinite
    <3> QED
      BY <3>1, <3>2, <3>3, <3>4
  <2>5. \A e \in Docs : e # d => /\ Cardinality(Claiming(e)') \in Nat
                                 /\ Cardinality(Claiming(e)') <= Cardinality(Claiming(e))
    BY <2>3, ClaimingFinite, FS_Subset, FS_CardinalityType
  <2> QED
    BY <2>1, <2>4, <2>5, ClaimingFinite, LimitsAssumption DEF AttemptsPaid, TypeOK
<1>2. ASSUME NEW r \in Runs, Claim(r)
      PROVE  AttemptsPaid'
  <2>1. PICK d \in Docs : d = run[r].doc
    BY <1>2, BusyRunType DEF Claim, RunAt, Busy
  <2>2. /\ run' = [run EXCEPT ![r] = At("fetch", d, attempts[d] + 1)]
        /\ attempts' = [attempts EXCEPT ![d] = @ + 1]
        /\ tries' = tries
        /\ r \in Claiming(d)
    BY <1>2, <2>1 DEF Claim, RunAt, Claiming
  <2>3. Claiming(d)' = Claiming(d) \ {r}
    BY <2>2 DEF Claiming, At, TypeOK
  <2>4. \A e \in Docs : e # d => Claiming(e)' = Claiming(e)
    BY <2>2 DEF Claiming, At, TypeOK
  <2>5. Cardinality(Claiming(d)') = Cardinality(Claiming(d)) - 1
    BY <2>2, <2>3, ClaimingFinite, FS_RemoveElement, Zenon
  <2>6. SUFFICES ASSUME NEW e \in Docs
                 PROVE  attempts'[e] + Cardinality(Claiming(e)') <= tries[e] /\ tries[e] <= MaxTries
    BY <2>2 DEF AttemptsPaid
  <2>7. Cardinality(Claiming(e)) \in Nat
    BY ClaimingFinite
  <2>8. CASE e = d
    BY <2>1, <2>2, <2>5, <2>7, <2>8 DEF AttemptsPaid, TypeOK
  <2>9. CASE e # d
    BY <2>1, <2>2, <2>4, <2>9 DEF AttemptsPaid, TypeOK
  <2> QED
    BY <2>8, <2>9
<1>3. ASSUME NEW r \in Runs, WorkerStep(r), ~Claim(r)
      PROVE  AttemptsPaid'
  <2>1. attempts' = attempts /\ tries' = tries
    BY <1>3 DEF WorkerStep, NoticeDeleted, CancelDeleted, AlreadyCompleted, Fetch, Process,
                Persist, PersistFails, RecordFailure, FinishJob, RequeueJob
  <2>2. \E pc \in RunState \ {"claim"} : run' = [run EXCEPT ![r] = Idle] \/ Continue(r, pc)
    BY <1>3 DEF WorkerStep, NoticeDeleted, CancelDeleted, AlreadyCompleted, Fetch, Process,
                Persist, PersistFails, RecordFailure, FinishJob, RequeueJob, RunState, FailureState
  <2>3. \A s \in Runs : run'[s] = run[s] \/ run'[s].pc # "claim"
    BY <2>2 DEF TypeOK, Continue, At, Idle
  <2> QED
    BY <2>1, <2>3, NoNewClaim
<1>4. ASSUME NEW r \in Runs, WorkerCrash(r) \/ AbortJob(r)
      PROVE  AttemptsPaid'
  <2>1. \A s \in Runs : run'[s] = run[s] \/ run'[s].pc # "claim"
    BY <1>4 DEF TypeOK, WorkerCrash, AbortJob, Idle
  <2> QED
    BY <1>4, <2>1, NoNewClaim DEF WorkerCrash, AbortJob
<1>5. ASSUME \/ \E u \in Docs : UploadStep(u) \/ EnqueueReplyLost(u) \/ UploadLost(u)
             \/ \E d \in Docs : DeleteFile(d) \/ CommitDelete(d) \/ DeleteLost(d)
             \/ \E d \in Docs : DropJob(d) \/ LeaseExpires(d) \/ DuplicateDelivery(d)
             \/ RedisRestart
             \/ UNCHANGED vars
      PROVE  AttemptsPaid'
  <2>1. run' = run /\ attempts' = attempts /\ tries' = tries
    BY <1>5 DEF UploadStep, Deduplicate, MissesDuplicate, PutFile, CommitUpload,
       CommitConflicts, ResolveConflict, EnqueueJob, EnqueueFails, RecordEnqueueFailure,
       EnqueueReplyLost, UploadLost, DeleteFile, CommitDelete, DeleteLost, DropJob,
       LeaseExpires, DuplicateDelivery, RedisRestart, vars
  <2> QED
    BY <2>1, NoNewClaim
<1> QED
  BY <1>1, <1>2, <1>3, <1>4, <1>5 DEF Next

\* FR-7: a document is attempted at most once per delivery, and delivered at
\* most max_tries times, through crashes, lost leases and late runs.
THEOREM AttemptsAreBounded == Spec => []AttemptsBounded
<1>1. Init => AttemptsPaid
  <2> SUFFICES ASSUME Init, NEW d \in Docs
               PROVE  attempts[d] + Cardinality(Claiming(d)) <= tries[d] /\ tries[d] <= MaxTries
    BY DEF AttemptsPaid
  <2>1. Claiming(d) = {}
    BY DEF Init, Claiming, Idle
  <2> QED
    BY <2>1, FS_EmptySet, LimitsAssumption DEF Init
<1>2. TypeOK /\ AttemptsPaid => AttemptsBounded
  BY ClaimingFinite, LimitsAssumption DEF TypeOK, AttemptsPaid, AttemptsBounded
<1> QED
  BY <1>1, <1>2, TypeCorrect, AttemptsStep, PTL DEF Spec

=============================================================================
