---------------------- MODULE DocumentRefinementProofs ----------------------
(***************************************************************************)
(* DocumentPipeline implements DocumentLifecycle, for every set of         *)
(* documents, contents and runs: with every fault but a second delivery    *)
(* and a lost reply, up to failed documents taken up again; without any    *)
(* fault, strictly.                                                        *)
(***************************************************************************)
EXTENDS DocumentPipelineProofs

-----------------------------------------------------------------------------
(* One delivery at a time                                                  *)

OneDelivery == FaultKinds \cap {"duplicate", "lostreply"} = {}

\* No two runs work on one document: the job of a busy run is leased, or gone
\* from the queue for good.
OneRunPerJob ==
    /\ \A r, s \in Runs : Busy(r) /\ Busy(s) /\ run[r].doc = run[s].doc => r = s
    /\ \A r \in Runs : Busy(r) => run[r].doc \in leases \/ run[r].doc \notin jobs

\* A job is enqueued once, by a request that is then answered.
JobsAreAnswered ==
    /\ \A d \in jobs : upload[d] = "accepted"
    /\ \A r \in Runs : Busy(r) => upload[run[r].doc] = "accepted"

\* Until its job is enqueued nobody takes a document up.
QueuedUntilEnqueued ==
    \A d \in Docs : upload[d] \in Enqueueing => docStatus[d] = "queued" \/ deletedAt[d]

\* From its claim to its outcome a run owns the status of its document.
Owning == {"fetch", "process", "persist"} \cup FailureState
RunOwnsDocument ==
    \A r \in Runs :
        run[r].pc \in Owning => docStatus[run[r].doc] = "processing" \/ deletedAt[run[r].doc]

DeliveryInv == OneRunPerJob /\ JobsAreAnswered /\ QueuedUntilEnqueued /\ RunOwnsDocument

\* Every step keeps one run per job and each run its document.
LEMMA DeliveryStep ==
    ASSUME OneDelivery, TypeOK, PipelineInv, DeliveryInv, [Next]_vars
    PROVE  DeliveryInv'
<1> USE DEF docVars, taskVars, rowVars, queueVars, DeliveryInv, OneRunPerJob,
            JobsAreAnswered, QueuedUntilEnqueued, RunOwnsDocument, Owning, FailureState, Busy
<1>1. ASSUME NEW u \in Docs, UploadStep(u) \/ EnqueueReplyLost(u) \/ UploadLost(u)
      PROVE  DeliveryInv'
  <2> USE DEF TypeOK, Unrecorded, Enqueueing, Answers, Goto
  <2>1. CASE Deduplicate(u)           BY <2>1 DEF Deduplicate
  <2>2. CASE MissesDuplicate(u)       BY <2>2 DEF MissesDuplicate
  <2>3. CASE PutFile(u)               BY <2>3 DEF PutFile
  <2>4. CASE CommitUpload(u)
    BY <2>4 DEF CommitUpload, PipelineInv, RequestsKnowRows, WorkIsRecorded, Recorded
  <2>5. CASE CommitConflicts(u)       BY <2>5 DEF CommitConflicts
  <2>6. CASE ResolveConflict(u)       BY <2>6 DEF ResolveConflict
  <2>7. CASE EnqueueJob(u)            BY <2>7 DEF EnqueueJob
  <2>8. CASE EnqueueFails(u)          BY <2>8 DEF EnqueueFails
  <2>9. CASE RecordEnqueueFailure(u)  BY <2>9 DEF RecordEnqueueFailure, SetRows
  <2>10. CASE EnqueueReplyLost(u)     BY <2>10 DEF EnqueueReplyLost, Fault, OneDelivery
  <2>11. CASE UploadLost(u)           BY <2>11 DEF UploadLost
  <2> QED
    BY <1>1, <2>1, <2>2, <2>3, <2>4, <2>5, <2>6, <2>7, <2>8, <2>9, <2>10, <2>11
       DEF UploadStep
<1>2. ASSUME NEW d \in Docs, DeleteFile(d) \/ CommitDelete(d) \/ DeleteLost(d)
      PROVE  DeliveryInv'
  <2>1. CASE DeleteFile(d)    BY <2>1 DEF TypeOK, DeleteFile
  <2>2. CASE CommitDelete(d)  BY <2>2 DEF TypeOK, CommitDelete
  <2>3. CASE DeleteLost(d)    BY <2>3 DEF TypeOK, DeleteLost
  <2> QED
    BY <1>2, <2>1, <2>2, <2>3
<1>3. ASSUME NEW r \in Runs, NEW d \in Docs, StartJob(r, d)
      PROVE  DeliveryInv'
  BY <1>3 DEF TypeOK, StartJob, At
<1>4. ASSUME NEW d \in Docs, DropJob(d) \/ LeaseExpires(d) \/ DuplicateDelivery(d)
      PROVE  DeliveryInv'
  BY <1>4 DEF DropJob, LeaseExpires, DuplicateDelivery, Fault, OneDelivery
<1>5. ASSUME NEW r \in Runs, WorkerCrash(r) \/ AbortJob(r)
      PROVE  DeliveryInv'
  <2>1. CASE WorkerCrash(r)  BY <2>1, SMTT(30) DEF TypeOK, WorkerCrash, Idle
  <2>2. CASE AbortJob(r)     BY <2>2, SMTT(30) DEF TypeOK, AbortJob, Idle
  <2> QED
    BY <1>5, <2>1, <2>2
<1>6. ASSUME NEW r \in Runs, WorkerStep(r)
      PROVE  DeliveryInv'
  <2>1. Busy(r)
    BY <1>6 DEF WorkerStep, NoticeDeleted, AlreadyCompleted, Claim, Fetch, Process,
                Persist, PersistFails, RecordFailure, FinishJob, RequeueJob, RunAt
  <2>2. run[r].doc \in Docs
    BY <2>1, BusyRunType
  <2> USE DEF TypeOK, Continue, At, Enqueueing
  <2>3. CASE NoticeDeleted(r)     BY <2>1, <2>2, <2>3 DEF NoticeDeleted, CancelDeleted
  <2>4. CASE AlreadyCompleted(r)  BY <2>1, <2>2, <2>4 DEF AlreadyCompleted
  <2>5. CASE Claim(r)             BY <2>1, <2>2, <2>5 DEF Claim, RunAt, SetRows
  <2>6. CASE Fetch(r)             BY <2>1, <2>2, <2>6 DEF Fetch
  <2>7. CASE Process(r)           BY <2>1, <2>2, <2>7 DEF Process
  <2>8. CASE Persist(r)           BY <2>1, <2>2, <2>8 DEF Persist, SetRows
  <2>9. CASE PersistFails(r)      BY <2>1, <2>2, <2>9 DEF PersistFails
  <2>10. CASE RecordFailure(r)    BY <2>1, <2>2, <2>10 DEF RecordFailure, SetRows
  <2>11. CASE FinishJob(r)        BY <2>1, <2>2, <2>11 DEF FinishJob, Idle
  <2>12. CASE RequeueJob(r)       BY <2>1, <2>2, <2>12 DEF RequeueJob, Idle
  <2> QED
    BY <1>6, <2>3, <2>4, <2>5, <2>6, <2>7, <2>8, <2>9, <2>10, <2>11, <2>12 DEF WorkerStep
<1>7. CASE RedisRestart
  BY <1>7 DEF RedisRestart
<1>8. CASE UNCHANGED vars
  BY <1>8 DEF vars
<1> QED
  BY <1>1, <1>2, <1>3, <1>4, <1>5, <1>6, <1>7, <1>8 DEF Next

\* Runs of one job never overlap when ARQ never delivers it a second time.
THEOREM DeliveryInvariant ==
    ASSUME OneDelivery
    PROVE  Spec => []DeliveryInv
<1>1. Init => DeliveryInv
  BY DEF Init, DeliveryInv, OneRunPerJob, JobsAreAnswered, QueuedUntilEnqueued,
         RunOwnsDocument, Owning, FailureState, Busy, Idle, Enqueueing
<1>2. TypeOK /\ PipelineInv /\ DeliveryInv /\ [Next]_vars => DeliveryInv'
  BY DeliveryStep
<1> QED
  BY <1>1, <1>2, TypeCorrect, PipelineInvariant, PTL DEF Spec

-----------------------------------------------------------------------------
(* Refinement                                                              *)

\* What one step may do to the stage of one document.
Moves == {<<"none", "pending">>, <<"pending", "completed">>, <<"pending", "failed">>,
          <<"pending", "gone">>, <<"completed", "gone">>, <<"failed", "gone">>}
Reopens == {<<"failed", "pending">>}

LifecycleStep(moves) ==
    \E d \in Docs : /\ <<Stage(d), Stage(d)'>> \in moves \cup {<<Stage(d), Stage(d)>>}
                    /\ \A e \in Docs \ {d} : Stage(e)' = Stage(e)

\* A step that moves one document is a step of the lifecycle.
LEMMA MoveRefines ==
    ASSUME LifecycleStep(Moves)
    PROVE  [Lifecycle!Next]_([d \in Docs |-> Stage(d)])
<1>1. PICK d \in Docs : /\ <<Stage(d), Stage(d)'>> \in Moves \cup {<<Stage(d), Stage(d)>>}
                        /\ \A e \in Docs \ {d} : Stage(e)' = Stage(e)
  BY DEF LifecycleStep
<1> DEFINE stage == [e \in Docs |-> Stage(e)]
<1>2. \A to : Stage(d)' = to => stage' = [stage EXCEPT ![d] = to]
  BY <1>1
<1>3. CASE <<Stage(d), Stage(d)'>> \in Moves
  BY <1>2, <1>3 DEF Moves, Lifecycle!Next, Lifecycle!Record, Lifecycle!Settle,
     Lifecycle!Remove, Lifecycle!Move
<1>4. CASE Stage(d)' = Stage(d)
  BY <1>1, <1>4
<1> QED
  BY <1>1, <1>3, <1>4

\* So is one that takes a failed document up again, of the lifecycle with
\* redelivery.
LEMMA MoveRefinesRedelivery ==
    ASSUME LifecycleStep(Moves \cup Reopens)
    PROVE  [Lifecycle!Next \/ \E d \in Docs : Lifecycle!Reopen(d)]_([d \in Docs |-> Stage(d)])
<1>1. PICK d \in Docs : /\ <<Stage(d), Stage(d)'>> \in Moves \cup Reopens \cup {<<Stage(d), Stage(d)>>}
                        /\ \A e \in Docs \ {d} : Stage(e)' = Stage(e)
  BY DEF LifecycleStep
<1> DEFINE stage == [e \in Docs |-> Stage(e)]
<1>2. \A to : Stage(d)' = to => stage' = [stage EXCEPT ![d] = to]
  BY <1>1
<1>3. CASE <<Stage(d), Stage(d)'>> \in Reopens
  BY <1>2, <1>3 DEF Reopens, Lifecycle!Reopen, Lifecycle!Move
<1>4. CASE <<Stage(d), Stage(d)'>> \in Moves \cup {<<Stage(d), Stage(d)>>}
  BY <1>1, <1>4, MoveRefines DEF LifecycleStep
<1> QED
  BY <1>1, <1>3, <1>4

\* Only the rows of the document a step is about change.
LEMMA StageOfOthers ==
    ASSUME TypeOK, NEW d \in Docs, NEW moves,
           \A e \in Docs \ {d} : docStatus'[e] = docStatus[e] /\ deletedAt'[e] = deletedAt[e],
           <<Stage(d), Stage(d)'>> \in moves \cup {<<Stage(d), Stage(d)>>}
    PROVE  LifecycleStep(moves)
BY DEF LifecycleStep, Stage, Recorded

\* Every step but a claim moves one document as the lifecycle says, or none.
LEMMA StepMoves ==
    ASSUME TypeOK, PipelineInv, DeliveryInv, [Next]_vars
    PROVE  \/ LifecycleStep(Moves)
           \/ UNCHANGED <<docStatus, deletedAt>>
           \/ \E r \in Runs : Claim(r)
<1> USE DEF docVars, taskVars, rowVars, queueVars
<1>1. ASSUME NEW u \in Docs, CommitUpload(u)
      PROVE  LifecycleStep(Moves)
  <2>1. Stage(u) = "none" /\ Stage(u)' = "pending"
    BY <1>1 DEF CommitUpload, PipelineInv, RequestsKnowRows, DeletionTakesAll, Unrecorded,
                Stage, Recorded, TypeOK
  <2> QED
    BY <1>1, <2>1, StageOfOthers DEF CommitUpload, Moves, TypeOK
<1>2. ASSUME NEW u \in Docs, RecordEnqueueFailure(u)
      PROVE  LifecycleStep(Moves)
  <2>0. /\ docStatus'[u] = "failed" /\ deletedAt'[u] = deletedAt[u]
        /\ docStatus[u] = "queued" \/ deletedAt[u]
        /\ docStatus[u] # "absent"
    BY <1>2 DEF RecordEnqueueFailure, SetRows, DeliveryInv, QueuedUntilEnqueued, Enqueueing,
                PipelineInv, DeletionTakesAll, RequestsKnowRows, Recorded, TypeOK
  <2>1. \/ Stage(u) = "pending" /\ Stage(u)' = "failed"
        \/ Stage(u) = "gone" /\ Stage(u)' = "gone"
    <3>1. CASE deletedAt[u]
      BY <2>0, <3>1 DEF Stage, Recorded
    <3>2. CASE ~deletedAt[u]
      BY <2>0, <3>2 DEF Stage, Recorded, TypeOK
    <3> QED
      BY <3>1, <3>2
  <2> QED
    BY <1>2, <2>1, StageOfOthers DEF RecordEnqueueFailure, SetRows, Moves, TypeOK
<1>3. ASSUME NEW d \in Docs, CommitDelete(d)
      PROVE  LifecycleStep(Moves)
  <2>1. Stage(d) \in {"pending", "completed", "failed"} /\ Stage(d)' = "gone"
    BY <1>3 DEF CommitDelete, PipelineInv, DeletionTakesAll, Live, DocumentStatus,
                Stage, Recorded, TypeOK
  <2> QED
    BY <1>3, <2>1, StageOfOthers DEF CommitDelete, Moves, TypeOK
<1>4. ASSUME NEW r \in Runs, Persist(r) \/ RecordFailure(r)
      PROVE  LifecycleStep(Moves)
  <2>0. Busy(r) /\ run[r].pc \in Owning /\ ~Gone(run[r].doc)
    BY <1>4 DEF Persist, RecordFailure, RunAt, Busy, FailureState, Owning
  <2> PICK d \in Docs : d = run[r].doc
    BY <2>0, BusyRunType
  <2>1. docStatus[d] = "processing" /\ ~deletedAt[d]
    BY <2>0 DEF Gone, DeliveryInv, RunOwnsDocument
  <2>2. Stage(d) = "pending" /\ Stage(d)' \in {"pending", "completed", "failed"}
    BY <1>4, <2>1 DEF Persist, RecordFailure, SetRows, Stage, Recorded, TypeOK
  <2>3. \A e \in Docs \ {d} : docStatus'[e] = docStatus[e] /\ deletedAt'[e] = deletedAt[e]
    BY <1>4, <2>1 DEF Persist, RecordFailure, SetRows, TypeOK
  <2>4. <<Stage(d), Stage(d)'>> \in Moves \cup {<<Stage(d), Stage(d)>>}
    BY <2>2 DEF Moves
  <2> QED
    BY <2>1, <2>3, <2>4, StageOfOthers
<1>5. ASSUME NEW u \in Docs, UploadStep(u) \/ EnqueueReplyLost(u) \/ UploadLost(u),
             ~CommitUpload(u), ~RecordEnqueueFailure(u)
      PROVE  UNCHANGED <<docStatus, deletedAt>>
  BY <1>5 DEF UploadStep, Deduplicate, MissesDuplicate, PutFile, CommitConflicts, ResolveConflict,
     EnqueueJob, EnqueueFails, EnqueueReplyLost, UploadLost
<1>6. ASSUME NEW r \in Runs, WorkerStep(r), ~Claim(r), ~Persist(r), ~RecordFailure(r)
      PROVE  UNCHANGED <<docStatus, deletedAt>>
  BY <1>6 DEF WorkerStep, NoticeDeleted, CancelDeleted, AlreadyCompleted, Fetch, Process,
     PersistFails, FinishJob, RequeueJob
<1>7. ASSUME \/ \E d \in Docs : DeleteFile(d) \/ DeleteLost(d)
             \/ \E r \in Runs, e \in Docs : StartJob(r, e)
             \/ \E e \in Docs : DropJob(e) \/ LeaseExpires(e) \/ DuplicateDelivery(e)
             \/ \E r \in Runs : WorkerCrash(r) \/ AbortJob(r)
             \/ RedisRestart
             \/ UNCHANGED vars
      PROVE  UNCHANGED <<docStatus, deletedAt>>
  BY <1>7 DEF DeleteFile, DeleteLost, StartJob, DropJob, LeaseExpires, DuplicateDelivery,
     WorkerCrash, AbortJob, RedisRestart, vars
<1> QED
  BY <1>1, <1>2, <1>3, <1>4, <1>5, <1>6, <1>7 DEF Next

\* A claim takes up a pending document, or a failed one again.
LEMMA ClaimMoves ==
    ASSUME TypeOK, PipelineInv, NEW r \in Runs, Claim(r)
    PROVE  /\ LifecycleStep(Moves \cup Reopens)
           /\ Stage(run[r].doc) # "failed" => LifecycleStep(Moves)
<1>0. Busy(r)
  BY DEF Claim, RunAt, Busy
<1> PICK d \in Docs : d = run[r].doc
  BY <1>0, BusyRunType
<1>1. Recorded(d)
  BY <1>0 DEF PipelineInv, WorkIsRecorded
<1>2. Stage(d) \in {"pending", "failed"} /\ Stage(d)' = "pending"
  BY <1>1 DEF Claim, SetRows, Gone, Done, Stage, Recorded, TypeOK, DocumentStatus, docVars
<1>3. \A e \in Docs \ {d} : docStatus'[e] = docStatus[e] /\ deletedAt'[e] = deletedAt[e]
  BY <1>1 DEF Claim, SetRows, TypeOK
<1>4. <<Stage(d), Stage(d)'>> \in Moves \cup Reopens \cup {<<Stage(d), Stage(d)>>}
  BY <1>2 DEF Reopens
<1>5. Stage(d) # "failed" => <<Stage(d), Stage(d)'>> \in Moves \cup {<<Stage(d), Stage(d)>>}
  BY <1>2
<1>6. LifecycleStep(Moves \cup Reopens)
  BY <1>1, <1>3, <1>4, StageOfOthers
<1>7. Stage(d) # "failed" => LifecycleStep(Moves)
  BY <1>1, <1>3, <1>5, StageOfOthers
<1> QED
  BY <1>6, <1>7

\* With every fault but a second delivery and a lost reply, a document settles,
\* is never taken back once completed, and never returns once deleted.
THEOREM ImplementsRedeliveries ==
    ASSUME OneDelivery
    PROVE  Spec => ImplementsRedelivery
<1>1. Init => Lifecycle!Init
  BY DEF Init, Lifecycle!Init, Stage, Recorded
<1>2. TypeOK /\ PipelineInv /\ DeliveryInv /\ [Next]_vars =>
        [Lifecycle!Next \/ \E d \in Docs : Lifecycle!Reopen(d)]_([d \in Docs |-> Stage(d)])
  <2> SUFFICES ASSUME TypeOK, PipelineInv, DeliveryInv, [Next]_vars
               PROVE  [Lifecycle!Next \/ \E d \in Docs : Lifecycle!Reopen(d)]_([d \in Docs |-> Stage(d)])
    OBVIOUS
  <2>1. CASE UNCHANGED <<docStatus, deletedAt>>
    BY <2>1 DEF Stage, Recorded
  <2>2. ASSUME NEW r \in Runs, Claim(r)
        PROVE  LifecycleStep(Moves \cup Reopens)
    BY <2>2, ClaimMoves
  <2>3. LifecycleStep(Moves) => LifecycleStep(Moves \cup Reopens)
    BY DEF LifecycleStep
  <2> QED
    BY <2>1, <2>2, <2>3, StepMoves, MoveRefinesRedelivery
<1> QED
  BY <1>1, <1>2, TypeCorrect, PipelineInvariant, DeliveryInvariant, PTL
     DEF Spec, ImplementsRedelivery, Lifecycle!RedeliverySpec

-----------------------------------------------------------------------------
(* Completed for good                                                      *)

\* When no job is delivered twice, nothing takes a completed document back.
THEOREM CompletedStays ==
    ASSUME OneDelivery
    PROVE  Spec => CompletedIsFinal
<1>1. TypeOK /\ PipelineInv /\ DeliveryInv /\ [Next]_vars =>
        [\A d \in Docs :
           docStatus[d] = "completed" =>
             docStatus'[d] \in {"completed", "deleted"} /\ index'[d] <= index[d]]_vars
  <2> SUFFICES ASSUME TypeOK, PipelineInv, DeliveryInv, Next, NEW d \in Docs,
                      docStatus[d] = "completed"
               PROVE  docStatus'[d] \in {"completed", "deleted"} /\ index'[d] <= index[d]
    OBVIOUS
  <2> USE DEF docVars, taskVars, rowVars, queueVars
  <2>0. /\ index[d] = 1 /\ ~deletedAt[d] /\ upload[d] \notin Unrecorded \cup Enqueueing
        /\ \A r \in Runs : run[r].pc \in Owning => run[r].doc # d
    BY DEF PipelineInv, CompletedIsSearchable, RequestsKnowRows, Recorded, DeliveryInv,
           QueuedUntilEnqueued, RunOwnsDocument
  <2>1. ASSUME NEW u \in Docs, UploadStep(u) \/ EnqueueReplyLost(u) \/ UploadLost(u)
        PROVE  docStatus'[d] = "completed" /\ index' = index
    BY <2>0, <2>1 DEF TypeOK, UploadStep, Deduplicate, MissesDuplicate, PutFile, CommitUpload,
       CommitConflicts, ResolveConflict, EnqueueJob, EnqueueFails, RecordEnqueueFailure,
       EnqueueReplyLost, UploadLost, SetRows, Unrecorded, Enqueueing
  <2>2. ASSUME NEW e \in Docs, DeleteFile(e) \/ CommitDelete(e) \/ DeleteLost(e)
        PROVE  docStatus'[d] \in {"completed", "deleted"} /\ index'[d] \in {0, 1}
    BY <2>0, <2>2 DEF TypeOK, DeleteFile, CommitDelete, DeleteLost
  <2>3. ASSUME NEW r \in Runs, WorkerStep(r)
        PROVE  docStatus'[d] = "completed" /\ index'[d] = 1
    <3>1. CASE Claim(r)
      BY <2>0, <3>1 DEF TypeOK, Claim, Done, SetRows
    <3>2. CASE Persist(r) \/ RecordFailure(r)
      <4>1. run[r].doc # d
        BY <2>0, <3>2 DEF Persist, RecordFailure, RunAt, Owning
      <4> QED
        BY <2>0, <3>2, <4>1 DEF TypeOK, Persist, RecordFailure, SetRows
    <3> QED
      BY <2>0, <2>3, <3>1, <3>2 DEF WorkerStep, NoticeDeleted, CancelDeleted, AlreadyCompleted,
         Fetch, Process, PersistFails, FinishJob, RequeueJob
  <2>4. ASSUME \/ \E r \in Runs, e \in Docs : StartJob(r, e)
               \/ \E e \in Docs : DropJob(e) \/ LeaseExpires(e) \/ DuplicateDelivery(e)
               \/ \E r \in Runs : WorkerCrash(r) \/ AbortJob(r)
               \/ RedisRestart
        PROVE  docStatus'[d] = "completed" /\ index' = index
    BY <2>4 DEF StartJob, DropJob, LeaseExpires, DuplicateDelivery, WorkerCrash, AbortJob,
       RedisRestart
  <2> QED
    BY <2>0, <2>1, <2>2, <2>3, <2>4 DEF Next
<1> QED
  BY <1>1, TypeCorrect, PipelineInvariant, DeliveryInvariant, PTL DEF Spec, CompletedIsFinal

-----------------------------------------------------------------------------
(* Files                                                                   *)

NoApiFault == "api" \notin FaultKinds

\* What is about to be committed has its file, and keeps it until a deletion.
FilesInv ==
    /\ \A u \in Docs : upload[u] = "commit" => u \in files
    /\ LiveHasFile
    /\ NoOrphanFiles

LEMMA FilesStep ==
    ASSUME NoApiFault, TypeOK, PipelineInv, FilesInv, [Next]_vars
    PROVE  FilesInv'
<1> USE DEF docVars, taskVars, rowVars, queueVars, FilesInv, LiveHasFile, NoOrphanFiles,
            Live, Recorded, Unlocked
<1>1. ASSUME NEW u \in Docs, UploadStep(u) \/ EnqueueReplyLost(u) \/ UploadLost(u)
      PROVE  FilesInv'
  <2> USE DEF TypeOK, Unrecorded, Enqueueing, Answers, Goto, PipelineInv, RequestsKnowRows,
              DeletionTakesAll
  <2>1. CASE Deduplicate(u)           BY <2>1 DEF Deduplicate
  <2>2. CASE MissesDuplicate(u)       BY <2>2 DEF MissesDuplicate
  <2>3. CASE PutFile(u)               BY <2>3 DEF PutFile
  <2>4. CASE CommitUpload(u)          BY <2>4 DEF CommitUpload
  <2>5. CASE CommitConflicts(u)       BY <2>5 DEF CommitConflicts
  <2>6. CASE ResolveConflict(u)       BY <2>6 DEF ResolveConflict
  <2>7. CASE EnqueueJob(u)            BY <2>7 DEF EnqueueJob
  <2>8. CASE EnqueueFails(u)          BY <2>8 DEF EnqueueFails
  <2>9. CASE RecordEnqueueFailure(u)  BY <2>9 DEF RecordEnqueueFailure, SetRows
  <2>10. CASE EnqueueReplyLost(u)     BY <2>10 DEF EnqueueReplyLost
  <2>11. CASE UploadLost(u)           BY <2>11 DEF UploadLost, Fault, NoApiFault
  <2> QED
    BY <1>1, <2>1, <2>2, <2>3, <2>4, <2>5, <2>6, <2>7, <2>8, <2>9, <2>10, <2>11
       DEF UploadStep
<1>2. ASSUME NEW d \in Docs, DeleteFile(d) \/ CommitDelete(d) \/ DeleteLost(d)
      PROVE  FilesInv'
  <2> USE DEF TypeOK, PipelineInv, RequestsKnowRows, DeletionTakesAll, Unrecorded
  <2>1. CASE DeleteFile(d)    BY <2>1 DEF DeleteFile
  <2>2. CASE CommitDelete(d)  BY <2>2 DEF CommitDelete
  <2>3. CASE DeleteLost(d)    BY <2>3 DEF DeleteLost, Fault, NoApiFault
  <2> QED
    BY <1>2, <2>1, <2>2, <2>3
<1>3. ASSUME NEW r \in Runs, WorkerStep(r)
      PROVE  FilesInv'
  <2>1. /\ upload' = upload /\ deletedAt' = deletedAt
        /\ deleting' = deleting /\ files' = files
        /\ \A d \in Docs : Recorded(d)' => Recorded(d)
    <3>1. Busy(r)
      BY <1>3 DEF WorkerStep, Busy, NoticeDeleted, AlreadyCompleted, Claim, Fetch, Process,
                  Persist, PersistFails, RecordFailure, FinishJob, RequeueJob, RunAt, FailureState
    <3>2. run[r].doc \in Docs /\ Recorded(run[r].doc)
      BY <3>1, BusyRunType DEF PipelineInv, WorkIsRecorded
    <3> QED
      BY <1>3, <3>2 DEF TypeOK, WorkerStep, NoticeDeleted, CancelDeleted, AlreadyCompleted, Claim,
         Fetch, Process, Persist, PersistFails, RecordFailure, FinishJob, RequeueJob, SetRows
  <2>2. \A d \in Docs : Live(d) => Live(d)'
    BY <1>3, <2>1 DEF TypeOK, WorkerStep, NoticeDeleted, CancelDeleted, AlreadyCompleted, Claim,
       Fetch, Process, Persist, PersistFails, RecordFailure, FinishJob, RequeueJob, SetRows
  <2>3. LiveHasFile'
    BY <2>1
  <2>4. NoOrphanFiles'
    BY <2>1, <2>2 DEF TypeOK
  <2> QED
    BY <2>1, <2>3, <2>4
<1>4. ASSUME \/ \E r \in Runs, e \in Docs : StartJob(r, e)
             \/ \E e \in Docs : DropJob(e) \/ LeaseExpires(e) \/ DuplicateDelivery(e)
             \/ \E r \in Runs : WorkerCrash(r) \/ AbortJob(r)
             \/ RedisRestart
             \/ UNCHANGED vars
      PROVE  FilesInv'
  BY <1>4 DEF StartJob, DropJob, LeaseExpires, DuplicateDelivery, WorkerCrash, AbortJob,
     RedisRestart, vars
<1> QED
  BY <1>1, <1>2, <1>3, <1>4 DEF Next

THEOREM FilesInvariant ==
    ASSUME NoApiFault
    PROVE  Spec => []FilesInv
<1>1. Init => FilesInv
  BY DEF Init, FilesInv, LiveHasFile, NoOrphanFiles, Live, Recorded
<1>2. TypeOK /\ PipelineInv /\ FilesInv /\ [Next]_vars => FilesInv'
  BY FilesStep
<1> QED
  BY <1>1, <1>2, TypeCorrect, PipelineInvariant, PTL DEF Spec

\* While the API process lives, a document has its file until it is deleted,
\* whatever happens to the queue and the workers.
THEOREM LiveHasItsFile ==
    ASSUME NoApiFault
    PROVE  Spec => []LiveHasFile
<1>1. FilesInv => LiveHasFile
  BY DEF FilesInv
<1> QED
  BY <1>1, FilesInvariant, PTL

\* And no file is left that neither a document nor a request accounts for.
THEOREM NoFileIsOrphaned ==
    ASSUME NoApiFault
    PROVE  Spec => []NoOrphanFiles
<1>1. FilesInv => NoOrphanFiles
  BY DEF FilesInv
<1> QED
  BY <1>1, FilesInvariant, PTL

-----------------------------------------------------------------------------
(* No job is lost                                                          *)

NoFaults == FaultKinds = {} /\ MaxAttempts <= MaxTries

Pending(d) == docStatus[d] \in {"queued", "processing"}
WorkedOn(d) == \E r \in Runs : Busy(r) /\ run[r].doc = d
Working == {"claim", "retry"} \cup Owning

\* While a job is in the queue its document is pending, unless the run that
\* settled it has yet to return.
JobsOfPending ==
    /\ NoAbandonedDocument
    /\ \A d \in jobs : \/ deletedAt[d] \/ Pending(d)
                       \/ \E r \in Runs : run[r].pc = "finish" /\ run[r].doc = d
    /\ \A r \in Runs : run[r].pc \in Working => deletedAt[run[r].doc] \/ Pending(run[r].doc)
    /\ \A r \in Runs : run[r].pc = "finish" => deletedAt[run[r].doc] \/ ~Pending(run[r].doc)

\* Every delivery of a live document is one attempt, and the last attempt
\* settles it: ARQ never drops the job of a pending document.
DeliveriesAreAttempts ==
    /\ \A d \in Docs : ~Recorded(d) => tries[d] = 0 /\ attempts[d] = 0
    /\ \A d \in Docs :
          Live(d) /\ Pending(d) /\ ~WorkedOn(d) => tries[d] = attempts[d] /\ attempts[d] < MaxAttempts
    /\ \A r \in Runs :
          LET d == run[r].doc
          IN  /\ run[r].pc = "claim" => deletedAt[d] \/ tries[d] = attempts[d] + 1
              /\ run[r].pc \in Owning \cup {"retry"} =>
                    deletedAt[d] \/ (run[r].attempt = attempts[d] /\ tries[d] = attempts[d])
              /\ run[r].pc = "retry" => deletedAt[d] \/ attempts[d] < MaxAttempts

JobInv == JobsOfPending /\ DeliveriesAreAttempts

LEMMA JobStep ==
    ASSUME NoFaults, TypeOK, PipelineInv, DeliveryInv, JobInv, [Next]_vars
    PROVE  JobInv'
<1> USE LimitsAssumption
        DEF docVars, taskVars, rowVars, queueVars, JobInv, JobsOfPending, DeliveriesAreAttempts,
            NoAbandonedDocument, Pending, WorkedOn, Working, Owning, FailureState, Busy, Live,
            Recorded
<1>1. ASSUME NEW u \in Docs, UploadStep(u) \/ EnqueueReplyLost(u) \/ UploadLost(u)
      PROVE  JobInv'
  <2> USE DEF TypeOK, Unrecorded, Enqueueing, Answers, Goto
  <2>1. CASE Deduplicate(u)           BY <2>1 DEF Deduplicate
  <2>2. CASE MissesDuplicate(u)       BY <2>2 DEF MissesDuplicate
  <2>3. CASE PutFile(u)               BY <2>3 DEF PutFile
  <2>4. CASE CommitUpload(u)
    <3>1. /\ ~Recorded(u) /\ u \notin jobs
          /\ \A r \in Runs : Busy(r) => run[r].doc # u
      BY <2>4 DEF CommitUpload, PipelineInv, RequestsKnowRows, WorkIsRecorded
    <3>2. JobsOfPending'
      BY <2>4, <3>1 DEF CommitUpload
    <3>3. DeliveriesAreAttempts'
      BY <2>4, <3>1 DEF CommitUpload
    <3> QED
      BY <3>2, <3>3
  <2>5. CASE CommitConflicts(u)       BY <2>5 DEF CommitConflicts
  <2>6. CASE ResolveConflict(u)       BY <2>6 DEF ResolveConflict
  <2>7. CASE EnqueueJob(u)
    BY <2>7 DEF EnqueueJob, DeliveryInv, QueuedUntilEnqueued
  <2>8. CASE EnqueueFails(u)          BY <2>8 DEF EnqueueFails
  <2>9. CASE RecordEnqueueFailure(u)
    <3>1. /\ Recorded(u) /\ u \notin jobs
          /\ \A r \in Runs : Busy(r) => run[r].doc # u
      BY <2>9 DEF RecordEnqueueFailure, PipelineInv, RequestsKnowRows, DeliveryInv, JobsAreAnswered
    <3>2. JobsOfPending'
      BY <2>9, <3>1 DEF RecordEnqueueFailure, SetRows
    <3>3. DeliveriesAreAttempts'
      BY <2>9, <3>1 DEF RecordEnqueueFailure, SetRows
    <3> QED
      BY <3>2, <3>3
  <2>10. CASE EnqueueReplyLost(u)     BY <2>10 DEF EnqueueReplyLost, Fault, NoFaults
  <2>11. CASE UploadLost(u)           BY <2>11 DEF UploadLost, Fault, NoFaults
  <2> QED
    BY <1>1, <2>1, <2>2, <2>3, <2>4, <2>5, <2>6, <2>7, <2>8, <2>9, <2>10, <2>11
       DEF UploadStep
<1>2. ASSUME NEW d \in Docs, DeleteFile(d) \/ CommitDelete(d) \/ DeleteLost(d)
      PROVE  JobInv'
  <2>1. CASE DeleteFile(d)    BY <2>1 DEF TypeOK, DeleteFile
  <2>2. CASE CommitDelete(d)  BY <2>2 DEF TypeOK, CommitDelete
  <2>3. CASE DeleteLost(d)    BY <2>3 DEF TypeOK, DeleteLost
  <2> QED
    BY <1>2, <2>1, <2>2, <2>3
<1>3. ASSUME NEW r \in Runs, NEW d \in Docs, StartJob(r, d)
      PROVE  JobInv'
  <2>1. ~WorkedOn(d) /\ d \in jobs
    BY <1>3 DEF StartJob, DeliveryInv, OneRunPerJob
  <2>2. deletedAt[d] \/ (Pending(d) /\ tries[d] = attempts[d])
    BY <2>1 DEF PipelineInv, WorkIsRecorded
  <2>3. /\ run' = [run EXCEPT ![r] = At("claim", d, 0)] /\ run[r].pc = "idle"
        /\ tries' = [tries EXCEPT ![d] = @ + 1]
        /\ UNCHANGED <<upload, docStatus, deletedAt, attempts, jobs>>
    BY <1>3 DEF StartJob
  <2>4. JobsOfPending'
    BY <2>1, <2>2, <2>3 DEF TypeOK, At
  <2>5. DeliveriesAreAttempts'
    <3>1. Recorded(d)
      BY <2>1 DEF PipelineInv, WorkIsRecorded
    <3> QED
      BY <2>1, <2>2, <2>3, <3>1 DEF TypeOK, At
  <2> QED
    BY <2>4, <2>5
<1>4. ASSUME NEW d \in Docs, DropJob(d) \/ LeaseExpires(d) \/ DuplicateDelivery(d)
      PROVE  JobInv'
  <2>1. CASE DropJob(d)
    <3>1. ~WorkedOn(d)
      BY <2>1 DEF DropJob, DeliveryInv, OneRunPerJob
    <3>2. ~(Live(d) /\ Pending(d))
      BY <2>1, <3>1 DEF DropJob, HasTriesLeft, NoFaults, TypeOK
    <3> QED
      BY <2>1, <3>2 DEF DropJob, TypeOK
  <2>2. CASE LeaseExpires(d)
    BY <2>2 DEF LeaseExpires
  <2>3. CASE DuplicateDelivery(d)
    BY <2>3 DEF DuplicateDelivery, Fault, NoFaults
  <2> QED
    BY <1>4, <2>1, <2>2, <2>3
<1>5. ASSUME NEW r \in Runs, WorkerCrash(r) \/ AbortJob(r)
      PROVE  JobInv'
  BY <1>5 DEF WorkerCrash, AbortJob, Fault, NoFaults
<1>6. ASSUME NEW r \in Runs, WorkerStep(r)
      PROVE  JobInv'
  <2>1. Busy(r)
    BY <1>6 DEF WorkerStep, NoticeDeleted, AlreadyCompleted, Claim, Fetch, Process,
                Persist, PersistFails, RecordFailure, FinishJob, RequeueJob, RunAt
  <2>2. PICK d \in Docs : d = run[r].doc /\ run[r].attempt \in Nat /\ Recorded(d)
    BY <2>1, BusyRunType DEF PipelineInv, WorkIsRecorded
  <2>3. \A s \in Runs : Busy(s) /\ s # r => run[s].doc # d
    BY <2>1, <2>2 DEF DeliveryInv, OneRunPerJob
  <2>4. docStatus[d] = "deleted" => deletedAt[d]
    BY DEF PipelineInv, DeletionTakesAll
  <2> USE <2>1, <2>2, <2>3, <2>4 DEF TypeOK, Continue, At
  <2>5. CASE NoticeDeleted(r)
    BY <2>5 DEF NoticeDeleted, CancelDeleted, Gone
  <2>6. CASE AlreadyCompleted(r)
    BY <2>6 DEF AlreadyCompleted, Done
  <2>7. CASE Claim(r)
    <3>1. /\ run' = [run EXCEPT ![r] = At("fetch", d, attempts[d] + 1)] /\ run[r].pc = "claim"
          /\ attempts' = [attempts EXCEPT ![d] = @ + 1]
          /\ docStatus' = [docStatus EXCEPT ![d] = "processing"]
          /\ UNCHANGED <<upload, deletedAt, jobs, tries>>
      BY <2>7 DEF Claim, RunAt, SetRows
    <3>2. deletedAt[d] \/ Pending(d)
      BY <3>1
    <3>3. JobsOfPending'
      BY <3>1, <3>2
    <3>4. DeliveriesAreAttempts'
      BY <3>1, <3>2
    <3> QED
      BY <3>3, <3>4
  <2>8. CASE Fetch(r)
    <3>1. PICK pc \in {"process", "storage_failure"} :
             run' = [run EXCEPT ![r] = At(pc, d, run[r].attempt)] /\ run[r].pc = "fetch"
      BY <2>8 DEF Fetch
    <3>2. UNCHANGED <<upload, docStatus, deletedAt, attempts, tries, jobs>>
      BY <2>8 DEF Fetch
    <3>3. JobsOfPending'
      BY <3>1, <3>2
    <3>4. DeliveriesAreAttempts'
      BY <3>1, <3>2
    <3> QED
      BY <3>3, <3>4
  <2>9. CASE Process(r)           BY <2>9 DEF Process
  <2>10. CASE Persist(r)
    <3>1. /\ run' = [run EXCEPT ![r] = At("finish", d, run[r].attempt)]
          /\ docStatus' = [docStatus EXCEPT ![d] = "completed"]
          /\ UNCHANGED <<upload, deletedAt, attempts, jobs, tries>>
      BY <2>10 DEF Persist, SetRows
    <3> QED
      BY <3>1
  <2>11. CASE PersistFails(r)      BY <2>11 DEF PersistFails
  <2>12. CASE RecordFailure(r)
    <3>1. run[r].pc \in Owning
      BY <2>12 DEF RecordFailure
    <3>2. \/ /\ run' = [run EXCEPT ![r] = At("finish", d, run[r].attempt)]
             /\ docStatus' = [docStatus EXCEPT ![d] = "failed"]
          \/ /\ run' = [run EXCEPT ![r] = At("retry", d, run[r].attempt)]
             /\ docStatus' = [docStatus EXCEPT ![d] = "queued"]
             /\ run[r].attempt < MaxAttempts
      BY <2>12 DEF RecordFailure, SetRows, ShouldRetry
    <3>3. UNCHANGED <<upload, deletedAt, attempts, jobs, tries>>
      BY <2>12 DEF RecordFailure
    <3>4. deletedAt[d] \/ Pending(d)
      BY <3>1
    <3>5. JobsOfPending'
      <4>1. CASE docStatus' = [docStatus EXCEPT ![d] = "failed"]
        <5>1. run' = [run EXCEPT ![r] = At("finish", d, run[r].attempt)]
          BY <3>2, <4>1
        <5> QED
          BY <3>1, <3>3, <4>1, <5>1
      <4>2. CASE docStatus' = [docStatus EXCEPT ![d] = "queued"]
        <5>1. run' = [run EXCEPT ![r] = At("retry", d, run[r].attempt)]
          BY <3>2, <4>2
        <5> QED
          BY <3>1, <3>3, <3>4, <4>2, <5>1
      <4> QED
        BY <3>2, <4>1, <4>2
    <3>6. DeliveriesAreAttempts'
      BY <3>1, <3>2, <3>3, SMTT(30)
    <3> QED
      BY <3>5, <3>6
  <2>13. CASE FinishJob(r)
    <3>1. /\ run' = [run EXCEPT ![r] = Idle] /\ run[r].pc = "finish"
          /\ jobs' = jobs \ {d}
          /\ UNCHANGED <<upload, docStatus, deletedAt, attempts, tries>>
      BY <2>13 DEF FinishJob
    <3>2. JobsOfPending'
      BY <3>1 DEF Idle
    <3>3. DeliveriesAreAttempts'
      BY <3>1 DEF Idle
    <3> QED
      BY <3>2, <3>3
  <2>14. CASE RequeueJob(r)
    <3>1. /\ run' = [run EXCEPT ![r] = Idle] /\ run[r].pc = "retry"
          /\ UNCHANGED <<upload, docStatus, deletedAt, attempts, tries, jobs>>
      BY <2>14 DEF RequeueJob
    <3>2. JobsOfPending'
      BY <3>1 DEF Idle
    <3>3. DeliveriesAreAttempts'
      BY <3>1 DEF Idle
    <3> QED
      BY <3>2, <3>3
  <2> QED
    BY <1>6, <2>5, <2>6, <2>7, <2>8, <2>9, <2>10, <2>11, <2>12, <2>13, <2>14 DEF WorkerStep
<1>7. CASE RedisRestart
  BY <1>7 DEF RedisRestart, Fault, NoFaults
<1>8. CASE UNCHANGED vars
  BY <1>8 DEF vars
<1> QED
  BY <1>1, <1>2, <1>3, <1>4, <1>5, <1>6, <1>7, <1>8 DEF Next

\* Without faults no job of a pending document is lost or runs out of tries.
THEOREM JobInvariant ==
    ASSUME NoFaults
    PROVE  Spec => []JobInv
<1>1. OneDelivery
  BY DEF NoFaults, OneDelivery
<1>2. Spec => []DeliveryInv
  BY <1>1, DeliveryInvariant
<1>3. Init => JobInv
  BY LimitsAssumption DEF Init, JobInv, JobsOfPending, DeliveriesAreAttempts, NoAbandonedDocument,
     Pending, WorkedOn, Working, Owning, FailureState, Busy, Idle, Live, Recorded
<1>4. TypeOK /\ PipelineInv /\ DeliveryInv /\ JobInv /\ [Next]_vars => JobInv'
  BY JobStep
<1> QED
  BY <1>2, <1>3, <1>4, TypeCorrect, PipelineInvariant, PTL DEF Spec

\* So a pending document always has a job, or a request about to enqueue it.
THEOREM NothingIsAbandoned ==
    ASSUME NoFaults
    PROVE  Spec => []NoAbandonedDocument
<1>1. JobInv => NoAbandonedDocument
  BY DEF JobInv, JobsOfPending
<1> QED
  BY <1>1, JobInvariant, PTL

\* And each document settles at most once: the safety part of what the
\* pipeline implements without faults.
THEOREM ImplementsOneSettlement ==
    ASSUME NoFaults
    PROVE  Spec => Lifecycle!Spec
<1>1. OneDelivery
  BY DEF NoFaults, OneDelivery
<1>2. Spec => []DeliveryInv
  BY <1>1, DeliveryInvariant
<1>3. Init => Lifecycle!Init
  BY DEF Init, Lifecycle!Init, Stage, Recorded
<1>4. TypeOK /\ PipelineInv /\ DeliveryInv /\ JobInv /\ [Next]_vars =>
        [Lifecycle!Next]_([d \in Docs |-> Stage(d)])
  <2> SUFFICES ASSUME TypeOK, PipelineInv, DeliveryInv, JobInv, [Next]_vars
               PROVE  [Lifecycle!Next]_([d \in Docs |-> Stage(d)])
    OBVIOUS
  <2>1. CASE UNCHANGED <<docStatus, deletedAt>>
    BY <2>1 DEF Stage, Recorded
  <2>2. ASSUME NEW r \in Runs, Claim(r)
        PROVE  LifecycleStep(Moves)
    <3>1. Stage(run[r].doc) # "failed"
      BY <2>2 DEF Claim, RunAt, Gone, JobInv, JobsOfPending, Working, Pending, Stage, Recorded
    <3> QED
      BY <2>2, <3>1, ClaimMoves
  <2> QED
    BY <2>1, <2>2, StepMoves, MoveRefines
<1> QED
  BY <1>2, <1>3, <1>4, TypeCorrect, PipelineInvariant, JobInvariant, PTL
     DEF Spec, Lifecycle!Spec
=============================================================================
