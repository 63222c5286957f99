----------------------------- MODULE HoldoutOnce -----------------------------
(***************************************************************************)
(* The attested, single-use evaluation of a holdout: run_holdout_once of   *)
(* src/evals/holdout.py.  Each runner is one process of the command; it    *)
(* checks that lock and output are free, hashes its inputs, verifies them  *)
(* (a preflight that may refuse at any stage), claims the lock by          *)
(* exclusive creation, evaluates, and creates the output exclusively.      *)
(* Runners interleave at every file access, may die between any two, and   *)
(* the input files may be edited meanwhile.  What the preflight verifies   *)
(* in the history of the repository is HoldoutProvenance's subject.        *)
(***************************************************************************)
EXTENDS Integers

CONSTANTS Runners, Locks, Outputs,
          LockOf, OutputOf,    \* the --lock and --output each runner is given
          Authorized,          \* the runners started with --allow-holdout
          Nobody,              \* no file
          MaxEdits             \* bound: edits of the input files

ASSUME RunnerAssumption ==
          /\ LockOf \in [Runners -> Locks]
          /\ OutputOf \in [Runners -> Outputs]
          /\ Authorized \subseteq Runners
          /\ Nobody \notin Runners \cup {0, 1}
          /\ MaxEdits \in Nat

Attested == 0                  \* the content the attestation and HEAD name
Contents == 0 .. 1

VARIABLES pc,        \* where each runner is
          disk,      \* the content of manifest and corpus
          evidence,  \* what each runner hashed before verifying
          evaluated, \* what each runner read when it evaluated
          lock,      \* lock[l]: the runner whose lock file exists at l
          output,    \* output[o]: the runner whose report exists at o
          edits,     \* edits of the files so far
          touched    \* history: runners the files were edited under, once verified

vars == <<pc, disk, evidence, evaluated, lock, output, edits, touched>>
files == <<disk, edits, touched>>

Stages == {"start", "hash", "verify", "claim", "lock", "evaluate", "report",
           "done", "refused", "failed", "dead"}
Ended == {"done", "refused", "failed", "dead"}

Init == /\ pc = [r \in Runners |-> "start"]
        /\ disk \in Contents
        /\ evidence = [r \in Runners |-> Attested]
        /\ evaluated = [r \in Runners |-> Nobody]
        /\ lock = [l \in Locks |-> Nobody]
        /\ output = [o \in Outputs |-> Nobody]
        /\ edits = 0
        /\ touched = {}

Goto(r, stage) == pc' = [pc EXCEPT ![r] = stage]

Free(r) == /\ output[OutputOf[r]] = Nobody
           /\ lock[LockOf[r]] = Nobody
-----------------------------------------------------------------------------
(* Forms the definitions below must not take. *)
CreateOver(r) == Goto(r, "evaluate") /\ lock' = [lock EXCEPT ![LockOf[r]] = r]
VerifiedClean(r) == disk = Attested \/ evidence[r] # Attested
ReleaseOnFailure(r) == /\ pc[r] = "evaluate"
                       /\ Goto(r, "failed")
                       /\ lock' = [lock EXCEPT ![LockOf[r]] = Nobody]
                       /\ UNCHANGED <<files, evidence, evaluated, output>>
-----------------------------------------------------------------------------
(* _assert_one_shot_available, before any input is read. *)
Available(r) ==
    /\ pc[r] = "start"
    /\ Goto(r, IF r \in Authorized /\ Free(r) THEN "hash" ELSE "refused")
    /\ UNCHANGED <<files, evidence, evaluated, lock, output>>

(* The first stage of preflight_holdout: hash every input. *)
Hash(r) ==
    /\ pc[r] = "hash"
    /\ evidence' = [evidence EXCEPT ![r] = disk]
    /\ Goto(r, "verify")
    /\ UNCHANGED <<files, evaluated, lock, output>>

(* The files are clean at HEAD, and the hashes are the attested ones.  *)
Verified(r) == disk = Attested /\ evidence[r] = Attested

(* The other stages of preflight_holdout.  Schema, protocol, dependency    *)
(* versions, model integrity and runtime may refuse whatever the files.    *)
Verify(r) ==
    /\ pc[r] = "verify"
    /\ \/ Verified(r) /\ Goto(r, "claim")
       \/ Goto(r, "refused")
    /\ UNCHANGED <<files, evidence, evaluated, lock, output>>

(* claim_one_shot looks for the output again.  *)
Claim(r) ==
    /\ pc[r] = "claim"
    /\ Goto(r, IF output[OutputOf[r]] = Nobody THEN "lock" ELSE "refused")
    /\ UNCHANGED <<files, evidence, evaluated, lock, output>>

(* Then it creates the lock exclusively, so that of two runners one gets   *)
(* FileExistsError.                                                        *)
Create(r) ==
    IF lock[LockOf[r]] = Nobody
    THEN Goto(r, "evaluate") /\ lock' = [lock EXCEPT ![LockOf[r]] = r]
    ELSE Goto(r, "refused") /\ UNCHANGED lock

Lock(r) ==
    /\ pc[r] = "lock"
    /\ Create(r)
    /\ UNCHANGED <<files, evidence, evaluated, output>>

(* _evaluate_attested_holdout_manifest reads the files once more.  *)
Evaluate(r) ==
    /\ pc[r] = "evaluate"
    /\ evaluated' = [evaluated EXCEPT ![r] = disk]
    /\ Goto(r, "report")
    /\ UNCHANGED <<files, evidence, lock, output>>

(* It raises (versions that differ, a case without documents, a missing    *)
(* file): the lock stays.                                                  *)
EvaluationFails(r) ==
    /\ pc[r] = "evaluate"
    /\ Goto(r, "failed")
    /\ UNCHANGED <<files, evidence, evaluated, lock, output>>

(* The result is written by exclusive creation.  *)
Write(r) ==
    IF output[OutputOf[r]] = Nobody
    THEN Goto(r, "done") /\ output' = [output EXCEPT ![OutputOf[r]] = r]
    ELSE Goto(r, "failed") /\ UNCHANGED output

Report(r) ==
    /\ pc[r] = "report"
    /\ Write(r)
    /\ UNCHANGED <<files, evidence, evaluated, lock>>

(* The process dies between two file accesses.  *)
Die(r) ==
    /\ pc[r] \notin Ended
    /\ Goto(r, "dead")
    /\ UNCHANGED <<files, evidence, evaluated, lock, output>>

(* Somebody edits or restores the input files, at any moment.  *)
Verifieds == {r \in Runners : pc[r] \in {"claim", "lock", "evaluate"}}

Edit ==
    /\ edits < MaxEdits
    /\ disk' = 1 - disk
    /\ edits' = edits + 1
    /\ touched' = touched \cup Verifieds
    /\ UNCHANGED <<pc, evidence, evaluated, lock, output>>

Step(r) == \/ Available(r) \/ Hash(r) \/ Verify(r) \/ Claim(r) \/ Lock(r)
           \/ Evaluate(r) \/ EvaluationFails(r) \/ Report(r)

Next == Edit \/ \E r \in Runners : Step(r) \/ Die(r)

Spec == Init /\ [][Next]_vars
-----------------------------------------------------------------------------
TypeOK == /\ pc \in [Runners -> Stages]
          /\ disk \in Contents
          /\ evidence \in [Runners -> Contents]
          /\ evaluated \in [Runners -> Contents \cup {Nobody}]
          /\ lock \in [Locks -> Runners \cup {Nobody}]
          /\ output \in [Outputs -> Runners \cup {Nobody}]
          /\ edits \in 0 .. MaxEdits
          /\ touched \subseteq Runners

Opened == {r \in Runners : evaluated[r] # Nobody}

(* Two evaluations never read one sealed holdout: runners that share a     *)
(* lock do not both evaluate, however their checks and claims interleave.  *)
EvaluatedOncePerLock ==
    \A r, s \in Opened : LockOf[r] = LockOf[s] => r = s

(* A report is written under a lock of its own writer, never by a runner   *)
(* that was refused, and the lock is still there when it is.               *)
ReportedUnderLock ==
    \A o \in Outputs : output[o] # Nobody =>
        /\ lock[LockOf[output[o]]] = output[o]
        /\ evaluated[output[o]] # Nobody

(* A failed preflight spends nothing (docs/evaluation.md): the lock of a   *)
(* holdout is only ever taken by a runner whose inputs were verified.      *)
RefusedSpendsNothing ==
    \A l \in Locks : lock[l] # Nobody =>
        pc[lock[l]] \in {"evaluate", "report", "done", "failed", "dead"}
            /\ evidence[lock[l]] = Attested

(* Whenever the files are edited, and restored, what a runner evaluates is *)
(* what the attestation names, unless they were edited after it verified   *)
(* them and before it read them again: that exception is real              *)
(* (ReportNamesEvaluated).                                                 *)
EvaluatedIsVerified ==
    \A r \in Opened : evaluated[r] = Attested \/ r \in touched

(* FR-16 of docs/specs/semantic-retrieval-v2.md and the title of           *)
(* holdout.py: the report of an attested run records the hashes of its     *)
(* inputs.  So they are the hashes of what it evaluated.                   *)
ReportNamesEvaluated ==
    \A o \in Outputs : output[o] # Nobody => evaluated[output[o]] = evidence[output[o]]

(* A lock once taken is never released and a report never overwritten.     *)
SpentForever ==
    [][/\ \A l \in Locks : lock[l] # Nobody => lock'[l] = lock[l]
       /\ \A o \in Outputs : output[o] # Nobody => output'[o] = output[o]]_vars

(* The locks and reports behave as seals do: opened once, reported once.   *)
Seal == INSTANCE HoldoutSeal
            WITH opener <- lock,
                 reported <- [l \in Locks |->
                                \E o \in Outputs : /\ output[o] # Nobody
                                                   /\ LockOf[output[o]] = l]
ImplementsSeal == Seal!Spec

(* FR-19 and the message of claim_one_shot: a holdout is opened only once  *)
(* for a sealed version of the parameters, whatever the operators pass.    *)
(* It does not hold of two locks.                                          *)
HoldoutOpenedOnce == \A r, s \in Opened : r = s
==============================================================================
