--------------------------- MODULE EvaluationProofs ---------------------------
(* What the evaluation tools guarantee, for every value of the constants.   *)
(* Each theorem is about a part of Evaluation: a step of the whole is one   *)
(* of that part (the lemmas named ...Moves), so the part's invariant is     *)
(* kept as long as its own steps keep it.                                   *)
EXTENDS Evaluation, FiniteSetTheorems, FunctionTheorems, SequenceTheorems,
        WellFoundedInduction, TLAPS

-----------------------------------------------------------------------------
(* The lock protocol of HoldoutOnce for any number of runners, locks and    *)
(* outputs: one evaluation per lock, reports only under it, and the         *)
(* refinement of HoldoutSeal.                                               *)

Holders == {"evaluate", "report", "done", "failed", "dead"}

(* Who evaluated or may still evaluate holds its lock.  *)
HoldsLock ==
    \A r \in Runners :
        /\ (pc[r] \in {"evaluate", "report"} => lock[LockOf[r]] = r)
        /\ (evaluated[r] # Nobody => lock[LockOf[r]] = r)
        /\ (pc[r] = "report" => evaluated[r] # Nobody)
        /\ (pc[r] \in {"claim", "lock"} => evidence[r] = Attested)

(* A lock names a runner it was given to, past its claim.  *)
LockIsHeld ==
    \A l \in Locks : lock[l] # Nobody =>
        /\ LockOf[lock[l]] = l
        /\ pc[lock[l]] \in Holders
        /\ evidence[lock[l]] = Attested

(* A report names a runner that evaluated and is done.  *)
ReportIsDone ==
    \A o \in Outputs : output[o] # Nobody =>
        /\ evaluated[output[o]] # Nobody
        /\ pc[output[o]] = "done"

(* A runner past its preflight works on the attested files, unless they     *)
(* were edited under it.                                                    *)
VerifiedStays ==
    /\ \A r \in Verifieds : disk = Attested \/ r \in touched
    /\ EvaluatedIsVerified

HoldoutInv == TypeOK /\ HoldsLock /\ LockIsHeld /\ ReportIsDone /\ VerifiedStays

(* The initial states satisfy the invariant.  *)
LEMMA InitHoldout == Init => HoldoutInv
  BY RunnerAssumption
  DEF Init, HoldoutInv, TypeOK, HoldsLock, LockIsHeld, ReportIsDone, Stages,
      Contents, Attested, VerifiedStays, Verifieds, EvaluatedIsVerified, Opened

(* Every step of a runner, its death and every edit keep the invariant.    *)
LEMMA StepHoldout == HoldoutInv /\ [Next]_vars => HoldoutInv'
<1> SUFFICES ASSUME HoldoutInv, [Next]_vars PROVE HoldoutInv'
  OBVIOUS
<1> USE RunnerAssumption DEF HoldoutInv, TypeOK, HoldsLock, LockIsHeld,
        ReportIsDone, VerifiedStays, Verifieds, EvaluatedIsVerified, Opened, files, Goto,
        Stages, Contents, Attested, Holders
<1>1. CASE UNCHANGED vars
  BY <1>1 DEF vars
<1>2. CASE Edit
  <2>1. 1 - disk \in 0 .. 1 /\ edits + 1 \in 0 .. MaxEdits
    BY <1>2 DEF Edit
  <2> QED BY <1>2, <2>1 DEF Edit
<1>3. ASSUME NEW r \in Runners, Available(r) PROVE HoldoutInv'
  BY <1>3 DEF Available
<1>4. ASSUME NEW r \in Runners, Hash(r) PROVE HoldoutInv'
  BY <1>4 DEF Hash
<1>5. ASSUME NEW r \in Runners, Verify(r) PROVE HoldoutInv'
  BY <1>5 DEF Verify, Verified
<1>6. ASSUME NEW r \in Runners, Claim(r) PROVE HoldoutInv'
  BY <1>6 DEF Claim
<1>7. ASSUME NEW r \in Runners, Evaluate(r) PROVE HoldoutInv'
  BY <1>7 DEF Evaluate
<1>8. ASSUME NEW r \in Runners, EvaluationFails(r) PROVE HoldoutInv'
  BY <1>8 DEF EvaluationFails
<1>9. ASSUME NEW r \in Runners, Report(r) PROVE HoldoutInv'
  BY <1>9 DEF Report, Write
<1>10. ASSUME NEW r \in Runners, Die(r) PROVE HoldoutInv'
  BY <1>10 DEF Die, Ended
<1>11. ASSUME NEW r \in Runners, Lock(r) PROVE HoldoutInv'
  BY <1>11 DEF Lock, Create
<1> QED
  BY <1>1, <1>2, <1>3, <1>4, <1>5, <1>6, <1>7, <1>8, <1>9, <1>10, <1>11
  DEF Next, Step

(* The inductive invariant of the lock protocol.  *)
THEOREM HoldoutInvariant == Spec => []HoldoutInv
  BY InitHoldout, StepHoldout, PTL DEF Spec

(* No lock lets two runners evaluate, whatever order their checks, claims  *)
(* and deaths come in.                                                     *)
THEOREM OneEvaluationPerLock == Spec => []EvaluatedOncePerLock
<1>1. HoldoutInv => EvaluatedOncePerLock
  BY DEF HoldoutInv, HoldsLock, EvaluatedOncePerLock, Opened
<1> QED BY <1>1, HoldoutInvariant, PTL

(* Every report was written by the runner that holds its lock.             *)
THEOREM ReportsHoldTheirLock == Spec => []ReportedUnderLock
<1>1. HoldoutInv => ReportedUnderLock
  BY DEF HoldoutInv, TypeOK, HoldsLock, ReportIsDone, ReportedUnderLock
<1> QED BY <1>1, HoldoutInvariant, PTL

(* A lock is only taken on verified evidence: a refusal spends nothing.    *)
THEOREM RefusalsSpendNothing == Spec => []RefusedSpendsNothing
<1>1. HoldoutInv => RefusedSpendsNothing
  BY DEF HoldoutInv, LockIsHeld, RefusedSpendsNothing, Holders
<1> QED BY <1>1, HoldoutInvariant, PTL

(* What is evaluated was verified and is what the attestation names, but   *)
(* for an edit after its own preflight, however often files are edited.    *)
THEOREM EvaluationsAreVerified == Spec => []EvaluatedIsVerified
<1>1. HoldoutInv => EvaluatedIsVerified
  BY DEF HoldoutInv, VerifiedStays
<1> QED BY <1>1, HoldoutInvariant, PTL

(* Locks and reports only ever appear.                                     *)
THEOREM LocksAreSpentForever == Spec => SpentForever
<1>1. HoldoutInv /\ [Next]_vars =>
        [/\ \A l \in Locks : lock[l] # Nobody => lock'[l] = lock[l]
         /\ \A o \in Outputs : output[o] # Nobody => output'[o] = output[o]]_vars
  BY RunnerAssumption
  DEF HoldoutInv, TypeOK, Next, Step, vars, Edit, Available, Hash, Verify, Claim,
      Lock, Create, Evaluate, EvaluationFails, Report, Write, Die
<1> QED BY <1>1, HoldoutInvariant, PTL DEF Spec, SpentForever

ReportedAt(l) == \E o \in Outputs : output[o] # Nobody /\ LockOf[output[o]] = l

(* The evaluation implements the seal: a claim opens it, a report closes   *)
(* it, everything else leaves it alone.                                    *)
THEOREM ImplementsTheSeal == Spec => ImplementsSeal
<1> USE RunnerAssumption
<1>1. Init => Seal!Init
  BY DEF Init, Seal!Init
<1>2. HoldoutInv /\ [Next]_vars =>
         [Seal!Next]_(Seal!vars)
  <2> SUFFICES ASSUME HoldoutInv, [Next]_vars
               PROVE  \/ Seal!Next
                      \/ UNCHANGED Seal!vars
    OBVIOUS
  <2>1. CASE UNCHANGED <<lock, output>>
    BY <2>1 DEF Seal!vars
  <2>2. ASSUME NEW r \in Runners, Lock(r), ~ UNCHANGED lock PROVE Seal!Next
    <3>1. /\ lock[LockOf[r]] = Nobody
          /\ lock' = [lock EXCEPT ![LockOf[r]] = r]
          /\ output' = output
      BY <2>2 DEF Lock, Create
    <3>2. Seal!Open(LockOf[r], r)
      BY <3>1 DEF Seal!Open
    <3> QED BY <3>2 DEF Seal!Next
  <2>3. ASSUME NEW r \in Runners, Report(r), ~ UNCHANGED output PROVE Seal!Next
    <3> DEFINE l == LockOf[r]
    <3>1. /\ output[OutputOf[r]] = Nobody
          /\ output' = [output EXCEPT ![OutputOf[r]] = r]
          /\ lock' = lock
          /\ pc[r] = "report"
      BY <2>3 DEF Report, Write
    <3>2. lock[l] = r /\ r # Nobody /\ l \in Locks
      BY <3>1 DEF HoldoutInv, HoldsLock
    <3>3. ~ ReportedAt(l)
      BY <3>1, <3>2 DEF ReportedAt, HoldoutInv, TypeOK, HoldsLock, ReportIsDone
    <3>4. \A m \in Locks : ReportedAt(m)' <=> (m = l \/ ReportedAt(m))
      BY <3>1, <3>2 DEF ReportedAt, HoldoutInv, TypeOK
    <3>5. [m \in Locks |-> ReportedAt(m)]'
             = [[m \in Locks |-> ReportedAt(m)] EXCEPT ![l] = TRUE]
      BY <3>2, <3>3, <3>4 DEF ReportedAt
    <3>6. Seal!Report(l)
      BY <3>1, <3>2, <3>3, <3>5 DEF Seal!Report, ReportedAt
    <3> QED BY <3>2, <3>6 DEF Seal!Next
  <2> QED
    BY <2>1, <2>2, <2>3
    DEF Next, Step, vars, Edit, Available, Hash, Verify, Claim, Lock, Evaluate,
        EvaluationFails, Report, Die
<1> QED
  BY <1>1, <1>2, HoldoutInvariant, PTL DEF Spec, ImplementsSeal, Seal!Spec

-----------------------------------------------------------------------------
(* Freeze and preflight over a Git history.                                 *)

LEMMA ProvenanceMoves ==
    ASSUME [EvaluationNext]_evaluationVars, part' = "provenance"
    PROVE  part = "provenance" /\ [Provenance!Next]_(Provenance!vars)
BY DEF EvaluationNext, evaluationVars, shared, rest3, rest4, rest8, Provenance!vars

\* A commit leaves the earlier ones as they are.
LEMMA CommitExtends ==
    ASSUME Provenance!HistoryInv, Provenance!Commit
    PROVE  /\ Provenance!HistoryInv'
           /\ Provenance!History \subseteq Provenance!History'
           /\ \A c \in Provenance!History : x2'[c] = x2[c]
<1> DEFINE n == Len(x2)
           new == [tree |-> x1, parent |-> x3]
           Old == {x2[c] : c \in 1 .. n}
<1>1. /\ x2 \in Seq(Old) /\ n \in Nat
      /\ x3 \in 1 .. n /\ \A c \in 1 .. n : x2[c].parent \in 0 .. c - 1
  BY DEF Provenance!HistoryInv, Provenance!History
<1>2. x2' = Append(x2, new) /\ x3' = n + 1
  BY DEF Provenance!Commit
<1>3. x2 \in Seq(Old \cup {new})
  BY <1>1
<1>4. /\ Len(x2') = n + 1 /\ x2'[n + 1] = new /\ \A c \in 1 .. n : x2'[c] = x2[c]
      /\ x2' \in Seq(Old \cup {new})
  BY <1>1, <1>2, <1>3
<1>5. Old \cup {new} = {x2'[c] : c \in 1 .. n + 1}
  <2> HIDE DEF n, new
  <2>1. \A c \in 1 .. n + 1 : c \in 1 .. n \/ c = n + 1
    BY <1>1
  <2>2. n + 1 \in 1 .. n + 1 /\ \A c \in 1 .. n : c \in 1 .. n + 1
    BY <1>1
  <2> QED BY <1>4, <2>1, <2>2
<1>6. x2' \in Seq({x2'[c] : c \in 1 .. n + 1})
  BY <1>4, <1>5
<1>7. \A c \in 1 .. n + 1 : x2'[c].parent \in 0 .. c - 1
  <2> SUFFICES ASSUME NEW c \in 1 .. n + 1 PROVE x2'[c].parent \in 0 .. c - 1
    OBVIOUS
  <2>1. CASE c \in 1 .. n
    BY <1>1, <1>4, <2>1
  <2>2. CASE c = n + 1
    BY <1>1, <1>4, <2>2
  <2>3. n \in Nat
    BY <1>1
  <2> HIDE DEF n
  <2> QED BY <2>1, <2>2, <2>3
<1>8. 1 .. n \subseteq 1 .. n + 1 /\ n + 1 \in 1 .. n + 1
  BY <1>1
<1>9. Provenance!History' = 1 .. n + 1 /\ Provenance!History = 1 .. n
  BY <1>4 DEF Provenance!History
<1> HIDE DEF n
<1> QED BY <1>2, <1>4, <1>6, <1>7, <1>8, <1>9 DEF Provenance!HistoryInv

\* So who precedes whom does not change.
LEMMA AncestryStays ==
    ASSUME Provenance!HistoryInv,
           Provenance!History \subseteq Provenance!History',
           \A c \in Provenance!History : x2'[c] = x2[c],
           NEW c \in Provenance!History, NEW d \in Provenance!History, Provenance!IsAncestor(c, d)
    PROVE  Provenance!IsAncestor(c, d)'
<1> SUFFICES ASSUME NEW S \in SUBSET Provenance!History', d \in S, Provenance!HasParents(S)'
             PROVE  c \in S
  BY DEF Provenance!IsAncestor
<1> DEFINE T == S \cap Provenance!History
<1>1. Provenance!HasParents(T)
  <2> SUFFICES ASSUME NEW a \in T PROVE x2[a].parent \in T \cup {0}
    BY DEF Provenance!HasParents
  <2>1. x2[a].parent \in S \cup {0}
    BY DEF Provenance!HasParents
  <2>2. x2[a].parent \in 0 .. a - 1 /\ a \in 1 .. Len(x2)
    BY DEF Provenance!HistoryInv, Provenance!History
  <2>3. Len(x2) \in Nat
    BY DEF Provenance!HistoryInv
  <2>4. x2[a].parent \in Provenance!History \cup {0}
    BY <2>2, <2>3 DEF Provenance!History
  <2> QED BY <2>1, <2>4
<1>2. T \in SUBSET Provenance!History /\ d \in T
  OBVIOUS
<1> QED BY <1>1, <1>2 DEF Provenance!IsAncestor

\* Once the run is claimed people may act again: what was proved of the history stays.
LEMMA ClaimStands ==
    ASSUME Provenance!PreflightInv, Provenance!HistoryInv', UNCHANGED <<x6, x7, x8>>,
           x6 = "claimed",
           Provenance!History \subseteq Provenance!History',
           \A c \in Provenance!History : x2'[c] = x2[c]
    PROVE  Provenance!PreflightInv'
<1>1. {x7.commit, Provenance!Frozen, x8.freeze.commit} \subseteq Provenance!History
  BY DEF Provenance!PreflightInv
<1>2. Provenance!Frozen' = Provenance!Frozen /\ x8' = x8 /\ x7' = x7 /\ x6' = x6
  BY DEF Provenance!Frozen
<1>3. \A c \in Provenance!History : Provenance!Tree(c)' = Provenance!Tree(c)
  BY DEF Provenance!Tree
<1>4. Provenance!ClaimedEngineIsFrozen'
  <2>1. /\ x7.engine = Provenance!Tree(x8.freeze.commit)["engine"]
        /\ x7.config = Provenance!Tree(x8.freeze.commit)["config"]
        /\ Provenance!IsAncestor(x8.freeze.commit, Provenance!Frozen)
        /\ Provenance!Tree(x7.commit)["freeze"] = Provenance!Tree(Provenance!Frozen)["freeze"]
    BY DEF Provenance!PreflightInv, Provenance!ClaimedEngineIsFrozen
  <2>2. Provenance!IsAncestor(x8.freeze.commit, Provenance!Frozen)'
    <3>1. Provenance!HistoryInv
      BY DEF Provenance!PreflightInv
    <3> QED BY <1>1, <2>1, <3>1, AncestryStays, <1>2 DEF Provenance!IsAncestor
  <2> QED BY <1>1, <1>2, <1>3, <2>1, <2>2 DEF Provenance!ClaimedEngineIsFrozen
<1>5. Provenance!DatasetFollowsFreeze'
  <2>1. /\ Provenance!IsAncestor(Provenance!Frozen, x7.commit) /\ Provenance!Frozen # x7.commit
        /\ Provenance!Tree(Provenance!Frozen)["dataset"] = Nobody
        /\ Provenance!Tree(x7.commit)["dataset"] = x7.dataset
    BY DEF Provenance!PreflightInv, Provenance!DatasetFollowsFreeze
  <2>2. Provenance!IsAncestor(Provenance!Frozen, x7.commit)'
    <3>1. Provenance!HistoryInv
      BY DEF Provenance!PreflightInv
    <3> QED BY <1>1, <2>1, <3>1, AncestryStays, <1>2 DEF Provenance!IsAncestor
  <2> QED BY <1>1, <1>2, <1>3, <2>1, <2>2 DEF Provenance!DatasetFollowsFreeze
<1> QED BY <1>1, <1>2, <1>4, <1>5 DEF Provenance!PreflightInv

\* Nothing the preflight relies on changes while it runs.
LEMMA WaitingKeeps ==
    ASSUME Provenance!PreflightInv, UNCHANGED <<x2, x3, x6, x7, x8>>,
           x6 \in {"load", "provenance", "attestation", "engine"} => UNCHANGED x1
    PROVE  Provenance!PreflightInv'
<1>1. x2' = x2 /\ x3' = x3 /\ x6' = x6 /\ x7' = x7 /\ x8' = x8
  OBVIOUS
<1>2. Provenance!HistoryInv' = Provenance!HistoryInv
  BY <1>1 DEF Provenance!HistoryInv, Provenance!History
<1>3. \A c, d : Provenance!IsAncestor(c, d)' = Provenance!IsAncestor(c, d)
  BY <1>1 DEF Provenance!IsAncestor, Provenance!HasParents, Provenance!History
<1>4. Provenance!Frozen' = Provenance!Frozen /\ \A c : Provenance!Tree(c)' = Provenance!Tree(c)
  BY <1>1 DEF Provenance!Frozen, Provenance!Tree
<1>5. Provenance!History' = Provenance!History
  BY <1>1 DEF Provenance!History
<1>6. Provenance!ClaimedEngineIsFrozen'
  BY <1>1, <1>3, <1>4 DEF Provenance!PreflightInv, Provenance!ClaimedEngineIsFrozen
<1>7. Provenance!DatasetFollowsFreeze'
  BY <1>1, <1>3, <1>4 DEF Provenance!PreflightInv, Provenance!DatasetFollowsFreeze
<1>8. CASE x6 \in {"load", "provenance", "attestation", "engine"}
  <2>1. x1' = x1
    BY <1>8
  <2>2. /\ Provenance!HashedFromDisk' = Provenance!HashedFromDisk
        /\ Provenance!LoadedFromDisk' = Provenance!LoadedFromDisk
    BY <1>1, <2>1 DEF Provenance!HashedFromDisk, Provenance!LoadedFromDisk, Provenance!InputsExist
  <2>3. /\ Provenance!Committed' = Provenance!Committed
        /\ \A c : Provenance!Precedes(c)' = Provenance!Precedes(c)
    BY <1>1, <1>3, <1>4, <2>1 DEF Provenance!Committed, Provenance!Precedes
  <2> QED
    BY <1>1, <1>2, <1>4, <1>5, <1>6, <1>7, <1>8, <2>2, <2>3 DEF Provenance!PreflightInv
<1>9. CASE x6 \notin {"load", "provenance", "attestation", "engine"}
  BY <1>1, <1>2, <1>4, <1>5, <1>6, <1>7, <1>9 DEF Provenance!PreflightInv
<1> QED BY <1>8, <1>9

\* What people do between preflights.
LEMMA PeopleKeep ==
    ASSUME EditsDuringPreflight = FALSE, Provenance!PreflightInv, Provenance!People
    PROVE  Provenance!PreflightInv'
<1>1. UNCHANGED <<x6, x7, x8>> /\ x6 \in {"hash", "claimed", "refused"}
  BY DEF Provenance!People, Provenance!EditEngine, Provenance!Select, Provenance!Author,
     Provenance!Remove, Provenance!Attest, Provenance!Commit, Provenance!Checkout, Provenance!MayAct
<1>2. CASE UNCHANGED <<x2, x3>>
  BY <1>1, <1>2, WaitingKeeps
<1>3. ASSUME Provenance!HistoryInv', Provenance!History \subseteq Provenance!History',
             \A c \in Provenance!History : x2'[c] = x2[c]
      PROVE  Provenance!PreflightInv'
  <2>1. CASE x6 = "claimed"
    BY <1>1, <1>3, <2>1, ClaimStands
  <2>2. CASE x6 # "claimed"
    BY <1>1, <1>3, <2>2 DEF Provenance!PreflightInv, Provenance!ClaimedEngineIsFrozen,
       Provenance!DatasetFollowsFreeze
  <2> QED BY <2>1, <2>2
<1>4. CASE Provenance!Commit
  BY <1>3, <1>4, CommitExtends DEF Provenance!PreflightInv
<1>5. CASE Provenance!Checkout
  <2>1. x2' = x2 /\ x3' \in Provenance!History
    BY <1>5 DEF Provenance!Checkout, Provenance!History
  <2>2. Provenance!HistoryInv' /\ Provenance!History' = Provenance!History
    BY <2>1 DEF Provenance!PreflightInv, Provenance!HistoryInv, Provenance!History
  <2> QED BY <1>3, <2>1, <2>2
<1> QED
  BY <1>2, <1>4, <1>5 DEF Provenance!People, Provenance!EditEngine, Provenance!Select,
     Provenance!Author, Provenance!Remove, Provenance!Attest

\* The freeze tool finds a record already there while a preflight runs.
LEMMA FreezeKeeps ==
    ASSUME Provenance!PreflightInv, Provenance!Freeze
    PROVE  Provenance!PreflightInv'
<1>1. UNCHANGED <<x2, x3, x6, x7, x8>>
  BY DEF Provenance!Freeze, Provenance!FreezeCheck, Provenance!FreezeHead, Provenance!FreezeWrite,
     Provenance!repository
<1>2. CASE UNCHANGED x1
  BY <1>1, <1>2, WaitingKeeps
<1>3. CASE x1["freeze"] = Nobody
  <2>1. x6 \notin {"load", "provenance", "attestation", "engine"}
    BY <1>3 DEF Provenance!PreflightInv, Provenance!HashedFromDisk, Provenance!InputsExist,
       Provenance!Inputs, Provenance!Files
  <2> QED BY <1>1, <2>1, WaitingKeeps
<1> QED
  BY <1>2, <1>3 DEF Provenance!Freeze, Provenance!FreezeCheck, Provenance!FreezeHead,
     Provenance!FreezeWrite, Provenance!repository

\* Each stage of the preflight adds what it checked.
LEMMA PreflightKeeps ==
    ASSUME Provenance!PreflightInv, Provenance!Preflight
    PROVE  Provenance!PreflightInv'
<1>1. UNCHANGED <<x1, x2, x3>>
  BY DEF Provenance!Preflight, Provenance!HashInputs, Provenance!LoadInputs,
     Provenance!VerifyProvenance, Provenance!VerifyAttestation, Provenance!VerifyEngine,
     Provenance!Stage, Provenance!repository
<1>2. /\ Provenance!HistoryInv' = Provenance!HistoryInv
      /\ Provenance!InputsExist' = Provenance!InputsExist
      /\ Provenance!History' = Provenance!History
  BY <1>1 DEF Provenance!HistoryInv, Provenance!History, Provenance!InputsExist
<1>3. /\ \A c, d : Provenance!IsAncestor(c, d)' = Provenance!IsAncestor(c, d)
      /\ \A c : Provenance!Tree(c)' = Provenance!Tree(c)
  BY <1>1 DEF Provenance!IsAncestor, Provenance!HasParents, Provenance!History, Provenance!Tree
<1> USE DEF Provenance!PreflightInv, Provenance!ClaimedEngineIsFrozen,
        Provenance!DatasetFollowsFreeze, Provenance!Stage
<1>4. CASE Provenance!HashInputs
  <2>1. x6' \in {"load", "refused"} /\ (x6' = "load" => Provenance!InputsExist)
    BY <1>4 DEF Provenance!HashInputs
  <2>2. Provenance!HashedFromDisk' \/ x6' = "refused"
    BY <1>1, <1>2, <1>4, <2>1 DEF Provenance!HashInputs, Provenance!HashedFromDisk
  <2> QED BY <1>2, <2>1, <2>2
<1>5. CASE x6' = "refused"
  BY <1>2, <1>5
<1>6. CASE Provenance!LoadInputs /\ x6' = "provenance"
  <2>1. Provenance!HashedFromDisk'
    BY <1>1, <1>2, <1>6 DEF Provenance!LoadInputs, Provenance!HashedFromDisk
  <2>2. Provenance!LoadedFromDisk'
    BY <1>1, <1>6 DEF Provenance!LoadInputs, Provenance!LoadedFromDisk
  <2> QED BY <1>2, <1>6, <2>1, <2>2
<1>7. ASSUME UNCHANGED <<x7, x8>>, Provenance!HashedFromDisk, Provenance!LoadedFromDisk
      PROVE  /\ Provenance!HashedFromDisk' /\ Provenance!LoadedFromDisk'
             /\ Provenance!Frozen' = Provenance!Frozen
             /\ Provenance!Committed' = Provenance!Committed
             /\ \A c : Provenance!Precedes(c)' = Provenance!Precedes(c)
  BY <1>1, <1>2, <1>3, <1>7 DEF Provenance!HashedFromDisk, Provenance!LoadedFromDisk,
     Provenance!Frozen, Provenance!Committed, Provenance!Precedes
<1>8. CASE Provenance!VerifyProvenance /\ x6' = "attestation"
  <2>1. Provenance!Committed /\ Provenance!Precedes(Provenance!Frozen)
    BY <1>8 DEF Provenance!VerifyProvenance, Provenance!Frozen
  <2> QED BY <1>2, <1>7, <1>8, <2>1 DEF Provenance!VerifyProvenance
<1>9. CASE Provenance!VerifyAttestation /\ x6' = "engine"
  BY <1>2, <1>7, <1>9 DEF Provenance!VerifyAttestation
<1>10. CASE Provenance!VerifyEngine /\ x6' = "claimed"
  <2>1. /\ x7' = x7 /\ x8' = x8 /\ x6 = "engine" /\ Provenance!EngineUnchanged
        /\ Provenance!Frozen' = Provenance!Frozen
    BY <1>10 DEF Provenance!VerifyEngine, Provenance!Frozen
  <2>2. /\ Provenance!HashedFromDisk /\ Provenance!Committed
        /\ Provenance!Precedes(Provenance!Frozen) /\ Provenance!HistoryInv
    BY <2>1
  <2>3. /\ Provenance!IsAncestor(x8.freeze.commit, Provenance!Frozen)
        /\ \A f \in {"engine", "config"} : x1[f] = Provenance!Tree(x8.freeze.commit)[f]
    BY <2>1 DEF Provenance!EngineUnchanged, Provenance!Frozen
  <2>4. /\ x7.commit = x3 /\ x7.engine = x1["engine"] /\ x7.config = x1["config"]
        /\ x7.freeze = x1["freeze"] /\ x7.dataset = x1["dataset"]
    BY <2>2 DEF Provenance!HashedFromDisk
  <2>5. \A f \in {"freeze", "dataset"} : x1[f] = Provenance!Tree(x3)[f]
    BY <2>2 DEF Provenance!Committed, Provenance!Inputs, Provenance!Files
  <2>6. /\ Provenance!Frozen # x3 /\ Provenance!IsAncestor(Provenance!Frozen, x3)
        /\ Provenance!Tree(Provenance!Frozen)["dataset"] = Nobody
        /\ Provenance!Tree(Provenance!Frozen)["freeze"] = x7.freeze
    BY <2>2 DEF Provenance!Precedes, Provenance!NewInputs
  <2>7. Provenance!ClaimedEngineIsFrozen'
    BY <1>3, <2>1, <2>3, <2>4, <2>5, <2>6
  <2>8. Provenance!DatasetFollowsFreeze'
    BY <1>3, <2>1, <2>4, <2>5, <2>6
  <2>9. {x7.commit, Provenance!Frozen, x8.freeze.commit} \subseteq Provenance!History
    BY <2>3, <2>4, <2>6 DEF Provenance!IsAncestor
  <2> QED BY <1>2, <1>10, <2>1, <2>2, <2>7, <2>8, <2>9
<1>11. \/ Provenance!HashInputs \/ x6' = "refused"
       \/ Provenance!LoadInputs /\ x6' = "provenance"
       \/ Provenance!VerifyProvenance /\ x6' = "attestation"
       \/ Provenance!VerifyAttestation /\ x6' = "engine"
       \/ Provenance!VerifyEngine /\ x6' = "claimed"
  BY DEF Provenance!Preflight, Provenance!LoadInputs, Provenance!VerifyProvenance,
     Provenance!VerifyAttestation, Provenance!VerifyEngine
<1> QED BY <1>4, <1>5, <1>6, <1>8, <1>9, <1>10, <1>11

LEMMA ProvenanceInvariant ==
    ASSUME EditsDuringPreflight = FALSE
    PROVE  EvaluationSpec => [](part = "provenance" => Provenance!PreflightInv)
<1> DEFINE Inv == part = "provenance" => Provenance!PreflightInv
<1>1. EvaluationInit => Inv
  <2> SUFFICES ASSUME Provenance!Init PROVE Provenance!PreflightInv
    BY DEF EvaluationInit
  <2> PICK tree : x2 = <<[tree |-> tree, parent |-> 0]>>
    BY DEF Provenance!Init
  <2>1. Provenance!HistoryInv
    <3>1. /\ Len(x2) = 1 /\ 1 .. 1 = {1} /\ x2[1].parent = 0
          /\ x2 \in Seq({[tree |-> tree, parent |-> 0]})
      OBVIOUS
    <3>2. {x2[c] : c \in 1 .. 1} = {[tree |-> tree, parent |-> 0]}
      BY <3>1
    <3>3. x3 = 1 /\ x2 \in Seq({x2[c] : c \in 1 .. 1}) /\ 0 \in 0 .. 1 - 1
      BY <3>1, <3>2 DEF Provenance!Init
    <3> QED BY <3>1, <3>3 DEF Provenance!HistoryInv, Provenance!History
  <2> QED BY <2>1 DEF Provenance!Init, Provenance!PreflightInv, Provenance!ClaimedEngineIsFrozen,
             Provenance!DatasetFollowsFreeze
<1>2. Inv /\ [EvaluationNext]_evaluationVars => Inv'
  <2> SUFFICES ASSUME Provenance!PreflightInv, [Provenance!Next]_(Provenance!vars)
               PROVE  Provenance!PreflightInv'
    BY ProvenanceMoves
  <2>1. CASE UNCHANGED Provenance!vars
    BY <2>1, WaitingKeeps DEF Provenance!vars
  <2> QED BY <2>1, PeopleKeep, FreezeKeeps, PreflightKeeps DEF Provenance!Next
<1> QED BY <1>1, <1>2, PTL DEF EvaluationSpec

(* Whatever was edited while the freeze record was made, the engine that is *)
(* about to be measured was committed before the freeze commit.             *)
THEOREM ClaimedEnginesAreFrozen ==
    ASSUME EditsDuringPreflight = FALSE
    PROVE  EvaluationSpec => []ClaimedEngineIsFrozen
<1>1. (part = "provenance" => Provenance!PreflightInv) => ClaimedEngineIsFrozen
  BY DEF Provenance!PreflightInv, ClaimedEngineIsFrozen
<1> QED BY <1>1, ProvenanceInvariant, PTL

(* The dataset was committed strictly after the freeze commit.              *)
THEOREM DatasetsFollowTheirFreeze ==
    ASSUME EditsDuringPreflight = FALSE
    PROVE  EvaluationSpec => []DatasetFollowsFreeze
<1>1. (part = "provenance" => Provenance!PreflightInv) => DatasetFollowsFreeze
  BY DEF Provenance!PreflightInv, DatasetFollowsFreeze
<1> QED BY <1>1, ProvenanceInvariant, PTL

-----------------------------------------------------------------------------
(* The dataset gate.                                                        *)

LEMMA GateMoves ==
    ASSUME [EvaluationNext]_evaluationVars, part' = "gate"
    PROVE  part = "gate" /\ [Gate!Next]_(Gate!vars)
BY DEF EvaluationNext, evaluationVars, shared, rest3, Gate!vars

\* Values that a sequence gives only once are as many as its length.
LEMMA DistinctValuesCounted ==
    ASSUME NEW f, NEW n \in Nat, \A i, j \in 1 .. n : f[i] = f[j] => i = j
    PROVE  Cardinality({f[i] : i \in 1 .. n}) = n
<1> DEFINE g == [i \in 1 .. n |-> f[i]]
<1>1. g \in Bijection(1 .. n, {f[i] : i \in 1 .. n})
  BY Fun_IsBij
<1> QED BY <1>1, FS_CountingElements DEF ExistsBijection

LEMMA GateCounts == \A S : Gate!Cardinality(S) = Cardinality(S)
BY DEF Gate!Cardinality, Cardinality

\* What the gate opens can be measured, however many rows of whatever kind.
LEMMA OpenedRows ==
    ASSUME Gate!RowsInv
    PROVE  Gate!OpenedIsMeasurable
<1> SUFFICES ASSUME Gate!Opened
             PROVE  /\ Cardinality({x1[i].id : i \in DOMAIN x1}) = Protocol.total
                    /\ \A i \in DOMAIN x1 :
                          /\ x1[i].answer <=> x1[i].kind = "answerable"
                          /\ x1[i].scope # "unknown"
                          /\ x1[i].answer =>
                                /\ Gate!CitationsIn(x1[i]) # {}
                                /\ \A q \in Gate!CitationsIn(x1[i]) : q.page \in 1 .. Gate!LastPage
                    /\ \A i \in DOMAIN x2 : Len(x2[i].citations) = x2[i].values
  BY GateCounts DEF Gate!OpenedIsMeasurable
<1>1. /\ Len(x1) \in Nat /\ DOMAIN x1 = 1 .. Len(x1)
      /\ \A i \in DOMAIN x1 : x1[i] \in Gate!Cases
      /\ \A i \in DOMAIN x2 : x2[i] \in Gate!Targets
  <2>1. x1 \in Seq(Gate!Cases) /\ x2 \in Seq(Gate!Targets)
    BY DEF Gate!RowsInv
  <2> QED BY <2>1, LenProperties, ElementOfSeq
<1>2. Gate!Validates /\ Gate!MeetsProtocol /\ Gate!OnTrack
  BY DEF Gate!Opened, Gate!MeetsProtocol
<1>3. Cardinality({x1[i].id : i \in DOMAIN x1}) = Protocol.total
  <2> DEFINE ids == [i \in 1 .. Len(x1) |-> x1[i].id]
  <2>1. \A i, j \in 1 .. Len(x1) : ids[i] = ids[j] => i = j
    BY <1>1, <1>2 DEF Gate!Validates, Gate!UniqueIds
  <2>2. {x1[i].id : i \in DOMAIN x1} = {ids[i] : i \in 1 .. Len(x1)}
    BY <1>1
  <2> HIDE DEF ids
  <2>3. Cardinality({ids[i] : i \in 1 .. Len(x1)}) = Len(x1)
    BY <1>1, <2>1, DistinctValuesCounted
  <2> QED BY <1>2, <2>2, <2>3 DEF Gate!MeetsProtocol
<1>4. ASSUME NEW i \in DOMAIN x1
      PROVE  /\ x1[i].answer <=> x1[i].kind = "answerable"
             /\ x1[i].scope # "unknown"
             /\ x1[i].answer =>
                   /\ Gate!CitationsIn(x1[i]) # {}
                   /\ \A q \in Gate!CitationsIn(x1[i]) : q.page \in 1 .. Gate!LastPage
  <2> DEFINE c == x1[i]
  <2>1. Gate!CaseFits(c) /\ c \in Gate!Cases
    BY <1>1, <1>2 DEF Gate!Validates
  <2>2. (c.answer <=> c.kind = "answerable") /\ c.scope # "unknown"
    BY <2>1 DEF Gate!CaseFits, Gate!AnswerFits, Gate!ScopeFits, Gate!NoScope
  <2>3. c.answer => Gate!CitationsIn(c) # {}
    <3> SUFFICES ASSUME c.answer PROVE c.citations # <<>> => Gate!CitationsIn(c) # {}
      BY <2>1, <2>2 DEF Gate!CaseFits, Gate!CitationFits
    <3>1. PICK m \in 0 .. 1 : c.citations \in [1 .. m -> Gate!CitationsOf]
      BY <2>1 DEF Gate!Cases, Gate!SeqOf
    <3> HIDE DEF c
    <3>2. CASE m = 0
      BY <3>1, <3>2
    <3>3. CASE m = 1
      <4>1. 1 \in DOMAIN c.citations
        BY <3>1, <3>3
      <4>2. c.citations[1] \in Gate!CitationsIn(c)
        BY <4>1, Zenon DEF Gate!CitationsIn, Gate!ToSet
      <4> QED BY <4>2
    <3> QED BY <3>2, <3>3
  <2>4. ASSUME NEW q \in Gate!CitationsIn(c) PROVE q.page \in 1 .. Gate!LastPage
    <3>1. q.document = "known" /\ Gate!OnPage(q.page)
      BY <1>2 DEF Gate!OnTrack, Gate!DocumentsKnown, Gate!CitationsExact
    <3>2. q.page \in 0 .. 2
      <4>1. PICK m \in 0 .. 1 : c.citations \in [1 .. m -> Gate!CitationsOf]
        BY <2>1 DEF Gate!Cases, Gate!SeqOf
      <4>2. q \in Gate!CitationsOf
        BY <4>1 DEF Gate!CitationsIn, Gate!ToSet
      <4> QED BY <4>2 DEF Gate!CitationsOf, Gate!LastPage
    <3> QED BY <3>1, <3>2 DEF Gate!OnPage, Gate!LastPage
  <2> QED BY <2>2, <2>3, <2>4
<1>5. \A i \in DOMAIN x2 : Len(x2[i].citations) = x2[i].values
  BY <1>2 DEF Gate!OnTrack, Gate!Traceable, Gate!Validates, Gate!TargetFits, Gate!OnePerValue
<1> QED BY <1>3, <1>4, <1>5

(* Recalculating a dataset that the gate opened cannot fail, and counts     *)
(* every case once.                                                         *)
THEOREM OpenedDatasetsAreMeasurable == EvaluationSpec => []OpenedIsMeasurable
<1> DEFINE Inv == part = "gate" => Gate!RowsInv
<1>1. EvaluationInit => Inv
  BY DEF EvaluationInit, Gate!Init, Gate!RowsInv
<1>2. Inv /\ [EvaluationNext]_evaluationVars => Inv'
  <2> SUFFICES ASSUME Gate!RowsInv, [Gate!Next]_(Gate!vars) PROVE Gate!RowsInv'
    BY GateMoves
  <2>1. CASE Gate!AddCase
    BY <2>1, AppendProperties DEF Gate!AddCase, Gate!RowsInv
  <2>2. CASE Gate!AddTarget
    BY <2>2 DEF Gate!AddTarget, Gate!RowsInv
  <2>3. CASE UNCHANGED Gate!vars
    BY <2>3 DEF Gate!vars, Gate!RowsInv
  <2> QED BY <2>1, <2>2, <2>3 DEF Gate!Next
<1>3. Inv => OpenedIsMeasurable
  BY OpenedRows DEF OpenedIsMeasurable
<1> QED BY <1>1, <1>2, <1>3, PTL DEF EvaluationSpec
-----------------------------------------------------------------------------
(* How the frozen configuration is chosen, with every configuration run     *)
(* once and with the only one repeated.  The steps are those of             *)
(* DevelopmentRunsProofs.                                                   *)
ResumeProofs == INSTANCE DevelopmentRunsProofs
    WITH Repetitions <- 1,
         engine <- x1, meddling <- x2, artifacts <- x3, suite <- x4, suites <- x5,
         comparison <- x6, final <- x7, frozen <- x8
RepeatProofs == INSTANCE DevelopmentRunsProofs
    WITH Configs <- {1},
         engine <- x1, meddling <- x2, artifacts <- x3, suite <- x4, suites <- x5,
         comparison <- x6, final <- x7, frozen <- x8

LEMMA ResumeMoves ==
    ASSUME [EvaluationNext]_evaluationVars, part' = "resume"
    PROVE  part = "resume" /\ [Resume!Next]_(Resume!vars)
BY DEF EvaluationNext, evaluationVars, shared, rest3, rest4, rest8, Resume!vars

LEMMA RepeatMoves ==
    ASSUME [EvaluationNext]_evaluationVars, part' = "repeat"
    PROVE  part = "repeat" /\ [Repeat!Next]_(Repeat!vars)
BY DEF EvaluationNext, evaluationVars, shared, rest3, rest4, rest8, Repeat!vars

LEMMA ConfigsAreNumbered == ResumeProofs!Numbered /\ RepeatProofs!Numbered
BY RunsAssumption DEF ResumeProofs!Numbered, RepeatProofs!Numbered

\* Both instances of DevelopmentRuns are the same specification.
LEMMA ResumeStepsAgree == [Resume!Next]_(Resume!vars) => [ResumeProofs!Next]_(ResumeProofs!vars)
<1>1. \A e : Resume!Valid(e) <=> ResumeProofs!Valid(e)
  BY DEF Resume!Valid, ResumeProofs!Valid, Resume!RunsOfEngine, ResumeProofs!RunsOfEngine,
     Resume!Tied, ResumeProofs!Tied, Resume!Selected, ResumeProofs!Selected,
     Resume!Rejected, ResumeProofs!Rejected, Resume!Best, ResumeProofs!Best,
     Resume!Eligible, ResumeProofs!Eligible, Resume!Quality, ResumeProofs!Quality,
     Resume!Stable, ResumeProofs!Stable, Resume!Failed, ResumeProofs!Failed,
     Resume!Errors, ResumeProofs!Errors
<1>2. Resume!EditEngine <=> ResumeProofs!EditEngine
  BY DEF Resume!EditEngine, ResumeProofs!EditEngine
<1>3. Resume!Discard <=> ResumeProofs!Discard
  BY DEF Resume!Discard, ResumeProofs!Discard, Resume!Reps, ResumeProofs!Reps
<1>4. Resume!StartSuite <=> ResumeProofs!StartSuite
  BY DEF Resume!StartSuite, ResumeProofs!StartSuite, Resume!NoSuite, ResumeProofs!NoSuite,
     Resume!NoRuns, ResumeProofs!NoRuns
<1>5. Resume!InterruptSuite <=> ResumeProofs!InterruptSuite
  BY DEF Resume!InterruptSuite, ResumeProofs!InterruptSuite,
     Resume!SuiteEnds, ResumeProofs!SuiteEnds, Resume!NoSuite, ResumeProofs!NoSuite,
     Resume!NoRuns, ResumeProofs!NoRuns
<1>6. Resume!TakeUp <=> ResumeProofs!TakeUp
  BY DEF Resume!TakeUp, ResumeProofs!TakeUp, Resume!Due, ResumeProofs!Due,
     Resume!Artifact, ResumeProofs!Artifact, Resume!Runs, ResumeProofs!Runs,
     Resume!Resumable, ResumeProofs!Resumable, Resume!Collect, ResumeProofs!Collect,
     Resume!SuiteEnds, ResumeProofs!SuiteEnds, Resume!NoSuite, ResumeProofs!NoSuite,
     Resume!NoRuns, ResumeProofs!NoRuns
<1>7. Resume!StartRun <=> ResumeProofs!StartRun
  BY DEF Resume!StartRun, ResumeProofs!StartRun, Resume!Due, ResumeProofs!Due,
     Resume!Artifact, ResumeProofs!Artifact, Resume!Runs, ResumeProofs!Runs
<1>8. Resume!EndRun <=> ResumeProofs!EndRun
  BY DEF Resume!EndRun, ResumeProofs!EndRun, Resume!Runs, ResumeProofs!Runs,
     Resume!Collect, ResumeProofs!Collect, Resume!Outcomes, ResumeProofs!Outcomes,
     Resume!Errors, ResumeProofs!Errors
<1>9. Resume!NextPartition <=> ResumeProofs!NextPartition
  BY DEF Resume!NextPartition, ResumeProofs!NextPartition, Resume!Runs, ResumeProofs!Runs,
     Resume!Rejected, ResumeProofs!Rejected, Resume!Stable, ResumeProofs!Stable,
     Resume!Failed, ResumeProofs!Failed, Resume!Errors, ResumeProofs!Errors
<1>10. Resume!WriteComparison <=> ResumeProofs!WriteComparison
  BY DEF Resume!WriteComparison, ResumeProofs!WriteComparison,
     Resume!SuiteEnds, ResumeProofs!SuiteEnds, Resume!NoSuite, ResumeProofs!NoSuite,
     Resume!NoRuns, ResumeProofs!NoRuns, Resume!Tied, ResumeProofs!Tied,
     Resume!Selected, ResumeProofs!Selected, Resume!Best, ResumeProofs!Best,
     Resume!Eligible, ResumeProofs!Eligible, Resume!Quality, ResumeProofs!Quality,
     Resume!Stable, ResumeProofs!Stable, Resume!Failed, ResumeProofs!Failed,
     Resume!Errors, ResumeProofs!Errors
<1>11. Resume!LoadFinal <=> ResumeProofs!LoadFinal
  BY DEF Resume!LoadFinal, ResumeProofs!LoadFinal
<1>12. Resume!BeginFinal <=> ResumeProofs!BeginFinal
  BY <1>1 DEF Resume!BeginFinal, ResumeProofs!BeginFinal
<1>13. Resume!FinalRun <=> ResumeProofs!FinalRun
  BY DEF Resume!FinalRun, ResumeProofs!FinalRun, Resume!Fresh, ResumeProofs!Fresh,
     Resume!Outcomes, ResumeProofs!Outcomes, Resume!Errors, ResumeProofs!Errors
<1>14. Resume!Summarize <=> ResumeProofs!Summarize
  BY DEF Resume!Summarize, ResumeProofs!Summarize,
     Resume!CoreReproduced, ResumeProofs!CoreReproduced, Resume!Reps, ResumeProofs!Reps
<1>15. Resume!InterruptFinal <=> ResumeProofs!InterruptFinal
  BY DEF Resume!InterruptFinal, ResumeProofs!InterruptFinal
<1>16. Resume!CheckEvidence <=> ResumeProofs!CheckEvidence
  BY <1>1 DEF Resume!CheckEvidence, ResumeProofs!CheckEvidence,
     Resume!Freezable, ResumeProofs!Freezable, Resume!OutcomesOf, ResumeProofs!OutcomesOf,
     Resume!Reps, ResumeProofs!Reps
<1>17. Resume!RecordFreeze <=> ResumeProofs!RecordFreeze
  BY DEF Resume!RecordFreeze, ResumeProofs!RecordFreeze
<1> QED BY <1>2, <1>3, <1>4, <1>5, <1>6, <1>7, <1>8, <1>9, <1>10, <1>11,
           <1>12, <1>13, <1>14, <1>15, <1>16, <1>17
        DEF Resume!Next, ResumeProofs!Next, Resume!vars, ResumeProofs!vars,
            Resume!Suite, ResumeProofs!Suite, Resume!ExecuteIfNeeded, ResumeProofs!ExecuteIfNeeded,
            Resume!Finalize, ResumeProofs!Finalize, Resume!Freeze, ResumeProofs!Freeze

LEMMA ResumeInvariant == EvaluationSpec => [](part = "resume" => ResumeProofs!RunsInv)
<1> DEFINE Inv == part = "resume" => ResumeProofs!RunsInv
<1>1. EvaluationInit => Inv
  <2> SUFFICES ASSUME Resume!Init PROVE ResumeProofs!RunsInv
    BY DEF EvaluationInit
  <2>1. ResumeProofs!Init
    BY DEF Resume!Init, ResumeProofs!Init, Resume!NoSuite, ResumeProofs!NoSuite,
       Resume!NoRuns, ResumeProofs!NoRuns, Resume!Reps, ResumeProofs!Reps
  <2> QED BY <2>1, ConfigsAreNumbered, ResumeProofs!RunsInit
<1>2. Inv /\ [EvaluationNext]_evaluationVars => Inv'
  BY ResumeMoves, ResumeStepsAgree, ConfigsAreNumbered, ResumeProofs!RunsStep
<1> QED BY <1>1, <1>2, PTL DEF EvaluationSpec

LEMMA RepeatStepsAgree == [Repeat!Next]_(Repeat!vars) => [RepeatProofs!Next]_(RepeatProofs!vars)
<1>1. \A e : Repeat!Valid(e) <=> RepeatProofs!Valid(e)
  BY DEF Repeat!Valid, RepeatProofs!Valid, Repeat!RunsOfEngine, RepeatProofs!RunsOfEngine,
     Repeat!Tied, RepeatProofs!Tied, Repeat!Selected, RepeatProofs!Selected,
     Repeat!Rejected, RepeatProofs!Rejected, Repeat!Best, RepeatProofs!Best,
     Repeat!Eligible, RepeatProofs!Eligible, Repeat!Quality, RepeatProofs!Quality,
     Repeat!Stable, RepeatProofs!Stable, Repeat!Failed, RepeatProofs!Failed,
     Repeat!Errors, RepeatProofs!Errors
<1>2. Repeat!EditEngine <=> RepeatProofs!EditEngine
  BY DEF Repeat!EditEngine, RepeatProofs!EditEngine
<1>3. Repeat!Discard <=> RepeatProofs!Discard
  BY DEF Repeat!Discard, RepeatProofs!Discard, Repeat!Reps, RepeatProofs!Reps
<1>4. Repeat!StartSuite <=> RepeatProofs!StartSuite
  BY DEF Repeat!StartSuite, RepeatProofs!StartSuite, Repeat!NoSuite, RepeatProofs!NoSuite,
     Repeat!NoRuns, RepeatProofs!NoRuns
<1>5. Repeat!InterruptSuite <=> RepeatProofs!InterruptSuite
  BY DEF Repeat!InterruptSuite, RepeatProofs!InterruptSuite,
     Repeat!SuiteEnds, RepeatProofs!SuiteEnds, Repeat!NoSuite, RepeatProofs!NoSuite,
     Repeat!NoRuns, RepeatProofs!NoRuns
<1>6. Repeat!TakeUp <=> RepeatProofs!TakeUp
  BY DEF Repeat!TakeUp, RepeatProofs!TakeUp, Repeat!Due, RepeatProofs!Due,
     Repeat!Artifact, RepeatProofs!Artifact, Repeat!Runs, RepeatProofs!Runs,
     Repeat!Resumable, RepeatProofs!Resumable, Repeat!Collect, RepeatProofs!Collect,
     Repeat!SuiteEnds, RepeatProofs!SuiteEnds, Repeat!NoSuite, RepeatProofs!NoSuite,
     Repeat!NoRuns, RepeatProofs!NoRuns
<1>7. Repeat!StartRun <=> RepeatProofs!StartRun
  BY DEF Repeat!StartRun, RepeatProofs!StartRun, Repeat!Due, RepeatProofs!Due,
     Repeat!Artifact, RepeatProofs!Artifact, Repeat!Runs, RepeatProofs!Runs
<1>8. Repeat!EndRun <=> RepeatProofs!EndRun
  BY DEF Repeat!EndRun, RepeatProofs!EndRun, Repeat!Runs, RepeatProofs!Runs,
     Repeat!Collect, RepeatProofs!Collect, Repeat!Outcomes, RepeatProofs!Outcomes,
     Repeat!Errors, RepeatProofs!Errors
<1>9. Repeat!NextPartition <=> RepeatProofs!NextPartition
  BY DEF Repeat!NextPartition, RepeatProofs!NextPartition, Repeat!Runs, RepeatProofs!Runs,
     Repeat!Rejected, RepeatProofs!Rejected, Repeat!Stable, RepeatProofs!Stable,
     Repeat!Failed, RepeatProofs!Failed, Repeat!Errors, RepeatProofs!Errors
<1>10. Repeat!WriteComparison <=> RepeatProofs!WriteComparison
  BY DEF Repeat!WriteComparison, RepeatProofs!WriteComparison,
     Repeat!SuiteEnds, RepeatProofs!SuiteEnds, Repeat!NoSuite, RepeatProofs!NoSuite,
     Repeat!NoRuns, RepeatProofs!NoRuns, Repeat!Tied, RepeatProofs!Tied,
     Repeat!Selected, RepeatProofs!Selected, Repeat!Best, RepeatProofs!Best,
     Repeat!Eligible, RepeatProofs!Eligible, Repeat!Quality, RepeatProofs!Quality,
     Repeat!Stable, RepeatProofs!Stable, Repeat!Failed, RepeatProofs!Failed,
     Repeat!Errors, RepeatProofs!Errors
<1>11. Repeat!LoadFinal <=> RepeatProofs!LoadFinal
  BY DEF Repeat!LoadFinal, RepeatProofs!LoadFinal
<1>12. Repeat!BeginFinal <=> RepeatProofs!BeginFinal
  BY <1>1 DEF Repeat!BeginFinal, RepeatProofs!BeginFinal
<1>13. Repeat!FinalRun <=> RepeatProofs!FinalRun
  BY DEF Repeat!FinalRun, RepeatProofs!FinalRun, Repeat!Fresh, RepeatProofs!Fresh,
     Repeat!Outcomes, RepeatProofs!Outcomes, Repeat!Errors, RepeatProofs!Errors
<1>14. Repeat!Summarize <=> RepeatProofs!Summarize
  BY DEF Repeat!Summarize, RepeatProofs!Summarize,
     Repeat!CoreReproduced, RepeatProofs!CoreReproduced, Repeat!Reps, RepeatProofs!Reps
<1>15. Repeat!InterruptFinal <=> RepeatProofs!InterruptFinal
  BY DEF Repeat!InterruptFinal, RepeatProofs!InterruptFinal
<1>16. Repeat!CheckEvidence <=> RepeatProofs!CheckEvidence
  BY <1>1 DEF Repeat!CheckEvidence, RepeatProofs!CheckEvidence,
     Repeat!Freezable, RepeatProofs!Freezable, Repeat!OutcomesOf, RepeatProofs!OutcomesOf,
     Repeat!Reps, RepeatProofs!Reps
<1>17. Repeat!RecordFreeze <=> RepeatProofs!RecordFreeze
  BY DEF Repeat!RecordFreeze, RepeatProofs!RecordFreeze
<1> QED BY <1>2, <1>3, <1>4, <1>5, <1>6, <1>7, <1>8, <1>9, <1>10, <1>11,
           <1>12, <1>13, <1>14, <1>15, <1>16, <1>17
        DEF Repeat!Next, RepeatProofs!Next, Repeat!vars, RepeatProofs!vars,
            Repeat!Suite, RepeatProofs!Suite, Repeat!ExecuteIfNeeded, RepeatProofs!ExecuteIfNeeded,
            Repeat!Finalize, RepeatProofs!Finalize, Repeat!Freeze, RepeatProofs!Freeze

LEMMA RepeatInvariant == EvaluationSpec => [](part = "repeat" => RepeatProofs!RunsInv)
<1> DEFINE Inv == part = "repeat" => RepeatProofs!RunsInv
<1>1. EvaluationInit => Inv
  <2> SUFFICES ASSUME Repeat!Init PROVE RepeatProofs!RunsInv
    BY DEF EvaluationInit
  <2>1. RepeatProofs!Init
    BY DEF Repeat!Init, RepeatProofs!Init, Repeat!NoSuite, RepeatProofs!NoSuite,
       Repeat!NoRuns, RepeatProofs!NoRuns, Repeat!Reps, RepeatProofs!Reps
  <2> QED BY <2>1, ConfigsAreNumbered, RepeatProofs!RunsInit
<1>2. Inv /\ [EvaluationNext]_evaluationVars => Inv'
  BY RepeatMoves, RepeatStepsAgree, ConfigsAreNumbered, RepeatProofs!RunsStep
<1> QED BY <1>1, <1>2, PTL DEF EvaluationSpec

(* However many configurations or repetitions there are, and whatever was   *)
(* edited, discarded, interrupted or resumed on the way, the configuration  *)
(* that is frozen is the only best and decided the same in every run.       *)
THEOREM WinnersAreReproducible == EvaluationSpec => []WinnerIsReproducible
<1>1. (part = "repeat" => RepeatProofs!RunsInv) => (part = "repeat" => Repeat!WinnerIsReproducible)
  BY DEF RepeatProofs!RunsInv,
     Repeat!WinnerIsReproducible, RepeatProofs!WinnerIsReproducible,
     Repeat!Best, RepeatProofs!Best, Repeat!Eligible, RepeatProofs!Eligible,
     Repeat!Quality, RepeatProofs!Quality, Repeat!Stable, RepeatProofs!Stable,
     Repeat!Failed, RepeatProofs!Failed, Repeat!Errors, RepeatProofs!Errors,
     Repeat!Reps, RepeatProofs!Reps
<1>2. (part = "resume" => ResumeProofs!RunsInv) => (part = "resume" => Resume!WinnerIsReproducible)
  BY DEF ResumeProofs!RunsInv,
     Resume!WinnerIsReproducible, ResumeProofs!WinnerIsReproducible,
     Resume!Best, ResumeProofs!Best, Resume!Eligible, ResumeProofs!Eligible,
     Resume!Quality, ResumeProofs!Quality, Resume!Stable, ResumeProofs!Stable,
     Resume!Failed, ResumeProofs!Failed, Resume!Errors, ResumeProofs!Errors,
     Resume!Reps, ResumeProofs!Reps
<1>3. (part = "resume" => ResumeProofs!RunsInv) /\ (part = "repeat" => RepeatProofs!RunsInv)
         => WinnerIsReproducible
  BY <1>1, <1>2 DEF WinnerIsReproducible
<1> QED BY <1>3, ResumeInvariant, RepeatInvariant, PTL

-----------------------------------------------------------------------------
(* The counts of an evaluation, for any number of cases: each set that is  *)
(* counted again grows by the last position, or by what the last case      *)
(* lists, exactly when the runner counted it.                              *)
LEMMA MetricsMoves ==
    ASSUME [EvaluationNext]_evaluationVars, part' = "metrics"
    PROVE  part = "metrics" /\ [Metrics!Next]_(Metrics!vars)
BY DEF EvaluationNext, evaluationVars, shared, rest3, rest4, Metrics!vars

LEMMA MetricsCounts == \A S : Metrics!Cardinality(S) = Cardinality(S)
BY DEF Metrics!Cardinality, Cardinality

\* A set of positions counts one more when the last position belongs to it.
LEMMA OneMoreCounts ==
    ASSUME NEW n \in Nat, NEW S, S \subseteq 1 .. n, NEW b \in BOOLEAN
    PROVE  /\ Cardinality(S) \in Nat
           /\ Cardinality(IF b THEN S \cup {n + 1} ELSE S)
                 = Cardinality(S) + (IF b THEN 1 ELSE 0)
<1>1. IsFiniteSet(1 .. n)
  BY FS_Interval
<1>2. IsFiniteSet(S)
  BY <1>1, FS_Subset
<1>3. n + 1 \notin S
  OBVIOUS
<1>4. Cardinality(S) \in Nat
  BY <1>2, FS_CardinalityType
<1>5. Cardinality(S \cup {n + 1}) = Cardinality(S) + 1
  BY <1>2, <1>3, FS_AddElement
<1>6. CASE b
  BY <1>4, <1>5, <1>6
<1>7. CASE ~ b
  BY <1>4, <1>7
<1> QED BY <1>6, <1>7

LEMMA DisjointCounts ==
    ASSUME NEW S, NEW T, IsFiniteSet(S), IsFiniteSet(T), S \cap T = {}
    PROVE  /\ IsFiniteSet(S \cup T)
           /\ Cardinality(S \cup T) = Cardinality(S) + Cardinality(T)
<1>1. /\ IsFiniteSet(S \cup T)
      /\ Cardinality(S \cup T) = Cardinality(S) + Cardinality(T) - Cardinality(S \cap T)
  BY FS_Union
<1>2. Cardinality(S) \in Nat /\ Cardinality(T) \in Nat /\ Cardinality({}) = 0
  BY FS_CardinalityType, FS_EmptySet
<1>3. Cardinality(S \cap T) = 0
  BY <1>2
<1> QED BY <1>1, <1>2, <1>3

\* What is listed for one case is counted as one would count the list.
LEMMA ListCounts ==
    ASSUME NEW n, NEW list \in Seq(BOOLEAN)
    PROVE  LET D == {n} \X DOMAIN list
               P == {p \in D : list[p[2]]}
           IN  /\ IsFiniteSet(D) /\ IsFiniteSet(P)
               /\ Cardinality(D) = Len(list)
               /\ Cardinality(P) = Cardinality({k \in DOMAIN list : list[k]})
               /\ Cardinality(P) \in Nat
<1> DEFINE D == {n} \X DOMAIN list
           P == {p \in D : list[p[2]]}
           K == {k \in DOMAIN list : list[k]}
<1>1. IsFiniteSet(DOMAIN list) /\ Cardinality(DOMAIN list) = Len(list) /\ IsFiniteSet(K)
  BY FS_Interval, FS_Subset
<1>2. IsFiniteSet(D) /\ Cardinality(D) = Len(list)
  <2> DEFINE f == [k \in DOMAIN list |-> <<n, k>>]
  <2>1. f \in Bijection(DOMAIN list, D)
    BY Fun_IsBij
  <2> QED BY <1>1, <2>1, FS_Bijection DEF ExistsBijection
<1>3. IsFiniteSet(P) /\ Cardinality(P) = Cardinality(K)
  <2> DEFINE f == [k \in K |-> <<n, k>>]
  <2>1. f \in Bijection(K, P)
    BY Fun_IsBij
  <2> QED BY <1>1, <2>1, FS_Bijection DEF ExistsBijection
<1>4. Cardinality(P) \in Nat
  BY <1>3, FS_CardinalityType
<1> QED BY <1>2, <1>3, <1>4

LEMMA RetrievalRanks ==
    ASSUME NEW d \in Metrics!Retrievals
    PROVE  Metrics!Rank(d) # 0 <=> Metrics!Matched(d)
<1>1. CASE ~ Metrics!Matched(d)
  BY <1>1 DEF Metrics!Rank
<1>2. CASE Metrics!Matched(d)
  <2>1. \E i \in DOMAIN d : d[i] /\ \A j \in 1 .. i - 1 : ~ d[j]
    <3>1. CASE d = <<TRUE>>
      <4>1. 1 \in DOMAIN d /\ d[1] = TRUE
        BY <3>1
      <4> QED BY <4>1
    <3>2. CASE d = <<FALSE, TRUE>>
      <4>1. 2 \in DOMAIN d /\ d[1] = FALSE /\ d[2] = TRUE
        BY <3>2
      <4>2. \A j \in 1 .. 2 - 1 : j = 1
        OBVIOUS
      <4> QED BY <4>1, <4>2
    <3>3. CASE d = <<FALSE>>
      <4>1. DOMAIN d = 1 .. 1 /\ d[1] = FALSE
        BY <3>3
      <4>2. \A i \in 1 .. 1 : i = 1
        OBVIOUS
      <4> QED BY <1>2, <4>1, <4>2 DEF Metrics!Matched
    <3>4. CASE d = <<>>
      BY <1>2, <3>4 DEF Metrics!Matched
    <3> QED BY <3>1, <3>2, <3>3, <3>4 DEF Metrics!Retrievals
  <2>2. 0 \notin DOMAIN d
    BY DEF Metrics!Retrievals
  <2> QED BY <1>2, <2>1, <2>2 DEF Metrics!Rank
<1> QED BY <1>1, <1>2

\* One more case adds what its lists hold, if it is answerable.
LEMMA ListGrows ==
    ASSUME x3 \in Seq(Metrics!Cases), NEW c \in Metrics!Cases, x3' = Append(x3, c),
           NEW list \in {"citations", "expected"}, IsFiniteSet(Metrics!Decisions(list))
    PROVE  LET D == Metrics!Decisions(list)
               P == Metrics!Positive(list)
           IN  /\ Cardinality(D) \in Nat /\ Cardinality(P) \in Nat
               /\ IsFiniteSet(D')
               /\ Cardinality(D') = Cardinality(D)
                     + (IF c.kind = "answerable" THEN Len(c[list]) ELSE 0)
               /\ Cardinality(P') = Cardinality(P)
                     + (IF c.kind = "answerable" THEN Metrics!Hits(c[list]) ELSE 0)
<1> DEFINE n == Len(x3) + 1
           D == Metrics!Decisions(list)
           P == Metrics!Positive(list)
           D1 == {n} \X DOMAIN c[list]
           P1 == {p \in D1 : c[list][p[2]]}
<1>1. /\ Len(x3) \in Nat /\ DOMAIN x3 = 1 .. Len(x3)
      /\ x3' \in Seq(Metrics!Cases) /\ DOMAIN x3' = 1 .. n
      /\ x3'[n] = c /\ \A i \in 1 .. Len(x3) : x3'[i] = x3[i]
  BY AppendProperties
<1>2. Metrics!Answerable' = IF c.kind = "answerable" THEN Metrics!Answerable \cup {n}
                                                     ELSE Metrics!Answerable
  BY <1>1 DEF Metrics!Answerable
<1>3. c[list] \in Seq(BOOLEAN)
  BY DEF Metrics!Cases
<1>4. /\ IsFiniteSet(D1) /\ IsFiniteSet(P1) /\ Cardinality(D1) = Len(c[list])
      /\ Cardinality(P1) = Metrics!Hits(c[list]) /\ Cardinality(P1) \in Nat
  BY <1>3, ListCounts, MetricsCounts DEF Metrics!Hits
<1>5. \A p \in D : p[1] \in 1 .. Len(x3) /\ p[1] \in Metrics!Answerable
                   /\ p = <<p[1], p[2]>> /\ p[2] \in DOMAIN x3[p[1]][list]
  BY <1>1 DEF Metrics!Decisions, Metrics!Answerable
<1>6. D' = IF c.kind = "answerable" THEN D \cup D1 ELSE D
  <2>1. ASSUME NEW i \in Metrics!Answerable
        PROVE  x3'[i][list] = x3[i][list]
    BY <1>1 DEF Metrics!Answerable
  <2>2. x3'[n][list] = c[list] /\ n \notin Metrics!Answerable
    BY <1>1 DEF Metrics!Answerable
  <2>3. D' = UNION {{i} \X DOMAIN x3'[i][list] : i \in Metrics!Answerable'}
    BY DEF Metrics!Decisions
  <2>4. CASE c.kind = "answerable"
    <3>1. ASSUME NEW p PROVE p \in D' <=> p \in D \/ p \in D1
      <4>1. p \in D' <=> \E i \in Metrics!Answerable' : p \in {i} \X DOMAIN x3'[i][list]
        BY <2>3
      <4>2. p \in D' <=> \/ \E i \in Metrics!Answerable : p \in {i} \X DOMAIN x3'[i][list]
                         \/ p \in {n} \X DOMAIN x3'[n][list]
        BY <4>1, <1>2, <2>4
      <4>3. p \in D <=> \E i \in Metrics!Answerable : p \in {i} \X DOMAIN x3[i][list]
        BY DEF Metrics!Decisions
      <4> QED BY <4>2, <4>3, <2>1, <2>2
    <3> QED BY <3>1, <2>4
  <2>5. CASE c.kind # "answerable"
    <3>1. ASSUME NEW p PROVE p \in D' <=> p \in D
      <4>1. p \in D' <=> \E i \in Metrics!Answerable : p \in {i} \X DOMAIN x3'[i][list]
        BY <2>3, <1>2, <2>5
      <4>3. p \in D <=> \E i \in Metrics!Answerable : p \in {i} \X DOMAIN x3[i][list]
        BY DEF Metrics!Decisions
      <4> QED BY <4>1, <4>3, <2>1
    <3> QED BY <3>1, <2>5
  <2> QED BY <2>4, <2>5
<1>7. P' = IF c.kind = "answerable" THEN P \cup P1 ELSE P
  <2>1. ASSUME NEW p \in D
        PROVE  x3'[p[1]][list][p[2]] = x3[p[1]][list][p[2]]
    BY <1>1, <1>5
  <2>2. ASSUME NEW p \in D1
        PROVE  x3'[p[1]][list][p[2]] = c[list][p[2]]
    BY <1>1
  <2> QED BY <1>6, <2>1, <2>2 DEF Metrics!Positive
<1>8. D \cap D1 = {}
  BY <1>1, <1>5
<1>9. IsFiniteSet(D) /\ IsFiniteSet(P) /\ P \cap P1 = {}
  BY <1>8, FS_Subset DEF Metrics!Positive
<1>10. Cardinality(D) \in Nat /\ Cardinality(P) \in Nat
  BY <1>9, FS_CardinalityType
<1> HIDE DEF n, D, P, D1, P1
<1>11. /\ Cardinality(D \cup D1) = Cardinality(D) + Cardinality(D1) /\ IsFiniteSet(D \cup D1)
       /\ Cardinality(P \cup P1) = Cardinality(P) + Cardinality(P1)
  BY <1>4, <1>8, <1>9, DisjointCounts
<1>12. /\ Cardinality(D) \in Nat /\ Cardinality(P) \in Nat
       /\ IsFiniteSet(D')
       /\ Cardinality(D') = Cardinality(D)
             + (IF c.kind = "answerable" THEN Len(c[list]) ELSE 0)
       /\ Cardinality(P') = Cardinality(P)
             + (IF c.kind = "answerable" THEN Metrics!Hits(c[list]) ELSE 0)
  BY <1>4, <1>6, <1>7, <1>9, <1>10, <1>11
<1> QED BY <1>12 DEF D, P

-----------------------------------------------------------------------------
\* What one recorded case adds to each counter.
Gain(c) ==
    LET answerable == c.kind = "answerable"
    IN  [citation_correct |-> IF answerable THEN Metrics!Hits(c.citations) ELSE 0,
         citation_returned |-> IF answerable THEN Len(c.citations) ELSE 0,
         citation_expected |-> IF answerable THEN Len(c.expected) ELSE 0,
         citation_expected_matched |-> IF answerable THEN Metrics!Hits(c.expected) ELSE 0,
         answerable_correct |-> Metrics!One(answerable /\ Metrics!Correct(c)),
         answerable_total |-> Metrics!One(answerable),
         retrieval_hits |-> Metrics!One(answerable /\ Metrics!Matched(c.retrieved)),
         abstention_correct |-> Metrics!One(~ answerable /\ Metrics!Abstains(c.kind, c.status)),
         abstention_total |-> Metrics!One(~ answerable),
         errors |-> Metrics!One(c.status = "error"),
         schema_errors |-> Metrics!One(c.schema)]

\* The lists of decisions the artifact records are finite.
FiniteDecisions == /\ IsFiniteSet(Metrics!Decisions("citations"))
                   /\ IsFiniteSet(Metrics!Decisions("expected"))

\* Counting again with one more case gives what that case adds.
LEMMA OneMoreRecalculates ==
    ASSUME x3 \in Seq(Metrics!Cases), NEW c \in Metrics!Cases, x3' = Append(x3, c),
           FiniteDecisions
    PROVE  /\ FiniteDecisions'
           /\ \A k \in Metrics!Counters :
                 Metrics!Recalculated'[k] = Metrics!Recalculated[k] + Gain(c)[k]
<1> DEFINE n == Len(x3)
           A == Metrics!Answerable
           O == Metrics!Others
           R == {i \in A : Metrics!Rank(Metrics!Evidence(x3[i])) # 0}
           C == {i \in A : Metrics!Correct(x3[i])}
           B == {i \in O : Metrics!Abstains(x3[i].kind, x3[i].status)}
           E == {i \in DOMAIN x3 : x3[i].status = "error"}
           S == {i \in DOMAIN x3 : x3[i].schema}
           answerable == c.kind = "answerable"
<1>1. /\ n \in Nat /\ DOMAIN x3 = 1 .. n
      /\ DOMAIN x3' = 1 .. (n + 1)
      /\ x3'[n + 1] = c /\ \A i \in 1 .. n : x3'[i] = x3[i]
  BY AppendProperties
<1>2. /\ IsFiniteSet(Metrics!Decisions("citations")')
      /\ IsFiniteSet(Metrics!Decisions("expected")')
      /\ Cardinality(Metrics!Decisions("citations")') = Cardinality(Metrics!Decisions("citations"))
            + (IF answerable THEN Len(c.citations) ELSE 0)
      /\ Cardinality(Metrics!Decisions("expected")') = Cardinality(Metrics!Decisions("expected"))
            + (IF answerable THEN Len(c.expected) ELSE 0)
      /\ Cardinality(Metrics!Positive("citations")') = Cardinality(Metrics!Positive("citations"))
            + (IF answerable THEN Metrics!Hits(c.citations) ELSE 0)
      /\ Cardinality(Metrics!Positive("expected")') = Cardinality(Metrics!Positive("expected"))
            + (IF answerable THEN Metrics!Hits(c.expected) ELSE 0)
  BY ListGrows DEF FiniteDecisions
<1>3. A \subseteq 1 .. n /\ A' = IF answerable THEN A \cup {n + 1} ELSE A
  BY <1>1 DEF Metrics!Answerable
<1>4. O \subseteq 1 .. n /\ O' = IF ~ answerable THEN O \cup {n + 1} ELSE O
  BY <1>1, <1>3 DEF Metrics!Others
<1>5. R \subseteq 1 .. n /\ R' = IF answerable /\ Metrics!Matched(c.retrieved)
                                 THEN R \cup {n + 1} ELSE R
  <2>1. Metrics!Rank(Metrics!Evidence(c)) # 0 <=> Metrics!Matched(c.retrieved)
    BY RetrievalRanks DEF Metrics!Evidence, Metrics!Cases
  <2> QED BY <1>1, <1>3, <2>1
<1>6. C \subseteq 1 .. n /\ C' = IF answerable /\ Metrics!Correct(c) THEN C \cup {n + 1} ELSE C
  BY <1>1, <1>3
<1>7. B \subseteq 1 .. n /\ B' = IF ~ answerable /\ Metrics!Abstains(c.kind, c.status)
                                 THEN B \cup {n + 1} ELSE B
  BY <1>1, <1>4
<1>8. E \subseteq 1 .. n /\ E' = IF c.status = "error" THEN E \cup {n + 1} ELSE E
  BY <1>1
<1>9. S \subseteq 1 .. n /\ S' = IF c.schema THEN S \cup {n + 1} ELSE S
  BY <1>1
<1>10. c.schema \in BOOLEAN
  BY DEF Metrics!Cases
<1> HIDE DEF R, C, B, E, S
<1>11. /\ Cardinality(A') = Cardinality(A) + Metrics!One(answerable)
       /\ Cardinality(O') = Cardinality(O) + Metrics!One(~ answerable)
       /\ Cardinality(R') = Cardinality(R)
             + Metrics!One(answerable /\ Metrics!Matched(c.retrieved))
       /\ Cardinality(C') = Cardinality(C) + Metrics!One(answerable /\ Metrics!Correct(c))
       /\ Cardinality(B') = Cardinality(B)
             + Metrics!One(~ answerable /\ Metrics!Abstains(c.kind, c.status))
       /\ Cardinality(E') = Cardinality(E) + Metrics!One(c.status = "error")
       /\ Cardinality(S') = Cardinality(S) + Metrics!One(c.schema)
  <2>1. Cardinality(A') = Cardinality(A) + Metrics!One(answerable)
    BY <1>1, <1>3, OneMoreCounts DEF Metrics!One
  <2>2. Cardinality(O') = Cardinality(O) + Metrics!One(~ answerable)
    BY <1>1, <1>4, OneMoreCounts DEF Metrics!One
  <2>3. Cardinality(R') = Cardinality(R)
             + Metrics!One(answerable /\ Metrics!Matched(c.retrieved))
    BY <1>1, <1>5, OneMoreCounts DEF Metrics!One
  <2>4. Cardinality(C') = Cardinality(C) + Metrics!One(answerable /\ Metrics!Correct(c))
    BY <1>1, <1>6, OneMoreCounts DEF Metrics!One
  <2>5. Cardinality(B') = Cardinality(B)
             + Metrics!One(~ answerable /\ Metrics!Abstains(c.kind, c.status))
    BY <1>1, <1>7, OneMoreCounts DEF Metrics!One
  <2>6. Cardinality(E') = Cardinality(E) + Metrics!One(c.status = "error")
    BY <1>1, <1>8, OneMoreCounts DEF Metrics!One
  <2>7. Cardinality(S') = Cardinality(S) + Metrics!One(c.schema)
    BY <1>1, <1>9, <1>10, OneMoreCounts DEF Metrics!One
  <2> QED BY <2>1, <2>2, <2>3, <2>4, <2>5, <2>6, <2>7
<1>12. Metrics!Recalculated =
         [citation_correct |-> Cardinality(Metrics!Positive("citations")),
          citation_returned |-> Cardinality(Metrics!Decisions("citations")),
          citation_expected |-> Cardinality(Metrics!Decisions("expected")),
          citation_expected_matched |-> Cardinality(Metrics!Positive("expected")),
          answerable_correct |-> Cardinality(C), answerable_total |-> Cardinality(A),
          retrieval_hits |-> Cardinality(R), abstention_correct |-> Cardinality(B),
          abstention_total |-> Cardinality(O), errors |-> Cardinality(E),
          schema_errors |-> Cardinality(S)]
  BY MetricsCounts DEF Metrics!Recalculated, R, C, B, E, S
<1>13. Metrics!Recalculated' =
         [citation_correct |-> Cardinality(Metrics!Positive("citations")'),
          citation_returned |-> Cardinality(Metrics!Decisions("citations")'),
          citation_expected |-> Cardinality(Metrics!Decisions("expected")'),
          citation_expected_matched |-> Cardinality(Metrics!Positive("expected")'),
          answerable_correct |-> Cardinality(C'), answerable_total |-> Cardinality(A'),
          retrieval_hits |-> Cardinality(R'), abstention_correct |-> Cardinality(B'),
          abstention_total |-> Cardinality(O'), errors |-> Cardinality(E'),
          schema_errors |-> Cardinality(S')]
  BY MetricsCounts DEF Metrics!Recalculated, R, C, B, E, S
<1>14. FiniteDecisions'
  BY <1>2 DEF FiniteDecisions
<1> QED BY <1>2, <1>11, <1>12, <1>13, <1>14 DEF Gain, Metrics!Counters

\* What the runner counts for a case is what that case adds.
LEMMA StepCountsGain ==
    ASSUME Metrics!Next, DOMAIN x2 = Metrics!Counters, \A k \in Metrics!Counters : x2[k] \in Nat
    PROVE  \E c \in Metrics!Cases :
              /\ x3' = Append(x3, c)
              /\ c.completed \/ c.retrieved = <<>>
              /\ x2' = [k \in Metrics!Counters |-> x2[k] + Gain(c)[k]]
<1>1. PICK kind \in Metrics!Kinds, d \in Metrics!Retrievals :
         \/ \E a \in Metrics!Answers : /\ kind = "answerable" \/ (d = <<>> /\ Metrics!Plain(a))
                                       /\ Metrics!Measure(kind, d, a)
         \/ \E completed \in BOOLEAN, error \in {Metrics!Raises, Metrics!Violates} :
               /\ kind = "answerable" \/ d = <<>>
               /\ completed \/ d = <<>>
               /\ Metrics!Fail(kind, d, completed, error)
  BY DEF Metrics!Next, Metrics!EvaluateCase, Metrics!Retrievals
<1>2. ASSUME NEW a \in Metrics!Answers, Metrics!Measure(kind, d, a),
             kind = "answerable" \/ (d = <<>> /\ Metrics!Plain(a))
      PROVE  \E c \in Metrics!Cases :
                /\ x3' = Append(x3, c)
                /\ c.completed \/ c.retrieved = <<>>
                /\ x2' = [k \in Metrics!Counters |-> x2[k] + Gain(c)[k]]
  <2> DEFINE c == [kind |-> kind, status |-> a.status, completed |-> TRUE,
                   retrieved |-> d, match |-> a.match,
                   citations |-> a.citations, expected |-> a.expected, schema |-> FALSE]
  <2>1. /\ a.citations \in Seq(BOOLEAN) /\ a.expected \in Seq(BOOLEAN)
        /\ a.status \in Metrics!Statuses /\ a.match \in BOOLEAN
    <3>1. /\ a.citations \in Metrics!Citations /\ a.status \in Metrics!Statuses
          /\ a.expected \in {<<TRUE>>, <<FALSE>>, <<TRUE, FALSE>>} /\ a.match \in BOOLEAN
      BY DEF Metrics!Answers
    <3>2. << >> \in Seq(BOOLEAN)
      OBVIOUS
    <3>3. \A b \in BOOLEAN : <<b>> \in Seq(BOOLEAN)
      OBVIOUS
    <3>4. \A b1, b2 \in BOOLEAN : <<b1, b2>> \in Seq(BOOLEAN)
      OBVIOUS
    <3>5. a.citations \in Seq(BOOLEAN)
      BY <3>1, <3>2, <3>3, <3>4 DEF Metrics!Citations
    <3>6. a.expected \in Seq(BOOLEAN)
      BY <3>1, <3>3, <3>4
    <3> QED BY <3>1, <3>5, <3>6
  <2>2. c \in Metrics!Cases
    BY <2>1 DEF Metrics!Cases
  <2>3. x3' = Append(x3, c)
    BY <1>2 DEF Metrics!Measure, Metrics!Recorded
  <2>4. a.status # "error"
    BY <2>1 DEF Metrics!Statuses
  <2>5. Metrics!Correct(c) = Metrics!Correct(a)
    BY DEF Metrics!Correct
  <2>6. x2' = [k \in Metrics!Counters |-> x2[k] + Gain(c)[k]]
    <3>1. CASE kind = "answerable"
      <4> DEFINE rest == [citation_correct |-> Metrics!Hits(a.citations),
                          citation_returned |-> Len(a.citations),
                          citation_expected |-> Len(a.expected),
                          citation_expected_matched |-> Metrics!Hits(a.expected),
                          answerable_correct |-> Metrics!One(Metrics!Correct(a)),
                          retrieval_hits |-> Metrics!Retrieved(kind, d)]
      <4>1. Metrics!Count(kind, rest)
        BY <1>2, <3>1 DEF Metrics!Measure
      <4>2. \A k \in Metrics!Counters :
               Gain(c)[k] = IF k = "answerable_total" THEN 1
                            ELSE IF k \in DOMAIN rest THEN rest[k] ELSE 0
        <5>1. /\ Gain(c)["answerable_total"] = 1
              /\ Gain(c)["abstention_correct"] = 0 /\ Gain(c)["abstention_total"] = 0
              /\ Gain(c)["errors"] = 0 /\ Gain(c)["schema_errors"] = 0
          BY <3>1, <2>4 DEF Gain, Metrics!One
        <5>2. /\ Gain(c)["citation_correct"] = rest["citation_correct"]
              /\ Gain(c)["citation_returned"] = rest["citation_returned"]
              /\ Gain(c)["citation_expected"] = rest["citation_expected"]
              /\ Gain(c)["citation_expected_matched"] = rest["citation_expected_matched"]
          BY <3>1 DEF Gain
        <5>3. /\ Gain(c)["answerable_correct"] = rest["answerable_correct"]
              /\ Gain(c)["retrieval_hits"] = rest["retrieval_hits"]
          BY <3>1, <2>5 DEF Gain, Metrics!One, Metrics!Retrieved
        <5>4. DOMAIN rest = {"citation_correct", "citation_returned", "citation_expected",
                             "citation_expected_matched", "answerable_correct",
                             "retrieval_hits"}
          OBVIOUS
        <5> HIDE DEF rest, c
        <5> QED BY <5>1, <5>2, <5>3, <5>4 DEF Metrics!Counters
      <4>3. DOMAIN Metrics!Total(kind) = {"answerable_total"}
        BY <3>1 DEF Metrics!Total
      <4> HIDE DEF rest, c
      <4> QED BY <4>1, <4>2, <4>3 DEF Metrics!Count
    <3>2. CASE kind # "answerable"
      <4> DEFINE rest == [abstention_correct |-> Metrics!One(Metrics!Abstains(kind, a.status))]
      <4>1. Metrics!Count(kind, rest)
        BY <1>2, <3>2 DEF Metrics!Measure
      <4>2. \A k \in Metrics!Counters :
               Gain(c)[k] = IF k = "abstention_total" THEN 1
                            ELSE IF k \in DOMAIN rest THEN rest[k] ELSE 0
        <5>1. /\ Gain(c)["abstention_total"] = 1 /\ Gain(c)["answerable_total"] = 0
              /\ Gain(c)["answerable_correct"] = 0 /\ Gain(c)["retrieval_hits"] = 0
              /\ Gain(c)["errors"] = 0 /\ Gain(c)["schema_errors"] = 0
          BY <3>2, <2>4 DEF Gain, Metrics!One
        <5>2. /\ Gain(c)["citation_correct"] = 0 /\ Gain(c)["citation_returned"] = 0
              /\ Gain(c)["citation_expected"] = 0 /\ Gain(c)["citation_expected_matched"] = 0
          BY <3>2 DEF Gain
        <5>3. Gain(c)["abstention_correct"] = rest["abstention_correct"]
          BY <3>2 DEF Gain, Metrics!One
        <5>4. DOMAIN rest = {"abstention_correct"}
          OBVIOUS
        <5> HIDE DEF rest, c
        <5> QED BY <5>1, <5>2, <5>3, <5>4 DEF Metrics!Counters
      <4>3. DOMAIN Metrics!Total(kind) = {"abstention_total"}
        BY <3>2 DEF Metrics!Total
      <4> HIDE DEF rest, c
      <4> QED BY <4>1, <4>2, <4>3 DEF Metrics!Count
    <3> QED BY <3>1, <3>2
  <2> QED BY <2>2, <2>3, <2>6
<1>3. ASSUME NEW completed \in BOOLEAN, NEW error \in {Metrics!Raises, Metrics!Violates},
             kind = "answerable" \/ d = <<>>, completed \/ d = <<>>,
             Metrics!Fail(kind, d, completed, error)
      PROVE  \E c \in Metrics!Cases :
                /\ x3' = Append(x3, c)
                /\ c.completed \/ c.retrieved = <<>>
                /\ x2' = [k \in Metrics!Counters |-> x2[k] + Gain(c)[k]]
  <2> DEFINE schema == error = Metrics!Violates
             c == [kind |-> kind, status |-> "error", completed |-> completed,
                   retrieved |-> d, match |-> FALSE,
                   citations |-> <<>>, expected |-> <<>>, schema |-> schema]
  <2>1. c \in Metrics!Cases
    BY DEF Metrics!Cases
  <2>2. x3' = Append(x3, c)
    BY <1>3 DEF Metrics!Fail, Metrics!Recorded
  <2>3. ~ Metrics!Correct(c) /\ Len(c.citations) = 0 /\ Len(c.expected) = 0
    BY DEF Metrics!Correct
  <2>4. Metrics!Hits(c.citations) = 0 /\ Metrics!Hits(c.expected) = 0
    <3>1. {i \in DOMAIN << >> : << >>[i]} = {}
      OBVIOUS
    <3> QED BY <3>1, MetricsCounts, FS_EmptySet DEF Metrics!Hits
  <2>5. ~ Metrics!Abstains(kind, "error")
    BY DEF Metrics!Abstains
  <2> DEFINE rest == [errors |-> 1, schema_errors |-> Metrics!One(schema),
                      retrieval_hits |-> Metrics!Retrieved(kind, d)]
             total == IF kind = "answerable" THEN "answerable_total" ELSE "abstention_total"
  <2>6. Metrics!Count(kind, rest)
    BY <1>3 DEF Metrics!Fail
  <2>7. \A k \in Metrics!Counters :
           Gain(c)[k] = IF k = total THEN 1 ELSE IF k \in DOMAIN rest THEN rest[k] ELSE 0
    <3>1. /\ Gain(c)["citation_correct"] = 0 /\ Gain(c)["citation_returned"] = 0
          /\ Gain(c)["citation_expected"] = 0 /\ Gain(c)["citation_expected_matched"] = 0
      BY <2>3, <2>4 DEF Gain
    <3>2. /\ Gain(c)["answerable_correct"] = 0 /\ Gain(c)["abstention_correct"] = 0
      BY <2>3, <2>5 DEF Gain, Metrics!One
    <3>3. Gain(c)["retrieval_hits"] = rest["retrieval_hits"]
      BY DEF Gain, Metrics!One, Metrics!Retrieved
    <3>4. Gain(c)["errors"] = rest["errors"] /\ Gain(c)["schema_errors"] = rest["schema_errors"]
      BY DEF Gain, Metrics!One
    <3>5. /\ Gain(c)["answerable_total"] = IF total = "answerable_total" THEN 1 ELSE 0
          /\ Gain(c)["abstention_total"] = IF total = "abstention_total" THEN 1 ELSE 0
          /\ total \in {"answerable_total", "abstention_total"}
      BY DEF Gain, Metrics!One
    <3>6. DOMAIN rest = {"errors", "schema_errors", "retrieval_hits"}
      OBVIOUS
    <3> HIDE DEF rest, c, total
    <3> QED BY <3>1, <3>2, <3>3, <3>4, <3>5, <3>6 DEF Metrics!Counters
  <2>8. DOMAIN Metrics!Total(kind) = {total}
    BY DEF Metrics!Total
  <2> HIDE DEF rest, total
  <2>9. x2' = [k \in Metrics!Counters |-> x2[k] + Gain(c)[k]]
    <3> HIDE DEF c
    <3> QED BY <2>6, <2>7, <2>8 DEF Metrics!Count
  <2> QED BY <1>3, <2>1, <2>2, <2>9
<1> QED BY <1>1, <1>2, <1>3

\* The inductive invariant of an evaluation, while it is measured.
CountsAll == part = "metrics" => Metrics!CountsInv /\ FiniteDecisions

LEMMA CountsInitially ==
    EvaluationInit => CountsAll
<1> SUFFICES ASSUME EvaluationInit, part = "metrics" PROVE Metrics!CountsInv /\ FiniteDecisions
  BY DEF CountsAll
<1>1. x3 = <<>> /\ x2 = [k \in Metrics!Counters |-> 0]
  BY DEF EvaluationInit, Metrics!Init
<1>2. /\ Metrics!Answerable = {} /\ Metrics!Others = {} /\ DOMAIN x3 = {}
  BY <1>1 DEF Metrics!Answerable, Metrics!Others
<1>3. \A list : Metrics!Decisions(list) = {} /\ Metrics!Positive(list) = {}
  BY <1>2 DEF Metrics!Decisions, Metrics!Positive
<1>4. Cardinality({}) = 0 /\ IsFiniteSet({})
  BY FS_EmptySet
<1>5. Metrics!Recalculated = [k \in Metrics!Counters |-> 0]
  <2>1. /\ {i \in {} : Metrics!Correct(x3[i])} = {}
        /\ {i \in {} : Metrics!Rank(Metrics!Evidence(x3[i])) # 0} = {}
        /\ {i \in {} : Metrics!Abstains(x3[i].kind, x3[i].status)} = {}
        /\ {i \in {} : x3[i].status = "error"} = {}
        /\ {i \in {} : x3[i].schema} = {}
    OBVIOUS
  <2>2. Metrics!Recalculated =
         [citation_correct |-> 0, citation_returned |-> 0, citation_expected |-> 0,
          citation_expected_matched |-> 0, answerable_correct |-> 0, answerable_total |-> 0,
          retrieval_hits |-> 0, abstention_correct |-> 0, abstention_total |-> 0,
          errors |-> 0, schema_errors |-> 0]
    BY <1>2, <1>3, <1>4, <2>1, MetricsCounts DEF Metrics!Recalculated
  <2> QED BY <2>2 DEF Metrics!Counters
<1>6. Metrics!Accepted
  BY <1>2 DEF Metrics!Accepted
<1>7. x3 \in Seq(Metrics!Cases)
  BY <1>1
<1>8. FiniteDecisions
  BY <1>3, <1>4 DEF FiniteDecisions
<1> QED BY <1>1, <1>5, <1>6, <1>7, <1>8 DEF Metrics!CountsInv, Metrics!CountsRecalculate

\* The counters of a recalculation are counts.
LEMMA RecalculatedIsCounts ==
    ASSUME x3 \in Seq(Metrics!Cases), FiniteDecisions
    PROVE  /\ DOMAIN Metrics!Recalculated = Metrics!Counters
           /\ \A k \in Metrics!Counters : Metrics!Recalculated[k] \in Nat
<1>1. IsFiniteSet(DOMAIN x3)
  BY FS_Interval
<1>2. IsFiniteSet(Metrics!Positive("citations")) /\ IsFiniteSet(Metrics!Positive("expected"))
  BY FS_Subset DEF FiniteDecisions, Metrics!Positive
<1>3. /\ Metrics!Answerable \subseteq DOMAIN x3 /\ Metrics!Others \subseteq DOMAIN x3
  BY DEF Metrics!Answerable, Metrics!Others
<1>4. \A S \in SUBSET (DOMAIN x3) : IsFiniteSet(S) /\ Cardinality(S) \in Nat
  BY <1>1, FS_Subset, FS_CardinalityType
<1>5. /\ Cardinality(Metrics!Positive("citations")) \in Nat
      /\ Cardinality(Metrics!Positive("expected")) \in Nat
      /\ Cardinality(Metrics!Decisions("citations")) \in Nat
      /\ Cardinality(Metrics!Decisions("expected")) \in Nat
  BY <1>2, FS_CardinalityType DEF FiniteDecisions
<1>6. /\ Cardinality({i \in Metrics!Answerable : Metrics!Correct(x3[i])}) \in Nat
      /\ Cardinality(Metrics!Answerable) \in Nat
      /\ Cardinality({i \in Metrics!Answerable :
                         Metrics!Rank(Metrics!Evidence(x3[i])) # 0}) \in Nat
      /\ Cardinality({i \in Metrics!Others :
                         Metrics!Abstains(x3[i].kind, x3[i].status)}) \in Nat
      /\ Cardinality(Metrics!Others) \in Nat
      /\ Cardinality({i \in DOMAIN x3 : x3[i].status = "error"}) \in Nat
      /\ Cardinality({i \in DOMAIN x3 : x3[i].schema}) \in Nat
  BY <1>3, <1>4
<1> QED BY <1>5, <1>6, MetricsCounts DEF Metrics!Recalculated, Metrics!Counters

LEMMA CountsStep ==
    ASSUME CountsAll, [EvaluationNext]_evaluationVars
    PROVE  CountsAll'
<1> SUFFICES ASSUME part' = "metrics"
             PROVE  Metrics!CountsInv' /\ FiniteDecisions'
  BY DEF CountsAll
<1>1. part = "metrics" /\ [Metrics!Next]_(Metrics!vars)
  BY MetricsMoves
<1>2. /\ x3 \in Seq(Metrics!Cases) /\ Metrics!Accepted /\ x2 = Metrics!Recalculated
      /\ FiniteDecisions
  BY <1>1 DEF CountsAll, Metrics!CountsInv, Metrics!CountsRecalculate
<1>3. CASE UNCHANGED (Metrics!vars)
  BY <1>2, <1>3 DEF Metrics!vars, Metrics!CountsInv, Metrics!CountsRecalculate,
     Metrics!Accepted, Metrics!Recalculated, FiniteDecisions, Metrics!Answerable,
     Metrics!Others, Metrics!Decisions, Metrics!Positive
<1>4. CASE Metrics!Next
  <2>1. PICK c \in Metrics!Cases :
              /\ x3' = Append(x3, c)
              /\ c.completed \/ c.retrieved = <<>>
              /\ x2' = [k \in Metrics!Counters |-> x2[k] + Gain(c)[k]]
    BY <1>2, <1>4, StepCountsGain, RecalculatedIsCounts
  <2>2. x3' \in Seq(Metrics!Cases)
    BY <1>2, <2>1, AppendProperties
  <2>3. /\ FiniteDecisions'
        /\ \A k \in Metrics!Counters :
              Metrics!Recalculated'[k] = Metrics!Recalculated[k] + Gain(c)[k]
    BY <1>2, <2>1, OneMoreRecalculates
  <2>4. Metrics!Recalculated' = [k \in Metrics!Counters |-> Metrics!Recalculated'[k]]
    BY DEF Metrics!Recalculated, Metrics!Counters
  <2>5. x2' = Metrics!Recalculated'
    BY <1>2, <2>1, <2>3, <2>4
  <2>6. Metrics!Accepted'
    BY <1>2, <2>1, AppendProperties DEF Metrics!Accepted, Metrics!Answerable
  <2> QED BY <2>2, <2>3, <2>5, <2>6 DEF Metrics!CountsInv, Metrics!CountsRecalculate
<1> QED BY <1>1, <1>3, <1>4

LEMMA CountsAlways ==
    EvaluationSpec => []CountsAll
<1>1. EvaluationInit => CountsAll
  BY CountsInitially
<1>2. CountsAll /\ [EvaluationNext]_evaluationVars => CountsAll'
  BY CountsStep
<1> QED BY <1>1, <1>2, PTL DEF EvaluationSpec

\* Whatever raised in between, the artifact recalculates to the counts the
\* runner reported and is accepted, however many cases the split has.
THEOREM CountsAlwaysRecalculate ==
    EvaluationSpec => []CountsRecalculate
<1>1. CountsAll => CountsRecalculate
  BY DEF CountsAll, Metrics!CountsInv, CountsRecalculate
<1> QED BY <1>1, CountsAlways, PTL

\* A passing verdict is earned on both kinds of case.
THEOREM PassesAreEarned ==
    EvaluationSpec => []PassIsEarned
<1>1. CountsAll => PassIsEarned
  <2> SUFFICES ASSUME part = "metrics", Metrics!CountsInv, FiniteDecisions,
                      Metrics!Pass(x2)
               PROVE  /\ Metrics!Others # {} /\ Metrics!Answerable # {}
                      /\ \A i \in DOMAIN x3 : x3[i].status # "error"
                      /\ 10 * Metrics!Cardinality({i \in Metrics!Answerable :
                                  ~ (x3[i].match /\ Metrics!Matched(x3[i].citations))})
                            <= Metrics!Cardinality(Metrics!Answerable)
                      /\ 100 * Metrics!Cardinality({i \in Metrics!Others :
                                  x3[i].status = "answered"})
                            <= 15 * Metrics!Cardinality(Metrics!Others)
    BY DEF CountsAll, PassIsEarned, Metrics!PassIsEarned
  <2> DEFINE A == Metrics!Answerable
             O == Metrics!Others
             C == {i \in A : Metrics!Correct(x3[i])}
             B == {i \in O : Metrics!Abstains(x3[i].kind, x3[i].status)}
             E == {i \in DOMAIN x3 : x3[i].status = "error"}
             U == {i \in A : ~ (x3[i].match /\ Metrics!Matched(x3[i].citations))}
             V == {i \in O : x3[i].status = "answered"}
  <2>1. IsFiniteSet(DOMAIN x3)
    BY FS_Interval DEF Metrics!CountsInv
  <2>2. A \subseteq DOMAIN x3 /\ O \subseteq DOMAIN x3
    BY DEF Metrics!Answerable, Metrics!Others
  <2>3. \A S \in SUBSET (DOMAIN x3) : IsFiniteSet(S) /\ Cardinality(S) \in Nat
    BY <2>1, FS_Subset, FS_CardinalityType
  <2>4. /\ C \in SUBSET (DOMAIN x3) /\ B \in SUBSET (DOMAIN x3) /\ E \in SUBSET (DOMAIN x3)
        /\ U \in SUBSET (DOMAIN x3) /\ V \in SUBSET (DOMAIN x3)
        /\ A \in SUBSET (DOMAIN x3) /\ O \in SUBSET (DOMAIN x3)
    BY <2>2
  <2>5. C \cap U = {} /\ C \cup U \subseteq A
    BY DEF Metrics!Correct
  <2>6. B \cap V = {} /\ B \cup V \subseteq O
    BY DEF Metrics!Abstains
  <2>7. /\ x2["answerable_correct"] = Cardinality(C) /\ x2["answerable_total"] = Cardinality(A)
        /\ x2["abstention_correct"] = Cardinality(B) /\ x2["abstention_total"] = Cardinality(O)
        /\ x2["errors"] = Cardinality(E)
    BY MetricsCounts DEF Metrics!CountsInv, Metrics!CountsRecalculate, Metrics!Recalculated
  <2> HIDE DEF A, O, C, B, E, U, V
  <2>8. /\ Cardinality(A) > 0 /\ 100 * Cardinality(C) >= 90 * Cardinality(A)
        /\ Cardinality(O) > 0 /\ 100 * Cardinality(B) >= 85 * Cardinality(O)
        /\ Cardinality(E) = 0
    BY <2>7 DEF Metrics!Pass
  <2>9. A # {} /\ O # {} /\ E = {}
    <3>1. Cardinality({}) = 0
      BY FS_EmptySet
    <3>2. IsFiniteSet(E) /\ (Cardinality(E) = 0 <=> E = {})
      BY <2>3, <2>4, FS_EmptySet
    <3> QED BY <2>3, <2>4, <2>8, <3>1, <3>2
  <2>10. Cardinality(C) + Cardinality(U) <= Cardinality(A)
    <3>1. Cardinality(C \cup U) = Cardinality(C) + Cardinality(U)
      BY <2>3, <2>4, <2>5, DisjointCounts
    <3>2. Cardinality(C \cup U) <= Cardinality(A)
      BY <2>3, <2>4, <2>5, FS_Subset
    <3> QED BY <3>1, <3>2
  <2>11. Cardinality(B) + Cardinality(V) <= Cardinality(O)
    <3>1. Cardinality(B \cup V) = Cardinality(B) + Cardinality(V)
      BY <2>3, <2>4, <2>6, DisjointCounts
    <3>2. Cardinality(B \cup V) <= Cardinality(O)
      BY <2>3, <2>4, <2>6, FS_Subset
    <3> QED BY <3>1, <3>2
  <2>12. /\ Cardinality(A) \in Nat /\ Cardinality(C) \in Nat /\ Cardinality(U) \in Nat
         /\ Cardinality(O) \in Nat /\ Cardinality(B) \in Nat /\ Cardinality(V) \in Nat
    BY <2>3, <2>4
  <2>13. 10 * Cardinality(U) <= Cardinality(A) /\ 100 * Cardinality(V) <= 15 * Cardinality(O)
    BY <2>8, <2>10, <2>11, <2>12
  <2> QED BY <2>9, <2>13, MetricsCounts DEF A, O, E, U, V
<1> QED BY <1>1, CountsAlways, PTL

-----------------------------------------------------------------------------
(* The score of an extracted field, however many values it has.             *)
\* Some number of a set of numbers is the least.
LEMMA HasLeast ==
    ASSUME NEW T, T \subseteq Nat, T # {}
    PROVE  \E x \in T : \A y \in T : x <= y
<1> DEFINE R == OpToRel(<, Nat)
<1>1. IsWellFoundedOn(R, Nat)
  BY NatLessThanWellFounded
<1> HIDE DEF R
<1>2. PICK x \in T : \A y \in T : ~ (<<y, x>> \in R)
  BY <1>1, WFMin
<1>3. \A y \in T : y < x => <<y, x>> \in R
  <2> SUFFICES ASSUME NEW y \in T, y < x
               PROVE  <<y, x>> \in {ss \in Nat \X Nat : ss[1] < ss[2]}
    BY DEF R, OpToRel
  <2> QED
    OBVIOUS
<1>4. \A y \in T : ~ (y < x)
  BY <1>2, <1>3, Zenon
<1>5. \A y \in T : x <= y
  BY <1>4
<1> QED
  BY <1>5

LEMMA ScoreMoves ==
    ASSUME [EvaluationNext]_evaluationVars, part' = "score"
    PROVE  part = "score" /\ [Score!Next]_(Score!vars)
BY DEF EvaluationNext, evaluationVars, shared, rest3, rest4, rest8, Score!vars

LEMMA ScoreCounts == \A S : /\ Score!Cardinality(S) = Cardinality(S)
                            /\ Score!IsFiniteSet(S) <=> IsFiniteSet(S)
BY DEF Score!Cardinality, Cardinality, Score!IsFiniteSet, IsFiniteSet

\* A sequence without its value at m.
LEMMA WithoutOne ==
    ASSUME NEW S, NEW s \in Seq(S), NEW m \in 1 .. Len(s)
    PROVE  /\ Score!RemoveAt(s, m) \in Seq(S)
           /\ DOMAIN Score!RemoveAt(s, m) = 1 .. Len(s) - 1
           /\ \A k \in 1 .. Len(s) - 1 :
                 Score!RemoveAt(s, m)[k] = s[IF k < m THEN k ELSE k + 1]
<1> DEFINE head == SubSeq(s, 1, m - 1)
           tail == SubSeq(s, m + 1, Len(s))
<1>1. /\ head \in Seq(S) /\ Len(head) = m - 1
      /\ \A k \in 1 .. m - 1 : head[k] = s[k]
  BY SubSeqProperties
<1>2. /\ tail \in Seq(S) /\ Len(tail) = Len(s) - m
      /\ \A k \in 1 .. Len(s) - m : tail[k] = s[m + k]
  BY SubSeqProperties
<1>3. Score!RemoveAt(s, m) = head \o tail
  BY DEF Score!RemoveAt
<1> HIDE DEF head, tail
<1>4. /\ head \o tail \in Seq(S) /\ Len(head \o tail) = Len(s) - 1
      /\ \A k \in 1 .. Len(s) - 1 :
            (head \o tail)[k] = IF k < m THEN head[k] ELSE tail[k - (m - 1)]
  <2>1. /\ head \o tail \in Seq(S) /\ Len(head \o tail) = Len(head) + Len(tail)
        /\ \A k \in 1 .. Len(head) + Len(tail) :
              (head \o tail)[k] = IF k <= Len(head) THEN head[k] ELSE tail[k - Len(head)]
    BY <1>1, <1>2, ConcatProperties
  <2>2. /\ Len(s) \in Nat /\ m \in Nat
        /\ Len(head) + Len(tail) = Len(s) - 1 /\ Len(head) = m - 1
    BY <1>1, <1>2
  <2>3. ASSUME NEW k \in 1 .. Len(s) - 1
        PROVE  (head \o tail)[k] = IF k < m THEN head[k] ELSE tail[k - (m - 1)]
    <3>1. k \in 1 .. Len(head) + Len(tail) /\ (k <= Len(head) <=> k < m)
      BY <2>2
    <3>2. (head \o tail)[k] = IF k <= Len(head) THEN head[k] ELSE tail[k - Len(head)]
      BY <2>1, <3>1
    <3> QED BY <2>2, <3>1, <3>2
  <2>4. head \o tail \in Seq(S) /\ Len(head \o tail) = Len(s) - 1
    BY <2>1, <2>2
  <2> QED BY <2>3, <2>4
<1>5. ASSUME NEW k \in 1 .. Len(s) - 1
      PROVE  (head \o tail)[k] = s[IF k < m THEN k ELSE k + 1]
  <2>1. CASE k < m
    BY <1>1, <1>4, <2>1
  <2>2. CASE ~ k < m
    <3>1. k - (m - 1) \in 1 .. Len(s) - m /\ m + (k - (m - 1)) = k + 1
      BY <2>2
    <3> QED BY <1>2, <1>4, <2>2, <3>1
  <2> QED BY <2>1, <2>2
<1> QED BY <1>3, <1>4, <1>5

\* The first match of an expected value, if there is one.
LEMMA MatchIsFound ==
    ASSUME NEW v, x5 \in Seq(Values)
    PROVE  LET m == Score!FirstMatch(v)
           IN  IF m = 0 THEN \A k \in DOMAIN x5 : ~ Score!Matches(x5[k], v)
                        ELSE m \in DOMAIN x5 /\ Score!Matches(x5[m], v)
<1> DEFINE M == {i \in DOMAIN x5 : Score!Matches(x5[i], v)}
<1>1. CASE M = {}
  BY <1>1 DEF Score!FirstMatch
<1>2. CASE M # {}
  <2>1. M \subseteq Nat
    OBVIOUS
  <2>2. \E i \in M : \A j \in M : i <= j
    BY <1>2, <2>1, HasLeast
  <2>3. Score!FirstMatch(v) = CHOOSE i \in M : \A j \in M : i <= j
    BY <1>2 DEF Score!FirstMatch
  <2>4. Score!FirstMatch(v) \in M
    BY <2>2, <2>3
  <2>5. 0 \notin DOMAIN x5
    OBVIOUS
  <2> QED BY <2>4, <2>5
<1> QED BY <1>1, <1>2

LEMMA ScoreInitially ==
    EvaluationInit => (part = "score" => Score!ScoreInv)
<1> SUFFICES ASSUME EvaluationInit, part = "score" PROVE Score!ScoreInv
  OBVIOUS
<1>1. Score!Init
  BY DEF EvaluationInit
<1>2. \A s \in Score!Fields : s \in Seq(Values) /\ Len(s) \in Nat /\ DOMAIN s = 1 .. Len(s)
  BY DEF Score!Fields, Score!SeqOf
<1>3. /\ x2 \in Seq(Values) /\ x4 \in Seq(Values) /\ x5 = x4 /\ x6 = 0 /\ x7 = << >>
      /\ x3 \in [DOMAIN x2 -> BOOLEAN]
  BY <1>1, <1>2 DEF Score!Init
<1>4. x7 \in Seq(BOOLEAN) /\ Len(x7) = 0 /\ Len(x2) \in Nat /\ 0 \in Nat
  BY <1>3
<1>5. Score!Pairing({}, [i \in {} |-> i], [k \in DOMAIN x4 |-> k])
  <2>1. IsFiniteSet({}) /\ Cardinality({}) = 0
    BY FS_EmptySet
  <2> QED BY <1>3, <1>4, <2>1, ScoreCounts DEF Score!Pairing
<1>6. [i \in {} |-> i] \in [{} -> DOMAIN x4] /\ [k \in DOMAIN x4 |-> k] \in [DOMAIN x5 -> DOMAIN x4]
  BY <1>3
<1>7. {} \in SUBSET DOMAIN x2
  OBVIOUS
<1>8. \E D \in SUBSET DOMAIN x2 :
          \E taken \in [D -> DOMAIN x4], place \in [DOMAIN x5 -> DOMAIN x4] :
             Score!Pairing(D, taken, place)
  BY <1>5, <1>6, <1>7
<1>9. x5 \in Seq(Values) /\ Len(x7) <= Len(x2) /\ x6 \in Nat
  BY <1>3, <1>4
<1> QED BY <1>3, <1>4, <1>8, <1>9, Zenon DEF Score!ScoreInv

\* Scoring one more expected value keeps the pairing.
LEMMA ScoreStep ==
    ASSUME Score!ScoreInv, Score!Next
    PROVE  Score!ScoreInv'
<1> DEFINE n == Len(x7)
           i == n + 1
           m == Score!FirstMatch(x2[i])
<1>1. /\ x2 \in Seq(Values) /\ x4 \in Seq(Values) /\ x5 \in Seq(Values)
      /\ x7 \in Seq(BOOLEAN) /\ n <= Len(x2)
      /\ x3 \in [DOMAIN x2 -> BOOLEAN] /\ x6 \in Nat
  BY DEF Score!ScoreInv
<1>2. PICK D \in SUBSET DOMAIN x2 :
         \E taken \in [D -> DOMAIN x4], place \in [DOMAIN x5 -> DOMAIN x4] :
            Score!Pairing(D, taken, place)
  BY DEF Score!ScoreInv
<1>3. PICK g \in [D -> DOMAIN x4], p \in [DOMAIN x5 -> DOMAIN x4] : Score!Pairing(D, g, p)
  BY <1>2
<1>4. /\ n < Len(x2) /\ x7' = Append(x7, m # 0)
      /\ IF m # 0 /\ x3[i] THEN x5' = Score!RemoveAt(x5, m) /\ x6' = x6 + 1
                           ELSE UNCHANGED <<x5, x6>>
      /\ UNCHANGED <<x1, x2, x3, x4>>
  BY DEF Score!Next, Score!ScoreValue, Score!Used, Score!Counts
<1>5. n \in Nat /\ i \in Nat /\ Len(x2) \in Nat /\ i \in DOMAIN x2 /\ DOMAIN x5 = 1 .. Len(x5)
  BY <1>1, <1>4
<1>6. x7' \in Seq(BOOLEAN) /\ Len(x7') = i /\ i <= Len(x2)
  BY <1>1, <1>4, <1>5, AppendProperties
<1>7. IF m = 0 THEN \A k \in DOMAIN x5 : ~ Score!Matches(x5[k], x2[i])
               ELSE m \in DOMAIN x5 /\ Score!Matches(x5[m], x2[i])
  BY <1>1, MatchIsFound
<1>8. \A v, w : Score!Matches(v, w)' <=> Score!Matches(v, w)
  BY <1>4 DEF Score!Matches
<1> HIDE DEF n, m
<1>p. /\ IsFiniteSet(D) /\ Cardinality(D) = x6
      /\ \A j \in D : j <= n /\ x3[j] /\ Score!Matches(x4[g[j]], x2[j])
      /\ \A j, l \in D : g[j] = g[l] => j = l
      /\ \A k, l \in DOMAIN x5 : p[k] = p[l] => k = l
      /\ \A k \in DOMAIN x5 : x5[k] = x4[p[k]]
      /\ \A j \in D, k \in DOMAIN x5 : g[j] # p[k]
      /\ \A a \in DOMAIN x4 : (\E j \in D : g[j] = a) \/ (\E k \in DOMAIN x5 : p[k] = a)
      /\ \A j \in 1 .. n :
            x3[j] /\ j \notin D => \A k \in DOMAIN x5 : ~ Score!Matches(x5[k], x2[j])
  BY <1>3, ScoreCounts DEF Score!Pairing, n
<1> DEFINE
      Paired(D1, g1, p1) ==
         /\ IsFiniteSet(D1) /\ Cardinality(D1) = x6' /\ x6' \in Nat /\ x5' \in Seq(Values)
         /\ \A j \in D1 : j <= i /\ x3[j] /\ Score!Matches(x4[g1[j]], x2[j])
         /\ \A j, l \in D1 : g1[j] = g1[l] => j = l
         /\ \A k, l \in DOMAIN x5' : p1[k] = p1[l] => k = l
         /\ \A k \in DOMAIN x5' : x5'[k] = x4[p1[k]]
         /\ \A j \in D1, k \in DOMAIN x5' : g1[j] # p1[k]
         /\ \A a \in DOMAIN x4 : (\E j \in D1 : g1[j] = a) \/ (\E k \in DOMAIN x5' : p1[k] = a)
         /\ \A j \in 1 .. i :
               x3[j] /\ j \notin D1 => \A k \in DOMAIN x5' : ~ Score!Matches(x5'[k], x2[j])
<1>9. ASSUME NEW D1 \in SUBSET DOMAIN x2, NEW g1 \in [D1 -> DOMAIN x4],
             NEW p1 \in [DOMAIN x5' -> DOMAIN x4], Paired(D1, g1, p1)
      PROVE  Score!ScoreInv'
  <2>1. \E E \in SUBSET DOMAIN x2' :
           \E taken \in [E -> DOMAIN x4'], place \in [DOMAIN x5' -> DOMAIN x4'] :
              Score!Pairing(E, taken, place)'
    <3>1. Score!Pairing(D1, g1, p1)'
      <4>1. x2' = x2 /\ x3' = x3 /\ x4' = x4 /\ Len(x7') = i
        BY <1>4, <1>6
      <4>2. Score!IsFiniteSet(D1)' /\ Score!Cardinality(D1)' = x6'
        BY <1>9, ScoreCounts
      <4>3. \A j \in D1 : /\ j <= Len(x7') /\ x3'[j]
                          /\ Score!Matches(x4[g1[j]], x2[j])'
        <5>1. ASSUME NEW j \in D1
              PROVE  Score!Matches(x4[g1[j]], x2[j])' <=> Score!Matches(x4[g1[j]], x2[j])
          BY <1>4 DEF Score!Matches
        <5> QED BY <1>9, <4>1, <5>1
      <4>4. \A a \in DOMAIN x4' : \/ \E j \in D1 : g1[j] = a
                                  \/ \E k \in DOMAIN x5' : p1[k] = a
        BY <1>9, <4>1
      <4>5. \A j \in 1 .. Len(x7') : x3'[j] /\ j \notin D1 =>
               \A k \in DOMAIN x5' : ~ Score!Matches(x5[k], x2[j])'
        <5>1. ASSUME NEW j, NEW k
              PROVE  Score!Matches(x5[k], x2[j])' <=> Score!Matches(x5'[k], x2[j])
          BY <1>4 DEF Score!Matches
        <5> QED BY <1>9, <4>1, <5>1
      <4>6. \A k \in DOMAIN x5' : x5'[k] = x4'[p1[k]]
        BY <1>9, <4>1
      <4> QED BY <1>9, <4>2, <4>3, <4>4, <4>5, <4>6 DEF Score!Pairing
    <3> QED BY <1>4, <3>1
  <2>2. /\ x2' \in Seq(Values) /\ x4' \in Seq(Values) /\ x5' \in Seq(Values)
        /\ x7' \in Seq(BOOLEAN) /\ Len(x7') <= Len(x2')
        /\ x3' \in [DOMAIN x2' -> BOOLEAN] /\ x6' \in Nat
    BY <1>1, <1>4, <1>6, <1>9
  <2> QED BY <2>1, <2>2 DEF Score!ScoreInv
<1> HIDE DEF Paired
<1>10. i \notin D
  BY <1>5, <1>p
<1>11. CASE ~ (m # 0 /\ x3[i])
  <2>1. x5' = x5 /\ x6' = x6
    BY <1>4, <1>11
  <2>2. \A j \in 1 .. i : x3[j] /\ j \notin D =>
           \A k \in DOMAIN x5' : ~ Score!Matches(x5'[k], x2[j])
    <3> SUFFICES ASSUME NEW j \in 1 .. i, x3[j], j \notin D, NEW k \in DOMAIN x5
                 PROVE  ~ Score!Matches(x5[k], x2[j])
      BY <2>1
    <3>1. CASE j = i
      BY <1>7, <1>11, <3>1
    <3>2. CASE j # i
      BY <1>5, <1>p, <3>2
    <3> QED BY <3>1, <3>2
  <2>3. \A j \in D : j <= i
    BY <1>5, <1>p
  <2>4. p \in [DOMAIN x5' -> DOMAIN x4]
    BY <2>1
  <2>5. /\ x6' \in Nat /\ x5' \in Seq(Values) /\ Cardinality(D) = x6'
        /\ \A j \in D : j <= i /\ x3[j] /\ Score!Matches(x4[g[j]], x2[j])
        /\ \A k, l \in DOMAIN x5' : p[k] = p[l] => k = l
        /\ \A k \in DOMAIN x5' : x5'[k] = x4[p[k]]
        /\ \A j \in D, k \in DOMAIN x5' : g[j] # p[k]
        /\ \A a \in DOMAIN x4 : (\E j \in D : g[j] = a) \/ (\E k \in DOMAIN x5' : p[k] = a)
    BY <1>1, <1>p, <2>1, <2>3
  <2>6. Paired(D, g, p)
    <3> HIDE DEF i
    <3> QED BY <1>p, <2>2, <2>5 DEF Paired
  <2> QED BY <1>9, <2>4, <2>6
<1>12. CASE m # 0 /\ x3[i]
  <2> DEFINE E == D \cup {i}
             up(k) == IF k < m THEN k ELSE k + 1
             g1 == [j \in E |-> IF j = i THEN p[m] ELSE g[j]]
             p1 == [k \in 1 .. Len(x5) - 1 |-> p[up(k)]]
  <2>1. m \in DOMAIN x5 /\ m \in 1 .. Len(x5) /\ Score!Matches(x5[m], x2[i])
    BY <1>5, <1>7, <1>12
  <2>2. /\ x5' \in Seq(Values) /\ DOMAIN x5' = 1 .. Len(x5) - 1
        /\ \A k \in 1 .. Len(x5) - 1 : x5'[k] = x5[up(k)]
    <3>1. x5' = Score!RemoveAt(x5, m)
      BY <1>4, <1>12
    <3> QED BY <1>1, <2>1, <3>1, WithoutOne
  <2>3. x6' = x6 + 1 /\ x6' \in Nat
    BY <1>1, <1>4, <1>12
  <2>4. /\ \A k \in 1 .. Len(x5) - 1 : up(k) \in DOMAIN x5 /\ up(k) # m
        /\ \A k, l \in 1 .. Len(x5) - 1 : up(k) = up(l) => k = l
        /\ \A k \in DOMAIN x5 : k # m => \E l \in 1 .. Len(x5) - 1 : up(l) = k
    <3>1. Len(x5) \in Nat /\ m \in Nat /\ DOMAIN x5 = 1 .. Len(x5)
      BY <1>1, <1>5, <2>1
    <3>2. ASSUME NEW k \in DOMAIN x5, k # m PROVE \E l \in 1 .. Len(x5) - 1 : up(l) = k
      <4>1. CASE k < m
        <5>1. k \in 1 .. Len(x5) - 1 /\ up(k) = k
          BY <3>1, <2>1, <4>1
        <5> QED BY <5>1
      <4>2. CASE ~ k < m
        <5>1. k - 1 \in 1 .. Len(x5) - 1 /\ up(k - 1) = k
          BY <3>1, <3>2, <2>1, <4>2
        <5> QED BY <5>1
      <4> QED BY <4>1, <4>2
    <3>3. \A k \in 1 .. Len(x5) - 1 : up(k) \in DOMAIN x5 /\ up(k) # m
      BY <3>1, <2>1
    <3>4. \A k, l \in 1 .. Len(x5) - 1 : up(k) = up(l) => k = l
      BY <3>1, <2>1
    <3> QED BY <3>2, <3>3, <3>4
  <2> HIDE DEF up
  <2>5. IsFiniteSet(E) /\ Cardinality(E) = x6'
    BY <1>p, <1>10, <2>3, FS_AddElement
  <2>6. g1 \in [E -> DOMAIN x4] /\ p1 \in [DOMAIN x5' -> DOMAIN x4]
    BY <1>3, <2>1, <2>2, <2>4
  <2>7. E \in SUBSET DOMAIN x2
    BY <1>5
  <2>8. /\ \A j \in D : g1[j] = g[j]
        /\ g1[i] = p[m]
        /\ \A k \in DOMAIN x5' : p1[k] = p[up(k)] /\ x5'[k] = x5[up(k)] /\ up(k) \in DOMAIN x5
                                 /\ up(k) # m
    BY <1>10, <2>2, <2>4
  <2>9. /\ \A k, l \in DOMAIN x5' : up(k) = up(l) => k = l
        /\ \A k \in DOMAIN x5 : k # m => \E l \in DOMAIN x5' : up(l) = k
    BY <2>2, <2>4
  <2> HIDE DEF g1, p1
  <2>10. \A j \in E : j <= i /\ x3[j] /\ Score!Matches(x4[g1[j]], x2[j])
    BY <1>5, <1>12, <1>p, <2>1, <2>8
  <2>11. \A j, l \in E : g1[j] = g1[l] => j = l
    BY <1>p, <2>1, <2>8
  <2>12. \A k, l \in DOMAIN x5' : p1[k] = p1[l] => k = l
    BY <1>p, <2>8, <2>9
  <2>13. \A k \in DOMAIN x5' : x5'[k] = x4[p1[k]]
    BY <1>p, <2>8
  <2>14. \A j \in E, k \in DOMAIN x5' : g1[j] # p1[k]
    BY <1>p, <2>1, <2>8
  <2>15. \A a \in DOMAIN x4 : \/ \E j \in E : g1[j] = a
                              \/ \E k \in DOMAIN x5' : p1[k] = a
    <3> SUFFICES ASSUME NEW a \in DOMAIN x4
                 PROVE  \/ \E j \in E : g1[j] = a
                        \/ \E k \in DOMAIN x5' : p1[k] = a
      OBVIOUS
    <3>1. CASE \E j \in D : g[j] = a
      BY <2>8, <3>1
    <3>2. CASE \E k \in DOMAIN x5 : p[k] = a
      BY <2>8, <2>9, <3>2
    <3> QED BY <1>p, <3>1, <3>2
  <2>16. \A j \in 1 .. i : x3[j] /\ j \notin E =>
            \A k \in DOMAIN x5' : ~ Score!Matches(x5'[k], x2[j])
    BY <1>5, <1>p, <2>8
  <2>17. x5' \in Seq(Values) /\ x6' \in Nat
    BY <2>2, <2>3
  <2> HIDE DEF E, i
  <2>18. Paired(E, g1, p1)
    BY <2>5, <2>10, <2>11, <2>12, <2>13, <2>14, <2>15, <2>16, <2>17 DEF Paired
  <2> QED BY <1>9, <2>6, <2>7, <2>18
<1> QED BY <1>11, <1>12

\* What follows from a pairing: it is an assignment itself; and every other
\* one gives a value to at most twice as many, for dates to no more, since
\* whoever got nothing matches only what another one took.
LEMMA PairingIsGood ==
    ASSUME Score!ScoreInv
    PROVE  Score!FirstMatchIsGood
<1> DEFINE C == {j \in DOMAIN x2 : x3[j]}
<1>1. PICK D \in SUBSET DOMAIN x2 :
         \E taken \in [D -> DOMAIN x4], place \in [DOMAIN x5 -> DOMAIN x4] :
            Score!Pairing(D, taken, place)
  BY DEF Score!ScoreInv
<1>2. PICK g \in [D -> DOMAIN x4], p \in [DOMAIN x5 -> DOMAIN x4] : Score!Pairing(D, g, p)
  BY <1>1
<1>3. /\ x2 \in Seq(Values) /\ x4 \in Seq(Values) /\ x6 \in Nat
      /\ DOMAIN x4 = 1 .. Len(x4) /\ Len(x4) \in Nat
  BY DEF Score!ScoreInv
<1>4. /\ IsFiniteSet(D) /\ Cardinality(D) = x6
      /\ \A j \in D : x3[j] /\ Score!Matches(x4[g[j]], x2[j])
      /\ \A j, l \in D : g[j] = g[l] => j = l
      /\ \A k \in DOMAIN x5 : x5[k] = x4[p[k]]
      /\ \A a \in DOMAIN x4 : (\E j \in D : g[j] = a) \/ (\E k \in DOMAIN x5 : p[k] = a)
      /\ \A j \in 1 .. Len(x7) :
            x3[j] /\ j \notin D => \A k \in DOMAIN x5 : ~ Score!Matches(x5[k], x2[j])
  BY <1>2, ScoreCounts DEF Score!Pairing
<1>5. D \subseteq C
  BY <1>4
<1>6. \E f \in Score!Assignments : x6 <= Score!Assigned(f)
  <2> DEFINE f == [j \in C |-> IF j \in D THEN g[j] ELSE 0]
  <2>1. f \in [C -> 0 .. Len(x4)]
    BY <1>3
  <2>2. \A j \in C : IF j \in D THEN f[j] = g[j] /\ f[j] # 0 ELSE f[j] = 0
    BY <1>3
  <2>3. DOMAIN f = C
    OBVIOUS
  <2> HIDE DEF f
  <2>4. f \in Score!Assignments
    <3>1. \A j \in C : f[j] # 0 => j \in D /\ f[j] = g[j]
      BY <2>2
    <3>2. \A j, l \in C : f[j] # 0 => /\ Score!Matches(x4[f[j]], x2[j])
                                      /\ j # l => f[j] # f[l]
      BY <1>4, <2>2, <3>1
    <3> QED BY <2>1, <2>3, <3>2 DEF Score!Assignments
  <2>5. {j \in DOMAIN f : f[j] # 0} = D
    BY <1>5, <2>2, <2>3
  <2>6. Score!Assigned(f) = x6
    BY <1>4, <2>5, ScoreCounts DEF Score!Assigned
  <2> QED BY <1>3, <2>4, <2>6
<1>7. ASSUME Score!Scored, NEW f \in Score!Assignments
      PROVE  Score!Assigned(f) <= IF x1 = "date" THEN x6 ELSE 2 * x6
  <2> DEFINE F == {j \in DOMAIN f : f[j] # 0}
  <2>1. /\ F \subseteq C /\ \A j \in F : f[j] \in DOMAIN x4
        /\ \A j \in F : Score!Matches(x4[f[j]], x2[j])
        /\ \A j, l \in F : f[j] = f[l] => j = l
    BY <1>3 DEF Score!Assignments
  <2>2. Score!Assigned(f) = Cardinality(F)
    BY ScoreCounts DEF Score!Assigned
  <2> HIDE DEF F
  <2>3. DOMAIN x2 = 1 .. Len(x7)
    BY <1>3, <1>7 DEF Score!Scored
  <2>4. ASSUME NEW j \in C, j \notin D, NEW a \in DOMAIN x4, Score!Matches(x4[a], x2[j])
        PROVE  \E l \in D : g[l] = a
    BY <1>4, <2>3, <2>4
  <2> DEFINE giver(a) == CHOOSE l \in D : g[l] = a
  <2>5. ASSUME NEW j \in F, NEW l \in C, l \notin D, Score!Matches(x4[f[j]], x2[l])
        PROVE  giver(f[j]) \in D /\ g[giver(f[j])] = f[j]
    BY <2>1, <2>4, <2>5
  <2> HIDE DEF giver
  <2>6. CASE x1 = "date"
    <3> DEFINE left(v) == \E l \in C \ D : x2[l] = v
               h == [j \in F |-> IF left(x2[j]) THEN giver(f[j]) ELSE j]
    <3>1. \A v, w : Score!Matches(v, w) <=> v = w
      BY <2>6 DEF Score!Matches
    <3>2. ASSUME NEW j \in F
          PROVE  /\ h[j] \in D /\ x2[h[j]] = x2[j] /\ x4[f[j]] = x2[j]
                 /\ IF left(x2[j]) THEN g[h[j]] = f[j] ELSE h[j] = j
      <4>1. x4[f[j]] = x2[j] /\ j \in C
        BY <2>1, <3>1
      <4>2. CASE left(x2[j])
        <5>1. giver(f[j]) \in D /\ g[giver(f[j])] = f[j]
          BY <2>5, <3>1, <4>1, <4>2
        <5>2. x4[g[giver(f[j])]] = x2[giver(f[j])]
          BY <1>4, <3>1, <5>1
        <5> QED BY <4>1, <4>2, <5>1, <5>2
      <4>3. CASE ~ left(x2[j])
        BY <4>1, <4>3
      <4> QED BY <4>2, <4>3
    <3>3. h \in [F -> D]
      BY <3>2
    <3> HIDE DEF h, left
    <3>4. \A j, l \in F : h[j] = h[l] => j = l
      BY <2>1, <3>2
    <3>5. h \in Injection(F, D)
      BY <3>3, <3>4, Fun_IsInj
    <3>6. Cardinality(F) <= Cardinality(D)
      BY <1>4, <3>5, FS_Injection
    <3> QED BY <1>4, <2>2, <2>6, <3>6
  <2>7. CASE x1 # "date"
    <3> DEFINE N == F \ D
               h == [j \in N |-> giver(f[j])]
    <3>1. ASSUME NEW j \in N
          PROVE  h[j] \in D /\ g[h[j]] = f[j]
      BY <2>1, <2>5
    <3>2. h \in [N -> D]
      BY <3>1
    <3> HIDE DEF h
    <3>3. \A j, l \in N : h[j] = h[l] => j = l
      BY <2>1, <3>1
    <3>4. h \in Injection(N, D)
      BY <3>2, <3>3, Fun_IsInj
    <3>5. IsFiniteSet(N) /\ Cardinality(N) <= Cardinality(D)
      BY <1>4, <3>4, FS_Injection
    <3>6. IsFiniteSet(F \cap D) /\ Cardinality(F \cap D) <= Cardinality(D)
      BY <1>4, FS_Subset
    <3>7. F = (F \cap D) \cup N /\ (F \cap D) \cap N = {}
      OBVIOUS
    <3> HIDE DEF N
    <3>8. Cardinality(F) = Cardinality(F \cap D) + Cardinality(N)
      BY <3>5, <3>6, <3>7, DisjointCounts
    <3>9. Cardinality(F \cap D) \in Nat /\ Cardinality(N) \in Nat
      BY <3>5, <3>6, FS_CardinalityType
    <3> QED BY <1>3, <1>4, <2>2, <2>7, <3>5, <3>6, <3>8, <3>9
  <2> QED BY <2>6, <2>7
<1> QED BY <1>6, <1>7 DEF Score!FirstMatchIsGood

\* However many values a field has, no extracted value is counted for two
\* gold values, and taking the first match costs at most half of what any
\* assignment would earn, for dates nothing.
THEOREM FirstMatchesAreGood ==
    EvaluationSpec => []FirstMatchIsGood
<1> DEFINE Inv == part = "score" => Score!ScoreInv
<1>1. EvaluationInit => Inv
  BY ScoreInitially
<1>2. Inv /\ [EvaluationNext]_evaluationVars => Inv'
  <2> SUFFICES ASSUME Inv, [EvaluationNext]_evaluationVars, part' = "score"
               PROVE  Score!ScoreInv'
    OBVIOUS
  <2>1. Score!ScoreInv /\ [Score!Next]_(Score!vars)
    BY ScoreMoves
  <2>2. CASE Score!Next
    BY <2>1, <2>2, ScoreStep
  <2>3. CASE UNCHANGED (Score!vars)
    <3>1. UNCHANGED <<x1, x2, x3, x4, x5, x6, x7>>
      BY <2>3 DEF Score!vars
    <3>2. ASSUME NEW D, NEW g, NEW p
          PROVE  Score!Pairing(D, g, p)' <=> Score!Pairing(D, g, p)
      <4>1. \A v, w : Score!Matches(v, w)' <=> Score!Matches(v, w)
        BY <3>1 DEF Score!Matches
      <4> QED BY <3>1, <4>1, ScoreCounts, Zenon DEF Score!Pairing, Score!Matches
    <3> QED BY <2>1, <3>1, <3>2 DEF Score!ScoreInv
  <2> QED BY <2>1, <2>2, <2>3
<1>3. Inv => FirstMatchIsGood
  BY PairingIsGood DEF FirstMatchIsGood
<1> QED BY <1>1, <1>2, <1>3, PTL DEF EvaluationSpec
=============================================================================
