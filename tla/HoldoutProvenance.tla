-------------------------- MODULE HoldoutProvenance --------------------------
(***************************************************************************)
(* Freezing an engine and proving it older than the holdout that measures  *)
(* it: create_freeze_record of src/evals/freeze.py and the preflight of    *)
(* src/evals/holdout.py with its Git checks in holdout_v4.py.  People edit,*)
(* commit and check out files in any order; the freeze tool and the        *)
(* preflight read the working tree and the history in several steps.       *)
(*                                                                         *)
(* A file's content is abstracted to what its hash must tell apart.  The   *)
(* engine stands for all of ENGINE_FINGERPRINT_PATHS and the dependency    *)
(* files, config for the frozen configuration and the model manifest       *)
(* (named by the engine fingerprint it selected), dataset for manifest and *)
(* corpus.  The freeze record and the attestation are records of the       *)
(* hashes they contain.                                                    *)
(***************************************************************************)
EXTENDS Naturals, Sequences

CONSTANTS Engines,         \* engine contents, named by their fingerprints
          Absent,          \* content of a file that does not exist
          MaxCommits, MaxOps,   \* bounds: commits, and what people do
          EditsDuringFreeze, EditsDuringPreflight

VARIABLES disk,     \* the working tree
          commits,  \* commits[i]: tree and parent (0 for the first)
          head,     \* the commit HEAD names
          ops,      \* operations by people so far
          freezer,  \* the freeze tool: where it is and the HEAD it read
          pc,       \* where the preflight is
          evidence, \* what its first stage hashed
          loaded    \* the records it then loaded

vars == <<disk, commits, head, ops, freezer, pc, evidence, loaded>>
repository == <<disk, commits, head>>

Files == {"engine", "config", "freeze", "dataset", "attestation"}
Inputs == Files \ {"engine"}
NewInputs == {"dataset", "attestation"}

Tree(c) == commits[c].tree
History == 1 .. Len(commits)
HasParents(S) == \A c \in S : commits[c].parent \in S \cup {0}
IsAncestor(c, d) == /\ {c, d} \subseteq History
                    /\ \A S \in SUBSET History : d \in S /\ HasParents(S) => c \in S

Init == LET first == [f \in Files |-> IF f \in {"engine", "config"}
                                      THEN CHOOSE e \in Engines : TRUE ELSE Absent]
        IN  /\ disk = first
            /\ commits = <<[tree |-> first, parent |-> 0]>>
            /\ head = 1
            /\ ops = 0
            /\ freezer = [pc |-> "idle", head |-> 0]
            /\ pc = "hash"
            /\ evidence = Absent
            /\ loaded = Absent
-----------------------------------------------------------------------------
(* Forms the definitions below must not take. *)
PrecedesLoosely(c) == IsAncestor(c, head)
                      /\ Tree(c)["freeze"] = evidence.freeze
                      /\ disk["freeze"] = evidence.freeze
EngineAncestryOnly == /\ IsAncestor(loaded.freeze.commit, head)
                      /\ IsAncestor(loaded.freeze.commit, loaded.attestation.freezeCommit)
-----------------------------------------------------------------------------
(* What people do. *)
MayAct == /\ ops < MaxOps
          /\ EditsDuringFreeze \/ freezer.pc = "idle"
          /\ EditsDuringPreflight \/ pc \in {"hash", "claimed", "refused"}
          /\ ops' = ops + 1
          /\ UNCHANGED <<freezer, pc, evidence, loaded>>

Put(f, content) == disk' = [disk EXCEPT ![f] = content]

EditEngine == MayAct /\ (\E e \in Engines \ {disk["engine"]} : Put("engine", e))
                     /\ UNCHANGED <<commits, head>>

Select == /\ MayAct                  \* write a configuration for this engine
          /\ disk["config"] # disk["engine"]
          /\ Put("config", disk["engine"])
          /\ UNCHANGED <<commits, head>>

Author == /\ MayAct
          /\ disk["dataset"] = Absent
          /\ Put("dataset", "holdout")
          /\ UNCHANGED <<commits, head>>

Remove == /\ MayAct
          /\ \E f \in NewInputs \cup {"freeze"} : disk[f] # Absent /\ Put(f, Absent)
          /\ UNCHANGED <<commits, head>>

(* The author attests to the files at hand, naming any commit.  *)
Attest == /\ MayAct
          /\ disk["freeze"] # Absent
          /\ \E c \in 1 .. Len(commits) :
                Put("attestation", [freezeCommit |-> c, freeze |-> disk["freeze"],
                                    dataset |-> disk["dataset"]])
          /\ UNCHANGED <<commits, head>>

Commit == /\ MayAct
          /\ Len(commits) < MaxCommits
          /\ disk # Tree(head)
          /\ commits' = Append(commits, [tree |-> disk, parent |-> head])
          /\ head' = Len(commits) + 1
          /\ UNCHANGED disk

Checkout == /\ MayAct
            /\ disk = Tree(head)
            /\ \E c \in 1 .. Len(commits) \ {head} : head' = c /\ disk' = Tree(c)
            /\ UNCHANGED commits

People == EditEngine \/ Select \/ Author \/ Remove \/ Attest \/ Commit \/ Checkout
-----------------------------------------------------------------------------
(* create_freeze_record: no record yet, the configuration names the        *)
(* current engine, and both are committed and clean.                       *)
Freezable == /\ disk["freeze"] = Absent
             /\ disk["config"] = disk["engine"]
             /\ \A f \in {"engine", "config"} : disk[f] = Tree(head)[f]

FreezeCheck == /\ freezer.pc = "idle"
               /\ Freezable
               /\ freezer' = [freezer EXCEPT !.pc = "head"]
               /\ UNCHANGED <<repository, ops, pc, evidence, loaded>>

FreezeHead == /\ freezer.pc = "head"
              /\ freezer' = [pc |-> "write", head |-> head]
              /\ UNCHANGED <<repository, ops, pc, evidence, loaded>>

(* The hashes are taken after the check and after HEAD was read; the       *)
(* record is created exclusively.                                          *)
FreezeWrite == /\ freezer.pc = "write"
               /\ IF disk["freeze"] = Absent
                  THEN Put("freeze", [commit |-> freezer.head, engine |-> disk["engine"],
                                      config |-> disk["config"]])
                  ELSE UNCHANGED disk
               /\ freezer' = [freezer EXCEPT !.pc = "idle"]
               /\ UNCHANGED <<commits, head, ops, pc, evidence, loaded>>

Freeze == FreezeCheck \/ FreezeHead \/ FreezeWrite
-----------------------------------------------------------------------------
(* preflight_holdout.  A stage that fails refuses the run.                 *)
Stage(from, passes, to) ==
    /\ pc = from
    /\ pc' = IF passes THEN to ELSE "refused"
    /\ UNCHANGED <<repository, ops, freezer>>

InputsExist == \A f \in Inputs : disk[f] # Absent

HashInputs == /\ Stage("hash", InputsExist, "load")
              /\ evidence' = [commit |-> head, engine |-> disk["engine"],
                              config |-> disk["config"], freeze |-> disk["freeze"],
                              dataset |-> disk["dataset"]]
              /\ UNCHANGED loaded

(* The configuration is validated against the engine as it is now.         *)
LoadInputs == /\ Stage("load", InputsExist /\ disk["config"] = disk["engine"], "provenance")
              /\ loaded' = [freeze |-> disk["freeze"], attestation |-> disk["attestation"]]
              /\ UNCHANGED evidence

(* verify_committed_holdout_inputs: the inputs are those of HEAD, and the  *)
(* freeze commit is an earlier one that knew the freeze record but neither *)
(* dataset nor attestation.                                                *)
Committed == /\ evidence.commit = head
             /\ \A f \in Inputs : disk[f] = Tree(head)[f] /\ Tree(head)[f] # Absent
Precedes(c) == /\ c # head
               /\ IsAncestor(c, head)
               /\ \A f \in NewInputs : Tree(c)[f] = Absent
               /\ Tree(c)["freeze"] = evidence.freeze
               /\ disk["freeze"] = evidence.freeze

VerifyProvenance ==
    /\ Stage("provenance", Committed /\ Precedes(loaded.attestation.freezeCommit), "attestation")
    /\ UNCHANGED <<evidence, loaded>>

(* verify_freeze_attestation: the record, the attestation and the hashed   *)
(* files agree.                                                            *)
Agrees == /\ loaded.freeze.engine = evidence.engine
          /\ loaded.freeze.config = evidence.config
          /\ loaded.attestation.freeze = loaded.freeze
          /\ loaded.attestation.freeze = evidence.freeze
          /\ loaded.attestation.dataset = evidence.dataset

VerifyAttestation == /\ Stage("attestation", Agrees, "engine")
                     /\ UNCHANGED <<evidence, loaded>>

(* _verify_engine_commit: the frozen commit precedes HEAD and the freeze   *)
(* commit, and engine and configuration are still as in it.                *)
EngineUnchanged ==
    LET c == loaded.freeze.commit
    IN  /\ IsAncestor(c, head)
        /\ IsAncestor(c, loaded.attestation.freezeCommit)
        /\ \A f \in {"engine", "config"} : disk[f] = Tree(c)[f]

(* The remaining stages (dataset, protocol, dependencies, model, runtime)  *)
(* may refuse whatever the history.                                        *)
VerifyEngine == /\ \/ Stage("engine", EngineUnchanged, "claimed")
                   \/ Stage("engine", FALSE, "claimed")
                /\ UNCHANGED <<evidence, loaded>>

Preflight == HashInputs \/ LoadInputs \/ VerifyProvenance \/ VerifyAttestation \/ VerifyEngine

Next == People \/ Freeze \/ Preflight

Spec == Init /\ [][Next]_vars
-----------------------------------------------------------------------------
FreezeRecords == [commit : 1 .. MaxCommits, engine : Engines, config : Engines]
Trees == [engine : Engines, config : Engines, freeze : FreezeRecords \cup {Absent},
          dataset : {"holdout", Absent},
          attestation : [freezeCommit : 1 .. MaxCommits, freeze : FreezeRecords,
                         dataset : {"holdout", Absent}] \cup {Absent}]

TypeOK == /\ disk \in Trees
          /\ \A c \in 1 .. Len(commits) : commits[c].tree \in Trees /\ commits[c].parent < c
          /\ head \in 1 .. Len(commits)
          /\ Len(commits) <= MaxCommits
          /\ ops \in 0 .. MaxOps
          /\ freezer.pc \in {"idle", "head", "write"}
          /\ pc \in {"hash", "load", "provenance", "attestation", "engine",
                     "claimed", "refused"}

Frozen == loaded.attestation.freezeCommit

(* The engine that is about to be measured is the one committed before the *)
(* freeze commit, even if files changed while the freeze record was made.  *)
ClaimedEngineIsFrozen ==
    pc = "claimed" =>
        LET c == loaded.freeze.commit
        IN  /\ evidence.engine = Tree(c)["engine"]
            /\ evidence.config = Tree(c)["config"]
            /\ IsAncestor(c, Frozen)
            /\ Tree(evidence.commit)["freeze"] = Tree(Frozen)["freeze"]

(* The dataset is committed strictly after the freeze commit and was not   *)
(* part of it.                                                             *)
DatasetFollowsFreeze ==
    pc = "claimed" =>
        /\ IsAncestor(Frozen, evidence.commit) /\ Frozen # evidence.commit
        /\ Tree(Frozen)["dataset"] = Absent
        /\ Tree(evidence.commit)["dataset"] = evidence.dataset
-----------------------------------------------------------------------------
(* Why both hold, when nobody edits during the preflight: what the stages   *)
(* have established so far.  The freeze tool may run meanwhile, but it only *)
(* writes where there is no record, and the inputs exist.                   *)

\* A commit has an earlier parent; the history is only appended to.
HistoryInv ==
    /\ commits \in Seq({commits[c] : c \in History})
    /\ head \in History
    /\ \A c \in History : commits[c].parent \in 0 .. c - 1

HashedFromDisk ==
    /\ InputsExist
    /\ evidence = [commit |-> head, engine |-> disk["engine"], config |-> disk["config"],
                   freeze |-> disk["freeze"], dataset |-> disk["dataset"]]

LoadedFromDisk == loaded = [freeze |-> disk["freeze"], attestation |-> disk["attestation"]]

PreflightInv ==
    /\ HistoryInv
    /\ pc \in {"load", "provenance", "attestation", "engine"} => HashedFromDisk
    /\ pc \in {"provenance", "attestation", "engine"} => LoadedFromDisk
    /\ pc \in {"attestation", "engine"} => Committed /\ Precedes(Frozen)
    /\ pc = "claimed" => {evidence.commit, Frozen, loaded.freeze.commit} \subseteq History
    /\ ClaimedEngineIsFrozen
    /\ DatasetFollowsFreeze
==============================================================================
