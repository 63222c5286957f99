----------------------------- MODULE LocalModels -----------------------------
(* Loading a local model and embedding with it: the identity in its manifest *)
(* is checked against the pinned one, every listed file is hashed against   *)
(* the manifest, and only then are the files opened; texts are then         *)
(* embedded in batches.  Hashing and opening read a file by its path, each  *)
(* at its own time: people may replace files in between.                    *)
EXTENDS Naturals, Sequences, FiniteSets

CONSTANTS Files,         \* "weights" and the files of the tokenizer
          MaxReplaced,   \* bound: replacements of files
          MaxTexts, BatchSize

VARIABLES runtime,       \* "embedding", "nli" or "qwen"
          manifest,
          disk,          \* whether each file is as the manifest lists it
          stage,
          hashed,        \* files whose digest was compared
          opened,        \* what the session was built from
          replaced,      \* files replaced, the latest last
          texts, vectors \* texts to embed, those embedded so far

load == <<runtime, manifest, stage, hashed, opened>>
vars == <<load, disk, replaced, texts, vectors>>

\* identity: model, repository, revision and license are the expected names.
\* pinned: the digest of the weights is the one pinned in code or experiment plan.
\* labels: the manifest states the order of the classes.
Manifests == [identity : BOOLEAN, pinned : BOOLEAN, listed : SUBSET Files, labels : BOOLEAN]
Contents == {"listed", "other", "absent"}
Needed == IF runtime = "qwen" THEN {"weights"} ELSE Files
-----------------------------------------------------------------------------
(* Forms the definitions below must not take. *)
SomeHashed == hashed # {}
-----------------------------------------------------------------------------
Init == /\ runtime \in {"embedding", "nli", "qwen"}
        /\ manifest \in Manifests
        /\ runtime = "qwen" => manifest.listed = {"weights"}
        /\ runtime # "nli" => manifest.labels
        /\ disk \in [Files -> Contents]
        /\ stage = "start"
        /\ hashed = {}
        /\ opened = [f \in Files |-> "absent"]
        /\ replaced = <<>>
        /\ texts \in 0 .. MaxTexts
        /\ vectors = <<>>

(* Another file of that name, at any moment.  *)
Replace(f) == /\ Len(replaced) < MaxReplaced
              /\ \E c \in Contents \ {disk[f]} : disk' = [disk EXCEPT ![f] = c]
              /\ replaced' = Append(replaced, <<f, f \in hashed>>)
              /\ UNCHANGED <<load, texts, vectors>>

Goto(s) == stage' = s /\ UNCHANGED <<runtime, manifest>>
Idle == UNCHANGED <<disk, replaced, texts, vectors>>

(* The embedding provider compares names alone, and any digests will do.  *)
CheckIdentity ==
    /\ stage = "start"
    /\ Goto(IF /\ manifest.identity /\ (runtime = "embedding" \/ manifest.pinned)
               /\ manifest.labels /\ manifest.listed # {}
            THEN "verifying" ELSE "refused")
    /\ UNCHANGED <<hashed, opened>> /\ Idle

(* _verified_file: it exists and has the size and digest listed.  *)
VerifyFile(f) ==
    /\ stage = "verifying"
    /\ f \in manifest.listed \ hashed
    /\ hashed' = hashed \cup {f}
    /\ Goto(IF disk[f] = "listed" THEN "verifying" ELSE "refused")
    /\ UNCHANGED opened /\ Idle

AllHashed == hashed = manifest.listed

(* The NLI scorer insists that its files were listed, and hashes its        *)
(* weights once more; the embedding backend, that its files exist.          *)
Complete == CASE runtime = "nli" -> Needed \subseteq hashed /\ disk["weights"] = "listed"
              [] runtime = "embedding" -> \A f \in Needed : disk[f] # "absent"
              [] runtime = "qwen" -> TRUE

CheckFiles == /\ stage = "verifying"
              /\ AllHashed
              /\ Goto(IF Complete THEN "opening" ELSE "refused")
              /\ UNCHANGED <<hashed, opened>> /\ Idle

(* The session reads the files again.  *)
OpenSession == /\ stage = "opening"
               /\ opened' = [f \in Files |-> IF f \in Needed THEN disk[f] ELSE "absent"]
               /\ Goto(IF \E f \in Needed : disk[f] = "absent" THEN "refused" ELSE "loaded")
               /\ UNCHANGED hashed /\ Idle

(* LocalTextOnnxBackend.embed and embed_many: a batch yields one usable     *)
(* vector for each text, or the call fails.                                 *)
Batch == {i \in Len(vectors) + 1 .. Len(vectors) + BatchSize : i <= texts}
EmbedBatch ==
    /\ stage = "loaded" /\ runtime = "embedding"
    /\ Len(vectors) < texts
    /\ \/ /\ vectors' = vectors \o [j \in 1 .. Cardinality(Batch) |-> Len(vectors) + j]
          /\ UNCHANGED stage
       \/ /\ stage' = "failed"
          /\ UNCHANGED vectors
    /\ UNCHANGED <<runtime, manifest, hashed, opened, disk, replaced, texts>>

EmbedMany == /\ stage = "loaded" /\ runtime = "embedding"
             /\ Len(vectors) = texts
             /\ Goto("embedded")
             /\ UNCHANGED <<hashed, opened>> /\ Idle

Next == \/ \E f \in Files : Replace(f) \/ VerifyFile(f)
        \/ CheckIdentity \/ CheckFiles \/ OpenSession \/ EmbedBatch \/ EmbedMany

Spec == Init /\ [][Next]_vars
-----------------------------------------------------------------------------
ReplacedAfterHashing(f) == \E i \in DOMAIN replaced : replaced[i] = <<f, TRUE>>

(* A session is built under the expected names, and for NLI and Qwen from a *)
(* manifest with the pinned digest of the weights.  Each file it reads was  *)
(* hashed first, and is what the manifest lists unless it was replaced      *)
(* after its hash; the embedding runtime alone may also read files that its *)
(* manifest does not list.  Both exceptions are real (OpenedIsListed).      *)
(* Each text gets its own vector, in order.                                 *)
LoadedIsVerified ==
    /\ stage \in {"loaded", "embedded", "failed"} =>
          /\ manifest.identity
          /\ runtime # "embedding" => manifest.pinned
          /\ \A f \in Needed :
                \/ f \in hashed /\ (opened[f] = "listed" \/ ReplacedAfterHashing(f))
                \/ runtime = "embedding" /\ f \notin manifest.listed
    /\ stage \in {"start", "verifying", "opening", "refused"} => vectors = <<>>
    /\ stage = "embedded" => vectors = [i \in 1 .. texts |-> i]

(* docs/specs/semantic-retrieval-v2.md, NFR-R1 and AC-1: the files of a     *)
(* model are verified by their digest, and loading fails when one is        *)
(* altered.  So what is opened is what the manifest lists.  It does not hold. *)
OpenedIsListed ==
    stage = "loaded" => \A f \in Needed : f \in manifest.listed /\ opened[f] = "listed"
-----------------------------------------------------------------------------
(* The inductive invariant.  *)
Stages == {"start", "verifying", "opening", "loaded", "refused", "failed", "embedded"}
Opened == {"loaded", "embedded", "failed"}

TypeInv ==
    /\ runtime \in {"embedding", "nli", "qwen"}
    /\ manifest \in Manifests
    /\ runtime = "qwen" => manifest.listed = {"weights"}
    /\ stage \in Stages
    /\ texts \in Nat
    /\ replaced \in Seq(Files \X BOOLEAN)

(* A file that passed its hash is the listed one until it is replaced.  *)
HashedIsListed ==
    /\ hashed \subseteq manifest.listed
    /\ stage = "start" => hashed = {}
    /\ stage \in {"verifying", "opening"} \cup Opened =>
          /\ manifest.identity /\ (runtime = "embedding" \/ manifest.pinned)
          /\ \A f \in hashed : disk[f] = "listed" \/ ReplacedAfterHashing(f)

(* Files are opened once all that are listed are hashed.  *)
OpenedIsHashed ==
    /\ stage \in {"opening"} \cup Opened =>
          \A f \in Needed : f \in hashed \/ (runtime = "embedding" /\ f \notin manifest.listed)
    /\ stage \in Opened =>
          \A f \in Needed : f \in hashed => opened[f] = "listed" \/ ReplacedAfterHashing(f)

(* The vectors so far are those of the first texts, in their order.  *)
VectorsInOrder ==
    /\ Len(vectors) \in Nat /\ vectors = [i \in 1 .. Len(vectors) |-> i]
    /\ stage \in Stages \ Opened => vectors = <<>>
    /\ stage = "embedded" => Len(vectors) = texts

ModelInv == TypeInv /\ HashedIsListed /\ OpenedIsHashed /\ VectorsInOrder
==============================================================================
