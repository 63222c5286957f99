------------------------------- MODULE DemoSeed -------------------------------
(* Seeding the demonstration (seed.seed_demo_data, seed_cli): users and     *)
(* dossier in one transaction, then each document of the manifest stored,   *)
(* committed and processed in turn, then the evaluation artifacts.  A seed  *)
(* may die between any two of these and is run again; at any moment users   *)
(* upload the same contents and delete documents, and tools write           *)
(* artifacts.                                                               *)
EXTENDS Naturals, Sequences, SequencesExt, FiniteSets

CONSTANTS Items,         \* the manifest: 1 .. n
          Identities,    \* of an artifact: dataset, parameters and split
          MaxSeeds, MaxChanges, MaxArtifacts

VARIABLES settings,      \* the optional users enabled for this seed
          approved,      \* the documents a seed may use
          users,         \* the status of each user
          rows,          \* the documents: [item, status]; "stored" is a file alone
          artifacts,     \* on disk by name: [identity, created]
          evaluations,   \* in the database: [identity, created]
          pc, item,
          row,           \* of the document a seed is at
          history        \* [seeds, changes, abandoned, deleted]

vars == <<settings, approved, users, rows, artifacts, evaluations, pc, item, row, history>>

Optional == {"admin", "reader"}
Users == Optional \cup {"analyst"}

\* A user's upload is not enqueued by the seed: the worker sees to it.
Statuses == {"stored", "queued", "processing", "completed", "failed", "deleted", "uploaded"}

Live(r) == r.status \notin {"stored", "deleted"}
-----------------------------------------------------------------------------
(* A form the definition of Existing must not take. *)
EverStored(i) == \E n \in DOMAIN rows : rows[n].item = i
-----------------------------------------------------------------------------
Init == /\ settings \in SUBSET Optional
        /\ approved \in {Items, Items \ {Cardinality(Items)}}
        /\ users = [u \in Users |-> "absent"]
        /\ rows = <<>> /\ evaluations = {}
        /\ artifacts \in {<<>>} \cup {<<[identity |-> i, created |-> 2]>> : i \in Identities}
        /\ pc = "idle" /\ item = 0 /\ row = 0
        /\ history = [seeds |-> 0, changes |-> 0, abandoned |-> {}, deleted |-> {}]

Goto(p) == pc' = p

Start == /\ pc \in {"idle", "done"} /\ history.seeds < MaxSeeds
         /\ history' = [history EXCEPT !.seeds = @ + 1, !.deleted = {}]
         /\ settings' \in SUBSET Optional
         /\ Goto("users") /\ item' = 1
         /\ UNCHANGED <<approved, users, rows, artifacts, evaluations, row>>

(* _ensure_user creates a user or enables it again; an optional one that is *)
(* not enabled is disabled, if it exists.                                   *)
EnsureUsers ==
    /\ pc = "users" /\ Goto("find")
    /\ users' = [u \in Users |-> IF u \notin Optional \ settings THEN "active"
                                 ELSE IF users[u] = "absent" THEN "absent" ELSE "inactive"]
    /\ UNCHANGED <<settings, approved, rows, artifacts, evaluations, item, row, history>>

Existing(i) == \E n \in DOMAIN rows : rows[n].item = i /\ Live(rows[n])

NextItem == item' = item + 1 /\ Goto("find")

(* A document that exists, in whatever state, is left alone; the file of a  *)
(* new one is stored before its row.                                        *)
Find == /\ pc = "find" /\ item \in Items /\ item \in approved
        /\ \/ Existing(item) /\ NextItem /\ UNCHANGED <<rows, row>>
           \/ /\ ~Existing(item)
              /\ rows' = Append(rows, [item |-> item, status |-> "stored"])
              /\ row' = Len(rows) + 1
              /\ Goto("commit") /\ UNCHANGED item
        /\ UNCHANGED <<settings, approved, users, artifacts, evaluations, history>>

(* The seed ends: process_document is not run again for a committed row.    *)
Fail == /\ Goto("idle") /\ UNCHANGED item
        /\ history' = IF pc = "process" THEN [history EXCEPT !.abandoned = @ \cup {row}]
                                        ELSE history

NotApproved == /\ pc = "find" /\ item \in Items \ approved
               /\ Fail
               /\ UNCHANGED <<settings, approved, users, rows, artifacts, evaluations, row>>

(* The row, its task and the audit event, in one transaction, which the     *)
(* unique index refuses when a user has uploaded the content since.  The    *)
(* stored file then stays.                                                  *)
CommitRow == /\ pc = "commit"
             /\ \/ /\ ~Existing(item) /\ Goto("process")
                   /\ rows' = [rows EXCEPT ![row].status = "queued"]
                   /\ UNCHANGED <<item, history>>
                \/ Existing(item) /\ Fail /\ UNCHANGED rows
             /\ UNCHANGED <<settings, approved, users, artifacts, evaluations, row>>

(* process_document marks the document, then completes or fails it, or      *)
(* finds it deleted.  A failure to be retried leaves it queued, but its     *)
(* Retry only ends the seed: there is no queue to deliver it again.         *)
ProcessDocument ==
    /\ pc = "process"
    /\ \/ /\ rows[row].status = "queued"
          /\ rows' = [rows EXCEPT ![row].status = "processing"]
          /\ UNCHANGED <<item, pc, history>>
       \/ /\ rows[row].status = "processing"
          /\ rows' = [rows EXCEPT ![row].status = "completed"]
          /\ NextItem /\ UNCHANGED history
       \/ /\ rows[row].status = "processing"
          /\ \E s \in {"failed", "queued"} : rows' = [rows EXCEPT ![row].status = s]
          /\ Fail
       \/ rows[row].status = "deleted" /\ Fail /\ UNCHANGED rows
    /\ UNCHANGED <<settings, approved, users, artifacts, evaluations, row>>

(* _load_evaluation_artifacts: of one identity the file created last, of    *)
(* files created together the first by name.                                *)
Latest == {artifacts[n] : n \in
    {n \in DOMAIN artifacts :
        \A m \in DOMAIN artifacts \ {n} :
            artifacts[m].identity = artifacts[n].identity
            => \/ artifacts[m].created < artifacts[n].created
               \/ artifacts[m].created = artifacts[n].created /\ n < m}}

(* An identity the database knows is left alone.  *)
SeedArtifacts ==
    /\ pc = "find" /\ item \notin Items
    /\ evaluations' = evaluations \cup
           {a \in Latest : \A e \in evaluations : e.identity # a.identity}
    /\ Goto("done")
    /\ UNCHANGED <<settings, approved, users, rows, artifacts, item, row, history>>

Die == /\ pc \notin {"idle", "done"}
       /\ Fail
       /\ UNCHANGED <<settings, approved, users, rows, artifacts, evaluations, row>>

Seed == \/ Start \/ EnsureUsers \/ Find \/ NotApproved \/ CommitRow \/ ProcessDocument
        \/ SeedArtifacts \/ Die

(* What others do, in between or while a seed runs.  *)
Change(deleted) ==
    /\ history.changes < MaxChanges
    /\ history' = [history EXCEPT !.changes = @ + 1, !.deleted = @ \cup deleted]
    /\ Goto(IF pc = "done" THEN "idle" ELSE pc)
    /\ UNCHANGED <<settings, users, evaluations, item, row>>

Delete(n) == /\ Live(rows[n]) /\ Change({rows[n].item})
             /\ rows' = [rows EXCEPT ![n].status = "deleted"]
             /\ UNCHANGED <<approved, artifacts>>

(* An upload of a content that is there adds nothing.  *)
Upload(i) == /\ ~Existing(i) /\ Change({})
             /\ rows' = Append(rows, [item |-> i, status |-> "uploaded"])
             /\ UNCHANGED <<approved, artifacts>>

Publish == /\ Change({}) /\ Len(artifacts) < MaxArtifacts
           /\ \E i \in Identities, t \in 1 .. 3, n \in 0 .. Len(artifacts) :
                 artifacts' = InsertAt(artifacts, n + 1, [identity |-> i, created |-> t])
           /\ UNCHANGED <<approved, rows>>

\* A seed reads the list of approved contents once, when it starts.
Approve == /\ pc \in {"idle", "done"} /\ Change({}) /\ approved # Items
           /\ approved' = Items
           /\ UNCHANGED <<rows, artifacts>>

Next == \/ Seed
        \/ \E n \in DOMAIN rows : Delete(n)
        \/ \E i \in Items : Upload(i)
        \/ Publish \/ Approve

Spec == Init /\ [][Next]_vars
-----------------------------------------------------------------------------
(* However often seeds died, were repeated or met uploads and deletions, no *)
(* document of the manifest is there twice and no evaluation is.  A seed    *)
(* that ends has every document there that was not deleted meanwhile,       *)
(* completed unless a user uploaded it or a seed ended between its commit   *)
(* and its completion; every published evaluation is listed and the users   *)
(* are as the settings say (_add_document).                                 *)
SeedIsIdempotent ==
    /\ \A n, m \in DOMAIN rows :
           Live(rows[n]) /\ Live(rows[m]) /\ rows[n].item = rows[m].item => n = m
    /\ \A e, f \in evaluations : e.identity = f.identity => e = f
    /\ pc = "done" =>
           /\ \A i \in Items \ history.deleted : \E n \in DOMAIN rows :
                 /\ rows[n].item = i
                 /\ \/ rows[n].status \in {"completed", "uploaded"}
                    \/ n \in history.abandoned /\ rows[n].status \in {"queued", "processing", "failed"}
           /\ {a.identity : a \in Range(artifacts)} \subseteq {e.identity : e \in evaluations}
           /\ \A u \in Users : users[u] = "active" <=> u \notin Optional \ settings

(* seed_cli.py, module docstring: the demonstration is seeded idempotently. *)
(* So a seed that ends leaves no document of its own unfinished, whatever   *)
(* ended an earlier one.                                                    *)
SeedFinishes ==
    pc = "done" => \A n \in DOMAIN rows : rows[n].status \notin {"queued", "processing", "failed"}
-----------------------------------------------------------------------------
(* The inductive invariant.  *)
Rows == [item : Items, status : Statuses]
Unfinished == {"queued", "processing", "failed"}

(* Of one document one row is live; the row a seed is at is of its item.    *)
DocumentsOnce ==
    /\ rows \in Seq(Rows)
    /\ \A n, m \in DOMAIN rows :
           Live(rows[n]) /\ Live(rows[m]) /\ rows[n].item = rows[m].item => n = m
    /\ pc \in {"commit", "process"} =>
           item \in Items /\ row \in DOMAIN rows /\ rows[row].item = item
    /\ pc = "commit" => rows[row].status = "stored"
    /\ pc = "process" => rows[row].status \in {"queued", "processing", "deleted"}

(* What is neither finished nor at hand was abandoned by a seed.  *)
RestAbandoned ==
    \A n \in DOMAIN rows :
        rows[n].status \in Unfinished => n \in history.abandoned \/ (pc = "process" /\ n = row)

(* The seed has left behind it every document before the one it is at.      *)
SeededInOrder ==
    /\ item \in Nat
    /\ pc = "users" => item = 1
    /\ pc \in {"find", "commit", "process"} =>
           /\ item \in 1 .. Cardinality(Items) + 1
           /\ \A i \in (1 .. item - 1) \ history.deleted : Existing(i)
    /\ pc = "done" => \A i \in Items \ history.deleted : Existing(i)

EvaluationsOnce ==
    /\ artifacts \in Seq([identity : Identities, created : 1 .. 3])
    /\ \A e, f \in evaluations : e.identity = f.identity => e = f
    /\ pc = "done" =>
           {a.identity : a \in Range(artifacts)} \subseteq {e.identity : e \in evaluations}

UsersAsSet ==
    pc \in {"find", "commit", "process", "done"} =>
        \A u \in Users : users[u] = "active" <=> u \notin Optional \ settings

SeedInv ==
    /\ history \in [seeds : Nat, changes : Nat, abandoned : SUBSET Nat, deleted : SUBSET Items]
    /\ row \in Nat
    /\ DocumentsOnce /\ RestAbandoned /\ SeededInOrder /\ EvaluationsOnce /\ UsersAsSet
==============================================================================
