# EvidenceDesk: specification, model checking and proofs

This directory models EvidenceDesk (`src/apps`, `src/evals`) in TLA+: the document
pipeline over PostgreSQL, files and Redis, the service around it (limits, parsing,
answering, extraction, local models, demo seed, web client), and the evaluation tools
with their one-shot holdout. TLC checks the models on small instances; TLAPS proves the
theorems of section 6 for every instance. `PROJECT.json` is the index: components, runs,
mutants, the map from definitions to source lines, hazards, findings, theorems.

## 1. Inventory

| Component | State it keeps | Operations | Interacts with |
|---|---|---|---|
| Document import (`main.py` `upload_document`) | the request's own phase, ORM objects kept over the commit | look for a duplicate, store the file, commit rows and audit event, resolve a conflict, enqueue, record a failed enqueue | storage, PostgreSQL, Redis |
| Document deletion (`main.py` `delete_document`) | two row locks while it runs | lock task then document, remove the file, delete passages and extraction, mark deleted | the worker (same locks), storage |
| Worker (`jobs.py`) | attempt number and computed index of each run | claim, read file, parse and index, persist, record a failure, cancel | PostgreSQL, storage, ARQ |
| Job queue (`queueing.py`, ARQ, Redis) | queued jobs, in-progress keys, delivery counts | enqueue, deliver, finish, retry, drop after `max_tries`, forget everything on restart | import, worker |
| Schema (`models.py`), storage (`storage.py`) | rows and their uniqueness; one file per document | transactions at READ COMMITTED; put, get, delete | all of the above |
| Parsing (`processing.py`) | the PDF child and its pipe; the pages and chunks under construction | read lines, gather pages, cut chunks; spawn, poll, receive, stop | worker, seed |
| Supplier extraction (`extraction.py`, `trust_boundaries.py`, `get_dossier_extraction`) | the stored record | read each field by the rules of v1 or v3, store, filter when served | worker, API |
| Question answering (`retrieval.py`, `answering.py`, `nli_answering.py`, `qwen_answering.py`) | none of its own | rank and fuse candidates, scope to documents, judge passages, decide, cite, gate what a model says | rows of completed documents, local models |
| Local models (`text_onnx.py`, `nli_answering.py`, `qwen_answering.py`) | verified files, the open session | check identity, hash, open, embed in batches | the file system |
| Request limits (`request_limits.py`) | sliding log per (bucket, client) | admit, prune, evict; count the bytes of a body | every request |
| Demo seed (`seed.py`, `seed_cli.py`) | the same rows and files | ensure users, add or skip a document and process it, load evaluation artifacts | parsing, worker code |
| Web client (`App.tsx`) | session, dossier, list, selection, passages, extraction | log in and out, poll, select, upload, ask | the API, replies in any order |
| One-shot evaluation (`evals/holdout*.py`, `freeze.py`) | lock file, output file, Git history | freeze, attest, preflight, claim, evaluate, write | file system, Git |
| Development evaluation (`evals/runner.py`, `recalculate.py`, `strategy_benchmark_v3.py`, `finalize_answer_v3.py`, `validate_dataset.py`) | artifacts on disk | count, recalculate, compare strategies, resume, finalize, validate a dataset | freeze |
| Authentication, observability, migrations, scripts | see section 7 | | |

Hard behaviours. No transaction spans PostgreSQL, the file system and Redis, so each
request and each run can stop between two of them. Deletion races both the upload that
created the document and the runs that index it. ARQ delivers at least once, counts
deliveries itself, and keeps them in a Redis without persistence, while the task row
counts claims. Replies to the browser overtake each other. Files are hashed and opened at
two different times. Two evaluations may start at once and people edit files meanwhile.
The answer engines must not assert what their passages leave open, whatever order the
passages come in and whatever a model returns.

What makes each component correct, and the property that says so:

- import and deletion: one live document per content, every pending document has a job, no stray files, every outcome audited, nothing of a deleted document left or coming back (`OneIndexPerContent`, `NoAbandonedDocument`, `NoOrphanFiles`, `LiveHasFile`, `AuditTrailComplete`, `DeletedLeavesNothing`);
- worker and queue: completed is final, both rows agree, no revival, everything settles (`CompletedIsSearchable`, `RowsAgree`, `WorkerNeverRevives`, `ImplementsRedelivery`, `ImplementsLifecycle`);
- request limits: no more than the limit per window, an honest `Retry-After`, no more bytes than allowed, one response (`WindowBound`, `LogsBounded`, `RetryIsHonest`, `BodyIsBounded`, `OneResponse`);
- parsing: no text lost, reordered or put under another section or page; the verdict on a PDF is its child's (`ChunksAreSource`, `PdfIsOfChild`);
- answering: sources are those asked for, no value is one its clause denies, decisions are supported and what contradicts them is reported, ranking does not depend on row order, model output fails closed (`ScopeIsJustified`, `AcceptedIsAsked`, `AnswersAreSupported`, `RankingIsFair`, `GatesFailClosed`), each as far as section 4 does not show otherwise;
- extraction: everything served is cited and no instruction (`ServedIsCited`);
- local models: a session reads files whose hash was compared, apart from those replaced since or that an embedding manifest does not list (`LoadedIsVerified`, `OpenedIsListed` in section 4);
- seed: nothing is there twice and nothing is left out, though a document may stay unfinished (`SeedIsIdempotent`, finding 6);
- web client: a page at rest shows the present status of what it lists; while nothing fails or overtakes, it also lists its uploads and shows passages of the document selected (`RestIsTrue`);
- evaluation: one opening per lock, on a frozen engine older than its dataset, of verified inputs unless they are edited after the check; its counts recalculable, its winner reproducible (the properties of the run `evaluation`).

## 2. Modules

| Module | Models | Abstraction |
|---|---|---|
| `DocumentPipeline` | import, deletion, queue and worker over shared rows, files and jobs | see below |
| `DocumentLifecycle` | the promise: a document is recorded, settles once, may be removed for good; with redelivery a failed one may be reopened | |
| `RateLimiter` | `_admit`, `_prune`, eviction at `max_keys` | a deque is a history with a head; ticks finer than a second |
| `BodyLimit` | `RequestBodyLimitMiddleware` around one request | the application (external) may catch the exception and read on |
| `DocumentText` | lines to blocks to chunks: `ReadLine` and `Parse` gather them, `Sentence`, `Word`, `EndOfSentence` and `EndOfBlock` are the loops of `chunk_pages` and its generators | a character is its place in the source and its kind; a line is stripped; pages are numbers of blocks |
| `PdfParser` | parent, child and pipe of the isolated parser | a message is empty, partial or whole |
| `SupplierExtraction` | one field, from lines to what the API serves, both extractors | a line is its label, value and trust |
| `Retrieval` | lexical and dense scores, both orders, reciprocal-rank fusion | scores are integers over a common denominator |
| `AnswerScope` | which documents may answer a question | type words with cues, subjects, records |
| `AnswerValue` | the value a passage gives and whether it is the relation's | clauses with terms, value, role, events, negation |
| `GroundedAnswer` | passages judged one by one, one decision, one assessment per chunk, validation | a passage is how it was judged |
| `ExtractiveAnswer` | the extractive provider over ranked chunks | a segment is the evidence it gives |
| `AnswerGates` | what the NLI scores and the Qwen reply may do to an answer | the model may return anything |
| `LocalModels` | identity, pinned digest (NLI and Qwen only), hashes, completeness, opening, batches; files replaced at any moment | a file is as listed, other or absent |
| `DemoSeed` | seeds that die or fail anywhere and are repeated; uploads, deletions and new artifacts at any moment | processing takes two steps |
| `WebClient` | the page and the server it asks; requests served and answered in any order | a request is what it asks for and, once served, what was read; a list maps each document to its status |
| `HoldoutOnce`, `HoldoutSeal` | the one-shot protocol of several runners, and the seal it implements | file accesses one by one but for the first look at lock and output, which is repeated by the claim; runners that die, edits |
| `HoldoutProvenance` | freeze and preflight over a Git history people write | contents are what a hash tells apart |
| `DevelopmentRuns` | strategy comparison, final runtime, evidence check and record | an artifact keeps the engine that ran, the one it is signed with, and an outcome |
| `EvalMetrics`, `ExtractionScore`, `DatasetGate` | counters and their recalculation, extraction scoring, dataset validation | decisions, not texts; at most one extraction target |
| `Service`, `Evaluation` | the parts above that do not interact, composed for any values of their constants | a behaviour is one of a single part |
| `MCDocumentPipeline`, `MCService`, `MCHoldout`, `MCEvaluation` | instances for TLC: values for the constants, nothing else | |
| `DocumentPipelineProofs`, `DocumentRefinementProofs` | theorems about the pipeline: what holds whatever fails, and what holds without some faults | |
| `ServiceProofs`, `AnsweringProofs` | theorems about the parts of `Service`: limits, models, PDF, seed and page; scope, ranking, values, decisions, gates and extraction | |
| `WebClientProofs`, `DevelopmentRunsProofs`, `DocumentTextProofs` | theorems about these modules, used for the parts of `Service` and `Evaluation` that instantiate them | |
| `EvaluationProofs` | theorems about the parts of `Evaluation`, `HoldoutOnce` among them | |

`Service` and `Evaluation` put components that do not interact into one specification. A
behaviour is one of a single part, chosen in the initial state and named by `part`; the
parts share the variables `x1`, `x2`, ... through `INSTANCE`. So the states of a run are
the sum of the parts' states, not their product, and each property speaks of its part.
`RateLimiter` and `HoldoutOnce` keep variables of their own, because theorems and a
refinement speak of them directly.

### State and steps of `DocumentPipeline`

An upload request is named by the document id it mints, so `upload[d]` is the request
that creates document `d`. `docStatus`, `docError`, `deletedAt`, `taskStatus`,
`taskError`, `attempts` are columns. Chunks and extraction are always written and removed
together: `index[d]` counts the generations of them stored. `files` is the disk, `jobs`,
`leases`, `tries` are Redis, `run[r]` is the program counter and local state of an
execution of `process_document`, `deleting` are the documents whose rows a DELETE holds
locked while it works on the file. The audit trail is kept per document.

A transaction that takes `FOR UPDATE` on task and document, decides and commits is one
step, disabled while a DELETE holds the locks. The steps of the programs:

| Code | Actions |
|---|---|
| `upload_document` | `Deduplicate` or `MissesDuplicate`; `PutFile`; `CommitUpload` or `CommitConflicts` then `ResolveConflict`; `EnqueueJob`, `EnqueueFails` or `EnqueueReplyLost`; `RecordEnqueueFailure` |
| `delete_document` | `DeleteFile`; `CommitDelete` or `DeleteLost` |
| `process_document` | `Claim`, `AlreadyCompleted`, `NoticeDeleted`; `Fetch`; `Process`; `Persist` or `PersistFails`; `RecordFailure` |
| ARQ (external) | `StartJob`, `DropJob`, `FinishJob`, `RequeueJob`, `LeaseExpires` |

Outcomes the code handles (an `OSError` on reading, a parse error, an error while
embedding, a failing persistence transaction, an unreachable queue) are always possible.
Faults it cannot handle are limited by `MaxFaults` and named in `FaultKinds`:

- `crash`: the worker dies; its in-progress key expires later.
- `duplicate`: the key expires while the run is alive, as with a second worker or an event loop blocked by synchronous parsing.
- `abort`: an exception escapes `process_document`; ARQ treats every exception but `Retry` as final. `PdfParser` shows one: `Connection.recv` raises `OSError` when the child dies within its message, and only `DocumentParseError` is caught. ARQ's job timeout is the same step.
- `redis`: Redis restarts empty (`--save "" --appendonly no`).
- `api`: the API dies, or a commit fails other than by `IntegrityError` (`UploadLost`, `DeleteLost`).
- `lostreply`: Redis executes the enqueue and the API sees an error.

`tries` is not reset when ARQ removes a finished job: the job of a document is enqueued
once, so the count of a removed job is never read. The `"missing"` results cannot happen,
because jobs are enqueued after their rows are committed and rows are never removed;
`WorkIsRecorded` proves it.

### The other modules

Each follows the same pattern: `VARIABLES` are what the code keeps (or what a pure
function is given and returns, when the interest is in its result for every input), one
action per handler, loop body or stage, named after the function it models. Loops are
folded into one action per element where elements can interact (`NextChunk` and
`EvaluatePassage`, `ReadLine`, `Word`, `VerifyFile`, `EvaluateCase`); a pure function is one action that
applies it to inputs chosen freely (`Find`, `Say`, `Rank`, `ScoreValue`). Word patterns
are external: the model chooses freely what a text matches, so a property holds for
every pattern set that keeps the stated relations.

Definitions under a heading such as "Forms the definitions below must not take" are the
mutants of `PROJECT.json`: plausible bugs, each of which breaks the property that watches it.

## 3. Runs

| Run | Instance | Question |
|---|---|---|
| `pipeline_no_fault` | 2 documents of 1 content, 2 runs, 3 attempts and tries, fairness | Without faults, do files and queue agree with the rows in every interleaving, and does every document settle, once (`DocumentLifecycle` with its liveness)? |
| `pipeline_any_fault` | same, any 1 of the six faults | What holds whatever breaks? |
| `pipeline_single_delivery` | same, 1 crash, abort, redis or api fault | While runs of a job never overlap, does the pipeline implement the lifecycle with reopening? |
| `service` | the 15 parts of `Service` | The service around the pipeline, part by part. |
| `evaluation` | the 7 parts of `Evaluation` | One-shot protocol, provenance, development runs, metrics, scoring, dataset gate. |
| `pipeline_worker_crash` | 1 document, 1 crash | Finding: a pending document without a job. |
| `pipeline_enqueue_vs_delete` | 1 document | Finding: a deleted document marked failed. |
| `pipeline_two_deliveries` | 1 document, 2 runs, 1 second delivery | Finding: a completed document taken back. |
| `answer_wrong_event` | 2 kinds of incident, 2 clauses | Finding: the delay of another incident. |
| `web_content_missing` | 2 documents, 2 requests | Finding: passages never asked for again. |
| `seed_interrupted` | 2 documents, 2 seeds | Finding: a document no later seed finishes. |
| `holdout_edited` | 3 runners, 1 edit | Finding: a report with hashes of what was not evaluated. |

### Bounds and why they are enough

Pipeline: two requests of one content are needed for the duplicate race, and a deletion
of the first makes room for the second, so each can be live in turn. Two runs are the
least that overlap on one job or work on two documents. One fault already breaks every
property that needs its absence. Three attempts and three tries are the code's values.
Documents and runs are symmetric, except under the liveness run, which uses no symmetry; so are, in the service run, the two clients with one limit and the two values passages may give.

Service (the constants are in `Service.cfg` and `MCService`):

- rate limiter: three clients for two log places, one bucket of limit one and one of limit two, a window of three ticks at two ticks a second: pruning at the window's edge, rounding, and eviction all occur;
- body: four reads of chunks below, at and above the limit, every declared length around it, a negative one and none;
- scope: records of two types, two of one, so that a question finds one record, several, or those of the wrong type; three sources to join;
- value: two clauses, two terms, two values, two kinds of incident: enough for a value in one clause and its relation, role or exclusion in the other;
- decision: two chunks with three passages in all; a conflict with a passage that is not the second needs the third;
- extractive decision: three segments over all ranked chunks, shared out in every way, so that a chunk has evidence behind its first and a conflict stands behind evidence that agrees;
- ranking: three chunks of two documents with ties in both orders; `Unit` and `Fused` are common multiples of every denominator of a score and of a reciprocal rank that occurs, and `MaxWords` bounds the words of a question, so that scores are integers and compare as the code's fractions do;
- extraction: three lines with two values: repetition, conflict and an instruction between;
- text: two lines of text, one with a stop and a space and one longer than a chunk of five characters, and a heading of every level, in documents of up to five lines on at most two pages with at most seven chunks: sentences that fit, words that fit together or not, a divided word, and documents refused for their pages and for their chunks;
- PDF: every kind of file, every death of the child, the deadline at every moment (the module is finite);
- models: weights and tokenizer, two replacements (one before and one after a hash), three texts in batches of two, so the last batch is short;
- web: two documents with two requests under way, and a second session over one document with four requests, which is what one selection asks for at once, up to the first reply out of turn;
- seed: two items, two seeds, two changes by others at any moment, two artifacts of one identity.

Evaluation: three runners, of which two share a lock and two an output; Git
histories of six operations and four commits, the shortest that freeze, edit, attest and
revert; development runs twice, with two configurations of one repetition (started twice,
with one edit or discarded artifact, so that a suite is resumed) and with one of two
repetitions (whose decisions may differ); two cases of every kind and outcome; texts of
which one is part of two others, where taking the first match is wrong. With two cases (`MaxSplit`) no target is
partly missed in TLC; `PassIsEarned` has that case from its theorem alone.

Deadlock is not checked: an answered request, an empty queue, a finished function and an
idle page are where the system really rests. That nothing stops too early is a
liveness question in the pipeline, and elsewhere part of the invariants (`RestIsTrue`
speaks of the page exactly when nothing is under way).

### Fairness

`FairSpec` is weak fairness of each request already received, of each deletion's commit,
of ARQ handing out each job, of dropping jobs and expiring keys, and of each run: what
uvicorn, ARQ's polling loop and Redis give. Failures remain free to occur, deletions are
never forced, and no request is obliged to arrive. Weak fairness for handing out a job
suffices because the other jobs are finitely many and each leaves the queue after at most
three deliveries. Only `ImplementsLifecycle` uses it; no other run is about liveness.

## 4. Findings

1. Deliveries and attempts are two counters compared with the same 3. One worker crash makes them differ, and ARQ then drops the job of a document that stays `queued` or `processing` for good (`pipeline_worker_crash`).
2. The enqueue-failure handler writes without lock or re-read: a deleted document ends with `deleted_at` set and status `failed` (`pipeline_enqueue_vs_delete`).
3. The failure handlers do not recheck `completed`: with overlapping runs a late failure takes a completed document back (`pipeline_two_deliveries`). Passages are nevertheless never duplicated.
4. A passage that gives one delay for each of two incidents is accepted for either, and the first delay is the answer (`answer_wrong_event`). "A service interruption must be notified within 4 hours; a personal data breach must be notified within 72 hours." answers 4 hours for the breach; the deterministic provider does so when it is run.
5. The page asks for passages when a document is selected. One selected while queued, as each upload is, completes without its passages ever being asked for (`web_content_missing`).
6. A seed that ends between the commit of a document and its completion leaves it unfinished; every later seed finds it and skips it, though `seed_cli.py:1` says it seeds idempotently (`seed_interrupted`).
7. The holdout's inputs are read again after the preflight hashed them, and the report keeps the hashes of the preflight: an edit in between is evaluated under the attested name (`holdout_edited`).

The models refute these claims too. Each is a definition that no run lists; TLC finds a
counterexample within seconds when it is checked as an invariant of its module.

| Definition | Claim | What the code does |
|---|---|---|
| `DocumentPipeline!UploadsAudited` | every import is audited (FR-16) | the loser of an upload race is answered without an audit event (`main.py:432`) |
| `HoldoutOnce!HoldoutOpenedOnce` | a sealed holdout is opened once (FR-19) | the lock is whatever path `--lock` names (`holdout_v4.py:43`): two locks open it twice |
| `AnswerValue!DateIsOfAskedClause` | values are taken from their local clause (`docs/architecture.md:63`) | a date question whose role is unknown compares its terms with the whole passage, and the only date of the passage is its answer (`answering.py:1013`) |
| `AnswerValue!DateIsNotDenied` | a value whose relation is negated is rejected (`answering.py:506`) | denials are sought beside the words "effective" and "renewal", though roles have more: "does not start on 2025-01-01" says when something becomes effective (`answering.py:511`) |
| `ExtractiveAnswer!SourcesAgree` | sources that differ are reported (FR-11, AC-8, EC-8) | across documents evidence is compared for broad questions and deadlines alone (`retrieval.py:738`) |
| `ExtractiveAnswer!PassagesAgree` | contradictory evidence is not answered (FR-11) | a chunk is read up to its first evidence (`retrieval.py:705`) |
| `LocalModels!OpenedIsListed` | model files are verified (`semantic-retrieval-v2.md:60`, `:77`) | files are hashed by path and opened by path later; the embedding provider pins no digest and opens files its manifest need not list (`text_onnx.py:115`) |
| `DevelopmentRuns!EvidenceIsOfSignedEngine` | stale artifacts are rejected (`strategy_benchmark_v3.py:391`) | a run is decided by the engine its process loaded and signed with the fingerprint at its end (`runner.py:791`); resume, finalisation and freeze accept the signature |

Observations, which the models allow and the properties therefore except:

- a redelivery after a crash reopens a document that had failed for good (`Lifecycle!Reopen`);
- a list read before an upload and arriving after its reply drops the new document from the list until a later list brings it (`App.tsx:331`); an extraction read before completion stays until another selection; logging out clears the passages alone;
- the newer artifact of a known evaluation is never loaded by a seed; a seed that loses the race for a content to an upload fails at its commit, and the file it stored stays;
- v3 takes the first renewal date of several without reporting it as v1 does; the title of v1 is read before instructions are filtered out;
- a dataset whose extraction targets are all of the other split passes validation, though its extraction F1 is then 0 and misses its threshold (`validate_dataset.py:177`, `runner.py:466-468`).

## 5. Refinements

| Detailed | Abstract | Mapping | Where |
|---|---|---|---|
| `DocumentPipeline` | `DocumentLifecycle!FairSpec` | `Stage(d)`: absent rows are `none`, `deleted_at` is `gone`, queued or processing is `pending` | TLC without faults; the safety part proved |
| `DocumentPipeline` | `DocumentLifecycle!RedeliverySpec` | the same | TLC with one fault; proved for any number |
| `HoldoutOnce` | `HoldoutSeal` | a lock's opener is the runner that evaluated under it | TLC and proved |

## 6. Proofs

Each theorem holds for every value of the constants under the named assumptions of the
modules it extends. TLC evaluates them in every run. An assumption a theorem makes
beyond them stands in the theorem.

| Theorem | Property | Beyond or notable among the assumptions |
|---|---|---|
| `DocumentPipelineProofs!TypeCorrect` | `TypeOK` | |
| `!DeletionLeavesNothing` | `DeletedLeavesNothing` | |
| `!ContentIndexedOnce` | `OneIndexPerContent` | |
| `!CompletedAreSearchable` | `CompletedIsSearchable` | |
| `!WorkersNeverRevive` | `WorkerNeverRevives` | |
| `!RowsAlwaysAgree` | `RowsAgree` | |
| `!AuditTrailIsComplete` | `AuditTrailComplete` | |
| `!AttemptsAreBounded` | `AttemptsBounded` (proved only) | finitely many runs |
| `DocumentRefinementProofs!ImplementsRedeliveries` | `ImplementsRedelivery` | no second delivery, no lost reply |
| `!CompletedStays` | `CompletedIsFinal` | no second delivery, no lost reply |
| `!LiveHasItsFile`, `!NoFileIsOrphaned` | `LiveHasFile`, `NoOrphanFiles` | no `api` fault |
| `!NothingIsAbandoned` | `NoAbandonedDocument` | no fault, `MaxAttempts <= MaxTries` |
| `!ImplementsOneSettlement` | `DocumentLifecycle!Spec` | no fault, `MaxAttempts <= MaxTries` |
| `ServiceProofs!WindowIsRespected`, `!LogsAreBounded`, `!RetriesAreHonest` | `WindowBound`, `LogsBounded`, `RetryIsHonest` | limits, window and second are at least one (`LimiterAssumption`) |
| `!BodyAlwaysBounded`, `!ResponseStartsOnce` | `BodyIsBounded`, `OneResponse` | sizes are natural numbers (`SizesAssumption`) |
| `!LoadedAlwaysVerified` | `LoadedIsVerified` | the weights are among the files (`WeightsAssumption`); replaced and unlisted files are excepted in the property |
| `!PdfVerdictIsOfChild` | `PdfIsOfChild` | |
| `!SeedsAreIdempotent` | `SeedIsIdempotent` | the manifest is a finite list (`ManifestAssumption`) |
| `!RestIsAlwaysTrue` | `RestIsTrue` | |
| `!ChunksAreAlwaysSource` | `ChunksAreSource` | lines are stripped, a chunk has room for a character, the page limit is a number (`TextAssumption`) |
| `DocumentTextProofs!SourceIsAlwaysKept` | `SourceIsKept` (the same of `DocumentText` alone) | `Trimmed`, the same as a hypothesis |
| `AnsweringProofs!ScopeAlwaysJustified` | `ScopeIsJustified` | finitely many records (`RecordsAssumption`) |
| `!RankingsAreFair` | `RankingIsFair` | a finite vocabulary, at most 40 candidates, scores without remainder (`RankingAssumption`) |
| `!AcceptedIsAlwaysAsked` | `AcceptedIsAsked` | finitely many relation terms (`TermsAssumption`) |
| `!AnswersAreAlwaysSupported` | `AnswersAreSupported` | |
| `!GatesAlwaysFailClosed` | `GatesFailClosed` | |
| `!ServedIsAlwaysCited` | `ServedIsCited` | |
| `EvaluationProofs!OneEvaluationPerLock`, `!RefusalsSpendNothing` | `EvaluatedOncePerLock`, `RefusedSpendsNothing` | each runner has a lock and an output (`RunnerAssumption`) |
| `!ImplementsTheSeal`, `!ReportsHoldTheirLock`, `!LocksAreSpentForever` | `ImplementsSeal` and two facts behind it | |
| `!EvaluationsAreVerified` | `EvaluatedIsVerified` | |
| `!ClaimedEnginesAreFrozen`, `!DatasetsFollowTheirFreeze` | `ClaimedEngineIsFrozen`, `DatasetFollowsFreeze` | nobody edits during the preflight, as in the run (`EditsDuringPreflight = FALSE`) |
| `!WinnersAreReproducible` | `WinnerIsReproducible` | at least one configuration and one repetition (`RunsAssumption`) |
| `!CountsAlwaysRecalculate`, `!PassesAreEarned` | `CountsRecalculate`, `PassIsEarned` | |
| `!FirstMatchesAreGood` | `FirstMatchIsGood` | |
| `!OpenedDatasetsAreMeasurable` | `OpenedIsMeasurable` | |

So of the properties the passing runs check one has no theorem, `ImplementsLifecycle` (see
the end of this section).

### The arguments

*Pipeline, whatever fails.* `DeletedLeavesNothing` is not inductive: a request still about
to store its file whose row is already deleted would break it in one step. `PipelineInv`
adds that a request before its commit has no row (`RequestsKnowRows`), that jobs and busy
runs are about recorded documents (`WorkIsRecorded`), that a deletion between its two steps
holds a live document without file (`DeletionTakesAll`), that only live documents have
passages, of one generation (`IndexIsLive`), and that live documents of one content are one
(`OneLivePerContent`). `RowsAgree` and `AuditTrailComplete` are inductive on top of it. For
attempts, `AttemptsPaid` says that the attempts of a task plus the runs delivered and not
yet claiming never exceed the deliveries.

*Pipeline, one delivery at a time.* `DeliveryInv` says that two busy runs never share a
document because the job of a busy run is leased or gone for good (`OneRunPerJob`), that a
job in the queue belongs to an answered request (`JobsAreAnswered`), that nobody takes a
document up before it is enqueued (`QueuedUntilEnqueued`), and that from claim to outcome a
run owns the status (`RunOwnsDocument`). Every step then moves one document along `Moves`,
and a claim may also reopen a failed one (`StepMoves`, `ClaimMoves`);
`MoveRefinesRedelivery` turns a move into a step of the abstract specification. The
worker-crash and two-deliveries findings are the steps that the assumptions exclude.

*Pipeline, files.* `FilesInv`: a request about to commit has its file, a live document that
no deletion holds keeps it, and every file has an owner. Only the death of the API between
file and commit breaks it.

*Pipeline, no fault.* `JobInv` joins the queue to the counters. A job's document is pending
unless the run that settled it has yet to return (`JobsOfPending`); each delivery of a live
document is one attempt, so a pending document nobody works on has used as many tries as
attempts, fewer than `MaxAttempts` (`DeliveriesAreAttempts`). With `MaxAttempts <= MaxTries`
ARQ never drops its job. This is precisely what one crash breaks.

*Composition.* A step of `Service` or `Evaluation` keeps `part`, and while a behaviour is of
a part it takes that part's steps (`BodyMoves`, `RankingMoves`, ...). So `part = "x" =>
X!Inv` is inductive when `X!Inv` is, and each theorem about a part proves that. The
inductive invariants stand at the end of the modules they are about; they are no properties
of the runs, but each held in TLC on a run's instance before it was proved. The page and the
development runs occur twice with different constants: their invariants are proved once, in
modules of their own, and the lemmas `WebStepsAgree`, `ReloginStepsAgree`,
`ResumeStepsAgree` and `RepeatStepsAgree` carry them over. So do `TextStepsAgree` and
`KeptAgrees` for the text of a document, whose proof is long enough for a module of its own. `LimiterInService` does so for
the limiter, whose theorems are about its own `Spec`.

*Rate limiter.* The log of a client is the suffix of its admissions since the head, in order
and inside the window as of its last pruning; of `limit + 1` admissions without an eviction
the first was pruned when the last was admitted. `RetryIsHonest` needs besides that a
promised second is not before the head leaves the window (`CeilingCovers`).

*Body.* What is delivered was counted, and no chunk that takes the count over the limit is
delivered, so an application that catches the exception gains nothing (`BodyInv`).

*Text.* `SourceIsKept` speaks of a document that is cut to its end; three invariants lead
there. `ReadInv`, while lines are read: the blocks with the paragraph still open hold every
character of the lines so far, once and in order, each under its heading and on its page
(`Gathered`), no block is on a later page than the one being filled and those on it have no
page break behind them (`OnPages`), and within a block the characters of a line follow each
other without a gap (`Runs`, `GoesOn`), so that a word of a block is a word of a line.
`CutInv`, while blocks are cut: the chunks with the piece still open hold exactly the
characters before the cut (`Up`), each chunk some of one block, and two neighbours in
different chunks belong to a word longer than a chunk (`HoldsAll`); the cut is where no word
is (`MayCut`), and a sentence taken word by word ends where one may (`EndsAt`). Each step
adds one line (`LineAdded`, `NothingAdded`) or one piece (`PieceAdded`, `PieceExtended`,
`PartsHold` for the parts of a long word), so no fact about sequences needs induction.
`PagesInv`: pages are counted from one and none but the last is without text (`Numbered`); a
block has letters, these are in a chunk of its page, so no page is without a chunk
(`PagesKept`).

*Local models.* A hashed file is the listed one until it is replaced (`HashedIsListed`),
files are opened once all listed ones are hashed (`OpenedIsHashed`), and the vectors so far
are those of the first texts (`VectorsInOrder`). The theorem so says that the two exceptions
of the property, replaced and unlisted files, are the only ones.

*PDF.* What is in the pipe is the child's verdict, and what the parent says once it stops
waiting stays true of a child that is stopped before the answer is returned (`PdfInv`).

*Seed.* One row of a document is live, whatever uploads race the seed, and the row a seed is
at is of its item (`DocumentsOnce`); every document before the item is there unless it was
deleted meanwhile (`SeededInOrder`); an unfinished row is the one at hand or was abandoned
by a seed that ended within it (`RestAbandoned`); an evaluation is loaded once, and none
published before the seed is missing when it is done (`EvaluationsOnce`); so are the users
(`UsersAsSet`).

*Page.* `PageInv` has two parts. Whatever happens, a status in the list or in a reply on its
way is the server's or one that is still to change, so that the page keeps polling
(`StatusInv`). While every request succeeds and is served in the order it was sent, lists
only grow and the last request for passages is for the current document (`CleanInv`:
`ServedInTurn`, `ListsGrow`, `ContentIsCurrent`). What is left without a request under way
and without polling is `RestIsTrue`: its first conjunct from the first part, for every order
of replies; the other two from the second.

*Scope, gates, extraction.* These are functions of what was chosen: the invariants say that
the state is an input followed by what the function made of it (`ScopeInv`, `GateInv`,
`ExtractionInv`). The work is in the lemmas: documents joined by identifiers tell of one
record (`JoinedTellOfOne`); what the NLI decision and the three Qwen gates leave
(`NliLowers`, `QwenQuotes`); an entry is never part of an instruction, however it is split
over lines (`EntriesAreSafe`, `ServedCited`).

*Ranking.* `RankBy` counts who is ahead. A strict total order on finitely many candidates
gives each its own place (`OrderPlaces`), so the places are a permutation; a candidate ahead
in one order has the smaller rank, reciprocals fall (`ReciprocalsFall`), and the fused score
is the lexical contribution plus the dense one, a mean between bounds for a chunk that has
no cosine (`PartsAreBounded`, `MeanIsBetween`). Re-embedding raises a score and lowers those
of others at most (`ReembeddingCostsNothing`); chunks of named documents are ahead because
the boost exceeds all fused contributions (`NamedComeFirst`).

*Values.* `ValueInv` only says what a question and a passage are: the property is about
every passage. `LongerIs` relates a passage to the one with a clause more at either end. A
clause that shares nothing with the question denies nothing (`SameDenials`), is not the
context of the value (`ContextIsNotNew`), outweighs no clause and precedes the first only if
it is put before it (`LongerValue`, `FirstShifts`), and supports no date of its own
(`UnrelatedIsNoDate`), so the candidates cannot change into others (`LongerSaysNoOther`).
What a clause itself must say is by kind: a date of a role, one of several dates, an amount,
a duration of no event and a denial are each judged in the clause, and the theorem says so;
the only date of a passage is not (`DateIsOfAskedClause`), nor is a denial in other words
(`DateIsNotDenied`).
Severity is excepted because a passage about it is accepted for any severity it states;
questions about an event are, because of finding 4.

*Decisions.* Each row belongs to one passage and each passage has one row, so that among any
candidates one is strongest (`OneIsStrongest`), though the code sorts; candidates and
partial supports are exactly the rows that may be one (`GroundedInv`). From there the
decision is a function of the rows, and it validates unless an excerpt is repeated by an
untrusted fragment (`DecidedIsSound`). The extractive engine chooses the earliest evidence,
and of distinct keys the first each (`EvidenceIsRelevant`, `ExtractIsSound`): the theorem says
for which conflicts that is enough, `SourcesAgree` and `PassagesAgree` name the others.

*Holdout.* Locks, outputs and evaluations agree with where each runner is: exclusive
creation makes the lock's holder unique, and only its holder evaluates. `VerifiedStays` says that
from its check on a runner finds the attested inputs on the disk unless they were edited
since, which `EvaluatedIsVerified` needs and finding 7 shows to be possible.

*Provenance.* A commit comes after its parent (`HistoryInv`); what the preflight has
established by each stage is still on the disk and in the history at the next
(`PreflightInv`). An edit during the preflight breaks exactly that, which is why the
assumption is there.

*Development runs.* A suite goes through the configurations in order and completes each or
its calibration alone (`SuiteInv`), so a comparison has all the runs its gates call for
(`ComparisonInv`) and a final summary all of the winner's (`FinalInv`). That decisions and
signature are of one engine is no invariant (`EvidenceIsOfSignedEngine`).

*Metrics.* `CountsRecalculate` is its own invariant, but its step compares cardinalities
over one case more: `OneMoreRecalculates` says what a case adds to each recalculated count,
`StepCountsGain` what a handler adds to each counter. `PassIsEarned` is then arithmetic on
the ratios. *Scoring.* `ScoreInv` carries a pairing of counted expected values with distinct
extracted ones, and the facts that make it maximal; any other assignment maps into it one to
one for dates, two to one otherwise (`PairingIsGood`). *Gate.* Each recorded case passed the
checks that exclude what the metrics cannot count (`RowsInv`).

Least and earliest elements are found by well-foundedness of `<` on the naturals
(`HasLeast`) instead of induction, for the reason below.

### Only model-checked

- `ImplementsLifecycle`: liveness under `FairSpec`, which is out of the prover's reach. Its safety part is `ImplementsOneSettlement`.
- The properties of the runs that expect a violation: they are refuted by one behaviour each.

## 7. Not modelled

- Authentication (`auth.py`, `security.py`): a signed token and a table of roles checked at each request. It keeps no state, and its cryptography is a library's.
- Word patterns of redaction, intents, trust boundaries and field extraction; PDF syntax; the numerical part of embedding, entailment and generation. The models choose what they return.
- Answers with several slots and answers about people (`answering.py`), and the intent reranker: the same decision over more patterns.
- Row locks as such. The enqueue-failure handler updates the document row before the task row while worker and DELETE lock them the other way round (`main.py:467`); PostgreSQL ends the resulting deadlock by aborting one transaction, which the model sees as the `api` fault or a failing persistence.
- The two statements of `ask` at READ COMMITTED (`main.py:585`): a document deleted or reindexed between them. Every answer is validated against the chunks it read, so this would need a model of statement snapshots with nothing else at stake.
- Validation of upload bytes (`uploads.py`), path resolution of storage, the administrator's views, logging, metrics, configuration, migrations, deployment.
- In the pipeline, a COMMIT of the worker that succeeded although its reply was lost: the run would record a failure of a completed document, as overlapping runs do in finding 3.
- In the PDF parser, a live child that stalls between the first bytes of its message and the last: `recv` has no deadline. The child writes its message with one `send`.
- In the answers of local models, a refusal by the last validation after the NLI step, and an ambiguous draft with fewer than two citations, which the deterministic provider does not make (`answering.py:1458`). In extraction, how lines make an instruction together: any two halves do, whatever stands between them.
- Vectors: that those of two models are never compared is one filter of the query (`retrieval.py`).
- In the metrics, an exception after citations were counted (`runner.py:675-679`), which no provider of the repository raises; rounding to six decimals, which matters from 200 000 cases on; the target of extraction F1. In the dataset gate, a second extraction target.
- In the development runs, the subprocess of a suite that was killed and ends later; that the paths of a freeze are clean in Git is `HoldoutProvenance`'s subject.
- Dataset generators, historical freezes and the pinned copies of the evaluation tools under `docs/evaluations`: the same code at earlier versions.

Every hazard of `PROJECT.json` without a property is in this list or says why in its note.
