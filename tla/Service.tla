------------------------------- MODULE Service -------------------------------
(* The parts of the service around the pipeline, each on its own: a         *)
(* behaviour is one of the part it is named by.  The rate limiter has its   *)
(* own variables; the others, of which a behaviour has only one, share x1   *)
(* to x10.  MCService gives the constants values for TLC, the theorems of   *)
(* ServiceProofs hold for all values.                                       *)
EXTENDS RateLimiter

CONSTANTS
    MaxBytes, ReadSizes, Lengths, MaxReads,                 \* BodyLimit
    Records, MaxSubjects, MaxSources, MaxSize,              \* AnswerScope
    Values,                                                 \* what passages and lines say
    Terms, Events, MaxClauses,                              \* AnswerValue
    MaxInScope, MaxPassages,                                \* GroundedAnswer
    AskedFields, NameWords, OtherWords, RankedDocuments,    \* Retrieval
    Unit, Fused, MaxWords, MaxCandidates,
    MaxSegments,                                            \* ExtractiveAnswer
    Pages,                                                  \* AnswerGates
    Files, MaxReplaced, MaxTexts, BatchSize,                \* LocalModels
    Fields, MaxLines,                                       \* SupplierExtraction
    Texts, Titles, MaxChars, MaxChunks, MaxPages,           \* DocumentText
    MaxTextLines,
    MaxDocuments, MaxRequests, MaxLogins,                   \* WebClient
    Items, Identities, MaxSeeds, MaxChanges, MaxArtifacts   \* DemoSeed

\* Sizes and configured limits are counts.
ASSUME SizesAssumption ==
    /\ MaxBytes \in Nat /\ ReadSizes \subseteq Nat
    /\ MaxTexts \in Nat /\ BatchSize \in Nat

\* A corpus identifies finitely many records.
ASSUME RecordsAssumption == IsFiniteSet(Records)

\* A question has finitely many relation terms.
ASSUME TermsAssumption == IsFiniteSet(Terms)

\* Every runtime lists its weights; a tokenizer may be read besides.
ASSUME WeightsAssumption == "weights" \in Files

\* The manifest of the demonstration is a list.
ASSUME ManifestAssumption == IsFiniteSet(Items) /\ Items = 1 .. Cardinality(Items)

VARIABLES part, x1, x2, x3, x4, x5, x6, x7, x8, x9, x10

rest10 == <<x10>>
rest9 == <<x9, rest10>>
rest6 == <<x6, x7, x8, rest9>>
rest5 == <<x5, rest6>>
rest3 == <<x3, x4, rest5>>
shared == <<x1, x2, rest3>>

\* The variables a part does not use.
Unused10 == x10 = 0
Unused9 == x9 = 0 /\ Unused10
Unused6 == x6 = 0 /\ x7 = 0 /\ x8 = 0 /\ Unused9
Unused5 == x5 = 0 /\ Unused6
Unused3 == x3 = 0 /\ x4 = 0 /\ Unused5

Body == INSTANCE BodyLimit
    WITH Chunks <- ReadSizes,
         header <- x1, pc <- x2, consumed <- x3, delivered <- x4, starts <- x5, reads <- x6

Scope == INSTANCE AnswerScope WITH asked <- x1, sources <- x2

Value == INSTANCE AnswerValue WITH question <- x1, passage <- x2

Grounded == INSTANCE GroundedAnswer
    WITH MaxChunks <- MaxInScope,
         asked <- x1, chunk <- x2, evaluated <- x3, candidates <- x4, partials <- x5,
         blocked <- x6, passages <- x7, result <- x8

Ranking == INSTANCE Retrieval
    WITH Fields <- AskedFields, Names <- NameWords, Documents <- RankedDocuments,
         MaxChunks <- MaxCandidates,
         query <- x1, titles <- x2, chunks <- x3, lexical <- x4, lexicalRank <- x5,
         denseRank <- x6, fused <- x7

\* A question has finitely many words.  ask fetches at most 20 candidates of
\* each kind, and no division of their scores leaves a remainder.
ASSUME RankingAssumption ==
    /\ IsFiniteSet(AskedFields \cup NameWords \cup OtherWords)
    /\ MaxCandidates \in 0 .. 40
    /\ Ranking!Exact

Extractive == INSTANCE ExtractiveAnswer WITH Keys <- Values, request <- x1, ranked <- x2

Gates == INSTANCE AnswerGates WITH gate <- x1, said <- x2, stage <- x3, outcome <- x4

Models == INSTANCE LocalModels
    WITH runtime <- x1, manifest <- x2, disk <- x3, stage <- x4, hashed <- x5, opened <- x6,
         replaced <- x7, texts <- x8, vectors <- x9

Extraction == INSTANCE SupplierExtraction
    WITH version <- x1, field <- x2, lines <- x3, stored <- x4, served <- x5

Text == INSTANCE DocumentText
    WITH MaxLines <- MaxTextLines,
         media <- x1, source <- x2, blocks <- x3, page <- x4, section <- x5,
         paragraph <- x6, chunks <- x7, cut <- x8, status <- x9

\* The lines of a text are stripped, a chunk has room for a character, and
\* pages are counted up to a limit.
ASSUME TextAssumption == Text!Trimmed

Pdf == INSTANCE PdfParser
    WITH document <- x1, child <- x2, lingers <- x3, message <- x4, pipe <- x5, parent <- x6,
         late <- x7, result <- x8

Web == INSTANCE WebClient
    WITH server <- x1, session <- x2, selected <- x3, documents <- x4, current <- x5,
         chunks <- x6, cited <- x7, loading <- x8, requests <- x9, history <- x10

\* A second session over a page used before, which asks for four things at once;
\* up to the first reply out of turn.
Relogin == INSTANCE WebClient
    WITH MaxDocuments <- 1, MaxRequests <- 4, MaxLogins <- 2,
         server <- x1, session <- x2, selected <- x3, documents <- x4, current <- x5,
         chunks <- x6, cited <- x7, loading <- x8, requests <- x9, history <- x10

Demo == INSTANCE DemoSeed
    WITH settings <- x1, approved <- x2, users <- x3, rows <- x4, artifacts <- x5,
         evaluations <- x6, pc <- x7, item <- x8, row <- x9, history <- x10

ServiceInit ==
    /\ Init
    /\ \/ part = "rate" /\ x1 = 0 /\ x2 = 0 /\ Unused3
       \/ part = "body" /\ Body!Init /\ x7 = 0 /\ x8 = 0 /\ Unused9
       \/ part = "scope" /\ Scope!Init /\ Unused3
       \/ part = "value" /\ Value!Init /\ Unused3
       \/ part = "grounded" /\ Grounded!Init /\ Unused9
       \/ part = "ranking" /\ Ranking!Init /\ x8 = 0 /\ Unused9
       \/ part = "extractive" /\ Extractive!Init /\ Unused3
       \/ part = "gates" /\ Gates!Init /\ Unused5
       \/ part = "models" /\ Models!Init /\ Unused10
       \/ part = "extraction" /\ Extraction!Init /\ Unused6
       \/ part = "text" /\ Text!Init /\ Unused10
       \/ part = "pdf" /\ Pdf!Init /\ Unused9
       \/ part = "web" /\ Web!Init
       \/ part = "relogin" /\ Relogin!Init
       \/ part = "demo" /\ Demo!Init

ServiceNext ==
    /\ UNCHANGED part
    /\ \/ part = "rate" /\ Next /\ UNCHANGED shared
       \/ /\ UNCHANGED vars
          /\ \/ part = "body" /\ Body!Next /\ UNCHANGED <<x7, x8, rest9>>
             \/ part = "scope" /\ Scope!Next /\ UNCHANGED rest3
             \/ part = "value" /\ Value!Next /\ UNCHANGED rest3
             \/ part = "grounded" /\ Grounded!Next /\ UNCHANGED rest9
             \/ part = "ranking" /\ Ranking!Next /\ UNCHANGED <<x8, rest9>>
             \/ part = "extractive" /\ Extractive!Next /\ UNCHANGED rest3
             \/ part = "gates" /\ Gates!Next /\ UNCHANGED rest5
             \/ part = "models" /\ Models!Next /\ UNCHANGED rest10
             \/ part = "extraction" /\ Extraction!Next /\ UNCHANGED rest6
             \/ part = "text" /\ Text!Next /\ UNCHANGED rest10
             \/ part = "pdf" /\ Pdf!Next /\ UNCHANGED rest9
             \/ part = "web" /\ Web!Next
             \/ part = "relogin" /\ x10.clean /\ Relogin!Next
             \/ part = "demo" /\ Demo!Next

serviceVars == <<part, vars, shared>>

ServiceSpec == ServiceInit /\ [][ServiceNext]_serviceVars
-----------------------------------------------------------------------------
(* The application is never given more than max_request_bytes              *)
(* (limited_receive).                                                      *)
BodyIsBounded == part = "body" => Body!BodyIsBounded

(* A response is started once (tracked_send).                              *)
OneResponse == part = "body" => Body!OneResponse

(* A passage is in scope only for what the question and its document say.  *)
ScopeIsJustified == part = "scope" => Scope!ScopeIsJustified

(* What a clause denies is no answer, and a value is of the role, terms or  *)
(* part asked for, as far as its kind is judged by a clause.                *)
AcceptedIsAsked == part = "value" => Value!AcceptedIsAsked

(* The grounded engine answers only what the passages it read support and   *)
(* none of them contradicts; the extractive one reports that the first      *)
(* evidence of its chunks differs, but for that of several documents when   *)
(* the question is neither broad nor about a deadline                       *)
(* (DeterministicGroundedAnswerProvider.answer,                             *)
(* ExtractiveAnswerProvider.answer).                                        *)
AnswersAreSupported == /\ part = "grounded" => Grounded!DecisionIsSound
                       /\ part = "extractive" => Extractive!ExtractIsUndisputed

(* The order of the passages does not depend on the order of their ids.    *)
RankingIsFair == part = "ranking" => Ranking!RankingIsFair

(* A local model's answer passes its gates or is not given.                *)
GatesFailClosed == part = "gates" => Gates!GatesFailClosed

(* A session has the expected identity, and reads files that were hashed   *)
(* and are the listed ones, but for files replaced after their hash and     *)
(* files an embedding manifest does not list (Models!OpenedIsListed).       *)
LoadedIsVerified == part = "models" => Models!LoadedIsVerified

(* Every extracted value that is served is cited and not an instruction.   *)
ServedIsCited == part = "extraction" => Extraction!ServedIsCited

(* No text is lost, reordered or put under another section on its way to a *)
(* chunk (chunk_pages).                                                    *)
ChunksAreSource == part = "text" => Text!SourceIsKept

(* A PDF has the verdict its child reached (_parse_pdf_isolated).          *)
PdfIsOfChild == part = "pdf" => Pdf!VerdictIsOfChild

(* A page at rest shows no outdated status, and, while nothing fails or is *)
(* overtaken, its own uploads and the passages of the selected document.   *)
RestIsTrue == part \in {"web", "relogin"} => Web!RestIsTrue

(* A repeated seed adds nothing twice and leaves out nothing; what it may   *)
(* leave unfinished is what a seed abandoned (Demo!SeedFinishes).           *)
SeedIsIdempotent == part = "demo" => Demo!SeedIsIdempotent
=============================================================================
