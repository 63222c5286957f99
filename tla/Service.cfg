SPECIFICATION ServiceSpec
CONSTANTS
  k1 = k1
  k2 = k2
  k3 = k3
  v = v
  w = w
  Keys = {k1, k2, k3}
  Limit <- TwoAndOne
  Window = 3
  Second = 2
  MaxKeys = 2
  MaxTime = 4
  MaxAdmitted = 3
  MaxBytes = 4
  ReadSizes = {0, 1, 3, 5}
  Lengths <- AroundTheLimit
  MaxReads = 4
  Records <- TwoTypes
  MaxSubjects = 3
  MaxSources = 3
  MaxSize = 8
  Values = {v, w}
  Terms = {"access", "amend"}
  Events = {"breach", "outage"}
  MaxClauses = 2
  MaxInScope = 2
  MaxPassages = 3
  AskedFields = {"fee"}
  NameWords = {"acme"}
  OtherWords = {}
  RankedDocuments = {1, 2}
  Unit = 240
  Fused = 47653200
  MaxWords = 2
  MaxCandidates = 3
  MaxSegments = 3
  Pages = {"p1", "p2"}
  Files = {"weights", "tokenizer"}
  MaxReplaced = 2
  MaxTexts = 3
  BatchSize = 2
  Fields = {"renewal", "duties", "document_type"}
  MaxLines <- LinesPerField
  Texts <- TwoLines
  Titles <- OneTitle
  MaxChars = 5
  MaxChunks = 7
  MaxPages = 2
  MaxTextLines = 5
  MaxDocuments = 2
  MaxRequests = 2
  MaxLogins = 1
  Items = {1, 2}
  Identities = {"a"}
  MaxSeeds = 2
  MaxChanges = 2
  MaxArtifacts = 2
SYMMETRY Interchangeable
INVARIANT LogsBounded
INVARIANT WindowBound
PROPERTY RetryIsHonest
INVARIANT BodyIsBounded
INVARIANT OneResponse
INVARIANT ScopeIsJustified
INVARIANT AcceptedIsAsked
INVARIANT AnswersAreSupported
INVARIANT RankingIsFair
INVARIANT GatesFailClosed
INVARIANT LoadedIsVerified
INVARIANT ServedIsCited
INVARIANT ChunksAreSource
INVARIANT PdfIsOfChild
INVARIANT RestIsTrue
INVARIANT SeedIsIdempotent
CHECK_DEADLOCK FALSE
