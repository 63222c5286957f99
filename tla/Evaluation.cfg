CONSTANTS
    r1 = r1
    r2 = r2
    r3 = r3
    l1 = l1
    l2 = l2
    o1 = o1
    o2 = o2
    Runners = {r1, r2, r3}
    Locks = {l1, l2}
    Outputs = {o1, o2}
    LockOf <- MCLockOf
    OutputOf <- MCOutputOf
    Authorized = {r1, r2, r3}
    Nobody = Nobody
    MaxEdits = 1
    e1 = e1
    e2 = e2
    None = None
    Fingerprints = {"e1", "e2"}
    MaxCommits = 4
    MaxOps = 6
    EditsDuringFreeze = TRUE
    EditsDuringPreflight = FALSE
    Engines = {e1, e2}
    Configs = {1, 2}
    Repetitions = 2
    MaxMeddling = 1
    MaxSuites = 2
    MaxSplit = 2
    Values <- MCTexts
    PartOf <- MCPartOf
    Wordy <- MCWordy
    Amounts <- MCAmounts
    MaxValues = 2
    Ids = {1, 2}
    MaxCases = 2
    Protocol <- MCProtocol
SYMMETRY EngineSymmetry
SPECIFICATION EvaluationSpec
INVARIANT EvaluatedOncePerLock
INVARIANT RefusedSpendsNothing
INVARIANT EvaluatedIsVerified
INVARIANT ClaimedEngineIsFrozen
INVARIANT DatasetFollowsFreeze
PROPERTY ImplementsSeal
INVARIANT WinnerIsReproducible
INVARIANT CountsRecalculate
INVARIANT PassIsEarned
INVARIANT FirstMatchIsGood
INVARIANT OpenedIsMeasurable
CHECK_DEADLOCK FALSE
