SPECIFICATION Spec
CONSTANTS
  d1 = d1
  d2 = d2
  c1 = c1
  r1 = r1
  r2 = r2
  Docs = {d1, d2}
  Contents = {c1}
  Content <- OneContent
  Runs = {r1, r2}
  MaxAttempts = 3
  MaxTries = 3
  FaultKinds = {"crash", "duplicate", "abort", "redis", "api", "lostreply"}
  MaxFaults = 1
SYMMETRY Interchangeable
INVARIANT TypeOK
INVARIANT DeletedLeavesNothing
INVARIANT OneIndexPerContent
INVARIANT RowsAgree
INVARIANT CompletedIsSearchable
INVARIANT AuditTrailComplete
PROPERTY WorkerNeverRevives
CHECK_DEADLOCK FALSE
