SPECIFICATION Spec
CONSTANTS
  d1 = d1
  d2 = d2
  c1 = c1
  r1 = r1
  r2 = r2
  Docs = {d1, d2}
  Contents = {c1}
  Content <- OneContent
  Runs = {r1, r2}
  MaxAttempts = 3
  MaxTries = 3
  FaultKinds = {"crash", "abort", "redis", "api"}
  MaxFaults = 1
SYMMETRY Interchangeable
PROPERTY ImplementsRedelivery
CHECK_DEADLOCK FALSE
