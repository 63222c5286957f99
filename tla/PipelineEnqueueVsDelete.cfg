SPECIFICATION Spec
CONSTANTS
  d1 = d1
  d2 = d2
  c1 = c1
  r1 = r1
  r2 = r2
  Docs = {d1}
  Contents = {c1}
  Content <- OneContent
  Runs = {r1}
  MaxAttempts = 3
  MaxTries = 3
  FaultKinds = {}
  MaxFaults = 0
SYMMETRY Interchangeable
INVARIANT DeletedStaysDeleted
CHECK_DEADLOCK FALSE
