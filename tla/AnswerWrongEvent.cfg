SPECIFICATION Spec
CONSTANTS
  Terms = {"access", "amend"}
  Values = {"v", "w"}
  Events = {"breach", "outage"}
  MaxClauses = 2
INVARIANT DurationIsOfAskedEvent
CHECK_DEADLOCK FALSE
