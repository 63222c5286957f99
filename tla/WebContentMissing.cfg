SPECIFICATION Spec
CONSTANTS
  MaxDocuments = 2
  MaxRequests = 2
  MaxLogins = 1
INVARIANT ContentAppears
CHECK_DEADLOCK FALSE
