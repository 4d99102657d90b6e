CONSTANTS
  Calls = {c1, c2}
  Requests <- MCRequests
  MaxRetries = 2
  Delays = {TRUE, FALSE}
  Retryable = {"doErr", "readErr", "bindErr", "bad"}
  none = none
SPECIFICATION Spec
CHECK_DEADLOCK FALSE
INVARIANTS
  SameRequest
  ResultTruthful
  GivesUpForAReason
  CachedWasReturned
PROPERTY CancelReturns
