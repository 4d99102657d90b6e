CONSTANTS
  Limits <- MCLimits
  FnErrors = {transient, fatal}
  ctxErr = ctxErr
  retryFailed = retryFailed
  ok = ok
  Retryable = {transient, ctxErr}
  Width = 6
  RetryDelays = {0, 1, 2, 3}
  Caps = {0, 2, 7}
  Multipliers = {1, 2, 3}
  Strategies = {"exponential", "linear", "fixed", "random"}
  Jitters = {"none", "full", "equal", "decorrelated"}
  Keepers = {1, 2}
  Leases = {l1, l2}
  MaxRetries = 1
  none = none
SPECIFICATION RunSpec
CHECK_DEADLOCK FALSE
INVARIANTS
  NeverTwoAtOnce
  ResultTruthful
  CallbacksAgree
  DelaysSound
PROPERTIES
  CancelReturns
  ClosedVanishes
  EstablishedRecovers
