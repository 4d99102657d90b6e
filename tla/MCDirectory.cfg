CONSTANTS
  Callers = {c1, c2}
  Catalog <- MCCatalog
  Picks = 4
  none = none
  Users = {u1, u2}
  MaxRev = 2
  MaxCalls = 2
SPECIFICATION Spec
CHECK_DEADLOCK FALSE
INVARIANTS
  FairTurns
  StoresNoOlder
PROPERTY WatchDelivers
