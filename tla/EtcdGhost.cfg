CONSTANTS
  Keepers = {1, 2}
  Leases = {l1, l2, l3}
  MaxRetries = 1
  none = none
SPECIFICATION Spec
CHECK_DEADLOCK FALSE
INVARIANT UnregisteredIsAbsent
