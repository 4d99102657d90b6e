CONSTANTS
  Packets = {1, 2, 3}
  Clients = {c1}
  remote = remote
  ChanSize = 1
  none = none
SPECIFICATION Spec
CHECK_DEADLOCK FALSE
INVARIANT NeverPanics
