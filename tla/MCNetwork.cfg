CONSTANTS
  Packets = {1, 2, 3}
  Clients = {c1}
  remote = remote
  ChanSize = 1
  none = none
  MaxPackets = 2
SPECIFICATION Spec
CHECK_DEADLOCK FALSE
INVARIANTS
  UDPForwards
  CaptureLeavesOrder
PROPERTY NetworkEnds
