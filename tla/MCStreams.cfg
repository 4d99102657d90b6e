CONSTANTS
  MaxFrames = 2
  BufferSize = 3
  Events = 3
  Buffer = 1
  Senders = {1, 2}
  CutIds <- MCCutIds
  MaxRetries = {0, 1}
  MaxReconnects = 2
SPECIFICATION Spec
CHECK_DEADLOCK FALSE
INVARIANTS
  ForwardedInOrder
  EventsWhole
  SocketSound
PROPERTY ReturnsWhenTold
