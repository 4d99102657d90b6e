CONSTANTS
  Keys = {k1}
  TTLs = {0, 1}
  MaxTime = 3
SPECIFICATION Spec
PROPERTY CloseStopsLoop
