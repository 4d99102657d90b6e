CONSTANTS
  Keys = {k1, k2, k3, k4}
  Values = {v1, v2}
  Capacity = 3
  MaxFreq = 4
  Readers = {r1}
  root = root
  nil = nil
  TimedKeys = {k1}
  Getters = {g1}
  TTLs = {0, 1}
  Ids = {i1, i2, i3}
  MaxTime = 3
  none = none
SPECIFICATION Spec
CHECK_DEADLOCK FALSE
INVARIANTS
  ListsAgree
PROPERTIES
  EvictsLeastFrequent
  CachesImplement
  MemoryKeeps
  CleanupWorks
