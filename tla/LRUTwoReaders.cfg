CONSTANTS
  Readers = {r1, r2}
  Keys = {k1, k2, k3}
  Values = {v1}
  Capacity = 3
  root = root
  nil = nil
SPECIFICATION Spec
INVARIANT RingIntact
