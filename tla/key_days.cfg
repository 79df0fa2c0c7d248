CONSTANTS
  c1 = c1
  c2 = c2
  c3 = c3
  k1 = k1
  k2 = k2
  k3 = k3
  Chans = {c1, c2}
  Keys = {k1, k2}
  MaxDay = 2
  MaxBindings = 2
  MaxOps = 4
  MaxUse = 3
SPECIFICATION Spec
SYMMETRY Symmetric
INVARIANTS PaidOnce NothingDropped
CHECK_DEADLOCK FALSE
