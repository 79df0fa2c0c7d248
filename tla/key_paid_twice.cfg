CONSTANTS
  c1 = c1
  c2 = c2
  c3 = c3
  k1 = k1
  k2 = k2
  k3 = k3
  Chans = {c1, c2, c3}
  Keys = {k1, k2, k3}
  MaxDay = 1
  MaxBindings = 3
  MaxOps = 8
  MaxUse = 2
SPECIFICATION Spec
SYMMETRY Symmetric
CONSTRAINT TwoDays
INVARIANTS PaidOnce
CHECK_DEADLOCK FALSE
