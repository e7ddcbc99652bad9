CONSTANTS
  Requests = {r1, r2, r3, r4}
  Keys = {k1, k2}
  Processes = {p1}
  Limit = 2
  Window = 1
  MaxKeys = 1
  Second = 2
  Minute = 60
  MaxTime = 3
SPECIFICATION Spec
SYMMETRY Symmetry
CHECK_DEADLOCK FALSE
INVARIANTS ExpirationsMatch
PROPERTIES ImplementsFixedWindow
