CONSTANTS
  Processes = {p1, p2, p3, p4}
  NoProcess = NoProcess
  MaxInt = 3
  MaxPowerLosses = 1
SPECIFICATION Spec
SYMMETRY Symmetry
CHECK_DEADLOCK FALSE
INVARIANTS ShownKeysSurvive RevokedStaysRevoked IdsAreUnique
