CONSTANTS
  Processes = {p1, p2}
  NoProcess = NoProcess
  Metas <- MCMetas
  Confs = {c1, c2}
  Ports = {a, b}
  NoUnit = NoUnit
  MaxID = 2
  MaxVersion = 2
  MaxFaults = 2
SPECIFICATION Spec
SYMMETRY Symmetry
INVARIANTS IdentitiesAreUnique ReportsAreTrue AgentsListServices
PROPERTIES ProgramKept
