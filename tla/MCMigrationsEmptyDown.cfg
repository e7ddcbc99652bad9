CONSTANTS
  Processes = {p1}
  NoProcess = NoProcess
  Dialect = "sqlite"
  ModelSets <- MCModelSets
  Reserved <- MCReserved
  MaxVersion = 2
  MaxKills = 0
  MaxEdits = 0
SPECIFICATION Spec
INVARIANT BothDirectionsWritten
