CONSTANTS
  Processes = {p1, p2}
  NoProcess = NoProcess
  Dialect = "sqlite"
  ModelSets <- MCModelSets
  Reserved <- MCReserved
  MaxVersion = 2
  MaxKills = 1
  MaxEdits = 1
SPECIFICATION Spec
SYMMETRY Symmetry
INVARIANTS EffectsAreHistory AppliedIsPrefix FilesMakeSchemaLock StatusTells
