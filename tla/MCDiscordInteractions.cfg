CONSTANTS
  None = None
  Interactions = {i1, i2}
  Candidates <- MCCandidates
  Older <- MCOlder
  commandConcurrency = 1
  MaxFaults = 1
  i1 = i1
  i2 = i2
SPECIFICATION MCSpec
CHECK_DEADLOCK FALSE
INVARIANTS ReportedReplyStays EndedIsAnswered
PROPERTIES VisibilityKept EveryInteractionEnds
