CONSTANTS
  QueueSize = 2
  RecentInteractions = 1
  Quota = 2
  MaxSessions = 2
  MaxEvents = 3
  MaxJumps = 1
SPECIFICATION MCSpec
CHECK_DEADLOCK FALSE
INVARIANTS AcceptedInOrder InteractionStartedOnce EndedSessionNotResumed IdentifiesWithinLimit
PROPERTIES DeadPeerNoticed CancelStopsRun
