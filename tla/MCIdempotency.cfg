CONSTANTS
  r1 = r1
  r2 = r2
  r3 = r3
  k1 = k1
  k2 = k2
  k3 = k3
  f1 = f1
  f2 = f2
  Requests = {r1, r2, r3}
  NoRequest = NoRequest
  Keys = {k1, k2, k3}
  Fingerprints = {f1, f2}
  Sizes = {2}
  TerminalSize = 1
  TTL = 1
  Minute = 2
  MaxEntries = 2
  MaxBytes = 2
  MaxWaiters = 1
  MaxTime = 2
SPECIFICATION MCSpec
CHECK_DEADLOCK FALSE
INVARIANTS OneExecution ReplayFaithful OwnerLeavesRecord LimitsKept
PROPERTIES NoReexecutionWithinTTL RecordImmutable ImplementsContract RequestAnswered
