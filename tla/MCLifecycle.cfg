SPECIFICATION FairRunSpec
CONSTANTS
  Services = {server, worker, watcher}
  Servers = {server}
  Silent = {watcher}
CHECK_DEADLOCK FALSE
INVARIANTS ReturnTellsAll
PROPERTIES RunEnds
