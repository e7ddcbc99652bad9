CONSTANTS
  Requests = {q1, q2, q3}
  Routes = {a, b}
  Ids = {i}
  Nil = Nil
  Durations = {1}
  MaxRetries = 1
SPECIFICATION LimiterSpec
CHECK_DEADLOCK FALSE
PROPERTIES LimitedRouteWaits
