SPECIFICATION Spec
CONSTANTS
  Ids = {a}
  Requests = {r1, r2}
  Limit = 2
  window_seconds = 2
  Second = 2
  MaxClock = 8
  MaxCount = 3
  MaxLost = 1
  NoId = NoId
INVARIANTS
  WithinLimit
PROPERTIES
  NoEarlyRejection
  RetryAfterExact
CHECK_DEADLOCK FALSE
