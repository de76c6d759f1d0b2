SPECIFICATION OFairSpec
CONSTANTS
  Workers = {w1}
  JobIds = {j1, j2}
  Foreign = {f1}
  MaxAttempts = 1
  MaxCrashes = 2
  MaxFaults = 2
  MaxEntries = 8
  NoJob = NoJob
INVARIANTS
  HeldIsInFlight
  NeverLost
  OneCopy
  DeadAfterRetries
PROPERTIES
  EveryJobEnds
  RestartRescues
  TakenInTurn
CHECK_DEADLOCK FALSE
