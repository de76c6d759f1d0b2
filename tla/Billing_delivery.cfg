SPECIFICATION BFairSpec
CONSTANTS
  e1 = e1
  e2 = e2
  o1 = o1
  Workers = {w1}
  JobIds = {j1, j2}
  Foreign = {}
  MaxAttempts = 1
  MaxCrashes = 1
  MaxFaults = 1
  MaxEntries = 8
  NoJob = NoJob
  Events = {e1, e2}
  Orgs = {o1}
  Plans = {"FREE", "PRO"}
  Payload <- PurchaseAndCancel
  NoSub = NoSub
  Deliveries = {d1, d2}
  Changers = {}
  MaxChanges = 0
  NoEvent = NoEvent
  NoOne = NoOne
INVARIANTS
  AcceptedIsRemembered
  DoneMeansProcessed
PROPERTIES
  ExactlyOnce
  AcceptedEnds
CHECK_DEADLOCK FALSE
