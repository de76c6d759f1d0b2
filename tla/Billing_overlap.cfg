SPECIFICATION BSpec
CONSTANTS
  e1 = e1
  e2 = e2
  o1 = o1
  Workers = {w1, w2}
  JobIds = {j1, j2}
  Foreign = {}
  MaxAttempts = 1
  MaxCrashes = 1
  MaxFaults = 0
  MaxEntries = 2
  NoJob = NoJob
  Events = {e1}
  Orgs = {o1}
  Plans = {"FREE", "PRO"}
  Payload <- PaymentFailed
  NoSub = NoSub
  Deliveries = {d1}
  Changers = {c1}
  MaxChanges = 1
  NoEvent = NoEvent
  NoOne = NoOne
SYMMETRY BillingSymmetry
PROPERTIES
  ExactlyOnce
CHECK_DEADLOCK FALSE
