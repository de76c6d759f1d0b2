SPECIFICATION Spec
CONSTANTS
  Requests = {r1, r2}
  Plans = {"FREE", "PRO"}
  Quota <- SmallQuota
  MonthLengths <- ShortYear
  Quantities = {1, 2}
  ProviderPeriods <- SomePeriods
  Ahead = FALSE
  MaxTime = 6
  MaxCommits = 4
  NoSub = NoSub
  NoReq = NoReq
SYMMETRY UsageSymmetry
INVARIANTS RollsMonthly
PROPERTIES QuotaRespected PlanChangeKeepsPeriod
CHECK_DEADLOCK FALSE
