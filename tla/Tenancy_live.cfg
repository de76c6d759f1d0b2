SPECIFICATION FairSpec
CONSTANTS
  u1 = u1
  u2 = u2
  u3 = u3
  o1 = o1
  o2 = o2
  s1 = s1
  s2 = s2
  m1 = m1
  m2 = m2
  m3 = m3
  m4 = m4
  Users = {u1, u2}
  Orgs = {o1}
  Slugs = {s1}
  MemIds = {m1, m2, m3}
  InvIds = {i1}
  Requests = {r1, r2}
  Ops = {"remove_member", "delete_org", "invite", "accept", "update_org"}
  InitOrg <- OneOrg
  InitMember <- FounderInit
  Free = Free
  Gone = Gone
  NoReq = NoReq
  NoArg = NoArg
INVARIANTS
  NoOrphans
  DeadlockNeedsMemberChange
PROPERTIES
  EveryRequestEnds
CHECK_DEADLOCK FALSE
