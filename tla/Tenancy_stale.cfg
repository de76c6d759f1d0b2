SPECIFICATION Spec
CONSTANTS
  u1 = u1
  u2 = u2
  u3 = u3
  o1 = o1
  o2 = o2
  s1 = s1
  s2 = s2
  m1 = m1
  m2 = m2
  m3 = m3
  m4 = m4
  Users = {u1, u2, u3}
  Orgs = {o1}
  Slugs = {s1}
  MemIds = {m1, m2, m3}
  InvIds = {}
  Requests = {r1, r2}
  Ops = {"update_member", "remove_member"}
  InitOrg <- OneOrg
  InitMember <- ThreeOwnersInit
  Free = Free
  Gone = Gone
  NoReq = NoReq
  NoArg = NoArg
SYMMETRY Symmetry
PROPERTIES
  OnlyOwnersTouchOwnership
CHECK_DEADLOCK FALSE
