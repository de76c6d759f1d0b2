SPECIFICATION Spec
CONSTANTS
  u1 = u1
  u2 = u2
  o1 = o1
  o2 = o2
  Users = {u1, u2}
  Orgs = {o1, o2}
  KeyIds = {k1}
  ProjectIds = {p1}
  Names = {n1, n2}
  Requests = {r1, r2}
  Ops = {"create_key", "revoke_key", "use_key", "create_project", "update_project", "delete_project", "delete_org"}
  InitRole <- TwoTenants
  InitKey <- NoKey
  InitProject <- NoProject
  Free = Free
  Gone = Gone
  NoReq = NoReq
  NoArg = NoArg
  NoRow = NoRow
SYMMETRY Symmetry
INVARIANTS
  NoOrphans
  
PROPERTIES
  AuditExact
  TenantIsolation
  OwnersManageKeys
  RevocationWaits
CHECK_DEADLOCK FALSE
