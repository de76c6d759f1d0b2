SPECIFICATION Spec
CONSTANTS
  Emails = {e1, e2}
  UserIds = {u1, u2}
  TokenIds = {t1, t2, t3}
  Requests = {r1, r2, r3}
  Free = Free
  NoReq = NoReq
SYMMETRY SessionsSymmetry
INVARIANTS UniqueEmails OneLivePerLogin
PROPERTIES SuccessorReplacesLive
CHECK_DEADLOCK FALSE
