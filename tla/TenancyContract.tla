--------------------------- MODULE TenancyContract ---------------------------
(***************************************************************************)
(* What organizations, memberships and invitations promise, without        *)
(* transactions, locks or sessions: every operation is one step, judged by *)
(* the state in which it is committed, and every change that is logged     *)
(* names a caller who has the role its SQL asks for in that state.         *)
(***************************************************************************)
CONSTANTS Users, Orgs, Slugs, InvIds, Free, Gone

Roles == {"OWNER", "ADMIN", "MEMBER"}
NoRole == "none"
Exists(row) == row \notin {Free, Gone}

VARIABLES slug,     \* organizations, by id
          role,     \* who is what in which organization
          invite,   \* invitations, by id
          audited   \* audit rows of the last step

cvars == <<slug, role, invite>>

HasOwner(o) == \E u \in Users : role[o][u] = "OWNER"
Unused(s, o) == \A p \in Orgs \ {o} : slug[p] # s
Open(i, o, u) ==
  /\ Exists(invite[i]) /\ invite[i].org = o
  /\ invite[i].email = u /\ invite[i].state = "active"

Logs(o, u, action) == audited' = {[org |-> o, user |-> u, action |-> action]}
\* The caller has one of these roles, and the audit row names him.
ByOne(o, roles, action) ==
  \E u \in Users : Logs(o, u, action) /\ role[o][u] \in roles

CInit ==
  /\ slug \in [Orgs -> Slugs \cup {Free, Gone}]
  /\ role \in [Orgs -> [Users -> Roles \cup {NoRole}]]
  /\ \A o \in Orgs :
       IF Exists(slug[o])
       THEN HasOwner(o) /\ Unused(slug[o], o)
       ELSE \A u \in Users : role[o][u] = NoRole
  /\ invite = [i \in InvIds |-> Free]

CreateOrg(o, u, s) ==
  /\ slug[o] = Free /\ Unused(s, o)
  /\ Logs(o, u, "organization.created")
  /\ slug' = [slug EXCEPT ![o] = s]
  /\ role' = [role EXCEPT ![o][u] = "OWNER"]
  /\ UNCHANGED invite

UpdateOrg(o) ==
  /\ Exists(slug[o]) /\ ByOne(o, {"OWNER", "ADMIN"}, "organization.updated")
  /\ \E s \in Slugs : Unused(s, o) /\ slug' = [slug EXCEPT ![o] = s]
  /\ UNCHANGED <<role, invite>>

\* Which roles the caller may give, and to whom, is decided on what the session
\* has loaded, which may be out of date; the caller is still a member.
ChangeRole(o, u, new) ==
  /\ Exists(slug[o]) /\ role[o][u] # NoRole
  /\ role' = [role EXCEPT ![o][u] = new]
  /\ HasOwner(o)'
  /\ UNCHANGED <<slug, invite>>
UpdateMember(o) ==
  /\ ByOne(o, Roles, "member.role_changed")
  /\ \E u \in Users, new \in Roles : ChangeRole(o, u, new)
RemoveMember(o) ==
  /\ ByOne(o, Roles, "member.removed")
  /\ \E u \in Users : ChangeRole(o, u, NoRole)

\* The log goes with the organization.
DeleteOrg(o) ==
  /\ Exists(slug[o]) /\ slug' = [slug EXCEPT ![o] = Gone]
  /\ role' = [role EXCEPT ![o] = [u \in Users |-> NoRole]]
  /\ invite' = [i \in InvIds |->
       IF Exists(invite[i]) /\ invite[i].org = o THEN Gone ELSE invite[i]]
  /\ audited' = {}

Invite(o) ==
  /\ Exists(slug[o]) /\ ByOne(o, {"OWNER", "ADMIN"}, "member.invited")
  /\ \E i \in InvIds, u \in Users, new \in Roles :
       /\ invite[i] = Free
       /\ role[o][u] = NoRole /\ \A j \in InvIds : ~Open(j, o, u)
       /\ invite' = [invite EXCEPT ![i] =
            [org |-> o, email |-> u, role |-> new, state |-> "active"]]
  /\ UNCHANGED <<slug, role>>

\* The expiry is decided by the clock as it was when the request began.
Accept(i) ==
  LET o == invite[i].org
      u == invite[i].email IN
  /\ Exists(invite[i]) /\ invite[i].state # "used"
  /\ Logs(o, u, "invitation.accepted")
  /\ Exists(slug[o]) /\ role[o][u] = NoRole
  /\ invite' = [invite EXCEPT ![i].state = "used"]
  /\ role' = [role EXCEPT ![o][u] = invite[i].role]
  /\ UNCHANGED slug

Expire(i) ==
  /\ Exists(invite[i]) /\ invite[i].state = "active"
  /\ invite' = [invite EXCEPT ![i].state = "expired"]
  /\ audited' = {} /\ UNCHANGED <<slug, role>>

CNext ==
  \/ \E o \in Orgs : \/ \E u \in Users, s \in Slugs : CreateOrg(o, u, s)
                     \/ UpdateOrg(o) \/ UpdateMember(o) \/ RemoveMember(o)
                     \/ DeleteOrg(o) \/ Invite(o)
  \/ \E i \in InvIds : Accept(i) \/ Expire(i)

CSpec == CInit /\ [][CNext]_cvars

=============================================================================
