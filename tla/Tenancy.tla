------------------------------- MODULE Tenancy -------------------------------
(***************************************************************************)
(* Organizations, memberships and invitations, as the HTTP handlers of     *)
(* app/api/routes/{organizations,members,invitations}.py and the services  *)
(* behind them change them, in concurrent PostgreSQL transactions at READ  *)
(* COMMITTED.                                                              *)
(*                                                                         *)
(* A request is one HTTP request with its own AsyncSession (one            *)
(* transaction).  Every SELECT ... FOR UPDATE is a step of its own: it     *)
(* takes one row lock when that row is free and evaluates its WHERE clause *)
(* on the row version it locked, which is what READ COMMITTED does after a *)
(* wait.  Writes become visible in the step that commits; that step also   *)
(* needs the organization row to be unlocked, because inserting an audit   *)
(* row or a membership takes FOR KEY SHARE on it.  A rejected request      *)
(* rolls back, which releases what it locked.                              *)
(*                                                                         *)
(* view models the session's identity map: a membership row the session    *)
(* has already loaded keeps the role it was loaded with, because a later   *)
(* SELECT ... FOR UPDATE without populate_existing returns the same object *)
(* without refreshing it.                                                  *)
(*                                                                         *)
(* An operator named X_Fault is a deliberately wrong variant of X: with it *)
(* in place of X, the property it is paired with must fail.                *)
(***************************************************************************)
EXTENDS Naturals, FiniteSets

CONSTANTS Users, Orgs, Slugs, MemIds, InvIds, \* accounts, keys of the tables
          Requests,                           \* concurrent HTTP requests
          Ops,                                \* what clients ask for
          InitOrg, InitMember,                \* the database at the start
          Free, Gone,                         \* key not yet used; row deleted
          NoReq, NoArg

Roles == {"OWNER", "ADMIN", "MEMBER"}
NoRole == "none"

MemberRow == [org: Orgs, user: Users, role: Roles]
\* state abstracts accepted_at and expires_at.
InviteRow == [org: Orgs, email: Users, role: Roles,
              state: {"active", "expired", "used"}]

RowExists(row) == row \notin {Free, Gone}

\* One slug per organization, one membership per user and organization, and
\* somebody who owns each organization.
ConsistentDatabase(orgs, members) ==
  /\ orgs \in [Orgs -> Slugs \cup {Free, Gone}]
  /\ members \in [MemIds -> MemberRow \cup {Free, Gone}]
  /\ \A o, p \in Orgs : RowExists(orgs[o]) /\ orgs[o] = orgs[p] => o = p
  /\ \A m \in MemIds : RowExists(members[m]) => RowExists(orgs[members[m].org])
  /\ \A m, n \in MemIds :
       /\ RowExists(members[m]) /\ RowExists(members[n])
       /\ members[m].org = members[n].org /\ members[m].user = members[n].user
       => m = n
  /\ \A o \in Orgs : RowExists(orgs[o]) =>
       \E m \in MemIds : /\ RowExists(members[m])
                         /\ members[m].org = o /\ members[m].role = "OWNER"

ASSUME KeyAssumption ==
  Free # Gone /\ {Free, Gone} \cap (Slugs \cup MemberRow \cup InviteRow) = {}
ASSUME NoReqAssumption == NoReq \notin Requests
ASSUME InitAssumption == ConsistentDatabase(InitOrg, InitMember)
ASSUME PoolAssumption ==
  IsFiniteSet(Requests) /\ IsFiniteSet(Orgs) /\ IsFiniteSet(MemIds) /\ IsFiniteSet(InvIds)

\* What a client may send.  onTime is what accept_invitation's clock, read
\* before the row lock, says of the invitation's expiry.
UpdateMemberArg == [op: {"update_member"}, org: Orgs, user: Users, target: MemIds, role: Roles]
RemoveMemberArg == [op: {"remove_member"}, org: Orgs, user: Users, target: MemIds]
InviteArg == [op: {"invite"}, org: Orgs, user: Users, email: Users, role: Roles]
UpdateOrgArg == [op: {"update_org"}, org: Orgs, user: Users, slug: Slugs]
DeleteOrgArg == [op: {"delete_org"}, org: Orgs, user: Users]
CreateOrgArg == [op: {"create_org"}, user: Users, slug: Slugs]
AcceptArg == [op: {"accept"}, user: Users, invite: InvIds, onTime: BOOLEAN]
MailArg == [op: {"mail"}, invite: InvIds]

MemberRouteArg ==
  UpdateMemberArg \cup RemoveMemberArg \cup InviteArg \cup UpdateOrgArg \cup DeleteOrgArg
Arg == MemberRouteArg \cup CreateOrgArg \cup AcceptArg \cup MailArg

Steps == {"idle", "org", "actor", "target", "scan", "owners", "check",
          "invitation", "cascade", "write", "mail"}

VARIABLES
  org,      \* organizations: the slug, by id
  member,   \* memberships, by id
  invite,   \* invitations, by id
  olock, mlock, ilock,  \* who holds the FOR UPDATE lock of each row
  pc, arg,  \* where a request is, and what it asks
  view,     \* roles of the membership objects in its identity map
  todo,     \* rows _ensure_another_owner has still to lock
  found,    \* owner ids that query has returned
  mail,     \* invitations whose e-mail job was enqueued
  audited   \* audit rows the last step left in audit_logs

tables == <<org, member, invite>>
locks == <<olock, mlock, ilock>>
vars == <<org, member, invite, olock, mlock, ilock, pc, arg, view, todo, found, mail, audited>>

NothingLoaded == [m \in MemIds |-> NoRole]

Init ==
  /\ org = InitOrg /\ member = InitMember
  /\ invite = [i \in InvIds |-> Free]
  /\ olock = [o \in Orgs |-> NoReq]
  /\ mlock = [m \in MemIds |-> NoReq]
  /\ ilock = [i \in InvIds |-> NoReq]
  /\ pc = [r \in Requests |-> "idle"]
  /\ arg = [r \in Requests |-> NoArg]
  /\ view = [r \in Requests |-> NothingLoaded]
  /\ todo = [r \in Requests |-> {}]
  /\ found = [r \in Requests |-> {}]
  /\ mail = {} /\ audited = {}

-----------------------------------------------------------------------------
(* Queries on the committed tables. *)

MembersOf(o) == {m \in MemIds : RowExists(member[m]) /\ member[m].org = o}
OwnersOf(o) == {m \in MembersOf(o) : member[m].role = "OWNER"}
MembershipOf(o, u) == {m \in MembersOf(o) : member[m].user = u}
ActorRows(r, roles) ==
  {m \in MembershipOf(arg[r].org, arg[r].user) : member[m].role \in roles}
InvitesOf(o) == {i \in InvIds : RowExists(invite[i]) /\ invite[i].org = o}
\* The unique index on the slug.
SlugTaken_NoIndex(s, o) == FALSE
SlugTaken(s, o) == \E p \in Orgs \ {o} : org[p] = s
FreeIds(table) == {k \in DOMAIN table : table[k] = Free}

\* uq_membership_user_org.
MembershipTaken(o, u) == MembershipOf(o, u) # {}

\* The bound on inserts: a request that may insert a row starts only while the
\* finite pool of keys has one left for it.
RoomFor(table, ops) ==
  Cardinality(FreeIds(table)) >
    Cardinality({q \in Requests : pc[q] # "idle" /\ arg[q].op \in ops})

Available(lock, k, r) == lock[k] \in {NoReq, r}
Released_Never(lock, r) == lock
Released(lock, r) == [k \in DOMAIN lock |-> IF lock[k] = r THEN NoReq ELSE lock[k]]

\* The role the session sees in a membership row it has just selected.
SeenRole(r, m) == IF view[r][m] = NoRole THEN member[m].role ELSE view[r][m]
Loaded(r, m) == [view EXCEPT ![r][m] = SeenRole(r, m)]

AuditRow == [org: Orgs, user: Users,
             action: {"organization.created", "organization.updated", "member.role_changed",
                      "member.removed", "member.invited", "invitation.accepted"}]
Entry(o, u, action) == [org |-> o, user |-> u, action |-> action]

-----------------------------------------------------------------------------
(* The life of a request. *)

Goto(r, step) == pc' = [pc EXCEPT ![r] = step]

\* The session ends, by commit or rollback: locks and objects go.
End(r) ==
  /\ olock' = Released(olock, r)
  /\ mlock' = Released(mlock, r)
  /\ ilock' = Released(ilock, r)
  /\ view' = [view EXCEPT ![r] = NothingLoaded]
  /\ todo' = [todo EXCEPT ![r] = {}]
  /\ found' = [found EXCEPT ![r] = {}]

Rollback(r) ==
  /\ End(r) /\ Goto(r, "idle")
  /\ arg' = [arg EXCEPT ![r] = NoArg]
  /\ audited' = {}
  /\ UNCHANGED <<tables, mail>>

Commit_Unaudited(r, entries) ==
  /\ End(r) /\ Goto(r, "idle")
  /\ arg' = [arg EXCEPT ![r] = NoArg]
  /\ audited' = {}
  /\ UNCHANGED mail
Commit(r, entries) ==
  /\ End(r) /\ Goto(r, "idle")
  /\ arg' = [arg EXCEPT ![r] = NoArg]
  /\ audited' = entries
  /\ UNCHANGED mail

\* A step that only reads and locks.
Working(r) == audited' = {} /\ UNCHANGED <<tables, mail>>

FirstStep_InviteUnlocked(op) ==
  IF op \in {"update_member", "remove_member", "invite"} THEN "actor" ELSE "org"
FirstStep(op) == IF op \in {"update_member", "remove_member"} THEN "actor" ELSE "org"
RouteRoles(op) == IF op = "delete_org" THEN {"OWNER"} ELSE {"OWNER", "ADMIN"}

\* The route's dependencies: get_current_membership loads the caller's row
\* without a lock, require_roles tests it.  A caller who fails has no effect.
BeginMemberRoute(r) ==
  /\ pc[r] = "idle"
  /\ \E a \in MemberRouteArg :
       /\ a.op \in Ops
       /\ a.op \in {"update_member", "remove_member"} => member[a.target] # Free
       /\ a.op = "invite" => RoomFor(invite, {"invite"})
       /\ \E m \in MembershipOf(a.org, a.user) :
            /\ member[m].role \in RouteRoles(a.op)
            /\ view' = [view EXCEPT ![r][m] = member[m].role]
       /\ arg' = [arg EXCEPT ![r] = a]
       /\ Goto(r, FirstStep(a.op))
  /\ Working(r) /\ UNCHANGED <<locks, todo, found>>

BeginCreateOrg(r) ==
  /\ pc[r] = "idle"
  /\ \E a \in CreateOrgArg : a.op \in Ops /\ arg' = [arg EXCEPT ![r] = a]
  /\ RoomFor(org, {"create_org"}) /\ RoomFor(member, {"create_org", "accept"})
  /\ Goto(r, "check")
  /\ Working(r) /\ UNCHANGED <<locks, view, todo, found>>

\* now is read before the invitation row is locked.
BeginAccept(r) ==
  /\ pc[r] = "idle" /\ "accept" \in Ops
  /\ RoomFor(member, {"create_org", "accept"})
  /\ \E u \in Users, i \in InvIds :
       /\ invite[i] # Free
       /\ arg' = [arg EXCEPT ![r] =
            [op |-> "accept", user |-> u, invite |-> i,
             onTime |-> invite[i] # Gone /\ invite[i].state # "expired"]]
  /\ Goto(r, "invitation")
  /\ Working(r) /\ UNCHANGED <<locks, view, todo, found>>

\* The process dies, the client disconnects or the database drops the
\* connection: PostgreSQL rolls the transaction back.
Abort(r) == pc[r] # "idle" /\ Rollback(r)

-----------------------------------------------------------------------------
(* Row locks. *)

\* The SELECT of update_organization and delete_organization joins the
\* caller's membership, and so does not lock the organization when that row
\* does not qualify; _lock_organization does not join.
OrgSelected(r) ==
  /\ RowExists(org[arg[r].org])
  /\ arg[r].op # "invite" => ActorRows(r, RouteRoles(arg[r].op)) # {}

LockOrg_MembershipFirst(r) ==
  /\ pc[r] = "org"
  /\ \/ /\ OrgSelected(r)
        /\ \/ /\ \E m \in ActorRows(r, RouteRoles(arg[r].op)) :
                   /\ arg[r].op = "update_org" /\ mlock[m] = NoReq
                   /\ mlock' = [mlock EXCEPT ![m] = r]
              /\ UNCHANGED <<olock, pc>>
           \/ /\ arg[r].op = "update_org" =>
                   \E m \in ActorRows(r, RouteRoles(arg[r].op)) : mlock[m] = r
              /\ Available(olock, arg[r].org, r)
              /\ olock' = [olock EXCEPT ![arg[r].org] = r]
              /\ Goto(r, "actor") /\ UNCHANGED mlock
        /\ Working(r) /\ UNCHANGED <<ilock, arg, view, todo, found>>
     \/ ~OrgSelected(r) /\ Rollback(r)
LockOrg(r) ==
  /\ pc[r] = "org"
  /\ \/ /\ OrgSelected(r) /\ Available(olock, arg[r].org, r)
        /\ olock' = [olock EXCEPT ![arg[r].org] = r]
        /\ Goto(r, "actor")
        /\ Working(r) /\ UNCHANGED <<mlock, ilock, arg, view, todo, found>>
     \/ ~OrgSelected(r) /\ Rollback(r)

\* _lock_actor_membership has no role in its WHERE clause; the other queries do.
ActorRoles(op) == IF op \in {"update_member", "remove_member"} THEN Roles ELSE RouteRoles(op)
AfterActor(op) ==
  CASE op \in {"update_member", "remove_member"} -> "target"
    [] op = "invite" -> "check"
    [] op = "delete_org" -> "cascade"
    [] OTHER -> "write"

LockActor_Unlocked(r) ==
  /\ pc[r] = "actor"
  /\ LET rows == ActorRows(r, ActorRoles(arg[r].op)) IN
     \/ \E m \in rows :
          /\ Available(mlock, m, r)
          /\ view' = Loaded(r, m)
          /\ Goto(r, AfterActor(arg[r].op))
          /\ Working(r) /\ UNCHANGED <<locks, arg, todo, found>>
     \/ rows = {} /\ Rollback(r)
LockActor(r) ==
  /\ pc[r] = "actor"
  /\ LET rows == ActorRows(r, ActorRoles(arg[r].op)) IN
     \/ \E m \in rows :
          /\ Available(mlock, m, r)
          /\ mlock' = [mlock EXCEPT ![m] = r]
          /\ view' = Loaded(r, m)
          /\ Goto(r, AfterActor(arg[r].op))
          /\ Working(r) /\ UNCHANGED <<olock, ilock, arg, todo, found>>
     \/ rows = {} /\ Rollback(r)

\* update_membership and remove_membership, on the roles the session sees.
ChangeAllowed(a, actorRole, targetRole) ==
  IF a.op = "update_member"
  THEN \/ actorRole = "OWNER"
       \/ actorRole = "ADMIN" /\ targetRole = "MEMBER" /\ a.role = "MEMBER"
  ELSE actorRole = "OWNER" \/ (actorRole = "ADMIN" /\ targetRole = "MEMBER")
TakesOwnership(a, targetRole) ==
  targetRole = "OWNER" /\ (a.op = "update_member" => a.role # "OWNER")

TargetSelected_AnyTenant(r) == RowExists(member[arg[r].target])
TargetSelected(r) == arg[r].target \in MembersOf(arg[r].org)

\* _lock_membership and the checks up to _ensure_another_owner.
LockTarget(r) ==
  /\ pc[r] = "target"
  /\ \/ /\ TargetSelected(r) /\ Available(mlock, arg[r].target, r)
        /\ \E actor \in ActorRows(r, Roles) :
             LET t == arg[r].target
                 seen == SeenRole(r, t)
             IN IF ChangeAllowed(arg[r], SeenRole(r, actor), seen)
                THEN /\ mlock' = [mlock EXCEPT ![t] = r]
                     /\ view' = Loaded(r, t)
                     /\ Goto(r, IF TakesOwnership(arg[r], seen) THEN "scan" ELSE "write")
                     /\ Working(r) /\ UNCHANGED <<olock, ilock, arg, todo, found>>
                ELSE Rollback(r)
     \/ ~TargetSelected(r) /\ Rollback(r)

\* _ensure_another_owner: the query's snapshot, ...
ScanOwners(r) ==
  /\ pc[r] = "scan"
  /\ todo' = [todo EXCEPT ![r] = OwnersOf(arg[r].org)]
  /\ Goto(r, "owners")
  /\ Working(r) /\ UNCHANGED <<locks, arg, view, found>>

\* ... one row lock after the other, each row tested again once it is locked, ...
StillOwner(r, m) == m \in OwnersOf(arg[r].org)
LockOwner_Unlocked(r) ==
  /\ pc[r] = "owners"
  /\ \E m \in todo[r] :
       /\ found' = IF StillOwner(r, m) THEN [found EXCEPT ![r] = @ \cup {m}] ELSE found
       /\ todo' = [todo EXCEPT ![r] = @ \ {m}]
  /\ Working(r) /\ UNCHANGED <<locks, pc, arg, view>>
LockOwner(r) ==
  /\ pc[r] = "owners"
  /\ \E m \in todo[r] :
       /\ Available(mlock, m, r)
       /\ mlock' = IF RowExists(member[m]) THEN [mlock EXCEPT ![m] = r] ELSE mlock
       /\ found' = IF StillOwner(r, m) THEN [found EXCEPT ![r] = @ \cup {m}] ELSE found
       /\ todo' = [todo EXCEPT ![r] = @ \ {m}]
  /\ Working(r) /\ UNCHANGED <<olock, ilock, pc, arg, view>>

\* ... and its verdict.
AnotherOwner(r) == \E m \in found[r] : m # arg[r].target
EnsureAnotherOwner(r) ==
  /\ pc[r] = "owners" /\ todo[r] = {}
  /\ \/ /\ AnotherOwner(r) /\ Goto(r, "write")
        /\ Working(r) /\ UNCHANGED <<locks, arg, view, todo, found>>
     \/ ~AnotherOwner(r) /\ Rollback(r)

-----------------------------------------------------------------------------
(* Writes.  The commit waits for FOR KEY SHARE on the organization row. *)

KeyShare(r, o) == Available(olock, o, r)

\* The ORM emits an UPDATE only if the role differs from the one it loaded.
WriteRole(r) ==
  /\ pc[r] = "write" /\ arg[r].op = "update_member"
  /\ KeyShare(r, arg[r].org)
  /\ member' = IF view[r][arg[r].target] # arg[r].role
               THEN [member EXCEPT ![arg[r].target].role = arg[r].role]
               ELSE member
  /\ Commit(r, {Entry(arg[r].org, arg[r].user, "member.role_changed")})
  /\ UNCHANGED <<org, invite>>

WriteRemoval(r) ==
  /\ pc[r] = "write" /\ arg[r].op = "remove_member"
  /\ KeyShare(r, arg[r].org)
  /\ member' = [member EXCEPT ![arg[r].target] = Gone]
  /\ Commit(r, {Entry(arg[r].org, arg[r].user, "member.removed")})
  /\ UNCHANGED <<org, invite>>

WriteSlug(r) ==
  /\ pc[r] = "write" /\ arg[r].op = "update_org"
  /\ IF SlugTaken(arg[r].slug, arg[r].org)
     THEN Rollback(r)
     ELSE /\ org' = [org EXCEPT ![arg[r].org] = arg[r].slug]
          /\ Commit(r, {Entry(arg[r].org, arg[r].user, "organization.updated")})
          /\ UNCHANGED <<member, invite>>

\* create_organization looks for the slug first; the unique index decides.
CheckSlug(r) ==
  /\ pc[r] = "check" /\ arg[r].op = "create_org"
  /\ IF \E o \in Orgs : org[o] = arg[r].slug
     THEN Rollback(r)
     ELSE Goto(r, "write") /\ Working(r) /\ UNCHANGED <<locks, arg, view, todo, found>>

WriteOrg(r) ==
  /\ pc[r] = "write" /\ arg[r].op = "create_org"
  /\ \E o \in FreeIds(org), m \in FreeIds(member) :
       IF SlugTaken(arg[r].slug, o)
       THEN Rollback(r)
       ELSE /\ org' = [org EXCEPT ![o] = arg[r].slug]
            /\ member' = [member EXCEPT ![m] =
                            [org |-> o, user |-> arg[r].user, role |-> "OWNER"]]
            /\ Commit(r, {Entry(o, arg[r].user, "organization.created")})
            /\ UNCHANGED invite

\* ON DELETE CASCADE locks the rows it deletes one at a time.
UncascadedMembers(r) == {m \in MembersOf(arg[r].org) : mlock[m] # r}
UncascadedInvites(r) == {i \in InvitesOf(arg[r].org) : ilock[i] # r}
Cascade(r) ==
  /\ pc[r] = "cascade"
  /\ \/ \E m \in UncascadedMembers(r) :
          Available(mlock, m, r) /\ mlock' = [mlock EXCEPT ![m] = r] /\ UNCHANGED ilock
     \/ \E i \in UncascadedInvites(r) :
          Available(ilock, i, r) /\ ilock' = [ilock EXCEPT ![i] = r] /\ UNCHANGED mlock
  /\ Working(r) /\ UNCHANGED <<olock, pc, arg, view, todo, found>>

\* The audit row written before the DELETE belongs to the organization and is
\* cascaded away with it.
DeleteOrg_InvitesStay(r) ==
  /\ pc[r] = "cascade" /\ UncascadedMembers(r) = {}
  /\ org' = [org EXCEPT ![arg[r].org] = Gone]
  /\ member' = [m \in MemIds |-> IF m \in MembersOf(arg[r].org) THEN Gone ELSE member[m]]
  /\ invite' = invite
  /\ Commit(r, {})
DeleteOrg(r) ==
  /\ pc[r] = "cascade"
  /\ UncascadedMembers(r) = {} /\ UncascadedInvites(r) = {}
  /\ org' = [org EXCEPT ![arg[r].org] = Gone]
  /\ member' = [m \in MemIds |-> IF m \in MembersOf(arg[r].org) THEN Gone ELSE member[m]]
  /\ invite' = [i \in InvIds |-> IF i \in InvitesOf(arg[r].org) THEN Gone ELSE invite[i]]
  /\ Commit(r, {})

-----------------------------------------------------------------------------
(* Invitations. *)

\* ensure_invitation_role
InviteAllowed(actorRole, role) ==
  actorRole = "OWNER" \/ (actorRole = "ADMIN" /\ role = "MEMBER")
ActiveInvites(o, u) ==
  {i \in InvitesOf(o) : invite[i].email = u /\ invite[i].state = "active"}

CheckInvitation(r) ==
  /\ pc[r] = "check" /\ arg[r].op = "invite"
  /\ \E actor \in ActorRows(r, Roles) :
       IF /\ InviteAllowed(SeenRole(r, actor), arg[r].role)
          /\ MembershipOf(arg[r].org, arg[r].email) = {}
          /\ ActiveInvites(arg[r].org, arg[r].email) = {}
       THEN Goto(r, "write") /\ Working(r) /\ UNCHANGED <<locks, arg, view, todo, found>>
       ELSE Rollback(r)

\* The route commits before it hands the token to the e-mail queue.
WriteInvitation_MailFirst(r) ==
  /\ pc[r] = "write" /\ arg[r].op = "invite"
  /\ \E i \in FreeIds(invite) : mail' = mail \cup {i}
  /\ arg' = [arg EXCEPT ![r] = NoArg]
  /\ audited' = {} /\ End(r) /\ Goto(r, "idle")
  /\ UNCHANGED tables
WriteInvitation(r) ==
  /\ pc[r] = "write" /\ arg[r].op = "invite"
  /\ \E i \in FreeIds(invite) :
       /\ invite' = [invite EXCEPT ![i] = [org |-> arg[r].org, email |-> arg[r].email,
                                           role |-> arg[r].role, state |-> "active"]]
       /\ arg' = [arg EXCEPT ![r] = [op |-> "mail", invite |-> i]]
  /\ audited' = {Entry(arg[r].org, arg[r].user, "member.invited")}
  /\ End(r) /\ Goto(r, "mail")
  /\ UNCHANGED <<org, member, mail>>

\* A failed enqueue is logged and the response is sent all the same.
EnqueueEmail(r) ==
  /\ pc[r] = "mail"
  /\ mail' \in {mail, mail \cup {arg[r].invite}}
  /\ End(r) /\ Goto(r, "idle")
  /\ arg' = [arg EXCEPT ![r] = NoArg]
  /\ audited' = {}
  /\ UNCHANGED tables

\* accept_invitation up to its flush.
Acceptable_Again(r, i) ==
  /\ arg[r].onTime /\ invite[i].email = arg[r].user
  /\ MembershipOf(invite[i].org, arg[r].user) = {}
Acceptable(r, i) ==
  /\ invite[i].state # "used" /\ arg[r].onTime
  /\ invite[i].email = arg[r].user
  /\ MembershipOf(invite[i].org, arg[r].user) = {}
LockInvitation(r) ==
  /\ pc[r] = "invitation"
  /\ LET i == arg[r].invite IN
     \/ /\ RowExists(invite[i]) /\ Available(ilock, i, r)
        /\ IF Acceptable(r, i)
           THEN /\ ilock' = [ilock EXCEPT ![i] = r]
                /\ Goto(r, "write")
                /\ Working(r) /\ UNCHANGED <<olock, mlock, arg, view, todo, found>>
           ELSE Rollback(r)
     \/ ~RowExists(invite[i]) /\ Rollback(r)

\* The unique constraint turns a second membership into a rejection.
WriteAcceptance(r) ==
  /\ pc[r] = "write" /\ arg[r].op = "accept"
  /\ LET i == arg[r].invite
         o == invite[i].org
     IN /\ KeyShare(r, o)
        /\ IF MembershipTaken(o, arg[r].user)
           THEN Rollback(r)
           ELSE /\ \E m \in FreeIds(member) :
                     member' = [member EXCEPT ![m] =
                       [org |-> o, user |-> arg[r].user, role |-> invite[i].role]]
                /\ invite' = [invite EXCEPT ![i].state = "used"]
                /\ Commit(r, {Entry(o, arg[r].user, "invitation.accepted")})
                /\ UNCHANGED org

\* Time passes expires_at.
Expire ==
  /\ \E i \in InvIds :
       /\ RowExists(invite[i]) /\ invite[i].state = "active"
       /\ invite' = [invite EXCEPT ![i].state = "expired"]
  /\ audited' = {}
  /\ UNCHANGED <<org, member, olock, mlock, ilock, pc, arg, view, todo, found, mail>>

-----------------------------------------------------------------------------
(* Deadlocks.  Blockers(r) are the requests whose locks r may wait for. *)

Blockers(r) ==
  LET holders ==
        CASE pc[r] = "org" -> {olock[arg[r].org]}
          [] pc[r] = "actor" -> {mlock[m] : m \in ActorRows(r, ActorRoles(arg[r].op))}
          [] pc[r] = "target" -> {mlock[arg[r].target]}
          [] pc[r] = "owners" -> {mlock[m] : m \in todo[r]}
          [] pc[r] = "invitation" -> {ilock[arg[r].invite]}
          [] pc[r] = "cascade" -> {mlock[m] : m \in UncascadedMembers(r)}
                                    \cup {ilock[i] : i \in UncascadedInvites(r)}
          [] pc[r] = "write" /\ arg[r].op \in {"update_member", "remove_member"} ->
               {olock[arg[r].org]}
          [] pc[r] = "write" /\ arg[r].op = "accept" -> {olock[invite[arg[r].invite].org]}
          [] OTHER -> {}
  IN holders \ {NoReq, r}

LockCycle(S) == S # {} /\ \A q \in S : Blockers(q) \cap S # {}
Deadlocked(r) == \E S \in SUBSET Requests : r \in S /\ LockCycle(S)

\* PostgreSQL's deadlock detector picks a victim; the handler rolls back.
DeadlockAbort(r) == Deadlocked(r) /\ Rollback(r)

-----------------------------------------------------------------------------
Begin(r) == BeginMemberRoute(r) \/ BeginCreateOrg(r) \/ BeginAccept(r)

Acquire(r) == LockOrg(r) \/ LockActor(r) \/ LockTarget(r) \/ LockOwner(r)
              \/ LockInvitation(r) \/ Cascade(r)

Write(r) == WriteRole(r) \/ WriteRemoval(r) \/ WriteSlug(r) \/ WriteOrg(r)
            \/ WriteInvitation(r) \/ WriteAcceptance(r) \/ DeleteOrg(r)

Decide(r) == ScanOwners(r) \/ EnsureAnotherOwner(r) \/ CheckSlug(r)
             \/ CheckInvitation(r) \/ EnqueueEmail(r)

Next ==
  \/ \E r \in Requests : Begin(r) \/ Acquire(r) \/ Decide(r) \/ Write(r)
                         \/ DeadlockAbort(r) \/ Abort(r)
  \/ Expire

Spec == Init /\ [][Next]_vars

\* A handler runs on; a waiter gets a lock that is released again and again,
\* because PostgreSQL queues waiters; a deadlock is broken.
Fairness ==
  /\ \A r \in Requests : /\ WF_vars(Decide(r))
                         /\ SF_vars(Acquire(r))
                         /\ SF_vars(Write(r))
  /\ WF_vars(\E r \in Requests : DeadlockAbort(r))

FairSpec == Spec /\ Fairness

-----------------------------------------------------------------------------
(* Properties. *)

TypeOK ==
  /\ org \in [Orgs -> Slugs \cup {Free, Gone}]
  /\ member \in [MemIds -> MemberRow \cup {Free, Gone}]
  /\ invite \in [InvIds -> InviteRow \cup {Free, Gone}]
  /\ olock \in [Orgs -> Requests \cup {NoReq}]
  /\ mlock \in [MemIds -> Requests \cup {NoReq}]
  /\ ilock \in [InvIds -> Requests \cup {NoReq}]
  /\ pc \in [Requests -> Steps]
  /\ arg \in [Requests -> Arg \cup {NoArg}]
  /\ view \in [Requests -> [MemIds -> Roles \cup {NoRole}]]
  /\ todo \in [Requests -> SUBSET MemIds]
  /\ found \in [Requests -> SUBSET MemIds]
  /\ mail \in SUBSET InvIds
  /\ audited \subseteq AuditRow

\* An organization never loses its last owner, whichever demotions, removals
\* and deletions run at the same time (_ensure_another_owner).
LastOwner == \A o \in Orgs : RowExists(org[o]) => OwnersOf(o) # {}

UniqueMembership ==
  \A m, n \in MemIds :
    /\ RowExists(member[m]) /\ RowExists(member[n])
    /\ member[m].org = member[n].org /\ member[m].user = member[n].user
    => m = n

\* The lookups that run before an insert race with each other; the table never
\* shows two memberships of one user in one organization or one slug twice.
UniqueRows ==
  /\ UniqueMembership
  /\ \A o, p \in Orgs : RowExists(org[o]) /\ org[o] = org[p] => o = p

\* create_invitation, which has no constraint behind it, never leaves two
\* invitations for one address in one organization that can both be accepted.
OneActiveInvitation ==
  \A o \in Orgs, u \in Users : Cardinality(ActiveInvites(o, u)) <= 1

\* Nothing outlives its organization: an acceptance racing with
\* delete_organization leaves no membership or invitation behind.
NoOrphans ==
  /\ \A m \in MemIds : RowExists(member[m]) => RowExists(org[member[m].org])
  /\ \A i \in InvIds : RowExists(invite[i]) => RowExists(org[invite[i].org])

\* The e-mail queue only ever hears of committed invitations.
MailAfterCommit == \A i \in mail : invite[i] # Free

\* r changes the database in this step.
Changes(r) == arg[r] # NoArg /\ arg'[r] # arg[r] /\ tables' # tables

\* Whoever is removed, or demoted below what the SQL of the operation asks
\* for, while his request waits for a lock changes nothing any more.
ActorQualifiedAtCommit ==
  [][\A r \in Requests :
       Changes(r) /\ arg[r].op \in {"update_member", "remove_member", "invite",
                                    "update_org", "delete_org"}
       => ActorRows(r, ActorRoles(arg[r].op)) # {}]_vars

\* A request on the path of one organization changes no row of another.
TenantIsolation ==
  [][\A r \in Requests :
       Changes(r) /\ arg[r] \in MemberRouteArg =>
         /\ \A o \in Orgs : org'[o] # org[o] => o = arg[r].org
         /\ \A m \in MemIds : member'[m] # member[m] => m \in MembersOf(arg[r].org)
         /\ \A i \in InvIds : invite'[i] # invite[i] /\ RowExists(invite[i])
                                => i \in InvitesOf(arg[r].org)]_vars

\* Whatever requests overlap, the tables change as if every operation were one
\* step at its commit: TenancyContract, with a membership known by organization
\* and user instead of by its id.
RoleIn(o, u) ==
  LET rows == MembershipOf(o, u)
  IN IF rows = {} THEN NoRole ELSE member[CHOOSE m \in rows : TRUE].role
RoleTable == [o \in Orgs |-> [u \in Users |-> RoleIn(o, u)]]
C == INSTANCE TenancyContract WITH slug <- org, role <- RoleTable
ActsAtomically == C!CSpec

\* README, RBAC: "The limited admin membership operations reject changes to an
\* owner and any attempt to grant the owner role."  Read of the caller's role
\* when update_membership or remove_membership commits.
OnlyOwnersTouchOwnership ==
  [][\A r \in Requests :
       /\ Changes(r) /\ arg[r].op \in {"update_member", "remove_member"}
       /\ ActorRows(r, {"ADMIN"}) # {}
       => \A m \in MemIds : member'[m] # member[m] =>
            /\ member[m].role # "OWNER"
            /\ RowExists(member'[m]) => member'[m].role # "OWNER"]_vars

\* r can execute the statement it is at: the rows it needs are free, and ids
\* are left for the rows it inserts.
AnyAvailable(lock, rows, r) == rows = {} \/ \E k \in rows : Available(lock, k, r)
Ready(r) ==
  LET a == arg[r] IN
  CASE pc[r] = "org" -> OrgSelected(r) => Available(olock, a.org, r)
    [] pc[r] = "actor" -> AnyAvailable(mlock, ActorRows(r, ActorRoles(a.op)), r)
    [] pc[r] = "target" -> TargetSelected(r) => Available(mlock, a.target, r)
    [] pc[r] = "owners" -> AnyAvailable(mlock, todo[r], r)
    [] pc[r] = "invitation" -> RowExists(invite[a.invite]) => Available(ilock, a.invite, r)
    [] pc[r] = "cascade" ->
         \/ UncascadedMembers(r) \cup UncascadedInvites(r) = {}
         \/ \E m \in UncascadedMembers(r) : Available(mlock, m, r)
         \/ \E i \in UncascadedInvites(r) : Available(ilock, i, r)
    [] pc[r] = "write" ->
         /\ a.op \in {"update_member", "remove_member"} => KeyShare(r, a.org)
         /\ a.op = "create_org" => FreeIds(org) # {} /\ FreeIds(member) # {}
         /\ a.op = "invite" => FreeIds(invite) # {}
         /\ a.op = "accept" =>
              LET o == invite[a.invite].org
              IN KeyShare(r, o) /\ (MembershipTaken(o, a.user) \/ FreeIds(member) # {})
    [] OTHER -> pc[r] # "idle"

\* While requests are open, one of them can execute its statement, or some wait
\* for each other and PostgreSQL's deadlock detector ends the wait.
NeverStuck ==
  (\E r \in Requests : pc[r] # "idle") => \E r \in Requests : Ready(r) \/ Deadlocked(r)

\* Renamings, invitations and acceptances lock rows in one order (invitation,
\* organization, membership): every cycle of waits has a role change, a removal
\* or a deletion in it.
DeadlockNeedsMemberChange ==
  \A S \in SUBSET Requests : LockCycle(S) =>
    \E r \in S : arg[r].op \in {"update_member", "remove_member", "delete_org"}

\* No request waits for ever: locks are released, deadlocks are broken.
EveryRequestEnds == \A r \in Requests : pc[r] # "idle" ~> pc[r] = "idle"

=============================================================================
