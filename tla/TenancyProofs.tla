---------------------------- MODULE TenancyProofs ----------------------------
(***************************************************************************)
(* TenancyInv is an inductive invariant of Tenancy, and with it Tenancy    *)
(* implements TenancyContract, for any users, organizations, requests and  *)
(* numbers of rows.                                                        *)
(***************************************************************************)
EXTENDS Tenancy, FiniteSetTheorems, TLAPS

-----------------------------------------------------------------------------
(* The inductive invariant behind LastOwner. *)

MemberChangeArg == UpdateMemberArg \cup RemoveMemberArg
OrgLockArg == InviteArg \cup UpdateOrgArg \cup DeleteOrgArg

\* Which requests a step of the handlers can belong to.
ArgOK(r) ==
  /\ pc[r] # "idle" => arg[r] \in Arg
  /\ pc[r] = "org" => arg[r] \in OrgLockArg
  /\ pc[r] = "actor" => arg[r] \in MemberRouteArg
  /\ pc[r] \in {"target", "scan", "owners"} => arg[r] \in MemberChangeArg
  /\ pc[r] = "cascade" => arg[r] \in DeleteOrgArg
  /\ pc[r] = "invitation" => arg[r] \in AcceptArg
  /\ pc[r] = "check" => arg[r] \in InviteArg \cup CreateOrgArg
  /\ pc[r] = "mail" => arg[r] \in MailArg
  /\ pc[r] = "write" => arg[r] \in Arg \ (MailArg \cup DeleteOrgArg)

\* A request starts with an empty session.
FreshSession(r) == pc[r] = "idle" => view[r] = NothingLoaded /\ found[r] = {}

\* Before the target is locked, the identity map holds no row but the caller's.
OnlyOwnRowLoaded(r) ==
  \A m \in MemIds :
    pc[r] \in {"org", "actor", "target"} /\ view[r][m] # NoRole =>
      /\ member[m] # Free
      /\ RowExists(member[m]) => member[m].org = arg[r].org /\ member[m].user = arg[r].user

\* From then on the target is locked, and no owner is mistaken for less.
TargetHeld(r) ==
  pc[r] \in {"scan", "owners", "write"} /\ arg[r] \in MemberChangeArg =>
    /\ mlock[arg[r].target] = r
    /\ TargetSelected(r)
    /\ member[arg[r].target].role = "OWNER" => view[r][arg[r].target] = "OWNER"

\* Owners the scan has returned stay owners, because their rows are locked.
FoundHeld(r) == \A m \in found[r] : mlock[m] = r /\ StillOwner(r, m)

\* A request that is about to take ownership away has found another owner.
OwnershipChecked(r) ==
  /\ pc[r] = "write" /\ arg[r] \in MemberChangeArg
  /\ TakesOwnership(arg[r], view[r][arg[r].target])
  => AnotherOwner(r)

\* Settings, deletion and invitations work on an organization they have locked.
OrgHeld(r) ==
  pc[r] \in {"actor", "check", "write", "cascade"} /\ arg[r] \in OrgLockArg =>
    olock[arg[r].org] = r /\ RowExists(org[arg[r].org])

\* An acceptance works on an invitation it has locked.
InvitationHeld(r) ==
  pc[r] = "write" /\ arg[r] \in AcceptArg =>
    ilock[arg[r].invite] = r /\ RowExists(invite[arg[r].invite])

RequestInv(r) ==
  /\ ArgOK(r) /\ FreshSession(r) /\ OnlyOwnRowLoaded(r) /\ TargetHeld(r) /\ FoundHeld(r)
  /\ OwnershipChecked(r) /\ OrgHeld(r) /\ InvitationHeld(r)

TenancyInv ==
  /\ TypeOK /\ UniqueRows /\ NoOrphans /\ LastOwner
  /\ \A r \in Requests : RequestInv(r)

-----------------------------------------------------------------------------
\* What a request asks is known by its op.
LEMMA ArgByOp ==
  ASSUME NEW a \in Arg
  PROVE /\ a.op = "update_member" => a \in UpdateMemberArg
        /\ a.op = "remove_member" => a \in RemoveMemberArg
        /\ a.op = "invite" => a \in InviteArg
        /\ a.op = "update_org" => a \in UpdateOrgArg
        /\ a.op = "delete_org" => a \in DeleteOrgArg
        /\ a.op = "create_org" => a \in CreateOrgArg
        /\ a.op = "accept" => a \in AcceptArg
        /\ a.op = "mail" => a \in MailArg
BY DEF Arg, MemberRouteArg, UpdateMemberArg, RemoveMemberArg, InviteArg, UpdateOrgArg,
       DeleteOrgArg, CreateOrgArg, AcceptArg, MailArg

\* And the op of a request is known by its kind.
LEMMA OpOfArg ==
  ASSUME NEW a
  PROVE /\ a \in UpdateMemberArg => a.op = "update_member" /\ a.org \in Orgs /\ a.user \in Users
                                    /\ a.target \in MemIds /\ a.role \in Roles
        /\ a \in RemoveMemberArg => a.op = "remove_member" /\ a.org \in Orgs /\ a.user \in Users
                                    /\ a.target \in MemIds
        /\ a \in InviteArg => a.op = "invite" /\ a.org \in Orgs /\ a.user \in Users
                              /\ a.email \in Users /\ a.role \in Roles
        /\ a \in UpdateOrgArg => a.op = "update_org" /\ a.org \in Orgs /\ a.user \in Users
                                 /\ a.slug \in Slugs
        /\ a \in DeleteOrgArg => a.op = "delete_org" /\ a.org \in Orgs /\ a.user \in Users
        /\ a \in CreateOrgArg => a.op = "create_org" /\ a.user \in Users /\ a.slug \in Slugs
        /\ a \in AcceptArg => a.op = "accept" /\ a.user \in Users /\ a.invite \in InvIds
        /\ a \in MailArg => a.op = "mail" /\ a.invite \in InvIds
BY DEF UpdateMemberArg, RemoveMemberArg, InviteArg, UpdateOrgArg,
       DeleteOrgArg, CreateOrgArg, AcceptArg, MailArg

\* A step request q cannot notice: q keeps its place, its session and its locks,
\* and no row q has locked changes.
Unseen(q) ==
  /\ pc'[q] = pc[q] /\ arg'[q] = arg[q] /\ view'[q] = view[q] /\ found'[q] = found[q]
  /\ \A o \in Orgs : olock[o] = q => olock'[o] = q /\ (RowExists(org[o]) => RowExists(org'[o]))
  /\ \A m \in MemIds : mlock[m] = q => mlock'[m] = q
  /\ \A i \in InvIds : ilock[i] = q => ilock'[i] = q /\ (RowExists(invite[i]) => RowExists(invite'[i]))
  /\ \A m \in MemIds :
       /\ mlock[m] = q /\ RowExists(member[m]) => member'[m] = member[m]
       /\ member[m] # Free =>
            /\ member'[m] # Free
            /\ RowExists(member'[m]) =>
                 /\ RowExists(member[m])
                 /\ member'[m].org = member[m].org /\ member'[m].user = member[m].user

LEMMA NonInterference ==
  ASSUME TenancyInv, NEW q \in Requests, Unseen(q)
  PROVE RequestInv(q)'
<1> USE DEF RequestInv
<1>0. RequestInv(q) /\ TypeOK
  BY DEF TenancyInv
<1>1. ArgOK(q)'
  BY <1>0 DEF Unseen, ArgOK
<1>8. FreshSession(q)'
  BY <1>0 DEF Unseen, FreshSession, NothingLoaded
<1>2. OnlyOwnRowLoaded(q)'
  BY <1>0 DEF Unseen, OnlyOwnRowLoaded
<1>3. TargetHeld(q)'
  <2>1. arg[q] \in MemberChangeArg => arg[q].target \in MemIds
    BY OpOfArg DEF MemberChangeArg
  <2> QED BY <1>0, <2>1 DEF Unseen, TargetHeld, TargetSelected, MembersOf
<1>4. FoundHeld(q)'
  <2>1. found[q] \subseteq MemIds
    BY <1>0 DEF TypeOK
  <2> QED BY <1>0, <2>1 DEF Unseen, FoundHeld, StillOwner, OwnersOf, MembersOf
<1>5. OwnershipChecked(q)'
  BY <1>0 DEF Unseen, OwnershipChecked, AnotherOwner
<1>6. OrgHeld(q)'
  <2>1. arg[q] \in OrgLockArg => arg[q].org \in Orgs
    BY OpOfArg DEF OrgLockArg
  <2> QED BY <1>0, <2>1 DEF Unseen, OrgHeld
<1>7. InvitationHeld(q)'
  <2>1. arg[q] \in AcceptArg => arg[q].invite \in InvIds
    BY OpOfArg
  <2> QED BY <1>0, <2>1 DEF Unseen, InvitationHeld
<1> QED BY <1>1, <1>2, <1>3, <1>4, <1>5, <1>6, <1>7, <1>8

\* A finished request has nothing left to lose.
LEMMA IdleRequest ==
  ASSUME TypeOK, NEW r \in Requests, Goto(r, "idle"), End(r)
  PROVE RequestInv(r)'
<1>1. pc'[r] = "idle" /\ found'[r] = {} /\ view'[r] = NothingLoaded
  BY DEF TypeOK, Goto, End
<1>2. NothingLoaded' = NothingLoaded
  BY DEF NothingLoaded
<1> QED
  BY <1>1, <1>2 DEF RequestInv, ArgOK, FreshSession, OnlyOwnRowLoaded, TargetHeld, FoundHeld, OwnershipChecked,
              OrgHeld, InvitationHeld

\* Ending a session keeps the types of what it resets.
LEMMA EndType ==
  ASSUME TypeOK, NEW r \in Requests, End(r)
  PROVE /\ olock' \in [Orgs -> Requests \cup {NoReq}]
        /\ mlock' \in [MemIds -> Requests \cup {NoReq}]
        /\ ilock' \in [InvIds -> Requests \cup {NoReq}]
        /\ view' \in [Requests -> [MemIds -> Roles \cup {NoRole}]]
        /\ todo' \in [Requests -> SUBSET MemIds]
        /\ found' \in [Requests -> SUBSET MemIds]
BY DEF TypeOK, End, Released, NothingLoaded

\* It takes no lock and no session from another request.
LEMMA EndFrame ==
  ASSUME TypeOK, NEW r \in Requests, End(r), NEW q \in Requests \ {r}
  PROVE /\ view'[q] = view[q] /\ found'[q] = found[q]
        /\ \A o \in Orgs : olock[o] = q => olock'[o] = q
        /\ \A m \in MemIds : mlock[m] = q => mlock'[m] = q
        /\ \A i \in InvIds : ilock[i] = q => ilock'[i] = q
BY DEF TypeOK, End, Released

LEMMA RollbackStep ==
  ASSUME TenancyInv, NEW r \in Requests, Rollback(r)
  PROVE TenancyInv'
<1>0. TypeOK /\ End(r) /\ UNCHANGED <<org, member, invite, mail>>
  BY DEF TenancyInv, Rollback, tables
<1>1. TypeOK'
  BY <1>0, EndType DEF TypeOK, Rollback, Goto, Steps
<1>2. (UniqueRows /\ NoOrphans /\ LastOwner)'
  BY <1>0 DEF TenancyInv, UniqueRows, UniqueMembership, NoOrphans, LastOwner, OwnersOf, MembersOf
<1>3. ASSUME NEW q \in Requests PROVE RequestInv(q)'
  <2>1. CASE q = r
    BY <1>0, <2>1, IdleRequest DEF Rollback
  <2>2. CASE q # r
    <3>1. Unseen(q)
      BY <1>0, <2>2, EndFrame DEF Unseen, Rollback, Goto, TypeOK
    <3> QED BY <3>1, NonInterference
  <2> QED BY <2>1, <2>2
<1> QED BY <1>1, <1>2, <1>3 DEF TenancyInv

\* A step of r that writes nothing: only r and the types are left to check.
Private(r) ==
  \A q \in Requests \ {r} :
    /\ pc'[q] = pc[q] /\ arg'[q] = arg[q] /\ view'[q] = view[q] /\ found'[q] = found[q]
    /\ \A o \in Orgs : olock[o] = q => olock'[o] = q
    /\ \A m \in MemIds : mlock[m] = q => mlock'[m] = q
    /\ \A i \in InvIds : ilock[i] = q => ilock'[i] = q

LEMMA WorkingStep ==
  ASSUME TenancyInv, NEW r \in Requests, Working(r), Private(r), TypeOK', RequestInv(r)'
  PROVE TenancyInv'
<1>0. UNCHANGED <<org, member, invite>>
  BY DEF Working, tables
<1>1. (UniqueRows /\ NoOrphans /\ LastOwner)'
  BY <1>0 DEF TenancyInv, UniqueRows, UniqueMembership, NoOrphans, LastOwner, OwnersOf, MembersOf
<1>2. ASSUME NEW q \in Requests \ {r} PROVE RequestInv(q)'
  <2>1. Unseen(q)
    BY <1>0 DEF Unseen, Private
  <2> QED BY <2>1, NonInterference
<1> QED BY <1>1, <1>2 DEF TenancyInv

LEMMA BeginStep ==
  ASSUME TenancyInv, NEW r \in Requests, Begin(r)
  PROVE TenancyInv'
<1>0. TypeOK /\ pc[r] = "idle" /\ found[r] = {} /\ view[r] = NothingLoaded
  BY DEF TenancyInv, RequestInv, FreshSession, Begin, BeginMemberRoute, BeginCreateOrg, BeginAccept
<1>1. CASE BeginMemberRoute(r)
  <2>0. PICK a \in MemberRouteArg :
          /\ \E m \in MembershipOf(a.org, a.user) :
               /\ member[m].role \in RouteRoles(a.op)
               /\ view' = [view EXCEPT ![r][m] = member[m].role]
          /\ arg' = [arg EXCEPT ![r] = a]
          /\ Goto(r, FirstStep(a.op))
    BY <1>1 DEF BeginMemberRoute
  <2>1. PICK m \in MembershipOf(a.org, a.user) :
          /\ member[m].role \in RouteRoles(a.op)
          /\ view' = [view EXCEPT ![r][m] = member[m].role]
    BY <2>0
  <2>2. /\ m \in MemIds /\ RowExists(member[m]) /\ member[m] \in MemberRow
        /\ member[m].org = a.org /\ member[m].user = a.user /\ member[m].role \in Roles
    BY <1>0, <2>1 DEF MembershipOf, MembersOf, TypeOK, RowExists, MemberRow
  <2>3. a \in Arg /\ pc'[r] = FirstStep(a.op) /\ arg'[r] = a
    BY <1>0, <2>0 DEF Arg, Goto, TypeOK
  <2>4. FirstStep(a.op) \in {"org", "actor"} /\ (FirstStep(a.op) = "actor" => a \in MemberChangeArg)
        /\ (FirstStep(a.op) = "org" => a \in OrgLockArg)
    BY <2>3, ArgByOp, OpOfArg DEF FirstStep, MemberChangeArg, OrgLockArg, MemberRouteArg
  <2>5. Working(r) /\ UNCHANGED <<olock, mlock, ilock, todo, found>>
    BY <1>1 DEF BeginMemberRoute, locks
  <2>6. TypeOK'
    BY <1>0, <2>0, <2>1, <2>2, <2>3, <2>4, <2>5 DEF TypeOK, Working, tables, Goto, Steps
  <2>7. RequestInv(r)'
    <3>1. ArgOK(r)' /\ FreshSession(r)'
      BY <2>0, <2>3, <2>4 DEF ArgOK, FreshSession
    <3>2. OnlyOwnRowLoaded(r)'
      BY <1>0, <2>1, <2>2, <2>3, <2>5
         DEF OnlyOwnRowLoaded, NothingLoaded, TypeOK, Working, tables, RowExists
    <3>3. TargetHeld(r)' /\ FoundHeld(r)' /\ OwnershipChecked(r)' /\ InvitationHeld(r)'
      BY <1>0, <2>3, <2>4, <2>5 DEF TargetHeld, FoundHeld, OwnershipChecked, InvitationHeld
    <3>4. OrgHeld(r)'
      BY <2>3, <2>4, OpOfArg DEF OrgHeld, MemberChangeArg, OrgLockArg
    <3> QED BY <3>1, <3>2, <3>3, <3>4 DEF RequestInv
  <2>8. Private(r)
    BY <1>0, <2>0, <2>1, <2>5 DEF Private, TypeOK, Goto
  <2> QED BY <2>5, <2>6, <2>7, <2>8, WorkingStep
<1>2. CASE BeginCreateOrg(r)
  <2>0. PICK a \in CreateOrgArg : arg' = [arg EXCEPT ![r] = a]
    BY <1>2 DEF BeginCreateOrg
  <2>1. /\ a \in Arg /\ pc' = [pc EXCEPT ![r] = "check"] /\ Working(r)
        /\ UNCHANGED <<olock, mlock, ilock, view, todo, found>>
    BY <1>2, <2>0 DEF BeginCreateOrg, Arg, Goto, locks
  <2>2. TypeOK'
    BY <1>0, <2>0, <2>1 DEF TypeOK, Working, tables, Steps
  <2>3. pc'[r] = "check" /\ arg'[r] = a /\ found'[r] = {}
    BY <1>0, <2>0, <2>1 DEF TypeOK
  <2>4. a \notin OrgLockArg
    BY OpOfArg DEF OrgLockArg
  <2>5. RequestInv(r)'
    BY <2>1, <2>3, <2>4 DEF RequestInv, ArgOK, FreshSession, OnlyOwnRowLoaded, TargetHeld,
       FoundHeld, OwnershipChecked, OrgHeld, InvitationHeld
  <2>6. Private(r)
    BY <1>0, <2>0, <2>1 DEF Private, TypeOK
  <2> QED BY <2>1, <2>2, <2>5, <2>6, WorkingStep
<1>3. CASE BeginAccept(r)
  <2>0. PICK a \in AcceptArg : arg' = [arg EXCEPT ![r] = a]
    BY <1>3 DEF BeginAccept, AcceptArg
  <2>1. /\ a \in Arg /\ pc' = [pc EXCEPT ![r] = "invitation"] /\ Working(r)
        /\ UNCHANGED <<olock, mlock, ilock, view, todo, found>>
    BY <1>3, <2>0 DEF BeginAccept, Arg, Goto, locks
  <2>2. TypeOK'
    BY <1>0, <2>0, <2>1 DEF TypeOK, Working, tables, Steps
  <2>3. pc'[r] = "invitation" /\ arg'[r] = a /\ found'[r] = {}
    BY <1>0, <2>0, <2>1 DEF TypeOK
  <2>4. RequestInv(r)'
    BY <2>0, <2>1, <2>3 DEF RequestInv, ArgOK, FreshSession, OnlyOwnRowLoaded, TargetHeld,
       FoundHeld, OwnershipChecked, OrgHeld, InvitationHeld
  <2>5. Private(r)
    BY <1>0, <2>0, <2>1 DEF Private, TypeOK
  <2> QED BY <2>1, <2>2, <2>4, <2>5, WorkingStep
<1> QED BY <1>1, <1>2, <1>3 DEF Begin

\* Rows of committed tables have the fields their queries read.
LEMMA MemberFields ==
  ASSUME TypeOK, NEW m \in MemIds, RowExists(member[m])
  PROVE /\ member[m] \in MemberRow
        /\ member[m].org \in Orgs /\ member[m].user \in Users /\ member[m].role \in Roles
BY DEF TypeOK, RowExists, MemberRow

LEMMA InviteFields ==
  ASSUME TypeOK, NEW i \in InvIds, RowExists(invite[i])
  PROVE /\ invite[i] \in InviteRow
        /\ invite[i].org \in Orgs /\ invite[i].email \in Users /\ invite[i].role \in Roles
BY DEF TypeOK, RowExists, InviteRow

\* What the session sees of a row is a role.
LEMMA SeenIsRole ==
  ASSUME TypeOK, NEW r \in Requests, NEW m \in MemIds, RowExists(member[m])
  PROVE /\ SeenRole(r, m) \in Roles
        /\ Loaded(r, m) \in [Requests -> [MemIds -> Roles \cup {NoRole}]]
        /\ \A q \in Requests, n \in MemIds :
             Loaded(r, m)[q][n] = IF q = r /\ n = m THEN SeenRole(r, m) ELSE view[q][n]
BY MemberFields DEF TypeOK, SeenRole, Loaded

LEMMA LockOrgStep ==
  ASSUME TenancyInv, NEW r \in Requests, LockOrg(r)
  PROVE TenancyInv'
<1>1. CASE Rollback(r)
  BY <1>1, RollbackStep
<1>2. CASE ~Rollback(r)
  <2>0. TypeOK /\ RequestInv(r) /\ pc[r] = "org" /\ arg[r] \in OrgLockArg /\ arg[r].org \in Orgs
    BY OpOfArg DEF TenancyInv, RequestInv, ArgOK, LockOrg, OrgLockArg
  <2>1. /\ OrgSelected(r) /\ Available(olock, arg[r].org, r)
        /\ olock' = [olock EXCEPT ![arg[r].org] = r]
        /\ pc' = [pc EXCEPT ![r] = "actor"]
        /\ Working(r) /\ UNCHANGED <<mlock, ilock, arg, view, todo, found>>
    BY <1>2 DEF LockOrg, Goto
  <2>2. TypeOK'
    BY <2>0, <2>1 DEF TypeOK, Working, tables, Steps
  <2>3. pc'[r] = "actor" /\ olock'[arg[r].org] = r /\ UNCHANGED <<org, member, invite>>
    BY <2>0, <2>1 DEF TypeOK, Working, tables
  <2>4. RequestInv(r)'
    <3>1. ArgOK(r)' /\ FreshSession(r)' /\ TargetHeld(r)' /\ OwnershipChecked(r)' /\ InvitationHeld(r)'
      BY <2>0, <2>1, <2>3 DEF RequestInv, ArgOK, FreshSession, TargetHeld, OwnershipChecked,
         InvitationHeld, MemberRouteArg, OrgLockArg
    <3>2. OnlyOwnRowLoaded(r)'
      BY <2>0, <2>1, <2>3 DEF RequestInv, OnlyOwnRowLoaded
    <3>3. FoundHeld(r)'
      BY <2>0, <2>1, <2>3 DEF RequestInv, FoundHeld, StillOwner, OwnersOf, MembersOf
    <3>4. OrgHeld(r)'
      BY <2>1, <2>3 DEF OrgHeld, OrgSelected
    <3> QED BY <3>1, <3>2, <3>3, <3>4 DEF RequestInv
  <2>5. Private(r)
    BY <2>0, <2>1, NoReqAssumption DEF Private, TypeOK, Available
  <2> QED BY <2>1, <2>2, <2>4, <2>5, WorkingStep
<1> QED BY <1>1, <1>2

LEMMA LockActorStep ==
  ASSUME TenancyInv, NEW r \in Requests, LockActor(r)
  PROVE TenancyInv'
<1>1. CASE Rollback(r)
  BY <1>1, RollbackStep
<1>2. CASE ~Rollback(r)
  <2>0. TypeOK /\ RequestInv(r) /\ pc[r] = "actor" /\ arg[r] \in MemberRouteArg /\ arg[r] \in Arg
    BY DEF TenancyInv, RequestInv, ArgOK, LockActor
  <2>1. PICK m \in ActorRows(r, ActorRoles(arg[r].op)) :
          /\ Available(mlock, m, r)
          /\ mlock' = [mlock EXCEPT ![m] = r]
          /\ view' = Loaded(r, m)
          /\ Goto(r, AfterActor(arg[r].op))
          /\ Working(r) /\ UNCHANGED <<olock, ilock, arg, todo, found>>
    BY <1>2 DEF LockActor
  <2>2. /\ m \in MemIds /\ RowExists(member[m])
        /\ member[m].org = arg[r].org /\ member[m].user = arg[r].user
    BY <2>1 DEF ActorRows, MembershipOf, MembersOf
  <2>3. \/ AfterActor(arg[r].op) = "target" /\ arg[r] \in MemberChangeArg
        \/ AfterActor(arg[r].op) = "check" /\ arg[r] \in InviteArg
        \/ AfterActor(arg[r].op) = "cascade" /\ arg[r] \in DeleteOrgArg
        \/ AfterActor(arg[r].op) = "write" /\ arg[r] \in UpdateOrgArg
    BY <2>0, ArgByOp, OpOfArg DEF AfterActor, MemberRouteArg, MemberChangeArg
  <2>4. TypeOK'
    BY <2>0, <2>1, <2>2, <2>3, SeenIsRole DEF TypeOK, Working, tables, Goto, Steps
  <2>5. /\ pc'[r] = AfterActor(arg[r].op) /\ arg'[r] = arg[r]
        /\ UNCHANGED <<org, member, invite, olock, ilock, found>>
        /\ mlock'[m] = r /\ \A n \in MemIds : mlock[n] = r => mlock'[n] = r
        /\ \A n \in MemIds : view'[r][n] = IF n = m THEN SeenRole(r, m) ELSE view[r][n]
    BY <2>0, <2>1, <2>2, SeenIsRole DEF TypeOK, Working, tables, Goto
  <2>6. RequestInv(r)'
    <3>1. ArgOK(r)' /\ FreshSession(r)'
      BY <2>0, <2>3, <2>5, OpOfArg DEF ArgOK, FreshSession, MemberRouteArg
    <3>2. OnlyOwnRowLoaded(r)'
      BY <2>0, <2>2, <2>5 DEF RequestInv, OnlyOwnRowLoaded, RowExists
    <3>3. TargetHeld(r)' /\ OwnershipChecked(r)' /\ InvitationHeld(r)'
      BY <2>3, <2>5, OpOfArg DEF TargetHeld, OwnershipChecked, InvitationHeld, MemberChangeArg
    <3>4. FoundHeld(r)'
      <4>1. found[r] \subseteq MemIds
        BY <2>0 DEF TypeOK
      <4> QED BY <2>0, <2>5, <4>1 DEF RequestInv, FoundHeld, StillOwner, OwnersOf, MembersOf
    <3>5. OrgHeld(r)'
      BY <2>0, <2>3, <2>5 DEF RequestInv, OrgHeld
    <3> QED BY <3>1, <3>2, <3>3, <3>4, <3>5 DEF RequestInv
  <2>7. Private(r)
    BY <2>0, <2>1, <2>2, NoReqAssumption DEF Private, TypeOK, Available, Loaded, Goto
  <2> QED BY <2>1, <2>4, <2>6, <2>7, WorkingStep
<1> QED BY <1>1, <1>2

\* The step that decides what the session believes of its target.  A stale
\* object can only be the caller's own row, and a caller who changes his own
\* row is taken for an owner: so an owner is never mistaken for less.
LEMMA LockTargetStep ==
  ASSUME TenancyInv, NEW r \in Requests, LockTarget(r)
  PROVE TenancyInv'
<1>1. CASE Rollback(r)
  BY <1>1, RollbackStep
<1>2. CASE ~Rollback(r)
  <2> DEFINE t == arg[r].target
  <2>0. /\ TypeOK /\ UniqueRows /\ RequestInv(r) /\ pc[r] = "target"
        /\ arg[r] \in MemberChangeArg /\ arg[r] \in Arg /\ t \in MemIds
    BY OpOfArg DEF TenancyInv, RequestInv, ArgOK, LockTarget, MemberChangeArg
  <2>1. PICK actor \in ActorRows(r, Roles) :
          /\ TargetSelected(r) /\ Available(mlock, t, r)
          /\ ChangeAllowed(arg[r], SeenRole(r, actor), SeenRole(r, t))
          /\ mlock' = [mlock EXCEPT ![t] = r]
          /\ view' = Loaded(r, t)
          /\ Goto(r, IF TakesOwnership(arg[r], SeenRole(r, t)) THEN "scan" ELSE "write")
          /\ Working(r) /\ UNCHANGED <<olock, ilock, arg, todo, found>>
    BY <1>2 DEF LockTarget
  <2>2. /\ actor \in MemIds /\ RowExists(member[actor]) /\ RowExists(member[t])
        /\ member[actor].org = arg[r].org /\ member[actor].user = arg[r].user
        /\ member[t].org = arg[r].org
    BY <2>1 DEF ActorRows, MembershipOf, MembersOf, TargetSelected
  <2>3. member[t].role = "OWNER" => SeenRole(r, t) = "OWNER"
    <3>1. CASE view[r][t] = NoRole
      BY <3>1 DEF SeenRole
    <3>2. CASE view[r][t] # NoRole
      <4>1. t = actor
        BY <2>0, <2>2, <3>2 DEF RequestInv, OnlyOwnRowLoaded, UniqueRows, UniqueMembership
      <4> QED BY <2>1, <4>1 DEF ChangeAllowed
    <3> QED BY <3>1, <3>2
  <2>4. TypeOK'
    BY <2>0, <2>1, <2>2, SeenIsRole DEF TypeOK, Working, tables, Goto, Steps
  <2>5. /\ pc'[r] = (IF TakesOwnership(arg[r], SeenRole(r, t)) THEN "scan" ELSE "write")
        /\ arg'[r] = arg[r] /\ UNCHANGED <<org, member, invite, olock, ilock, found>>
        /\ mlock'[t] = r /\ \A n \in MemIds : mlock[n] = r => mlock'[n] = r
        /\ view'[r][t] = SeenRole(r, t)
    BY <2>0, <2>1, <2>2, SeenIsRole DEF TypeOK, Working, tables, Goto
  <2>6. RequestInv(r)'
    <3>1. ArgOK(r)' /\ FreshSession(r)' /\ OnlyOwnRowLoaded(r)'
      BY <2>0, <2>5, OpOfArg DEF ArgOK, FreshSession, OnlyOwnRowLoaded, MemberChangeArg
    <3>2. TargetHeld(r)'
      BY <2>1, <2>3, <2>5 DEF TargetHeld, TargetSelected, MembersOf
    <3>3. FoundHeld(r)'
      <4>1. found[r] \subseteq MemIds
        BY <2>0 DEF TypeOK
      <4> QED BY <2>0, <2>5, <4>1 DEF RequestInv, FoundHeld, StillOwner, OwnersOf, MembersOf
    <3>4. OwnershipChecked(r)'
      BY <2>5 DEF OwnershipChecked, TakesOwnership
    <3>5. OrgHeld(r)' /\ InvitationHeld(r)'
      BY <2>0, <2>5, OpOfArg DEF OrgHeld, InvitationHeld, MemberChangeArg, OrgLockArg
    <3> QED BY <3>1, <3>2, <3>3, <3>4, <3>5 DEF RequestInv
  <2>7. Private(r)
    BY <2>0, <2>1, NoReqAssumption DEF Private, TypeOK, Available, Loaded, Goto
  <2> QED BY <2>1, <2>4, <2>6, <2>7, WorkingStep
<1> QED BY <1>1, <1>2

LEMMA ScanOwnersStep ==
  ASSUME TenancyInv, NEW r \in Requests, ScanOwners(r)
  PROVE TenancyInv'
<1>0. /\ TypeOK /\ RequestInv(r) /\ pc[r] = "scan" /\ arg[r] \in MemberChangeArg
      /\ todo' = [todo EXCEPT ![r] = OwnersOf(arg[r].org)]
      /\ pc' = [pc EXCEPT ![r] = "owners"]
      /\ Working(r) /\ UNCHANGED <<olock, mlock, ilock, arg, view, found>>
      /\ UNCHANGED <<org, member, invite>>
  BY DEF TenancyInv, RequestInv, ArgOK, ScanOwners, Goto, locks, Working, tables
<1>1. OwnersOf(arg[r].org) \subseteq MemIds
  BY DEF OwnersOf, MembersOf
<1>2. TypeOK'
  BY <1>0, <1>1 DEF TypeOK, Working, tables, Steps
<1>3. pc'[r] = "owners"
  BY <1>0 DEF TypeOK
<1>4. RequestInv(r)'
  <2>1. ArgOK(r)' /\ FreshSession(r)' /\ OnlyOwnRowLoaded(r)' /\ OwnershipChecked(r)'
        /\ OrgHeld(r)' /\ InvitationHeld(r)'
    BY <1>0, <1>3 DEF RequestInv, ArgOK, FreshSession, OnlyOwnRowLoaded, OwnershipChecked,
       OrgHeld, InvitationHeld
  <2>2. TargetHeld(r)' /\ FoundHeld(r)'
    BY <1>0, <1>3 DEF RequestInv, TargetHeld, FoundHeld, TargetSelected, StillOwner, OwnersOf, MembersOf
  <2> QED BY <2>1, <2>2 DEF RequestInv
<1>5. Private(r)
  BY <1>0 DEF Private, TypeOK
<1> QED BY <1>0, <1>2, <1>4, <1>5, WorkingStep

LEMMA LockOwnerStep ==
  ASSUME TenancyInv, NEW r \in Requests, LockOwner(r)
  PROVE TenancyInv'
<1>0. /\ TypeOK /\ RequestInv(r) /\ pc[r] = "owners" /\ arg[r] \in MemberChangeArg
      /\ Working(r) /\ UNCHANGED <<olock, ilock, pc, arg, view>>
      /\ UNCHANGED <<org, member, invite>>
  BY DEF TenancyInv, RequestInv, ArgOK, LockOwner, Working, tables
<1>1. PICK m \in todo[r] :
        /\ Available(mlock, m, r)
        /\ mlock' = IF RowExists(member[m]) THEN [mlock EXCEPT ![m] = r] ELSE mlock
        /\ found' = IF StillOwner(r, m) THEN [found EXCEPT ![r] = @ \cup {m}] ELSE found
        /\ todo' = [todo EXCEPT ![r] = @ \ {m}]
  BY DEF LockOwner
<1>2. m \in MemIds
  BY <1>0, <1>1 DEF TypeOK
<1>3. TypeOK'
  BY <1>0, <1>1, <1>2 DEF TypeOK, Working, tables
<1>4. /\ \A n \in MemIds : mlock[n] = r => mlock'[n] = r
      /\ RowExists(member[m]) => mlock'[m] = r
      /\ found'[r] \subseteq found[r] \cup {m}
      /\ m \in found'[r] => m \in found[r] \/ StillOwner(r, m)
  BY <1>0, <1>1, <1>2 DEF TypeOK
<1>5. RequestInv(r)'
  <2>1. ArgOK(r)' /\ FreshSession(r)' /\ OnlyOwnRowLoaded(r)' /\ OwnershipChecked(r)'
        /\ OrgHeld(r)' /\ InvitationHeld(r)'
    BY <1>0 DEF RequestInv, ArgOK, FreshSession, OnlyOwnRowLoaded, OwnershipChecked,
       OrgHeld, InvitationHeld
  <2>2. TargetHeld(r)'
    <3>1. arg[r].target \in MemIds
      BY <1>0, OpOfArg DEF MemberChangeArg
    <3> QED BY <1>0, <1>4, <3>1 DEF RequestInv, TargetHeld, TargetSelected, MembersOf
  <2>3. FoundHeld(r)'
    <3>1. found[r] \subseteq MemIds
      BY <1>0 DEF TypeOK
    <3> QED BY <1>0, <1>2, <1>4, <3>1 DEF RequestInv, FoundHeld, StillOwner, OwnersOf, MembersOf
  <2> QED BY <2>1, <2>2, <2>3 DEF RequestInv
<1>6. Private(r)
  BY <1>0, <1>1, <1>2, NoReqAssumption DEF Private, TypeOK, Available
<1> QED BY <1>0, <1>3, <1>5, <1>6, WorkingStep

LEMMA EnsureAnotherOwnerStep ==
  ASSUME TenancyInv, NEW r \in Requests, EnsureAnotherOwner(r)
  PROVE TenancyInv'
<1>1. CASE Rollback(r)
  BY <1>1, RollbackStep
<1>2. CASE ~Rollback(r)
  <2>0. /\ TypeOK /\ RequestInv(r) /\ pc[r] = "owners" /\ arg[r] \in MemberChangeArg
        /\ AnotherOwner(r) /\ pc' = [pc EXCEPT ![r] = "write"] /\ Working(r)
        /\ UNCHANGED <<olock, mlock, ilock, arg, view, todo, found>>
        /\ UNCHANGED <<org, member, invite>>
    BY <1>2 DEF TenancyInv, RequestInv, ArgOK, EnsureAnotherOwner, Goto, locks, Working, tables
  <2>1. TypeOK'
    BY <2>0 DEF TypeOK, Working, tables, Steps
  <2>2. pc'[r] = "write"
    BY <2>0 DEF TypeOK
  <2>3. RequestInv(r)'
    <3>1. ArgOK(r)' /\ FreshSession(r)' /\ OnlyOwnRowLoaded(r)' /\ OrgHeld(r)' /\ InvitationHeld(r)'
      BY <2>0, <2>2, OpOfArg DEF RequestInv, ArgOK, FreshSession, OnlyOwnRowLoaded,
         OrgHeld, InvitationHeld, MemberChangeArg, OrgLockArg
    <3>2. TargetHeld(r)' /\ FoundHeld(r)'
      BY <2>0, <2>2 DEF RequestInv, TargetHeld, FoundHeld, TargetSelected, StillOwner, OwnersOf, MembersOf
    <3>3. OwnershipChecked(r)'
      BY <2>0 DEF OwnershipChecked, AnotherOwner
    <3> QED BY <3>1, <3>2, <3>3 DEF RequestInv
  <2>4. Private(r)
    BY <2>0 DEF Private, TypeOK
  <2> QED BY <2>0, <2>1, <2>3, <2>4, WorkingStep
<1> QED BY <1>1, <1>2

LEMMA CascadeStep ==
  ASSUME TenancyInv, NEW r \in Requests, Cascade(r)
  PROVE TenancyInv'
<1>0. /\ TypeOK /\ RequestInv(r) /\ pc[r] = "cascade" /\ arg[r] \in DeleteOrgArg
      /\ Working(r) /\ UNCHANGED <<olock, pc, arg, view, todo, found>>
      /\ UNCHANGED <<org, member, invite>>
  BY DEF TenancyInv, RequestInv, ArgOK, Cascade, Working, tables
<1>1. /\ mlock' \in [MemIds -> Requests \cup {NoReq}]
      /\ ilock' \in [InvIds -> Requests \cup {NoReq}]
      /\ \A m \in MemIds : mlock[m] # NoReq => mlock'[m] = mlock[m]
      /\ \A i \in InvIds : ilock[i] # NoReq => ilock'[i] = ilock[i]
  <2>1. CASE \E m \in UncascadedMembers(r) :
               Available(mlock, m, r) /\ mlock' = [mlock EXCEPT ![m] = r] /\ UNCHANGED ilock
    BY <1>0, <2>1 DEF TypeOK, UncascadedMembers, MembersOf, Available
  <2>2. CASE \E i \in UncascadedInvites(r) :
               Available(ilock, i, r) /\ ilock' = [ilock EXCEPT ![i] = r] /\ UNCHANGED mlock
    BY <1>0, <2>2 DEF TypeOK, UncascadedInvites, InvitesOf, Available
  <2> QED BY <2>1, <2>2 DEF Cascade
<1>2. TypeOK'
  BY <1>0, <1>1 DEF TypeOK, Working, tables
<1>3. RequestInv(r)'
  <2>1. /\ ArgOK(r)' /\ FreshSession(r)' /\ OnlyOwnRowLoaded(r)' /\ TargetHeld(r)'
        /\ OwnershipChecked(r)' /\ OrgHeld(r)' /\ InvitationHeld(r)'
    BY <1>0 DEF RequestInv, ArgOK, FreshSession, OnlyOwnRowLoaded, TargetHeld, OwnershipChecked,
       OrgHeld, InvitationHeld
  <2>2. FoundHeld(r)'
    <3>1. found[r] \subseteq MemIds
      BY <1>0 DEF TypeOK
    <3> QED BY <1>0, <1>1, <3>1, NoReqAssumption
            DEF RequestInv, FoundHeld, StillOwner, OwnersOf, MembersOf
  <2> QED BY <2>1, <2>2 DEF RequestInv
<1>4. Private(r)
  BY <1>0, <1>1, NoReqAssumption DEF Private
<1> QED BY <1>0, <1>2, <1>3, <1>4, WorkingStep

LEMMA LockInvitationStep ==
  ASSUME TenancyInv, NEW r \in Requests, LockInvitation(r)
  PROVE TenancyInv'
<1>1. CASE Rollback(r)
  BY <1>1, RollbackStep
<1>2. CASE ~Rollback(r)
  <2>0. /\ TypeOK /\ RequestInv(r) /\ pc[r] = "invitation" /\ arg[r] \in AcceptArg
        /\ arg[r] \in Arg /\ arg[r].invite \in InvIds
    BY OpOfArg DEF TenancyInv, RequestInv, ArgOK, LockInvitation
  <2>1. /\ RowExists(invite[arg[r].invite]) /\ Available(ilock, arg[r].invite, r)
        /\ ilock' = [ilock EXCEPT ![arg[r].invite] = r] /\ pc' = [pc EXCEPT ![r] = "write"]
        /\ Working(r) /\ UNCHANGED <<olock, mlock, arg, view, todo, found>>
        /\ UNCHANGED <<org, member, invite>>
    BY <1>2 DEF LockInvitation, Goto, Working, tables
  <2>2. TypeOK'
    BY <2>0, <2>1 DEF TypeOK, Working, tables, Steps
  <2>3. pc'[r] = "write" /\ ilock'[arg[r].invite] = r
    BY <2>0, <2>1 DEF TypeOK
  <2>4. RequestInv(r)'
    <3>1. ArgOK(r)' /\ FreshSession(r)' /\ OnlyOwnRowLoaded(r)' /\ InvitationHeld(r)'
      BY <2>0, <2>1, <2>3, OpOfArg DEF ArgOK, FreshSession, OnlyOwnRowLoaded, InvitationHeld
    <3>2. TargetHeld(r)' /\ OwnershipChecked(r)' /\ OrgHeld(r)'
      BY <2>0, <2>1, OpOfArg DEF TargetHeld, OwnershipChecked, OrgHeld, MemberChangeArg, OrgLockArg
    <3>3. FoundHeld(r)'
      BY <2>0, <2>1 DEF RequestInv, FoundHeld, StillOwner, OwnersOf, MembersOf
    <3> QED BY <3>1, <3>2, <3>3 DEF RequestInv
  <2>5. Private(r)
    BY <2>0, <2>1, NoReqAssumption DEF Private, TypeOK, Available
  <2> QED BY <2>1, <2>2, <2>4, <2>5, WorkingStep
<1> QED BY <1>1, <1>2

\* The lookups before create_organization's and create_invitation's inserts.
LEMMA CheckStep ==
  ASSUME TenancyInv, NEW r \in Requests, CheckSlug(r) \/ CheckInvitation(r)
  PROVE TenancyInv'
<1>1. CASE Rollback(r)
  BY <1>1, RollbackStep
<1>2. CASE ~Rollback(r)
  <2>0. /\ TypeOK /\ RequestInv(r) /\ pc[r] = "check" /\ arg[r] \in InviteArg \cup CreateOrgArg
        /\ pc' = [pc EXCEPT ![r] = "write"] /\ Working(r)
        /\ UNCHANGED <<olock, mlock, ilock, arg, view, todo, found>>
        /\ UNCHANGED <<org, member, invite>>
    BY <1>2 DEF TenancyInv, RequestInv, ArgOK, CheckSlug, CheckInvitation, Goto, locks, Working, tables
  <2>1. TypeOK'
    BY <2>0 DEF TypeOK, Working, tables, Steps
  <2>2. pc'[r] = "write"
    BY <2>0 DEF TypeOK
  <2>3. RequestInv(r)'
    <3>1. ArgOK(r)' /\ FreshSession(r)' /\ OnlyOwnRowLoaded(r)'
      BY <2>0, <2>2, OpOfArg DEF RequestInv, ArgOK, FreshSession, OnlyOwnRowLoaded
    <3>2. TargetHeld(r)' /\ OwnershipChecked(r)' /\ InvitationHeld(r)'
      BY <2>0, OpOfArg DEF TargetHeld, OwnershipChecked, InvitationHeld, MemberChangeArg
    <3>3. FoundHeld(r)' /\ OrgHeld(r)'
      BY <2>0, <2>2 DEF RequestInv, FoundHeld, OrgHeld, StillOwner, OwnersOf, MembersOf
    <3> QED BY <3>1, <3>2, <3>3 DEF RequestInv
  <2>4. Private(r)
    BY <2>0 DEF Private, TypeOK
  <2> QED BY <2>0, <2>1, <2>3, <2>4, WorkingStep
<1> QED BY <1>1, <1>2

LEMMA EnqueueEmailStep ==
  ASSUME TenancyInv, NEW r \in Requests, EnqueueEmail(r)
  PROVE TenancyInv'
<1>0. /\ TypeOK /\ End(r) /\ Goto(r, "idle") /\ UNCHANGED <<org, member, invite>>
      /\ arg' = [arg EXCEPT ![r] = NoArg] /\ arg[r].invite \in InvIds
  BY OpOfArg DEF TenancyInv, RequestInv, ArgOK, EnqueueEmail, tables
<1>1. TypeOK'
  BY <1>0, EndType DEF TypeOK, EnqueueEmail, Goto, Steps
<1>2. (UniqueRows /\ NoOrphans /\ LastOwner)'
  BY <1>0 DEF TenancyInv, UniqueRows, UniqueMembership, NoOrphans, LastOwner, OwnersOf, MembersOf
<1>3. ASSUME NEW q \in Requests \ {r} PROVE RequestInv(q)'
  <2>1. Unseen(q)
    BY <1>0, EndFrame DEF Unseen, Goto, TypeOK
  <2> QED BY <2>1, NonInterference
<1>4. RequestInv(r)'
  BY <1>0, IdleRequest
<1> QED BY <1>1, <1>2, <1>3, <1>4 DEF TenancyInv

-----------------------------------------------------------------------------
(* Writes. *)

\* A commit of r: only the tables are left to check.
LEMMA CommitStep ==
  ASSUME TenancyInv, NEW r \in Requests, End(r), Goto(r, "idle"),
         arg' = [arg EXCEPT ![r] = NoArg], UNCHANGED mail,
         org' \in [Orgs -> Slugs \cup {Free, Gone}],
         member' \in [MemIds -> MemberRow \cup {Free, Gone}],
         invite' \in [InvIds -> InviteRow \cup {Free, Gone}],
         audited' \subseteq AuditRow,
         UniqueRows', NoOrphans', LastOwner',
         \A o \in Orgs : RowExists(org[o]) /\ olock[o] # r => RowExists(org'[o]),
         \A i \in InvIds : RowExists(invite[i]) /\ ilock[i] # r => RowExists(invite'[i]),
         \A m \in MemIds : RowExists(member[m]) /\ mlock[m] # r => member'[m] = member[m],
         \A m \in MemIds : member[m] # Free =>
            /\ member'[m] # Free
            /\ RowExists(member'[m]) =>
                 /\ RowExists(member[m])
                 /\ member'[m].org = member[m].org /\ member'[m].user = member[m].user
  PROVE TenancyInv'
<1>0. TypeOK
  BY DEF TenancyInv
<1>1. TypeOK'
  BY <1>0, EndType DEF TypeOK, Goto, Steps
<1>2. ASSUME NEW q \in Requests \ {r} PROVE RequestInv(q)'
  <2>1. pc'[q] = pc[q] /\ arg'[q] = arg[q]
    BY <1>0 DEF TypeOK, Goto
  <2>2. Unseen(q)
    BY <1>0, <2>1, EndFrame DEF Unseen
  <2> QED BY <2>2, NonInterference
<1>3. RequestInv(r)'
  BY <1>0, IdleRequest
<1> QED BY <1>1, <1>2, <1>3 DEF TenancyInv

\* A membership change that takes an owner away leaves the one it has found.
LEMMA WriteRoleStep ==
  ASSUME TenancyInv, NEW r \in Requests, WriteRole(r)
  PROVE TenancyInv'
<1> DEFINE t == arg[r].target
<1>0. /\ TypeOK /\ UniqueRows /\ NoOrphans /\ LastOwner /\ RequestInv(r)
      /\ pc[r] = "write" /\ arg[r] \in UpdateMemberArg /\ arg[r] \in MemberChangeArg
      /\ arg[r].op = "update_member" /\ t \in MemIds /\ arg[r].role \in Roles
      /\ arg[r].org \in Orgs /\ arg[r].user \in Users
  BY ArgByOp, OpOfArg DEF TenancyInv, RequestInv, ArgOK, WriteRole, MemberChangeArg
<1>1. /\ mlock[t] = r /\ RowExists(member[t]) /\ member[t] \in MemberRow
      /\ member[t].org = arg[r].org
      /\ member[t].role = "OWNER" => view[r][t] = "OWNER"
  BY <1>0, MemberFields DEF RequestInv, TargetHeld, TargetSelected, MembersOf
<1>2. /\ UNCHANGED <<org, invite, mail>> /\ End(r) /\ Goto(r, "idle")
      /\ arg' = [arg EXCEPT ![r] = NoArg]
      /\ audited' = {Entry(arg[r].org, arg[r].user, "member.role_changed")}
  BY DEF WriteRole, Commit
<1>3. \/ member' = member
      \/ /\ view[r][t] # arg[r].role
         /\ member' = [member EXCEPT ![t] = [member[t] EXCEPT !.role = arg[r].role]]
  BY <1>0, <1>1 DEF WriteRole, TypeOK, MemberRow
<1>4. /\ member' \in [MemIds -> MemberRow \cup {Free, Gone}]
      /\ \A m \in MemIds : m # t => member'[m] = member[m]
      /\ RowExists(member'[t]) /\ member'[t].org = member[t].org /\ member'[t].user = member[t].user
      /\ member'[t] = member[t] \/ (view[r][t] # arg[r].role /\ member'[t].role = arg[r].role)
  <2> DEFINE row == [member[t] EXCEPT !.role = arg[r].role]
  <2>1. /\ row \in MemberRow /\ row.org = member[t].org /\ row.user = member[t].user
        /\ row.role = arg[r].role
    BY <1>0, <1>1 DEF MemberRow
  <2>2. RowExists(row)
    BY <2>1, KeyAssumption DEF RowExists
  <2> HIDE DEF row
  <2> QED BY <1>0, <1>1, <1>3, <2>1, <2>2 DEF TypeOK, row
<1>5. UniqueRows' /\ NoOrphans'
  BY <1>0, <1>1, <1>2, <1>4 DEF UniqueRows, UniqueMembership, NoOrphans
<1>6. LastOwner'
  <2>1. SUFFICES ASSUME NEW o \in Orgs, RowExists(org[o])
                 PROVE OwnersOf(o)' # {}
    BY <1>2 DEF LastOwner
  <2>2. PICK m \in MemIds : RowExists(member[m]) /\ member[m].org = o /\ member[m].role = "OWNER"
    BY <1>0, <2>1 DEF LastOwner, OwnersOf, MembersOf
  <2>3. CASE m # t \/ member'[t] = member[t]
    BY <1>4, <2>2, <2>3 DEF OwnersOf, MembersOf
  <2>4. CASE m = t /\ member'[t] # member[t]
    <3>1. view[r][t] = "OWNER" /\ arg[r].role # "OWNER" /\ o = arg[r].org
      BY <1>1, <1>4, <2>2, <2>4
    <3>2. PICK n \in found[r] : n # t
      BY <1>0, <3>1 DEF RequestInv, OwnershipChecked, TakesOwnership, AnotherOwner
    <3>3. n \in MemIds /\ RowExists(member[n]) /\ member[n].org = o /\ member[n].role = "OWNER"
      BY <1>0, <3>1, <3>2 DEF RequestInv, FoundHeld, StillOwner, OwnersOf, MembersOf
    <3> QED BY <1>4, <3>2, <3>3 DEF OwnersOf, MembersOf
  <2> QED BY <2>3, <2>4
<1>7. audited' \subseteq AuditRow
  BY <1>0, <1>2 DEF Entry, AuditRow
<1>8. \A m \in MemIds :
        /\ mlock[m] # r => member'[m] = member[m]
        /\ member[m] # Free =>
            /\ member'[m] # Free
            /\ RowExists(member'[m]) =>
                 /\ RowExists(member[m])
                 /\ member'[m].org = member[m].org /\ member'[m].user = member[m].user
  BY <1>1, <1>4 DEF RowExists
<1> QED BY <1>0, <1>2, <1>4, <1>5, <1>6, <1>7, <1>8, CommitStep DEF TypeOK

LEMMA WriteRemovalStep ==
  ASSUME TenancyInv, NEW r \in Requests, WriteRemoval(r)
  PROVE TenancyInv'
<1> DEFINE t == arg[r].target
<1>0. /\ TypeOK /\ UniqueRows /\ NoOrphans /\ LastOwner /\ RequestInv(r)
      /\ pc[r] = "write" /\ arg[r] \in RemoveMemberArg /\ arg[r] \in MemberChangeArg
      /\ arg[r].op = "remove_member" /\ t \in MemIds
      /\ arg[r].org \in Orgs /\ arg[r].user \in Users
  BY ArgByOp, OpOfArg DEF TenancyInv, RequestInv, ArgOK, WriteRemoval, MemberChangeArg
<1>1. /\ mlock[t] = r /\ RowExists(member[t])
      /\ member[t].org = arg[r].org
      /\ member[t].role = "OWNER" => view[r][t] = "OWNER"
  BY <1>0 DEF RequestInv, TargetHeld, TargetSelected, MembersOf
<1>2. /\ UNCHANGED <<org, invite, mail>> /\ End(r) /\ Goto(r, "idle")
      /\ arg' = [arg EXCEPT ![r] = NoArg]
      /\ audited' = {Entry(arg[r].org, arg[r].user, "member.removed")}
  BY DEF WriteRemoval, Commit
<1>3. /\ member' \in [MemIds -> MemberRow \cup {Free, Gone}]
      /\ \A m \in MemIds : m # t => member'[m] = member[m]
      /\ ~RowExists(member'[t]) /\ member'[t] # Free
  BY <1>0, KeyAssumption DEF WriteRemoval, TypeOK, RowExists
<1>4. UniqueRows' /\ NoOrphans'
  BY <1>0, <1>2, <1>3 DEF UniqueRows, UniqueMembership, NoOrphans
<1>5. LastOwner'
  <2>1. SUFFICES ASSUME NEW o \in Orgs, RowExists(org[o])
                 PROVE OwnersOf(o)' # {}
    BY <1>2 DEF LastOwner
  <2>2. PICK m \in MemIds : RowExists(member[m]) /\ member[m].org = o /\ member[m].role = "OWNER"
    BY <1>0, <2>1 DEF LastOwner, OwnersOf, MembersOf
  <2>3. CASE m # t
    BY <1>3, <2>2, <2>3 DEF OwnersOf, MembersOf
  <2>4. CASE m = t
    <3>1. view[r][t] = "OWNER" /\ o = arg[r].org
      BY <1>1, <2>2, <2>4
    <3>2. PICK n \in found[r] : n # t
      BY <1>0, <3>1 DEF RequestInv, OwnershipChecked, TakesOwnership, AnotherOwner
    <3>3. n \in MemIds /\ RowExists(member[n]) /\ member[n].org = o /\ member[n].role = "OWNER"
      BY <1>0, <3>1, <3>2 DEF RequestInv, FoundHeld, StillOwner, OwnersOf, MembersOf
    <3> QED BY <1>3, <3>2, <3>3 DEF OwnersOf, MembersOf
  <2> QED BY <2>3, <2>4
<1>6. audited' \subseteq AuditRow
  BY <1>0, <1>2 DEF Entry, AuditRow
<1> QED BY <1>0, <1>1, <1>2, <1>3, <1>4, <1>5, <1>6, CommitStep DEF TypeOK

LEMMA WriteSlugStep ==
  ASSUME TenancyInv, NEW r \in Requests, WriteSlug(r)
  PROVE TenancyInv'
<1>1. CASE Rollback(r)
  BY <1>1, RollbackStep
<1>2. CASE ~Rollback(r)
  <2>0. /\ TypeOK /\ UniqueRows /\ NoOrphans /\ LastOwner /\ RequestInv(r)
        /\ pc[r] = "write" /\ arg[r] \in UpdateOrgArg /\ arg[r] \in OrgLockArg
        /\ arg[r].org \in Orgs /\ arg[r].user \in Users /\ arg[r].slug \in Slugs
    BY ArgByOp, OpOfArg DEF TenancyInv, RequestInv, ArgOK, WriteSlug, OrgLockArg
  <2>1. /\ org' = [org EXCEPT ![arg[r].org] = arg[r].slug] /\ ~SlugTaken(arg[r].slug, arg[r].org)
        /\ UNCHANGED <<member, invite, mail>> /\ End(r) /\ Goto(r, "idle")
        /\ arg' = [arg EXCEPT ![r] = NoArg]
        /\ audited' = {Entry(arg[r].org, arg[r].user, "organization.updated")}
    BY <1>2 DEF WriteSlug, Commit
  <2>2. RowExists(org[arg[r].org])
    BY <2>0 DEF RequestInv, OrgHeld
  <2>3. /\ org' \in [Orgs -> Slugs \cup {Free, Gone}]
        /\ \A o \in Orgs : RowExists(org'[o]) <=> RowExists(org[o])
    BY <2>0, <2>1, <2>2, KeyAssumption DEF TypeOK, RowExists
  <2>4. NoOrphans' /\ LastOwner'
    <3>1. /\ \A m \in MemIds : RowExists(member[m]) => member[m].org \in Orgs
          /\ \A i \in InvIds : RowExists(invite[i]) => invite[i].org \in Orgs
      BY <2>0, MemberFields, InviteFields
    <3> QED BY <2>0, <2>1, <2>3, <3>1 DEF NoOrphans, LastOwner, OwnersOf, MembersOf
  <2>6. UniqueRows'
    <3>1. \A o \in Orgs : org'[o] = IF o = arg[r].org THEN arg[r].slug ELSE org[o]
      BY <2>0, <2>1 DEF TypeOK
    <3> QED BY <2>0, <2>1, <2>3, <3>1 DEF UniqueRows, UniqueMembership, SlugTaken
  <2>5. audited' \subseteq AuditRow
    BY <2>0, <2>1 DEF Entry, AuditRow
  <2> QED BY <2>0, <2>1, <2>3, <2>4, <2>5, <2>6, CommitStep DEF TypeOK
<1> QED BY <1>1, <1>2

\* A new row in a key never used before.
LEMMA Insertion ==
  ASSUME TypeOK, NEW m \in MemIds, member[m] = Free, NEW row \in MemberRow,
         member' = [member EXCEPT ![m] = row]
  PROVE /\ member' \in [MemIds -> MemberRow \cup {Free, Gone}]
        /\ member'[m] = row /\ RowExists(member'[m]) /\ ~RowExists(member[m])
        /\ \A n \in MemIds \ {m} : member'[n] = member[n]
BY KeyAssumption DEF TypeOK, RowExists

LEMMA WriteOrgStep ==
  ASSUME TenancyInv, NEW r \in Requests, WriteOrg(r)
  PROVE TenancyInv'
<1>1. CASE Rollback(r)
  BY <1>1, RollbackStep
<1>2. CASE ~Rollback(r)
  <2>0. /\ TypeOK /\ UniqueRows /\ NoOrphans /\ LastOwner
        /\ arg[r].user \in Users /\ arg[r].slug \in Slugs
    BY ArgByOp, OpOfArg DEF TenancyInv, RequestInv, ArgOK, WriteOrg
  <2>1. PICK o \in FreeIds(org), m \in FreeIds(member) :
          /\ org' = [org EXCEPT ![o] = arg[r].slug] /\ ~SlugTaken(arg[r].slug, o)
          /\ member' = [member EXCEPT ![m] = [org |-> o, user |-> arg[r].user, role |-> "OWNER"]]
          /\ Commit(r, {Entry(o, arg[r].user, "organization.created")})
          /\ UNCHANGED invite
    BY <1>2 DEF WriteOrg
  <2>2. o \in Orgs /\ org[o] = Free /\ m \in MemIds /\ member[m] = Free
    BY <2>0, <2>1 DEF FreeIds, TypeOK
  <2> DEFINE row == [org |-> o, user |-> arg[r].user, role |-> "OWNER"]
  <2>3. row \in MemberRow /\ row.org = o /\ row.role = "OWNER"
    BY <2>0, <2>2 DEF MemberRow, Roles
  <2> HIDE DEF row
  <2>4. /\ member' \in [MemIds -> MemberRow \cup {Free, Gone}]
        /\ member'[m] = row /\ RowExists(member'[m]) /\ ~RowExists(member[m])
        /\ \A n \in MemIds \ {m} : member'[n] = member[n]
    BY <2>0, <2>1, <2>2, <2>3, Insertion DEF row
  <2>5. /\ org' \in [Orgs -> Slugs \cup {Free, Gone}]
        /\ \A p \in Orgs \ {o} : org'[p] = org[p]
        /\ ~RowExists(org[o]) /\ RowExists(org'[o])
    BY <2>0, <2>1, <2>2, KeyAssumption DEF TypeOK, RowExists
  <2>6. LastOwner'
    <3>1. SUFFICES ASSUME NEW p \in Orgs, RowExists(org'[p])
                   PROVE OwnersOf(p)' # {}
      BY DEF LastOwner
    <3>2. CASE p = o
      BY <2>2, <2>3, <2>4, <3>2 DEF OwnersOf, MembersOf
    <3>3. CASE p # o
      BY <2>0, <2>4, <2>5, <3>1, <3>3 DEF LastOwner, OwnersOf, MembersOf
    <3> QED BY <3>2, <3>3
  <2>7. NoOrphans'
    <3>1. /\ \A n \in MemIds : RowExists(member[n]) => member[n].org \in Orgs \ {o}
          /\ \A i \in InvIds : RowExists(invite[i]) => invite[i].org \in Orgs \ {o}
      BY <2>0, <2>5, MemberFields, InviteFields DEF NoOrphans
    <3> QED BY <2>0, <2>1, <2>2, <2>3, <2>4, <2>5, <3>1 DEF NoOrphans
  <2>8. UniqueRows'
    <3>1. \A n \in MemIds : RowExists(member[n]) => member[n].org # o
      BY <2>0, <2>5 DEF NoOrphans
    <3>2. UniqueMembership'
      BY <2>0, <2>3, <2>4, <3>1 DEF UniqueRows, UniqueMembership
    <3>3. \A p \in Orgs : org'[p] = IF p = o THEN arg[r].slug ELSE org[p]
      BY <2>0, <2>1 DEF TypeOK
    <3>4. (\A p, q \in Orgs : RowExists(org[p]) /\ org[p] = org[q] => p = q)'
      BY <2>0, <2>1, <2>5, <3>3 DEF UniqueRows, SlugTaken
    <3> QED BY <3>2, <3>4 DEF UniqueRows
  <2>9. audited' \subseteq AuditRow
    BY <2>0, <2>1, <2>2 DEF Commit, Entry, AuditRow
  <2>10. \A n \in MemIds :
        /\ RowExists(member[n]) => member'[n] = member[n]
        /\ member[n] # Free => member'[n] = member[n]
    BY <2>2, <2>4
  <2> QED BY <2>0, <2>1, <2>4, <2>5, <2>6, <2>7, <2>8, <2>9, <2>10, CommitStep
          DEF Commit, TypeOK, RowExists
<1> QED BY <1>1, <1>2

LEMMA WriteInvitationStep ==
  ASSUME TenancyInv, NEW r \in Requests, WriteInvitation(r)
  PROVE TenancyInv'
<1>0. /\ TypeOK /\ UniqueRows /\ NoOrphans /\ LastOwner /\ RequestInv(r)
      /\ pc[r] = "write" /\ arg[r] \in InviteArg /\ arg[r] \in OrgLockArg
      /\ arg[r].org \in Orgs /\ arg[r].user \in Users /\ arg[r].email \in Users
      /\ arg[r].role \in Roles
  BY ArgByOp, OpOfArg DEF TenancyInv, RequestInv, ArgOK, WriteInvitation, OrgLockArg
<1>1. PICK i \in FreeIds(invite) :
        /\ invite' = [invite EXCEPT ![i] = [org |-> arg[r].org, email |-> arg[r].email,
                                            role |-> arg[r].role, state |-> "active"]]
        /\ arg' = [arg EXCEPT ![r] = [op |-> "mail", invite |-> i]]
  BY DEF WriteInvitation
<1>2. /\ End(r) /\ pc' = [pc EXCEPT ![r] = "mail"] /\ UNCHANGED <<org, member, mail>>
      /\ audited' = {Entry(arg[r].org, arg[r].user, "member.invited")}
  BY DEF WriteInvitation, Goto
<1>3. i \in InvIds /\ invite[i] = Free /\ [op |-> "mail", invite |-> i] \in MailArg
  BY <1>0, <1>1 DEF FreeIds, TypeOK, MailArg
<1> DEFINE row == [org |-> arg[r].org, email |-> arg[r].email,
                   role |-> arg[r].role, state |-> "active"]
<1>4. row \in InviteRow /\ row.org = arg[r].org
  BY <1>0 DEF InviteRow
<1> HIDE DEF row
<1>5. /\ invite' \in [InvIds -> InviteRow \cup {Free, Gone}]
      /\ invite'[i] = row /\ ~RowExists(invite[i])
      /\ \A j \in InvIds \ {i} : invite'[j] = invite[j]
  BY <1>0, <1>1, <1>3, <1>4 DEF TypeOK, RowExists, row
<1>6. TypeOK'
  <2>1. arg' \in [Requests -> Arg \cup {NoArg}]
    BY <1>0, <1>1, <1>3 DEF TypeOK, Arg
  <2>2. audited' \subseteq AuditRow
    BY <1>0, <1>2 DEF Entry, AuditRow
  <2> QED BY <1>0, <1>2, <1>5, <2>1, <2>2, EndType DEF TypeOK, Steps
<1>7. UniqueRows' /\ LastOwner'
  BY <1>0, <1>2 DEF UniqueRows, UniqueMembership, LastOwner, OwnersOf, MembersOf
<1>8. NoOrphans'
  BY <1>0, <1>2, <1>3, <1>4, <1>5 DEF NoOrphans, RequestInv, OrgHeld
<1>9. ASSUME NEW q \in Requests \ {r} PROVE RequestInv(q)'
  <2>1. pc'[q] = pc[q] /\ arg'[q] = arg[q]
    BY <1>0, <1>1, <1>2 DEF TypeOK
  <2>2. Unseen(q)
    BY <1>0, <1>2, <1>5, <2>1, EndFrame DEF Unseen
  <2> QED BY <2>2, NonInterference
<1>10. RequestInv(r)'
  <2>1. pc'[r] = "mail" /\ arg'[r] \in MailArg /\ found'[r] = {}
    BY <1>0, <1>1, <1>2, <1>3 DEF TypeOK, End
  <2> QED BY <2>1 DEF RequestInv, ArgOK, FreshSession, OnlyOwnRowLoaded, TargetHeld, FoundHeld,
             OwnershipChecked, OrgHeld, InvitationHeld, Arg
<1> QED BY <1>6, <1>7, <1>8, <1>9, <1>10 DEF TenancyInv

LEMMA WriteAcceptanceStep ==
  ASSUME TenancyInv, NEW r \in Requests, WriteAcceptance(r)
  PROVE TenancyInv'
<1>1. CASE Rollback(r)
  BY <1>1, RollbackStep
<1>2. CASE ~Rollback(r)
  <2> DEFINE i == arg[r].invite
             o == invite[i].org
             row == [org |-> o, user |-> arg[r].user, role |-> invite[i].role]
  <2>0. /\ TypeOK /\ UniqueRows /\ NoOrphans /\ LastOwner /\ RequestInv(r)
        /\ pc[r] = "write" /\ arg[r] \in AcceptArg /\ i \in InvIds /\ arg[r].user \in Users
    BY ArgByOp, OpOfArg DEF TenancyInv, RequestInv, ArgOK, WriteAcceptance
  <2>1. RowExists(invite[i]) /\ invite[i] \in InviteRow /\ o \in Orgs /\ invite[i].role \in Roles
    BY <2>0, InviteFields DEF RequestInv, InvitationHeld
  <2>2. /\ MembershipOf(o, arg[r].user) = {}
        /\ \E m \in FreeIds(member) : member' = [member EXCEPT ![m] = row]
        /\ invite' = [invite EXCEPT ![i] = [invite[i] EXCEPT !.state = "used"]]
        /\ Commit(r, {Entry(o, arg[r].user, "invitation.accepted")})
        /\ UNCHANGED org
    BY <1>2, <2>0, <2>1 DEF WriteAcceptance, MembershipTaken, TypeOK
  <2>3. PICK m \in MemIds : member[m] = Free /\ member' = [member EXCEPT ![m] = row]
    BY <2>0, <2>2 DEF FreeIds, TypeOK
  <2>4. row \in MemberRow /\ row.org = o /\ row.user = arg[r].user
    BY <2>0, <2>1 DEF MemberRow
  <2>5. /\ member' \in [MemIds -> MemberRow \cup {Free, Gone}]
        /\ member'[m].org = o /\ member'[m].user = arg[r].user
        /\ RowExists(member'[m]) /\ ~RowExists(member[m])
        /\ \A n \in MemIds \ {m} : member'[n] = member[n]
    <3> HIDE DEF row
    <3> QED BY <2>0, <2>3, <2>4, Insertion
  <2>6. /\ invite' \in [InvIds -> InviteRow \cup {Free, Gone}]
        /\ \A j \in InvIds : RowExists(invite'[j]) <=> RowExists(invite[j])
        /\ \A j \in InvIds : RowExists(invite[j]) => invite'[j].org = invite[j].org
    <3> DEFINE used == [invite[i] EXCEPT !.state = "used"]
    <3>1. used \in InviteRow /\ used.org = o
      BY <2>1 DEF InviteRow
    <3>2. RowExists(used)
      BY <3>1, KeyAssumption DEF RowExists
    <3> HIDE DEF used
    <3> QED BY <2>0, <2>1, <2>2, <3>1, <3>2 DEF TypeOK, used
  <2> HIDE DEF row
  <2>7. NoOrphans'
    BY <2>0, <2>1, <2>2, <2>5, <2>6 DEF NoOrphans
  <2>8. UniqueRows'
    <3>1. \A n \in MemIds : RowExists(member[n]) => member[n].org # o \/ member[n].user # arg[r].user
      BY <2>2 DEF MembershipOf, MembersOf
    <3> QED BY <2>0, <2>2, <2>5, <3>1 DEF UniqueRows, UniqueMembership
  <2>9. LastOwner'
    BY <2>0, <2>2, <2>5 DEF LastOwner, OwnersOf, MembersOf
  <2>10. audited' \subseteq AuditRow
    BY <2>0, <2>1, <2>2 DEF Commit, Entry, AuditRow
  <2>11. \A n \in MemIds :
        /\ RowExists(member[n]) => member'[n] = member[n]
        /\ member[n] # Free => member'[n] = member[n]
    BY <2>3, <2>5
  <2> HIDE DEF i, o
  <2> QED BY <2>0, <2>2, <2>5, <2>6, <2>7, <2>8, <2>9, <2>10, <2>11, CommitStep
          DEF Commit, TypeOK, RowExists
<1> QED BY <1>1, <1>2

\* The deletion takes only rows whose locks it holds.
LEMMA DeleteOrgStep ==
  ASSUME TenancyInv, NEW r \in Requests, DeleteOrg(r)
  PROVE TenancyInv'
<1> DEFINE o == arg[r].org
<1>0. /\ TypeOK /\ UniqueRows /\ NoOrphans /\ LastOwner /\ RequestInv(r)
      /\ arg[r] \in DeleteOrgArg /\ o \in Orgs /\ arg[r] \in OrgLockArg /\ pc[r] = "cascade"
  BY OpOfArg DEF TenancyInv, RequestInv, ArgOK, DeleteOrg, OrgLockArg
<1>1. /\ org' = [org EXCEPT ![o] = Gone]
      /\ member' = [m \in MemIds |-> IF m \in MembersOf(o) THEN Gone ELSE member[m]]
      /\ invite' = [i \in InvIds |-> IF i \in InvitesOf(o) THEN Gone ELSE invite[i]]
      /\ End(r) /\ Goto(r, "idle") /\ arg' = [arg EXCEPT ![r] = NoArg]
      /\ audited' = {} /\ UNCHANGED mail
  BY DEF DeleteOrg, Commit
<1>2. /\ olock[o] = r
      /\ \A m \in MemIds : RowExists(member[m]) /\ member[m].org = o => mlock[m] = r
      /\ \A i \in InvIds : RowExists(invite[i]) /\ invite[i].org = o => ilock[i] = r
  BY <1>0 DEF RequestInv, OrgHeld, DeleteOrg, UncascadedMembers, UncascadedInvites, MembersOf, InvitesOf
<1>3. /\ org' \in [Orgs -> Slugs \cup {Free, Gone}] /\ ~RowExists(org'[o])
      /\ \A p \in Orgs \ {o} : org'[p] = org[p]
  BY <1>0, <1>1 DEF TypeOK, RowExists
<1>4. /\ member' \in [MemIds -> MemberRow \cup {Free, Gone}]
      /\ \A m \in MemIds :
           IF RowExists(member[m]) /\ member[m].org = o
           THEN ~RowExists(member'[m]) /\ member'[m] # Free
           ELSE member'[m] = member[m]
  BY <1>0, <1>1, KeyAssumption DEF TypeOK, RowExists, MembersOf
<1>5. /\ invite' \in [InvIds -> InviteRow \cup {Free, Gone}]
      /\ \A i \in InvIds :
           IF RowExists(invite[i]) /\ invite[i].org = o
           THEN ~RowExists(invite'[i]) ELSE invite'[i] = invite[i]
  BY <1>0, <1>1 DEF TypeOK, RowExists, InvitesOf
<1>6. UniqueRows'
  BY <1>0, <1>3, <1>4 DEF UniqueRows, UniqueMembership
<1>7. NoOrphans'
  <2>1. /\ \A m \in MemIds : RowExists(member[m]) => member[m].org \in Orgs
        /\ \A i \in InvIds : RowExists(invite[i]) => invite[i].org \in Orgs
    BY <1>0, MemberFields, InviteFields
  <2> QED BY <1>0, <1>3, <1>4, <1>5, <2>1 DEF NoOrphans
<1>8. LastOwner'
  <2>1. SUFFICES ASSUME NEW p \in Orgs, RowExists(org'[p])
                 PROVE OwnersOf(p)' # {}
    BY DEF LastOwner
  <2>2. p # o /\ RowExists(org[p])
    BY <1>3, <2>1
  <2> QED BY <1>0, <1>4, <2>2 DEF LastOwner, OwnersOf, MembersOf
<1>9. /\ \A p \in Orgs : RowExists(org[p]) /\ olock[p] # r => RowExists(org'[p])
      /\ \A i \in InvIds : RowExists(invite[i]) /\ ilock[i] # r => RowExists(invite'[i])
      /\ \A m \in MemIds : RowExists(member[m]) /\ mlock[m] # r => member'[m] = member[m]
  BY <1>2, <1>3, <1>4, <1>5
<1>10. \A m \in MemIds : member[m] # Free =>
         member'[m] # Free /\ (RowExists(member'[m]) => member'[m] = member[m])
  BY <1>4
<1>11. audited' \subseteq AuditRow
  BY <1>1
<1> HIDE DEF o
<1> QED BY <1>1, <1>3, <1>4, <1>5, <1>6, <1>7, <1>8, <1>9, <1>10, <1>11, CommitStep DEF RowExists

LEMMA ExpireStep ==
  ASSUME TenancyInv, Expire
  PROVE TenancyInv'
<1>0. /\ TypeOK /\ UniqueRows /\ NoOrphans /\ LastOwner /\ audited' = {}
      /\ UNCHANGED <<org, member, olock, mlock, ilock, pc, arg, view, todo, found, mail>>
  BY DEF TenancyInv, Expire
<1>1. PICK i \in InvIds :
        /\ RowExists(invite[i])
        /\ invite' = [invite EXCEPT ![i] = [invite[i] EXCEPT !.state = "expired"]]
  BY <1>0 DEF Expire, TypeOK
<1>2. /\ invite' \in [InvIds -> InviteRow \cup {Free, Gone}]
      /\ \A j \in InvIds : RowExists(invite'[j]) <=> RowExists(invite[j])
      /\ \A j \in InvIds : RowExists(invite[j]) => invite'[j].org = invite[j].org
  <2> DEFINE row == [invite[i] EXCEPT !.state = "expired"]
  <2>1. row \in InviteRow /\ row.org = invite[i].org
    BY <1>0, <1>1, InviteFields DEF InviteRow
  <2>2. RowExists(row)
    BY <2>1, KeyAssumption DEF RowExists
  <2> HIDE DEF row
  <2> QED BY <1>0, <1>1, <2>1, <2>2 DEF TypeOK, row
<1>3. TypeOK'
  BY <1>0, <1>2 DEF TypeOK
<1>4. UniqueRows' /\ LastOwner' /\ NoOrphans'
  BY <1>0, <1>2 DEF UniqueRows, UniqueMembership, LastOwner, NoOrphans, OwnersOf, MembersOf
<1>5. ASSUME NEW q \in Requests PROVE RequestInv(q)'
  <2>1. Unseen(q)
    BY <1>0, <1>2 DEF Unseen
  <2> QED BY <2>1, NonInterference
<1> QED BY <1>3, <1>4, <1>5 DEF TenancyInv

-----------------------------------------------------------------------------
LEMMA InitInv == Init => TenancyInv
<1> SUFFICES ASSUME Init PROVE TenancyInv
  OBVIOUS
<1>1. TypeOK
  BY InitAssumption DEF Init, ConsistentDatabase, TypeOK, Steps, NothingLoaded
<1>2. UniqueRows /\ LastOwner
  BY InitAssumption DEF Init, ConsistentDatabase, UniqueRows, UniqueMembership, LastOwner,
     OwnersOf, MembersOf
<1>3. NoOrphans
  BY InitAssumption DEF Init, ConsistentDatabase, NoOrphans, RowExists
<1>4. ASSUME NEW r \in Requests PROVE RequestInv(r)
  BY DEF Init, RequestInv, ArgOK, FreshSession, OnlyOwnRowLoaded, TargetHeld, FoundHeld,
     OwnershipChecked, OrgHeld, InvitationHeld
<1> QED BY <1>1, <1>2, <1>3, <1>4 DEF TenancyInv

LEMMA StutterInv == TenancyInv /\ UNCHANGED vars => TenancyInv'
<1> SUFFICES ASSUME TenancyInv, UNCHANGED vars PROVE TenancyInv'
  OBVIOUS
<1>0. TypeOK /\ UNCHANGED <<org, member, invite, olock, mlock, ilock, pc, arg, view, todo, found, mail, audited>>
  BY DEF vars, TenancyInv
<1>1. TypeOK' /\ (UniqueRows /\ NoOrphans /\ LastOwner)'
  BY <1>0 DEF TenancyInv, TypeOK, UniqueRows, UniqueMembership, NoOrphans, LastOwner, OwnersOf, MembersOf
<1>2. ASSUME NEW q \in Requests PROVE RequestInv(q)'
  <2>1. Unseen(q)
    BY <1>0 DEF Unseen
  <2> QED BY <2>1, NonInterference
<1> QED BY <1>1, <1>2 DEF TenancyInv

LEMMA NextInv == TenancyInv /\ [Next]_vars => TenancyInv'
<1> SUFFICES ASSUME TenancyInv, [Next]_vars PROVE TenancyInv'
  OBVIOUS
<1>1. CASE Expire
  BY <1>1, ExpireStep
<1>2. ASSUME NEW r \in Requests, Begin(r) PROVE TenancyInv'
  BY <1>2, BeginStep
<1>3. ASSUME NEW r \in Requests, Acquire(r) PROVE TenancyInv'
  BY <1>3, LockOrgStep, LockActorStep, LockTargetStep, LockOwnerStep, LockInvitationStep,
     CascadeStep DEF Acquire
<1>4. ASSUME NEW r \in Requests, Decide(r) PROVE TenancyInv'
  BY <1>4, ScanOwnersStep, EnsureAnotherOwnerStep, CheckStep, EnqueueEmailStep DEF Decide
<1>5. ASSUME NEW r \in Requests, Write(r) PROVE TenancyInv'
  BY <1>5, WriteRoleStep, WriteRemovalStep, WriteSlugStep, WriteOrgStep, WriteInvitationStep,
     WriteAcceptanceStep, DeleteOrgStep DEF Write
<1>6. ASSUME NEW r \in Requests, DeadlockAbort(r) \/ Abort(r) PROVE TenancyInv'
  BY <1>6, RollbackStep DEF DeadlockAbort, Abort
<1> QED BY <1>1, <1>2, <1>3, <1>4, <1>5, <1>6, StutterInv DEF Next

\* Every reachable state is well typed, and the bookkeeping of locks and
\* sessions behind the membership handlers is sound.
THEOREM TenancyCorrect == Spec => []TenancyInv
BY InitInv, NextInv, PTL DEF Spec

\* Type correctness.
THEOREM TypeCorrect == Spec => []TypeOK
<1>1. TenancyInv => TypeOK
  BY DEF TenancyInv
<1> QED BY <1>1, TenancyCorrect, PTL

\* update_membership, remove_membership and delete_organization, however they
\* interleave, never leave an organization without an owner.
THEOREM OwnerKept == Spec => []LastOwner
<1>1. TenancyInv => LastOwner
  BY DEF TenancyInv
<1> QED BY <1>1, TenancyCorrect, PTL

\* The cascade of delete_organization leaves no membership and no invitation.
THEOREM NothingOrphaned == Spec => []NoOrphans
<1>1. TenancyInv => NoOrphans
  BY DEF TenancyInv
<1> QED BY <1>1, TenancyCorrect, PTL

\* Memberships and slugs stay unique under concurrent inserts.
THEOREM RowsUnique == Spec => []UniqueRows
<1>1. TenancyInv => UniqueRows
  BY DEF TenancyInv
<1> QED BY <1>1, TenancyCorrect, PTL

-----------------------------------------------------------------------------
(* What the handlers have checked, and why it still holds when they write:  *)
(* the second invariant, proved on top of TenancyInv.                       *)

\* Past its row lock, the caller's membership keeps a role the query asked for.
ActorHeld(r) ==
  /\ pc[r] \in {"target", "scan", "owners", "check", "cascade", "write"}
  /\ arg[r] \in MemberRouteArg
  => \E m \in ActorRows(r, ActorRoles(arg[r].op)) : mlock[m] = r

\* create_invitation's lookup still holds when it inserts, because every other
\* invitation to this organization waits for the organization's row.
InviteChecked(r) ==
  pc[r] = "write" /\ arg[r] \in InviteArg => ActiveInvites(arg[r].org, arg[r].email) = {}

\* The locked invitation is still unused, and still the caller's.
AcceptanceChecked(r) ==
  pc[r] = "write" /\ arg[r] \in AcceptArg =>
    /\ invite[arg[r].invite].state # "used"
    /\ invite[arg[r].invite].email = arg[r].user

\* The token handed to the e-mail queue belongs to a committed invitation.
TokenCommitted(r) == pc[r] = "mail" => invite[arg[r].invite] # Free

Checked(r) == ActorHeld(r) /\ InviteChecked(r) /\ AcceptanceChecked(r) /\ TokenCommitted(r)

Active(row) == RowExists(row) /\ row.state = "active"

\* OneActiveInvitation without counting.
UniqueActive ==
  \A i, j \in InvIds :
    /\ Active(invite[i]) /\ Active(invite[j])
    /\ invite[i].org = invite[j].org /\ invite[i].email = invite[j].email
    => i = j

HandlerInv ==
  /\ UniqueActive /\ MailAfterCommit
  /\ \A r \in Requests : Checked(r)

\* A step q cannot notice in the rows it has locked.
Untouched(q) ==
  /\ pc'[q] = pc[q] /\ arg'[q] = arg[q]
  /\ \A m \in MemIds : mlock[m] = q =>
       mlock'[m] = q /\ (RowExists(member[m]) => member'[m] = member[m])
  /\ \A i \in InvIds : ilock[i] = q /\ RowExists(invite[i]) =>
       /\ invite'[i].email = invite[i].email
       /\ invite'[i].state = "used" => invite[i].state = "used"

\* No key becomes free again, and no invitation becomes active.
NoInvitation ==
  \A i \in InvIds : /\ invite[i] # Free => invite'[i] # Free
                    /\ Active(invite'[i]) => invite'[i] = invite[i]

LEMMA UntouchedChecked ==
  ASSUME TenancyInv, HandlerInv, NEW q \in Requests, Untouched(q), NoInvitation
  PROVE Checked(q)'
<1>0. TypeOK /\ RequestInv(q) /\ Checked(q)
  BY DEF TenancyInv, HandlerInv
<1>1. ActorHeld(q)'
  BY <1>0 DEF Checked, ActorHeld, Untouched, ActorRows, MembershipOf, MembersOf
<1>2. InviteChecked(q)'
  BY <1>0 DEF Checked, InviteChecked, Untouched, NoInvitation, Active, ActiveInvites, InvitesOf
<1>3. AcceptanceChecked(q)'
  <2>1. arg[q] \in AcceptArg => arg[q].invite \in InvIds
    BY OpOfArg
  <2> QED BY <1>0, <2>1 DEF Checked, AcceptanceChecked, Untouched, RequestInv, InvitationHeld
<1>4. TokenCommitted(q)'
  <2>1. arg[q] \in MailArg => arg[q].invite \in InvIds
    BY OpOfArg
  <2> QED BY <1>0, <2>1 DEF Checked, TokenCommitted, Untouched, NoInvitation, RequestInv, ArgOK
<1> QED BY <1>1, <1>2, <1>3, <1>4 DEF Checked

\* Nothing is expected of a request that has ended.
LEMMA EndedChecked ==
  ASSUME TypeOK, NEW r \in Requests, Goto(r, "idle")
  PROVE Checked(r)'
<1>1. pc'[r] = "idle"
  BY DEF TypeOK, Goto
<1> QED BY <1>1 DEF Checked, ActorHeld, InviteChecked, AcceptanceChecked, TokenCommitted

\* A step of r that only reads and locks.
LEMMA QuietChecked ==
  ASSUME TenancyInv, HandlerInv, NEW r \in Requests, UNCHANGED <<member, invite, mail>>,
         Private(r), Checked(r)'
  PROVE HandlerInv'
<1>1. ASSUME NEW q \in Requests \ {r} PROVE Checked(q)'
  <2>1. Untouched(q) /\ NoInvitation
    BY DEF Private, Untouched, NoInvitation
  <2> QED BY <2>1, UntouchedChecked
<1>2. UniqueActive' /\ MailAfterCommit'
  BY DEF HandlerInv, UniqueActive, MailAfterCommit
<1> QED BY <1>1, <1>2 DEF HandlerInv

LEMMA EndPrivate ==
  ASSUME TypeOK, NEW r \in Requests, End(r), NEW step, Goto(r, step),
         \E a : arg' = [arg EXCEPT ![r] = a]
  PROVE Private(r)
BY EndFrame DEF Private, TypeOK, Goto

LEMMA RollbackChecked ==
  ASSUME TenancyInv, HandlerInv, NEW r \in Requests, Rollback(r)
  PROVE HandlerInv'
<1>1. TypeOK /\ End(r) /\ Goto(r, "idle") /\ arg' = [arg EXCEPT ![r] = NoArg]
      /\ UNCHANGED <<member, invite, mail>>
  BY DEF TenancyInv, Rollback, tables
<1>2. Private(r)
  BY <1>1, EndPrivate
<1>3. Checked(r)'
  BY <1>1, EndedChecked
<1> QED BY <1>1, <1>2, <1>3, QuietChecked

\* r's own lock steps keep what it has already checked of its caller.
LEMMA ActorStays ==
  ASSUME NEW r \in Requests, ActorHeld(r), UNCHANGED member, arg'[r] = arg[r],
         \A m \in MemIds : mlock[m] = r => mlock'[m] = r,
         pc[r] \in {"target", "scan", "owners", "check", "cascade", "write"}
  PROVE ActorHeld(r)'
BY DEF ActorHeld, ActorRows, MembershipOf, MembersOf


LEMMA BeginChecked ==
  ASSUME TenancyInv, HandlerInv, NEW r \in Requests, Begin(r)
  PROVE HandlerInv' /\ UNCHANGED tables
<1>0. TypeOK /\ Working(r) /\ UNCHANGED <<olock, mlock, ilock, found>>
  BY DEF TenancyInv, Begin, BeginMemberRoute, BeginCreateOrg, BeginAccept, locks
<1>1. PICK a \in Arg, step \in {"org", "actor", "check", "invitation"} :
        /\ arg' = [arg EXCEPT ![r] = a] /\ Goto(r, step)
        /\ step = "check" => a \in CreateOrgArg
  <2>1. CASE BeginMemberRoute(r)
    <3>1. PICK a \in MemberRouteArg : arg' = [arg EXCEPT ![r] = a] /\ Goto(r, FirstStep(a.op))
      BY <2>1 DEF BeginMemberRoute
    <3>2. FirstStep(a.op) \in {"org", "actor"} /\ a \in Arg
      BY DEF FirstStep, Arg
    <3> QED BY <3>1, <3>2
  <2>2. CASE BeginCreateOrg(r)
    BY <2>2 DEF BeginCreateOrg, Arg
  <2>3. CASE BeginAccept(r)
    <3>1. PICK a \in AcceptArg : arg' = [arg EXCEPT ![r] = a]
      BY <2>3 DEF BeginAccept, AcceptArg
    <3> QED BY <2>3, <3>1 DEF BeginAccept, Arg
  <2> QED BY <2>1, <2>2, <2>3 DEF Begin
<1>2. Private(r)
  <2>1. ASSUME NEW q \in Requests \ {r} PROVE view'[q] = view[q]
    BY <1>0 DEF Begin, BeginMemberRoute, BeginCreateOrg, BeginAccept, TypeOK
  <2> QED BY <1>0, <1>1, <2>1 DEF Private, TypeOK, Goto
<1>3. pc'[r] = step /\ arg'[r] = a
  BY <1>0, <1>1 DEF TypeOK, Goto
<1>4. Checked(r)'
  <2>1. a \in CreateOrgArg => a \notin MemberRouteArg
    BY OpOfArg DEF MemberRouteArg
  <2> QED BY <1>1, <1>3, <2>1 DEF Checked, ActorHeld, InviteChecked, AcceptanceChecked, TokenCommitted
<1> QED BY <1>0, <1>2, <1>4, QuietChecked DEF Working, tables

LEMMA LockOrgChecked ==
  ASSUME TenancyInv, HandlerInv, NEW r \in Requests, LockOrg(r)
  PROVE HandlerInv' /\ UNCHANGED tables
<1>1. CASE Rollback(r)
  BY <1>1, RollbackChecked DEF Rollback
<1>2. CASE ~Rollback(r)
  <2>0. TypeOK /\ RequestInv(r) /\ pc[r] = "org" /\ arg[r] \in OrgLockArg /\ arg[r].org \in Orgs
    BY OpOfArg DEF TenancyInv, RequestInv, ArgOK, LockOrg, OrgLockArg
  <2>1. /\ Available(olock, arg[r].org, r) /\ olock' = [olock EXCEPT ![arg[r].org] = r]
        /\ pc' = [pc EXCEPT ![r] = "actor"]
        /\ Working(r) /\ UNCHANGED <<mlock, ilock, arg, view, todo, found>>
    BY <1>2 DEF LockOrg, Goto
  <2>2. Private(r)
    BY <2>0, <2>1, NoReqAssumption DEF Private, TypeOK, Available
  <2>3. pc'[r] = "actor"
    BY <2>0, <2>1 DEF TypeOK
  <2>4. Checked(r)'
    BY <2>3 DEF Checked, ActorHeld, InviteChecked, AcceptanceChecked, TokenCommitted
  <2> QED BY <2>1, <2>2, <2>4, QuietChecked DEF Working, tables
<1> QED BY <1>1, <1>2

\* The step that establishes ActorHeld.
LEMMA LockActorChecked ==
  ASSUME TenancyInv, HandlerInv, NEW r \in Requests, LockActor(r)
  PROVE HandlerInv' /\ UNCHANGED tables
<1>1. CASE Rollback(r)
  BY <1>1, RollbackChecked DEF Rollback
<1>2. CASE ~Rollback(r)
  <2>0. TypeOK /\ RequestInv(r) /\ pc[r] = "actor" /\ arg[r] \in MemberRouteArg /\ arg[r] \in Arg
    BY DEF TenancyInv, RequestInv, ArgOK, LockActor
  <2>1. PICK m \in ActorRows(r, ActorRoles(arg[r].op)) :
          /\ Available(mlock, m, r) /\ mlock' = [mlock EXCEPT ![m] = r]
          /\ view' = Loaded(r, m) /\ Goto(r, AfterActor(arg[r].op))
          /\ Working(r) /\ UNCHANGED <<olock, ilock, arg, todo, found>>
    BY <1>2 DEF LockActor
  <2>2. m \in MemIds
    BY <2>1 DEF ActorRows, MembershipOf, MembersOf
  <2>3. Private(r)
    BY <2>0, <2>1, <2>2, NoReqAssumption DEF Private, TypeOK, Available, Loaded, Goto
  <2>4. /\ mlock'[m] = r /\ arg'[r] = arg[r] /\ UNCHANGED member
        /\ pc'[r] = AfterActor(arg[r].op)
    BY <2>0, <2>1, <2>2 DEF TypeOK, Working, tables, Goto
  <2>5. ActorHeld(r)'
    BY <2>1, <2>4 DEF ActorHeld, ActorRows, MembershipOf, MembersOf
  <2>6. AfterActor(arg[r].op) = "write" => arg[r] \in UpdateOrgArg
    BY <2>0, ArgByOp, OpOfArg DEF AfterActor, MemberRouteArg
  <2>7. AfterActor(arg[r].op) # "mail"
    BY <2>0, OpOfArg DEF AfterActor, MemberRouteArg
  <2>8. Checked(r)'
    BY <2>4, <2>5, <2>6, <2>7, OpOfArg DEF Checked, InviteChecked, AcceptanceChecked, TokenCommitted
  <2> QED BY <2>1, <2>3, <2>8, QuietChecked DEF Working, tables
<1> QED BY <1>1, <1>2

\* Member changes neither invite nor accept.
LEMMA MemberChangeChecked ==
  ASSUME NEW r \in Requests, arg'[r] \in MemberChangeArg, ActorHeld(r)', pc'[r] # "mail"
  PROVE Checked(r)'
<1>1. arg'[r] \notin InviteArg /\ arg'[r] \notin AcceptArg
  BY OpOfArg DEF MemberChangeArg
<1> QED BY <1>1 DEF Checked, InviteChecked, AcceptanceChecked, TokenCommitted

LEMMA LockTargetChecked ==
  ASSUME TenancyInv, HandlerInv, NEW r \in Requests, LockTarget(r)
  PROVE HandlerInv' /\ UNCHANGED tables
<1>1. CASE Rollback(r)
  BY <1>1, RollbackChecked DEF Rollback
<1>2. CASE ~Rollback(r)
  <2> DEFINE t == arg[r].target
  <2>0. /\ TypeOK /\ ActorHeld(r) /\ pc[r] = "target"
        /\ arg[r] \in MemberChangeArg /\ t \in MemIds
    BY OpOfArg DEF TenancyInv, HandlerInv, Checked, RequestInv, ArgOK, LockTarget, MemberChangeArg
  <2>1. PICK step \in {"scan", "write"} :
          /\ Available(mlock, t, r) /\ mlock' = [mlock EXCEPT ![t] = r]
          /\ view' = Loaded(r, t) /\ Goto(r, step)
          /\ Working(r) /\ UNCHANGED <<olock, ilock, arg, todo, found>>
    BY <1>2 DEF LockTarget
  <2>2. Private(r)
    BY <2>0, <2>1, NoReqAssumption DEF Private, TypeOK, Available, Loaded, Goto
  <2>3. /\ pc'[r] = step /\ arg'[r] = arg[r] /\ UNCHANGED member
        /\ \A m \in MemIds : mlock[m] = r => mlock'[m] = r
    BY <2>0, <2>1 DEF TypeOK, Goto, Working, tables
  <2>4. ActorHeld(r)'
    BY <2>0, <2>3, ActorStays
  <2>5. Checked(r)'
    BY <2>0, <2>1, <2>3, <2>4, MemberChangeChecked
  <2> QED BY <2>1, <2>2, <2>5, QuietChecked DEF Working, tables
<1> QED BY <1>1, <1>2

LEMMA OwnersChecked ==
  ASSUME TenancyInv, HandlerInv, NEW r \in Requests,
         ScanOwners(r) \/ LockOwner(r) \/ EnsureAnotherOwner(r)
  PROVE HandlerInv' /\ UNCHANGED tables
<1>1. CASE Rollback(r)
  BY <1>1, RollbackChecked DEF Rollback
<1>2. CASE ~Rollback(r)
  <2>0. /\ TypeOK /\ ActorHeld(r) /\ pc[r] \in {"scan", "owners"} /\ arg[r] \in MemberChangeArg
        /\ Working(r) /\ UNCHANGED <<olock, ilock, arg, view>>
    BY <1>2 DEF TenancyInv, HandlerInv, Checked, RequestInv, ArgOK, ScanOwners, LockOwner,
       EnsureAnotherOwner, locks
  <2>1. \E step \in {"owners", "write"} : pc' = [pc EXCEPT ![r] = step]
    <3>1. CASE pc' = pc
      <4>1. pc[r] = "owners"
        BY <1>2, <2>0, <3>1 DEF ScanOwners, LockOwner, EnsureAnotherOwner, Goto, TypeOK
      <4>2. pc' = [pc EXCEPT ![r] = "owners"]
        BY <2>0, <3>1, <4>1 DEF TypeOK
      <4> QED BY <4>2
    <3>2. CASE pc' # pc
      BY <1>2, <3>2 DEF ScanOwners, LockOwner, EnsureAnotherOwner, Goto
    <3> QED BY <3>1, <3>2
  <2>2. \/ UNCHANGED <<mlock, found>>
        \/ \E m \in MemIds : 
             /\ Available(mlock, m, r)
             /\ mlock' = [mlock EXCEPT ![m] = r] \/ mlock' = mlock
             /\ found' = [found EXCEPT ![r] = @ \cup {m}] \/ found' = found
    BY <1>2, <2>0 DEF ScanOwners, LockOwner, EnsureAnotherOwner, locks, TypeOK
  <2>3. Private(r)
    BY <2>0, <2>1, <2>2, NoReqAssumption DEF Private, TypeOK, Available
  <2>4. /\ pc'[r] \in {"owners", "write"} /\ arg'[r] = arg[r] /\ UNCHANGED member
        /\ \A m \in MemIds : mlock[m] = r => mlock'[m] = r
    BY <2>0, <2>1, <2>2 DEF TypeOK, Working, tables
  <2>5. ActorHeld(r)'
    BY <2>0, <2>4, ActorStays
  <2>6. Checked(r)'
    BY <2>0, <2>4, <2>5, MemberChangeChecked
  <2> QED BY <2>0, <2>3, <2>6, QuietChecked DEF Working, tables
<1> QED BY <1>1, <1>2


LEMMA CascadeChecked ==
  ASSUME TenancyInv, HandlerInv, NEW r \in Requests, Cascade(r)
  PROVE HandlerInv' /\ UNCHANGED tables
<1>0. /\ TypeOK /\ ActorHeld(r) /\ pc[r] = "cascade" /\ arg[r] \in DeleteOrgArg
      /\ Working(r) /\ UNCHANGED <<olock, pc, arg, view, todo, found>>
      /\ UNCHANGED <<member, invite, mail>>
  BY DEF TenancyInv, HandlerInv, Checked, RequestInv, ArgOK, Cascade, Working, tables
<1>1. /\ \A m \in MemIds : mlock[m] # NoReq => mlock'[m] = mlock[m]
      /\ \A i \in InvIds : ilock[i] # NoReq => ilock'[i] = ilock[i]
  <2>1. CASE \E m \in UncascadedMembers(r) :
               Available(mlock, m, r) /\ mlock' = [mlock EXCEPT ![m] = r] /\ UNCHANGED ilock
    BY <1>0, <2>1 DEF TypeOK, UncascadedMembers, MembersOf, Available
  <2>2. CASE \E i \in UncascadedInvites(r) :
               Available(ilock, i, r) /\ ilock' = [ilock EXCEPT ![i] = r] /\ UNCHANGED mlock
    BY <1>0, <2>2 DEF TypeOK, UncascadedInvites, InvitesOf, Available
  <2> QED BY <2>1, <2>2 DEF Cascade
<1>2. Private(r)
  BY <1>0, <1>1, NoReqAssumption DEF Private
<1>3. ActorHeld(r)'
  <2>1. \A m \in MemIds : mlock[m] = r => mlock'[m] = r
    BY <1>1, NoReqAssumption
  <2> QED BY <1>0, <2>1, ActorStays
<1>4. Checked(r)'
  BY <1>0, <1>3 DEF Checked, InviteChecked, AcceptanceChecked, TokenCommitted
<1> QED BY <1>0, <1>2, <1>4, QuietChecked DEF Working

\* The step that establishes AcceptanceChecked.
LEMMA LockInvitationChecked ==
  ASSUME TenancyInv, HandlerInv, NEW r \in Requests, LockInvitation(r)
  PROVE HandlerInv' /\ UNCHANGED tables
<1>1. CASE Rollback(r)
  BY <1>1, RollbackChecked DEF Rollback
<1>2. CASE ~Rollback(r)
  <2>0. /\ TypeOK /\ arg[r] \in AcceptArg /\ arg[r].invite \in InvIds
    BY OpOfArg DEF TenancyInv, RequestInv, ArgOK, LockInvitation
  <2>1. /\ Acceptable(r, arg[r].invite) /\ Available(ilock, arg[r].invite, r)
        /\ ilock' = [ilock EXCEPT ![arg[r].invite] = r] /\ pc' = [pc EXCEPT ![r] = "write"]
        /\ Working(r) /\ UNCHANGED <<olock, mlock, arg, view, todo, found>>
        /\ UNCHANGED <<member, invite, mail>>
    BY <1>2 DEF LockInvitation, Goto, Working, tables
  <2>2. Private(r)
    BY <2>0, <2>1, NoReqAssumption DEF Private, TypeOK, Available
  <2>3. pc'[r] = "write"
    BY <2>0, <2>1 DEF TypeOK
  <2>4. arg[r] \notin MemberRouteArg /\ arg[r] \notin InviteArg
    BY <2>0, OpOfArg DEF MemberRouteArg
  <2>5. Checked(r)'
    BY <2>1, <2>3, <2>4 DEF Checked, ActorHeld, InviteChecked, AcceptanceChecked, TokenCommitted,
       Acceptable
  <2> QED BY <2>1, <2>2, <2>5, QuietChecked DEF Working
<1> QED BY <1>1, <1>2

\* CheckInvitation is the step that establishes InviteChecked.
LEMMA LookupChecked ==
  ASSUME TenancyInv, HandlerInv, NEW r \in Requests, CheckSlug(r) \/ CheckInvitation(r)
  PROVE HandlerInv' /\ UNCHANGED tables
<1>1. CASE Rollback(r)
  BY <1>1, RollbackChecked DEF Rollback
<1>2. CASE ~Rollback(r)
  <2>0. /\ TypeOK /\ ActorHeld(r) /\ pc[r] = "check" /\ arg[r] \in InviteArg \cup CreateOrgArg
        /\ pc' = [pc EXCEPT ![r] = "write"] /\ Working(r)
        /\ UNCHANGED <<olock, mlock, ilock, arg, view, todo, found>>
        /\ UNCHANGED <<member, invite, mail>>
    BY <1>2 DEF TenancyInv, HandlerInv, Checked, RequestInv, ArgOK, CheckSlug, CheckInvitation,
       Goto, locks, Working, tables
  <2>1. arg[r] \in InviteArg => ActiveInvites(arg[r].org, arg[r].email) = {}
    BY <1>2, OpOfArg DEF CheckSlug, CheckInvitation
  <2>2. Private(r)
    BY <2>0 DEF Private, TypeOK
  <2>3. pc'[r] = "write"
    BY <2>0 DEF TypeOK
  <2>4. ActorHeld(r)'
    BY <2>0, ActorStays
  <2>5. arg[r] \notin AcceptArg
    BY <2>0, OpOfArg
  <2>6. Checked(r)'
    BY <2>0, <2>1, <2>3, <2>4, <2>5 DEF Checked, InviteChecked, AcceptanceChecked, TokenCommitted,
       ActiveInvites, InvitesOf
  <2> QED BY <2>0, <2>2, <2>6, QuietChecked DEF Working
<1> QED BY <1>1, <1>2

LEMMA EnqueueEmailChecked ==
  ASSUME TenancyInv, HandlerInv, NEW r \in Requests, EnqueueEmail(r)
  PROVE HandlerInv' /\ UNCHANGED tables
<1>0. /\ TypeOK /\ End(r) /\ Goto(r, "idle") /\ UNCHANGED <<member, invite>> /\ UNCHANGED tables
      /\ arg' = [arg EXCEPT ![r] = NoArg] /\ invite[arg[r].invite] # Free
      /\ mail' \in {mail, mail \cup {arg[r].invite}}
  BY DEF TenancyInv, HandlerInv, Checked, TokenCommitted, EnqueueEmail, tables
<1>1. Private(r)
  BY <1>0, EndPrivate
<1>2. ASSUME NEW q \in Requests \ {r} PROVE Checked(q)'
  <2>1. Untouched(q) /\ NoInvitation
    BY <1>0, <1>1 DEF Private, Untouched, NoInvitation
  <2> QED BY <2>1, UntouchedChecked
<1>3. Checked(r)'
  BY <1>0, EndedChecked
<1>4. UniqueActive' /\ MailAfterCommit'
  BY <1>0 DEF HandlerInv, UniqueActive, MailAfterCommit
<1> QED BY <1>0, <1>2, <1>3, <1>4 DEF HandlerInv

LEMMA ExpireChecked ==
  ASSUME TenancyInv, HandlerInv, Expire
  PROVE HandlerInv' /\ UNCHANGED <<org, member, arg>>
<1>0. TypeOK /\ UNCHANGED <<org, member, olock, mlock, ilock, pc, arg, mail>>
  BY DEF TenancyInv, Expire
<1>1. PICK i \in InvIds :
        /\ RowExists(invite[i]) /\ invite[i].state = "active"
        /\ invite' = [invite EXCEPT ![i] = [invite[i] EXCEPT !.state = "expired"]]
  BY <1>0 DEF Expire, TypeOK
<1> DEFINE row == [invite[i] EXCEPT !.state = "expired"]
<1>2. row \in InviteRow /\ row.email = invite[i].email /\ row.state = "expired"
  BY <1>0, <1>1, InviteFields DEF InviteRow
<1>3. row # Free
  BY <1>2, KeyAssumption
<1> HIDE DEF row
<1>4. invite'[i] = row /\ \A j \in InvIds \ {i} : invite'[j] = invite[j]
  BY <1>0, <1>1 DEF TypeOK, row
<1>5. NoInvitation
  BY <1>2, <1>3, <1>4 DEF NoInvitation, Active
<1>6. ASSUME NEW q \in Requests PROVE Checked(q)'
  <2>1. Untouched(q)
    BY <1>0, <1>2, <1>4 DEF Untouched
  <2> QED BY <1>5, <2>1, UntouchedChecked
<1>7. UniqueActive'
  BY <1>5 DEF HandlerInv, UniqueActive, NoInvitation
<1>8. MailAfterCommit'
  BY <1>0, <1>5 DEF HandlerInv, MailAfterCommit, NoInvitation, TypeOK
<1> QED BY <1>0, <1>6, <1>7, <1>8 DEF HandlerInv


-----------------------------------------------------------------------------
(* What a write promises: the action properties, for the request that writes. *)

Isolated(r) ==
  /\ \A o \in Orgs : org'[o] # org[o] => o = arg[r].org
  /\ \A m \in MemIds : member'[m] # member[m] => m \in MembersOf(arg[r].org)
  /\ \A i \in InvIds : invite'[i] # invite[i] /\ RowExists(invite[i]) => i \in InvitesOf(arg[r].org)

Admission ==
  \A m \in MemIds :
    /\ member[m] = Free /\ RowExists(member'[m])
    /\ RowExists(org[member'[m].org])
    => \E i \in InvIds :
         /\ RowExists(invite[i]) /\ invite[i].state # "used"
         /\ invite'[i].state = "used"
         /\ invite[i].org = member'[m].org
         /\ invite[i].email = member'[m].user
         /\ invite[i].role = member'[m].role

Promised(r) ==
  /\ arg[r] \in MemberRouteArg => ActorRows(r, ActorRoles(arg[r].op)) # {} /\ Isolated(r)
  /\ arg[r].op # "delete_org" => \E e \in audited' : e.user = arg[r].user
  /\ Admission
  /\ \A q \in Requests \ {r} : arg'[q] = arg[q]

\* A commit of r changes only rows r has locked, and issues no invitation.
LEMMA CommitChecked ==
  ASSUME TenancyInv, HandlerInv, NEW r \in Requests, End(r), Goto(r, "idle"),
         arg' = [arg EXCEPT ![r] = NoArg], UNCHANGED mail, NoInvitation,
         \A m \in MemIds : RowExists(member[m]) /\ mlock[m] # r => member'[m] = member[m],
         \A i \in InvIds : RowExists(invite[i]) /\ ilock[i] # r => invite'[i] = invite[i]
  PROVE HandlerInv' /\ \A q \in Requests \ {r} : arg'[q] = arg[q]
<1>0. TypeOK
  BY DEF TenancyInv
<1>1. Private(r)
  BY <1>0, EndPrivate
<1>2. ASSUME NEW q \in Requests \ {r} PROVE Checked(q)'
  <2>1. Untouched(q)
    BY <1>1 DEF Private, Untouched
  <2> QED BY <2>1, UntouchedChecked
<1>3. Checked(r)'
  BY <1>0, EndedChecked
<1>4. UniqueActive'
  BY DEF HandlerInv, UniqueActive, NoInvitation
<1>5. MailAfterCommit'
  BY <1>0 DEF HandlerInv, MailAfterCommit, NoInvitation, TypeOK
<1> QED BY <1>1, <1>2, <1>3, <1>4, <1>5 DEF HandlerInv, Private

\* The caller of a member route still qualifies when his handler writes.
LEMMA WriterQualified ==
  ASSUME HandlerInv, NEW r \in Requests, pc[r] \in {"write", "cascade"}, arg[r] \in MemberRouteArg
  PROVE ActorRows(r, ActorRoles(arg[r].op)) # {}
BY DEF HandlerInv, Checked, ActorHeld

\* update_membership and remove_membership.
LEMMA MemberChangePromised ==
  ASSUME TenancyInv, HandlerInv, NEW r \in Requests, WriteRole(r) \/ WriteRemoval(r)
  PROVE HandlerInv' /\ Promised(r)
<1> DEFINE t == arg[r].target
<1>0. /\ TypeOK /\ RequestInv(r) /\ pc[r] = "write" /\ arg[r] \in MemberChangeArg
      /\ t \in MemIds /\ arg[r] \in MemberRouteArg
  BY ArgByOp, OpOfArg DEF TenancyInv, RequestInv, ArgOK, WriteRole, WriteRemoval, MemberChangeArg,
     MemberRouteArg
<1>1. mlock[t] = r /\ t \in MembersOf(arg[r].org) /\ RowExists(member[t])
  BY <1>0 DEF RequestInv, TargetHeld, TargetSelected, MembersOf
<1>2. /\ UNCHANGED <<org, invite, mail>> /\ End(r) /\ Goto(r, "idle")
      /\ arg' = [arg EXCEPT ![r] = NoArg]
      /\ \E action : audited' = {Entry(arg[r].org, arg[r].user, action)}
  BY DEF WriteRole, WriteRemoval, Commit
<1>3. \A m \in MemIds : m # t => member'[m] = member[m]
  BY <1>0 DEF WriteRole, WriteRemoval, TypeOK
<1>4. NoInvitation
  BY <1>2 DEF NoInvitation
<1>5. HandlerInv' /\ \A q \in Requests \ {r} : arg'[q] = arg[q]
  BY <1>1, <1>2, <1>3, <1>4, CommitChecked
<1>6. Isolated(r)
  BY <1>1, <1>2, <1>3 DEF Isolated
<1>7. Admission
  <2>1. member[t] # Free
    BY <1>1 DEF RowExists
  <2> QED BY <1>3, <2>1 DEF Admission, RowExists
<1>8. \E e \in audited' : e.user = arg[r].user
  BY <1>2 DEF Entry
<1> QED BY <1>0, <1>5, <1>6, <1>7, <1>8, WriterQualified DEF Promised

LEMMA WriteSlugPromised ==
  ASSUME TenancyInv, HandlerInv, NEW r \in Requests, WriteSlug(r)
  PROVE HandlerInv' /\ (UNCHANGED tables \/ Promised(r))
<1>1. CASE Rollback(r)
  BY <1>1, RollbackChecked DEF Rollback
<1>2. CASE ~Rollback(r)
  <2>0. TypeOK /\ pc[r] = "write" /\ arg[r] \in MemberRouteArg
    BY ArgByOp DEF TenancyInv, RequestInv, ArgOK, WriteSlug, MemberRouteArg
  <2>1. /\ org' = [org EXCEPT ![arg[r].org] = arg[r].slug]
        /\ UNCHANGED <<member, invite, mail>> /\ End(r) /\ Goto(r, "idle")
        /\ arg' = [arg EXCEPT ![r] = NoArg]
        /\ audited' = {Entry(arg[r].org, arg[r].user, "organization.updated")}
    BY <1>2 DEF WriteSlug, Commit
  <2>2. NoInvitation
    BY <2>1 DEF NoInvitation
  <2>3. HandlerInv' /\ \A q \in Requests \ {r} : arg'[q] = arg[q]
    BY <2>1, <2>2, CommitChecked
  <2>4. Isolated(r)
    BY <2>0, <2>1 DEF Isolated, TypeOK
  <2>5. Admission
    BY <2>1 DEF Admission, RowExists
  <2>6. \E e \in audited' : e.user = arg[r].user
    BY <2>1 DEF Entry
  <2> QED BY <2>0, <2>3, <2>4, <2>5, <2>6, WriterQualified DEF Promised
<1> QED BY <1>1, <1>2

\* create_organization admits its founder to an organization that is new.
LEMMA WriteOrgPromised ==
  ASSUME TenancyInv, HandlerInv, NEW r \in Requests, WriteOrg(r)
  PROVE HandlerInv' /\ (UNCHANGED tables \/ Promised(r))
<1>1. CASE Rollback(r)
  BY <1>1, RollbackChecked DEF Rollback
<1>2. CASE ~Rollback(r)
  <2>0. TypeOK /\ arg[r] \in CreateOrgArg
    BY ArgByOp DEF TenancyInv, RequestInv, ArgOK, WriteOrg
  <2>1. PICK o \in FreeIds(org), m \in FreeIds(member) :
          /\ member' = [member EXCEPT ![m] = [org |-> o, user |-> arg[r].user, role |-> "OWNER"]]
          /\ Commit(r, {Entry(o, arg[r].user, "organization.created")})
          /\ UNCHANGED invite
    BY <1>2 DEF WriteOrg
  <2>2. o \in Orgs /\ org[o] = Free /\ m \in MemIds /\ member[m] = Free
    BY <2>0, <2>1 DEF FreeIds, TypeOK
  <2>3. /\ \A n \in MemIds \ {m} : member'[n] = member[n]
        /\ member'[m].org = o
    BY <2>0, <2>1, <2>2 DEF TypeOK
  <2>4. /\ UNCHANGED mail /\ End(r) /\ Goto(r, "idle") /\ arg' = [arg EXCEPT ![r] = NoArg]
        /\ audited' = {Entry(o, arg[r].user, "organization.created")}
    BY <2>1 DEF Commit
  <2>5. NoInvitation
    BY <2>1 DEF NoInvitation
  <2>6. HandlerInv' /\ \A q \in Requests \ {r} : arg'[q] = arg[q]
    BY <2>1, <2>2, <2>3, <2>4, <2>5, CommitChecked DEF RowExists
  <2>7. Admission
    BY <2>2, <2>3 DEF Admission, RowExists
  <2>8. \E e \in audited' : e.user = arg[r].user
    BY <2>4 DEF Entry
  <2>9. arg[r] \notin MemberRouteArg
    BY <2>0, OpOfArg DEF MemberRouteArg
  <2> QED BY <2>6, <2>7, <2>8, <2>9 DEF Promised
<1> QED BY <1>1, <1>2

\* Two invitations of one organization never write together: both would hold
\* its row.
LEMMA WriteInvitationPromised ==
  ASSUME TenancyInv, HandlerInv, NEW r \in Requests, WriteInvitation(r)
  PROVE HandlerInv' /\ Promised(r)
<1>0. /\ TypeOK /\ RequestInv(r) /\ pc[r] = "write" /\ arg[r] \in InviteArg
      /\ arg[r] \in MemberRouteArg /\ arg[r] \in OrgLockArg /\ arg[r].org \in Orgs
      /\ arg[r].email \in Users /\ arg[r].role \in Roles
      /\ ActiveInvites(arg[r].org, arg[r].email) = {}
  BY ArgByOp, OpOfArg DEF TenancyInv, HandlerInv, Checked, InviteChecked, RequestInv, ArgOK,
     WriteInvitation, OrgLockArg, MemberRouteArg
<1> DEFINE row == [org |-> arg[r].org, email |-> arg[r].email,
                   role |-> arg[r].role, state |-> "active"]
<1>1. PICK i \in FreeIds(invite) :
        /\ invite' = [invite EXCEPT ![i] = row]
        /\ arg' = [arg EXCEPT ![r] = [op |-> "mail", invite |-> i]]
  BY DEF WriteInvitation
<1>2. /\ End(r) /\ Goto(r, "mail") /\ UNCHANGED <<org, member, mail>>
      /\ audited' = {Entry(arg[r].org, arg[r].user, "member.invited")}
  BY DEF WriteInvitation
<1>3. i \in InvIds /\ invite[i] = Free
  BY <1>0, <1>1 DEF FreeIds, TypeOK
<1>4. row \in InviteRow /\ row.org = arg[r].org /\ row.email = arg[r].email
  BY <1>0 DEF InviteRow
<1>5. row # Free
  BY <1>4, KeyAssumption
<1> HIDE DEF row
<1>6. invite'[i] = row /\ \A j \in InvIds \ {i} : invite'[j] = invite[j]
  BY <1>0, <1>1, <1>3 DEF TypeOK
<1>7. Private(r)
  BY <1>0, <1>1, <1>2, EndPrivate
<1>8. ASSUME NEW q \in Requests \ {r} PROVE Checked(q)'
  <2>0. RequestInv(q) /\ Checked(q)
    BY DEF TenancyInv, HandlerInv
  <2>1. ActorHeld(q)'
    BY <1>2, <1>7, <2>0 DEF Private, Checked, ActorHeld, ActorRows, MembershipOf, MembersOf
  <2>2. InviteChecked(q)'
    <3>1. SUFFICES ASSUME pc[q] = "write", arg[q] \in InviteArg
                   PROVE ActiveInvites(arg[q].org, arg[q].email)' = {}
      BY <1>7 DEF Private, InviteChecked
    <3>2. arg[q].org # arg[r].org
      BY <1>0, <2>0, <3>1, OpOfArg DEF RequestInv, OrgHeld, OrgLockArg
    <3>3. ActiveInvites(arg[q].org, arg[q].email) = {}
      BY <2>0, <3>1 DEF Checked, InviteChecked
    <3>4. arg'[q] = arg[q]
      BY <1>7 DEF Private
    <3> QED BY <1>4, <1>6, <3>2, <3>3, <3>4 DEF ActiveInvites, InvitesOf
  <2>3. AcceptanceChecked(q)'
    <3>1. SUFFICES ASSUME pc[q] = "write", arg[q] \in AcceptArg
                   PROVE AcceptanceChecked(q)'
      BY <1>7 DEF Private, AcceptanceChecked
    <3>2. arg[q].invite \in InvIds /\ RowExists(invite[arg[q].invite])
      BY <2>0, <3>1, OpOfArg DEF RequestInv, InvitationHeld
    <3>3. arg[q].invite # i
      BY <1>3, <3>2 DEF RowExists
    <3> QED BY <1>6, <1>7, <2>0, <3>2, <3>3 DEF Private, Checked, AcceptanceChecked
  <2>4. TokenCommitted(q)'
    <3>1. pc[q] = "mail" => arg[q].invite \in InvIds
      BY <2>0, OpOfArg DEF RequestInv, ArgOK
    <3> QED BY <1>5, <1>6, <1>7, <2>0, <3>1 DEF Private, Checked, TokenCommitted
  <2> QED BY <2>1, <2>2, <2>3, <2>4 DEF Checked
<1>9. Checked(r)'
  <2>1. pc'[r] = "mail" /\ arg'[r] = [op |-> "mail", invite |-> i]
    BY <1>0, <1>1, <1>2 DEF TypeOK, Goto
  <2>2. pc'[r] = "mail" /\ arg'[r].invite = i
    BY <2>1
  <2> QED BY <1>5, <1>6, <2>2 DEF Checked, ActorHeld, InviteChecked, AcceptanceChecked, TokenCommitted
<1>10. UniqueActive'
  <2>1. \A j \in InvIds : Active(invite[j]) => invite[j].org # arg[r].org \/ invite[j].email # arg[r].email
    BY <1>0 DEF Active, ActiveInvites, InvitesOf
  <2> QED BY <1>4, <1>6, <2>1 DEF HandlerInv, UniqueActive
<1>11. MailAfterCommit'
  BY <1>0, <1>2, <1>5, <1>6 DEF HandlerInv, MailAfterCommit, TypeOK
<1>12. Isolated(r) /\ Admission
  BY <1>2, <1>3, <1>6 DEF Isolated, Admission, RowExists
<1>13. \E e \in audited' : e.user = arg[r].user
  BY <1>2 DEF Entry
<1> QED BY <1>0, <1>7, <1>8, <1>9, <1>10, <1>11, <1>12, <1>13, WriterQualified
        DEF HandlerInv, Promised, Private


\* accept_invitation uses up the invitation it has locked and checked.
LEMMA WriteAcceptancePromised ==
  ASSUME TenancyInv, HandlerInv, NEW r \in Requests, WriteAcceptance(r)
  PROVE HandlerInv' /\ (UNCHANGED tables \/ Promised(r))
<1>1. CASE Rollback(r)
  BY <1>1, RollbackChecked DEF Rollback
<1>2. CASE ~Rollback(r)
  <2> DEFINE i == arg[r].invite
             o == invite[i].org
             used == [invite[i] EXCEPT !.state = "used"]
  <2>0. /\ TypeOK /\ RequestInv(r) /\ Checked(r) /\ pc[r] = "write" /\ arg[r] \in AcceptArg
        /\ i \in InvIds /\ arg[r].user \in Users
    BY ArgByOp, OpOfArg DEF TenancyInv, HandlerInv, RequestInv, ArgOK, WriteAcceptance
  <2>1. /\ RowExists(invite[i]) /\ ilock[i] = r /\ invite[i] \in InviteRow
        /\ invite[i].state # "used" /\ invite[i].email = arg[r].user
    BY <2>0, InviteFields DEF RequestInv, InvitationHeld, Checked, AcceptanceChecked
  <2>2. /\ \E m \in FreeIds(member) : member' = [member EXCEPT ![m] =
               [org |-> o, user |-> arg[r].user, role |-> invite[i].role]]
        /\ invite' = [invite EXCEPT ![i] = used]
        /\ Commit(r, {Entry(o, arg[r].user, "invitation.accepted")})
        /\ UNCHANGED org
    BY <1>2, <2>0, <2>1 DEF WriteAcceptance, TypeOK
  <2>3. PICK m \in MemIds :
          /\ member[m] = Free
          /\ member' = [member EXCEPT ![m] =
               [org |-> o, user |-> arg[r].user, role |-> invite[i].role]]
    BY <2>0, <2>2 DEF FreeIds, TypeOK
  <2>4. /\ \A n \in MemIds \ {m} : member'[n] = member[n]
        /\ member'[m].org = o /\ member'[m].user = arg[r].user /\ member'[m].role = invite[i].role
    BY <2>0, <2>3 DEF TypeOK
  <2>5. used \in InviteRow /\ used.state = "used"
    BY <2>1 DEF InviteRow
  <2>6. used # Free
    BY <2>5, KeyAssumption
  <2> HIDE DEF used
  <2>7. invite'[i] = used /\ \A j \in InvIds \ {i} : invite'[j] = invite[j]
    BY <2>0, <2>2 DEF TypeOK
  <2>8. NoInvitation
    BY <2>5, <2>6, <2>7 DEF NoInvitation, Active
  <2>9. /\ UNCHANGED mail /\ End(r) /\ Goto(r, "idle") /\ arg' = [arg EXCEPT ![r] = NoArg]
        /\ audited' = {Entry(o, arg[r].user, "invitation.accepted")}
    BY <2>2 DEF Commit
  <2>10. /\ \A n \in MemIds : RowExists(member[n]) => member'[n] = member[n]
         /\ \A j \in InvIds : ilock[j] # r => invite'[j] = invite[j]
    BY <2>1, <2>3, <2>4, <2>7 DEF RowExists
  <2>11. HandlerInv' /\ \A q \in Requests \ {r} : arg'[q] = arg[q]
    BY <2>8, <2>9, <2>10, CommitChecked
  <2>12. Admission
    BY <2>0, <2>1, <2>4, <2>5, <2>7 DEF Admission, RowExists
  <2>13. \E e \in audited' : e.user = arg[r].user
    BY <2>9 DEF Entry
  <2>14. arg[r] \notin MemberRouteArg
    BY <2>0, OpOfArg DEF MemberRouteArg
  <2> QED BY <2>11, <2>12, <2>13, <2>14 DEF Promised
<1> QED BY <1>1, <1>2

LEMMA DeleteOrgPromised ==
  ASSUME TenancyInv, HandlerInv, NEW r \in Requests, DeleteOrg(r)
  PROVE HandlerInv' /\ Promised(r)
<1> DEFINE o == arg[r].org
<1>0. /\ TypeOK /\ pc[r] = "cascade" /\ arg[r] \in DeleteOrgArg /\ arg[r] \in MemberRouteArg
      /\ arg[r].op = "delete_org" /\ o \in Orgs
  BY OpOfArg DEF TenancyInv, RequestInv, ArgOK, DeleteOrg, MemberRouteArg
<1>1. /\ org' = [org EXCEPT ![o] = Gone]
      /\ member' = [m \in MemIds |-> IF m \in MembersOf(o) THEN Gone ELSE member[m]]
      /\ invite' = [i \in InvIds |-> IF i \in InvitesOf(o) THEN Gone ELSE invite[i]]
      /\ End(r) /\ Goto(r, "idle") /\ arg' = [arg EXCEPT ![r] = NoArg] /\ UNCHANGED mail
  BY DEF DeleteOrg, Commit
<1>2. /\ \A m \in MembersOf(o) : mlock[m] = r
      /\ \A i \in InvitesOf(o) : ilock[i] = r
  BY DEF DeleteOrg, UncascadedMembers, UncascadedInvites
<1>3. /\ \A m \in MemIds : member'[m] = member[m] \/ (m \in MembersOf(o) /\ member'[m] = Gone)
      /\ \A i \in InvIds : invite'[i] = invite[i] \/ (i \in InvitesOf(o) /\ invite'[i] = Gone)
      /\ \A p \in Orgs : p # o => org'[p] = org[p]
  BY <1>0, <1>1 DEF TypeOK
<1>4. NoInvitation
  BY <1>3, KeyAssumption DEF NoInvitation, Active, RowExists
<1>5. HandlerInv' /\ \A q \in Requests \ {r} : arg'[q] = arg[q]
  BY <1>1, <1>2, <1>3, <1>4, CommitChecked
<1>6. Isolated(r)
  BY <1>3 DEF Isolated
<1>7. Admission
  BY <1>3 DEF Admission, RowExists
<1> QED BY <1>0, <1>5, <1>6, <1>7, WriterQualified DEF Promised

-----------------------------------------------------------------------------
LEMMA HandlerInit == Init => HandlerInv
<1> SUFFICES ASSUME Init PROVE HandlerInv
  OBVIOUS
<1>1. UniqueActive /\ MailAfterCommit
  BY DEF Init, UniqueActive, Active, RowExists, MailAfterCommit
<1>2. ASSUME NEW r \in Requests PROVE Checked(r)
  BY DEF Init, Checked, ActorHeld, InviteChecked, AcceptanceChecked, TokenCommitted
<1> QED BY <1>1, <1>2 DEF HandlerInv

\* A step keeps HandlerInv, and when it changes a table it is time that passes
\* or the write of one request, which keeps its promises.
StepKind ==
  \/ UNCHANGED tables
  \/ UNCHANGED <<org, member, arg>>
  \/ \E r \in Requests : Promised(r)

LEMMA HandlerStep == TenancyInv /\ HandlerInv /\ [Next]_vars => HandlerInv' /\ StepKind
<1> SUFFICES ASSUME TenancyInv, HandlerInv, [Next]_vars PROVE HandlerInv' /\ StepKind
  OBVIOUS
<1>1. CASE Expire
  BY <1>1, ExpireChecked DEF StepKind
<1>2. ASSUME NEW r \in Requests, Begin(r) PROVE HandlerInv' /\ StepKind
  BY <1>2, BeginChecked DEF StepKind
<1>3. ASSUME NEW r \in Requests, Acquire(r) PROVE HandlerInv' /\ StepKind
  BY <1>3, LockOrgChecked, LockActorChecked, LockTargetChecked, OwnersChecked,
     LockInvitationChecked, CascadeChecked DEF Acquire, StepKind
<1>4. ASSUME NEW r \in Requests, Decide(r) PROVE HandlerInv' /\ StepKind
  BY <1>4, OwnersChecked, LookupChecked, EnqueueEmailChecked DEF Decide, StepKind
<1>5. ASSUME NEW r \in Requests, Write(r) PROVE HandlerInv' /\ StepKind
  BY <1>5, MemberChangePromised, WriteSlugPromised, WriteOrgPromised, WriteInvitationPromised,
     WriteAcceptancePromised, DeleteOrgPromised DEF Write, StepKind
<1>6. ASSUME NEW r \in Requests, DeadlockAbort(r) \/ Abort(r) PROVE HandlerInv' /\ StepKind
  BY <1>6, RollbackChecked DEF DeadlockAbort, Abort, Rollback, StepKind
<1>7. CASE UNCHANGED vars
  <2>1. UNCHANGED <<member, invite, mail, pc, arg, mlock, ilock>> /\ UNCHANGED tables
    BY <1>7 DEF vars, tables
  <2>2. NoInvitation /\ \A q \in Requests : Untouched(q)
    BY <2>1 DEF NoInvitation, Untouched
  <2>3. UniqueActive' /\ MailAfterCommit'
    BY <2>1 DEF HandlerInv, UniqueActive, MailAfterCommit
  <2> QED BY <2>1, <2>2, <2>3, UntouchedChecked DEF HandlerInv, StepKind
<1> QED BY <1>1, <1>2, <1>3, <1>4, <1>5, <1>6, <1>7 DEF Next

\* Whatever a handler has checked under its locks still holds when it writes.
THEOREM ChecksHold == Spec => []HandlerInv
BY HandlerInit, HandlerStep, TenancyCorrect, PTL DEF Spec

\* Concurrent create_invitation requests never leave two invitations for one
\* address that can both be accepted.
THEOREM InvitedOnce == Spec => []OneActiveInvitation
<1>1. HandlerInv => OneActiveInvitation
  <2>1. SUFFICES ASSUME HandlerInv, NEW o \in Orgs, NEW u \in Users
                 PROVE Cardinality(ActiveInvites(o, u)) <= 1
    BY DEF OneActiveInvitation
  <2>2. \A i, j \in ActiveInvites(o, u) : i = j
    BY <2>1 DEF HandlerInv, UniqueActive, Active, ActiveInvites, InvitesOf
  <2>3. CASE ActiveInvites(o, u) = {}
    BY <2>3, FS_EmptySet
  <2>4. CASE ActiveInvites(o, u) # {}
    <3>1. PICK i : i \in ActiveInvites(o, u)
      BY <2>4
    <3>2. ActiveInvites(o, u) = {i}
      BY <2>2, <3>1
    <3> QED BY <3>2, FS_Singleton
  <2> QED BY <2>3, <2>4
<1> QED BY <1>1, ChecksHold, PTL

\* The e-mail queue never hears of an invitation that was not committed.
THEOREM MailedAfterCommit == Spec => []MailAfterCommit
<1>1. HandlerInv => MailAfterCommit
  BY DEF HandlerInv
<1> QED BY <1>1, ChecksHold, PTL

\* A request that changes a table is the one whose write this step is.
LEMMA WriterKnown ==
  ASSUME TenancyInv, StepKind, NEW r \in Requests, Changes(r)
  PROVE Promised(r) /\ arg[r] \in Arg
<1>1. arg[r] \in Arg
  BY DEF TenancyInv, TypeOK, Changes
<1>2. PICK q \in Requests : Promised(q)
  BY DEF StepKind, Changes, tables
<1>3. q = r
  BY <1>2 DEF Promised, Changes
<1> QED BY <1>1, <1>2, <1>3

\* A caller removed or demoted while his request waited for a lock changes
\* nothing: at every commit of a member route his row still qualifies.
THEOREM CallersQualify == Spec => ActorQualifiedAtCommit
<1> DEFINE Step == \A r \in Requests :
                     Changes(r) /\ arg[r].op \in {"update_member", "remove_member", "invite",
                                                  "update_org", "delete_org"}
                     => ActorRows(r, ActorRoles(arg[r].op)) # {}
<1>1. TenancyInv /\ HandlerInv /\ [Next]_vars => Step
  <2> SUFFICES ASSUME TenancyInv, StepKind, NEW r \in Requests, Changes(r),
                      arg[r].op \in {"update_member", "remove_member", "invite",
                                     "update_org", "delete_org"}
               PROVE ActorRows(r, ActorRoles(arg[r].op)) # {}
    BY HandlerStep
  <2>1. arg[r] \in MemberRouteArg
    BY WriterKnown, ArgByOp DEF MemberRouteArg
  <2> QED BY <2>1, WriterKnown DEF Promised
<1>2. TenancyInv /\ HandlerInv /\ [Next]_vars => [Step]_vars
  BY <1>1
<1>3. QED BY <1>2, TenancyCorrect, ChecksHold, PTL DEF Spec, ActorQualifiedAtCommit

\* A request on the path of one organization changes no row of another.
THEOREM TenantsIsolated == Spec => TenantIsolation
<1> DEFINE Step == \A r \in Requests :
                     Changes(r) /\ arg[r] \in MemberRouteArg =>
                       /\ \A o \in Orgs : org'[o] # org[o] => o = arg[r].org
                       /\ \A m \in MemIds : member'[m] # member[m] => m \in MembersOf(arg[r].org)
                       /\ \A i \in InvIds : invite'[i] # invite[i] /\ RowExists(invite[i])
                                              => i \in InvitesOf(arg[r].org)
<1>1. TenancyInv /\ HandlerInv /\ [Next]_vars => Step
  BY HandlerStep, WriterKnown DEF Promised, Isolated
<1>2. TenancyInv /\ HandlerInv /\ [Next]_vars => [Step]_vars
  BY <1>1
<1>3. QED BY <1>2, TenancyCorrect, ChecksHold, PTL DEF Spec, TenantIsolation

\* A user enters an existing organization only through an invitation to his
\* address, with its role, and each invitation admits once.
AdmittedByInvitation ==
  [][\A m \in MemIds :
       /\ member[m] = Free /\ RowExists(member'[m])
       /\ RowExists(org[member'[m].org])
       => \E i \in InvIds :
            /\ RowExists(invite[i]) /\ invite[i].state # "used"
            /\ invite'[i].state = "used"
            /\ invite[i].org = member'[m].org
            /\ invite[i].email = member'[m].user
            /\ invite[i].role = member'[m].role]_vars

\* Nobody enters an existing organization but through an unused invitation to
\* his address, with its role, which the same commit uses up.
THEOREM EntryByInvitation == Spec => AdmittedByInvitation
<1> DEFINE Step == \A m \in MemIds :
                     /\ member[m] = Free /\ RowExists(member'[m])
                     /\ RowExists(org[member'[m].org])
                     => \E i \in InvIds :
                          /\ RowExists(invite[i]) /\ invite[i].state # "used"
                          /\ invite'[i].state = "used"
                          /\ invite[i].org = member'[m].org
                          /\ invite[i].email = member'[m].user
                          /\ invite[i].role = member'[m].role
<1>1. TenancyInv /\ HandlerInv /\ [Next]_vars => Step
  <2> SUFFICES ASSUME StepKind PROVE Step
    BY HandlerStep
  <2>1. CASE UNCHANGED member
    BY <2>1 DEF RowExists
  <2>2. CASE ~UNCHANGED member
    BY <2>2 DEF StepKind, tables, Promised, Admission
  <2> QED BY <2>1, <2>2
<1>2. TenancyInv /\ HandlerInv /\ [Next]_vars => [Step]_vars
  BY <1>1
<1>3. QED BY <1>2, TenancyCorrect, ChecksHold, PTL DEF Spec, AdmittedByInvitation

\* Every change an organization survives leaves an audit row of its own,
\* in the same transaction, that names the caller.
ChangesAudited ==
  [][\A r \in Requests :
       Changes(r) /\ arg[r].op # "delete_org"
       => \E e \in audited' : e.user = arg[r].user]_vars

\* Every change an organization survives commits with an audit row that names
\* the caller.
THEOREM EveryChangeAudited == Spec => ChangesAudited
<1> DEFINE Step == \A r \in Requests :
                     Changes(r) /\ arg[r].op # "delete_org"
                     => \E e \in audited' : e.user = arg[r].user
<1>1. TenancyInv /\ HandlerInv /\ [Next]_vars => Step
  BY HandlerStep, WriterKnown DEF Promised
<1>2. TenancyInv /\ HandlerInv /\ [Next]_vars => [Step]_vars
  BY <1>1
<1>3. QED BY <1>2, TenancyCorrect, ChecksHold, PTL DEF Spec, ChangesAudited

-----------------------------------------------------------------------------
(* The address a request is about to invite is still outside when it writes:  *)
(* who admits a member waits for the organization's row.                      *)

Outside(r) ==
  pc[r] = "write" /\ arg[r] \in InviteArg => MembershipOf(arg[r].org, arg[r].email) = {}
AddressInv == \A r \in Requests : Outside(r)

\* Nobody enters an organization in this step.
NoEntry(o) ==
  \A m \in MemIds : RowExists(member'[m]) /\ member'[m].org = o =>
    RowExists(member[m]) /\ member[m].org = o /\ member[m].user = member'[m].user

LEMMA OutsideKept ==
  ASSUME NEW q \in Requests, Outside(q), pc'[q] = pc[q], arg'[q] = arg[q],
         pc[q] = "write" /\ arg[q] \in InviteArg => NoEntry(arg[q].org)
  PROVE  Outside(q)'
BY DEF Outside, NoEntry, MembershipOf, MembersOf

\* A step of r moves r only.
LEMMA OnlyOneMoves ==
  ASSUME TypeOK, NEW r \in Requests,
         Begin(r) \/ Acquire(r) \/ Decide(r) \/ Write(r) \/ DeadlockAbort(r) \/ Abort(r)
  PROVE  \A q \in Requests \ {r} : pc'[q] = pc[q] /\ arg'[q] = arg[q]
<1> USE DEF TypeOK, Goto
<1>1. CASE Begin(r)
  BY <1>1 DEF Begin, BeginMemberRoute, BeginCreateOrg, BeginAccept
<1>2. CASE Rollback(r)
  BY <1>2 DEF Rollback
<1>3. CASE Acquire(r) /\ ~Rollback(r)
  BY <1>3 DEF Acquire, LockOrg, LockActor, LockTarget, LockOwner, LockInvitation, Cascade
<1>4. CASE Decide(r) /\ ~Rollback(r)
  BY <1>4 DEF Decide, ScanOwners, EnsureAnotherOwner, CheckSlug, CheckInvitation, EnqueueEmail
<1>5. CASE Write(r) /\ ~Rollback(r)
  BY <1>5 DEF Write, WriteRole, WriteRemoval, WriteSlug, WriteOrg, WriteInvitation,
     WriteAcceptance, DeleteOrg, Commit
<1> QED BY <1>1, <1>2, <1>3, <1>4, <1>5 DEF DeadlockAbort, Abort

\* An invitation is written after its look-up.
LEMMA WritesAfterLookup ==
  ASSUME TenancyInv, NEW r \in Requests,
         Begin(r) \/ Acquire(r) \/ Decide(r) \/ Write(r) \/ DeadlockAbort(r) \/ Abort(r),
         pc'[r] = "write", arg'[r] \in InviteArg
  PROVE  /\ member' = member /\ MembershipOf(arg'[r].org, arg'[r].email) = {}
<1>0. TypeOK /\ RequestInv(r) /\ ArgOK(r) /\ arg'[r].op = "invite"
  BY OpOfArg DEF TenancyInv, RequestInv
<1> USE <1>0 DEF TypeOK, Goto
<1>1. ~Rollback(r) /\ ~Begin(r)
  BY DEF Rollback, Begin, BeginMemberRoute, BeginCreateOrg, BeginAccept, FirstStep
<1>2. ~Write(r)
  BY <1>1 DEF Write, WriteRole, WriteRemoval, WriteSlug, WriteOrg, WriteInvitation,
     WriteAcceptance, DeleteOrg, Commit
<1>3. ~(LockOrg(r) \/ Cascade(r) \/ LockOwner(r))
  BY <1>1 DEF LockOrg, Cascade, LockOwner
<1>4. ~LockActor(r)
  BY <1>1 DEF LockActor, AfterActor
<1>5. ~LockTarget(r) /\ ~EnsureAnotherOwner(r)
  <2>1. arg[r] \in MemberChangeArg => arg[r] \notin InviteArg
    BY OpOfArg DEF MemberChangeArg
  <2> QED BY <1>1, <2>1 DEF LockTarget, EnsureAnotherOwner, ArgOK
<1>6. ~LockInvitation(r)
  <2>1. arg[r] \in AcceptArg => arg[r] \notin InviteArg
    BY OpOfArg
  <2> QED BY <1>1, <2>1 DEF LockInvitation, ArgOK
<1>7. ~(ScanOwners(r) \/ EnqueueEmail(r) \/ CheckSlug(r))
  BY <1>1 DEF ScanOwners, EnqueueEmail, CheckSlug
<1>8. CheckInvitation(r)
  BY <1>1, <1>2, <1>3, <1>4, <1>5, <1>6, <1>7 DEF Acquire, Decide, DeadlockAbort, Abort
<1> QED BY <1>1, <1>8 DEF CheckInvitation, Working, tables

LEMMA EntryWaits ==
  ASSUME TenancyInv, NEW r \in Requests, NEW q \in Requests \ {r},
         Begin(r) \/ Acquire(r) \/ Decide(r) \/ Write(r) \/ DeadlockAbort(r) \/ Abort(r),
         pc[q] = "write", arg[q] \in InviteArg
  PROVE  NoEntry(arg[q].org)
<1>0. /\ TypeOK /\ RequestInv(r) /\ RequestInv(q) /\ arg[q].org \in Orgs
      /\ olock[arg[q].org] = q /\ RowExists(org[arg[q].org])
  BY OpOfArg DEF TenancyInv, RequestInv, OrgHeld, OrgLockArg
<1>1. CASE member' = member
  BY <1>1 DEF NoEntry
<1>2. CASE WriteRole(r) \/ WriteRemoval(r)
  <2> DEFINE t == arg[r].target
  <2>1. pc[r] = "write" /\ arg[r] \in MemberChangeArg /\ t \in MemIds
    BY <1>0, <1>2, ArgByOp, OpOfArg DEF RequestInv, ArgOK, WriteRole, WriteRemoval, MemberChangeArg
  <2>2. RowExists(member[t]) /\ member[t] \in MemberRow
    BY <1>0, <2>1, MemberFields DEF RequestInv, TargetHeld, TargetSelected, MembersOf
  <2>3. \/ member' = member
        \/ member' = [member EXCEPT ![t] = [member[t] EXCEPT !.role = arg[r].role]]
        \/ member' = [member EXCEPT ![t] = Gone]
    BY <1>2 DEF WriteRole, WriteRemoval
  <2>4. \A m \in MemIds \ {t} : member'[m] = member[m]
    BY <1>0, <2>1, <2>3 DEF TypeOK
  <2>5. RowExists(member'[t]) => member'[t].org = member[t].org /\ member'[t].user = member[t].user
    <3>1. CASE member' = member
      BY <3>1
    <3>2. CASE member' = [member EXCEPT ![t] = [member[t] EXCEPT !.role = arg[r].role]]
      BY <1>0, <2>1, <2>2, <3>2 DEF TypeOK, MemberRow
    <3>3. CASE member' = [member EXCEPT ![t] = Gone]
      BY <1>0, <2>1, <3>3 DEF TypeOK, RowExists
    <3> QED BY <2>3, <3>1, <3>2, <3>3
  <2> HIDE DEF t
  <2> QED BY <2>2, <2>4, <2>5 DEF NoEntry
<1>3. CASE DeleteOrg(r)
  BY <1>0, <1>3 DEF DeleteOrg, NoEntry, RowExists
<1>4. CASE WriteOrg(r) /\ ~Rollback(r)
  <2>1. PICK o \in FreeIds(org), m \in FreeIds(member) :
          member' = [member EXCEPT ![m] = [org |-> o, user |-> arg[r].user, role |-> "OWNER"]]
    BY <1>4 DEF WriteOrg
  <2>2. org[o] = Free /\ o # arg[q].org
    BY <1>0, <2>1 DEF FreeIds, RowExists
  <2> QED BY <1>0, <2>1, <2>2 DEF NoEntry, TypeOK
<1>5. CASE WriteAcceptance(r) /\ ~Rollback(r)
  <2> DEFINE o == invite[arg[r].invite].org
  <2>1. PICK m \in FreeIds(member) : member' = [member EXCEPT ![m] =
           [org |-> o, user |-> arg[r].user, role |-> invite[arg[r].invite].role]]
    BY <1>5 DEF WriteAcceptance
  <2>2. olock[o] \in {NoReq, r}
    BY <1>5 DEF WriteAcceptance, KeyShare, Available
  <2>3. o # arg[q].org
    BY <1>0, <2>2, NoReqAssumption
  <2> QED BY <1>0, <2>1, <2>3 DEF NoEntry, TypeOK
<1>6. CASE ~Write(r)
  <2>1. member' = member
    BY <1>6 DEF Begin, BeginMemberRoute, BeginCreateOrg, BeginAccept, Acquire, LockOrg, LockActor,
       LockTarget, LockOwner, LockInvitation, Cascade, Decide, ScanOwners, EnsureAnotherOwner,
       CheckSlug, CheckInvitation, EnqueueEmail, DeadlockAbort, Abort, Rollback, Working, tables
  <2> QED BY <1>1, <2>1
<1>7. CASE WriteSlug(r) \/ WriteInvitation(r) \/ Rollback(r)
  BY <1>1, <1>7 DEF WriteSlug, WriteInvitation, Rollback, tables
<1> QED BY <1>2, <1>3, <1>4, <1>5, <1>6, <1>7 DEF Write

LEMMA AddressStep == TenancyInv /\ AddressInv /\ [Next]_vars => AddressInv'
<1> SUFFICES ASSUME TenancyInv, AddressInv, [Next]_vars, NEW q \in Requests PROVE Outside(q)'
  BY DEF AddressInv
<1>0. TypeOK /\ Outside(q)
  BY DEF TenancyInv, AddressInv
<1>1. CASE UNCHANGED <<member, pc, arg>>
  BY <1>0, <1>1 DEF Outside, MembershipOf, MembersOf
<1>2. ASSUME NEW r \in Requests,
             Begin(r) \/ Acquire(r) \/ Decide(r) \/ Write(r) \/ DeadlockAbort(r) \/ Abort(r)
      PROVE  Outside(q)'
  <2>1. CASE q = r
    BY <1>2, <2>1, WritesAfterLookup DEF Outside, MembershipOf, MembersOf
  <2>2. CASE q # r
    <3>1. pc'[q] = pc[q] /\ arg'[q] = arg[q]
      BY <1>0, <1>2, <2>2, OnlyOneMoves
    <3>2. pc[q] = "write" /\ arg[q] \in InviteArg => NoEntry(arg[q].org)
      BY <1>2, <2>2, EntryWaits
    <3> QED BY <1>0, <3>1, <3>2, OutsideKept
  <2> QED BY <2>1, <2>2
<1>3. CASE Expire
  BY <1>1, <1>3 DEF Expire
<1>4. CASE UNCHANGED vars
  BY <1>1, <1>4 DEF vars
<1> QED BY <1>2, <1>3, <1>4 DEF Next

LEMMA AddressInit == Init => AddressInv
BY DEF Init, AddressInv, Outside

\* Nobody joins an organization between create_invitation's look-up of the address
\* and its insert.
THEOREM InviteeStaysOutside == Spec => []AddressInv
BY AddressInit, AddressStep, TenancyCorrect, PTL DEF Spec

-----------------------------------------------------------------------------
(* Tenancy implements TenancyContract.  First the table of roles: what a table *)
(* of memberships with one row for each user and organization says.            *)

RowsIn(mem, o, u) == {m \in MemIds : RowExists(mem[m]) /\ mem[m].org = o /\ mem[m].user = u}
RoleBy(mem, o, u) ==
  LET rows == RowsIn(mem, o, u)
  IN IF rows = {} THEN NoRole ELSE mem[CHOOSE m \in rows : TRUE].role
TableBy(mem) == [o \in Orgs |-> [u \in Users |-> RoleBy(mem, o, u)]]
Table(mem) ==
  /\ mem \in [MemIds -> MemberRow \cup {Free, Gone}]
  /\ \A m, n \in MemIds :
       /\ RowExists(mem[m]) /\ RowExists(mem[n])
       /\ mem[m].org = mem[n].org /\ mem[m].user = mem[n].user
       => m = n

LEMMA TableIs ==
  /\ RoleTable = TableBy(member) /\ RoleTable' = TableBy(member')
  /\ TenancyInv => Table(member)
  /\ TenancyInv' => Table(member')
<1>1. RoleTable = TableBy(member)
  <2>1. ASSUME NEW o, NEW u PROVE RoleIn(o, u) = RoleBy(member, o, u)
    <3>1. MembershipOf(o, u) = RowsIn(member, o, u)
      BY DEF MembershipOf, MembersOf, RowsIn
    <3> QED BY <3>1 DEF RoleIn, RoleBy
  <2> QED BY <2>1 DEF RoleTable, TableBy
<1>2. RoleTable' = TableBy(member')
  <2>1. ASSUME NEW o, NEW u PROVE RoleIn(o, u)' = RoleBy(member', o, u)
    <3>1. MembershipOf(o, u)' = RowsIn(member', o, u)
      BY DEF MembershipOf, MembersOf, RowsIn
    <3> QED BY <3>1 DEF RoleIn, RoleBy
  <2> QED BY <2>1 DEF RoleTable, TableBy
<1>3. TenancyInv => Table(member)
  BY DEF TenancyInv, TypeOK, UniqueRows, UniqueMembership, Table
<1>4. TenancyInv' => Table(member')
  BY DEF TenancyInv, TypeOK, UniqueRows, UniqueMembership, Table
<1> QED BY <1>1, <1>2, <1>3, <1>4

\* The role of a row is the role in the table; without a row there is none.
LEMMA RoleOfRow ==
  ASSUME NEW mem, Table(mem), NEW o \in Orgs, NEW u \in Users
  PROVE  /\ TableBy(mem)[o][u] = RoleBy(mem, o, u)
         /\ \A m \in RowsIn(mem, o, u) : RoleBy(mem, o, u) = mem[m].role
         /\ RowsIn(mem, o, u) = {} => RoleBy(mem, o, u) = NoRole
         /\ RowsIn(mem, o, u) # {} => RoleBy(mem, o, u) \in Roles
<1>1. TableBy(mem)[o][u] = RoleBy(mem, o, u)
  BY DEF TableBy
<1>2. ASSUME NEW m \in RowsIn(mem, o, u) PROVE RoleBy(mem, o, u) = mem[m].role /\ mem[m].role \in Roles
  <2> DEFINE c == CHOOSE n \in RowsIn(mem, o, u) : TRUE
  <2>1. c \in RowsIn(mem, o, u)
    BY <1>2
  <2>2. RoleBy(mem, o, u) = mem[c].role
    BY <1>2 DEF RoleBy
  <2> HIDE DEF c
  <2>3. c = m
    BY <1>2, <2>1 DEF RowsIn, Table
  <2>4. mem[m] \in MemberRow
    BY <1>2 DEF RowsIn, Table, RowExists
  <2> QED BY <2>2, <2>3, <2>4 DEF MemberRow
<1>3. RowsIn(mem, o, u) = {} => RoleBy(mem, o, u) = NoRole
  BY DEF RoleBy
<1> QED BY <1>1, <1>2, <1>3

\* One row is inserted, changed or deleted: one entry changes.
LEMMA OneEntryChanges ==
  ASSUME NEW mem, NEW mem1, Table(mem), Table(mem1), NEW m \in MemIds,
         NEW o \in Orgs, NEW u \in Users, NEW new,
         \A n \in MemIds \ {m} : mem1[n] = mem[n],
         RowExists(mem[m]) => mem[m].org = o /\ mem[m].user = u,
         \/ RowExists(mem1[m]) /\ mem1[m].org = o /\ mem1[m].user = u /\ mem1[m].role = new
         \/ ~RowExists(mem1[m]) /\ RowExists(mem[m]) /\ new = NoRole
  PROVE  TableBy(mem1) = [TableBy(mem) EXCEPT ![o][u] = new]
<1>1. ASSUME NEW p \in Orgs, NEW v \in Users, p # o \/ v # u
      PROVE  RoleBy(mem1, p, v) = RoleBy(mem, p, v)
  <2>1. RowsIn(mem1, p, v) = RowsIn(mem, p, v) /\ m \notin RowsIn(mem, p, v)
    BY <1>1 DEF RowsIn
  <2>2. CASE RowsIn(mem, p, v) = {}
    BY <2>1, <2>2 DEF RoleBy
  <2>3. CASE RowsIn(mem, p, v) # {}
    <3>1. PICK n \in RowsIn(mem, p, v) : TRUE
      BY <2>3
    <3>2. mem1[n] = mem[n]
      BY <2>1, <3>1 DEF RowsIn
    <3>3. RoleBy(mem, p, v) = mem[n].role
      BY <3>1, RoleOfRow
    <3>4. RoleBy(mem1, p, v) = mem1[n].role
      BY <2>1, <3>1, RoleOfRow
    <3> QED BY <3>2, <3>3, <3>4
  <2> QED BY <2>2, <2>3
<1>2. RoleBy(mem1, o, u) = new
  <2>1. CASE RowExists(mem1[m])
    <3>1. m \in RowsIn(mem1, o, u) /\ mem1[m].role = new
      BY <2>1 DEF RowsIn
    <3> QED BY <3>1, RoleOfRow
  <2>2. CASE ~RowExists(mem1[m])
    <3>1. RowsIn(mem1, o, u) = {}
      BY <2>2 DEF RowsIn, Table
    <3> QED BY <2>2, <3>1, RoleOfRow
  <2> QED BY <2>1, <2>2
<1> DEFINE new_table == [TableBy(mem) EXCEPT ![o][u] = new]
<1>3. TableBy(mem)[o] = [v \in Users |-> RoleBy(mem, o, v)]
  BY DEF TableBy
<1>4. new_table[o] = [v \in Users |-> IF v = u THEN new ELSE RoleBy(mem, o, v)]
  BY <1>3 DEF TableBy
<1>5. new_table[o] = [v \in Users |-> RoleBy(mem1, o, v)]
  BY <1>1, <1>2, <1>4
<1>6. ASSUME NEW p \in Orgs, p # o
      PROVE  new_table[p] = [v \in Users |-> RoleBy(mem1, p, v)]
  <2>1. new_table[p] = [v \in Users |-> RoleBy(mem, p, v)]
    BY <1>6 DEF TableBy
  <2> QED BY <1>1, <1>6, <2>1
<1>7. new_table = [p \in Orgs |-> new_table[p]]
  BY DEF TableBy
<1> HIDE DEF new_table
<1>8. new_table = TableBy(mem1)
  BY <1>5, <1>6, <1>7 DEF TableBy
<1> QED BY <1>8 DEF new_table

\* The roles of the rows, read from the table.
LEMMA TableRoles ==
  ASSUME TenancyInv, NEW o \in Orgs, NEW u \in Users
  PROVE  /\ \A m \in MembershipOf(o, u) : RoleTable[o][u] = member[m].role /\ member[m].role \in Roles
         /\ MembershipOf(o, u) = {} => RoleTable[o][u] = NoRole
<1>1. RowsIn(member, o, u) = MembershipOf(o, u)
  BY DEF RowsIn, MembershipOf, MembersOf
<1>2. \A m \in MembershipOf(o, u) : member[m].role \in Roles
  BY MemberFields DEF MembershipOf, MembersOf, TenancyInv
<1> QED BY <1>1, <1>2, TableIs, RoleOfRow

\* The caller whose membership the handler holds is the one the audit row names.
LEMMA CallerNamed ==
  ASSUME TenancyInv, NEW r \in Requests, NEW roles, NEW action,
         arg[r].org \in Orgs, arg[r].user \in Users, ActorRows(r, roles) # {},
         audited' = {Entry(arg[r].org, arg[r].user, action)}
  PROVE  C!ByOne(arg[r].org, roles, action)
<1>1. PICK m \in ActorRows(r, roles) : TRUE
  OBVIOUS
<1>2. m \in MembershipOf(arg[r].org, arg[r].user) /\ member[m].role \in roles
  BY <1>1 DEF ActorRows
<1>3. RoleTable[arg[r].org][arg[r].user] \in roles
  BY <1>2, TableRoles
<1> QED BY <1>3 DEF C!ByOne, C!Logs, Entry

LEMMA OwnerShows ==
  ASSUME TenancyInv', NEW o \in Orgs, RowExists(org'[o])
  PROVE  C!HasOwner(o)'
<1>1. PICK m \in MemIds : RowExists(member'[m]) /\ member'[m].org = o /\ member'[m].role = "OWNER"
  BY DEF TenancyInv, LastOwner, OwnersOf, MembersOf
<1>2. Table(member')
  BY TableIs
<1>3. member'[m] \in MemberRow
  BY <1>1, <1>2 DEF Table, RowExists
<1>4. member'[m].user \in Users
  BY <1>3 DEF MemberRow
<1>5. m \in RowsIn(member', o, member'[m].user)
  BY <1>1 DEF RowsIn
<1>6. TableBy(member')[o][member'[m].user] = "OWNER"
  BY <1>1, <1>2, <1>4, <1>5, RoleOfRow
<1> QED BY <1>4, <1>6, TableIs DEF C!HasOwner

-----------------------------------------------------------------------------
(* Step by step.  A step that commits is the contract's operation; the others *)
(* leave the contract's state alone.                                          *)

LEMMA RolesKept ==
  ASSUME member' = member
  PROVE  RoleTable' = RoleTable
BY DEF RoleTable, RoleIn, MembershipOf, MembersOf

LEMMA TablesKept ==
  ASSUME UNCHANGED tables
  PROVE  UNCHANGED C!cvars
BY RolesKept DEF tables, C!cvars

LEMMA RoleChanges ==
  ASSUME TenancyInv, TenancyInv', UNCHANGED <<org, invite>>,
         NEW o \in Orgs, NEW u \in Users, NEW t \in MembershipOf(o, u), NEW new,
         \/ member' = [member EXCEPT ![t] = [member[t] EXCEPT !.role = new]] /\ new \in Roles
         \/ member' = [member EXCEPT ![t] = Gone] /\ new = NoRole
  PROVE  C!ChangeRole(o, u, new)
<1>0. TypeOK /\ t \in MemIds /\ RowExists(member[t]) /\ member[t].org = o /\ member[t].user = u
  BY DEF TenancyInv, MembershipOf, MembersOf
<1>1. member[t] \in MemberRow
  BY <1>0 DEF TypeOK, RowExists
<1>2. RowExists(org[o]) /\ C!Exists(org[o])
  BY <1>0 DEF TenancyInv, NoOrphans, RowExists, C!Exists
<1>3. RoleTable[o][u] # C!NoRole
  BY TableRoles DEF Roles, C!NoRole
<1>4. C!HasOwner(o)'
  <2>1. RowExists(org'[o])
    BY <1>2
  <2> QED BY <2>1, OwnerShows
<1>5. \A n \in MemIds \ {t} : member'[n] = member[n]
  BY <1>0 DEF TypeOK
<1>6. \/ RowExists(member'[t]) /\ member'[t].org = o /\ member'[t].user = u /\ member'[t].role = new
      \/ ~RowExists(member'[t]) /\ RowExists(member[t]) /\ new = NoRole
  <2>1. CASE member' = [member EXCEPT ![t] = [member[t] EXCEPT !.role = new]] /\ new \in Roles
    <3>1. member'[t] = [member[t] EXCEPT !.role = new]
      BY <1>0, <2>1 DEF TypeOK
    <3>2. member'[t] \in MemberRow /\ member'[t].org = o /\ member'[t].user = u /\ member'[t].role = new
      BY <1>0, <1>1, <2>1, <3>1 DEF MemberRow
    <3> QED BY <3>2, KeyAssumption DEF RowExists
  <2>2. CASE member' = [member EXCEPT ![t] = Gone] /\ new = NoRole
    BY <1>0, <2>2 DEF TypeOK, RowExists
  <2> QED BY <2>1, <2>2
<1>7. Table(member) /\ Table(member')
  BY TableIs
<1>8. TableBy(member') = [TableBy(member) EXCEPT ![o][u] = new]
  BY <1>0, <1>5, <1>6, <1>7, OneEntryChanges
<1>9. RoleTable' = [RoleTable EXCEPT ![o][u] = new]
  BY <1>8, TableIs
<1> QED BY <1>2, <1>3, <1>4, <1>9 DEF C!ChangeRole

LEMMA MemberChangeAtomic ==
  ASSUME TenancyInv, TenancyInv', HandlerInv, NEW r \in Requests, WriteRole(r) \/ WriteRemoval(r)
  PROVE  [C!CNext]_(C!cvars)
<1>0. /\ TypeOK /\ RequestInv(r) /\ pc[r] = "write" /\ arg[r] \in MemberChangeArg
      /\ arg[r].target \in MemIds /\ arg[r] \in MemberRouteArg
      /\ arg[r].org \in Orgs /\ arg[r].user \in Users
      /\ arg[r].op = "update_member" => arg[r].role \in Roles
  BY ArgByOp, OpOfArg DEF TenancyInv, RequestInv, ArgOK, WriteRole, WriteRemoval, MemberChangeArg,
     MemberRouteArg
<1>1. PICK t \in MemIds, o \in Orgs : t = arg[r].target /\ o = arg[r].org
  BY <1>0
<1>2. t \in MembersOf(o) /\ member[t] \in MemberRow
  BY <1>0, <1>1, MemberFields DEF RequestInv, TargetHeld, TargetSelected, MembersOf
<1>3. PICK u \in Users : t \in MembershipOf(o, u)
  BY <1>2 DEF MemberRow, MembershipOf
<1>4. UNCHANGED <<org, invite>>
  BY DEF WriteRole, WriteRemoval
<1>5. ActorRows(r, Roles) # {}
  BY <1>0, WriterQualified DEF ActorRoles, WriteRole, WriteRemoval
<1>6. CASE WriteRole(r)
  <2>1. CASE member' = member
    BY <1>4, <2>1, TablesKept DEF tables
  <2>2. CASE member' # member
    <3>1. /\ member' = [member EXCEPT ![t] = [member[t] EXCEPT !.role = arg[r].role]]
          /\ arg[r].role \in Roles
          /\ audited' = {Entry(arg[r].org, arg[r].user, "member.role_changed")}
      BY <1>0, <1>1, <1>6, <2>2 DEF WriteRole, Commit
    <3>2. PICK new \in Roles : new = arg[r].role
      BY <3>1
    <3>3. C!ChangeRole(o, u, new) /\ new \in C!Roles
      BY <1>3, <1>4, <3>1, <3>2, RoleChanges DEF Roles, C!Roles
    <3>4. C!ByOne(o, C!Roles, "member.role_changed")
      BY <1>0, <1>1, <1>5, <3>1, CallerNamed DEF Roles, C!Roles
    <3>5. C!UpdateMember(o)
      BY <1>3, <3>3, <3>4 DEF C!UpdateMember
    <3> QED BY <1>1, <3>5 DEF C!CNext
  <2> QED BY <2>1, <2>2
<1>7. CASE WriteRemoval(r)
  <2>1. /\ member' = [member EXCEPT ![t] = Gone]
        /\ audited' = {Entry(arg[r].org, arg[r].user, "member.removed")}
    BY <1>1, <1>7 DEF WriteRemoval, Commit
  <2>2. C!ChangeRole(o, u, C!NoRole)
    BY <1>3, <1>4, <2>1, RoleChanges DEF NoRole, C!NoRole
  <2>3. C!ByOne(o, C!Roles, "member.removed")
    BY <1>0, <1>1, <1>5, <2>1, CallerNamed DEF Roles, C!Roles
  <2>4. C!RemoveMember(o)
    BY <1>3, <2>2, <2>3 DEF C!RemoveMember
  <2> QED BY <1>1, <2>4 DEF C!CNext
<1> QED BY <1>6, <1>7

LEMMA WriteSlugAtomic ==
  ASSUME TenancyInv, HandlerInv, NEW r \in Requests, WriteSlug(r), ~Rollback(r)
  PROVE  C!CNext
<1> DEFINE o == arg[r].org
<1>0. /\ TypeOK /\ RequestInv(r) /\ pc[r] = "write" /\ arg[r] \in UpdateOrgArg
      /\ arg[r] \in OrgLockArg /\ arg[r].op = "update_org"
      /\ arg[r] \in MemberRouteArg /\ o \in Orgs /\ arg[r].user \in Users /\ arg[r].slug \in Slugs
  BY ArgByOp, OpOfArg DEF TenancyInv, RequestInv, ArgOK, WriteSlug, OrgLockArg, MemberRouteArg
<1>1. /\ ~SlugTaken(arg[r].slug, o) /\ org' = [org EXCEPT ![o] = arg[r].slug]
      /\ audited' = {Entry(o, arg[r].user, "organization.updated")}
      /\ UNCHANGED <<member, invite>>
  BY DEF WriteSlug, Commit
<1>2. C!Exists(org[o])
  BY <1>0 DEF RequestInv, OrgHeld, RowExists, C!Exists
<1>3. C!ByOne(o, {"OWNER", "ADMIN"}, "organization.updated")
  BY <1>0, <1>1, WriterQualified, CallerNamed DEF ActorRoles, RouteRoles
<1>4. C!Unused(arg[r].slug, o)
  BY <1>1 DEF SlugTaken, C!Unused
<1>5. C!UpdateOrg(o)
  BY <1>0, <1>1, <1>2, <1>3, <1>4, RolesKept DEF C!UpdateOrg
<1> QED BY <1>0, <1>5 DEF C!CNext

LEMMA WriteOrgAtomic ==
  ASSUME TenancyInv, TenancyInv', NEW r \in Requests, WriteOrg(r), ~Rollback(r)
  PROVE  C!CNext
<1>0. TypeOK /\ arg[r].user \in Users /\ arg[r].slug \in Slugs
  BY ArgByOp, OpOfArg DEF TenancyInv, RequestInv, ArgOK, WriteOrg
<1>1. PICK o \in FreeIds(org), m \in FreeIds(member) :
        /\ ~SlugTaken(arg[r].slug, o) /\ org' = [org EXCEPT ![o] = arg[r].slug]
        /\ member' = [member EXCEPT ![m] = [org |-> o, user |-> arg[r].user, role |-> "OWNER"]]
        /\ Commit(r, {Entry(o, arg[r].user, "organization.created")})
        /\ UNCHANGED invite
  BY DEF WriteOrg
<1>2. o \in Orgs /\ org[o] = Free /\ m \in MemIds /\ member[m] = Free
  BY <1>0, <1>1 DEF FreeIds, TypeOK
<1> DEFINE row == [org |-> o, user |-> arg[r].user, role |-> "OWNER"]
<1>3. /\ row \in MemberRow /\ row.org = o /\ row.user = arg[r].user /\ row.role = "OWNER"
      /\ member'[m] = row /\ \A n \in MemIds \ {m} : member'[n] = member[n]
  BY <1>0, <1>1, <1>2 DEF TypeOK, MemberRow, Roles
<1>4. RowExists(member'[m]) /\ ~RowExists(member[m])
  BY <1>2, <1>3, KeyAssumption DEF RowExists
<1> HIDE DEF row
<1>5. TableBy(member') = [TableBy(member) EXCEPT ![o][arg[r].user] = "OWNER"]
  BY <1>0, <1>2, <1>3, <1>4, TableIs, OneEntryChanges
<1>6. RoleTable' = [RoleTable EXCEPT ![o][arg[r].user] = "OWNER"]
  BY <1>5, TableIs
<1>7. C!Unused(arg[r].slug, o)
  BY <1>1 DEF SlugTaken, C!Unused
<1>8. C!CreateOrg(o, arg[r].user, arg[r].slug)
  BY <1>1, <1>2, <1>6, <1>7 DEF C!CreateOrg, C!Logs, Commit, Entry
<1> QED BY <1>0, <1>2, <1>8 DEF C!CNext

LEMMA WriteInvitationAtomic ==
  ASSUME TenancyInv, HandlerInv, AddressInv, NEW r \in Requests, WriteInvitation(r)
  PROVE  C!CNext
<1> DEFINE o == arg[r].org
           e == arg[r].email
<1>0. /\ TypeOK /\ RequestInv(r) /\ pc[r] = "write" /\ arg[r] \in InviteArg
      /\ arg[r] \in MemberRouteArg /\ arg[r] \in OrgLockArg /\ o \in Orgs /\ arg[r].user \in Users
      /\ e \in Users /\ arg[r].role \in Roles /\ arg[r].op = "invite"
      /\ ActiveInvites(o, e) = {} /\ MembershipOf(o, e) = {}
  BY ArgByOp, OpOfArg DEF TenancyInv, HandlerInv, Checked, InviteChecked, RequestInv, ArgOK,
     WriteInvitation, OrgLockArg, MemberRouteArg, AddressInv, Outside
<1>1. PICK i \in FreeIds(invite) :
        invite' = [invite EXCEPT ![i] = [org |-> o, email |-> e, role |-> arg[r].role, state |-> "active"]]
  BY DEF WriteInvitation
<1>2. UNCHANGED <<org, member>> /\ audited' = {Entry(o, arg[r].user, "member.invited")}
  BY DEF WriteInvitation
<1>3. i \in InvIds /\ invite[i] = Free
  BY <1>0, <1>1 DEF FreeIds, TypeOK
<1>4. C!Exists(org[o])
  BY <1>0 DEF RequestInv, OrgHeld, RowExists, C!Exists
<1>5. C!ByOne(o, {"OWNER", "ADMIN"}, "member.invited")
  BY <1>0, <1>2, WriterQualified, CallerNamed DEF ActorRoles, RouteRoles
<1>6. RoleTable[o][e] = C!NoRole
  BY <1>0, TableRoles DEF NoRole, C!NoRole
<1>7. \A j \in InvIds : ~C!Open(j, o, e)
  BY <1>0 DEF ActiveInvites, InvitesOf, RowExists, C!Open, C!Exists
<1>8. arg[r].role \in C!Roles
  BY <1>0 DEF Roles, C!Roles
<1>9. C!Invite(o)
  BY <1>0, <1>1, <1>2, <1>3, <1>4, <1>5, <1>6, <1>7, <1>8, RolesKept DEF C!Invite
<1> QED BY <1>0, <1>9 DEF C!CNext

LEMMA WriteAcceptanceAtomic ==
  ASSUME TenancyInv, TenancyInv', HandlerInv, NEW r \in Requests, WriteAcceptance(r), ~Rollback(r)
  PROVE  C!CNext
<1> DEFINE i == arg[r].invite
           o == invite[i].org
           u == invite[i].email
<1>0. /\ TypeOK /\ RequestInv(r) /\ Checked(r) /\ pc[r] = "write" /\ arg[r] \in AcceptArg
      /\ i \in InvIds /\ arg[r].user \in Users
  BY ArgByOp, OpOfArg DEF TenancyInv, HandlerInv, RequestInv, ArgOK, WriteAcceptance
<1>1. /\ RowExists(invite[i]) /\ invite[i] \in InviteRow
      /\ invite[i].state # "used" /\ u = arg[r].user
  BY <1>0, InviteFields DEF RequestInv, InvitationHeld, Checked, AcceptanceChecked
<1>2. o \in Orgs /\ u \in Users /\ invite[i].role \in Roles /\ RowExists(org[o])
  BY <1>0, <1>1 DEF InviteRow, TenancyInv, NoOrphans
<1>3. /\ ~MembershipTaken(o, u)
      /\ \E m \in FreeIds(member) : member' = [member EXCEPT ![m] =
           [org |-> o, user |-> u, role |-> invite[i].role]]
      /\ invite' = [invite EXCEPT ![i].state = "used"]
      /\ audited' = {Entry(o, u, "invitation.accepted")} /\ UNCHANGED org
  BY <1>1 DEF WriteAcceptance, Commit
<1>4. PICK m \in MemIds : /\ member[m] = Free
                          /\ member' = [member EXCEPT ![m] =
                               [org |-> o, user |-> u, role |-> invite[i].role]]
  BY <1>0, <1>3 DEF FreeIds, TypeOK
<1> DEFINE row == [org |-> o, user |-> u, role |-> invite[i].role]
<1>5. /\ row \in MemberRow /\ row.org = o /\ row.user = u /\ row.role = invite[i].role
      /\ member'[m] = row /\ \A n \in MemIds \ {m} : member'[n] = member[n]
  BY <1>0, <1>2, <1>4 DEF TypeOK, MemberRow
<1>6. RowExists(member'[m]) /\ ~RowExists(member[m])
  BY <1>4, <1>5, KeyAssumption DEF RowExists
<1> HIDE DEF row
<1>7. RoleTable' = [RoleTable EXCEPT ![o][u] = invite[i].role]
  <2>1. PICK p \in Orgs, v \in Users, new \in Roles : p = o /\ v = u /\ new = invite[i].role
    BY <1>2
  <2>2. Table(member) /\ Table(member')
    BY TableIs
  <2>3. member'[m].org = p /\ member'[m].user = v /\ member'[m].role = new
    BY <1>5, <2>1
  <2> HIDE DEF o, u, i
  <2>4. TableBy(member') = [TableBy(member) EXCEPT ![p][v] = new]
    BY <1>5, <1>6, <2>2, <2>3, OneEntryChanges
  <2> QED BY <2>1, <2>4, TableIs
<1>8. RoleTable[o][u] = C!NoRole
  BY <1>2, <1>3, TableRoles DEF MembershipTaken, NoRole, C!NoRole
<1>9. C!Accept(i)
  BY <1>1, <1>2, <1>3, <1>7, <1>8 DEF C!Accept, C!Logs, C!Exists, RowExists, Entry
<1> QED BY <1>0, <1>9 DEF C!CNext

LEMMA DeleteOrgAtomic ==
  ASSUME TenancyInv, TenancyInv', NEW r \in Requests, DeleteOrg(r)
  PROVE  C!CNext
<1> DEFINE o == arg[r].org
<1>0. /\ TypeOK /\ o \in Orgs /\ RowExists(org[o])
  BY OpOfArg DEF TenancyInv, RequestInv, ArgOK, DeleteOrg, OrgHeld, OrgLockArg
<1>1. /\ org' = [org EXCEPT ![o] = Gone]
      /\ member' = [m \in MemIds |-> IF m \in MembersOf(o) THEN Gone ELSE member[m]]
      /\ invite' = [i \in InvIds |-> IF i \in InvitesOf(o) THEN Gone ELSE invite[i]]
      /\ audited' = {}
  BY DEF DeleteOrg, Commit
<1>2. invite' = [i \in InvIds |->
        IF C!Exists(invite[i]) /\ invite[i].org = o THEN Gone ELSE invite[i]]
  BY <1>1 DEF InvitesOf, RowExists, C!Exists
<1>3. ASSUME NEW p \in Orgs, NEW v \in Users
      PROVE  RoleBy(member', p, v) = IF p = o THEN NoRole ELSE RoleBy(member, p, v)
  <2>1. RowsIn(member', p, v) = IF p = o THEN {} ELSE RowsIn(member, p, v)
    BY <1>1 DEF RowsIn, MembersOf, RowExists
  <2>2. CASE p = o
    BY <2>1, <2>2 DEF RoleBy
  <2>3. CASE p # o
    <3>1. CASE RowsIn(member, p, v) = {}
      BY <2>1, <2>3, <3>1 DEF RoleBy
    <3>2. CASE RowsIn(member, p, v) # {}
      <4>1. PICK n \in RowsIn(member, p, v) : TRUE
        BY <3>2
      <4>2. member'[n] = member[n]
        BY <1>1, <2>3, <4>1 DEF RowsIn, MembersOf
      <4>3. RoleBy(member, p, v) = member[n].role /\ RoleBy(member', p, v) = member'[n].role
        BY <2>1, <2>3, <4>1, TableIs, RoleOfRow
      <4> QED BY <2>3, <4>2, <4>3
    <3> QED BY <3>1, <3>2
  <2> QED BY <2>2, <2>3
<1>4. TableBy(member') = [TableBy(member) EXCEPT ![o] = [u \in Users |-> NoRole]]
  BY <1>0, <1>3 DEF TableBy
<1>5. RoleTable' = [RoleTable EXCEPT ![o] = [u \in Users |-> C!NoRole]]
  BY <1>4, TableIs DEF NoRole, C!NoRole
<1>6. C!DeleteOrg(o)
  BY <1>0, <1>1, <1>2, <1>5 DEF C!DeleteOrg, C!Exists, RowExists
<1> QED BY <1>0, <1>6 DEF C!CNext

LEMMA ExpireAtomic ==
  ASSUME Expire
  PROVE  C!CNext
<1>1. PICK i \in InvIds : /\ RowExists(invite[i]) /\ invite[i].state = "active"
                          /\ invite' = [invite EXCEPT ![i].state = "expired"]
  BY DEF Expire
<1>2. UNCHANGED <<org, member>> /\ audited' = {}
  BY DEF Expire
<1>3. C!Expire(i)
  BY <1>1, <1>2, RolesKept DEF C!Expire, C!Exists, RowExists
<1> QED BY <1>3 DEF C!CNext

\* Begin, acquire, decide, roll back: nothing happens to the contract.
LEMMA QuietAtomic ==
  ASSUME NEW r \in Requests,
         Begin(r) \/ Acquire(r) \/ Decide(r) \/ DeadlockAbort(r) \/ Abort(r)
  PROVE  UNCHANGED C!cvars
<1>1. UNCHANGED tables
  BY DEF Begin, BeginMemberRoute, BeginCreateOrg, BeginAccept, Acquire, LockOrg, LockActor,
     LockTarget, LockOwner, LockInvitation, Cascade, Decide, ScanOwners, EnsureAnotherOwner,
     CheckSlug, CheckInvitation, EnqueueEmail, DeadlockAbort, Abort, Rollback, Working
<1> QED BY <1>1, TablesKept

LEMMA StepAtomic ==
  TenancyInv /\ TenancyInv' /\ HandlerInv /\ AddressInv /\ [Next]_vars => [C!CNext]_(C!cvars)
<1> SUFFICES ASSUME TenancyInv, TenancyInv', HandlerInv, AddressInv, [Next]_vars
             PROVE  [C!CNext]_(C!cvars)
  OBVIOUS
<1>1. ASSUME NEW r \in Requests, Begin(r) \/ Acquire(r) \/ Decide(r) \/ DeadlockAbort(r) \/ Abort(r)
      PROVE  [C!CNext]_(C!cvars)
  BY <1>1, QuietAtomic
<1>2. ASSUME NEW r \in Requests, Write(r) PROVE [C!CNext]_(C!cvars)
  <2>1. CASE Rollback(r)
    BY <2>1, TablesKept DEF Rollback
  <2>2. CASE ~Rollback(r)
    BY <1>2, <2>2, MemberChangeAtomic, WriteSlugAtomic, WriteOrgAtomic, WriteInvitationAtomic,
       WriteAcceptanceAtomic, DeleteOrgAtomic DEF Write
  <2> QED BY <2>1, <2>2
<1>3. CASE UNCHANGED vars
  BY <1>3, TablesKept DEF vars, tables
<1> QED BY <1>1, <1>2, <1>3, ExpireAtomic DEF Next

LEMMA InitAtomic == Init => C!CInit
<1> SUFFICES ASSUME Init PROVE C!CInit
  OBVIOUS
<1>1. TenancyInv
  BY InitInv
<1>2. org \in [Orgs -> Slugs \cup {Free, Gone}] /\ invite = [i \in InvIds |-> Free]
  BY <1>1 DEF TenancyInv, TypeOK, Init
<1>3. ASSUME NEW o \in Orgs, NEW u \in Users
      PROVE  /\ RoleTable[o][u] \in C!Roles \cup {C!NoRole}
             /\ ~RowExists(org[o]) => RoleTable[o][u] = C!NoRole
  <2>1. CASE MembershipOf(o, u) = {}
    BY <1>1, <2>1, TableRoles DEF NoRole, C!NoRole
  <2>2. CASE MembershipOf(o, u) # {}
    <3>1. PICK m \in MembershipOf(o, u) : TRUE
      BY <2>2
    <3>2. RoleTable[o][u] \in Roles
      BY <1>1, <3>1, TableRoles
    <3>3. RowExists(org[o])
      BY <1>1, <3>1 DEF TenancyInv, NoOrphans, MembershipOf, MembersOf
    <3> QED BY <3>2, <3>3 DEF Roles, C!Roles
  <2> QED BY <2>1, <2>2
<1>4. RoleTable \in [Orgs -> [Users -> C!Roles \cup {C!NoRole}]]
  BY <1>3 DEF RoleTable
<1>5. ASSUME NEW o \in Orgs, RowExists(org[o]) PROVE C!HasOwner(o) /\ C!Unused(org[o], o)
  <2>1. PICK m \in OwnersOf(o) : TRUE
    BY <1>1, <1>5 DEF TenancyInv, LastOwner
  <2>2. m \in MemIds /\ RowExists(member[m]) /\ member[m].org = o /\ member[m].role = "OWNER"
    BY <2>1 DEF OwnersOf, MembersOf
  <2>3. member[m].user \in Users
    BY <1>1, <2>2, MemberFields DEF TenancyInv, MemberRow
  <2>4. m \in MembershipOf(o, member[m].user)
    BY <2>2 DEF MembershipOf, MembersOf
  <2>5. RoleTable[o][member[m].user] = "OWNER"
    BY <1>1, <2>2, <2>3, <2>4, TableRoles
  <2>6. C!Unused(org[o], o)
    BY <1>1, <1>5 DEF TenancyInv, UniqueRows, C!Unused
  <2> QED BY <2>3, <2>5, <2>6 DEF C!HasOwner
<1> QED BY <1>2, <1>3, <1>4, <1>5 DEF C!CInit, C!Exists, RowExists

\* Whatever requests overlap, the tables change as if every operation of the
\* organization, member and invitation services were one step at its commit.
THEOREM OperationsAreAtomic == Spec => ActsAtomically
BY InitAtomic, StepAtomic, TenancyCorrect, ChecksHold, InviteeStaysOutside, PTL
   DEF Spec, ActsAtomically, C!CSpec

-----------------------------------------------------------------------------
(* Nobody is stuck.  First, whoever holds a lock is an open request. *)

LocksNothing(r) ==
  /\ \A o \in Orgs : olock[o] # r
  /\ \A m \in MemIds : mlock[m] # r
  /\ \A i \in InvIds : ilock[i] # r
IdleLocksNothing == \A r \in Requests : pc[r] = "idle" => LocksNothing(r)

LEMMA EndUnlocks ==
  ASSUME TypeOK, NEW r \in Requests, End(r)
  PROVE  LocksNothing(r)'
BY NoReqAssumption DEF TypeOK, End, Released, LocksNothing

\* A step of r gives locks to r only, and returns them when r ends.
GivesLocksTo(r) ==
  /\ \A o \in Orgs : olock'[o] \in {olock[o], r, NoReq}
  /\ \A m \in MemIds : mlock'[m] \in {mlock[m], r, NoReq}
  /\ \A i \in InvIds : ilock'[i] \in {ilock[i], r, NoReq}
  /\ pc'[r] = "idle" => End(r)

LEMMA EndGives ==
  ASSUME TypeOK, NEW r \in Requests, End(r)
  PROVE  GivesLocksTo(r)
BY DEF TypeOK, End, Released, GivesLocksTo

LEMMA LocksGiven ==
  ASSUME TypeOK, NEW r \in Requests,
         Begin(r) \/ Acquire(r) \/ Decide(r) \/ Write(r) \/ DeadlockAbort(r) \/ Abort(r)
  PROVE  GivesLocksTo(r)
<1>1. CASE End(r)
  BY <1>1, EndGives
<1>2. CASE ~End(r)
  <2> USE <1>2 DEF TypeOK, Goto, locks, GivesLocksTo
  <2>1. ~Rollback(r)
    BY DEF Rollback
  <2>2. CASE Begin(r)
    BY <2>2 DEF Begin, BeginMemberRoute, BeginCreateOrg, BeginAccept, FirstStep
  <2>3. CASE LockOrg(r) \/ LockInvitation(r)
    BY <2>1, <2>3 DEF LockOrg, LockInvitation
  <2>4. CASE LockActor(r)
    BY <2>1, <2>4 DEF LockActor, AfterActor
  <2>5. CASE LockTarget(r)
    BY <2>1, <2>5 DEF LockTarget
  <2>6. CASE LockOwner(r) \/ Cascade(r)
    BY <2>6 DEF LockOwner, Cascade
  <2>7. CASE ScanOwners(r) \/ EnsureAnotherOwner(r) \/ CheckSlug(r) \/ CheckInvitation(r)
    BY <2>1, <2>7 DEF ScanOwners, EnsureAnotherOwner, CheckSlug, CheckInvitation
  <2>8. ~Write(r) /\ ~EnqueueEmail(r) /\ ~DeadlockAbort(r) /\ ~Abort(r)
    BY <2>1 DEF Write, WriteRole, WriteRemoval, WriteSlug, WriteOrg, WriteInvitation,
       WriteAcceptance, DeleteOrg, Commit, EnqueueEmail, DeadlockAbort, Abort
  <2> QED BY <2>2, <2>3, <2>4, <2>5, <2>6, <2>7, <2>8 DEF Acquire, Decide
<1> QED BY <1>1, <1>2

LEMMA IdleStep == TypeOK /\ IdleLocksNothing /\ [Next]_vars => IdleLocksNothing'
<1> SUFFICES ASSUME TypeOK, IdleLocksNothing, [Next]_vars, NEW q \in Requests, pc'[q] = "idle"
             PROVE  LocksNothing(q)'
  BY DEF IdleLocksNothing
<1>1. CASE UNCHANGED <<olock, mlock, ilock, pc>>
  BY <1>1 DEF IdleLocksNothing, LocksNothing
<1>2. ASSUME NEW r \in Requests,
             Begin(r) \/ Acquire(r) \/ Decide(r) \/ Write(r) \/ DeadlockAbort(r) \/ Abort(r)
      PROVE  LocksNothing(q)'
  <2>1. GivesLocksTo(r)
    BY <1>2, LocksGiven
  <2>2. CASE q = r
    BY <2>1, <2>2, EndUnlocks DEF GivesLocksTo
  <2>3. CASE q # r
    <3>1. pc[q] = "idle"
      BY <1>2, <2>3, OnlyOneMoves
    <3>2. LocksNothing(q)
      BY <3>1 DEF IdleLocksNothing
    <3> QED BY <2>1, <2>3, <3>2, NoReqAssumption DEF GivesLocksTo, LocksNothing
  <2> QED BY <2>2, <2>3
<1>3. CASE Expire
  BY <1>1, <1>3 DEF Expire
<1>4. CASE UNCHANGED vars
  BY <1>1, <1>4 DEF vars
<1> QED BY <1>2, <1>3, <1>4 DEF Next

LEMMA IdleInit == Init => IdleLocksNothing
BY NoReqAssumption DEF Init, IdleLocksNothing, LocksNothing

LEMMA IdleAlways == Spec => []IdleLocksNothing
<1>1. TenancyInv /\ IdleLocksNothing /\ [Next]_vars => IdleLocksNothing'
  BY IdleStep DEF TenancyInv
<1> QED BY <1>1, IdleInit, TenancyCorrect, PTL DEF Spec

-----------------------------------------------------------------------------
(* The bound on inserts never holds up a request that has begun. *)

Inserting(ops) == {q \in Requests : pc[q] # "idle" /\ arg[q].op \in ops}
Enough(ops, table) == Cardinality(Inserting(ops)) <= Cardinality(FreeIds(table))
RoomLeft ==
  /\ Enough({"create_org"}, org)
  /\ Enough({"create_org", "accept"}, member)
  /\ Enough({"invite"}, invite)

\* A pool F of ids and the requests Q that will need one: requests end, another
\* begins while there is room, or one ends and takes its id.
PoolStep(Q, F, Q1, F1) ==
  \/ Q1 \subseteq Q /\ F1 = F
  \/ Cardinality(F) > Cardinality(Q) /\ F1 = F /\ \E r : Q1 \subseteq Q \cup {r}
  \/ \E r \in Q, k \in F : Q1 \subseteq Q \ {r} /\ F1 = F \ {k}

LEMMA PoolLasts ==
  ASSUME NEW Q, NEW F, NEW Q1, NEW F1, IsFiniteSet(Q), IsFiniteSet(F),
         Cardinality(Q) <= Cardinality(F), PoolStep(Q, F, Q1, F1)
  PROVE  Cardinality(Q1) <= Cardinality(F1)
<1>1. Cardinality(Q) \in Nat /\ Cardinality(F) \in Nat
  BY FS_CardinalityType
<1>2. CASE Q1 \subseteq Q /\ F1 = F
  <2>1. Cardinality(Q1) <= Cardinality(Q) /\ Cardinality(Q1) \in Nat
    BY <1>2, FS_Subset, FS_CardinalityType
  <2> QED BY <1>1, <1>2, <2>1
<1>3. CASE Cardinality(F) > Cardinality(Q) /\ F1 = F /\ \E r : Q1 \subseteq Q \cup {r}
  <2>1. PICK r : Q1 \subseteq Q \cup {r}
    BY <1>3
  <2>2. /\ Cardinality(Q \cup {r}) = IF r \in Q THEN Cardinality(Q) ELSE Cardinality(Q) + 1
        /\ IsFiniteSet(Q \cup {r})
    BY FS_AddElement
  <2>3. Cardinality(Q1) <= Cardinality(Q \cup {r}) /\ Cardinality(Q1) \in Nat
    BY <2>1, <2>2, FS_Subset, FS_CardinalityType
  <2> QED BY <1>1, <1>3, <2>2, <2>3
<1>4. CASE \E r \in Q, k \in F : Q1 \subseteq Q \ {r} /\ F1 = F \ {k}
  <2>1. PICK r \in Q, k \in F : Q1 \subseteq Q \ {r} /\ F1 = F \ {k}
    BY <1>4
  <2>2. IsFiniteSet(Q \ {r}) /\ Cardinality(Q \ {r}) = Cardinality(Q) - 1
    BY FS_RemoveElement
  <2>3. Cardinality(F1) = Cardinality(F) - 1
    BY <2>1, FS_RemoveElement
  <2>4. Cardinality(Q1) <= Cardinality(Q \ {r}) /\ Cardinality(Q1) \in Nat
    BY <2>1, <2>2, FS_Subset, FS_CardinalityType
  <2> QED BY <1>1, <2>2, <2>3, <2>4
<1> QED BY <1>2, <1>3, <1>4 DEF PoolStep

LEMMA PoolsFinite ==
  ASSUME TypeOK
  PROVE  /\ \A ops : IsFiniteSet(Inserting(ops))
         /\ IsFiniteSet(FreeIds(org)) /\ IsFiniteSet(FreeIds(member)) /\ IsFiniteSet(FreeIds(invite))
<1>1. ASSUME NEW ops PROVE IsFiniteSet(Inserting(ops))
  <2>1. Inserting(ops) \in SUBSET Requests
    BY DEF Inserting
  <2> QED BY <2>1, PoolAssumption, FS_Subset
<1>2. /\ FreeIds(org) \in SUBSET Orgs /\ FreeIds(member) \in SUBSET MemIds
      /\ FreeIds(invite) \in SUBSET InvIds
  BY DEF FreeIds, TypeOK
<1> QED BY <1>1, <1>2, PoolAssumption, FS_Subset

LEMMA RoomBy ==
  ASSUME TypeOK, RoomLeft,
         PoolStep(Inserting({"create_org"}), FreeIds(org),
                  Inserting({"create_org"})', FreeIds(org)'),
         PoolStep(Inserting({"create_org", "accept"}), FreeIds(member),
                  Inserting({"create_org", "accept"})', FreeIds(member)'),
         PoolStep(Inserting({"invite"}), FreeIds(invite),
                  Inserting({"invite"})', FreeIds(invite)')
  PROVE  RoomLeft'
<1>1. Enough({"create_org"}, org)'
  BY PoolsFinite, PoolLasts DEF RoomLeft, Enough
<1>2. Enough({"create_org", "accept"}, member)'
  BY PoolsFinite, PoolLasts DEF RoomLeft, Enough
<1>3. Enough({"invite"}, invite)'
  BY PoolsFinite, PoolLasts DEF RoomLeft, Enough
<1> QED BY <1>1, <1>2, <1>3 DEF RoomLeft

\* r goes on with what it was asked, or is done with it.
Finished(r) == pc'[r] = "idle" \/ arg'[r].op = "mail"
GoesOn(r) ==
  /\ pc[r] # "idle"
  /\ Finished(r) \/ arg'[r] = arg[r]
  /\ \A q \in Requests : q # r => pc'[q] = pc[q] /\ arg'[q] = arg[q]

LEMMA GoesOnInserting ==
  ASSUME NEW r \in Requests, GoesOn(r), NEW ops, "mail" \notin ops
  PROVE  /\ Inserting(ops)' \subseteq Inserting(ops)
         /\ Finished(r) => Inserting(ops)' \subseteq Inserting(ops) \ {r}
BY DEF GoesOn, Finished, Inserting

\* A request that takes no id leaves the room as it is.
LEMMA RoomUnused ==
  ASSUME TypeOK, RoomLeft, NEW r \in Requests, GoesOn(r), FreeIds(org)' = FreeIds(org),
         FreeIds(member)' = FreeIds(member), FreeIds(invite)' = FreeIds(invite)
  PROVE  RoomLeft'
<1>1. /\ Inserting({"create_org"})' \subseteq Inserting({"create_org"})
      /\ Inserting({"create_org", "accept"})' \subseteq Inserting({"create_org", "accept"})
      /\ Inserting({"invite"})' \subseteq Inserting({"invite"})
  BY GoesOnInserting
<1> QED BY <1>1, RoomBy DEF PoolStep

LEMMA RollbackGoesOn ==
  ASSUME TypeOK, NEW r \in Requests, pc[r] # "idle", Rollback(r)
  PROVE  GoesOn(r) /\ UNCHANGED tables
BY DEF TypeOK, Rollback, Goto, GoesOn, Finished

LEMMA CommitGoesOn ==
  ASSUME TypeOK, NEW r \in Requests, pc[r] # "idle", NEW entries, Commit(r, entries)
  PROVE  GoesOn(r) /\ Finished(r)
BY DEF TypeOK, Commit, Goto, GoesOn, Finished

LEMMA WaiterOpen ==
  ASSUME NEW r \in Requests, Blockers(r) # {}
  PROVE  pc[r] # "idle"
BY DEF Blockers

LEMMA QuietRoom ==
  ASSUME TenancyInv, RoomLeft, NEW r \in Requests,
         Acquire(r) \/ Decide(r) \/ DeadlockAbort(r) \/ Abort(r)
  PROVE  RoomLeft'
<1>0. TypeOK
  BY DEF TenancyInv
<1>1. pc[r] # "idle"
  <2>1. CASE DeadlockAbort(r)
    BY <2>1, WaiterOpen DEF DeadlockAbort, Deadlocked, LockCycle
  <2> QED BY <2>1 DEF Acquire, LockOrg, LockActor, LockTarget, LockOwner, LockInvitation, Cascade,
             Decide, ScanOwners, EnsureAnotherOwner, CheckSlug, CheckInvitation, EnqueueEmail, Abort
<1>2. GoesOn(r) /\ UNCHANGED tables
  <2>1. CASE Rollback(r)
    BY <1>0, <1>1, <2>1, RollbackGoesOn
  <2>2. CASE ~Rollback(r)
    <3>1. arg'[r] = arg[r] \/ pc'[r] = "idle"
      BY <1>0, <2>2 DEF TypeOK, Goto, Acquire, LockOrg, LockActor, LockTarget, LockOwner,
         LockInvitation, Cascade, Decide, ScanOwners, EnsureAnotherOwner, CheckSlug,
         CheckInvitation, EnqueueEmail, DeadlockAbort, Abort
    <3>2. UNCHANGED tables
      BY <2>2 DEF Acquire, LockOrg, LockActor, LockTarget, LockOwner, LockInvitation, Cascade,
         Decide, ScanOwners, EnsureAnotherOwner, CheckSlug, CheckInvitation, EnqueueEmail,
         DeadlockAbort, Abort, Working
    <3> QED BY <1>0, <1>1, <3>1, <3>2, OnlyOneMoves DEF GoesOn, Finished
  <2> QED BY <2>1, <2>2
<1> QED BY <1>0, <1>2, RoomUnused DEF FreeIds, tables

LEMMA BeginRoom ==
  ASSUME TenancyInv, RoomLeft, NEW r \in Requests, Begin(r)
  PROVE  RoomLeft'
<1>0. TypeOK
  BY DEF TenancyInv
<1>1. /\ pc[r] = "idle" /\ UNCHANGED tables
      /\ \A q \in Requests : q # r => pc'[q] = pc[q] /\ arg'[q] = arg[q]
  BY <1>0, OnlyOneMoves DEF Begin, BeginMemberRoute, BeginCreateOrg, BeginAccept, Working
<1>2. /\ FreeIds(org)' = FreeIds(org) /\ FreeIds(member)' = FreeIds(member)
      /\ FreeIds(invite)' = FreeIds(invite)
  BY <1>1 DEF FreeIds, tables
<1>3. /\ arg'[r].op = "create_org" => RoomFor(org, {"create_org"})
      /\ arg'[r].op \in {"create_org", "accept"} => RoomFor(member, {"create_org", "accept"})
      /\ arg'[r].op = "invite" => RoomFor(invite, {"invite"})
  <2>1. CASE BeginMemberRoute(r)
    <3>1. PICK a \in MemberRouteArg : /\ a.op = "invite" => RoomFor(invite, {"invite"})
                                      /\ arg' = [arg EXCEPT ![r] = a]
      BY <2>1 DEF BeginMemberRoute
    <3>2. arg'[r] = a
      BY <1>0, <3>1 DEF TypeOK
    <3>3. a.op \notin {"create_org", "accept"}
      BY OpOfArg DEF MemberRouteArg
    <3> QED BY <3>1, <3>2, <3>3
  <2>2. CASE BeginCreateOrg(r)
    <3>1. PICK a \in CreateOrgArg : arg' = [arg EXCEPT ![r] = a]
      BY <2>2 DEF BeginCreateOrg
    <3>2. arg'[r].op = "create_org"
      BY <1>0, <3>1, OpOfArg DEF TypeOK
    <3> QED BY <2>2, <3>2 DEF BeginCreateOrg
  <2>3. CASE BeginAccept(r)
    <3>1. arg'[r].op = "accept"
      BY <1>0, <2>3 DEF TypeOK, BeginAccept
    <3> QED BY <2>3, <3>1 DEF BeginAccept
  <2> QED BY <2>1, <2>2, <2>3 DEF Begin
<1>4. ASSUME NEW ops, NEW F, NEW F1, F1 = F,
             arg'[r].op \in ops => Cardinality(F) > Cardinality(Inserting(ops))
      PROVE  PoolStep(Inserting(ops), F, Inserting(ops)', F1)
  <2>1. CASE arg'[r].op \in ops
    <3>1. Inserting(ops)' \subseteq Inserting(ops) \cup {r}
      BY <1>1 DEF Inserting
    <3> QED BY <1>4, <2>1, <3>1 DEF PoolStep
  <2>2. CASE arg'[r].op \notin ops
    <3>1. Inserting(ops)' \subseteq Inserting(ops)
      BY <1>1, <2>2 DEF Inserting
    <3> QED BY <1>4, <3>1 DEF PoolStep
  <2> QED BY <2>1, <2>2
<1>5. PoolStep(Inserting({"create_org"}), FreeIds(org), Inserting({"create_org"})', FreeIds(org)')
  BY <1>2, <1>3, <1>4 DEF RoomFor, Inserting
<1>6. PoolStep(Inserting({"create_org", "accept"}), FreeIds(member),
               Inserting({"create_org", "accept"})', FreeIds(member)')
  BY <1>2, <1>3, <1>4 DEF RoomFor, Inserting
<1>7. PoolStep(Inserting({"invite"}), FreeIds(invite), Inserting({"invite"})', FreeIds(invite)')
  BY <1>2, <1>3, <1>4 DEF RoomFor, Inserting
<1> QED BY <1>0, <1>5, <1>6, <1>7, RoomBy

\* An insert takes one id; a row that is changed or deleted frees none.
LEMMA IdTaken ==
  ASSUME NEW table, NEW k \in FreeIds(table), NEW row, row # Free
  PROVE  FreeIds([table EXCEPT ![k] = row]) = FreeIds(table) \ {k}
BY DEF FreeIds

LEMMA NoIdTaken ==
  ASSUME NEW table, NEW k, NEW row, k \in DOMAIN table => table[k] # Free /\ row # Free
  PROVE  FreeIds([table EXCEPT ![k] = row]) = FreeIds(table)
BY DEF FreeIds

LEMMA ChangeRoom ==
  ASSUME TenancyInv, RoomLeft, NEW r \in Requests,
         WriteRole(r) \/ WriteRemoval(r) \/ WriteSlug(r) \/ DeleteOrg(r)
  PROVE  RoomLeft'
<1>0. TypeOK /\ RequestInv(r) /\ pc[r] # "idle"
  BY DEF TenancyInv, WriteRole, WriteRemoval, WriteSlug, DeleteOrg
<1>1. CASE Rollback(r)
  BY <1>0, <1>1, RollbackGoesOn, RoomUnused DEF FreeIds, tables
<1>2. CASE WriteRole(r) \/ WriteRemoval(r)
  <2>1. GoesOn(r) /\ UNCHANGED <<org, invite>>
    BY <1>0, <1>2, CommitGoesOn DEF WriteRole, WriteRemoval
  <2>2. pc[r] = "write" /\ arg[r] \in MemberChangeArg /\ arg[r].target \in MemIds
        /\ (WriteRole(r) => arg[r].role \in Roles)
    BY <1>0, <1>2, ArgByOp, OpOfArg DEF RequestInv, ArgOK, WriteRole, WriteRemoval, MemberChangeArg
  <2>3. RowExists(member[arg[r].target]) /\ member[arg[r].target] \in MemberRow
    BY <1>0, <2>2, MemberFields DEF RequestInv, TargetHeld, TargetSelected, MembersOf
  <2>4. PICK row : /\ row \in MemberRow \cup {Gone}
                   /\ member' \in {member, [member EXCEPT ![arg[r].target] = row]}
    <3>1. CASE WriteRole(r)
      <4>1. [member[arg[r].target] EXCEPT !.role = arg[r].role] \in MemberRow
        BY <2>2, <2>3, <3>1 DEF MemberRow
      <4> QED BY <3>1, <4>1 DEF WriteRole
    <3>2. CASE WriteRemoval(r)
      BY <3>2 DEF WriteRemoval
    <3> QED BY <1>2, <3>1, <3>2
  <2>5. FreeIds([member EXCEPT ![arg[r].target] = row]) = FreeIds(member)
    BY <2>3, <2>4, NoIdTaken, KeyAssumption DEF RowExists
  <2>6. FreeIds(member') = FreeIds(member)
    BY <2>4, <2>5
  <2> QED BY <1>0, <2>1, <2>6, RoomUnused DEF FreeIds
<1>3. CASE WriteSlug(r) /\ ~Rollback(r)
  <2>1. GoesOn(r) /\ UNCHANGED <<member, invite>> /\ org' = [org EXCEPT ![arg[r].org] = arg[r].slug]
    BY <1>0, <1>3, CommitGoesOn DEF WriteSlug
  <2>2. pc[r] = "write" /\ arg[r] \in OrgLockArg /\ arg[r].slug \in Slugs
    BY <1>0, <1>3, ArgByOp, OpOfArg DEF RequestInv, ArgOK, WriteSlug, OrgLockArg
  <2>3. RowExists(org[arg[r].org])
    BY <1>0, <2>2 DEF RequestInv, OrgHeld
  <2>4. FreeIds(org') = FreeIds(org)
    BY <2>1, <2>2, <2>3, NoIdTaken, KeyAssumption DEF RowExists
  <2> QED BY <1>0, <2>1, <2>4, RoomUnused DEF FreeIds
<1>4. CASE DeleteOrg(r)
  <2>1. /\ GoesOn(r) /\ org' = [org EXCEPT ![arg[r].org] = Gone]
        /\ member' = [m \in MemIds |-> IF m \in MembersOf(arg[r].org) THEN Gone ELSE member[m]]
        /\ invite' = [i \in InvIds |-> IF i \in InvitesOf(arg[r].org) THEN Gone ELSE invite[i]]
    BY <1>0, <1>4, CommitGoesOn DEF DeleteOrg
  <2>2. arg[r] \in OrgLockArg
    BY <1>0, <1>4 DEF RequestInv, ArgOK, DeleteOrg, OrgLockArg
  <2>3. RowExists(org[arg[r].org])
    BY <1>0, <1>4, <2>2 DEF RequestInv, OrgHeld, DeleteOrg
  <2>4. FreeIds(org') = FreeIds(org)
    BY <2>1, <2>3, NoIdTaken, KeyAssumption DEF RowExists
  <2>5. FreeIds(member)' = FreeIds(member)
    BY <1>0, <2>1, KeyAssumption DEF FreeIds, TypeOK, MembersOf, RowExists
  <2>6. FreeIds(invite)' = FreeIds(invite)
    BY <1>0, <2>1, KeyAssumption DEF FreeIds, TypeOK, InvitesOf, RowExists
  <2> QED BY <1>0, <2>1, <2>4, <2>5, <2>6, RoomUnused DEF FreeIds
<1> QED BY <1>1, <1>2, <1>3, <1>4

\* An insert uses the ids that were kept for it.
LEMMA WriteOrgRoom ==
  ASSUME TenancyInv, RoomLeft, NEW r \in Requests, WriteOrg(r)
  PROVE  RoomLeft'
<1>0. TypeOK /\ RequestInv(r) /\ pc[r] = "write" /\ arg[r].op = "create_org"
  BY DEF TenancyInv, WriteOrg
<1>1. CASE Rollback(r)
  BY <1>0, <1>1, RollbackGoesOn, RoomUnused DEF FreeIds, tables
<1>2. CASE ~Rollback(r)
  <2>1. PICK o \in FreeIds(org), m \in FreeIds(member) :
          /\ org' = [org EXCEPT ![o] = arg[r].slug]
          /\ member' = [member EXCEPT ![m] = [org |-> o, user |-> arg[r].user, role |-> "OWNER"]]
          /\ Commit(r, {Entry(o, arg[r].user, "organization.created")})
          /\ UNCHANGED invite
    BY <1>2 DEF WriteOrg
  <2>2. arg[r].slug \in Slugs /\ arg[r].user \in Users /\ o \in Orgs
    BY <1>0, <2>1, ArgByOp, OpOfArg DEF RequestInv, ArgOK, FreeIds, TypeOK
  <2>3. [org |-> o, user |-> arg[r].user, role |-> "OWNER"] \in MemberRow
    BY <2>2 DEF MemberRow, Roles
  <2>4. FreeIds(org') = FreeIds(org) \ {o} /\ FreeIds(member') = FreeIds(member) \ {m}
    BY <2>1, <2>2, <2>3, IdTaken, KeyAssumption
  <2>5. FreeIds(invite') = FreeIds(invite)
    BY <2>1
  <2>6. GoesOn(r) /\ Finished(r)
    BY <1>0, <2>1, CommitGoesOn
  <2>7. /\ Inserting({"create_org"})' \subseteq Inserting({"create_org"}) \ {r}
        /\ Inserting({"create_org", "accept"})' \subseteq Inserting({"create_org", "accept"}) \ {r}
        /\ Inserting({"invite"})' \subseteq Inserting({"invite"})
    BY <2>6, GoesOnInserting
  <2>8. r \in Inserting({"create_org"}) /\ r \in Inserting({"create_org", "accept"})
    BY <1>0 DEF Inserting
  <2>9. FreeIds(org)' = FreeIds(org') /\ FreeIds(member)' = FreeIds(member')
        /\ FreeIds(invite)' = FreeIds(invite')
    BY DEF FreeIds
  <2>10. PoolStep(Inserting({"create_org"}), FreeIds(org),
                  Inserting({"create_org"})', FreeIds(org)')
    BY <2>1, <2>4, <2>7, <2>8, <2>9 DEF PoolStep
  <2>11. PoolStep(Inserting({"create_org", "accept"}), FreeIds(member),
                  Inserting({"create_org", "accept"})', FreeIds(member)')
    BY <2>1, <2>4, <2>7, <2>8, <2>9 DEF PoolStep
  <2>12. PoolStep(Inserting({"invite"}), FreeIds(invite),
                  Inserting({"invite"})', FreeIds(invite)')
    BY <2>5, <2>7, <2>9 DEF PoolStep
  <2> QED BY <1>0, <2>10, <2>11, <2>12, RoomBy
<1> QED BY <1>1, <1>2

LEMMA WriteInvitationRoom ==
  ASSUME TenancyInv, RoomLeft, NEW r \in Requests, WriteInvitation(r)
  PROVE  RoomLeft'
<1>0. TypeOK /\ RequestInv(r) /\ pc[r] = "write" /\ arg[r].op = "invite"
  BY DEF TenancyInv, WriteInvitation
<1>1. PICK i \in FreeIds(invite) :
        /\ invite' = [invite EXCEPT ![i] = [org |-> arg[r].org, email |-> arg[r].email,
                                            role |-> arg[r].role, state |-> "active"]]
        /\ arg' = [arg EXCEPT ![r] = [op |-> "mail", invite |-> i]]
        /\ UNCHANGED <<org, member>>
  BY DEF WriteInvitation
<1>2. [org |-> arg[r].org, email |-> arg[r].email, role |-> arg[r].role, state |-> "active"]
        \in InviteRow
  <2>1. arg[r].org \in Orgs /\ arg[r].email \in Users /\ arg[r].role \in Roles
    BY <1>0, ArgByOp, OpOfArg DEF RequestInv, ArgOK
  <2> QED BY <2>1 DEF InviteRow
<1>3. FreeIds(invite') = FreeIds(invite) \ {i}
  BY <1>1, <1>2, IdTaken, KeyAssumption
<1>4. /\ FreeIds(org)' = FreeIds(org) /\ FreeIds(member)' = FreeIds(member)
      /\ FreeIds(invite)' = FreeIds(invite')
  BY <1>1 DEF FreeIds
<1>5. arg'[r].op = "mail"
  BY <1>0, <1>1 DEF TypeOK
<1>6. GoesOn(r) /\ Finished(r)
  BY <1>0, <1>5, OnlyOneMoves DEF GoesOn, Finished, Write
<1>7. /\ Inserting({"create_org"})' \subseteq Inserting({"create_org"})
      /\ Inserting({"create_org", "accept"})' \subseteq Inserting({"create_org", "accept"})
      /\ Inserting({"invite"})' \subseteq Inserting({"invite"}) \ {r}
  BY <1>6, GoesOnInserting
<1>8. r \in Inserting({"invite"})
  BY <1>0 DEF Inserting
<1>9. PoolStep(Inserting({"invite"}), FreeIds(invite), Inserting({"invite"})', FreeIds(invite)')
  BY <1>1, <1>3, <1>4, <1>7, <1>8 DEF PoolStep
<1>10. /\ PoolStep(Inserting({"create_org"}), FreeIds(org),
                   Inserting({"create_org"})', FreeIds(org)')
       /\ PoolStep(Inserting({"create_org", "accept"}), FreeIds(member),
                   Inserting({"create_org", "accept"})', FreeIds(member)')
  BY <1>4, <1>7 DEF PoolStep
<1> QED BY <1>0, <1>9, <1>10, RoomBy

\* A row of the invitations changes its state only.
LEMMA InvitationStays ==
  ASSUME TypeOK, NEW i \in InvIds, RowExists(invite[i]), NEW state \in {"expired", "used"},
         invite' = [invite EXCEPT ![i].state = state]
  PROVE  FreeIds(invite)' = FreeIds(invite)
<1>1. invite[i] \in InviteRow
  BY InviteFields
<1>2. [invite[i] EXCEPT !.state = state] \in InviteRow
  BY <1>1 DEF InviteRow
<1>3. PICK row \in InviteRow : invite' = [invite EXCEPT ![i] = row]
  BY <1>2
<1>4. FreeIds(invite') = FreeIds(invite)
  <2>1. invite[i] # Free /\ row # Free
    BY KeyAssumption DEF RowExists
  <2>2. FreeIds([invite EXCEPT ![i] = row]) = FreeIds(invite)
    BY <2>1, NoIdTaken
  <2> QED BY <1>3, <2>2
<1> QED BY <1>4 DEF FreeIds

LEMMA WriteAcceptanceRoom ==
  ASSUME TenancyInv, RoomLeft, NEW r \in Requests, WriteAcceptance(r)
  PROVE  RoomLeft'
<1>0. TypeOK /\ RequestInv(r) /\ pc[r] = "write" /\ arg[r].op = "accept"
  BY DEF TenancyInv, WriteAcceptance
<1>1. CASE Rollback(r)
  BY <1>0, <1>1, RollbackGoesOn, RoomUnused DEF FreeIds, tables
<1>2. CASE ~Rollback(r)
  <2>1. PICK i \in InvIds : i = arg[r].invite /\ RowExists(invite[i]) /\ arg[r].user \in Users
    BY <1>0, ArgByOp, OpOfArg DEF RequestInv, ArgOK, InvitationHeld
  <2>2. PICK m \in FreeIds(member) :
          member' = [member EXCEPT ![m] =
            [org |-> invite[i].org, user |-> arg[r].user, role |-> invite[i].role]]
    BY <1>2, <2>1 DEF WriteAcceptance
  <2>3. /\ invite' = [invite EXCEPT ![i].state = "used"] /\ UNCHANGED org
        /\ Commit(r, {Entry(invite[i].org, arg[r].user, "invitation.accepted")})
    BY <1>2, <2>1 DEF WriteAcceptance
  <2>4. [org |-> invite[i].org, user |-> arg[r].user, role |-> invite[i].role] \in MemberRow
    <3>1. invite[i] \in InviteRow
      BY <1>0, <2>1, InviteFields
    <3> QED BY <2>1, <3>1 DEF InviteRow, MemberRow
  <2>5. FreeIds(member') = FreeIds(member) \ {m}
    BY <2>2, <2>4, IdTaken, KeyAssumption
  <2>6. /\ FreeIds(org)' = FreeIds(org) /\ FreeIds(invite)' = FreeIds(invite)
        /\ FreeIds(member)' = FreeIds(member')
    BY <1>0, <2>1, <2>3, InvitationStays DEF FreeIds
  <2>7. GoesOn(r) /\ Finished(r)
    BY <1>0, <2>3, CommitGoesOn
  <2>8. /\ Inserting({"create_org"})' \subseteq Inserting({"create_org"})
        /\ Inserting({"create_org", "accept"})' \subseteq Inserting({"create_org", "accept"}) \ {r}
        /\ Inserting({"invite"})' \subseteq Inserting({"invite"})
    BY <2>7, GoesOnInserting
  <2>9. r \in Inserting({"create_org", "accept"})
    BY <1>0 DEF Inserting
  <2>10. PoolStep(Inserting({"create_org", "accept"}), FreeIds(member),
                  Inserting({"create_org", "accept"})', FreeIds(member)')
    BY <2>2, <2>5, <2>6, <2>8, <2>9 DEF PoolStep
  <2>11. /\ PoolStep(Inserting({"create_org"}), FreeIds(org),
                     Inserting({"create_org"})', FreeIds(org)')
         /\ PoolStep(Inserting({"invite"}), FreeIds(invite),
                     Inserting({"invite"})', FreeIds(invite)')
    BY <2>6, <2>8 DEF PoolStep
  <2> QED BY <1>0, <2>10, <2>11, RoomBy
<1> QED BY <1>1, <1>2

LEMMA StillRoom ==
  ASSUME TypeOK, RoomLeft, UNCHANGED <<org, member, pc, arg>>, FreeIds(invite)' = FreeIds(invite)
  PROVE  RoomLeft'
BY DEF RoomLeft, Enough, Inserting, FreeIds

LEMMA RoomStep == TenancyInv /\ RoomLeft /\ [Next]_vars => RoomLeft'
<1> SUFFICES ASSUME TenancyInv, RoomLeft, [Next]_vars PROVE RoomLeft'
  OBVIOUS
<1>0. TypeOK
  BY DEF TenancyInv
<1>1. ASSUME NEW r \in Requests, Write(r) PROVE RoomLeft'
  BY <1>1, ChangeRoom, WriteOrgRoom, WriteInvitationRoom, WriteAcceptanceRoom DEF Write
<1>2. CASE Expire
  BY <1>0, <1>2, InvitationStays, StillRoom DEF Expire
<1>3. CASE UNCHANGED vars
  BY <1>0, <1>3, StillRoom DEF vars, FreeIds
<1> QED BY <1>1, <1>2, <1>3, BeginRoom, QuietRoom DEF Next

LEMMA RoomInit == Init => RoomLeft
<1> SUFFICES ASSUME Init PROVE RoomLeft
  OBVIOUS
<1>1. TypeOK
  BY InitInv DEF TenancyInv
<1>2. \A ops : Inserting(ops) = {}
  BY DEF Init, Inserting
<1>3. \A ops : Cardinality(Inserting(ops)) = 0
  BY <1>2, FS_EmptySet
<1>4. /\ Cardinality(FreeIds(org)) \in Nat /\ Cardinality(FreeIds(member)) \in Nat
      /\ Cardinality(FreeIds(invite)) \in Nat
  BY <1>1, PoolsFinite, FS_CardinalityType
<1> QED BY <1>3, <1>4 DEF RoomLeft, Enough

\* Every creation, invitation and acceptance under way finds its ids.
LEMMA RoomForAll == Spec => []RoomLeft
BY TenancyCorrect, RoomInit, RoomStep, PTL DEF Spec

-----------------------------------------------------------------------------
(* The graph of waits. *)

\* Who waits for nobody can execute his statement.
LEMMA UnblockedReady ==
  ASSUME TenancyInv, RoomLeft, NEW r \in Requests, pc[r] # "idle", Blockers(r) = {}
  PROVE  Ready(r)
<1>0. TypeOK /\ RequestInv(r)
  BY DEF TenancyInv
<1>1. CASE pc[r] = "org"
  BY <1>1 DEF Ready, Blockers, Available
<1>2. CASE pc[r] = "actor"
  BY <1>2 DEF Ready, Blockers, Available, AnyAvailable
<1>3. CASE pc[r] = "target"
  BY <1>3 DEF Ready, Blockers, Available
<1>4. CASE pc[r] = "owners"
  BY <1>4 DEF Ready, Blockers, Available, AnyAvailable
<1>5. CASE pc[r] = "invitation"
  BY <1>5 DEF Ready, Blockers, Available
<1>6. CASE pc[r] = "cascade"
  <2>1. /\ \A m \in UncascadedMembers(r) : Available(mlock, m, r)
        /\ \A i \in UncascadedInvites(r) : Available(ilock, i, r)
    BY <1>6 DEF Blockers, Available
  <2> QED BY <1>6, <2>1 DEF Ready
<1>7. CASE pc[r] = "write"
  <2>1. arg[r].op \in {"update_member", "remove_member"} => KeyShare(r, arg[r].org)
    BY <1>7 DEF Blockers, KeyShare, Available
  <2>2. arg[r].op = "accept" => KeyShare(r, invite[arg[r].invite].org)
    BY <1>7 DEF Blockers, KeyShare, Available
  <2>3. ASSUME NEW ops, NEW table, arg[r].op \in ops, Enough(ops, table)
        PROVE  FreeIds(table) # {}
    <3>1. r \in Inserting(ops)
      BY <1>7, <2>3 DEF Inserting
    <3>2. Cardinality(Inserting(ops)) \in Nat /\ Cardinality(Inserting(ops)) # 0
      BY <1>0, <3>1, PoolsFinite, FS_EmptySet, FS_CardinalityType
    <3>3. Cardinality(FreeIds(table)) # 0
      BY <2>3, <3>2 DEF Enough
    <3> QED BY <3>3, FS_EmptySet
  <2>4. /\ arg[r].op = "create_org" => FreeIds(org) # {} /\ FreeIds(member) # {}
        /\ arg[r].op = "accept" => FreeIds(member) # {}
        /\ arg[r].op = "invite" => FreeIds(invite) # {}
    BY <2>3 DEF RoomLeft
  <2> QED BY <1>7, <2>1, <2>2, <2>4 DEF Ready
<1>8. CASE pc[r] \in {"scan", "check", "mail"}
  BY <1>8 DEF Ready
<1> QED BY <1>0, <1>1, <1>2, <1>3, <1>4, <1>5, <1>6, <1>7, <1>8 DEF TypeOK, Steps

\* Whom a request waits for is an open request.
LEMMA BlockersOpen ==
  ASSUME TenancyInv, IdleLocksNothing, NEW q \in Requests, NEW b \in Blockers(q)
  PROVE  b \in Requests /\ pc[b] # "idle"
<1>0. TypeOK /\ RequestInv(q) /\ ArgOK(q) /\ pc[q] # "idle"
  BY WaiterOpen DEF TenancyInv, RequestInv
<1>1. ASSUME \/ \E o \in Orgs : b = olock[o]
             \/ \E m \in MemIds : b = mlock[m]
             \/ \E i \in InvIds : b = ilock[i]
      PROVE  b \in Requests /\ pc[b] # "idle"
  <2>1. b \in Requests
    BY <1>0, <1>1 DEF TypeOK, Blockers
  <2> QED BY <1>1, <2>1 DEF IdleLocksNothing, LocksNothing
<1>2. CASE pc[q] = "org"
  <2>1. arg[q].org \in Orgs
    BY <1>0, <1>2, OpOfArg DEF ArgOK, OrgLockArg
  <2> QED BY <1>1, <1>2, <2>1 DEF Blockers
<1>3. CASE pc[q] = "actor"
  BY <1>1, <1>3 DEF Blockers, ActorRows, MembershipOf, MembersOf
<1>4. CASE pc[q] = "target"
  <2>1. arg[q].target \in MemIds
    BY <1>0, <1>4, OpOfArg DEF ArgOK, MemberChangeArg
  <2> QED BY <1>1, <1>4, <2>1 DEF Blockers
<1>5. CASE pc[q] = "owners"
  BY <1>0, <1>1, <1>5 DEF Blockers, TypeOK
<1>6. CASE pc[q] = "invitation"
  <2>1. arg[q].invite \in InvIds
    BY <1>0, <1>6, OpOfArg DEF ArgOK
  <2> QED BY <1>1, <1>6, <2>1 DEF Blockers
<1>7. CASE pc[q] = "cascade"
  <2>1. UncascadedMembers(q) \subseteq MemIds /\ UncascadedInvites(q) \subseteq InvIds
    BY DEF UncascadedMembers, UncascadedInvites, MembersOf, InvitesOf
  <2> QED BY <1>1, <1>7, <2>1 DEF Blockers
<1>8. CASE pc[q] = "write"
  <2>1. arg[q].op \in {"update_member", "remove_member"} => arg[q].org \in Orgs
    BY <1>0, ArgByOp, OpOfArg DEF ArgOK
  <2>2. arg[q].op = "accept" => invite[arg[q].invite].org \in Orgs
    <3>1. arg[q].op = "accept" => arg[q].invite \in InvIds /\ RowExists(invite[arg[q].invite])
      BY <1>0, <1>8, ArgByOp, OpOfArg DEF ArgOK, RequestInv, InvitationHeld
    <3> QED BY <1>0, <3>1, InviteFields DEF InviteRow
  <2> QED BY <1>1, <1>8, <2>1, <2>2 DEF Blockers
<1> QED BY <1>0, <1>2, <1>3, <1>4, <1>5, <1>6, <1>7, <1>8 DEF Blockers

\* While requests are open, one of them can execute its statement or some wait for
\* each other, which PostgreSQL's deadlock detector ends: the row locks of the
\* services (FOR UPDATE, the key shares of inserts, the cascade of a deletion) are
\* never held by a session that is over, and nobody waits for anything else.
THEOREM SomebodyGoesOn == Spec => []NeverStuck
<1>1. ASSUME TenancyInv, RoomLeft, IdleLocksNothing PROVE NeverStuck
  <2> SUFFICES ASSUME NEW r \in Requests, pc[r] # "idle", \A q \in Requests : ~Ready(q)
               PROVE  Deadlocked(r)
    BY DEF NeverStuck
  <2> DEFINE S == {q \in Requests : pc[q] # "idle"}
  <2>1. ASSUME NEW q \in S PROVE Blockers(q) \cap S # {}
    <3>1. Blockers(q) # {}
      BY <1>1, UnblockedReady
    <3> QED BY <1>1, <3>1, BlockersOpen
  <2>2. r \in S /\ S \in SUBSET Requests
    OBVIOUS
  <2> QED BY <2>1, <2>2 DEF Deadlocked, LockCycle
<1> QED BY <1>1, IdleAlways, TenancyCorrect, RoomForAll, PTL

-----------------------------------------------------------------------------
(* The lock order. *)

\* The locks a request may hold, and from which statement to which: memberships
\* after the organization, except for role changes and removals.
LocksInOrder(q) ==
  /\ \A o \in Orgs : olock[o] = q =>
       pc[q] \in {"actor", "check", "write", "cascade"} /\ arg[q] \in OrgLockArg
  /\ \A m \in MemIds : mlock[m] = q =>
       \/ arg[q] \in MemberChangeArg \cup DeleteOrgArg
       \/ arg[q] \in InviteArg \cup UpdateOrgArg /\ pc[q] \in {"check", "write"}
  /\ \A i \in InvIds : ilock[i] = q =>
       \/ arg[q] \in DeleteOrgArg
       \/ arg[q] \in AcceptArg /\ pc[q] = "write"
LockOrder == \A q \in Requests : LocksInOrder(q)

\* A statement of r that is not its last.
LEMMA LocksTakenInOrder ==
  ASSUME TenancyInv, IdleLocksNothing, NEW r \in Requests, LocksInOrder(r), ~End(r),
         Begin(r) \/ Acquire(r) \/ Decide(r) \/ Write(r) \/ DeadlockAbort(r) \/ Abort(r)
  PROVE  LocksInOrder(r)'
<1>0. TypeOK /\ ArgOK(r)
  BY DEF TenancyInv, RequestInv
<1>1. ~Rollback(r)
  BY DEF Rollback
<1> USE <1>0 DEF TypeOK, Goto, locks
<1>2. CASE Begin(r)
  <2>1. LocksNothing(r) /\ UNCHANGED locks
    BY <1>2 DEF Begin, BeginMemberRoute, BeginCreateOrg, BeginAccept, IdleLocksNothing
  <2> QED BY <2>1 DEF LocksNothing, LocksInOrder
<1>3. CASE LockOrg(r)
  <2>1. /\ arg[r] \in OrgLockArg /\ arg'[r] = arg[r] /\ pc[r] = "org" /\ pc'[r] = "actor"
        /\ UNCHANGED <<mlock, ilock>>
    BY <1>1, <1>3 DEF LockOrg, ArgOK
  <2> QED BY <2>1 DEF LocksInOrder
<1>4. CASE LockActor(r)
  <2>1. /\ arg[r] \in MemberRouteArg /\ arg'[r] = arg[r] /\ pc[r] = "actor"
        /\ pc'[r] = AfterActor(arg[r].op) /\ UNCHANGED <<olock, ilock>>
    BY <1>1, <1>4 DEF LockActor, ArgOK
  <2>2. arg[r] \in MemberChangeArg => arg[r] \notin OrgLockArg
    BY OpOfArg DEF MemberChangeArg, OrgLockArg
  <2>3. /\ arg[r] \in InviteArg => pc'[r] = "check"
        /\ arg[r] \in UpdateOrgArg => pc'[r] = "write"
        /\ arg[r] \in DeleteOrgArg => pc'[r] = "cascade"
    BY <2>1, OpOfArg DEF AfterActor
  <2>4. arg[r] \in MemberChangeArg \cup DeleteOrgArg \cup InviteArg \cup UpdateOrgArg
    BY <2>1 DEF MemberRouteArg, MemberChangeArg
  <2>5. arg[r] \in OrgLockArg => pc'[r] \in {"check", "write", "cascade"}
    BY <2>3 DEF OrgLockArg
  <2>6. \A i \in InvIds : ilock[i] = r => arg[r] \in DeleteOrgArg
    BY <2>1 DEF LocksInOrder
  <2> QED BY <2>1, <2>3, <2>4, <2>5, <2>6 DEF LocksInOrder
<1>5. CASE LockTarget(r) \/ ScanOwners(r) \/ LockOwner(r) \/ EnsureAnotherOwner(r)
  <2>1. arg[r] \in MemberChangeArg /\ pc[r] \in {"target", "scan", "owners"}
    BY <1>5 DEF LockTarget, ScanOwners, LockOwner, EnsureAnotherOwner, ArgOK
  <2>2. arg'[r] = arg[r] /\ UNCHANGED <<olock, ilock>>
    BY <1>1, <1>5 DEF LockTarget, ScanOwners, LockOwner, EnsureAnotherOwner
  <2>3. /\ \A o \in Orgs : olock[o] # r
        /\ \A i \in InvIds : ilock[i] = r => arg[r] \in DeleteOrgArg
    BY <2>1 DEF LocksInOrder
  <2> QED BY <2>1, <2>2, <2>3 DEF LocksInOrder
<1>6. CASE LockInvitation(r)
  <2>1. /\ arg[r] \in AcceptArg /\ arg'[r] = arg[r] /\ pc[r] = "invitation" /\ pc'[r] = "write"
        /\ UNCHANGED <<olock, mlock>>
    BY <1>1, <1>6 DEF LockInvitation, ArgOK
  <2>2. /\ \A o \in Orgs : olock[o] # r
        /\ \A m \in MemIds : mlock[m] = r => arg[r] \in MemberChangeArg \cup DeleteOrgArg
    BY <2>1 DEF LocksInOrder
  <2> QED BY <2>1, <2>2 DEF LocksInOrder
<1>7. CASE Cascade(r)
  <2>1. arg[r] \in DeleteOrgArg /\ arg'[r] = arg[r] /\ pc'[r] = "cascade" /\ UNCHANGED olock
    BY <1>7 DEF Cascade, ArgOK
  <2> QED BY <2>1 DEF LocksInOrder, OrgLockArg
<1>8. CASE CheckSlug(r) \/ CheckInvitation(r)
  <2>1. /\ arg'[r] = arg[r] /\ pc[r] = "check" /\ pc'[r] = "write"
        /\ UNCHANGED <<olock, mlock, ilock>>
    BY <1>1, <1>8 DEF CheckSlug, CheckInvitation
  <2> QED BY <2>1 DEF LocksInOrder
<1>9. ~Write(r) /\ ~EnqueueEmail(r) /\ ~DeadlockAbort(r) /\ ~Abort(r)
  BY <1>1 DEF Write, WriteRole, WriteRemoval, WriteSlug, WriteOrg, WriteInvitation,
     WriteAcceptance, DeleteOrg, Commit, EnqueueEmail, DeadlockAbort, Abort
<1> QED BY <1>2, <1>3, <1>4, <1>5, <1>6, <1>7, <1>8, <1>9 DEF Acquire, Decide

LEMMA LockOrderStep ==
  TenancyInv /\ IdleLocksNothing /\ LockOrder /\ [Next]_vars => LockOrder'
<1> SUFFICES ASSUME TenancyInv, IdleLocksNothing, LockOrder, [Next]_vars, NEW q \in Requests
             PROVE  LocksInOrder(q)'
  BY DEF LockOrder
<1>0. TypeOK /\ LocksInOrder(q)
  BY DEF TenancyInv, LockOrder
<1>1. CASE UNCHANGED <<olock, mlock, ilock, pc, arg>>
  BY <1>0, <1>1 DEF LocksInOrder
<1>2. ASSUME NEW r \in Requests,
             Begin(r) \/ Acquire(r) \/ Decide(r) \/ Write(r) \/ DeadlockAbort(r) \/ Abort(r)
      PROVE  LocksInOrder(q)'
  <2>1. CASE q = r /\ End(r)
    BY <1>0, <2>1, EndUnlocks DEF LocksNothing, LocksInOrder
  <2>2. CASE q = r /\ ~End(r)
    BY <1>0, <1>2, <2>2, LocksTakenInOrder
  <2>3. CASE q # r
    <3>1. pc'[q] = pc[q] /\ arg'[q] = arg[q]
      BY <1>0, <1>2, <2>3, OnlyOneMoves
    <3>2. GivesLocksTo(r)
      BY <1>0, <1>2, LocksGiven
    <3>3. /\ \A o \in Orgs : olock'[o] = q => olock[o] = q
          /\ \A m \in MemIds : mlock'[m] = q => mlock[m] = q
          /\ \A i \in InvIds : ilock'[i] = q => ilock[i] = q
      BY <2>3, <3>2, NoReqAssumption DEF GivesLocksTo
    <3> QED BY <1>0, <3>1, <3>3 DEF LocksInOrder
  <2> QED BY <2>1, <2>2, <2>3
<1>3. CASE Expire
  BY <1>1, <1>3 DEF Expire
<1>4. CASE UNCHANGED vars
  BY <1>1, <1>4 DEF vars
<1> QED BY <1>2, <1>3, <1>4 DEF Next

LEMMA LockOrderInit == Init => LockOrder
BY NoReqAssumption DEF Init, LockOrder, LocksInOrder

\* What each kind of request but role changes, removals and deletions waits for,
\* and who makes it wait: acceptances wait behind holders of an organization,
\* these behind holders of a membership, and these for nobody.
LEMMA OrderedWaits ==
  ASSUME TenancyInv, LockOrder, NEW q \in Requests, NEW b \in Requests, b \in Blockers(q),
         arg[q].op \notin {"update_member", "remove_member", "delete_org"},
         arg[b].op \notin {"update_member", "remove_member", "delete_org"}
  PROVE  /\ pc[q] = "invitation" => pc[b] = "write" /\ arg[b].op = "accept"
         /\ pc[q] \in {"org", "write"} =>
              pc[b] \in {"actor", "check", "write"} /\ arg[b].op \in {"invite", "update_org"}
         /\ pc[q] = "actor" =>
              pc[b] \in {"check", "write"} /\ arg[b].op \in {"invite", "update_org"}
         /\ pc[q] \in {"invitation", "org", "actor"}
              \/ (pc[q] = "write" /\ arg[q].op = "accept")
<1>0. TypeOK /\ ArgOK(q) /\ ArgOK(b) /\ RequestInv(q) /\ LocksInOrder(b) /\ pc[q] # "idle"
  BY WaiterOpen DEF TenancyInv, RequestInv, LockOrder
<1>1. arg[b] \notin MemberChangeArg \cup DeleteOrgArg /\ arg[q] \notin MemberChangeArg \cup DeleteOrgArg
  BY OpOfArg DEF MemberChangeArg
<1>2. pc[q] \notin {"target", "scan", "owners", "cascade", "check", "mail"}
  <2>1. pc[q] \notin {"target", "scan", "owners", "cascade"}
    BY <1>0, <1>1 DEF ArgOK
  <2> QED BY <2>1 DEF Blockers
<1>3. ASSUME \E o \in Orgs : b = olock[o]
      PROVE  pc[b] \in {"actor", "check", "write"} /\ arg[b].op \in {"invite", "update_org"}
  <2>1. arg[b] \in InviteArg \cup UpdateOrgArg /\ pc[b] \in {"actor", "check", "write", "cascade"}
    BY <1>0, <1>1, <1>3 DEF LocksInOrder, OrgLockArg
  <2> QED BY <1>0, <1>1, <2>1, OpOfArg DEF ArgOK
<1>4. CASE pc[q] = "org"
  <2>1. arg[q].org \in Orgs
    BY <1>0, <1>4, OpOfArg DEF ArgOK, OrgLockArg
  <2> QED BY <1>3, <1>4, <2>1 DEF Blockers
<1>5. CASE pc[q] = "actor"
  <2>1. \E m \in MemIds : b = mlock[m]
    BY <1>5 DEF Blockers, ActorRows, MembershipOf, MembersOf
  <2>2. arg[b] \in InviteArg \cup UpdateOrgArg /\ pc[b] \in {"check", "write"}
    BY <1>0, <1>1, <2>1 DEF LocksInOrder
  <2> QED BY <1>5, <2>2, OpOfArg
<1>6. CASE pc[q] = "invitation"
  <2>1. arg[q].invite \in InvIds
    BY <1>0, <1>6, OpOfArg DEF ArgOK
  <2>2. b = ilock[arg[q].invite]
    BY <1>6 DEF Blockers
  <2>3. arg[b] \in AcceptArg /\ pc[b] = "write"
    BY <1>0, <1>1, <2>1, <2>2 DEF LocksInOrder
  <2> QED BY <1>6, <2>3, OpOfArg
<1>7. CASE pc[q] = "write"
  <2>1. arg[q].op = "accept" /\ b = olock[invite[arg[q].invite].org]
    BY <1>7 DEF Blockers
  <2>2. arg[q].invite \in InvIds /\ RowExists(invite[arg[q].invite])
    BY <1>0, <1>7, <2>1, ArgByOp, OpOfArg DEF ArgOK, RequestInv, InvitationHeld
  <2>3. invite[arg[q].invite].org \in Orgs
    BY <1>0, <2>2, InviteFields DEF InviteRow
  <2> QED BY <1>3, <1>7, <2>1, <2>3
<1> QED BY <1>0, <1>2, <1>4, <1>5, <1>6, <1>7 DEF TypeOK, Steps

\* Requests can only wait for each other in a cycle when a role change, a removal
\* or a deletion is part of it: update_organization, create_invitation and
\* accept_invitation take their row locks in one order.
THEOREM MemberChangeInEveryDeadlock == Spec => []DeadlockNeedsMemberChange
<1>1. ASSUME TenancyInv, LockOrder PROVE DeadlockNeedsMemberChange
  <2> SUFFICES ASSUME NEW S \in SUBSET Requests, LockCycle(S),
                      \A q \in S : arg[q].op \notin {"update_member", "remove_member", "delete_org"}
               PROVE  FALSE
    BY DEF DeadlockNeedsMemberChange
  <2>1. ASSUME NEW q \in S PROVE \E b \in S : b \in Blockers(q)
    BY DEF LockCycle
  <2>2. ASSUME NEW q \in S PROVE pc[q] # "actor"
    <3> SUFFICES ASSUME pc[q] = "actor" PROVE FALSE
      OBVIOUS
    <3>1. PICK b \in S : b \in Blockers(q)
      BY <2>1
    <3>2. pc[b] \in {"check", "write"} /\ arg[b].op \in {"invite", "update_org"}
      BY <1>1, <3>1, OrderedWaits
    <3>3. PICK c \in S : c \in Blockers(b)
      BY <2>1
    <3> QED BY <1>1, <3>2, <3>3, OrderedWaits
  <2>3. ASSUME NEW q \in S PROVE pc[q] \notin {"org", "write"}
    <3> SUFFICES ASSUME pc[q] \in {"org", "write"} PROVE FALSE
      OBVIOUS
    <3>1. PICK b \in S : b \in Blockers(q)
      BY <2>1
    <3>2. pc[b] \in {"actor", "check", "write"} /\ arg[b].op \in {"invite", "update_org"}
      BY <1>1, <3>1, OrderedWaits
    <3>3. PICK c \in S : c \in Blockers(b)
      BY <2>1
    <3> QED BY <1>1, <2>2, <3>2, <3>3, OrderedWaits
  <2>4. PICK q \in S : TRUE
    BY DEF LockCycle
  <2>5. PICK b \in S : b \in Blockers(q)
    BY <2>1
  <2>6. pc[b] = "write"
    BY <1>1, <2>2, <2>3, <2>5, OrderedWaits
  <2> QED BY <2>3, <2>6
<1> QED BY <1>1, IdleAlways, TenancyCorrect, LockOrderInit, LockOrderStep, PTL DEF Spec

=============================================================================
