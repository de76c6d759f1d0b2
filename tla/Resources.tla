------------------------------ MODULE Resources ------------------------------
(***************************************************************************)
(* What an organization owns: API keys (app/services/api_keys.py),         *)
(* projects (app/services/projects.py) and the usage recorded with a key   *)
(* (app/api/routes/usage.py), in concurrent transactions that compete with *)
(* membership changes and with the deletion of the organization.           *)
(*                                                                         *)
(* Requests, row locks and commits are those of Tenancy, with one table of *)
(* locks for the rows of all tables.  Membership changes, which Tenancy    *)
(* has in detail, are one step here.  Whether a counter or a quota turns a *)
(* request away is left open: RateLimit and UsageQuota decide it.          *)
(***************************************************************************)
EXTENDS Naturals, Sequences, FiniteSets

CONSTANTS Users, Orgs, KeyIds, ProjectIds, Names,
          Requests, Ops,             \* concurrent requests, and what they may ask
          InitRole, InitKey, InitProject,
          Free, Gone,                \* id not yet used; row deleted
          NoReq, NoArg, NoRow

\* These services tell owners from other members, not ADMIN from MEMBER.
Roles == {"OWNER", "MEMBER"}
NoRole == "none"
KeyRow == [org: Orgs, live: BOOLEAN]
ProjectRow == [org: Orgs, name: Names]
RowExists(row) == row \notin {Free, Gone}

ASSUME ResourceAssumption ==
  /\ {Free, Gone, NoRow} \cap (KeyRow \cup ProjectRow) = {}
  /\ Free # Gone /\ NoReq \notin Requests
  /\ InitRole \in [Orgs -> [Users -> Roles \cup {NoRole}]]
  /\ InitKey \in [KeyIds -> KeyRow \cup {Free}]
  /\ InitProject \in [ProjectIds -> ProjectRow \cup {Free}]
  \* The foreign keys hold: an organization that owns a row exists.
  /\ \A k \in KeyIds : InitKey[k] # Free =>
       \E u \in Users : InitRole[InitKey[k].org][u] = "OWNER"
  /\ \A p \in ProjectIds : InitProject[p] # Free =>
       \E u \in Users : InitRole[InitProject[p].org][u] = "OWNER"
  \* The rows of different tables are different.
  /\ (Orgs \cup KeyIds \cup ProjectIds) \cap (Orgs \X Users) = {}
  /\ Orgs \cap (KeyIds \cup ProjectIds) = {} /\ KeyIds \cap ProjectIds = {}

\* What a client may send.
CreateKeyArg == [op: {"create_key"}, org: Orgs, user: Users]
RevokeKeyArg == [op: {"revoke_key"}, org: Orgs, user: Users, key: KeyIds]
UseKeyArg == [op: {"use_key"}, org: Orgs, key: KeyIds]
CreateProjectArg == [op: {"create_project"}, org: Orgs, user: Users, name: Names]
UpdateProjectArg ==
  [op: {"update_project"}, org: Orgs, user: Users, project: ProjectIds, name: Names]
DeleteProjectArg == [op: {"delete_project"}, org: Orgs, user: Users, project: ProjectIds]
DeleteOrgArg == [op: {"delete_org"}, org: Orgs, user: Users]

OwnerRouteArg == CreateKeyArg \cup RevokeKeyArg \cup DeleteOrgArg
MemberRouteArg == CreateProjectArg \cup UpdateProjectArg \cup DeleteProjectArg
Arg == OwnerRouteArg \cup MemberRouteArg \cup UseKeyArg

\* The statements of each operation, in order; the last one commits.
UseStatements_TouchLast == <<"limit", "usage", "touch", "write">>
UseStatements == <<"touch", "limit", "usage", "write">>
Statements(op) ==
  CASE op = "create_key" -> <<"owner", "write">>
    [] op = "revoke_key" -> <<"owner", "key", "write">>
    [] op = "use_key" -> UseStatements
    [] op = "create_project" -> <<"member", "write">>
    [] op \in {"update_project", "delete_project"} -> <<"select", "project", "write">>
    [] op = "delete_org" -> <<"org", "cascade">>

\* Rows that are locked: organizations, memberships, keys, projects.
Rows == Orgs \cup (Orgs \X Users) \cup KeyIds \cup ProjectIds

VARIABLES
  alive,         \* organizations
  role,          \* memberships, by organization and user
  key, project,  \* api_keys and projects, by id
  lock,          \* who has locked each row
  pc, arg,       \* the statement a request is at, and what it asks
  loaded,        \* the key or project object its session has loaded
  usage,         \* usage events of the last step: organization, and the key used
  audited        \* audit rows of the last step: the action and the row it names

tables == <<alive, role, key, project>>
vars == <<alive, role, key, project, lock, pc, arg, loaded, usage, audited>>

Init ==
  /\ alive = {o \in Orgs : \E u \in Users : InitRole[o][u] = "OWNER"}
  /\ role = InitRole /\ key = InitKey /\ project = InitProject
  /\ lock = [x \in Rows |-> NoReq]
  /\ pc = [r \in Requests |-> "idle"]
  /\ arg = [r \in Requests |-> NoArg]
  /\ loaded = [r \in Requests |-> NoRow]
  /\ usage = {} /\ audited = {}

-----------------------------------------------------------------------------
(* The life of a request. *)

\* The row lock of SELECT ... FOR UPDATE or of an UPDATE.
Available(r, x) == lock[x] \in {NoReq, r}
Locks(r, x) == Available(r, x) /\ lock' = [lock EXCEPT ![x] = r]
Released(r) == [x \in Rows |-> IF lock[x] = r THEN NoReq ELSE lock[x]]

\* On to the next statement; no row is written.
Advance(r) ==
  LET s == Statements(arg[r].op)
      i == CHOOSE n \in DOMAIN s : s[n] = pc[r]
  IN pc' = [pc EXCEPT ![r] = s[i + 1]]
Reads == usage' = {} /\ audited' = {} /\ UNCHANGED tables
Continue(r) == Advance(r) /\ Reads /\ UNCHANGED arg

\* Commit, with the audit rows of the transaction, or rollback.
End(r, entries) ==
  /\ lock' = Released(r)
  /\ pc' = [pc EXCEPT ![r] = "idle"]
  /\ arg' = [arg EXCEPT ![r] = NoArg]
  /\ loaded' = [loaded EXCEPT ![r] = NoRow]
  /\ audited' = entries
Rollback(r) == End(r, {}) /\ usage' = {} /\ UNCHANGED tables

AuditRow ==
  [action: {"api_key.created", "api_key.revoked"}, row: KeyIds]
    \cup [action: {"project.created", "project.updated", "project.deleted"}, row: ProjectIds]
Entry(action, row) == [action |-> action, row |-> row]

\* The bound on inserts: a creation begins only while the finite pool of ids
\* has one left for it.
FreeIds(table) == {k \in DOMAIN table : table[k] = Free}
RoomFor(table, op) ==
  Cardinality(FreeIds(table)) >
    Cardinality({q \in Requests : pc[q] # "idle" /\ arg[q].op = op})

Start(r, a) ==
  /\ pc[r] = "idle" /\ a.op \in Ops
  /\ arg' = [arg EXCEPT ![r] = a]
  /\ pc' = [pc EXCEPT ![r] = Statements(a.op)[1]]
  /\ Reads /\ UNCHANGED lock

\* The route's dependencies: OwnerMembership or OrganizationMembership.
BeginRoute(r) ==
  \E a \in OwnerRouteArg \cup MemberRouteArg :
    /\ a \in OwnerRouteArg => role[a.org][a.user] = "OWNER"
    /\ a \in MemberRouteArg => role[a.org][a.user] # NoRole
    /\ a.op = "create_key" => RoomFor(key, a.op)
    /\ a.op = "create_project" => RoomFor(project, a.op)
    /\ a.op = "revoke_key" => key[a.key] # Free
    /\ a.op \in {"update_project", "delete_project"} => project[a.project] # Free
    /\ Start(r, a)
    /\ UNCHANGED loaded

\* authenticate_api_key up to its flush: a lookup without a lock.
BeginUse(r) ==
  \E a \in UseKeyArg :
    /\ RowExists(key[a.key]) /\ key[a.key].live
    /\ Start(r, a)
    /\ loaded' = [loaded EXCEPT ![r] = key[a.key]]

\* The process dies, or the client or the connection goes away.
Abort(r) == pc[r] # "idle" /\ Rollback(r)

\* An insert or an audit row takes FOR KEY SHARE on its organization, ...
KeyShare(r) == Available(r, arg[r].org)
\* ... and its foreign key fails when the organization is gone.
ReferenceHolds_Unchecked(o) == TRUE
ReferenceHolds(o) == o \in alive

-----------------------------------------------------------------------------
(* API keys. *)

\* _lock_owner
OwnerLocked_Not(r) == UNCHANGED lock
OwnerLocked_WithOrg(r) ==
  /\ Available(r, arg[r].org) /\ Available(r, <<arg[r].org, arg[r].user>>)
  /\ lock' = [lock EXCEPT ![arg[r].org] = r, ![<<arg[r].org, arg[r].user>>] = r]
OwnerLocked(r) == Locks(r, <<arg[r].org, arg[r].user>>)
LockOwner(r) ==
  /\ pc[r] = "owner"
  /\ \/ /\ role[arg[r].org][arg[r].user] = "OWNER" /\ OwnerLocked(r)
        /\ Continue(r) /\ UNCHANGED loaded
     \/ role[arg[r].org][arg[r].user] # "OWNER" /\ Rollback(r)

WriteKey(r) ==
  /\ pc[r] = "write" /\ arg[r].op = "create_key" /\ KeyShare(r)
  /\ IF ReferenceHolds(arg[r].org)
     THEN \E k \in FreeIds(key) :
            /\ key' = [key EXCEPT ![k] = [org |-> arg[r].org, live |-> TRUE]]
            /\ End(r, {Entry("api_key.created", k)})
            /\ usage' = {} /\ UNCHANGED <<alive, role, project>>
     ELSE Rollback(r)

\* revoke_api_key: the key, ...
KeySelected_AnyTenant(r) == RowExists(key[arg[r].key])
KeySelected(r) == RowExists(key[arg[r].key]) /\ key[arg[r].key].org = arg[r].org
LockKey(r) ==
  /\ pc[r] = "key"
  /\ \/ /\ KeySelected(r) /\ Locks(r, arg[r].key)
        /\ loaded' = [loaded EXCEPT ![r] = key[arg[r].key]]
        /\ Continue(r)
     \/ ~KeySelected(r) /\ Rollback(r)

\* ... and its revocation with the audit row, unless it was revoked before.
NotYetRevoked(r) == loaded[r].live
WriteRevocation(r) ==
  /\ pc[r] = "write" /\ arg[r].op = "revoke_key"
  /\ IF NotYetRevoked(r)
     THEN /\ KeyShare(r)
          /\ key' = [key EXCEPT ![arg[r].key].live = FALSE]
          /\ End(r, {Entry("api_key.revoked", arg[r].key)})
     ELSE End(r, {}) /\ UNCHANGED key
  /\ usage' = {} /\ UNCHANGED <<alive, role, project>>

\* The flush of last_used_at locks the row, whatever has become of revoked_at;
\* a row that is gone is a StaleDataError.
Touch(r) ==
  /\ pc[r] = "touch"
  /\ \/ /\ RowExists(key[arg[r].key]) /\ Locks(r, arg[r].key)
        /\ Continue(r) /\ UNCHANGED loaded
     \/ ~RowExists(key[arg[r].key]) /\ Rollback(r)

\* get_api_key_principal, where the rate limiter may raise; then the key must
\* be one of the organization on the path.
PassLimit_AnyPath(r) ==
  /\ pc[r] = "limit"
  /\ \/ Continue(r) /\ UNCHANGED <<lock, loaded>>
     \/ Rollback(r)
PassLimit(r) ==
  /\ pc[r] = "limit"
  /\ \/ loaded[r].org = arg[r].org /\ Continue(r) /\ UNCHANGED <<lock, loaded>>
     \/ Rollback(r)

\* record_usage on principal.organization_id, where the quota may raise.
LockUsage(r) ==
  /\ pc[r] = "usage"
  /\ \/ loaded[r].org \in alive /\ Locks(r, loaded[r].org) /\ Continue(r) /\ UNCHANGED loaded
     \/ loaded[r].org \notin alive /\ Rollback(r)
WriteUsage(r) ==
  /\ pc[r] = "write" /\ arg[r].op = "use_key"
  /\ \/ /\ usage' = {[org |-> loaded[r].org, key |-> arg[r].key]}
        /\ End(r, {})
        /\ UNCHANGED tables
     \/ Rollback(r)

-----------------------------------------------------------------------------
(* Projects. *)

\* _is_member
IsMember(r) == role[arg[r].org][arg[r].user] # NoRole

CheckMember(r) ==
  /\ pc[r] = "member"
  /\ IF IsMember(r) THEN Continue(r) /\ UNCHANGED <<lock, loaded>> ELSE Rollback(r)

InsertProject(r) ==
  /\ pc[r] = "write" /\ arg[r].op = "create_project" /\ KeyShare(r)
  /\ IF ReferenceHolds(arg[r].org)
     THEN \E p \in FreeIds(project) :
            /\ project' = [project EXCEPT ![p] = [org |-> arg[r].org, name |-> arg[r].name]]
            /\ End(r, {Entry("project.created", p)})
            /\ usage' = {} /\ UNCHANGED <<alive, role, key>>
     ELSE Rollback(r)

\* SELECT ... FOR UPDATE of update_project and delete_project.  Its snapshot
\* decides the EXISTS on the membership; ...
ProjectFound(r) ==
  RowExists(project[arg[r].project]) /\ project[arg[r].project].org = arg[r].org
SelectProject_Loads(r) ==
  /\ pc[r] = "select"
  /\ IF ProjectFound(r) /\ IsMember(r)
     THEN /\ loaded' = [loaded EXCEPT ![r] = project[arg[r].project]]
          /\ Continue(r) /\ UNCHANGED lock
     ELSE Rollback(r)
SelectProject(r) ==
  /\ pc[r] = "select"
  /\ IF ProjectFound(r) /\ IsMember(r)
     THEN Continue(r) /\ UNCHANGED <<lock, loaded>>
     ELSE Rollback(r)

\* ... after a wait, only the project's own columns are tested again.  As in
\* Tenancy, an object the session has already loaded would not be refreshed.
SeenProject(r) == IF loaded[r] = NoRow THEN project[arg[r].project] ELSE loaded[r]
LockProject(r) ==
  /\ pc[r] = "project"
  /\ \/ /\ ProjectFound(r) /\ Locks(r, arg[r].project)
        /\ loaded' = [loaded EXCEPT ![r] = SeenProject(r)]
        /\ Continue(r)
     \/ ~ProjectFound(r) /\ Rollback(r)

\* The ORM writes a column only if it differs from what was loaded.
WriteProject(r) ==
  LET p == arg[r].project IN
  /\ pc[r] = "write" /\ arg[r].op = "update_project" /\ KeyShare(r)
  /\ project' = IF arg[r].name # loaded[r].name
                THEN [project EXCEPT ![p].name = arg[r].name]
                ELSE project
  /\ End(r, {Entry("project.updated", p)})
  /\ usage' = {} /\ UNCHANGED <<alive, role, key>>

DeleteProject(r) ==
  /\ pc[r] = "write" /\ arg[r].op = "delete_project" /\ KeyShare(r)
  /\ project' = [project EXCEPT ![arg[r].project] = Gone]
  /\ End(r, {Entry("project.deleted", arg[r].project)})
  /\ usage' = {} /\ UNCHANGED <<alive, role, key>>

-----------------------------------------------------------------------------
(* What Tenancy does to these rows. *)

\* A role change or a removal; another owner stays.
ChangeMember ==
  \E o \in alive, u \in Users, new \in Roles \cup {NoRole} :
    /\ role[o][u] # NoRole
    /\ lock[o] = NoReq /\ lock[<<o, u>>] = NoReq
    /\ \E v \in Users : IF v = u THEN new = "OWNER" ELSE role[o][v] = "OWNER"
    /\ role' = [role EXCEPT ![o][u] = new]
    /\ usage' = {} /\ audited' = {}
    /\ UNCHANGED <<alive, key, project, lock, pc, arg, loaded>>

\* delete_organization.  ON DELETE CASCADE locks the rows it deletes one at a
\* time; the caller's membership, which the first SELECT locks, is one of them.
LockOrg(r) ==
  /\ pc[r] = "org"
  /\ \/ /\ role[arg[r].org][arg[r].user] = "OWNER" /\ Locks(r, arg[r].org)
        /\ Continue(r) /\ UNCHANGED loaded
     \/ role[arg[r].org][arg[r].user] # "OWNER" /\ Rollback(r)

KeysOf(o) == {k \in KeyIds : RowExists(key[k]) /\ key[k].org = o}
ProjectsOf(o) == {p \in ProjectIds : RowExists(project[p]) /\ project[p].org = o}
RowsOf(o) ==
  {<<o, u>> : u \in {v \in Users : role[o][v] # NoRole}} \cup KeysOf(o) \cup ProjectsOf(o)
Uncascaded(r) == {x \in RowsOf(arg[r].org) : lock[x] # r}
Cascade(r) ==
  /\ pc[r] = "cascade"
  /\ \E x \in Uncascaded(r) : Locks(r, x)
  /\ Reads /\ UNCHANGED <<pc, arg, loaded>>
DeleteOrg(r) ==
  LET o == arg[r].org IN
  /\ pc[r] = "cascade" /\ Uncascaded(r) = {}
  /\ alive' = alive \ {o}
  /\ role' = [role EXCEPT ![o] = [u \in Users |-> NoRole]]
  /\ key' = [k \in KeyIds |-> IF k \in KeysOf(o) THEN Gone ELSE key[k]]
  /\ project' = [p \in ProjectIds |-> IF p \in ProjectsOf(o) THEN Gone ELSE project[p]]
  /\ End(r, {}) /\ usage' = {}

-----------------------------------------------------------------------------
(* Deadlocks, as in Tenancy. *)

\* The rows whose locks r may be waiting for.
Awaited(r) ==
  LET a == arg[r] IN
  CASE pc[r] = "owner" -> {<<a.org, a.user>>}
    [] pc[r] \in {"key", "touch"} -> {a.key}
    [] pc[r] = "project" -> {a.project}
    [] pc[r] \in {"usage", "org"} -> {a.org}
    [] pc[r] = "write" -> IF a.op = "revoke_key" /\ ~NotYetRevoked(r) THEN {} ELSE {a.org}
    [] pc[r] = "cascade" -> Uncascaded(r)
    [] OTHER -> {}
Blockers(r) == {lock[x] : x \in Awaited(r)} \ {NoReq, r}

Deadlocked(r) ==
  \E S \in SUBSET Requests : r \in S /\ \A q \in S : Blockers(q) \cap S # {}

DeadlockAbort(r) == Deadlocked(r) /\ Rollback(r)

-----------------------------------------------------------------------------
Begin(r) == BeginRoute(r) \/ BeginUse(r)
Acquire(r) == LockOwner(r) \/ LockKey(r) \/ Touch(r) \/ LockUsage(r) \/ LockProject(r)
              \/ LockOrg(r) \/ Cascade(r)
Decide(r) == PassLimit(r) \/ CheckMember(r) \/ SelectProject(r)
Write(r) == WriteKey(r) \/ WriteRevocation(r) \/ WriteUsage(r) \/ InsertProject(r)
            \/ WriteProject(r) \/ DeleteProject(r) \/ DeleteOrg(r)

Next ==
  \/ \E r \in Requests : Begin(r) \/ Acquire(r) \/ Decide(r) \/ Write(r)
                         \/ DeadlockAbort(r) \/ Abort(r)
  \/ ChangeMember

Spec == Init /\ [][Next]_vars

-----------------------------------------------------------------------------
(* Properties. *)

\* Every variable is in its type, and a lock belongs to an open transaction.
RTypeOK ==
  /\ alive \subseteq Orgs
  /\ role \in [Orgs -> [Users -> Roles \cup {NoRole}]]
  /\ key \in [KeyIds -> KeyRow \cup {Free, Gone}]
  /\ project \in [ProjectIds -> ProjectRow \cup {Free, Gone}]
  /\ lock \in [Rows -> Requests \cup {NoReq}]
  /\ pc \in [Requests -> {"idle", "owner", "key", "touch", "limit", "usage", "member", "select",
                          "project", "org", "cascade", "write"}]
  /\ arg \in [Requests -> Arg \cup {NoArg}]
  /\ loaded \in [Requests -> KeyRow \cup ProjectRow \cup {NoRow}]
  /\ usage \subseteq [org: Orgs, key: KeyIds]
  /\ audited \subseteq AuditRow
  /\ \A r \in Requests :
       IF pc[r] = "idle"
       THEN arg[r] = NoArg /\ \A x \in Rows : lock[x] # r
       ELSE \E n \in DOMAIN Statements(arg[r].op) : pc[r] = Statements(arg[r].op)[n]

\* Nothing outlives its organization: no key, project or usage event, also when
\* a creation waits for the key share while the organization is deleted.
NoOrphans ==
  /\ \A k \in KeyIds : RowExists(key[k]) => key[k].org \in alive
  /\ \A p \in ProjectIds : RowExists(project[p]) => project[p].org \in alive
  /\ \A e \in usage : e.org \in alive

\* The order in which these services lock rows (membership, key, organization;
\* project, organization) has no cycle: only delete_organization, which locks
\* the organization first, can be part of a deadlock.
DeadlockNeedsDeletion ==
  \A r \in Requests : Deadlocked(r) => \E q \in Requests : pc[q] = "cascade"

\* r commits or rolls back in this step.
Ends(r) == arg[r] # NoArg /\ arg'[r] = NoArg

\* The audit log tells the truth.  Every change of a key or a project leaves
\* its row in the same transaction.  A key's revocation is logged once, however
\* many owners revoke it at the same time.  A PATCH that is logged has taken
\* effect, whatever other PATCHes ran: update_project compares with what it
\* loaded under the lock.
AuditExact ==
  [][/\ \A r \in Requests :
          Ends(r) /\ arg[r].op # "delete_org" /\ <<key, project>>' # <<key, project>> =>
            audited' # {}
     /\ \A e \in audited' : e.action = "api_key.revoked" => key[e.row].live
     /\ \A r \in Requests :
          Ends(r) /\ arg[r].op = "update_project" /\ audited' # {} =>
            project'[arg[r].project].name = arg[r].name]_vars

\* A request on the path of one organization changes no key and no project of
\* another, and records usage for that organization with one of its keys.
TenantIsolation ==
  [][/\ \A e \in usage' : key[e.key].org = e.org
     /\ \A r \in Requests : Ends(r) =>
          /\ \A e \in usage' : e.org = arg[r].org
          /\ \A k \in KeyIds : key'[k] # key[k] /\ RowExists(key[k]) => key[k].org = arg[r].org
          /\ \A p \in ProjectIds :
               project'[p] # project[p] /\ RowExists(project[p]) => project[p].org = arg[r].org]_vars

\* README: "Organization owners can create, list, and revoke API keys."  Who
\* is demoted or removed while his request waits neither makes nor revokes one.
OwnersManageKeys ==
  [][\A r \in Requests :
       Ends(r) /\ arg[r].op \in {"create_key", "revoke_key"} /\ key' # key =>
         role[arg[r].org][arg[r].user] = "OWNER"]_vars

\* A revocation, or the deletion of the organization, waits for every request
\* that has touched the key: whoever touched it while it was live records his
\* usage before the revocation, or not at all.
Touched(r, k) ==
  pc[r] \in {"limit", "usage", "write"} /\ arg[r].op = "use_key" /\ arg[r].key = k
RevocationWaits ==
  [][\A k \in KeyIds, r \in Requests : key'[k] # key[k] => ~Touched(r, k)]_vars

=============================================================================
