--------------------------- MODULE ResourcesProofs ---------------------------
(***************************************************************************)
(* Keys, projects and usage under concurrent requests, for any number of   *)
(* organizations, users, keys, projects and requests.                      *)
(***************************************************************************)
EXTENDS Resources, TLAPS

-----------------------------------------------------------------------------
(* The inductive invariant. *)

Op(r) == arg[r].op
At(r, steps) == pc[r] \in steps

\* The statement an operation may be at.
InOrder(r) ==
  \/ At(r, {"idle"})
  \/ At(r, {"owner", "write"}) /\ Op(r) = "create_key"
  \/ At(r, {"owner", "key", "write"}) /\ Op(r) = "revoke_key"
  \/ At(r, {"touch", "limit", "usage", "write"}) /\ Op(r) = "use_key"
  \/ At(r, {"member", "write"}) /\ Op(r) = "create_project"
  \/ At(r, {"select", "project", "write"}) /\ Op(r) \in {"update_project", "delete_project"}
  \/ At(r, {"org", "cascade"}) /\ Op(r) = "delete_org"

\* From _lock_owner to the commit the caller is an owner, and his membership is
\* locked.
OwnerHeld(r) ==
  At(r, {"key", "write"}) /\ Op(r) \in {"create_key", "revoke_key"} =>
    lock[<<arg[r].org, arg[r].user>>] = r /\ role[arg[r].org][arg[r].user] = "OWNER"

\* A key that is being revoked is locked, is of the organization on the path, and
\* is what the session has loaded.
KeyHeld(r) ==
  At(r, {"write"}) /\ Op(r) = "revoke_key" =>
    /\ lock[arg[r].key] = r /\ loaded[r] = key[arg[r].key]
    /\ RowExists(key[arg[r].key]) /\ key[arg[r].key].org = arg[r].org

\* A request that authenticated with a key knows its organization; from its flush
\* on the key stays; once it has passed the route's check the organization is the
\* one on the path, and from record_usage on that is locked.
UseHeld(r) ==
  ~At(r, {"idle"}) /\ Op(r) = "use_key" =>
    /\ loaded[r] \in KeyRow /\ key[arg[r].key] # Free
    /\ RowExists(key[arg[r].key]) => key[arg[r].key].org = loaded[r].org
    /\ At(r, {"limit", "usage", "write"}) =>
         lock[arg[r].key] = r /\ RowExists(key[arg[r].key])
    /\ At(r, {"usage", "write"}) => loaded[r].org = arg[r].org
    /\ At(r, {"write"}) => lock[arg[r].org] = r /\ arg[r].org \in alive

\* A project that is about to be written is locked, is of the organization on the
\* path, and is what the session has loaded.
ProjectHeld(r) ==
  At(r, {"write"}) /\ Op(r) \in {"update_project", "delete_project"} =>
    /\ lock[arg[r].project] = r /\ loaded[r] = project[arg[r].project]
    /\ RowExists(project[arg[r].project]) /\ project[arg[r].project].org = arg[r].org

\* Before that nothing is loaded.
NothingLoaded(r) ==
  At(r, {"idle", "owner", "key", "member", "select", "project", "org", "cascade"}) =>
    loaded[r] = NoRow

OrgHeld(r) == At(r, {"cascade"}) => lock[arg[r].org] = r

\* The rows an operation may have locked at a statement.
Holds(r, x) ==
  \/ At(r, {"cascade"})
  \/ /\ At(r, {"key", "write"}) /\ Op(r) \in {"create_key", "revoke_key"}
     /\ x = <<arg[r].org, arg[r].user>>
  \/ At(r, {"write"}) /\ Op(r) = "revoke_key" /\ x = arg[r].key
  \/ At(r, {"limit", "usage", "write"}) /\ Op(r) = "use_key" /\ x = arg[r].key
  \/ At(r, {"write"}) /\ Op(r) = "use_key" /\ x = arg[r].org
  \/ /\ At(r, {"write"}) /\ Op(r) \in {"update_project", "delete_project"}
     /\ x = arg[r].project

Request(r) ==
  /\ At(r, {"idle"}) => arg[r] = NoArg
  /\ ~At(r, {"idle"}) => arg[r] \in Arg
  /\ InOrder(r) /\ OwnerHeld(r) /\ KeyHeld(r) /\ UseHeld(r) /\ ProjectHeld(r)
  /\ NothingLoaded(r) /\ OrgHeld(r)
  /\ \A x \in Rows : lock[x] = r => Holds(r, x)

\* The variables.
Typed ==
  /\ alive \subseteq Orgs
  /\ role \in [Orgs -> [Users -> Roles \cup {NoRole}]]
  /\ key \in [KeyIds -> KeyRow \cup {Free, Gone}]
  /\ project \in [ProjectIds -> ProjectRow \cup {Free, Gone}]
  /\ lock \in [Rows -> Requests \cup {NoReq}]
  /\ pc \in [Requests -> {"idle", "owner", "key", "touch", "limit", "usage", "member", "select",
                          "project", "org", "cascade", "write"}]
  /\ arg \in [Requests -> Arg \cup {NoArg}]
  /\ loaded \in [Requests -> KeyRow \cup ProjectRow \cup {NoRow}]
  /\ usage \subseteq [org: Orgs, key: KeyIds]
  /\ audited \subseteq AuditRow

ResourceInv == Typed /\ NoOrphans /\ \A r \in Requests : Request(r)

-----------------------------------------------------------------------------
(* Facts that the steps share. *)

USE ResourceAssumption

\* What each operation is asked.
LEMMA ArgFields ==
  ASSUME NEW a \in Arg
  PROVE  /\ a.org \in Orgs
         /\ a.op \in {"create_key", "revoke_key", "use_key", "create_project", "update_project",
                      "delete_project", "delete_org"}
         /\ a.op # "use_key" => a.user \in Users
         /\ a.op \in {"revoke_key", "use_key"} => a.key \in KeyIds
         /\ a.op \in {"update_project", "delete_project"} => a.project \in ProjectIds
         /\ a.op \in {"create_project", "update_project"} => a.name \in Names
         /\ (a \in UseKeyArg) <=> (a.op = "use_key")
<1> USE DEF CreateKeyArg, RevokeKeyArg, UseKeyArg, CreateProjectArg, UpdateProjectArg,
            DeleteProjectArg, DeleteOrgArg
<1>1. CASE a \in CreateKeyArg
  BY <1>1
<1>2. CASE a \in RevokeKeyArg
  BY <1>2
<1>3. CASE a \in UseKeyArg
  BY <1>3
<1>4. CASE a \in CreateProjectArg
  BY <1>4
<1>5. CASE a \in UpdateProjectArg
  BY <1>5
<1>6. CASE a \in DeleteProjectArg
  BY <1>6
<1>7. CASE a \in DeleteOrgArg
  BY <1>7
<1> QED BY <1>1, <1>2, <1>3, <1>4, <1>5, <1>6, <1>7 DEF Arg, OwnerRouteArg, MemberRouteArg

\* The statement that follows another, in a list of two, three or four.
Following(s, step) == s[(CHOOSE n \in DOMAIN s : s[n] = step) + 1]

LEMMA FollowingOfTwo ==
  ASSUME NEW a, NEW b, a # b
  PROVE  Following(<<a, b>>, a) = b
<1> DEFINE s == <<a, b>>
           i == CHOOSE n \in DOMAIN s : s[n] = a
<1>1. DOMAIN s = 1..2 /\ s[1] = a /\ s[2] = b
  OBVIOUS
<1> HIDE DEF s
<1>2. i \in 1..2 /\ s[i] = a
  BY <1>1
<1> HIDE DEF i
<1>3. i = 1
  BY <1>1, <1>2
<1>4. s[i + 1] = b
  BY <1>1, <1>3
<1> QED BY <1>4 DEF Following, s, i

LEMMA FollowingOfThree ==
  ASSUME NEW a, NEW b, NEW c, a # b, b # c, a # c
  PROVE  Following(<<a, b, c>>, a) = b /\ Following(<<a, b, c>>, b) = c
<1> DEFINE s == <<a, b, c>>
           i(x) == CHOOSE n \in DOMAIN s : s[n] = x
<1>1. DOMAIN s = 1..3 /\ s[1] = a /\ s[2] = b /\ s[3] = c
  OBVIOUS
<1> HIDE DEF s
<1>2. /\ i(a) \in 1..3 /\ s[i(a)] = a
      /\ i(b) \in 1..3 /\ s[i(b)] = b
  BY <1>1
<1> HIDE DEF i
<1>3. i(a) = 1 /\ i(b) = 2
  BY <1>1, <1>2
<1>4. s[i(a) + 1] = b /\ s[i(b) + 1] = c
  BY <1>1, <1>3
<1> QED BY <1>4 DEF Following, s, i

LEMMA FollowingOfFour ==
  ASSUME NEW a, NEW b, NEW c, NEW d, a # b, a # c, a # d, b # c, b # d, c # d
  PROVE  /\ Following(<<a, b, c, d>>, a) = b /\ Following(<<a, b, c, d>>, b) = c
         /\ Following(<<a, b, c, d>>, c) = d
<1> DEFINE s == <<a, b, c, d>>
           i(x) == CHOOSE n \in DOMAIN s : s[n] = x
<1>1. DOMAIN s = 1..4 /\ s[1] = a /\ s[2] = b /\ s[3] = c /\ s[4] = d
  OBVIOUS
<1> HIDE DEF s
<1>2. /\ i(a) \in 1..4 /\ s[i(a)] = a
      /\ i(b) \in 1..4 /\ s[i(b)] = b
      /\ i(c) \in 1..4 /\ s[i(c)] = c
  BY <1>1
<1> HIDE DEF i
<1>3. i(a) = 1 /\ i(b) = 2 /\ i(c) = 3
  BY <1>1, <1>2
<1>4. s[i(a) + 1] = b /\ s[i(b) + 1] = c /\ s[i(c) + 1] = d
  BY <1>1, <1>3
<1> QED BY <1>4 DEF Following, s, i

\* Where Continue takes a request.
LEMMA Advanced ==
  ASSUME NEW r \in Requests, Advance(r), Typed
  PROVE  /\ pc'[r] = Following(Statements(Op(r)), pc[r])
         /\ \A q \in Requests : q # r => pc'[q] = pc[q]
         /\ pc[r] = "owner" /\ Op(r) = "create_key" => pc'[r] = "write"
         /\ pc[r] = "owner" /\ Op(r) = "revoke_key" => pc'[r] = "key"
         /\ pc[r] = "key" /\ Op(r) = "revoke_key" => pc'[r] = "write"
         /\ pc[r] = "touch" /\ Op(r) = "use_key" => pc'[r] = "limit"
         /\ pc[r] = "limit" /\ Op(r) = "use_key" => pc'[r] = "usage"
         /\ pc[r] = "usage" /\ Op(r) = "use_key" => pc'[r] = "write"
         /\ pc[r] = "member" /\ Op(r) = "create_project" => pc'[r] = "write"
         /\ pc[r] = "select" /\ Op(r) \in {"update_project", "delete_project"} => pc'[r] = "project"
         /\ pc[r] = "project" /\ Op(r) \in {"update_project", "delete_project"} => pc'[r] = "write"
         /\ pc[r] = "org" /\ Op(r) = "delete_org" => pc'[r] = "cascade"
<1>1. pc' = [pc EXCEPT ![r] = Following(Statements(Op(r)), pc[r])]
  BY DEF Advance, Following, Op
<1>2. /\ pc'[r] = Following(Statements(Op(r)), pc[r])
      /\ \A q \in Requests : q # r => pc'[q] = pc[q]
  BY <1>1 DEF Typed
<1>3. /\ Statements("create_key") = <<"owner", "write">>
      /\ Statements("revoke_key") = <<"owner", "key", "write">>
      /\ Statements("use_key") = <<"touch", "limit", "usage", "write">>
      /\ Statements("create_project") = <<"member", "write">>
      /\ Statements("update_project") = <<"select", "project", "write">>
      /\ Statements("delete_project") = <<"select", "project", "write">>
      /\ Statements("delete_org") = <<"org", "cascade">>
  BY DEF Statements, UseStatements
<1>4. /\ Following(<<"owner", "write">>, "owner") = "write"
      /\ Following(<<"member", "write">>, "member") = "write"
      /\ Following(<<"org", "cascade">>, "org") = "cascade"
  BY FollowingOfTwo
<1>5. /\ Following(<<"owner", "key", "write">>, "owner") = "key"
      /\ Following(<<"owner", "key", "write">>, "key") = "write"
      /\ Following(<<"select", "project", "write">>, "select") = "project"
      /\ Following(<<"select", "project", "write">>, "project") = "write"
  BY FollowingOfThree
<1>6. /\ Following(<<"touch", "limit", "usage", "write">>, "touch") = "limit"
      /\ Following(<<"touch", "limit", "usage", "write">>, "limit") = "usage"
      /\ Following(<<"touch", "limit", "usage", "write">>, "usage") = "write"
  BY FollowingOfFour
<1> HIDE DEF Following, Statements
<1> QED BY <1>2, <1>3, <1>4, <1>5, <1>6

\* A step of r writes rows only where no other request holds a lock; it makes no
\* row of a gone one, and leaves a key with its organization.
Respects(r) ==
  /\ \A o \in Orgs, u \in Users : role'[o][u] # role[o][u] => lock[<<o, u>>] \in {NoReq, r}
  /\ \A k \in KeyIds : key[k] # Free =>
       /\ key'[k] # Free
       /\ RowExists(key'[k]) => RowExists(key[k]) /\ key'[k].org = key[k].org
       /\ key'[k] # key[k] => lock[k] \in {NoReq, r}
  /\ \A p \in ProjectIds :
       project[p] # Free /\ project'[p] # project[p] => lock[p] \in {NoReq, r}
  /\ \A o \in alive \ alive' : lock[o] \in {NoReq, r}

\* It takes and releases locks for r only.
LocksFor(r) == \A x \in Rows, q \in Requests : q # r => ((lock'[x] = q) <=> (lock[x] = q))

Others(r) ==
  \A q \in Requests : q # r => pc'[q] = pc[q] /\ arg'[q] = arg[q] /\ loaded'[q] = loaded[q]

LEMMA OthersKept ==
  ASSUME ResourceInv, NEW r, Respects(r), LocksFor(r), Others(r), NEW q \in Requests, q # r
  PROVE  Request(q)'
<1>1. pc'[q] = pc[q] /\ arg'[q] = arg[q] /\ loaded'[q] = loaded[q]
  BY DEF Others
<1>2. Request(q) /\ Typed /\ q # NoReq
  BY DEF ResourceInv
<1>3. CASE pc[q] = "idle"
  BY <1>1, <1>2, <1>3 DEF Request, At, InOrder, OwnerHeld, KeyHeld, UseHeld, ProjectHeld,
     NothingLoaded, OrgHeld, LocksFor, Holds
<1>4. CASE pc[q] # "idle"
  <2> DEFINE a == arg[q]
  <2>1. a \in Arg
    BY <1>2, <1>4 DEF Request, At
  <2>2. /\ a.org \in Orgs
        /\ a.op # "use_key" => a.user \in Users
        /\ a.op \in {"revoke_key", "use_key"} => a.key \in KeyIds
        /\ a.op \in {"update_project", "delete_project"} => a.project \in ProjectIds
    BY <2>1, ArgFields
  <2>3. /\ a.org \in Rows
        /\ a.op # "use_key" => <<a.org, a.user>> \in Rows
        /\ a.op \in {"revoke_key", "use_key"} => a.key \in Rows
        /\ a.op \in {"update_project", "delete_project"} => a.project \in Rows
    BY <2>2 DEF Rows
  <2>4. Op(q)' = Op(q) /\ Op(q) = a.op
    BY <1>1 DEF Op
  <2> USE <1>1, <1>2, <2>2, <2>3, <2>4
  <2>5. InOrder(q)' /\ NothingLoaded(q)'
    BY DEF Request, InOrder, NothingLoaded, At
  <2>6. OwnerHeld(q)'
    BY DEF Request, OwnerHeld, At, LocksFor, Respects
  <2>7. KeyHeld(q)'
    BY DEF Request, KeyHeld, At, LocksFor, Respects, RowExists
  <2>8. UseHeld(q)'
    BY DEF Request, UseHeld, At, LocksFor, Respects, RowExists
  <2>9. ProjectHeld(q)'
    BY DEF Request, ProjectHeld, At, LocksFor, Respects, RowExists
  <2>10. OrgHeld(q)'
    BY DEF Request, OrgHeld, At, LocksFor
  <2>11. \A x \in Rows : lock'[x] = q => Holds(q, x)'
    BY DEF Request, Holds, At, LocksFor
  <2> QED BY <1>4, <2>1, <2>5, <2>6, <2>7, <2>8, <2>9, <2>10, <2>11 DEF Request, At
<1> QED BY <1>3, <1>4

\* An open request names rows of the tables.
LEMMA Asked ==
  ASSUME ResourceInv, NEW r \in Requests, pc[r] # "idle"
  PROVE  /\ arg[r] \in Arg /\ arg[r].org \in Orgs /\ arg[r].org \in Rows /\ InOrder(r)
         /\ Op(r) # "use_key" => arg[r].user \in Users /\ <<arg[r].org, arg[r].user>> \in Rows
         /\ Op(r) \in {"revoke_key", "use_key"} => arg[r].key \in KeyIds /\ arg[r].key \in Rows
         /\ Op(r) \in {"update_project", "delete_project"} =>
              arg[r].project \in ProjectIds /\ arg[r].project \in Rows
         /\ Op(r) \in {"create_project", "update_project"} => arg[r].name \in Names
<1>1. arg[r] \in Arg /\ InOrder(r)
  BY DEF ResourceInv, Request, At
<1>2. /\ arg[r].org \in Orgs
      /\ Op(r) # "use_key" => arg[r].user \in Users
      /\ Op(r) \in {"revoke_key", "use_key"} => arg[r].key \in KeyIds
      /\ Op(r) \in {"update_project", "delete_project"} => arg[r].project \in ProjectIds
      /\ Op(r) \in {"create_project", "update_project"} => arg[r].name \in Names
  BY <1>1, ArgFields DEF Op
<1> QED BY <1>1, <1>2 DEF Rows

LEMMA Locked ==
  ASSUME Typed, NEW r \in Requests, NEW x \in Rows, Locks(r, x)
  PROVE  /\ lock' \in [Rows -> Requests \cup {NoReq}] /\ lock'[x] = r
         /\ \A y \in Rows : y # x => lock'[y] = lock[y]
         /\ LocksFor(r)
BY DEF Typed, Locks, Available, LocksFor

\* A step that reads and locks.
LEMMA ReadStep ==
  ASSUME ResourceInv, NEW r \in Requests, Reads, LocksFor(r), Others(r), Request(r)',
         lock' \in [Rows -> Requests \cup {NoReq}],
         pc' \in [Requests -> {"idle", "owner", "key", "touch", "limit", "usage", "member",
                               "select", "project", "org", "cascade", "write"}],
         arg' \in [Requests -> Arg \cup {NoArg}],
         loaded' \in [Requests -> KeyRow \cup ProjectRow \cup {NoRow}]
  PROVE  ResourceInv'
<1>1. UNCHANGED <<alive, role, key, project>> /\ usage' = {} /\ audited' = {}
  BY DEF Reads, tables
<1>2. Respects(r)
  BY <1>1 DEF Respects
<1>3. \A q \in Requests : Request(q)'
  BY <1>2, OthersKept
<1>4. Typed'
  BY <1>1 DEF ResourceInv, Typed
<1>5. NoOrphans'
  BY <1>1 DEF ResourceInv, NoOrphans
<1> QED BY <1>3, <1>4, <1>5 DEF ResourceInv

\* A step from one statement to the next.
LEMMA ContinueStep ==
  ASSUME ResourceInv, NEW r \in Requests, Continue(r), pc[r] # "idle", LocksFor(r),
         \A q \in Requests : q # r => loaded'[q] = loaded[q],
         Request(r)',
         lock' \in [Rows -> Requests \cup {NoReq}],
         loaded' \in [Requests -> KeyRow \cup ProjectRow \cup {NoRow}]
  PROVE  ResourceInv'
<1>1. Typed /\ InOrder(r)
  BY Asked DEF ResourceInv
<1>2. Advance(r) /\ Reads /\ UNCHANGED arg
  BY DEF Continue
<1>3. Others(r)
  BY <1>1, <1>2, Advanced DEF Others
<1>4. pc'[r] \in {"owner", "key", "touch", "limit", "usage", "member", "select", "project",
                  "org", "cascade", "write", "idle"}
  BY <1>2 DEF Request, InOrder, At
<1>5. pc' \in [Requests -> {"idle", "owner", "key", "touch", "limit", "usage", "member",
                            "select", "project", "org", "cascade", "write"}]
  BY <1>1, <1>2, <1>4 DEF Typed, Advance
<1>6. arg' \in [Requests -> Arg \cup {NoArg}]
  BY <1>1, <1>2 DEF Typed
<1> QED BY <1>2, <1>3, <1>5, <1>6, ReadStep

TypedTables ==
  /\ alive \subseteq Orgs
  /\ role \in [Orgs -> [Users -> Roles \cup {NoRole}]]
  /\ key \in [KeyIds -> KeyRow \cup {Free, Gone}]
  /\ project \in [ProjectIds -> ProjectRow \cup {Free, Gone}]
  /\ usage \subseteq [org: Orgs, key: KeyIds]

\* What commit and rollback do to the other requests.
LEMMA Ended ==
  ASSUME Typed, NEW r \in Requests, NEW entries, End(r, entries)
  PROVE  /\ LocksFor(r) /\ Others(r)
         /\ lock' \in [Rows -> Requests \cup {NoReq}]
         /\ pc' \in [Requests -> {"idle", "owner", "key", "touch", "limit", "usage", "member",
                                  "select", "project", "org", "cascade", "write"}]
         /\ arg' \in [Requests -> Arg \cup {NoArg}]
         /\ loaded' \in [Requests -> KeyRow \cup ProjectRow \cup {NoRow}]
         /\ pc'[r] = "idle" /\ arg'[r] = NoArg /\ loaded'[r] = NoRow
         /\ \A x \in Rows : lock'[x] # r
         /\ audited' = entries
<1>1. /\ lock' \in [Rows -> Requests \cup {NoReq}] /\ \A x \in Rows : lock'[x] # r
      /\ LocksFor(r)
  BY DEF Typed, End, Released, LocksFor
<1>2. /\ pc' \in [Requests -> {"idle", "owner", "key", "touch", "limit", "usage", "member",
                               "select", "project", "org", "cascade", "write"}]
      /\ pc'[r] = "idle" /\ \A q \in Requests : q # r => pc'[q] = pc[q]
  BY DEF Typed, End
<1>3. /\ arg' \in [Requests -> Arg \cup {NoArg}]
      /\ arg'[r] = NoArg /\ \A q \in Requests : q # r => arg'[q] = arg[q]
  BY DEF Typed, End
<1>4. /\ loaded' \in [Requests -> KeyRow \cup ProjectRow \cup {NoRow}]
      /\ loaded'[r] = NoRow /\ \A q \in Requests : q # r => loaded'[q] = loaded[q]
  BY DEF Typed, End
<1>5. audited' = entries
  BY DEF End
<1> QED BY <1>1, <1>2, <1>3, <1>4, <1>5 DEF Others

\* A commit that writes under its locks.
LEMMA EndStep ==
  ASSUME ResourceInv, NEW r \in Requests, NEW entries \in SUBSET AuditRow, End(r, entries),
         Respects(r), TypedTables', NoOrphans'
  PROVE  ResourceInv'
<1>1. Typed
  BY DEF ResourceInv
<1>2. /\ LocksFor(r) /\ Others(r)
      /\ pc'[r] = "idle" /\ arg'[r] = NoArg /\ loaded'[r] = NoRow
      /\ \A x \in Rows : lock'[x] # r
  BY <1>1, Ended
<1>3. Typed'
  BY <1>1, Ended DEF Typed, TypedTables
<1>4. Request(r)'
  BY <1>2 DEF Request, At, InOrder, OwnerHeld, KeyHeld, UseHeld, ProjectHeld, NothingLoaded, OrgHeld
<1>5. \A q \in Requests : Request(q)'
  BY <1>2, <1>4, OthersKept
<1> QED BY <1>3, <1>5 DEF ResourceInv

LEMMA RollbackStep ==
  ASSUME ResourceInv, NEW r \in Requests, Rollback(r)
  PROVE  ResourceInv'
<1>1. End(r, {}) /\ UNCHANGED <<alive, role, key, project>> /\ usage' = {}
  BY DEF Rollback, tables
<1>2. Respects(r)
  BY <1>1 DEF Respects
<1>3. TypedTables' /\ NoOrphans'
  BY <1>1 DEF ResourceInv, Typed, TypedTables, NoOrphans
<1> QED BY <1>1, <1>2, <1>3, EndStep

-----------------------------------------------------------------------------
(* Requests begin. *)

LEMMA FirstStatement ==
  ASSUME NEW a \in Arg
  PROVE  /\ a.op \in {"create_key", "revoke_key"} => Statements(a.op)[1] = "owner"
         /\ a.op = "use_key" => Statements(a.op)[1] = "touch"
         /\ a.op = "create_project" => Statements(a.op)[1] = "member"
         /\ a.op \in {"update_project", "delete_project"} => Statements(a.op)[1] = "select"
         /\ a.op = "delete_org" => Statements(a.op)[1] = "org"
BY DEF Statements, UseStatements

\* What a request has when it begins.
LEMMA Started ==
  ASSUME ResourceInv, NEW r \in Requests, NEW a \in Arg, Start(r, a),
         \A q \in Requests : q # r => loaded'[q] = loaded[q]
  PROVE  /\ pc[r] = "idle" /\ Reads /\ LocksFor(r) /\ Others(r) /\ arg'[r] = a
         /\ \A x \in Rows : lock'[x] # r
         /\ \/ a.op \in {"create_key", "revoke_key"} /\ pc'[r] = "owner"
            \/ a.op = "use_key" /\ pc'[r] = "touch"
            \/ a.op = "create_project" /\ pc'[r] = "member"
            \/ a.op \in {"update_project", "delete_project"} /\ pc'[r] = "select"
            \/ a.op = "delete_org" /\ pc'[r] = "org"
         /\ lock' \in [Rows -> Requests \cup {NoReq}]
         /\ pc' \in [Requests -> {"idle", "owner", "key", "touch", "limit", "usage", "member",
                                  "select", "project", "org", "cascade", "write"}]
         /\ arg' \in [Requests -> Arg \cup {NoArg}]
<1>1. /\ pc[r] = "idle" /\ arg' = [arg EXCEPT ![r] = a] /\ UNCHANGED lock /\ Reads
      /\ pc' = [pc EXCEPT ![r] = Statements(a.op)[1]]
  BY DEF Start
<1>2. Typed /\ \A x \in Rows : lock[x] # r
  BY <1>1 DEF ResourceInv, Request, Holds, At
<1>3. \/ a.op \in {"create_key", "revoke_key"} /\ Statements(a.op)[1] = "owner"
      \/ a.op = "use_key" /\ Statements(a.op)[1] = "touch"
      \/ a.op = "create_project" /\ Statements(a.op)[1] = "member"
      \/ a.op \in {"update_project", "delete_project"} /\ Statements(a.op)[1] = "select"
      \/ a.op = "delete_org" /\ Statements(a.op)[1] = "org"
  BY ArgFields, FirstStatement
<1> HIDE DEF Statements
<1>4. /\ pc'[r] = Statements(a.op)[1] /\ \A q \in Requests : q # r => pc'[q] = pc[q]
      /\ pc' \in [Requests -> {"idle", "owner", "key", "touch", "limit", "usage", "member",
                               "select", "project", "org", "cascade", "write"}]
  BY <1>1, <1>2, <1>3 DEF Typed
<1>5. /\ arg'[r] = a /\ \A q \in Requests : q # r => arg'[q] = arg[q]
      /\ arg' \in [Requests -> Arg \cup {NoArg}]
  BY <1>1, <1>2 DEF Typed
<1>6. LocksFor(r) /\ lock' \in [Rows -> Requests \cup {NoReq}]
  BY <1>1, <1>2 DEF LocksFor, Typed
<1>7. Others(r)
  BY <1>4, <1>5 DEF Others
<1> QED BY <1>1, <1>2, <1>3, <1>4, <1>5, <1>6, <1>7

LEMMA BeginRouteStep ==
  ASSUME ResourceInv, NEW r \in Requests, BeginRoute(r)
  PROVE  ResourceInv'
<1>1. PICK a \in OwnerRouteArg \cup MemberRouteArg : Start(r, a) /\ UNCHANGED loaded
  BY DEF BeginRoute
<1>2. a \in Arg /\ a.op # "use_key"
  BY <1>1 DEF Arg, OwnerRouteArg, MemberRouteArg, CreateKeyArg, RevokeKeyArg, CreateProjectArg,
              UpdateProjectArg, DeleteProjectArg, DeleteOrgArg
<1>3. Typed /\ Request(r)
  BY DEF ResourceInv
<1>4. Request(r)'
  BY <1>1, <1>2, <1>3, Started DEF Request, At, InOrder, OwnerHeld, KeyHeld, UseHeld, ProjectHeld,
     NothingLoaded, OrgHeld, Op
<1>5. loaded' \in [Requests -> KeyRow \cup ProjectRow \cup {NoRow}]
  BY <1>1, <1>3 DEF Typed
<1> QED BY <1>1, <1>2, <1>4, <1>5, Started, ReadStep

LEMMA BeginUseStep ==
  ASSUME ResourceInv, NEW r \in Requests, BeginUse(r)
  PROVE  ResourceInv'
<1>1. PICK a \in UseKeyArg : /\ RowExists(key[a.key]) /\ Start(r, a)
                             /\ loaded' = [loaded EXCEPT ![r] = key[a.key]]
  BY DEF BeginUse
<1>2. a \in Arg /\ a.op = "use_key" /\ a.key \in KeyIds
  BY <1>1 DEF Arg, UseKeyArg
<1>3. Typed
  BY DEF ResourceInv
<1>4. /\ key[a.key] \in KeyRow /\ key[a.key] # Free /\ loaded'[r] = key[a.key]
      /\ loaded' \in [Requests -> KeyRow \cup ProjectRow \cup {NoRow}]
      /\ \A q \in Requests : q # r => loaded'[q] = loaded[q]
  BY <1>1, <1>2, <1>3 DEF Typed, RowExists
<1>5. Reads /\ pc'[r] = "touch" /\ arg'[r] = a /\ \A x \in Rows : lock'[x] # r
  BY <1>1, <1>2, <1>4, Started
<1>6. key' = key
  BY <1>5 DEF Reads, tables
<1>7. Request(r)'
  BY <1>2, <1>4, <1>5, <1>6 DEF Request, At, InOrder, OwnerHeld, KeyHeld, UseHeld, ProjectHeld,
     NothingLoaded, OrgHeld, Op
<1> QED BY <1>1, <1>2, <1>4, <1>7, Started, ReadStep

-----------------------------------------------------------------------------
(* Statements that read and lock. *)

\* Continue leaves the tables and what was asked.
LEMMA Continued ==
  ASSUME NEW r \in Requests, Continue(r)
  PROVE  Advance(r) /\ UNCHANGED <<alive, role, key, project, arg>> /\ Op(r)' = Op(r)
BY DEF Continue, Reads, tables, Op

LEMMA LockOwnerStep ==
  ASSUME ResourceInv, NEW r \in Requests, LockOwner(r)
  PROVE  ResourceInv'
<1> DEFINE x == <<arg[r].org, arg[r].user>>
<1>1. CASE Rollback(r)
  BY <1>1, RollbackStep
<1>2. CASE role[arg[r].org][arg[r].user] = "OWNER" /\ Locks(r, x) /\ Continue(r) /\ UNCHANGED loaded
  <2>1. Typed /\ Request(r) /\ pc[r] = "owner"
    BY DEF ResourceInv, LockOwner
  <2>2. x \in Rows /\ Op(r) \in {"create_key", "revoke_key"}
    BY <2>1, Asked DEF InOrder, At
  <2>3. /\ UNCHANGED <<alive, role, key, project, arg>> /\ Op(r)' = Op(r)
        /\ Op(r) = "create_key" => pc'[r] = "write"
        /\ Op(r) = "revoke_key" => pc'[r] = "key"
    BY <1>2, <2>1, Continued, Advanced
  <2> HIDE DEF x
  <2>4. /\ lock' \in [Rows -> Requests \cup {NoReq}] /\ lock'[x] = r /\ LocksFor(r)
        /\ \A y \in Rows : y # x => lock'[y] = lock[y]
    BY <1>2, <2>1, <2>2, Locked
  <2>5. \A y \in Rows : y # x => lock'[y] # r
    BY <2>1, <2>4 DEF Request, Holds, At
  <2>6. Request(r)'
    BY <1>2, <2>1, <2>2, <2>3, <2>4, <2>5 DEF Request, At, InOrder, OwnerHeld, KeyHeld, UseHeld,
       ProjectHeld, NothingLoaded, OrgHeld, Holds, x
  <2>7. loaded' \in [Requests -> KeyRow \cup ProjectRow \cup {NoRow}]
    BY <1>2, <2>1 DEF Typed
  <2> QED BY <1>2, <2>1, <2>4, <2>6, <2>7, ContinueStep
<1> QED BY <1>1, <1>2 DEF LockOwner, OwnerLocked

LEMMA LockKeyStep ==
  ASSUME ResourceInv, NEW r \in Requests, LockKey(r)
  PROVE  ResourceInv'
<1> DEFINE x == arg[r].key
<1>1. CASE Rollback(r)
  BY <1>1, RollbackStep
<1>2. CASE /\ KeySelected(r) /\ Locks(r, x) /\ Continue(r)
           /\ loaded' = [loaded EXCEPT ![r] = key[x]]
  <2>1. Typed /\ Request(r) /\ pc[r] = "key"
    BY DEF ResourceInv, LockKey
  <2>2. Op(r) = "revoke_key" /\ x \in Rows /\ x \in KeyIds
    BY <2>1, Asked DEF InOrder, At
  <2>3. /\ UNCHANGED <<alive, role, key, project, arg>> /\ Op(r)' = Op(r) /\ pc'[r] = "write"
    BY <1>2, <2>1, <2>2, Continued, Advanced
  <2>4. RowExists(key[x]) /\ key[x].org = arg[r].org
    BY <1>2 DEF KeySelected
  <2>5. /\ loaded'[r] = key[x] /\ \A q \in Requests : q # r => loaded'[q] = loaded[q]
        /\ loaded' \in [Requests -> KeyRow \cup ProjectRow \cup {NoRow}]
    BY <1>2, <2>1, <2>2, <2>4 DEF Typed, RowExists
  <2> HIDE DEF x
  <2>6. /\ lock' \in [Rows -> Requests \cup {NoReq}] /\ lock'[x] = r /\ LocksFor(r)
        /\ \A y \in Rows : y # x => lock'[y] = lock[y]
    BY <1>2, <2>1, <2>2, Locked
  <2>7. \A y \in Rows : lock'[y] = r => y = x \/ y = <<arg[r].org, arg[r].user>>
    BY <2>1, <2>2, <2>6 DEF Request, Holds, At
  <2>8. lock'[<<arg[r].org, arg[r].user>>] = r /\ role[arg[r].org][arg[r].user] = "OWNER"
    <3>1. /\ lock[<<arg[r].org, arg[r].user>>] = r /\ role[arg[r].org][arg[r].user] = "OWNER"
          /\ <<arg[r].org, arg[r].user>> \in Rows
      BY <2>1, <2>2, Asked DEF Request, OwnerHeld, At
    <3> QED BY <2>6, <3>1
  <2>9. Request(r)'
    BY <2>1, <2>2, <2>3, <2>4, <2>5, <2>6, <2>7, <2>8 DEF Request, At, InOrder, OwnerHeld, KeyHeld,
       UseHeld, ProjectHeld, NothingLoaded, OrgHeld, Holds, x
  <2> QED BY <1>2, <2>1, <2>5, <2>6, <2>9, ContinueStep
<1> QED BY <1>1, <1>2 DEF LockKey

LEMMA TouchStep ==
  ASSUME ResourceInv, NEW r \in Requests, Touch(r)
  PROVE  ResourceInv'
<1> DEFINE x == arg[r].key
<1>1. CASE Rollback(r)
  BY <1>1, RollbackStep
<1>2. CASE RowExists(key[x]) /\ Locks(r, x) /\ Continue(r) /\ UNCHANGED loaded
  <2>1. Typed /\ Request(r) /\ pc[r] = "touch"
    BY DEF ResourceInv, Touch
  <2>2. Op(r) = "use_key" /\ x \in Rows
    BY <2>1, Asked DEF InOrder, At
  <2>3. /\ UNCHANGED <<alive, role, key, project, arg>> /\ Op(r)' = Op(r) /\ pc'[r] = "limit"
    BY <1>2, <2>1, <2>2, Continued, Advanced
  <2> HIDE DEF x
  <2>4. /\ lock' \in [Rows -> Requests \cup {NoReq}] /\ lock'[x] = r /\ LocksFor(r)
        /\ \A y \in Rows : y # x => lock'[y] = lock[y]
    BY <1>2, <2>1, <2>2, Locked
  <2>5. \A y \in Rows : y # x => lock'[y] # r
    BY <2>1, <2>4 DEF Request, Holds, At
  <2>6. Request(r)'
    BY <1>2, <2>1, <2>2, <2>3, <2>4, <2>5 DEF Request, At, InOrder, OwnerHeld, KeyHeld, UseHeld,
       ProjectHeld, NothingLoaded, OrgHeld, Holds, x
  <2>7. loaded' \in [Requests -> KeyRow \cup ProjectRow \cup {NoRow}]
    BY <1>2, <2>1 DEF Typed
  <2> QED BY <1>2, <2>1, <2>4, <2>6, <2>7, ContinueStep
<1> QED BY <1>1, <1>2 DEF Touch

LEMMA PassLimitStep ==
  ASSUME ResourceInv, NEW r \in Requests, PassLimit(r)
  PROVE  ResourceInv'
<1>1. CASE Rollback(r)
  BY <1>1, RollbackStep
<1>2. CASE loaded[r].org = arg[r].org /\ Continue(r) /\ UNCHANGED <<lock, loaded>>
  <2>1. Typed /\ Request(r) /\ pc[r] = "limit"
    BY DEF ResourceInv, PassLimit
  <2>2. Op(r) = "use_key"
    BY <2>1, Asked DEF InOrder, At
  <2>3. /\ UNCHANGED <<alive, role, key, project, arg>> /\ Op(r)' = Op(r) /\ pc'[r] = "usage"
    BY <1>2, <2>1, <2>2, Continued, Advanced
  <2>4. Request(r)'
    BY <1>2, <2>1, <2>2, <2>3 DEF Request, At, InOrder, OwnerHeld, KeyHeld, UseHeld,
       ProjectHeld, NothingLoaded, OrgHeld, Holds
  <2>5. /\ loaded' \in [Requests -> KeyRow \cup ProjectRow \cup {NoRow}] /\ LocksFor(r)
        /\ lock' \in [Rows -> Requests \cup {NoReq}]
    BY <1>2, <2>1 DEF Typed, LocksFor
  <2> QED BY <1>2, <2>1, <2>4, <2>5, ContinueStep
<1> QED BY <1>1, <1>2 DEF PassLimit

LEMMA LockUsageStep ==
  ASSUME ResourceInv, NEW r \in Requests, LockUsage(r)
  PROVE  ResourceInv'
<1> DEFINE x == arg[r].org
<1>1. CASE Rollback(r)
  BY <1>1, RollbackStep
<1>2. CASE /\ loaded[r].org \in alive /\ Locks(r, loaded[r].org) /\ Continue(r)
           /\ UNCHANGED loaded
  <2>1. Typed /\ Request(r) /\ pc[r] = "usage"
    BY DEF ResourceInv, LockUsage
  <2>2. Op(r) = "use_key" /\ x \in Rows /\ arg[r].key \in Rows
    BY <2>1, Asked DEF InOrder, At
  <2>3. /\ UNCHANGED <<alive, role, key, project, arg>> /\ Op(r)' = Op(r) /\ pc'[r] = "write"
    BY <1>2, <2>1, <2>2, Continued, Advanced
  <2>4. loaded[r].org = x /\ x \in alive
    BY <1>2, <2>1, <2>2 DEF Request, UseHeld, At
  <2> HIDE DEF x
  <2>5. /\ lock' \in [Rows -> Requests \cup {NoReq}] /\ lock'[x] = r /\ LocksFor(r)
        /\ \A y \in Rows : y # x => lock'[y] = lock[y]
    BY <1>2, <2>1, <2>2, <2>4, Locked
  <2>6. \A y \in Rows : lock'[y] = r => y = x \/ y = arg[r].key
    BY <2>1, <2>2, <2>5 DEF Request, Holds, At
  <2>7. lock'[arg[r].key] = r
    <3>1. lock[arg[r].key] = r
      BY <2>1, <2>2 DEF Request, UseHeld, At
    <3> QED BY <3>1, <2>2, <2>5
  <2>8. Request(r)'
    BY <1>2, <2>1, <2>2, <2>3, <2>4, <2>5, <2>6, <2>7 DEF Request, At, InOrder, OwnerHeld, KeyHeld,
       UseHeld, ProjectHeld, NothingLoaded, OrgHeld, Holds, x
  <2>9. loaded' \in [Requests -> KeyRow \cup ProjectRow \cup {NoRow}]
    BY <1>2, <2>1 DEF Typed
  <2> QED BY <1>2, <2>1, <2>5, <2>8, <2>9, ContinueStep
<1> QED BY <1>1, <1>2 DEF LockUsage

LEMMA CheckMemberStep ==
  ASSUME ResourceInv, NEW r \in Requests, CheckMember(r) \/ SelectProject(r)
  PROVE  ResourceInv'
<1>1. CASE Rollback(r)
  BY <1>1, RollbackStep
<1>2. CASE pc[r] \in {"member", "select"} /\ Continue(r) /\ UNCHANGED <<lock, loaded>>
  <2>1. Typed /\ Request(r)
    BY DEF ResourceInv
  <2>2. \/ pc[r] = "member" /\ Op(r) = "create_project"
        \/ pc[r] = "select" /\ Op(r) \in {"update_project", "delete_project"}
    BY <1>2, <2>1 DEF Request, InOrder, At
  <2>3. /\ UNCHANGED <<alive, role, key, project, arg>> /\ Op(r)' = Op(r)
        /\ Op(r) = "create_project" => pc'[r] = "write"
        /\ Op(r) # "create_project" => pc'[r] = "project"
    BY <1>2, <2>1, <2>2, Continued, Advanced
  <2>4. \A y \in Rows : lock'[y] # r
    BY <1>2, <2>1 DEF Request, Holds, At
  <2>5. Request(r)'
    BY <1>2, <2>1, <2>2, <2>3, <2>4 DEF Request, At, InOrder, OwnerHeld, KeyHeld, UseHeld,
       ProjectHeld, NothingLoaded, OrgHeld
  <2>6. /\ loaded' \in [Requests -> KeyRow \cup ProjectRow \cup {NoRow}] /\ LocksFor(r)
        /\ lock' \in [Rows -> Requests \cup {NoReq}]
    BY <1>2, <2>1 DEF Typed, LocksFor
  <2> QED BY <1>2, <2>5, <2>6, ContinueStep
<1> QED BY <1>1, <1>2 DEF CheckMember, SelectProject

LEMMA LockProjectStep ==
  ASSUME ResourceInv, NEW r \in Requests, LockProject(r)
  PROVE  ResourceInv'
<1> DEFINE x == arg[r].project
<1>1. CASE Rollback(r)
  BY <1>1, RollbackStep
<1>2. CASE /\ ProjectFound(r) /\ Locks(r, x) /\ Continue(r)
           /\ loaded' = [loaded EXCEPT ![r] = SeenProject(r)]
  <2>1. Typed /\ Request(r) /\ pc[r] = "project"
    BY DEF ResourceInv, LockProject
  <2>2. Op(r) \in {"update_project", "delete_project"} /\ x \in Rows /\ x \in ProjectIds
    BY <2>1, Asked DEF InOrder, At
  <2>3. /\ UNCHANGED <<alive, role, key, project, arg>> /\ Op(r)' = Op(r) /\ pc'[r] = "write"
    BY <1>2, <2>1, <2>2, Continued, Advanced
  <2>4. RowExists(project[x]) /\ project[x].org = arg[r].org
    BY <1>2 DEF ProjectFound
  <2>5. SeenProject(r) = project[x]
    BY <2>1 DEF Request, NothingLoaded, At, SeenProject
  <2>6. /\ loaded'[r] = project[x] /\ \A q \in Requests : q # r => loaded'[q] = loaded[q]
        /\ loaded' \in [Requests -> KeyRow \cup ProjectRow \cup {NoRow}]
    BY <1>2, <2>1, <2>2, <2>4, <2>5 DEF Typed, RowExists
  <2> HIDE DEF x
  <2>7. /\ lock' \in [Rows -> Requests \cup {NoReq}] /\ lock'[x] = r /\ LocksFor(r)
        /\ \A y \in Rows : y # x => lock'[y] = lock[y]
    BY <1>2, <2>1, <2>2, Locked
  <2>8. \A y \in Rows : y # x => lock'[y] # r
    BY <2>1, <2>7 DEF Request, Holds, At
  <2>9. Request(r)'
    BY <2>1, <2>2, <2>3, <2>4, <2>6, <2>7, <2>8 DEF Request, At, InOrder, OwnerHeld, KeyHeld,
       UseHeld, ProjectHeld, NothingLoaded, OrgHeld, Holds, x
  <2> QED BY <1>2, <2>1, <2>6, <2>7, <2>9, ContinueStep
<1> QED BY <1>1, <1>2 DEF LockProject

LEMMA LockOrgStep ==
  ASSUME ResourceInv, NEW r \in Requests, LockOrg(r)
  PROVE  ResourceInv'
<1> DEFINE x == arg[r].org
<1>1. CASE Rollback(r)
  BY <1>1, RollbackStep
<1>2. CASE Locks(r, x) /\ Continue(r) /\ UNCHANGED loaded
  <2>1. Typed /\ Request(r) /\ pc[r] = "org"
    BY DEF ResourceInv, LockOrg
  <2>2. Op(r) = "delete_org" /\ x \in Rows
    BY <2>1, Asked DEF InOrder, At
  <2>3. /\ UNCHANGED <<alive, role, key, project, arg>> /\ Op(r)' = Op(r) /\ pc'[r] = "cascade"
    BY <1>2, <2>1, <2>2, Continued, Advanced
  <2> HIDE DEF x
  <2>4. lock' \in [Rows -> Requests \cup {NoReq}] /\ lock'[x] = r /\ LocksFor(r)
    BY <1>2, <2>1, <2>2, Locked
  <2>5. Request(r)'
    BY <1>2, <2>1, <2>2, <2>3, <2>4 DEF Request, At, InOrder, OwnerHeld, KeyHeld, UseHeld,
       ProjectHeld, NothingLoaded, OrgHeld, Holds, x
  <2>6. loaded' \in [Requests -> KeyRow \cup ProjectRow \cup {NoRow}]
    BY <1>2, <2>1 DEF Typed
  <2> QED BY <1>2, <2>1, <2>4, <2>5, <2>6, ContinueStep
<1> QED BY <1>1, <1>2 DEF LockOrg

\* The rows that a deletion cascades to.
LEMMA RowsOfType ==
  ASSUME Typed, NEW o \in Orgs
  PROVE  RowsOf(o) \subseteq Rows
BY DEF RowsOf, KeysOf, ProjectsOf, Rows

LEMMA CascadeStep ==
  ASSUME ResourceInv, NEW r \in Requests, Cascade(r)
  PROVE  ResourceInv'
<1>1. Typed /\ Request(r) /\ pc[r] = "cascade" /\ Reads /\ UNCHANGED <<pc, arg, loaded>>
  BY DEF ResourceInv, Cascade
<1>2. PICK x \in Uncascaded(r) : Locks(r, x)
  BY DEF Cascade
<1>3. Op(r) = "delete_org" /\ arg[r].org \in Rows /\ arg[r].org \in Orgs
  BY <1>1, Asked DEF InOrder, At
<1>4. x \in Rows
  BY <1>1, <1>2, <1>3, RowsOfType DEF Uncascaded
<1>5. /\ lock' \in [Rows -> Requests \cup {NoReq}] /\ lock'[x] = r /\ LocksFor(r)
      /\ \A y \in Rows : y # x => lock'[y] = lock[y]
  BY <1>1, <1>2, <1>4, Locked
<1>6. lock'[arg[r].org] = r
  BY <1>1, <1>3, <1>5 DEF Request, OrgHeld, At
<1>7. Request(r)'
  BY <1>1, <1>3, <1>5, <1>6 DEF Request, At, InOrder, OwnerHeld, KeyHeld, UseHeld, ProjectHeld,
     NothingLoaded, OrgHeld, Holds, Op
<1>8. Others(r)
  BY <1>1 DEF Others
<1> QED BY <1>1, <1>5, <1>7, <1>8, ReadStep DEF Typed

-----------------------------------------------------------------------------
(* Statements that write.  Each keeps the invariant and does what the action *)
(* properties say.                                                           *)

\* AuditExact, TenantIsolation, OwnersManageKeys and RevocationWaits, of one step.
Audits ==
  /\ \A r \in Requests :
       Ends(r) /\ arg[r].op # "delete_org" /\ <<key, project>>' # <<key, project>> =>
         audited' # {}
  /\ \A e \in audited' : e.action = "api_key.revoked" => key[e.row].live
  /\ \A r \in Requests :
       Ends(r) /\ arg[r].op = "update_project" /\ audited' # {} =>
         project'[arg[r].project].name = arg[r].name

Isolates ==
  /\ \A e \in usage' : key[e.key].org = e.org
  /\ \A r \in Requests : Ends(r) =>
       /\ \A e \in usage' : e.org = arg[r].org
       /\ \A k \in KeyIds : key'[k] # key[k] /\ RowExists(key[k]) => key[k].org = arg[r].org
       /\ \A p \in ProjectIds :
            project'[p] # project[p] /\ RowExists(project[p]) => project[p].org = arg[r].org

ByOwners ==
  \A r \in Requests :
    Ends(r) /\ arg[r].op \in {"create_key", "revoke_key"} /\ key' # key =>
      role[arg[r].org][arg[r].user] = "OWNER"

Waits == \A k \in KeyIds, r \in Requests : key'[k] # key[k] => ~Touched(r, k)

Promised == Audits /\ Isolates /\ ByOwners /\ Waits

\* A step that writes nothing breaks no promise.
LEMMA QuietStep ==
  ASSUME UNCHANGED <<key, project>>, usage' = {}, audited' = {}
  PROVE  Promised
BY DEF Promised, Audits, Isolates, ByOwners, Waits

\* A commit under the locks of its request keeps what was promised, if it writes
\* rows of its organization and says so in the audit log.
LEMMA CommitPromised ==
  ASSUME ResourceInv, NEW r \in Requests, Others(r), Respects(r), usage' = {},
         pc[r] \in {"write", "cascade"}, Op(r) # "use_key",
         \A k \in KeyIds : key'[k] # key[k] /\ RowExists(key[k]) => key[k].org = arg[r].org,
         \A p \in ProjectIds :
           project'[p] # project[p] /\ RowExists(project[p]) => project[p].org = arg[r].org,
         audited' # {} \/ UNCHANGED <<key, project>> \/ Op(r) = "delete_org",
         \A e \in audited' : e.action = "api_key.revoked" => key[e.row].live,
         Op(r) = "update_project" => project'[arg[r].project].name = arg[r].name
  PROVE  Promised
<1>1. Typed /\ Request(r) /\ \A q \in Requests : Request(q)
  BY DEF ResourceInv
<1>2. \A q \in Requests : Ends(q) => q = r
  BY <1>1 DEF Others, Ends
<1>3. Audits
  BY <1>2 DEF Audits, Op
<1>4. Isolates
  BY <1>2 DEF Isolates
<1>5. ByOwners
  <2>1. Op(r) \in {"create_key", "revoke_key"} => role[arg[r].org][arg[r].user] = "OWNER"
    BY <1>1 DEF Request, OwnerHeld, InOrder, At
  <2> QED BY <1>2, <2>1 DEF ByOwners, Op
<1>6. Waits
  <2> SUFFICES ASSUME NEW k \in KeyIds, NEW q \in Requests, key'[k] # key[k], Touched(q, k)
               PROVE  FALSE
    BY DEF Waits
  <2>1. q # r
    BY DEF Touched, Op
  <2>2. lock[k] = q /\ key[k] # Free
    BY <1>1 DEF Touched, Request, UseHeld, At, Op
  <2> QED BY <2>1, <2>2 DEF Respects
<1> QED BY <1>3, <1>4, <1>5, <1>6 DEF Promised

LEMMA WriteKeyStep ==
  ASSUME ResourceInv, NEW r \in Requests, WriteKey(r)
  PROVE  ResourceInv' /\ Promised
<1>0. Typed /\ pc[r] = "write" /\ Op(r) = "create_key" /\ arg[r].org \in Orgs
  BY Asked DEF ResourceInv, WriteKey, Op
<1>1. CASE Rollback(r)
  BY <1>1, RollbackStep, QuietStep DEF Rollback, End, tables
<1>2. CASE arg[r].org \in alive /\
           \E k \in FreeIds(key) :
             /\ key' = [key EXCEPT ![k] = [org |-> arg[r].org, live |-> TRUE]]
             /\ End(r, {Entry("api_key.created", k)})
             /\ usage' = {} /\ UNCHANGED <<alive, role, project>>
  <2>1. PICK k \in FreeIds(key) :
             /\ key' = [key EXCEPT ![k] = [org |-> arg[r].org, live |-> TRUE]]
             /\ End(r, {Entry("api_key.created", k)})
             /\ usage' = {} /\ UNCHANGED <<alive, role, project>>
    BY <1>2
  <2>2. k \in KeyIds /\ key[k] = Free
    BY <1>0 DEF FreeIds, Typed
  <2>3. [org |-> arg[r].org, live |-> TRUE] \in KeyRow
    BY <1>0 DEF KeyRow
  <2>4. /\ key' \in [KeyIds -> KeyRow \cup {Free, Gone}] /\ key'[k].org = arg[r].org
        /\ \A j \in KeyIds : j # k => key'[j] = key[j]
    BY <1>0, <2>1, <2>2, <2>3 DEF Typed
  <2>5. Entry("api_key.created", k) \in AuditRow /\ Entry("api_key.created", k).action = "api_key.created"
    BY <2>2 DEF Entry, AuditRow
  <2>6. Respects(r)
    BY <2>1, <2>2, <2>4 DEF Respects
  <2>7. TypedTables'
    BY <1>0, <2>1, <2>4 DEF Typed, TypedTables
  <2>8. NoOrphans'
    BY <1>2, <2>1, <2>4 DEF ResourceInv, NoOrphans
  <2>9. ResourceInv'
    BY <2>1, <2>5, <2>6, <2>7, <2>8, EndStep
  <2>10. Promised
    <3>1. \A j \in KeyIds : key'[j] # key[j] /\ RowExists(key[j]) => key[j].org = arg[r].org
      BY <2>2, <2>4 DEF RowExists
    <3>2. /\ audited' # {} /\ Others(r)
          /\ \A e \in audited' : e.action = "api_key.revoked" => key[e.row].live
      BY <1>0, <2>1, <2>5, Ended DEF End
    <3> QED BY <1>0, <2>1, <2>6, <3>1, <3>2, CommitPromised
  <2> QED BY <2>9, <2>10
<1> QED BY <1>1, <1>2 DEF WriteKey, ReferenceHolds

LEMMA WriteRevocationStep ==
  ASSUME ResourceInv, NEW r \in Requests, WriteRevocation(r)
  PROVE  ResourceInv' /\ Promised
<1> DEFINE k == arg[r].key
<1>0. /\ Typed /\ pc[r] = "write" /\ Op(r) = "revoke_key" /\ k \in KeyIds
      /\ usage' = {} /\ UNCHANGED <<alive, role, project>>
  BY Asked DEF ResourceInv, WriteRevocation, Op
<1>1. /\ lock[k] = r /\ loaded[r] = key[k] /\ RowExists(key[k]) /\ key[k].org = arg[r].org
      /\ key[k] \in KeyRow
  BY <1>0 DEF ResourceInv, Request, KeyHeld, At, RowExists, Typed
<1>2. CASE ~NotYetRevoked(r)
  <2>1. End(r, {}) /\ UNCHANGED key
    BY <1>2 DEF WriteRevocation
  <2>2. Respects(r)
    BY <1>0, <2>1 DEF Respects
  <2>3. TypedTables' /\ NoOrphans'
    BY <1>0, <2>1 DEF ResourceInv, Typed, TypedTables, NoOrphans
  <2>4. ResourceInv'
    BY <2>1, <2>2, <2>3, EndStep
  <2>5. Promised
    BY <1>0, <2>1, QuietStep DEF End
  <2> QED BY <2>4, <2>5
<1>3. CASE NotYetRevoked(r)
  <2>1. /\ key' = [key EXCEPT ![k].live = FALSE]
        /\ End(r, {Entry("api_key.revoked", k)})
    BY <1>3 DEF WriteRevocation
  <2>2. key[k].live
    BY <1>1, <1>3 DEF NotYetRevoked
  <2> HIDE DEF k
  <2>3. /\ key' \in [KeyIds -> KeyRow \cup {Free, Gone}]
        /\ key'[k] \in KeyRow /\ key'[k].org = key[k].org
        /\ \A j \in KeyIds : j # k => key'[j] = key[j]
    <3>1. [key[k] EXCEPT !.live = FALSE] \in KeyRow /\ [key[k] EXCEPT !.live = FALSE].org = key[k].org
      BY <1>1 DEF KeyRow
    <3> QED BY <1>0, <2>1, <3>1 DEF Typed
  <2>4. Entry("api_key.revoked", k) \in AuditRow /\ Entry("api_key.revoked", k).row = k
    BY <1>0 DEF Entry, AuditRow
  <2>5. Respects(r)
    BY <1>0, <1>1, <2>3 DEF Respects, RowExists
  <2>6. TypedTables'
    BY <1>0, <2>3 DEF Typed, TypedTables
  <2>7. NoOrphans'
    <3>1. key[k].org \in alive
      BY <1>0, <1>1 DEF ResourceInv, NoOrphans
    <3> QED BY <1>0, <2>3, <3>1 DEF ResourceInv, NoOrphans
  <2>8. ResourceInv'
    BY <2>1, <2>4, <2>5, <2>6, <2>7, EndStep
  <2>9. Promised
    <3>1. \A j \in KeyIds : key'[j] # key[j] /\ RowExists(key[j]) => key[j].org = arg[r].org
      BY <1>1, <2>3
    <3>2. /\ audited' # {} /\ Others(r)
          /\ \A e \in audited' : e.action = "api_key.revoked" => key[e.row].live
      BY <1>0, <2>1, <2>2, <2>4, Ended DEF End
    <3> QED BY <1>0, <2>1, <2>5, <3>1, <3>2, CommitPromised
  <2> QED BY <2>8, <2>9
<1> QED BY <1>2, <1>3

\* Usage is written for the organization that is locked, which is the key's.
LEMMA WriteUsageStep ==
  ASSUME ResourceInv, NEW r \in Requests, WriteUsage(r)
  PROVE  ResourceInv' /\ Promised
<1>1. CASE Rollback(r)
  BY <1>1, RollbackStep, QuietStep DEF Rollback, End, tables
<1>2. CASE /\ usage' = {[org |-> loaded[r].org, key |-> arg[r].key]} /\ End(r, {})
           /\ UNCHANGED <<alive, role, key, project>>
  <2> DEFINE k == arg[r].key
             o == loaded[r].org
  <2>1. Typed /\ pc[r] = "write" /\ Op(r) = "use_key" /\ k \in KeyIds
    BY Asked DEF ResourceInv, WriteUsage, Op
  <2>2. o = arg[r].org /\ o \in alive /\ RowExists(key[k]) /\ key[k].org = o
    BY <2>1 DEF ResourceInv, Request, UseHeld, At
  <2> HIDE DEF k, o
  <2>3. [org |-> o, key |-> k].org = o /\ [org |-> o, key |-> k].key = k /\ o \in Orgs
    BY <2>1, <2>2 DEF Typed
  <2>4. usage' = {[org |-> o, key |-> k]}
    BY <1>2 DEF o, k
  <2>5. Respects(r)
    BY <1>2 DEF Respects
  <2>6. TypedTables' /\ NoOrphans'
    <3>1. usage' \subseteq [org: Orgs, key: KeyIds] /\ \A e \in usage' : e.org \in alive
      BY <2>1, <2>2, <2>3, <2>4
    <3>2. TypedTables'
      BY <1>2, <2>1, <3>1 DEF Typed, TypedTables
    <3>3. NoOrphans'
      BY <1>2, <3>1 DEF ResourceInv, NoOrphans
    <3> QED BY <3>2, <3>3
  <2>7. ResourceInv'
    BY <1>2, <2>5, <2>6, EndStep
  <2>8. \A q \in Requests : Ends(q) => q = r
    BY <1>2, <2>1 DEF Ends, End, Typed
  <2>9. Promised
    BY <1>2, <2>2, <2>3, <2>4, <2>8 DEF Promised, Audits, Isolates, ByOwners, Waits, End
  <2> QED BY <2>7, <2>9
<1> QED BY <1>1, <1>2 DEF WriteUsage, tables

LEMMA InsertProjectStep ==
  ASSUME ResourceInv, NEW r \in Requests, InsertProject(r)
  PROVE  ResourceInv' /\ Promised
<1>0. /\ Typed /\ pc[r] = "write" /\ Op(r) = "create_project"
      /\ arg[r].org \in Orgs /\ arg[r].name \in Names
  BY Asked DEF ResourceInv, InsertProject, Op
<1>1. CASE Rollback(r)
  BY <1>1, RollbackStep, QuietStep DEF Rollback, End, tables
<1>2. CASE arg[r].org \in alive /\
           \E p \in FreeIds(project) :
             /\ project' = [project EXCEPT ![p] = [org |-> arg[r].org, name |-> arg[r].name]]
             /\ End(r, {Entry("project.created", p)})
             /\ usage' = {} /\ UNCHANGED <<alive, role, key>>
  <2>1. PICK p \in FreeIds(project) :
             /\ project' = [project EXCEPT ![p] = [org |-> arg[r].org, name |-> arg[r].name]]
             /\ End(r, {Entry("project.created", p)})
             /\ usage' = {} /\ UNCHANGED <<alive, role, key>>
    BY <1>2
  <2>2. p \in ProjectIds /\ project[p] = Free
    BY <1>0 DEF FreeIds, Typed
  <2>3. [org |-> arg[r].org, name |-> arg[r].name] \in ProjectRow
    BY <1>0 DEF ProjectRow
  <2>4. /\ project' \in [ProjectIds -> ProjectRow \cup {Free, Gone}]
        /\ project'[p].org = arg[r].org
        /\ \A j \in ProjectIds : j # p => project'[j] = project[j]
    BY <1>0, <2>1, <2>2, <2>3 DEF Typed
  <2>5. Entry("project.created", p) \in AuditRow /\ Entry("project.created", p).action = "project.created"
    BY <2>2 DEF Entry, AuditRow
  <2>6. Respects(r)
    BY <2>1, <2>2, <2>4 DEF Respects
  <2>7. TypedTables'
    BY <1>0, <2>1, <2>4 DEF Typed, TypedTables
  <2>8. NoOrphans'
    BY <1>2, <2>1, <2>4 DEF ResourceInv, NoOrphans
  <2>9. ResourceInv'
    BY <2>1, <2>5, <2>6, <2>7, <2>8, EndStep
  <2>10. Promised
    <3>1. \A j \in ProjectIds : project'[j] # project[j] /\ RowExists(project[j]) => project[j].org = arg[r].org
      BY <2>2, <2>4 DEF RowExists
    <3>2. /\ audited' # {} /\ Others(r)
          /\ \A e \in audited' : e.action = "api_key.revoked" => key[e.row].live
      BY <1>0, <2>1, <2>5, Ended DEF End
    <3> QED BY <1>0, <2>1, <2>6, <3>1, <3>2, CommitPromised
  <2> QED BY <2>9, <2>10
<1> QED BY <1>1, <1>2 DEF InsertProject, ReferenceHolds

\* The project that is locked is the one that was loaded, so that the name the
\* ORM leaves out is the one the row has.
LEMMA WriteProjectStep ==
  ASSUME ResourceInv, NEW r \in Requests, WriteProject(r)
  PROVE  ResourceInv' /\ Promised
<1> DEFINE p == arg[r].project
<1>0. /\ Typed /\ pc[r] = "write" /\ Op(r) = "update_project" /\ p \in ProjectIds
      /\ arg[r].name \in Names
      /\ usage' = {} /\ UNCHANGED <<alive, role, key>>
      /\ project' = IF arg[r].name # loaded[r].name
                    THEN [project EXCEPT ![p].name = arg[r].name] ELSE project
      /\ End(r, {Entry("project.updated", p)})
  BY Asked DEF ResourceInv, WriteProject, Op
<1>1. /\ lock[p] = r /\ loaded[r] = project[p] /\ RowExists(project[p])
      /\ project[p].org = arg[r].org /\ project[p] \in ProjectRow
  BY <1>0 DEF ResourceInv, Request, ProjectHeld, At, RowExists, Typed
<1> HIDE DEF p
<1>2. /\ project' \in [ProjectIds -> ProjectRow \cup {Free, Gone}]
      /\ project'[p] \in ProjectRow /\ project'[p].org = project[p].org
      /\ project'[p].name = arg[r].name
      /\ \A j \in ProjectIds : j # p => project'[j] = project[j]
  <2>1. /\ [project[p] EXCEPT !.name = arg[r].name] \in ProjectRow
        /\ [project[p] EXCEPT !.name = arg[r].name].org = project[p].org
        /\ [project[p] EXCEPT !.name = arg[r].name].name = arg[r].name
    BY <1>0, <1>1 DEF ProjectRow
  <2> QED BY <1>0, <1>1, <2>1 DEF Typed
<1>3. Entry("project.updated", p) \in AuditRow /\ Entry("project.updated", p).action = "project.updated"
  BY <1>0 DEF Entry, AuditRow
<1>4. Respects(r)
  BY <1>0, <1>1, <1>2 DEF Respects
<1>5. TypedTables'
  BY <1>0, <1>2 DEF Typed, TypedTables
<1>6. NoOrphans'
  <2>1. project[p].org \in alive
    BY <1>0, <1>1 DEF ResourceInv, NoOrphans
  <2> QED BY <1>0, <1>2, <2>1 DEF ResourceInv, NoOrphans
<1>7. ResourceInv'
  BY <1>0, <1>3, <1>4, <1>5, <1>6, EndStep
<1>8. Promised
  <2>1. /\ \A j \in ProjectIds :
             project'[j] # project[j] /\ RowExists(project[j]) => project[j].org = arg[r].org
        /\ project'[arg[r].project].name = arg[r].name
    BY <1>1, <1>2 DEF p
  <2>2. /\ audited' # {} /\ Others(r)
        /\ \A e \in audited' : e.action = "api_key.revoked" => key[e.row].live
    BY <1>0, <1>3, Ended DEF End
  <2> QED BY <1>0, <1>4, <2>1, <2>2, CommitPromised
<1> QED BY <1>7, <1>8

LEMMA DeleteProjectStep ==
  ASSUME ResourceInv, NEW r \in Requests, DeleteProject(r)
  PROVE  ResourceInv' /\ Promised
<1> DEFINE p == arg[r].project
<1>0. /\ Typed /\ pc[r] = "write" /\ Op(r) = "delete_project" /\ p \in ProjectIds
      /\ usage' = {} /\ UNCHANGED <<alive, role, key>>
      /\ project' = [project EXCEPT ![p] = Gone]
      /\ End(r, {Entry("project.deleted", p)})
  BY Asked DEF ResourceInv, DeleteProject, Op
<1>1. lock[p] = r /\ project[p].org = arg[r].org
  BY <1>0 DEF ResourceInv, Request, ProjectHeld, At
<1> HIDE DEF p
<1>2. /\ project' \in [ProjectIds -> ProjectRow \cup {Free, Gone}] /\ project'[p] = Gone
      /\ \A j \in ProjectIds : j # p => project'[j] = project[j]
  BY <1>0 DEF Typed
<1>3. Entry("project.deleted", p) \in AuditRow /\ Entry("project.deleted", p).action = "project.deleted"
  BY <1>0 DEF Entry, AuditRow
<1>4. Respects(r)
  BY <1>0, <1>1, <1>2 DEF Respects
<1>5. TypedTables'
  BY <1>0, <1>2 DEF Typed, TypedTables
<1>6. NoOrphans'
  BY <1>0, <1>2 DEF ResourceInv, NoOrphans, RowExists
<1>7. ResourceInv'
  BY <1>0, <1>3, <1>4, <1>5, <1>6, EndStep
<1>8. Promised
  <2>1. \A j \in ProjectIds :
          project'[j] # project[j] /\ RowExists(project[j]) => project[j].org = arg[r].org
    BY <1>1, <1>2
  <2>2. /\ audited' # {} /\ Others(r)
        /\ \A e \in audited' : e.action = "api_key.revoked" => key[e.row].live
    BY <1>0, <1>3, Ended DEF End
  <2> QED BY <1>0, <1>4, <2>1, <2>2, CommitPromised
<1> QED BY <1>7, <1>8

\* A deletion holds the rows of the organization before it is committed.
LEMMA DeleteOrgStep ==
  ASSUME ResourceInv, NEW r \in Requests, DeleteOrg(r)
  PROVE  ResourceInv' /\ Promised
<1> DEFINE o == arg[r].org
<1>0. /\ Typed /\ pc[r] = "cascade" /\ Op(r) = "delete_org" /\ o \in Orgs /\ lock[o] = r
  BY Asked DEF ResourceInv, DeleteOrg, Request, OrgHeld, InOrder, At
<1>1. /\ alive' = alive \ {o} /\ End(r, {}) /\ usage' = {}
      /\ role' = [role EXCEPT ![o] = [u \in Users |-> NoRole]]
      /\ key' = [k \in KeyIds |-> IF k \in KeysOf(o) THEN Gone ELSE key[k]]
      /\ project' = [p \in ProjectIds |-> IF p \in ProjectsOf(o) THEN Gone ELSE project[p]]
  BY DEF DeleteOrg
<1>2. \A x \in RowsOf(o) : lock[x] = r
  BY DEF DeleteOrg, Uncascaded
<1> HIDE DEF o
<1>3. /\ role' \in [Orgs -> [Users -> Roles \cup {NoRole}]]
      /\ \A w \in Orgs, u \in Users : role'[w][u] # role[w][u] => lock[<<w, u>>] = r
  <2>1. \A u \in Users : role[o][u] # NoRole => lock[<<o, u>>] = r
    BY <1>2 DEF RowsOf
  <2>2. role \in [Orgs -> [Users -> Roles \cup {NoRole}]]
    BY <1>0 DEF Typed
  <2> QED BY <1>0, <1>1, <2>1, <2>2
<1>4. /\ key' \in [KeyIds -> KeyRow \cup {Free, Gone}]
      /\ \A k \in KeyIds : IF RowExists(key[k]) /\ key[k].org = o
                           THEN key'[k] = Gone /\ lock[k] = r ELSE key'[k] = key[k]
  BY <1>0, <1>1, <1>2 DEF Typed, KeysOf, RowsOf
<1>5. /\ project' \in [ProjectIds -> ProjectRow \cup {Free, Gone}]
      /\ \A p \in ProjectIds : IF RowExists(project[p]) /\ project[p].org = o
                               THEN project'[p] = Gone /\ lock[p] = r ELSE project'[p] = project[p]
  BY <1>0, <1>1, <1>2 DEF Typed, ProjectsOf, RowsOf
<1>6. Respects(r)
  BY <1>0, <1>1, <1>3, <1>4, <1>5 DEF Respects, RowExists
<1>7. TypedTables'
  BY <1>0, <1>1, <1>3, <1>4, <1>5 DEF Typed, TypedTables
<1>8. NoOrphans'
  BY <1>1, <1>4, <1>5 DEF ResourceInv, NoOrphans, RowExists
<1>9. ResourceInv'
  BY <1>1, <1>6, <1>7, <1>8, EndStep
<1>10. Promised
  <2>1. /\ \A k \in KeyIds : key'[k] # key[k] /\ RowExists(key[k]) => key[k].org = arg[r].org
        /\ \A p \in ProjectIds :
             project'[p] # project[p] /\ RowExists(project[p]) => project[p].org = arg[r].org
    BY <1>4, <1>5 DEF o
  <2>2. audited' = {} /\ Others(r)
    BY <1>0, <1>1, Ended
  <2> QED BY <1>0, <1>1, <1>6, <2>1, <2>2, CommitPromised
<1> QED BY <1>9, <1>10

\* Membership changes take the locks of organization and membership, so no
\* request that has locked its caller's membership is disturbed.
LEMMA ChangeMemberStep ==
  ASSUME ResourceInv, ChangeMember
  PROVE  ResourceInv' /\ Promised
<1>1. PICK o \in alive, u \in Users, new \in Roles \cup {NoRole} :
           /\ lock[<<o, u>>] = NoReq /\ role' = [role EXCEPT ![o][u] = new]
           /\ usage' = {} /\ audited' = {}
           /\ UNCHANGED <<alive, key, project, lock, pc, arg, loaded>>
  BY DEF ChangeMember
<1>2. Typed /\ o \in Orgs
  BY DEF ResourceInv, Typed
<1>3. /\ role' \in [Orgs -> [Users -> Roles \cup {NoRole}]]
      /\ \A w \in Orgs, v \in Users : role'[w][v] # role[w][v] => w = o /\ v = u
  BY <1>1, <1>2 DEF Typed
<1>4. Respects(NoReq)
  BY <1>1, <1>3 DEF Respects
<1>5. LocksFor(NoReq) /\ Others(NoReq)
  BY <1>1 DEF LocksFor, Others
<1>6. \A q \in Requests : Request(q)'
  BY <1>4, <1>5, OthersKept
<1>7. Typed' /\ NoOrphans'
  BY <1>1, <1>2, <1>3 DEF ResourceInv, Typed, NoOrphans
<1>8. Promised
  BY <1>1, QuietStep
<1> QED BY <1>6, <1>7, <1>8 DEF ResourceInv

-----------------------------------------------------------------------------
(* The theorems. *)

LEMMA ResourceInit == Init => ResourceInv
<1> SUFFICES ASSUME Init PROVE ResourceInv
  OBVIOUS
<1>1. Typed
  BY DEF Init, Typed
<1>2. NoOrphans
  <2>1. ASSUME NEW k \in KeyIds, RowExists(InitKey[k])
        PROVE  InitKey[k].org \in Orgs /\ \E u \in Users : InitRole[InitKey[k].org][u] = "OWNER"
    BY <2>1 DEF RowExists, KeyRow
  <2>2. ASSUME NEW p \in ProjectIds, RowExists(InitProject[p])
        PROVE  /\ InitProject[p].org \in Orgs
               /\ \E u \in Users : InitRole[InitProject[p].org][u] = "OWNER"
    BY <2>2 DEF RowExists, ProjectRow
  <2> QED BY <2>1, <2>2 DEF Init, NoOrphans
<1>3. \A r \in Requests : Request(r)
  BY DEF Init, Request, At, InOrder, OwnerHeld, KeyHeld, UseHeld, ProjectHeld, NothingLoaded, OrgHeld
<1> QED BY <1>1, <1>2, <1>3 DEF ResourceInv

\* Whoever begins, reads, locks or rolls back writes nothing.
LEMMA NothingWritten ==
  ASSUME NEW r \in Requests,
         Begin(r) \/ Acquire(r) \/ Decide(r) \/ DeadlockAbort(r) \/ Abort(r)
  PROVE  UNCHANGED <<key, project>> /\ usage' = {} /\ audited' = {}
<1>1. Reads \/ Rollback(r)
  BY DEF Begin, BeginRoute, BeginUse, Start, Acquire, LockOwner, LockKey, Touch, LockUsage,
         LockProject, LockOrg, Cascade, Decide, PassLimit, CheckMember, SelectProject, Continue,
         DeadlockAbort, Abort
<1> QED BY <1>1 DEF Reads, Rollback, End, tables

LEMMA ResourceStep == ResourceInv /\ [Next]_vars => ResourceInv' /\ [Promised]_vars
<1> SUFFICES ASSUME ResourceInv, [Next]_vars PROVE ResourceInv' /\ [Promised]_vars
  OBVIOUS
<1>1. ASSUME NEW r \in Requests, Begin(r) \/ Acquire(r) \/ Decide(r) \/ DeadlockAbort(r) \/ Abort(r)
      PROVE  ResourceInv' /\ Promised
  <2>1. Promised
    BY <1>1, NothingWritten, QuietStep
  <2>2. CASE Begin(r)
    BY <2>1, <2>2, BeginRouteStep, BeginUseStep DEF Begin
  <2>3. CASE Acquire(r)
    BY <2>1, <2>3, LockOwnerStep, LockKeyStep, TouchStep, LockUsageStep, LockProjectStep, LockOrgStep,
       CascadeStep DEF Acquire
  <2>4. CASE Decide(r)
    BY <2>1, <2>4, PassLimitStep, CheckMemberStep DEF Decide
  <2>5. CASE DeadlockAbort(r) \/ Abort(r)
    BY <2>1, <2>5, RollbackStep DEF DeadlockAbort, Abort
  <2> QED BY <1>1, <2>2, <2>3, <2>4, <2>5
<1>2. ASSUME NEW r \in Requests, Write(r) PROVE ResourceInv' /\ Promised
  BY <1>2, WriteKeyStep, WriteRevocationStep, WriteUsageStep, InsertProjectStep, WriteProjectStep,
     DeleteProjectStep, DeleteOrgStep DEF Write
<1>3. CASE UNCHANGED vars
  BY <1>3 DEF vars, ResourceInv, Typed, NoOrphans, Request, At, Op, InOrder, OwnerHeld, KeyHeld,
     UseHeld, ProjectHeld, NothingLoaded, OrgHeld, Holds
<1> QED BY <1>1, <1>2, <1>3, ChangeMemberStep DEF Next

\* Whatever interleaves, a request holds the rows it is about to write and what it
\* has loaded is what they hold.
THEOREM ResourcesCorrect == Spec => []ResourceInv
BY ResourceInit, ResourceStep, PTL DEF Spec

LEMMA StatementOf ==
  ASSUME NEW r \in Requests, InOrder(r), pc[r] # "idle"
  PROVE  \E n \in DOMAIN Statements(arg[r].op) : pc[r] = Statements(arg[r].op)[n]
<1>1. /\ Statements("create_key") = <<"owner", "write">>
      /\ Statements("revoke_key") = <<"owner", "key", "write">>
      /\ Statements("use_key") = <<"touch", "limit", "usage", "write">>
      /\ Statements("create_project") = <<"member", "write">>
      /\ Statements("update_project") = <<"select", "project", "write">>
      /\ Statements("delete_project") = <<"select", "project", "write">>
      /\ Statements("delete_org") = <<"org", "cascade">>
  BY DEF Statements, UseStatements
<1> DEFINE Has(s) == \E n \in DOMAIN s : pc[r] = s[n]
<1>2. At(r, {"owner", "write"}) => Has(<<"owner", "write">>)
  BY DEF At
<1>3. At(r, {"owner", "key", "write"}) => Has(<<"owner", "key", "write">>)
  BY DEF At
<1>4. At(r, {"touch", "limit", "usage", "write"}) => Has(<<"touch", "limit", "usage", "write">>)
  BY DEF At
<1>5. At(r, {"member", "write"}) => Has(<<"member", "write">>)
  BY DEF At
<1>6. At(r, {"select", "project", "write"}) => Has(<<"select", "project", "write">>)
  BY DEF At
<1>7. At(r, {"org", "cascade"}) => Has(<<"org", "cascade">>)
  BY DEF At
<1> HIDE DEF Has
<1>8. Has(Statements(Op(r)))
  <2>1. ~At(r, {"idle"})
    BY DEF At
  <2>2. CASE At(r, {"owner", "write"}) /\ Op(r) = "create_key"
    BY <2>2, <1>1, <1>2
  <2>3. CASE At(r, {"owner", "key", "write"}) /\ Op(r) = "revoke_key"
    BY <2>3, <1>1, <1>3
  <2>4. CASE At(r, {"touch", "limit", "usage", "write"}) /\ Op(r) = "use_key"
    BY <2>4, <1>1, <1>4
  <2>5. CASE At(r, {"member", "write"}) /\ Op(r) = "create_project"
    BY <2>5, <1>1, <1>5
  <2>6. CASE At(r, {"select", "project", "write"}) /\ Op(r) \in {"update_project", "delete_project"}
    BY <2>6, <1>1, <1>6
  <2>7. CASE At(r, {"org", "cascade"}) /\ Op(r) = "delete_org"
    BY <2>7, <1>1, <1>7
  <2> QED BY <2>1, <2>2, <2>3, <2>4, <2>5, <2>6, <2>7 DEF InOrder
<1> QED BY <1>8 DEF Has, Op

\* Every variable stays in its type; an open request is at a statement of its
\* operation, and a closed one holds no lock.
THEOREM ResourceTypes == Spec => []RTypeOK
<1>1. ASSUME ResourceInv PROVE RTypeOK
  <2>1. \A r \in Requests :
          IF pc[r] = "idle"
          THEN arg[r] = NoArg /\ \A x \in Rows : lock[x] # r
          ELSE \E n \in DOMAIN Statements(arg[r].op) : pc[r] = Statements(arg[r].op)[n]
    BY <1>1, StatementOf DEF ResourceInv, Request, At, Holds
  <2> QED BY <1>1, <2>1 DEF ResourceInv, Typed, RTypeOK
<1> QED BY <1>1, ResourcesCorrect, PTL

\* No key, project or usage event outlives its organization.
THEOREM NothingOrphaned == Spec => []NoOrphans
<1>1. ResourceInv => NoOrphans
  BY DEF ResourceInv
<1> QED BY <1>1, ResourcesCorrect, PTL

\* Every change of a key or a project is in the audit log, a revocation once, and
\* an update that is logged has taken effect (write_audit in the services).
THEOREM AuditIsExact == Spec => AuditExact
<1>1. Promised => Audits
  BY DEF Promised
<1> QED BY <1>1, ResourcesCorrect, ResourceStep, PTL DEF Spec, AuditExact, Audits

\* A request records usage for, and changes keys and projects of, the organization
\* on its path only, whatever key or id it brings.
THEOREM TenantsAreIsolated == Spec => TenantIsolation
<1>1. Promised => Isolates
  BY DEF Promised
<1> QED BY <1>1, ResourcesCorrect, ResourceStep, PTL DEF Spec, TenantIsolation, Isolates

\* Whoever creates or revokes a key is an owner when it is committed.
THEOREM KeysByOwners == Spec => OwnersManageKeys
<1>1. Promised => ByOwners
  BY DEF Promised
<1> QED BY <1>1, ResourcesCorrect, ResourceStep, PTL DEF Spec, OwnersManageKeys, ByOwners

\* A key is not revoked, or deleted, between the flush of a request that uses it
\* and the commit of its usage.
THEOREM RevocationWaitsForUse == Spec => RevocationWaits
<1>1. Promised => Waits
  BY DEF Promised
<1> QED BY <1>1, ResourcesCorrect, ResourceStep, PTL DEF Spec, RevocationWaits, Waits

-----------------------------------------------------------------------------
(* The lock order. *)

\* Who holds an organization without deleting it waits for nobody.
LEMMA OrgHolderGoesOn ==
  ASSUME ResourceInv, NEW b \in Requests, NEW o \in Orgs, lock[o] = b, pc[b] # "cascade"
  PROVE  Blockers(b) = {}
<1>1. Request(b) /\ o \in Rows /\ pc[b] # "idle"
  BY DEF ResourceInv, Rows, Request, Holds, At
<1>2. /\ Op(b) # "use_key" => arg[b].user \in Users /\ arg[b].org \in Orgs
      /\ Op(b) \in {"revoke_key", "use_key"} => arg[b].key \in KeyIds
      /\ Op(b) \in {"update_project", "delete_project"} => arg[b].project \in ProjectIds
  BY <1>1, Asked
<1>3. /\ Op(b) # "use_key" => o # <<arg[b].org, arg[b].user>>
      /\ Op(b) \in {"revoke_key", "use_key"} => o # arg[b].key
      /\ Op(b) \in {"update_project", "delete_project"} => o # arg[b].project
  BY <1>2
<1>4. Op(b) = "use_key" /\ pc[b] = "write"
  BY <1>1, <1>3 DEF Request, Holds, At
<1>5. lock[arg[b].org] = b
  BY <1>1, <1>4 DEF Request, UseHeld, At
<1>6. Awaited(b) = {arg[b].org}
  BY <1>4 DEF Awaited, Op
<1> QED BY <1>5, <1>6 DEF Blockers

\* Where the holder of a key, a project or a membership is.
LEMMA HolderOf ==
  ASSUME ResourceInv, NEW b \in Requests, NEW x \in Rows, lock[x] = b, pc[b] # "cascade"
  PROVE  /\ x \in KeyIds \cup ProjectIds => pc[b] \in {"limit", "usage", "write"}
         /\ x \in Orgs \X Users => pc[b] \in {"key", "write"}
<1>1. Request(b) /\ pc[b] # "idle"
  BY DEF ResourceInv, Request, Holds, At
<1>2. /\ arg[b].org \in Orgs
      /\ Op(b) # "use_key" => <<arg[b].org, arg[b].user>> \in Orgs \X Users
      /\ Op(b) \in {"revoke_key", "use_key"} => arg[b].key \in KeyIds
      /\ Op(b) \in {"update_project", "delete_project"} => arg[b].project \in ProjectIds
  BY <1>1, Asked
<1>3. Holds(b, x)
  BY <1>1 DEF Request
<1> HIDE DEF Op
<1>4. CASE x \in KeyIds \cup ProjectIds
  <2>1. x \notin Orgs \X Users
    BY <1>4
  <2> QED BY <1>2, <1>3, <1>4, <2>1 DEF Holds, At
<1>5. CASE x \in Orgs \X Users
  <2>1. x \notin Orgs /\ x \notin KeyIds /\ x \notin ProjectIds
    BY <1>5
  <2> QED BY <1>2, <1>3, <2>1 DEF Holds, At
<1> QED BY <1>4, <1>5

\* What a request waits for at a statement.
LEMMA AwaitedAt ==
  ASSUME ResourceInv, NEW q \in Requests, pc[q] # "cascade"
  PROVE  /\ pc[q] \in {"usage", "org", "write"} => Awaited(q) \subseteq Orgs
         /\ pc[q] \in {"key", "touch"} => Awaited(q) \subseteq KeyIds
         /\ pc[q] = "project" => Awaited(q) \subseteq ProjectIds
         /\ pc[q] = "owner" => Awaited(q) \subseteq Orgs \X Users
         /\ pc[q] \in {"idle", "limit", "member", "select"} => Awaited(q) = {}
<1>1. CASE pc[q] \in {"idle", "limit", "member", "select"}
  BY <1>1 DEF Awaited
<1>2. CASE pc[q] \notin {"idle", "limit", "member", "select"}
  <2>1. /\ arg[q].org \in Orgs
        /\ pc[q] \in {"key", "touch"} => arg[q].key \in KeyIds
        /\ pc[q] = "project" => arg[q].project \in ProjectIds
        /\ pc[q] = "owner" => arg[q].user \in Users
    BY <1>2, Asked DEF InOrder, At
  <2> QED BY <1>2, <2>1 DEF Awaited
<1> QED BY <1>1, <1>2

\* No cycle of requests waits for each other's rows unless one of them deletes an
\* organization: memberships are locked before keys, keys and projects before
\* organizations (_lock_owner, revoke_api_key, record_usage, update_project).
THEOREM DeletionInEveryDeadlock == Spec => []DeadlockNeedsDeletion
<1>1. ASSUME ResourceInv PROVE DeadlockNeedsDeletion
  <2> SUFFICES ASSUME NEW S \in SUBSET Requests, S # {}, \A q \in S : Blockers(q) \cap S # {},
                      \A q \in Requests : pc[q] # "cascade"
               PROVE  FALSE
    BY DEF DeadlockNeedsDeletion, Deadlocked
  <2>1. ASSUME NEW q \in S
        PROVE  \E x \in Awaited(q), b \in S : lock[x] = b
    BY DEF Blockers
  <2>2. ASSUME NEW q \in S PROVE ~(Awaited(q) \subseteq Orgs)
    <3> SUFFICES ASSUME Awaited(q) \subseteq Orgs PROVE FALSE
      OBVIOUS
    <3>1. PICK x \in Awaited(q), b \in S : lock[x] = b
      BY <2>1
    <3>2. Blockers(b) = {}
      BY <1>1, <3>1, OrgHolderGoesOn
    <3> QED BY <3>2
  <2>3. ASSUME NEW q \in S PROVE pc[q] \notin {"usage", "org", "write"}
    BY <1>1, <2>2, AwaitedAt
  <2>4. ASSUME NEW q \in S PROVE Awaited(q) # {}
    BY <2>1
  <2>5. ASSUME NEW q \in S PROVE pc[q] \notin {"idle", "limit", "member", "select"}
    BY <1>1, <2>4, AwaitedAt
  <2>6. ASSUME NEW q \in S PROVE ~(Awaited(q) \subseteq KeyIds) /\ ~(Awaited(q) \subseteq ProjectIds)
    <3> SUFFICES ASSUME Awaited(q) \subseteq KeyIds \cup ProjectIds PROVE FALSE
      OBVIOUS
    <3>1. PICK x \in Awaited(q), b \in S : lock[x] = b
      BY <2>1
    <3>2. pc[b] \in {"limit", "usage", "write"}
      BY <1>1, <3>1, HolderOf DEF Rows
    <3> QED BY <2>3, <2>5, <3>2
  <2>7. ASSUME NEW q \in S PROVE pc[q] \notin {"key", "touch", "project"}
    BY <1>1, <2>6, AwaitedAt
  <2>8. ASSUME NEW q \in S PROVE ~(Awaited(q) \subseteq Orgs \X Users)
    <3> SUFFICES ASSUME Awaited(q) \subseteq Orgs \X Users PROVE FALSE
      OBVIOUS
    <3>1. PICK x \in Awaited(q), b \in S : lock[x] = b
      BY <2>1
    <3>2. pc[b] \in {"key", "write"}
      BY <1>1, <3>1, HolderOf DEF Rows
    <3> QED BY <2>3, <2>7, <3>2
  <2>9. PICK q \in S : TRUE
    OBVIOUS
  <2>10. pc[q] \in {"idle", "owner", "key", "touch", "limit", "usage", "member", "select",
                    "project", "org", "cascade", "write"}
    BY <1>1 DEF ResourceInv, Typed
  <2>11. pc[q] = "owner"
    BY <2>3, <2>5, <2>7, <2>10
  <2> QED BY <1>1, <2>8, <2>11, AwaitedAt
<1> QED BY <1>1, ResourcesCorrect, PTL

=============================================================================
