---------------------------- MODULE SessionsProofs ----------------------------
(***************************************************************************)
(* SessionsInv is inductive, so that whatever the numbers of requests,     *)
(* accounts and tokens, a login never has two live refresh tokens.         *)
(***************************************************************************)
EXTENDS Sessions, TLAPS

\* What makes OneLivePerLogin inductive: a refresh that is about to rotate
\* holds its token's row, so the token is still live; a login has the name of
\* a token that exists; and what a request presents exists.
RotationHeld(r) ==
  pc[r] = "rotate" => /\ arg[r] \in Arg /\ arg[r].op = "refresh"
                      /\ lock[arg[r].token] = r /\ Live(arg[r].token)
Presented(r) ==
  /\ pc[r] = "lock" => arg[r] \in Arg /\ arg[r].op # "register" /\ token[arg[r].token] # Free
  /\ pc[r] = "insert" => arg[r] \in Arg /\ arg[r].op = "register"

SessionsInv ==
  /\ STypeOK /\ UniqueEmails /\ OneLivePerLogin
  /\ \A t \in TokenIds : token[t] # Free => token[token[t].login] # Free
  /\ \A r \in Requests : RotationHeld(r) /\ Presented(r)

USE FreeAssumption, NoReqAssumption, TokenAssumption

\* The initial tables are empty.
LEMMA SessionsInit == Init => SessionsInv
  BY DEF Init, SessionsInv, STypeOK, UniqueEmails, OneLivePerLogin, Live, RotationHeld,
         Presented, NoArg

\* What every step of the proof needs of the requests' arguments: a refresh or
\* a logout names a token, a registration an address.
LEMMA ArgShape ==
  ASSUME NEW a \in Arg
  PROVE  /\ a.op \in {"register", "refresh", "logout"}
         /\ a.op = "register" => a.email \in Emails
         /\ a.op # "register" => a.token \in TokenIds
  BY DEF Arg

\* A request that ends leaves the others what they hold.
LEMMA OthersKeep ==
  ASSUME SessionsInv, NEW r \in Requests, End(r), UNCHANGED token, NEW q \in Requests
  PROVE  RotationHeld(q)' /\ Presented(q)'
<1>1. CASE q = r
  BY <1>1 DEF SessionsInv, STypeOK, End, RotationHeld, Presented
<1>2. CASE q # r
  <2>1. pc'[q] = pc[q] /\ arg'[q] = arg[q]
    BY <1>2 DEF SessionsInv, STypeOK, End
  <2>2. arg[q] \in Arg /\ arg[q].op # "register" => arg[q].token \in TokenIds
    BY ArgShape
  <2>3. \A t \in TokenIds : lock[t] = q => lock'[t] = q
    BY <1>2 DEF SessionsInv, STypeOK, End, Released
  <2>4. RotationHeld(q)'
    BY <2>1, <2>2, <2>3 DEF SessionsInv, RotationHeld, Live
  <2>5. Presented(q)'
    BY <2>1 DEF SessionsInv, Presented
  <2> QED
    BY <2>4, <2>5
<1> QED
  BY <1>1, <1>2

\* A request that ends without writing preserves the invariant.
LEMMA RollbackStep ==
  ASSUME SessionsInv, NEW r \in Requests, Rollback(r)
  PROVE  SessionsInv'
<1>1. STypeOK'
  BY DEF SessionsInv, STypeOK, Rollback, End, Released
<1>2. UniqueEmails' /\ OneLivePerLogin'
  BY DEF SessionsInv, Rollback, UniqueEmails, OneLivePerLogin, Live
<1>3. ASSUME NEW q \in Requests PROVE RotationHeld(q)' /\ Presented(q)'
  BY OthersKeep DEF Rollback
<1> QED
  BY <1>1, <1>2, <1>3 DEF SessionsInv, Rollback

\* Registration touches neither tokens nor locks of others.
LEMMA InsertUserStep ==
  ASSUME SessionsInv, NEW r \in Requests, InsertUser(r)
  PROVE  SessionsInv'
<1>1. CASE EmailTaken(arg[r].email)
  BY <1>1, RollbackStep DEF InsertUser
<1>2. CASE ~EmailTaken(arg[r].email)
  <2>1. PICK u \in UserIds : user[u] = Free /\ user' = [user EXCEPT ![u] = arg[r].email]
    BY <1>2 DEF InsertUser
  <2>2. End(r) /\ UNCHANGED token
    BY <1>2 DEF InsertUser
  <2>3. arg[r] \in Arg /\ arg[r].op = "register" /\ arg[r].email \in Emails
    BY ArgShape DEF SessionsInv, Presented, InsertUser
  <2>4. STypeOK'
    BY <2>1, <2>2, <2>3 DEF SessionsInv, STypeOK, End, Released, InsertUser
  <2>5. UniqueEmails'
    BY <1>2, <2>1, <2>3 DEF SessionsInv, STypeOK, UniqueEmails, EmailTaken
  <2>6. OneLivePerLogin'
    BY <2>2 DEF SessionsInv, OneLivePerLogin, Live
  <2>7. ASSUME NEW q \in Requests PROVE RotationHeld(q)' /\ Presented(q)'
    BY <2>2, OthersKeep
  <2> QED
    BY <2>2, <2>4, <2>5, <2>6, <2>7 DEF SessionsInv
<1> QED
  BY <1>1, <1>2

\* A request that has only been accepted holds nothing.
LEMMA AskStep ==
  ASSUME SessionsInv, NEW r \in Requests, NEW step \in {"insert", "lock"}, NEW a \in Arg,
         Ask(r, step, a), UNCHANGED <<user, token, lock>>,
         step = "lock" => a.op # "register" /\ token[a.token] # Free,
         step = "insert" => a.op = "register"
  PROVE  SessionsInv'
<1>1. STypeOK'
  BY DEF SessionsInv, STypeOK, Ask
<1>2. UniqueEmails' /\ OneLivePerLogin'
  BY DEF SessionsInv, UniqueEmails, OneLivePerLogin, Live
<1>3. ASSUME NEW q \in Requests PROVE RotationHeld(q)' /\ Presented(q)'
  BY DEF SessionsInv, STypeOK, Ask, RotationHeld, Presented, Live
<1> QED
  BY <1>1, <1>2, <1>3 DEF SessionsInv

\* A login starts a chain of its own: no other token has its name.
LEMMA LoginStep ==
  ASSUME SessionsInv, Login
  PROVE  SessionsInv'
<1>1. PICK t \in TokenIds : token[t] = Free /\ token' = [token EXCEPT ![t] = Issued(t)]
  BY DEF Login, FreeTokens
<1>2. UNCHANGED <<user, lock, pc, arg>>
  BY DEF Login
<1>3. Issued(t) \in TokenRow /\ Issued(t).login = t
  BY DEF Issued, TokenRow
<1>4. STypeOK'
  BY <1>1, <1>2, <1>3 DEF SessionsInv, STypeOK
<1>5. \A s \in TokenIds : s # t => token'[s] = token[s]
  BY <1>1 DEF SessionsInv, STypeOK
<1>6. token'[t] = Issued(t)
  BY <1>1 DEF SessionsInv, STypeOK
<1>7. \A s \in TokenIds : s # t /\ token'[s] # Free => token'[s].login # t
  BY <1>1, <1>5 DEF SessionsInv
<1>8. OneLivePerLogin'
  BY <1>3, <1>5, <1>6, <1>7 DEF SessionsInv, OneLivePerLogin, Live
<1>9. \A s \in TokenIds : token'[s] # Free => token'[token'[s].login] # Free
  BY <1>1, <1>3, <1>5, <1>6 DEF SessionsInv, STypeOK, TokenRow
<1>10. ASSUME NEW q \in Requests PROVE RotationHeld(q)' /\ Presented(q)'
  <2>1. arg[q] \in Arg /\ arg[q].op # "register" => arg[q].token \in TokenIds
    BY ArgShape
  <2> QED
    BY <1>1, <1>2, <1>3, <1>5, <1>6, <2>1
    DEF SessionsInv, RotationHeld, Presented, Live
<1> QED
  BY <1>2, <1>4, <1>8, <1>9, <1>10 DEF SessionsInv, UniqueEmails

\* A logout waits for a rotation of the same token, and then revokes.
LEMMA LogoutStep ==
  ASSUME SessionsInv, NEW r \in Requests, Logout(r)
  PROVE  SessionsInv'
<1> DEFINE t == arg[r].token
<1>1. t \in TokenIds /\ token[t] # Free /\ token[t] \in TokenRow
  BY ArgShape DEF SessionsInv, STypeOK, Presented, Logout
<1>2. lock[t] = NoReq
  BY DEF Logout, Available
<1>3. token' = [token EXCEPT ![t].state = "revoked"]
  BY DEF Logout, Revoke
<1>4. \A s \in TokenIds : s # t => token'[s] = token[s]
  BY <1>3 DEF SessionsInv, STypeOK
<1>5. /\ token'[t] \in TokenRow /\ token'[t].login = token[t].login
      /\ token'[t].state = "revoked"
  BY <1>1, <1>3 DEF SessionsInv, STypeOK, TokenRow
<1>6. End(r) /\ UNCHANGED user
  BY DEF Logout
<1>7. token' \in [TokenIds -> TokenRow \cup {Free}]
  BY <1>1, <1>3, <1>5 DEF SessionsInv, STypeOK
<1>8. STypeOK'
  BY <1>6, <1>7 DEF SessionsInv, STypeOK, End, Released
<1>9. OneLivePerLogin'
  BY <1>4, <1>5 DEF SessionsInv, OneLivePerLogin, Live
<1>10. \A s \in TokenIds : token'[s] # Free => token'[token'[s].login] # Free
  BY <1>1, <1>4, <1>5 DEF SessionsInv, STypeOK, TokenRow
<1>11. ASSUME NEW q \in Requests PROVE RotationHeld(q)' /\ Presented(q)'
  <2>1. arg[q] \in Arg /\ arg[q].op # "register" => arg[q].token \in TokenIds
    BY ArgShape
  <2>2. pc[q] = "rotate" => arg[q].token # t
    BY <1>2 DEF SessionsInv, RotationHeld
  <2> QED
    BY <1>1, <1>4, <1>5, <1>6, <2>1, <2>2
    DEF SessionsInv, STypeOK, End, Released, RotationHeld, Presented, Live
<1> QED
  BY <1>6, <1>8, <1>9, <1>10, <1>11 DEF SessionsInv, UniqueEmails

\* The verdict of a refresh is passed on a row it has just locked.
LEMMA LockTokenStep ==
  ASSUME SessionsInv, NEW r \in Requests, LockToken(r)
  PROVE  SessionsInv'
<1>1. CASE ~Rotatable(r)
  BY <1>1, RollbackStep DEF LockToken
<1>2. CASE Rotatable(r)
  <2> DEFINE t == arg[r].token
  <2>1. arg[r] \in Arg /\ t \in TokenIds /\ token[t] # Free
    BY ArgShape DEF SessionsInv, Presented, LockToken
  <2>2. /\ lock[t] = NoReq /\ lock' = [lock EXCEPT ![t] = r]
        /\ pc' = [pc EXCEPT ![r] = "rotate"] /\ UNCHANGED <<user, token, arg>>
    BY <1>2 DEF LockToken, Available
  <2>3. STypeOK'
    BY <2>1, <2>2 DEF SessionsInv, STypeOK
  <2>4. UniqueEmails' /\ OneLivePerLogin'
    BY <2>2 DEF SessionsInv, UniqueEmails, OneLivePerLogin, Live
  <2>5. ASSUME NEW q \in Requests PROVE RotationHeld(q)' /\ Presented(q)'
    <3>1. CASE q = r
      BY <1>2, <2>1, <2>2, <3>1
      DEF SessionsInv, STypeOK, RotationHeld, Presented, Live, Rotatable, LockToken
    <3>2. CASE q # r
      <4>1. pc[q] = "rotate" => arg[q].token # t
        BY <2>2 DEF SessionsInv, RotationHeld
      <4> QED
        BY <2>1, <2>2, <3>2, <4>1 DEF SessionsInv, STypeOK, RotationHeld, Presented, Live
    <3> QED
      BY <3>1, <3>2
  <2> QED
    BY <2>2, <2>3, <2>4, <2>5 DEF SessionsInv
<1> QED
  BY <1>1, <1>2

\* A rotation passes the one live token of its login on to its successor.
LEMMA RotateStep ==
  ASSUME SessionsInv, NEW r \in Requests, Rotate(r)
  PROVE  SessionsInv'
<1>1. PICK s \in TokenIds :
        s = arg[r].token /\ Live(s) /\ lock[s] = r /\ token[s] \in TokenRow
  BY ArgShape DEF SessionsInv, STypeOK, RotationHeld, Live, Rotate
<1>2. PICK t \in TokenIds : token[t] = Free /\ token' = Replaced(s, t)
  BY <1>1 DEF Rotate, FreeTokens
<1>3. s # t
  BY <1>1, <1>2 DEF Live
<1>4. /\ \A x \in TokenIds \ {s, t} : token'[x] = token[x]
      /\ token'[t] = Issued(token[s].login)
      /\ token'[s] = [token[s] EXCEPT !.state = "revoked"]
  BY <1>1, <1>2, <1>3 DEF Replaced, Revoke, SessionsInv, STypeOK
<1>5. /\ token'[t] \in TokenRow /\ token'[t].login = token[s].login
      /\ token'[s] \in TokenRow /\ token'[s].login = token[s].login
      /\ token'[s].state = "revoked"
  BY <1>1, <1>4 DEF Issued, TokenRow
<1>6. End(r) /\ UNCHANGED user
  BY DEF Rotate
<1>7. token' \in [TokenIds -> TokenRow \cup {Free}]
  <2>1. \A x \in TokenIds : token'[x] \in TokenRow \cup {Free}
    BY <1>4, <1>5 DEF SessionsInv, STypeOK
  <2>2. token' = [x \in TokenIds |-> token'[x]]
    BY <1>2 DEF Replaced, Revoke, SessionsInv, STypeOK
  <2> QED
    BY <2>1, <2>2
<1>8. STypeOK'
  BY <1>6, <1>7 DEF SessionsInv, STypeOK, End, Released
<1>9. OneLivePerLogin'
  <2>1. \A x \in TokenIds : Live(x) /\ token[x].login = token[s].login => x = s
    BY <1>1 DEF SessionsInv, OneLivePerLogin
  <2> SUFFICES ASSUME NEW x \in TokenIds, NEW y \in TokenIds, Live(x)', Live(y)',
                      token'[x].login = token'[y].login
               PROVE  x = y
    BY DEF OneLivePerLogin
  <2>2. x # s /\ y # s
    BY <1>5 DEF Live
  <2>3. CASE x = t \/ y = t
    BY <1>4, <1>5, <2>1, <2>2, <2>3 DEF Live
  <2>4. CASE x # t /\ y # t
    BY <1>4, <2>2, <2>4 DEF SessionsInv, OneLivePerLogin, Live
  <2> QED
    BY <2>3, <2>4
<1>10. \A x \in TokenIds : token'[x] # Free => token'[token'[x].login] # Free
  <2>1. \A x \in TokenIds : token[x] # Free => token'[x] # Free
    BY <1>2, <1>4, <1>5
  <2> QED
    BY <1>1, <1>4, <1>5, <2>1 DEF SessionsInv, STypeOK, TokenRow, Live
<1>11. ASSUME NEW q \in Requests PROVE RotationHeld(q)' /\ Presented(q)'
  <2>1. arg[q] \in Arg /\ arg[q].op # "register" => arg[q].token \in TokenIds
    BY ArgShape
  <2>2. CASE q = r
    BY <1>6, <2>2 DEF SessionsInv, STypeOK, End, RotationHeld, Presented
  <2>3. CASE q # r
    <3>1. pc[q] = "rotate" => arg[q].token # s /\ arg[q].token # t
      BY <1>1, <1>2, <2>3 DEF SessionsInv, RotationHeld, Live
    <3>2. pc'[q] = pc[q] /\ arg'[q] = arg[q]
      BY <1>6, <2>3 DEF SessionsInv, STypeOK, End
    <3>3. \A x \in TokenIds : lock[x] = q => lock'[x] = q
      BY <1>6, <2>3 DEF SessionsInv, STypeOK, End, Released
    <3>4. RotationHeld(q)'
      <4>1. pc[q] = "rotate" =>
              arg[q].token \in TokenIds /\ token'[arg[q].token] = token[arg[q].token]
        BY <1>4, <2>1, <3>1 DEF SessionsInv, RotationHeld
      <4>2. pc[q] = "rotate" =>
              /\ arg[q] \in Arg /\ arg[q].op = "refresh" /\ lock[arg[q].token] = q
              /\ token[arg[q].token] # Free /\ token[arg[q].token].state = "live"
        BY DEF SessionsInv, RotationHeld, Live
      <4>3. pc[q] = "rotate" => lock'[arg[q].token] = q
        BY <3>3, <4>1, <4>2
      <4> QED
        BY <3>2, <4>1, <4>2, <4>3 DEF RotationHeld, Live
    <3>5. Presented(q)'
      BY <1>2, <1>4, <1>5, <2>1, <3>2 DEF SessionsInv, Presented
    <3> QED
      BY <3>4, <3>5
  <2> QED
    BY <2>2, <2>3
<1> QED
  BY <1>6, <1>8, <1>9, <1>10, <1>11 DEF SessionsInv, UniqueEmails

\* Time changes no state a token is in.
LEMMA ExpireStep ==
  ASSUME SessionsInv, NEW t \in TokenIds, Expire(t)
  PROVE  SessionsInv'
<1>1. token[t] # Free /\ token[t] \in TokenRow
  BY DEF SessionsInv, STypeOK, Expire
<1>2. /\ token' = [token EXCEPT ![t].expired = TRUE]
      /\ UNCHANGED <<user, lock, pc, arg>>
  BY DEF Expire
<1>3. /\ token'[t] \in TokenRow /\ token'[t].login = token[t].login
      /\ token'[t].state = token[t].state
      /\ \A s \in TokenIds : s # t => token'[s] = token[s]
  BY <1>1, <1>2 DEF SessionsInv, STypeOK, TokenRow
<1>4. STypeOK'
  BY <1>1, <1>2, <1>3 DEF SessionsInv, STypeOK
<1>5. \A s \in TokenIds : /\ token'[s] # Free <=> token[s] # Free
                          /\ Live(s)' <=> Live(s)
                          /\ token[s] # Free => token'[s].login = token[s].login
  BY <1>1, <1>3 DEF Live
<1>6. OneLivePerLogin'
  BY <1>5 DEF SessionsInv, OneLivePerLogin, Live
<1>7. \A s \in TokenIds : token'[s] # Free => token'[token'[s].login] # Free
  BY <1>5 DEF SessionsInv, STypeOK, TokenRow
<1>8. ASSUME NEW q \in Requests PROVE RotationHeld(q)' /\ Presented(q)'
  <2>1. arg[q] \in Arg /\ arg[q].op # "register" => arg[q].token \in TokenIds
    BY ArgShape
  <2> QED
    BY <1>2, <1>5, <2>1 DEF SessionsInv, RotationHeld, Presented
<1> QED
  BY <1>2, <1>4, <1>6, <1>7, <1>8 DEF SessionsInv, UniqueEmails

\* SessionsInv is an invariant of the service.
THEOREM SessionsCorrect == Spec => []SessionsInv
<1>1. Init => SessionsInv
  BY SessionsInit
<1>2. SessionsInv /\ [Next]_vars => SessionsInv'
  <2> SUFFICES ASSUME SessionsInv, [Next]_vars PROVE SessionsInv'
    OBVIOUS
  <2>1. ASSUME NEW r \in Requests, NEW e \in Emails, LookupEmail(r, e) PROVE SessionsInv'
    <3>1. [op |-> "register", email |-> e] \in Arg
      BY DEF Arg
    <3> QED
      BY <2>1, <3>1, AskStep DEF LookupEmail
  <2>2. ASSUME NEW r \in Requests, NEW t \in TokenIds, NEW op \in {"refresh", "logout"},
               Present(r, t, op)
        PROVE SessionsInv'
    <3> DEFINE a == [op |-> op, token |-> t, onTime |-> ~token[t].expired]
    <3>1. a \in Arg
      BY DEF Arg
    <3>2. a.op # "register" /\ token[a.token] # Free
      BY <2>2 DEF Present
    <3> QED
      BY <2>2, <3>1, <3>2, AskStep DEF Present
  <2>3. CASE UNCHANGED vars
    BY <2>3 DEF vars, SessionsInv, STypeOK, UniqueEmails, OneLivePerLogin, Live, RotationHeld,
                Presented
  <2> QED
    BY <2>1, <2>2, <2>3, RollbackStep, InsertUserStep, LoginStep, LogoutStep, LockTokenStep,
       RotateStep, ExpireStep DEF Next
<1> QED
  BY <1>1, <1>2, PTL DEF Spec

\* A login never has two live refresh tokens, for any number of concurrent
\* refreshes and logouts (rotate_refresh_token, revoke_refresh_token).
THEOREM OneTokenLives == Spec => []OneLivePerLogin
<1>1. SessionsInv => OneLivePerLogin
  BY DEF SessionsInv
<1> QED
  BY <1>1, SessionsCorrect, PTL

\* One account per address, whatever registrations race (register_user).
THEOREM OneAccountPerEmail == Spec => []UniqueEmails
<1>1. SessionsInv => UniqueEmails
  BY DEF SessionsInv
<1> QED
  BY <1>1, SessionsCorrect, PTL

\* A refresh issues a token only in the step that revokes a live one of the
\* same login (rotate_refresh_token against revoke_refresh_token).
THEOREM RefreshNeedsLive == Spec => SuccessorReplacesLive
<1> DEFINE Handover ==
      \A t \in TokenIds :
        token[t] = Free /\ token'[t] # Free /\ token'[t].login # t =>
          \E s \in TokenIds : /\ Live(s) /\ token[s].login = token'[t].login
                              /\ token'[s].state = "revoked"
<1>1. SessionsInv /\ [Next]_vars => [Handover]_vars
  <2> SUFFICES ASSUME SessionsInv, Next PROVE Handover
    OBVIOUS
  <2>1. CASE UNCHANGED token
    BY <2>1
  <2>2. CASE Login
    BY <2>2 DEF Login, FreeTokens, Issued, SessionsInv, STypeOK
  <2>3. ASSUME NEW x \in TokenIds, Expire(x) PROVE Handover
    BY <2>3 DEF Expire, SessionsInv, STypeOK
  <2>4. ASSUME NEW r \in Requests, Logout(r) PROVE Handover
    <3>1. arg[r].token \in TokenIds /\ token[arg[r].token] # Free
      BY <2>4, ArgShape DEF SessionsInv, Presented, Logout
    <3> QED
      BY <2>4, <3>1 DEF Logout, Revoke, SessionsInv, STypeOK
  <2>5. ASSUME NEW r \in Requests, Rotate(r) PROVE Handover
    <3> DEFINE s == arg[r].token
    <3>1. s \in TokenIds /\ Live(s) /\ token[s] \in TokenRow
      BY <2>5, ArgShape DEF SessionsInv, STypeOK, RotationHeld, Live, Rotate
    <3>2. PICK t \in TokenIds : token[t] = Free /\ token' = Replaced(s, t)
      BY <2>5 DEF Rotate, FreeTokens
    <3>3. s # t
      BY <3>1, <3>2 DEF Live
    <3>4. /\ \A x \in TokenIds \ {s, t} : token'[x] = token[x]
          /\ token'[t] = Issued(token[s].login)
          /\ token'[s] = [token[s] EXCEPT !.state = "revoked"]
      BY <3>1, <3>2, <3>3 DEF Replaced, Revoke, SessionsInv, STypeOK
    <3>5. token'[t].login = token[s].login /\ token'[s].state = "revoked"
      BY <3>1, <3>4 DEF Issued, TokenRow
    <3> QED
      BY <3>1, <3>2, <3>4, <3>5 DEF Live
  <2> QED
    BY <2>1, <2>2, <2>3, <2>4, <2>5
    DEF Next, LookupEmail, Present, InsertUser, LockToken, Rollback
<1> QED
  BY <1>1, SessionsCorrect, PTL DEF Spec, SuccessorReplacesLive

=============================================================================
