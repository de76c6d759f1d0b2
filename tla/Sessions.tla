------------------------------- MODULE Sessions -------------------------------
(***************************************************************************)
(* Accounts and refresh tokens: the handlers of app/api/routes/auth.py and *)
(* app/services/auth.py behind them, in concurrent transactions.           *)
(*                                                                         *)
(* A token row remembers the login it descends from, which the table does  *)
(* not store: it is the history the properties speak of.  Whether the      *)
(* client hears the answer makes no difference to the database, so a lost  *)
(* answer is a request that ends.  Wrong passwords and unknown tokens      *)
(* change nothing and are left out.                                        *)
(*                                                                         *)
(* An operator named X_Fault is a deliberately wrong variant of X.         *)
(***************************************************************************)
EXTENDS Naturals, FiniteSets

CONSTANTS Emails, UserIds, TokenIds, Requests, Free, NoReq

ASSUME FreeAssumption == Free \notin Emails
ASSUME NoReqAssumption == NoReq \notin Requests

TokenRow == [login: TokenIds, state: {"live", "revoked"}, expired: BOOLEAN]

ASSUME TokenAssumption == Free \notin TokenRow

NoArg == [op |-> "none"]
Arg == [op: {"register"}, email: Emails]
         \cup [op: {"refresh", "logout"}, token: TokenIds, onTime: BOOLEAN]

VARIABLES
  user,    \* users: the e-mail address, by id
  token,   \* refresh_tokens, by id
  lock,    \* who holds the FOR UPDATE lock of each token row
  pc, arg  \* where a request is, and what it asks

vars == <<user, token, lock, pc, arg>>

Init ==
  /\ user = [u \in UserIds |-> Free]
  /\ token = [t \in TokenIds |-> Free]
  /\ lock = [t \in TokenIds |-> NoReq]
  /\ pc = [r \in Requests |-> "idle"]
  /\ arg = [r \in Requests |-> NoArg]

FreeTokens == {t \in TokenIds : token[t] = Free}
EmailTaken_NoIndex(e) == FALSE
EmailTaken(e) == \E u \in UserIds : user[u] = e

Ask(r, step, a) ==
  /\ pc[r] = "idle"
  /\ pc' = [pc EXCEPT ![r] = step]
  /\ arg' = [arg EXCEPT ![r] = a]

\* Commit or rollback.
Released(r) == [t \in TokenIds |-> IF lock[t] = r THEN NoReq ELSE lock[t]]
End(r) ==
  /\ pc' = [pc EXCEPT ![r] = "idle"]
  /\ arg' = [arg EXCEPT ![r] = NoArg]
  /\ lock' = Released(r)

\* A rejection, a failure, or the death of the process.
Rollback(r) == pc[r] # "idle" /\ End(r) /\ UNCHANGED <<user, token>>

-----------------------------------------------------------------------------

\* register_user looks for the address, then hashes the password.
LookupEmail(r, e) ==
  /\ \A u \in UserIds : user[u] # e
  /\ Ask(r, "insert", [op |-> "register", email |-> e])
  /\ UNCHANGED <<user, token, lock>>

\* Its flush; the unique index decides.
InsertUser(r) ==
  /\ pc[r] = "insert"
  /\ IF EmailTaken(arg[r].email)
     THEN Rollback(r)
     ELSE /\ \E u \in UserIds : /\ user[u] = Free
                                /\ user' = [user EXCEPT ![u] = arg[r].email]
          /\ End(r) /\ UNCHANGED token

\* issue_tokens: a fresh row.
Issued(login) == [login |-> login, state |-> "live", expired |-> FALSE]

Login ==
  /\ \E u \in UserIds : user[u] # Free
  /\ \E t \in FreeTokens : token' = [token EXCEPT ![t] = Issued(t)]
  /\ UNCHANGED <<user, lock, pc, arg>>

\* refresh reads its clock before it locks the token; logout has no clock.
Present(r, t, op) ==
  /\ token[t] # Free
  /\ Ask(r, "lock", [op |-> op, token |-> t, onTime |-> ~token[t].expired])
  /\ UNCHANGED <<user, token, lock>>

Available(r) == lock[arg[r].token] = NoReq

Revoke(t) == [token EXCEPT ![t].state = "revoked"]

\* revoke_refresh_token, whole: a revoked token is left as it is.
Logout(r) ==
  /\ pc[r] = "lock" /\ arg[r].op = "logout"
  /\ Available(r)
  /\ token' = Revoke(arg[r].token)
  /\ End(r) /\ UNCHANGED user

\* rotate_refresh_token up to its verdict on the locked row.
Rotatable_Used(r) == arg[r].onTime
Rotatable(r) == token[arg[r].token].state = "live" /\ arg[r].onTime

LockToken(r) ==
  /\ pc[r] = "lock" /\ arg[r].op = "refresh"
  /\ Available(r)
  /\ IF Rotatable(r)
     THEN /\ lock' = [lock EXCEPT ![arg[r].token] = r]
          /\ pc' = [pc EXCEPT ![r] = "rotate"]
          /\ UNCHANGED <<user, token, arg>>
     ELSE Rollback(r)

\* The old token is revoked and its replacement inserted, in one commit.
Replaced_KeepsOld(old, new) == [token EXCEPT ![new] = Issued(token[old].login)]
Replaced(old, new) == [Revoke(old) EXCEPT ![new] = Issued(token[old].login)]

Rotate(r) ==
  /\ pc[r] = "rotate"
  /\ \E t \in FreeTokens : token' = Replaced(arg[r].token, t)
  /\ End(r) /\ UNCHANGED user

\* Time passes expires_at.
Expire(t) ==
  /\ token[t] # Free /\ ~token[t].expired
  /\ token' = [token EXCEPT ![t].expired = TRUE]
  /\ UNCHANGED <<user, lock, pc, arg>>

Next ==
  \/ \E r \in Requests :
       \/ \E e \in Emails : LookupEmail(r, e)
       \/ \E t \in TokenIds, op \in {"refresh", "logout"} : Present(r, t, op)
       \/ InsertUser(r) \/ Logout(r) \/ LockToken(r) \/ Rotate(r) \/ Rollback(r)
  \/ Login
  \/ \E t \in TokenIds : Expire(t)

Spec == Init /\ [][Next]_vars

-----------------------------------------------------------------------------
(* Properties. *)

\* Tables and requests are in their types, and a row lock is held by a refresh
\* that is about to rotate that row.
STypeOK ==
  /\ user \in [UserIds -> Emails \cup {Free}]
  /\ token \in [TokenIds -> TokenRow \cup {Free}]
  /\ lock \in [TokenIds -> Requests \cup {NoReq}]
  /\ pc \in [Requests -> {"idle", "insert", "lock", "rotate"}]
  /\ arg \in [Requests -> Arg \cup {NoArg}]
  /\ \A t \in TokenIds :
       lock[t] # NoReq => pc[lock[t]] = "rotate" /\ arg[lock[t]].token = t

\* Two registrations of one address race past the lookup; one account remains.
UniqueEmails == \A u, v \in UserIds : user[u] # Free /\ user[u] = user[v] => u = v

Live(t) == token[t] # Free /\ token[t].state = "live"

\* README: "a rotated token cannot be used again".  However many requests
\* present the tokens of a login at once, again, or late, at most one of them
\* is live.
OneLivePerLogin ==
  \A s, t \in TokenIds : Live(s) /\ Live(t) /\ token[s].login = token[t].login => s = t

\* A login goes on only through a token that is live to the end: a refresh
\* issues nothing for a token a logout or another refresh revoked first.
SuccessorReplacesLive ==
  [][\A t \in TokenIds :
       token[t] = Free /\ token'[t] # Free /\ token'[t].login # t =>
         \E s \in TokenIds : /\ Live(s) /\ token[s].login = token'[t].login
                             /\ token'[s].state = "revoked"]_vars

=============================================================================
