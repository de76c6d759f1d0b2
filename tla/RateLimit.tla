------------------------------ MODULE RateLimit ------------------------------
(***************************************************************************)
(* FixedWindowRateLimiter (app/infrastructure/rate_limit.py), as the       *)
(* dependencies of app/api/deps.py call it, and a client that heeds        *)
(* Retry-After.                                                            *)
(*                                                                         *)
(* A request reads the clock, and with it chooses the counter of a window; *)
(* any time later its script reaches Redis.  The script is atomic.  The    *)
(* reply may be lost, and then redis-py sends the script again; or the     *)
(* connection fails and so does the request.  A counter is a Redis key     *)
(* that expires: from then on it is absent.                                *)
(*                                                                         *)
(* Time is counted in ticks, Second of them to a second, so that requests  *)
(* fall between the whole seconds the code computes with.  passed, late    *)
(* and lost are history that no code stores.                               *)
(***************************************************************************)
EXTENDS Naturals

CONSTANTS Ids,            \* identifiers: user:<id> and api-key:<id>
          Requests,       \* concurrent requests
          Limit,          \* requests per window
          window_seconds,
          Second,         \* ticks per second
          MaxClock,       \* bound: the last tick
          MaxCount,       \* bound: no request begins once a counter is there
          MaxLost,        \* bound: replies of Redis that are lost
          NoId

ASSUME LimitAssumption ==
  /\ Limit \in Nat \ {0} /\ window_seconds \in Nat \ {0} /\ Second \in Nat \ {0}
  /\ MaxClock \in Nat /\ MaxCount \in Nat /\ MaxLost \in Nat
  /\ NoId \notin Ids

Window == window_seconds * Second
WindowOf(t) == t \div Window
Windows == 0..WindowOf(MaxClock)

VARIABLES
  clock,
  count,    \* value of the Redis key of an identifier and a window
  expires,  \* when that key expires
  pc,
  id, time, \* a request's identifier and current_time
  until,    \* when the client of a rejected request comes back
  passed,   \* requests allowed, by identifier and window
  late,     \* those of them whose script ran over a second after current_time
  lost      \* scripts that ran and whose reply was lost

redis == <<count, expires>>
history == <<passed, late, lost>>
vars == <<clock, count, expires, pc, id, time, until, passed, late, lost>>

Zero == [i \in Ids |-> [w \in Windows |-> 0]]

Init ==
  /\ clock = 0
  /\ count = Zero /\ expires = Zero
  /\ pc = [r \in Requests |-> "idle"]
  /\ id = [r \in Requests |-> NoId]
  /\ time = [r \in Requests |-> 0]
  /\ until = [r \in Requests |-> 0]
  /\ passed = Zero /\ late = Zero /\ lost = 0

-----------------------------------------------------------------------------
Tick ==
  /\ clock < MaxClock
  /\ clock' = clock + 1
  /\ UNCHANGED <<redis, pc, id, time, until, history>>

\* check up to the script: time.time() and the key.
ReadClock(r, i) ==
  /\ pc[r] = "idle" /\ count[i][WindowOf(clock)] < MaxCount
  /\ pc' = [pc EXCEPT ![r] = "eval"]
  /\ id' = [id EXCEPT ![r] = i]
  /\ time' = [time EXCEPT ![r] = clock]
  /\ UNCHANGED <<clock, redis, until, history>>

\* EXPIRE takes seconds.
TimeToLive_WindowOnly == window_seconds * Second
TimeToLive == (window_seconds + 1) * Second

Value(i, w) == IF clock < expires[i][w] THEN count[i][w] ELSE 0

\* _INCREMENT_WINDOW
Increment(i, w) ==
  /\ count' = [count EXCEPT ![i][w] = Value(i, w) + 1]
  /\ expires' = IF Value(i, w) = 0
                THEN [expires EXCEPT ![i][w] = clock + TimeToLive]
                ELSE expires

Allowed_OneLess(n) == n < Limit
Allowed(n) == n <= Limit

Punctual(r) == clock - time[r] <= Second
Counted(f, i, w) == [f EXCEPT ![i][w] = @ + 1]

Done(r) ==
  /\ pc' = [pc EXCEPT ![r] = "idle"]
  /\ id' = [id EXCEPT ![r] = NoId]
  /\ time' = [time EXCEPT ![r] = 0]
  /\ until' = [until EXCEPT ![r] = 0]

Admit(r) ==
  LET i == id[r]
      w == WindowOf(time[r]) IN
  /\ pc[r] = "eval"
  /\ Increment(i, w)
  /\ Allowed(Value(i, w) + 1)
  /\ passed' = Counted(passed, i, w)
  /\ late' = IF Punctual(r) THEN late ELSE Counted(late, i, w)
  /\ Done(r)
  /\ UNCHANGED <<clock, lost>>

\* retry_after: whole seconds from current_time to the next window, rounded up.
AtLeastOne(n) == IF n < 1 THEN 1 ELSE n
TicksLeft(t) == (WindowOf(t) + 1) * Window - t
retry_after_Floor(t) == AtLeastOne(TicksLeft(t) \div Second)
retry_after(t) == AtLeastOne((TicksLeft(t) + (Second - 1)) \div Second)

\* enforce raises 429; the client waits for Retry-After seconds.
Reject(r) ==
  LET i == id[r]
      w == WindowOf(time[r]) IN
  /\ pc[r] = "eval"
  /\ Increment(i, w)
  /\ ~Allowed(Value(i, w) + 1)
  /\ pc' = [pc EXCEPT ![r] = "wait"]
  /\ until' = [until EXCEPT ![r] = clock + retry_after(time[r]) * Second]
  /\ UNCHANGED <<clock, id, time, history>>

\* The script runs and its reply is lost; the client library sends it again.
LoseReply(r) ==
  /\ pc[r] = "eval" /\ lost < MaxLost
  /\ Increment(id[r], WindowOf(time[r]))
  /\ lost' = lost + 1
  /\ UNCHANGED <<clock, pc, id, time, until, passed, late>>

\* No connection: the request fails.  Or a client does not come back.
Fail(r) ==
  /\ pc[r] \in {"eval", "wait"}
  /\ Done(r)
  /\ UNCHANGED <<clock, redis, history>>

Retry(r) ==
  /\ pc[r] = "wait" /\ clock >= until[r]
  /\ pc' = [pc EXCEPT ![r] = "eval"]
  /\ time' = [time EXCEPT ![r] = clock]
  /\ until' = [until EXCEPT ![r] = 0]
  /\ UNCHANGED <<clock, redis, id, history>>

Next ==
  \/ Tick
  \/ \E r \in Requests :
       \/ \E i \in Ids : ReadClock(r, i)
       \/ Admit(r) \/ Reject(r) \/ LoseReply(r) \/ Fail(r) \/ Retry(r)

Spec == Init /\ [][Next]_vars

-----------------------------------------------------------------------------
(* Properties. *)

LTypeOK ==
  /\ clock \in 0..MaxClock
  /\ count \in [Ids -> [Windows -> Nat]] /\ expires \in [Ids -> [Windows -> Nat]]
  /\ pc \in [Requests -> {"idle", "eval", "wait"}]
  /\ id \in [Requests -> Ids \cup {NoId}]
  /\ time \in [Requests -> 0..MaxClock] /\ until \in [Requests -> Nat]
  /\ passed \in [Ids -> [Windows -> Nat]] /\ late \in [Ids -> [Windows -> Nat]]
  /\ lost \in 0..MaxLost
  /\ \A r \in Requests : /\ time[r] <= clock /\ until[r] <= clock + Window
                         /\ pc[r] # "idle" => id[r] \in Ids

\* A window never lets more than its limit of requests through, however they
\* are delayed and repeated, if those are left out whose script took more than
\* a second: that is what the extra second of the key's lifetime buys.
WithinLimit ==
  \A i \in Ids, w \in Windows : passed[i][w] <= Limit + late[i][w]

\* Nobody is turned away early: a request is rejected only when its own
\* identifier has used up the window, lost replies being counted against it.
NoEarlyRejection ==
  [][\A r \in Requests :
       pc[r] = "eval" /\ pc'[r] = "wait" =>
         passed[id[r]][WindowOf(time[r])] + lost >= Limit]_vars

\* Retry-After is exact.  A client that waits that long after its 429 arrives is
\* counted in a later window; a second less, counted from current_time, would
\* still be in the window that is full.
RetryAfterExact ==
  [][\A r \in Requests :
       /\ pc[r] = "wait" /\ pc'[r] = "eval" => WindowOf(time'[r]) > WindowOf(time[r])
       /\ pc[r] = "eval" /\ pc'[r] = "wait" =>
            WindowOf(time[r] + (retry_after(time[r]) - 1) * Second) = WindowOf(time[r])]_vars

=============================================================================
