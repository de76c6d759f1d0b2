--------------------------- MODULE RateLimitProofs ---------------------------
(***************************************************************************)
(* LimitInv is inductive: for every limit, window length, resolution of    *)
(* the clock and number of requests, a window lets no more than its limit  *)
(* of punctual requests through, nobody is rejected early, and Retry-After *)
(* is exact.  The products of constants are kept out of sight of the       *)
(* provers by the lemmas of the first two sections.                        *)
(***************************************************************************)
EXTENDS RateLimit, TLAPS

-----------------------------------------------------------------------------
(* Products and quotients. *)

\* A larger factor gives a larger product.
LEMMA MulMonotone ==
  ASSUME NEW a \in Nat, NEW b \in Nat, NEW c \in Nat, a <= b
  PROVE  a * c <= b * c
BY SMT

\* A factor larger by one at least adds a whole c.
LEMMA MulStep ==
  ASSUME NEW a \in Nat, NEW b \in Nat, NEW c \in Nat, a < b
  PROVE  a * c + c <= b * c
<1>1. (a + 1) * c <= b * c
  BY MulMonotone
<1>2. (a + 1) * c = a * c + c
  BY SMT
<1> QED BY <1>1, <1>2

\* Products of natural numbers are natural numbers.
LEMMA MulNat ==
  ASSUME NEW a \in Nat, NEW b \in Nat
  PROVE  a * b \in Nat
BY SMT

\* A quotient, times the divisor, is less than a divisor below the dividend.
LEMMA DivBounds ==
  ASSUME NEW a \in Nat, NEW b \in Nat \ {0}
  PROVE  /\ a \div b \in Nat
         /\ (a \div b) * b <= a
         /\ a < (a \div b) * b + b
BY SMT

\* What fits k times has a quotient of at least k.
LEMMA DivAtLeast ==
  ASSUME NEW a \in Nat, NEW b \in Nat \ {0}, NEW k \in Nat, k * b <= a
  PROVE  k <= a \div b
<1> DEFINE q == a \div b
<1>1. q \in Nat /\ a < q * b + b
  BY DivBounds
<1> HIDE DEF q
<1>2. ASSUME q < k PROVE FALSE
  <2>1. q * b + b <= k * b
    BY <1>1, <1>2, MulStep
  <2> QED BY <1>1, <2>1, MulNat, SMT
<1> QED BY <1>1, <1>2 DEF q

\* What fits less than k + 1 times has a quotient of at most k.
LEMMA DivBelow ==
  ASSUME NEW a \in Nat, NEW b \in Nat \ {0}, NEW k \in Nat, a < (k + 1) * b
  PROVE  a \div b <= k
<1> DEFINE q == a \div b
<1>1. q \in Nat /\ q * b <= a
  BY DivBounds
<1> HIDE DEF q
<1>2. ASSUME k < q PROVE FALSE
  <2>1. k + 1 <= q /\ k + 1 \in Nat
    BY <1>1, <1>2
  <2>2. (k + 1) * b <= q * b
    BY <1>1, <2>1, MulMonotone
  <2> QED BY <1>1, <2>1, <2>2, MulNat, SMT
<1> QED BY <1>1, <1>2 DEF q

-----------------------------------------------------------------------------
(* Windows and Retry-After. *)

\* A window has at least one tick (check raises otherwise).
LEMMA WindowPositive == Window \in Nat \ {0}
<1>1. 1 * Second <= window_seconds * Second
  BY LimitAssumption, MulMonotone
<1>2. window_seconds * Second \in Nat
  BY LimitAssumption, MulNat
<1> QED BY <1>1, <1>2, LimitAssumption DEF Window

\* An instant lies in its window.
LEMMA WindowBounds ==
  ASSUME NEW t \in Nat
  PROVE  /\ WindowOf(t) \in Nat
         /\ WindowOf(t) * Window \in Nat
         /\ (WindowOf(t) + 1) * Window = WindowOf(t) * Window + Window
         /\ WindowOf(t) * Window <= t
         /\ t < WindowOf(t) * Window + Window
<1>1. /\ WindowOf(t) \in Nat
      /\ WindowOf(t) * Window <= t
      /\ t < WindowOf(t) * Window + Window
  BY WindowPositive, DivBounds DEF WindowOf
<1>2. WindowOf(t) * Window \in Nat
  BY <1>1, WindowPositive, MulNat
<1>3. (WindowOf(t) + 1) * Window = WindowOf(t) * Window + Window
  BY <1>1, WindowPositive, SMT
<1> QED BY <1>1, <1>2, <1>3

\* The windows of the model are those of its instants.
LEMMA WindowInRange ==
  ASSUME NEW t \in 0..MaxClock
  PROVE  WindowOf(t) \in Windows
<1>1. t \in Nat /\ MaxClock \in Nat /\ t <= MaxClock
  BY LimitAssumption
<1>2. WindowOf(t) \in Nat /\ WindowOf(t) * Window \in Nat /\ WindowOf(t) * Window <= t
  BY <1>1, WindowBounds
<1>3. WindowOf(MaxClock) \in Nat
  BY <1>1, WindowBounds
<1>4. WindowOf(t) * Window <= MaxClock
  BY <1>1, <1>2
<1>5. WindowOf(t) <= MaxClock \div Window
  BY <1>1, <1>2, <1>4, WindowPositive, DivAtLeast
<1> QED BY <1>2, <1>3, <1>5 DEF Windows, WindowOf

\* From the start of the next window on, the window is a later one.
LEMMA LaterWindow ==
  ASSUME NEW t \in Nat, NEW c \in Nat, (WindowOf(t) + 1) * Window <= c
  PROVE  WindowOf(c) > WindowOf(t)
<1>1. WindowOf(t) \in Nat /\ WindowOf(t) + 1 \in Nat
  BY WindowBounds
<1>2. WindowOf(t) + 1 <= c \div Window
  BY <1>1, WindowPositive, DivAtLeast
<1>3. WindowOf(c) \in Nat
  BY WindowBounds
<1> QED BY <1>1, <1>2, <1>3 DEF WindowOf

\* Before it, the window is the same.
LEMMA SameWindow ==
  ASSUME NEW t \in Nat, NEW c \in Nat, t <= c, c < (WindowOf(t) + 1) * Window
  PROVE  WindowOf(c) = WindowOf(t)
<1>1. /\ WindowOf(t) \in Nat /\ WindowOf(t) * Window \in Nat
      /\ WindowOf(t) * Window <= t /\ WindowOf(c) \in Nat
  BY WindowBounds
<1>2. WindowOf(t) * Window <= c
  BY <1>1
<1>3. WindowOf(t) <= c \div Window
  BY <1>1, <1>2, WindowPositive, DivAtLeast
<1>4. c \div Window <= WindowOf(t)
  BY <1>1, WindowPositive, DivBelow
<1> QED BY <1>1, <1>3, <1>4 DEF WindowOf

\* Retry-After, in ticks, is at most a window, reaches the next window, and a
\* second less does not (retry_after in check).
LEMMA RetryAfterBounds ==
  ASSUME NEW t \in Nat
  PROVE  /\ retry_after(t) \in Nat /\ retry_after(t) * Second \in Nat
         /\ retry_after(t) * Second <= Window
         /\ (WindowOf(t) + 1) * Window <= t + retry_after(t) * Second
         /\ WindowOf(t + (retry_after(t) - 1) * Second) = WindowOf(t)
<1> DEFINE x == TicksLeft(t)
           n == (x + (Second - 1)) \div Second
<1>1. /\ x \in Nat /\ 1 <= x /\ x <= Window
      /\ (WindowOf(t) + 1) * Window = t + x
  <2>1. /\ WindowOf(t) * Window \in Nat /\ Window \in Nat
        /\ (WindowOf(t) + 1) * Window = WindowOf(t) * Window + Window
        /\ WindowOf(t) * Window <= t /\ t < WindowOf(t) * Window + Window
    BY WindowBounds, WindowPositive
  <2>2. x = WindowOf(t) * Window + Window - t
    BY <2>1 DEF TicksLeft
  <2> HIDE DEF x
  <2> QED BY <2>1, <2>2
<1> HIDE DEF x
<1>2. Second \in Nat \ {0} /\ window_seconds \in Nat \ {0} /\ x + (Second - 1) \in Nat
  BY <1>1, LimitAssumption
<1>3. /\ n \in Nat
      /\ n * Second <= x + (Second - 1)
      /\ x + (Second - 1) < n * Second + Second
  BY <1>2, DivBounds
<1>4. n <= window_seconds
  <2>1. (window_seconds + 1) * Second = Window + Second
    BY <1>2, SMT DEF Window
  <2>2. x + (Second - 1) < (window_seconds + 1) * Second
    BY <1>1, <1>2, <2>1, WindowPositive
  <2> QED BY <1>2, <2>2, DivBelow
<1> HIDE DEF n
<1>5. n * Second \in Nat /\ x <= n * Second
  BY <1>1, <1>2, <1>3, MulNat
<1>6. n >= 1
  <2>1. ASSUME n = 0 PROVE FALSE
    BY <1>1, <1>5, <2>1, <1>2
  <2> QED BY <1>3, <2>1
<1>7. retry_after(t) = n
  BY <1>3, <1>6 DEF retry_after, AtLeastOne, n, x
<1>8. n * Second <= Window
  BY <1>2, <1>3, <1>4, MulMonotone DEF Window
<1>9. WindowOf(t + (n - 1) * Second) = WindowOf(t)
  <2>1. (n - 1) * Second = n * Second - Second
    BY <1>2, <1>3, SMT
  <2>2. (n - 1) * Second \in Nat
    BY <1>2, <1>3, <1>6, MulNat
  <2>3. t + (n - 1) * Second < (WindowOf(t) + 1) * Window
    BY <1>1, <1>2, <1>3, <1>5, <2>1, <2>2
  <2> QED BY <2>2, <2>3, SameWindow
<1> QED BY <1>1, <1>3, <1>5, <1>7, <1>8, <1>9

-----------------------------------------------------------------------------
(* The inductive invariant. *)

\* The last instant at which a punctual request of window w can be counted is
\* before Deadline(w).
Deadline(w) == w * Window + TimeToLive

\* Until then the counter of the window, once made, does not expire, and no
\* request passed without being counted.
CounterKept(i, w) ==
  clock < Deadline(w) =>
    \/ expires[i][w] = 0 /\ passed[i][w] = 0
    \/ Deadline(w) <= expires[i][w] /\ passed[i][w] <= count[i][w] + late[i][w]

\* A counter is not ahead of the requests that passed, or they used it up.
CountEarned(i, w) ==
  count[i][w] <= passed[i][w] + lost \/ Limit <= passed[i][w] + lost

WaitsLongEnough(r) == pc[r] = "wait" => (WindowOf(time[r]) + 1) * Window <= until[r]

LimitInv ==
  /\ LTypeOK /\ WithinLimit
  /\ \A i \in Ids, w \in Windows : CounterKept(i, w) /\ CountEarned(i, w)
  /\ \A r \in Requests : WaitsLongEnough(r)

\* The lifetime of a counter is a natural number.
LEMMA TimeToLiveNat == TimeToLive \in Nat
BY LimitAssumption, MulNat DEF TimeToLive

\* A counter made at or after current_time lives to the deadline of its window,
\* and a punctual script runs before it: the extra second of EXPIRE.
LEMMA DeadlineBounds ==
  ASSUME NEW t \in Nat, NEW c \in Nat, t <= c
  PROVE  /\ Deadline(WindowOf(t)) \in Nat
         /\ Deadline(WindowOf(t)) <= c + TimeToLive
         /\ c - t <= Second => c < Deadline(WindowOf(t))
<1>1. /\ WindowOf(t) * Window \in Nat /\ Window \in Nat
      /\ WindowOf(t) * Window <= t /\ t < WindowOf(t) * Window + Window
  BY WindowBounds, WindowPositive
<1>2. TimeToLive = Window + Second /\ Second \in Nat
  BY LimitAssumption, SMT DEF TimeToLive, Window
<1> QED BY <1>1, <1>2 DEF Deadline

\* What the script does to its counter, and that it does nothing to others.
LEMMA Incremented ==
  ASSUME LTypeOK, NEW i \in Ids, NEW w \in Windows, Increment(i, w)
  PROVE  /\ Value(i, w) \in Nat /\ Value(i, w) <= count[i][w]
         /\ count' \in [Ids -> [Windows -> Nat]] /\ expires' \in [Ids -> [Windows -> Nat]]
         /\ count'[i][w] = Value(i, w) + 1
         /\ expires'[i][w] = IF Value(i, w) = 0 THEN clock + TimeToLive ELSE expires[i][w]
         /\ \A j \in Ids, x \in Windows :
              j # i \/ x # w => count'[j][x] = count[j][x] /\ expires'[j][x] = expires[j][x]
<1>1. Value(i, w) \in Nat /\ Value(i, w) <= count[i][w] /\ clock + TimeToLive \in Nat
  BY TimeToLiveNat, LimitAssumption DEF LTypeOK, Value
<1>2. count \in [Ids -> [Windows -> Nat]] /\ expires \in [Ids -> [Windows -> Nat]]
  BY DEF LTypeOK
<1>3. /\ count' = [count EXCEPT ![i][w] = Value(i, w) + 1]
      /\ expires' = IF Value(i, w) = 0
                    THEN [expires EXCEPT ![i][w] = clock + TimeToLive]
                    ELSE expires
  BY DEF Increment
<1> QED BY <1>1, <1>2, <1>3

\* History counts one more in one place.
LEMMA CountedOne ==
  ASSUME NEW f \in [Ids -> [Windows -> Nat]], NEW i \in Ids, NEW w \in Windows
  PROVE  /\ Counted(f, i, w) \in [Ids -> [Windows -> Nat]]
         /\ Counted(f, i, w)[i][w] = f[i][w] + 1
         /\ \A j \in Ids, x \in Windows : j # i \/ x # w => Counted(f, i, w)[j][x] = f[j][x]
BY DEF Counted

\* Redis is empty and no request has begun.
LEMMA InitLimit == Init => LimitInv
<1> SUFFICES ASSUME Init PROVE LimitInv
  OBVIOUS
<1>1. LTypeOK
  <2>1. Zero \in [Ids -> [Windows -> Nat]]
    BY DEF Zero
  <2>2. \A r \in Requests : time[r] <= clock /\ until[r] <= clock + Window
    BY WindowPositive DEF Init
  <2> QED BY <2>1, <2>2, LimitAssumption DEF Init, LTypeOK
<1>2. WithinLimit
  BY LimitAssumption DEF Init, Zero, WithinLimit
<1>3. \A i \in Ids, w \in Windows : CounterKept(i, w) /\ CountEarned(i, w)
  BY LimitAssumption DEF Init, Zero, CounterKept, CountEarned
<1>4. \A r \in Requests : WaitsLongEnough(r)
  BY DEF Init, WaitsLongEnough
<1> QED BY <1>1, <1>2, <1>3, <1>4 DEF LimitInv

\* What a request in the middle of check knows.
LEMMA Evaluating ==
  ASSUME LTypeOK, NEW r \in Requests, pc[r] = "eval"
  PROVE  /\ id[r] \in Ids /\ time[r] \in Nat /\ clock \in Nat /\ time[r] <= clock
         /\ WindowOf(time[r]) \in Windows
         /\ Deadline(WindowOf(time[r])) \in Nat
         /\ Deadline(WindowOf(time[r])) <= clock + TimeToLive
         /\ Punctual(r) => clock < Deadline(WindowOf(time[r]))
<1>1. /\ id[r] \in Ids /\ time[r] \in 0..MaxClock /\ clock \in 0..MaxClock /\ time[r] <= clock
  BY DEF LTypeOK
<1>2. time[r] \in Nat /\ clock \in Nat
  BY <1>1, LimitAssumption
<1> QED BY <1>1, <1>2, WindowInRange, DeadlineBounds DEF Punctual

\* Requests, whatever the counters do.
LEMMA DoneKeeps ==
  ASSUME LTypeOK, NEW r \in Requests, Done(r), clock' = clock
  PROVE  /\ pc' \in [Requests -> {"idle", "eval", "wait"}]
         /\ id' \in [Requests -> Ids \cup {NoId}]
         /\ time' \in [Requests -> 0..MaxClock] /\ until' \in [Requests -> Nat]
         /\ \A q \in Requests : /\ time'[q] <= clock' /\ until'[q] <= clock' + Window
                                /\ pc'[q] # "idle" => id'[q] \in Ids
<1>1. Window \in Nat /\ clock \in Nat /\ 0 \in 0..MaxClock
  BY WindowPositive, LimitAssumption DEF LTypeOK
<1> QED BY <1>1 DEF LTypeOK, Done

-----------------------------------------------------------------------------
(* Steps. *)

\* Time passes.
LEMMA TickKeeps == LimitInv /\ Tick => LimitInv'
<1> SUFFICES ASSUME LimitInv, Tick PROVE LimitInv'
  OBVIOUS
<1> USE DEF LimitInv, Tick, redis, history
<1>1. clock \in Nat /\ MaxClock \in Nat /\ Window \in Nat /\ clock < MaxClock /\ clock' = clock + 1
  BY WindowPositive, LimitAssumption DEF LTypeOK
<1>2. LTypeOK'
  <2>1. clock' \in 0..MaxClock
    BY <1>1
  <2>2. \A r \in Requests : time[r] <= clock' /\ until[r] <= clock' + Window
    BY <1>1, LimitAssumption DEF LTypeOK
  <2> QED BY <2>1, <2>2 DEF LTypeOK
<1>3. WithinLimit'
  BY DEF WithinLimit
<1>4. ASSUME NEW i \in Ids, NEW w \in Windows
      PROVE  CounterKept(i, w)' /\ CountEarned(i, w)'
  <2>1. w \in Nat /\ Deadline(w) \in Nat
    BY WindowPositive, TimeToLiveNat, MulNat DEF Windows, Deadline
  <2>2. CounterKept(i, w) /\ CountEarned(i, w)
    OBVIOUS
  <2>3. UNCHANGED <<count, expires, passed, late, lost>> /\ Deadline(w)' = Deadline(w)
    BY DEF Deadline, TimeToLive, Window
  <2>4. clock' < Deadline(w) => clock < Deadline(w)
    BY <1>1, <2>1
  <2> QED BY <2>2, <2>3, <2>4 DEF CounterKept, CountEarned
<1>5. \A r \in Requests : WaitsLongEnough(r)'
  BY DEF WaitsLongEnough, WindowOf, Window
<1> QED BY <1>2, <1>3, <1>4, <1>5

\* A request reads the clock.
LEMMA ReadClockKeeps ==
  ASSUME LimitInv, NEW r \in Requests, NEW i \in Ids, ReadClock(r, i)
  PROVE  LimitInv'
<1> USE DEF LimitInv, ReadClock, redis, history
<1>1. LTypeOK'
  <2>1. clock <= clock
    BY LimitAssumption DEF LTypeOK
  <2> QED BY <2>1 DEF LTypeOK
<1>2. WithinLimit'
  BY DEF WithinLimit
<1>3. \A j \in Ids, w \in Windows : CounterKept(j, w)' /\ CountEarned(j, w)'
  BY DEF CounterKept, CountEarned, Deadline, TimeToLive, Window
<1>4. ASSUME NEW q \in Requests PROVE WaitsLongEnough(q)'
  <2>1. CASE q = r
    BY <2>1 DEF WaitsLongEnough, LTypeOK
  <2>2. CASE q # r
    <3>1. pc'[q] = pc[q] /\ time'[q] = time[q] /\ until'[q] = until[q]
      BY <2>2 DEF LTypeOK
    <3> QED BY <3>1 DEF WaitsLongEnough, WindowOf, Window
  <2> QED BY <2>1, <2>2
<1> QED BY <1>1, <1>2, <1>3, <1>4

\* A request that ends waits no more.
LEMMA DoneWaits ==
  ASSUME LTypeOK, NEW r \in Requests, Done(r), \A q \in Requests : WaitsLongEnough(q)
  PROVE  \A q \in Requests : WaitsLongEnough(q)'
<1> TAKE q \in Requests
<1>1. CASE q = r
  BY <1>1 DEF WaitsLongEnough, LTypeOK, Done
<1>2. CASE q # r
  <2>1. pc'[q] = pc[q] /\ time'[q] = time[q] /\ until'[q] = until[q]
    BY <1>2 DEF LTypeOK, Done
  <2> QED BY <2>1 DEF WaitsLongEnough, WindowOf, Window
<1> QED BY <1>1, <1>2

\* A request ends without an answer.
LEMMA FailKeeps ==
  ASSUME LimitInv, NEW r \in Requests, Fail(r)
  PROVE  LimitInv'
<1> USE DEF LimitInv, Fail, redis, history
<1>1. LTypeOK'
  <2>1. Done(r) /\ clock' = clock /\ LTypeOK
    OBVIOUS
  <2>2. UNCHANGED <<clock, count, expires, passed, late, lost>>
    OBVIOUS
  <2>3. /\ clock' \in 0..MaxClock
        /\ count' \in [Ids -> [Windows -> Nat]] /\ expires' \in [Ids -> [Windows -> Nat]]
        /\ passed' \in [Ids -> [Windows -> Nat]] /\ late' \in [Ids -> [Windows -> Nat]]
        /\ lost' \in 0..MaxLost
    BY <2>1, <2>2 DEF LTypeOK
  <2> QED BY <2>1, <2>3, DoneKeeps DEF LTypeOK, Windows, WindowOf, Window
<1>2. WithinLimit'
  BY DEF WithinLimit
<1>3. \A j \in Ids, w \in Windows : CounterKept(j, w)' /\ CountEarned(j, w)'
  BY DEF CounterKept, CountEarned, Deadline, TimeToLive, Window
<1>4. \A q \in Requests : WaitsLongEnough(q)'
  BY DoneWaits
<1> QED BY <1>1, <1>2, <1>3, <1>4

\* A client comes back.
LEMMA RetryKeeps ==
  ASSUME LimitInv, NEW r \in Requests, Retry(r)
  PROVE  LimitInv'
<1> USE DEF LimitInv, Retry, redis, history
<1>1. LTypeOK'
  <2>1. clock <= clock /\ 0 <= clock + Window
    BY WindowPositive, LimitAssumption DEF LTypeOK
  <2> QED BY <2>1 DEF LTypeOK
<1>2. WithinLimit'
  BY DEF WithinLimit
<1>3. \A j \in Ids, w \in Windows : CounterKept(j, w)' /\ CountEarned(j, w)'
  BY DEF CounterKept, CountEarned, Deadline, TimeToLive, Window
<1>4. ASSUME NEW q \in Requests PROVE WaitsLongEnough(q)'
  <2>1. CASE q = r
    BY <2>1 DEF WaitsLongEnough, LTypeOK
  <2>2. CASE q # r
    <3>1. pc'[q] = pc[q] /\ time'[q] = time[q] /\ until'[q] = until[q]
      BY <2>2 DEF LTypeOK
    <3> QED BY <3>1 DEF WaitsLongEnough, WindowOf, Window
  <2> QED BY <2>1, <2>2
<1> QED BY <1>1, <1>2, <1>3, <1>4

\* The script, for the counter it increments: the counter stays kept if a
\* request that passes is counted.
LEMMA ScriptKeeps ==
  ASSUME LimitInv, NEW r \in Requests, pc[r] = "eval", clock' = clock,
         NEW i, i = id[r], NEW w, w = WindowOf(time[r]), Increment(i, w),
         passed'[i][w] \in Nat, late'[i][w] \in Nat, late[i][w] <= late'[i][w],
         passed'[i][w] <= passed[i][w] + 1
  PROVE  CounterKept(i, w)'
<1>1. /\ i \in Ids /\ w \in Windows /\ clock \in Nat /\ Deadline(w) \in Nat /\ LTypeOK
      /\ Deadline(w) <= clock + TimeToLive
  BY Evaluating DEF LimitInv
<1>2. /\ count[i][w] \in Nat /\ expires[i][w] \in Nat /\ passed[i][w] \in Nat /\ late[i][w] \in Nat
      /\ CounterKept(i, w)
  BY <1>1 DEF LimitInv, LTypeOK
<1>3. /\ Value(i, w) \in Nat
      /\ count'[i][w] = Value(i, w) + 1
      /\ expires'[i][w] = IF Value(i, w) = 0 THEN clock + TimeToLive ELSE expires[i][w]
  BY <1>1, Incremented
<1>4. Value(i, w) = IF clock < expires[i][w] THEN count[i][w] ELSE 0
  BY DEF Value
<1>5. Deadline(w)' = Deadline(w)
  BY DEF Deadline, TimeToLive, Window
<1>6. ASSUME clock < Deadline(w)
      PROVE  /\ Deadline(w) <= expires'[i][w]
             /\ passed'[i][w] <= count'[i][w] + late'[i][w]
  <2>1. CASE expires[i][w] = 0 /\ passed[i][w] = 0
    BY <1>1, <1>2, <1>3, <1>4, <2>1
  <2>2. CASE Deadline(w) <= expires[i][w] /\ passed[i][w] <= count[i][w] + late[i][w]
    <3>1. Value(i, w) = count[i][w]
      BY <1>1, <1>2, <1>4, <1>6, <2>2
    <3> QED BY <1>1, <1>2, <1>3, <2>2, <3>1
  <2> QED BY <1>2, <1>6, <2>1, <2>2 DEF CounterKept
<1> QED BY <1>5, <1>6 DEF CounterKept

\* The other counters are as before.
LEMMA OthersKept ==
  ASSUME LimitInv, clock' = clock, lost' \in Nat, lost <= lost',
         NEW j \in Ids, NEW x \in Windows,
         count'[j][x] = count[j][x], expires'[j][x] = expires[j][x],
         passed'[j][x] = passed[j][x], late'[j][x] = late[j][x]
  PROVE  CounterKept(j, x)' /\ CountEarned(j, x)' /\ passed'[j][x] <= Limit + late'[j][x]
<1>1. /\ CounterKept(j, x) /\ CountEarned(j, x) /\ passed[j][x] <= Limit + late[j][x]
      /\ count[j][x] \in Nat /\ passed[j][x] \in Nat /\ lost \in Nat /\ Limit \in Nat
  BY LimitAssumption DEF LimitInv, WithinLimit, LTypeOK
<1>2. Deadline(x)' = Deadline(x)
  BY DEF Deadline, TimeToLive, Window
<1>3. CounterKept(j, x)'
  BY <1>1, <1>2 DEF CounterKept
<1>4. CountEarned(j, x)'
  BY <1>1 DEF CountEarned
<1> QED BY <1>1, <1>3, <1>4

\* A request passes: if it is punctual, its counter is kept, so that the limit
\* is checked against every punctual request before it.
LEMMA AdmitKeeps ==
  ASSUME LimitInv, NEW r \in Requests, Admit(r)
  PROVE  LimitInv'
<1>1. LTypeOK /\ pc[r] = "eval" /\ clock' = clock /\ lost' = lost /\ Done(r)
  BY DEF LimitInv, Admit
<1>2. /\ id[r] \in Ids /\ WindowOf(time[r]) \in Windows /\ clock \in Nat
      /\ Punctual(r) => clock < Deadline(WindowOf(time[r]))
  BY <1>1, Evaluating
<1>3. PICK i \in Ids : i = id[r]
  BY <1>2
<1>4. PICK w \in Windows : w = WindowOf(time[r])
  BY <1>2
<1>5. /\ Increment(i, w) /\ Value(i, w) + 1 <= Limit
      /\ passed' = Counted(passed, i, w)
      /\ late' = IF Punctual(r) THEN late ELSE Counted(late, i, w)
  BY <1>3, <1>4 DEF Admit, Allowed
<1>6. /\ Value(i, w) \in Nat /\ Value(i, w) <= count[i][w]
      /\ count' \in [Ids -> [Windows -> Nat]] /\ expires' \in [Ids -> [Windows -> Nat]]
      /\ count'[i][w] = Value(i, w) + 1
      /\ \A j \in Ids, x \in Windows :
           j # i \/ x # w => count'[j][x] = count[j][x] /\ expires'[j][x] = expires[j][x]
  BY <1>1, <1>5, Incremented
<1>7. /\ passed \in [Ids -> [Windows -> Nat]] /\ late \in [Ids -> [Windows -> Nat]]
      /\ count \in [Ids -> [Windows -> Nat]] /\ lost \in Nat /\ Limit \in Nat
      /\ lost' \in 0..MaxLost /\ clock' \in 0..MaxClock
  BY <1>1, LimitAssumption DEF LTypeOK
<1>8. /\ passed' \in [Ids -> [Windows -> Nat]] /\ passed'[i][w] = passed[i][w] + 1
      /\ late' \in [Ids -> [Windows -> Nat]]
      /\ late'[i][w] = IF Punctual(r) THEN late[i][w] ELSE late[i][w] + 1
      /\ \A j \in Ids, x \in Windows :
           j # i \/ x # w => passed'[j][x] = passed[j][x] /\ late'[j][x] = late[j][x]
  <2>1. /\ Counted(passed, i, w) \in [Ids -> [Windows -> Nat]]
        /\ Counted(passed, i, w)[i][w] = passed[i][w] + 1
        /\ \A j \in Ids, x \in Windows :
             j # i \/ x # w => Counted(passed, i, w)[j][x] = passed[j][x]
    BY <1>7, CountedOne
  <2>2. /\ Counted(late, i, w) \in [Ids -> [Windows -> Nat]]
        /\ Counted(late, i, w)[i][w] = late[i][w] + 1
        /\ \A j \in Ids, x \in Windows :
             j # i \/ x # w => Counted(late, i, w)[j][x] = late[j][x]
    BY <1>7, CountedOne
  <2>3. CASE Punctual(r)
    BY <1>5, <1>7, <2>1, <2>3
  <2>4. CASE ~Punctual(r)
    BY <1>5, <1>7, <2>1, <2>2, <2>4
  <2> QED BY <2>3, <2>4
<1>9. /\ count[i][w] \in Nat /\ passed[i][w] \in Nat /\ late[i][w] \in Nat
      /\ expires[i][w] \in Nat
      /\ CounterKept(i, w) /\ CountEarned(i, w) /\ passed[i][w] <= Limit + late[i][w]
  BY <1>1, <1>7 DEF LimitInv, WithinLimit, LTypeOK
<1>10. LTypeOK'
  BY <1>1, <1>6, <1>7, <1>8, DoneKeeps DEF LTypeOK, Windows, WindowOf, Window
<1>11. passed'[i][w] <= Limit + late'[i][w]
  <2>1. CASE ~Punctual(r)
    BY <1>7, <1>8, <1>9, <2>1
  <2>2. CASE Punctual(r)
    <3>1. clock < Deadline(w)
      BY <1>2, <1>4, <2>2
    <3>2. CASE passed[i][w] = 0
      BY <1>5, <1>6, <1>7, <1>8, <1>9, <2>2, <3>2
    <3>3. CASE Deadline(w) <= expires[i][w] /\ passed[i][w] <= count[i][w] + late[i][w]
      <4>1. Deadline(w) \in Nat
        BY <1>1, <1>4, Evaluating
      <4>2. Value(i, w) = count[i][w]
        BY <1>2, <1>9, <3>1, <3>3, <4>1 DEF Value
      <4> QED BY <1>5, <1>7, <1>8, <1>9, <2>2, <3>3, <4>2
    <3> QED BY <1>9, <3>1, <3>2, <3>3 DEF CounterKept
  <2> QED BY <2>1, <2>2
<1>12. CounterKept(i, w)'
  <2>1. /\ passed'[i][w] \in Nat /\ late'[i][w] \in Nat /\ late[i][w] <= late'[i][w]
        /\ passed'[i][w] <= passed[i][w] + 1
    BY <1>8, <1>9
  <2> QED BY <1>1, <1>3, <1>4, <1>5, <2>1, ScriptKeeps
<1>13. CountEarned(i, w)'
  BY <1>1, <1>6, <1>7, <1>8, <1>9 DEF CountEarned
<1>14. \A j \in Ids, x \in Windows :
         CounterKept(j, x)' /\ CountEarned(j, x)' /\ passed'[j][x] <= Limit + late'[j][x]
  <2> TAKE j \in Ids, x \in Windows
  <2>1. CASE j = i /\ x = w
    BY <1>11, <1>12, <1>13, <2>1
  <2>2. CASE j # i \/ x # w
    <3>1. lost' \in Nat /\ lost <= lost'
      BY <1>1, <1>7
    <3> QED BY <1>1, <1>6, <1>8, <2>2, <3>1, OthersKept
  <2> QED BY <2>1, <2>2
<1>15. \A q \in Requests : WaitsLongEnough(q)'
  BY <1>1, DoneWaits DEF LimitInv
<1>16. Windows' = Windows
  BY DEF Windows, WindowOf, Window
<1> QED BY <1>10, <1>14, <1>15, <1>16 DEF LimitInv, WithinLimit

\* A request is rejected: the counter was earned, and the client waits until
\* the next window.
LEMMA RejectKeeps ==
  ASSUME LimitInv, NEW r \in Requests, Reject(r)
  PROVE  LimitInv'
<1>1. /\ LTypeOK /\ pc[r] = "eval"
      /\ UNCHANGED <<clock, id, time, passed, late, lost>>
      /\ pc' = [pc EXCEPT ![r] = "wait"]
      /\ until' = [until EXCEPT ![r] = clock + retry_after(time[r]) * Second]
  BY DEF LimitInv, Reject, history
<1>2. /\ id[r] \in Ids /\ WindowOf(time[r]) \in Windows /\ clock \in Nat
      /\ time[r] \in Nat /\ time[r] <= clock
  BY <1>1, Evaluating
<1>3. PICK i \in Ids : i = id[r]
  BY <1>2
<1>4. PICK w \in Windows : w = WindowOf(time[r])
  BY <1>2
<1>5. Increment(i, w) /\ ~(Value(i, w) + 1 <= Limit)
  BY <1>3, <1>4 DEF Reject, Allowed
<1>6. /\ Value(i, w) \in Nat /\ Value(i, w) <= count[i][w]
      /\ count' \in [Ids -> [Windows -> Nat]] /\ expires' \in [Ids -> [Windows -> Nat]]
      /\ \A j \in Ids, x \in Windows :
           j # i \/ x # w => count'[j][x] = count[j][x] /\ expires'[j][x] = expires[j][x]
  BY <1>1, <1>5, Incremented
<1>7. /\ count[i][w] \in Nat /\ passed[i][w] \in Nat /\ late[i][w] \in Nat /\ lost \in Nat
      /\ Limit \in Nat
      /\ CounterKept(i, w) /\ CountEarned(i, w) /\ passed[i][w] <= Limit + late[i][w]
  BY <1>1, LimitAssumption DEF LimitInv, WithinLimit, LTypeOK
<1>8. /\ retry_after(time[r]) * Second \in Nat
      /\ retry_after(time[r]) * Second <= Window
      /\ (WindowOf(time[r]) + 1) * Window <= time[r] + retry_after(time[r]) * Second
      /\ (WindowOf(time[r]) + 1) * Window \in Nat
  <2>1. /\ WindowOf(time[r]) * Window \in Nat /\ Window \in Nat
        /\ (WindowOf(time[r]) + 1) * Window = WindowOf(time[r]) * Window + Window
    BY <1>2, WindowBounds, WindowPositive
  <2>2. (WindowOf(time[r]) + 1) * Window \in Nat
    BY <2>1
  <2> QED BY <1>2, <2>2, RetryAfterBounds
<1> DEFINE back == clock + retry_after(time[r]) * Second
           start == (WindowOf(time[r]) + 1) * Window
<1>9. back \in Nat /\ back <= clock + Window /\ start <= back
  <2> HIDE DEF start
  <2>1. start \in Nat /\ start <= time[r] + retry_after(time[r]) * Second
    BY <1>8 DEF start
  <2> QED BY <1>2, <1>8, <2>1, WindowPositive
<1> HIDE DEF back
<1>10. until' = [until EXCEPT ![r] = back]
  BY <1>1 DEF back
<1>11. LTypeOK'
  <2>1. /\ pc' \in [Requests -> {"idle", "eval", "wait"}] /\ until' \in [Requests -> Nat]
        /\ \A q \in Requests : q # r => pc'[q] = pc[q] /\ until'[q] = until[q]
        /\ until'[r] = back
    BY <1>1, <1>9, <1>10 DEF LTypeOK
  <2>2. \A q \in Requests : /\ time'[q] <= clock' /\ until'[q] <= clock' + Window
                            /\ pc'[q] # "idle" => id'[q] \in Ids
    BY <1>1, <1>2, <1>9, <2>1 DEF LTypeOK
  <2>3. Windows' = Windows /\ Window' = Window
    BY DEF Windows, WindowOf, Window
  <2> QED BY <1>1, <1>6, <2>1, <2>2, <2>3 DEF LTypeOK
<1>12. CounterKept(i, w)'
  <2>1. /\ passed'[i][w] \in Nat /\ late'[i][w] \in Nat /\ late[i][w] <= late'[i][w]
        /\ passed'[i][w] <= passed[i][w] + 1
    BY <1>1, <1>7
  <2> QED BY <1>1, <1>3, <1>4, <1>5, <2>1, ScriptKeeps
<1>13. CountEarned(i, w)'
  BY <1>1, <1>5, <1>6, <1>7 DEF CountEarned
<1>14. \A j \in Ids, x \in Windows :
         CounterKept(j, x)' /\ CountEarned(j, x)' /\ passed'[j][x] <= Limit + late'[j][x]
  <2> TAKE j \in Ids, x \in Windows
  <2>1. CASE j = i /\ x = w
    BY <1>1, <1>7, <1>12, <1>13, <2>1
  <2>2. CASE j # i \/ x # w
    <3>1. lost' \in Nat /\ lost <= lost'
      BY <1>1, <1>7
    <3> QED BY <1>1, <1>6, <2>2, <3>1, OthersKept
  <2> QED BY <2>1, <2>2
<1>15. ASSUME NEW q \in Requests PROVE WaitsLongEnough(q)'
  <2>1. CASE q = r
    <3>1. until'[q] = back /\ time'[q] = time[r]
      BY <1>1, <1>10, <2>1 DEF LTypeOK
    <3> QED BY <1>9, <3>1 DEF WaitsLongEnough, WindowOf, Window
  <2>2. CASE q # r
    <3>1. pc'[q] = pc[q] /\ time'[q] = time[q] /\ until'[q] = until[q] /\ WaitsLongEnough(q)
      BY <1>1, <2>2 DEF LTypeOK, LimitInv
    <3> QED BY <3>1 DEF WaitsLongEnough, WindowOf, Window
  <2> QED BY <2>1, <2>2
<1>16. Windows' = Windows
  BY DEF Windows, WindowOf, Window
<1> QED BY <1>11, <1>14, <1>15, <1>16 DEF LimitInv, WithinLimit

\* The script runs and its reply is lost: the counter grows, and so does lost.
LEMMA LoseReplyKeeps ==
  ASSUME LimitInv, NEW r \in Requests, LoseReply(r)
  PROVE  LimitInv'
<1>1. /\ LTypeOK /\ pc[r] = "eval" /\ lost < MaxLost /\ lost' = lost + 1
      /\ UNCHANGED <<clock, pc, id, time, until, passed, late>>
  BY DEF LimitInv, LoseReply
<1>2. id[r] \in Ids /\ WindowOf(time[r]) \in Windows
  BY <1>1, Evaluating
<1>3. PICK i \in Ids : i = id[r]
  BY <1>2
<1>4. PICK w \in Windows : w = WindowOf(time[r])
  BY <1>2
<1>5. Increment(i, w)
  BY <1>3, <1>4 DEF LoseReply
<1>6. /\ Value(i, w) \in Nat /\ Value(i, w) <= count[i][w]
      /\ count' \in [Ids -> [Windows -> Nat]] /\ expires' \in [Ids -> [Windows -> Nat]]
      /\ count'[i][w] = Value(i, w) + 1
      /\ \A j \in Ids, x \in Windows :
           j # i \/ x # w => count'[j][x] = count[j][x] /\ expires'[j][x] = expires[j][x]
  BY <1>1, <1>5, Incremented
<1>7. /\ count[i][w] \in Nat /\ passed[i][w] \in Nat /\ late[i][w] \in Nat /\ lost \in Nat
      /\ Limit \in Nat /\ MaxLost \in Nat
      /\ CountEarned(i, w) /\ passed[i][w] <= Limit + late[i][w]
  BY <1>1, LimitAssumption DEF LimitInv, WithinLimit, LTypeOK
<1>8. LTypeOK'
  <2>1. lost' \in 0..MaxLost
    BY <1>1, <1>7
  <2> QED BY <1>1, <1>6, <2>1 DEF LTypeOK, Windows, WindowOf, Window
<1>9. CounterKept(i, w)'
  <2>1. /\ passed'[i][w] \in Nat /\ late'[i][w] \in Nat /\ late[i][w] <= late'[i][w]
        /\ passed'[i][w] <= passed[i][w] + 1
    BY <1>1, <1>7
  <2> QED BY <1>1, <1>3, <1>4, <1>5, <2>1, ScriptKeeps
<1>10. CountEarned(i, w)'
  BY <1>1, <1>6, <1>7 DEF CountEarned
<1>11. \A j \in Ids, x \in Windows :
         CounterKept(j, x)' /\ CountEarned(j, x)' /\ passed'[j][x] <= Limit + late'[j][x]
  <2> TAKE j \in Ids, x \in Windows
  <2>1. CASE j = i /\ x = w
    BY <1>1, <1>7, <1>9, <1>10, <2>1
  <2>2. CASE j # i \/ x # w
    <3>1. lost' \in Nat /\ lost <= lost'
      BY <1>1, <1>7
    <3> QED BY <1>1, <1>6, <2>2, <3>1, OthersKept
  <2> QED BY <2>1, <2>2
<1>12. \A q \in Requests : WaitsLongEnough(q)'
  BY <1>1 DEF WaitsLongEnough, WindowOf, Window, LimitInv
<1>13. Windows' = Windows
  BY DEF Windows, WindowOf, Window
<1> QED BY <1>8, <1>11, <1>12, <1>13 DEF LimitInv, WithinLimit

-----------------------------------------------------------------------------
(* Theorems. *)

\* LimitInv holds for any limit, window, number of requests, lost replies and
\* delays (FixedWindowRateLimiter).
THEOREM LimitCorrect == Spec => []LimitInv
<1>1. Init => LimitInv
  BY InitLimit
<1>2. LimitInv /\ [Next]_vars => LimitInv'
  <2> SUFFICES ASSUME LimitInv, [Next]_vars PROVE LimitInv'
    OBVIOUS
  <2>1. CASE UNCHANGED vars
    BY <2>1 DEF vars, LimitInv, LTypeOK, WithinLimit, CounterKept, CountEarned,
                WaitsLongEnough, Deadline, TimeToLive, Windows, WindowOf, Window
  <2>2. CASE Tick
    BY <2>2, TickKeeps
  <2>3. ASSUME NEW r \in Requests, NEW i \in Ids, ReadClock(r, i) PROVE LimitInv'
    BY <2>3, ReadClockKeeps
  <2>4. ASSUME NEW r \in Requests, Admit(r) \/ Reject(r) \/ LoseReply(r) \/ Fail(r) \/ Retry(r)
        PROVE  LimitInv'
    BY <2>4, AdmitKeeps, RejectKeeps, LoseReplyKeeps, FailKeeps, RetryKeeps
  <2> QED
    BY <2>1, <2>2, <2>3, <2>4 DEF Next
<1> QED
  BY <1>1, <1>2, PTL DEF Spec

\* Type correctness of RateLimit: no client is sent away for longer than a
\* window (check).
THEOREM LimitTypes == Spec => []LTypeOK
<1>1. LimitInv => LTypeOK
  BY DEF LimitInv
<1> QED
  BY <1>1, LimitCorrect, PTL

\* A window lets its limit of punctual requests through and no more (check).
THEOREM LimitKept == Spec => []WithinLimit
<1>1. LimitInv => WithinLimit
  BY DEF LimitInv
<1> QED
  BY <1>1, LimitCorrect, PTL

\* enforce raises 429 only when the identifier has used up its window.
THEOREM RejectedOnlyWhenFull == Spec => NoEarlyRejection
<1> DEFINE Full ==
      \A r \in Requests :
        pc[r] = "eval" /\ pc'[r] = "wait" =>
          passed[id[r]][WindowOf(time[r])] + lost >= Limit
<1>1. LimitInv /\ [Next]_vars => [Full]_vars
  <2> SUFFICES ASSUME LimitInv, Next, NEW r \in Requests, pc[r] = "eval", pc'[r] = "wait"
               PROVE  passed[id[r]][WindowOf(time[r])] + lost >= Limit
    OBVIOUS
  <2>1. Reject(r)
    BY DEF Next, Tick, ReadClock, Admit, Reject, LoseReply, Fail, Retry, Done, LimitInv, LTypeOK
  <2>2. LTypeOK /\ id[r] \in Ids /\ WindowOf(time[r]) \in Windows
    BY Evaluating DEF LimitInv
  <2>3. PICK i \in Ids : i = id[r]
    BY <2>2
  <2>4. PICK w \in Windows : w = WindowOf(time[r])
    BY <2>2
  <2>5. Increment(i, w) /\ ~(Value(i, w) + 1 <= Limit)
    BY <2>1, <2>3, <2>4 DEF Reject, Allowed
  <2>6. Value(i, w) \in Nat /\ Value(i, w) <= count[i][w]
    BY <2>2, <2>5, Incremented
  <2>7. /\ count[i][w] \in Nat /\ passed[i][w] \in Nat /\ lost \in Nat /\ Limit \in Nat
        /\ CountEarned(i, w)
    BY <2>2, LimitAssumption DEF LTypeOK, LimitInv
  <2>8. passed[i][w] + lost >= Limit
    BY <2>5, <2>6, <2>7 DEF CountEarned
  <2> QED BY <2>3, <2>4, <2>8
<1> QED
  BY <1>1, LimitCorrect, PTL DEF Spec, NoEarlyRejection

\* A client that heeds Retry-After comes back in a later window, and a second
\* less would be too early (check, enforce).
THEOREM RetryAfterIsExact == Spec => RetryAfterExact
<1> DEFINE Exact ==
      \A r \in Requests :
        /\ pc[r] = "wait" /\ pc'[r] = "eval" => WindowOf(time'[r]) > WindowOf(time[r])
        /\ pc[r] = "eval" /\ pc'[r] = "wait" =>
             WindowOf(time[r] + (retry_after(time[r]) - 1) * Second) = WindowOf(time[r])
<1>1. LimitInv /\ [Next]_vars => [Exact]_vars
  <2> SUFFICES ASSUME LimitInv, Next, NEW r \in Requests
               PROVE  /\ pc[r] = "wait" /\ pc'[r] = "eval" => WindowOf(time'[r]) > WindowOf(time[r])
                      /\ pc[r] = "eval" /\ pc'[r] = "wait" =>
                           WindowOf(time[r] + (retry_after(time[r]) - 1) * Second)
                             = WindowOf(time[r])
    OBVIOUS
  <2>1. time[r] \in Nat /\ clock \in Nat /\ until[r] \in Nat
    BY LimitAssumption DEF LimitInv, LTypeOK
  <2>2. ASSUME pc[r] = "wait", pc'[r] = "eval"
        PROVE  WindowOf(time'[r]) > WindowOf(time[r])
    <3>1. Retry(r)
      BY <2>2 DEF Next, Tick, ReadClock, Admit, Reject, LoseReply, Fail, Retry, Done, LimitInv,
                  LTypeOK
    <3>2. time'[r] = clock /\ until[r] <= clock
      BY <2>1, <3>1 DEF Retry, LimitInv, LTypeOK
    <3>3. (WindowOf(time[r]) + 1) * Window <= until[r]
      BY <2>2 DEF LimitInv, WaitsLongEnough
    <3>4. (WindowOf(time[r]) + 1) * Window \in Nat
      <4>1. /\ WindowOf(time[r]) * Window \in Nat /\ Window \in Nat
            /\ (WindowOf(time[r]) + 1) * Window = WindowOf(time[r]) * Window + Window
        BY <2>1, WindowBounds, WindowPositive
      <4> QED BY <4>1
    <3>5. (WindowOf(time[r]) + 1) * Window <= clock
      BY <2>1, <3>2, <3>3, <3>4
    <3> QED BY <2>1, <3>2, <3>5, LaterWindow
  <2>3. WindowOf(time[r] + (retry_after(time[r]) - 1) * Second) = WindowOf(time[r])
    BY <2>1, RetryAfterBounds
  <2> QED BY <2>2, <2>3
<1> QED
  BY <1>1, LimitCorrect, PTL DEF Spec, RetryAfterExact

=============================================================================
