----------------------------- MODULE UsageProofs -----------------------------
(***************************************************************************)
(* Billing periods and the quota, for every calendar, plan, quota and      *)
(* number of concurrent requests.                                          *)
(***************************************************************************)
EXTENDS UsageQuota, FiniteSetTheorems, WellFoundedInduction, TLAPS

-----------------------------------------------------------------------------
(* Recursion and induction over a measure. *)

\* A nonempty set of numbers has a least one.
LEMMA LeastNumber ==
  ASSUME NEW I \in SUBSET Nat, I # {}
  PROVE  \E n \in I : \A m \in I : n <= m
<1> DEFINE R == OpToRel(<, Nat)
<1>1. \E x \in I : \A y \in I : ~ (<<y, x>> \in R)
  <2>1. IsWellFoundedOn(R, Nat)
    BY NatLessThanWellFounded
  <2> HIDE DEF R
  <2> QED BY <2>1, WFMin
<1>2. ASSUME NEW x \in I, NEW y \in I, ~ (<<y, x>> \in R)
      PROVE  x <= y
  <2>1. <<y, x>> \in Nat \X Nat => ~ (y < x)
    BY <1>2 DEF OpToRel
  <2> QED BY <2>1
<1> QED BY <1>1, <1>2

\* So what fails for some argument fails for one of least measure.
LEMMA LeastFailure ==
  ASSUME NEW D, NEW mu \in [D -> Nat], NEW T \in SUBSET D, T # {}
  PROVE  \E x \in T : \A y \in T : mu[x] <= mu[y]
<1> DEFINE I == {mu[x] : x \in T}
<1>1. I \in SUBSET Nat /\ I # {}
  OBVIOUS
<1>2. PICK n \in I : \A m \in I : n <= m
  BY <1>1, LeastNumber
<1> QED BY <1>2

\* A function defined by recursion: base on B, elsewhere G of the value at an
\* argument pre[d] of smaller measure.
GetsSmaller(D, S, B, base, pre, G, mu) ==
  /\ base \in [D -> S] /\ pre \in [D -> D] /\ G \in [D -> [S -> S]] /\ mu \in [D -> Nat]
  /\ \A d \in D : d \notin B => mu[pre[d]] < mu[d]
Solves(f, D, B, base, pre, G) ==
  \A d \in D : f[d] = IF d \in B THEN base[d] ELSE G[d][f[pre[d]]]

LEMMA RecursiveFunction ==
  ASSUME NEW D, NEW S, NEW B, NEW base, NEW pre, NEW G, NEW mu,
         GetsSmaller(D, S, B, base, pre, G, mu)
  PROVE  \E f \in [D -> S] : Solves(f, D, B, base, pre, G)
<1> USE DEF GetsSmaller
<1> DEFINE Closed(X) == /\ \A d \in D : d \in B => <<d, base[d]>> \in X
                        /\ \A d \in D : \A v \in S :
                             d \notin B /\ <<pre[d], v>> \in X => <<d, G[d][v]>> \in X
           R == {x \in D \X S : \A X \in SUBSET (D \X S) : Closed(X) => x \in X}
           Known(d) == \E v \in S : <<d, v>> \in R
           Unique(d) == \A v, w \in S : <<d, v>> \in R /\ <<d, w>> \in R => v = w
<1>1. Closed(R)
  <2>1. ASSUME NEW d \in D, d \in B PROVE <<d, base[d]>> \in R
    BY <2>1
  <2>2. ASSUME NEW d \in D, NEW v \in S, d \notin B, <<pre[d], v>> \in R
        PROVE  <<d, G[d][v]>> \in R
    <3>1. <<d, G[d][v]>> \in D \X S
      OBVIOUS
    <3>2. ASSUME NEW X \in SUBSET (D \X S), Closed(X) PROVE <<d, G[d][v]>> \in X
      BY <2>2, <3>2
    <3> QED BY <3>1, <3>2
  <2> QED BY <2>1, <2>2
<1>2. ASSUME NEW X \in SUBSET (D \X S), Closed(X) PROVE R \subseteq X
  BY <1>2
<1> R \in SUBSET (D \X S)
  OBVIOUS
<1> HIDE DEF R
<1>3. \A d \in D : Known(d)
  <2>1. SUFFICES ASSUME {d \in D : ~ Known(d)} # {} PROVE FALSE
    OBVIOUS
  <2>2. PICK d \in D : ~ Known(d) /\ \A c \in D : ~ Known(c) => mu[d] <= mu[c]
    <3> DEFINE T == {c \in D : ~ Known(c)}
    <3>1. PICK x \in T : \A y \in T : mu[x] <= mu[y]
      BY <2>1, LeastFailure
    <3> QED BY <3>1
  <2>3. CASE d \in B
    BY <1>1, <2>2, <2>3
  <2>4. CASE d \notin B
    <3>1. mu[pre[d]] < mu[d] /\ mu[d] \in Nat /\ mu[pre[d]] \in Nat /\ pre[d] \in D
      BY <2>4
    <3>2. Known(pre[d])
      <4> HIDE DEF Known
      <4> QED BY <2>2, <3>1
    <3>2a. PICK v \in S : <<pre[d], v>> \in R
      BY <3>2
    <3>3. <<d, G[d][v]>> \in R /\ G[d][v] \in S
      BY <1>1, <2>4, <3>2a
    <3> QED BY <2>2, <3>3
  <2> QED BY <2>3, <2>4
<1>4. ASSUME NEW d \in D, d \notin B => Unique(pre[d])
      PROVE  \A v \in S : <<d, v>> \in R =>
               IF d \in B THEN v = base[d]
               ELSE \E u \in S : <<pre[d], u>> \in R /\ v = G[d][u]
  <2> DEFINE Right(v) == IF d \in B THEN v = base[d]
                         ELSE \E u \in S : <<pre[d], u>> \in R /\ v = G[d][u]
             X == {x \in R : x[1] = d => Right(x[2])}
  <2>1. X \in SUBSET (D \X S)
    OBVIOUS
  <2>2. \A c \in D : c \in B => <<c, base[c]>> \in X
    BY <1>1
  <2>3. ASSUME NEW c \in D, NEW v \in S, c \notin B, <<pre[c], v>> \in X
        PROVE  <<c, G[c][v]>> \in X
    <3>1. <<pre[c], v>> \in R
      BY <2>3
    <3>2. <<c, G[c][v]>> \in R
      BY <1>1, <2>3, <3>1
    <3> QED BY <2>3, <3>1, <3>2
  <2>4. R \subseteq X
    <3> HIDE DEF X
    <3> QED BY <1>2, <2>1, <2>2, <2>3
  <2> QED BY <2>4
<1>5. \A d \in D : Unique(d)
  <2>1. SUFFICES ASSUME {d \in D : ~ Unique(d)} # {} PROVE FALSE
    OBVIOUS
  <2>2. PICK d \in D : ~ Unique(d) /\ \A c \in D : ~ Unique(c) => mu[d] <= mu[c]
    <3> DEFINE T == {c \in D : ~ Unique(c)}
    <3> HIDE DEF Unique
    <3>1. PICK x \in T : \A y \in T : mu[x] <= mu[y]
      BY <2>1, LeastFailure
    <3> QED BY <3>1
  <2>3. d \notin B => Unique(pre[d])
    <3>1. d \notin B => mu[pre[d]] < mu[d] /\ mu[d] \in Nat /\ mu[pre[d]] \in Nat /\ pre[d] \in D
      OBVIOUS
    <3> HIDE DEF Unique
    <3> QED BY <2>2, <3>1
  <2>4. Unique(d)
    <3>1. CASE d \in B
      BY <1>4, <3>1
    <3>2. CASE d \notin B
      <4>1. Unique(pre[d]) /\ pre[d] \in D
        BY <2>3, <3>2
      <4>2. ASSUME NEW v \in S, <<d, v>> \in R
            PROVE  \E u \in S : <<pre[d], u>> \in R /\ v = G[d][u]
        BY <1>4, <2>3, <3>2, <4>2
      <4> QED BY <4>1, <4>2
    <3> QED BY <3>1, <3>2
  <2> QED BY <2>2, <2>4
<1> DEFINE f == [d \in D |-> CHOOSE v \in S : <<d, v>> \in R]
<1>6. ASSUME NEW d \in D PROVE <<d, f[d]>> \in R /\ f[d] \in S
  BY <1>3
<1>7. f \in [D -> S]
  BY <1>6
<1>8. ASSUME NEW d \in D
      PROVE  f[d] = IF d \in B THEN base[d] ELSE G[d][f[pre[d]]]
  <2> HIDE DEF f
  <2>1. pre[d] \in D
    OBVIOUS
  <2>2. <<d, f[d]>> \in R /\ f[d] \in S /\ Unique(d)
    BY <1>5, <1>6
  <2>3. CASE d \in B
    <3>1. <<d, base[d]>> \in R /\ base[d] \in S
      BY <1>1, <2>3
    <3>2. f[d] = base[d]
      BY <2>2, <3>1
    <3> QED BY <2>3, <3>2
  <2>4. CASE d \notin B
    <3>1. <<pre[d], f[pre[d]]>> \in R /\ f[pre[d]] \in S
      BY <1>6, <2>1
    <3>2. <<d, G[d][f[pre[d]]]>> \in R /\ G[d][f[pre[d]]] \in S
      BY <1>1, <2>4, <3>1
    <3>3. f[d] = G[d][f[pre[d]]]
      BY <2>2, <3>2
    <3> QED BY <2>4, <3>3
  <2> QED BY <2>3, <2>4
<1> QED BY <1>7, <1>8 DEF Solves

-----------------------------------------------------------------------------
(* The calendar. *)

USE CalendarAssumption

LEMMA MonthLengthPositive ==
  ASSUME NEW m \in Nat
  PROVE  MonthLength(m) \in Nat /\ MonthLength(m) > 0
<1>1. Len(MonthLengths) \in Nat /\ Len(MonthLengths) > 0
  OBVIOUS
<1>2. m % Len(MonthLengths) \in 0..(Len(MonthLengths) - 1)
  BY <1>1
<1> QED BY <1>1, <1>2 DEF MonthLength

LEMMA FirstDayDef ==
  /\ FirstDay \in [Nat -> Nat]
  /\ FirstDay[0] = 0
  /\ \A m \in Nat : FirstDay[m + 1] = FirstDay[m] + MonthLength(m)
<1> DEFINE Eq(f) == f = [m \in Nat |-> IF m = 0 THEN 0 ELSE f[m - 1] + MonthLength(m - 1)]
<1>1. \E f \in [Nat -> Nat] : Eq(f)
  <2> DEFINE base == [m \in Nat |-> 0]
             pre == [m \in Nat |-> IF m = 0 THEN 0 ELSE m - 1]
             mu == [m \in Nat |-> m]
             B == {0}
             G == [m \in Nat |-> [v \in Nat |-> IF m = 0 THEN 0 ELSE v + MonthLength(m - 1)]]
  <2>1. G \in [Nat -> [Nat -> Nat]]
    <3>1. ASSUME NEW m \in Nat, NEW v \in Nat
          PROVE  (IF m = 0 THEN 0 ELSE v + MonthLength(m - 1)) \in Nat
      <4>1. CASE m = 0
        BY <4>1
      <4>2. CASE m # 0
        <5>1. m - 1 \in Nat
          BY <4>2
        <5>2. MonthLength(m - 1) \in Nat
          BY <5>1, MonthLengthPositive
        <5> QED BY <4>2, <5>2
      <4> QED BY <4>1, <4>2
    <3> QED BY <3>1
  <2>2. GetsSmaller(Nat, Nat, B, base, pre, G, mu)
    <3>1. base \in [Nat -> Nat] /\ pre \in [Nat -> Nat] /\ mu \in [Nat -> Nat]
      OBVIOUS
    <3>2. \A m \in Nat : m \notin B => mu[pre[m]] < mu[m]
      OBVIOUS
    <3> HIDE DEF base, pre, mu, G, B
    <3> QED BY <2>1, <3>1, <3>2 DEF GetsSmaller
  <2>3. PICK f \in [Nat -> Nat] : Solves(f, Nat, B, base, pre, G)
    <3> HIDE DEF base, pre, mu, G, B
    <3> QED BY <2>2, RecursiveFunction
  <2>6. ASSUME NEW m \in Nat PROVE f[m] = IF m = 0 THEN 0 ELSE f[m - 1] + MonthLength(m - 1)
    <3>0. f[m] = IF m \in B THEN base[m] ELSE G[m][f[pre[m]]]
      <4> HIDE DEF base, pre, mu, G, B
      <4> QED BY <2>3 DEF Solves
    <3>1. CASE m = 0
      BY <3>0, <3>1
    <3>2. CASE m # 0
      <4>1. pre[m] = m - 1 /\ m - 1 \in Nat /\ m \notin B
        BY <3>2
      <4>2. f[m - 1] \in Nat
        BY <4>1
      <4>3. G[m][f[m - 1]] = f[m - 1] + MonthLength(m - 1)
        BY <4>2, <3>2
      <4>4. f[m] = G[m][f[m - 1]]
        <5> HIDE DEF base, pre, mu, G, B
        <5> QED BY <3>0, <4>1
      <4> QED BY <3>2, <4>3, <4>4
    <3> QED BY <3>1, <3>2
  <2>7. f = [m \in Nat |-> IF m = 0 THEN 0 ELSE f[m - 1] + MonthLength(m - 1)]
    BY <2>6
  <2> QED BY <2>7
<1>2. FirstDay = CHOOSE f : Eq(f)
  BY DEF FirstDay
<1>3. Eq(FirstDay)
  <2>1. \E f : Eq(f)
    BY <1>1
  <2> HIDE DEF Eq
  <2> QED BY <1>2, <2>1, Zenon
<1>4. ASSUME NEW m \in Nat
      PROVE  FirstDay[m] = IF m = 0 THEN 0 ELSE FirstDay[m - 1] + MonthLength(m - 1)
  <2>1. PICK f : f = FirstDay
    OBVIOUS
  <2>2. Eq(f)
    BY <1>3, <2>1
  <2> QED BY <2>1, <2>2
<1>5. ASSUME NEW m \in Nat PROVE FirstDay[m + 1] = FirstDay[m] + MonthLength(m)
  <2>1. m + 1 \in Nat /\ m + 1 # 0 /\ (m + 1) - 1 = m
    OBVIOUS
  <2> QED BY <1>4, <2>1
<1>6. \A m \in Nat : FirstDay[m] \in Nat
  <2> DEFINE T == {m \in Nat : FirstDay[m] \notin Nat}
  <2>1. SUFFICES ASSUME T # {} PROVE FALSE
    OBVIOUS
  <2>2. PICK n \in T : \A m \in T : n <= m
    BY <2>1, LeastNumber
  <2>3. n # 0
    BY <1>4, <2>2
  <2>4. n - 1 \in Nat /\ FirstDay[n - 1] \in Nat
    BY <2>2, <2>3
  <2>5. FirstDay[n] = FirstDay[n - 1] + MonthLength(n - 1)
    BY <1>4, <2>3
  <2>6. MonthLength(n - 1) \in Nat
    BY <2>4, MonthLengthPositive
  <2> QED BY <2>2, <2>4, <2>5, <2>6
<1>7. FirstDay = [m \in Nat |-> FirstDay[m]]
  <2>1. PICK f : f = FirstDay
    OBVIOUS
  <2>2. Eq(f)
    BY <1>3, <2>1
  <2>3. f = [m \in Nat |-> f[m]]
    BY <2>2
  <2> QED BY <2>1, <2>3
<1>8. FirstDay \in [Nat -> Nat]
  BY <1>6, <1>7
<1> QED BY <1>4, <1>5, <1>8

LEMMA MonthFacts ==
  ASSUME NEW m \in Nat
  PROVE  /\ m + 1 \in Nat /\ FirstDay[m] \in Nat /\ FirstDay[m + 1] \in Nat
         /\ MonthLength(m) \in Nat /\ MonthLength(m) > 0
         /\ FirstDay[m + 1] = FirstDay[m] + MonthLength(m)
         /\ FirstDay[m + 1] >= FirstDay[m] + 1
<1>1. m + 1 \in Nat
  OBVIOUS
<1>2. FirstDay[m] \in Nat /\ FirstDay[m + 1] \in Nat
  BY <1>1, FirstDayDef
<1>3. MonthLength(m) \in Nat /\ MonthLength(m) > 0
  BY MonthLengthPositive
<1>4. FirstDay[m + 1] = FirstDay[m] + MonthLength(m)
  BY FirstDayDef
<1> QED BY <1>1, <1>2, <1>3, <1>4

\* Months follow each other, and each has a day.
LEMMA FirstDayGrows ==
  /\ \A n \in Nat : n <= FirstDay[n]
  /\ \A m, n \in Nat : m < n => FirstDay[m + 1] <= FirstDay[n]
<1>0. \A m \in Nat : /\ FirstDay[m] \in Nat /\ FirstDay[m + 1] \in Nat
                     /\ FirstDay[m + 1] >= FirstDay[m] + 1
  BY MonthFacts
<1>1. \A n \in Nat : n <= FirstDay[n]
  <2> DEFINE T == {n \in Nat : ~ (n <= FirstDay[n])}
  <2>1. SUFFICES ASSUME T # {} PROVE FALSE
    OBVIOUS
  <2>2. PICK n \in T : \A m \in T : n <= m
    BY <2>1, LeastNumber
  <2>3. n # 0
    BY <2>2, FirstDayDef
  <2>4. n - 1 \in Nat /\ n - 1 <= FirstDay[n - 1] /\ (n - 1) + 1 = n
    BY <2>2, <2>3
  <2>5. FirstDay[n - 1] \in Nat /\ FirstDay[n] \in Nat /\ FirstDay[n] >= FirstDay[n - 1] + 1
    BY <1>0, <2>4
  <2> QED BY <2>2, <2>4, <2>5
<1>2. ASSUME NEW m \in Nat PROVE \A n \in Nat : m < n => FirstDay[m + 1] <= FirstDay[n]
  <2> DEFINE T == {n \in Nat : m < n /\ ~ (FirstDay[m + 1] <= FirstDay[n])}
  <2>1. SUFFICES ASSUME T # {} PROVE FALSE
    OBVIOUS
  <2>2. PICK n \in T : \A k \in T : n <= k
    BY <2>1, LeastNumber
  <2>3. n # m + 1 /\ m < n /\ m + 1 \in Nat
    <3>0. FirstDay[m + 1] \in Nat /\ m + 1 \in Nat
      BY <1>0
    <3>1. FirstDay[m + 1] <= FirstDay[m + 1]
      BY <3>0
    <3>2. n = m + 1 => FirstDay[n] = FirstDay[m + 1]
      OBVIOUS
    <3> QED BY <2>2, <3>0, <3>1, <3>2
  <2>4. n - 1 \in Nat /\ m < n - 1 /\ (n - 1) + 1 = n
    BY <2>2, <2>3
  <2>5. FirstDay[m + 1] <= FirstDay[n - 1]
    BY <2>2, <2>4
  <2>6. FirstDay[n - 1] \in Nat /\ FirstDay[n] \in Nat /\ FirstDay[n] >= FirstDay[n - 1] + 1
    BY <1>0, <2>4
  <2>7. FirstDay[m + 1] \in Nat
    BY <1>0
  <2> QED BY <2>2, <2>5, <2>6, <2>7
<1> QED BY <1>1, <1>2

\* Every day is in exactly one month.
LEMMA MonthFound ==
  ASSUME NEW t \in Nat
  PROVE  /\ MonthOf(t) \in Nat
         /\ FirstDay[MonthOf(t)] <= t /\ t < FirstDay[MonthOf(t) + 1]
<1> DEFINE I == {m \in Nat : t < FirstDay[m]}
<1>1. t + 1 \in I
  BY FirstDayGrows, FirstDayDef
<1>2. PICK n \in I : \A m \in I : n <= m
  BY <1>1, LeastNumber
<1>3. n # 0
  BY <1>2, FirstDayDef
<1>4. n - 1 \in Nat /\ (n - 1) + 1 = n /\ FirstDay[n - 1] \in Nat /\ n - 1 \notin I
  <2>1. n - 1 \in Nat /\ (n - 1) + 1 = n
    BY <1>2, <1>3
  <2>2. n - 1 \notin I
    BY <1>2, <2>1
  <2> QED BY <2>1, <2>2, MonthFacts
<1>5. FirstDay[n - 1] <= t /\ t < FirstDay[(n - 1) + 1]
  BY <1>2, <1>4
<1>6. n - 1 \in 0..t
  BY <1>4, <1>5, FirstDayGrows
<1>7. \E m \in 0..t : FirstDay[m] <= t /\ t < FirstDay[m + 1]
  BY <1>5, <1>6
<1> QED BY <1>7 DEF MonthOf

LEMMA MonthUnique ==
  ASSUME NEW t \in Nat, NEW m \in Nat, FirstDay[m] <= t, t < FirstDay[m + 1]
  PROVE  MonthOf(t) = m
<1> DEFINE k == MonthOf(t)
<1>1. k \in Nat /\ FirstDay[k] <= t /\ t < FirstDay[k + 1]
  BY MonthFound
<1>2. /\ FirstDay[k] \in Nat /\ FirstDay[k + 1] \in Nat
      /\ FirstDay[m] \in Nat /\ FirstDay[m + 1] \in Nat
  BY <1>1, MonthFacts
<1> HIDE DEF k
<1>3. ~ (k < m)
  <2>1. k < m => FirstDay[k + 1] <= FirstDay[m]
    BY <1>1, FirstDayGrows
  <2> QED BY <1>1, <1>2, <2>1
<1>4. ~ (m < k)
  <2>1. m < k => FirstDay[m + 1] <= FirstDay[k]
    BY <1>1, FirstDayGrows
  <2> QED BY <1>1, <1>2, <2>1
<1>5. k = m
  BY <1>1, <1>3, <1>4
<1> QED BY <1>5 DEF k

\* add_month goes to the next month, never beyond it and never back.
LEMMA AddMonthNext ==
  ASSUME NEW t \in Nat
  PROVE  /\ AddMonth(t) \in Nat /\ t < AddMonth(t)
         /\ MonthOf(AddMonth(t)) = MonthOf(t) + 1
<1> DEFINE k == MonthOf(t)
<1>1. k \in Nat /\ k + 1 \in Nat /\ FirstDay[k] <= t /\ t < FirstDay[k + 1]
  BY MonthFound, MonthFacts
<1>2. /\ MonthLength(k + 1) \in Nat /\ MonthLength(k + 1) > 0
      /\ FirstDay[k] \in Nat /\ FirstDay[k + 1] \in Nat /\ FirstDay[(k + 1) + 1] \in Nat
      /\ FirstDay[(k + 1) + 1] = FirstDay[k + 1] + MonthLength(k + 1)
  BY <1>1, MonthFacts
<1>3. AddMonth(t) = FirstDay[k + 1] + Least(t - FirstDay[k], MonthLength(k + 1) - 1)
  BY DEF AddMonth
<1> HIDE DEF k
<1>4. Least(t - FirstDay[k], MonthLength(k + 1) - 1) \in 0..(MonthLength(k + 1) - 1)
  <2>1. PICK a \in Nat : a = t - FirstDay[k]
    BY <1>1, <1>2
  <2>2. PICK b \in Nat : b = MonthLength(k + 1) - 1
    BY <1>2
  <2>3. Least(a, b) \in 0..b
    BY DEF Least
  <2> QED BY <2>1, <2>2, <2>3
<1>5. AddMonth(t) \in Nat /\ FirstDay[k + 1] <= AddMonth(t) /\ AddMonth(t) < FirstDay[(k + 1) + 1]
  BY <1>2, <1>3, <1>4
<1>6. MonthOf(AddMonth(t)) = k + 1
  BY <1>1, <1>5, MonthUnique
<1>7. t < AddMonth(t)
  BY <1>1, <1>2, <1>5
<1> QED BY <1>5, <1>6, <1>7 DEF k

LEMMA AddMonthFirst ==
  ASSUME NEW m \in Nat
  PROVE  MonthOf(FirstDay[m]) = m /\ AddMonth(FirstDay[m]) = FirstDay[m + 1]
<1>0. m + 1 \in Nat
  OBVIOUS
<1>1. /\ FirstDay[m] \in Nat /\ FirstDay[m + 1] \in Nat /\ FirstDay[m] < FirstDay[m + 1]
      /\ MonthLength(m + 1) \in Nat /\ MonthLength(m + 1) > 0
  <2>1. MonthLength(m + 1) \in Nat /\ MonthLength(m + 1) > 0
    BY <1>0, MonthLengthPositive
  <2>2. FirstDay[m] \in Nat /\ FirstDay[m + 1] \in Nat /\ FirstDay[m] < FirstDay[m + 1]
    <3>1. /\ FirstDay[m] \in Nat /\ FirstDay[m + 1] \in Nat
          /\ FirstDay[m + 1] >= FirstDay[m] + 1
      BY MonthFacts
    <3> QED BY <3>1
  <2> QED BY <2>1, <2>2
<1>2. MonthOf(FirstDay[m]) = m
  BY <1>1, MonthUnique
<1>3. AddMonth(FirstDay[m]) = FirstDay[m + 1] + Least(FirstDay[m] - FirstDay[m], MonthLength(m + 1) - 1)
  BY <1>2 DEF AddMonth
<1> QED BY <1>1, <1>2, <1>3 DEF Least

\* calendar_period is the month of the day.
LEMMA CalendarIsMonth ==
  ASSUME NEW t \in Nat
  PROVE  /\ CalendarPeriod(t) = Period(FirstDay[MonthOf(t)], FirstDay[MonthOf(t) + 1])
         /\ CalendarPeriod(t) \in [start: Nat, end: Nat] /\ Within(t, CalendarPeriod(t))
<1>1. MonthOf(t) \in Nat /\ FirstDay[MonthOf(t)] <= t /\ t < FirstDay[MonthOf(t) + 1]
  BY MonthFound
<1>2. AddMonth(FirstDay[MonthOf(t)]) = FirstDay[MonthOf(t) + 1]
  BY <1>1, AddMonthFirst
<1>3. CalendarPeriod(t) = Period(FirstDay[MonthOf(t)], FirstDay[MonthOf(t) + 1])
  BY <1>2 DEF CalendarPeriod
<1>4. FirstDay[MonthOf(t)] \in Nat /\ FirstDay[MonthOf(t) + 1] \in Nat
  BY <1>1, MonthFacts
<1> QED BY <1>1, <1>3, <1>4 DEF Period, Within

-----------------------------------------------------------------------------
(* Rolling a period forward. *)

Bounds == [start: Nat, end: Nat]

RollEq(f, t) ==
  f = [q \in Bounds |-> IF t < q.end THEN q ELSE f[Period(q.end, AddMonth(q.end))]]

LEMMA RolledDef ==
  ASSUME NEW p, NEW t
  PROVE  Rolled(p, t) = (CHOOSE f : RollEq(f, t))[p]
BY DEF Rolled, RollEq, Bounds

LEMMA NextPeriod ==
  ASSUME NEW q \in Bounds
  PROVE  /\ Period(q.end, AddMonth(q.end)) \in Bounds
         /\ Period(q.end, AddMonth(q.end)).start = q.end
         /\ Period(q.end, AddMonth(q.end)).end = AddMonth(q.end)
         /\ q.end \in Nat /\ q.end < AddMonth(q.end) /\ AddMonth(q.end) \in Nat
<1>1. q.end \in Nat
  BY DEF Bounds
<1>2. q.end < AddMonth(q.end) /\ AddMonth(q.end) \in Nat
  BY <1>1, AddMonthNext
<1> QED BY <1>1, <1>2 DEF Period, Bounds

LEMMA RollExists ==
  ASSUME NEW t \in Nat
  PROVE  \E f : RollEq(f, t)
<1> DEFINE B == {q \in Bounds : t < q.end}
           base == [q \in Bounds |-> q]
           pre == [q \in Bounds |-> Period(q.end, AddMonth(q.end))]
           mu == [q \in Bounds |-> IF t < q.end THEN 0 ELSE t + 1 - q.end]
           G == [q \in Bounds |-> [v \in Bounds |-> v]]
<1>1. base \in [Bounds -> Bounds] /\ pre \in [Bounds -> Bounds] /\ mu \in [Bounds -> Nat]
  <2>1. base \in [Bounds -> Bounds]
    OBVIOUS
  <2>2. pre \in [Bounds -> Bounds]
    BY NextPeriod
  <2>3. ASSUME NEW q \in Bounds PROVE (IF t < q.end THEN 0 ELSE t + 1 - q.end) \in Nat
    <3>1. q.end \in Nat
      BY DEF Bounds
    <3> QED BY <3>1
  <2>4. mu \in [Bounds -> Nat]
    BY <2>3
  <2> QED BY <2>1, <2>2, <2>4
<1>2. G \in [Bounds -> [Bounds -> Bounds]]
  OBVIOUS
<1>3. ASSUME NEW q \in Bounds, q \notin B PROVE mu[pre[q]] < mu[q]
  <2>1. /\ q.end \in Nat /\ AddMonth(q.end) \in Nat /\ q.end < AddMonth(q.end)
        /\ pre[q] \in Bounds /\ pre[q].end = AddMonth(q.end)
    BY NextPeriod
  <2>2. mu[q] = t + 1 - q.end /\ q.end <= t
    BY <1>3, <2>1
  <2>3. mu[pre[q]] = IF t < AddMonth(q.end) THEN 0 ELSE t + 1 - AddMonth(q.end)
    <3> HIDE DEF pre
    <3> QED BY <2>1
  <2> QED BY <2>1, <2>2, <2>3
<1>4. GetsSmaller(Bounds, Bounds, B, base, pre, G, mu)
  <2> HIDE DEF B, base, pre, G, mu
  <2> QED BY <1>1, <1>2, <1>3 DEF GetsSmaller
<1>5. PICK f \in [Bounds -> Bounds] : Solves(f, Bounds, B, base, pre, G)
  <2> HIDE DEF B, base, pre, G, mu
  <2> QED BY <1>4, RecursiveFunction
<1>6. ASSUME NEW q \in Bounds
      PROVE  f[q] = IF t < q.end THEN q ELSE f[Period(q.end, AddMonth(q.end))]
  <2>2. f[q] = IF q \in B THEN base[q] ELSE G[q][f[pre[q]]]
    <3> HIDE DEF B, base, pre, G, mu
    <3> QED BY <1>5 DEF Solves
  <2>3. CASE t < q.end
    BY <2>2, <2>3
  <2>4. CASE ~ (t < q.end)
    <3>1. pre[q] = Period(q.end, AddMonth(q.end)) /\ pre[q] \in Bounds /\ q \notin B
      BY <1>1, <2>4
    <3>2. f[pre[q]] \in Bounds
      BY <3>1
    <3>3. G[q][f[pre[q]]] = f[pre[q]]
      BY <3>2
    <3>4. f[q] = f[pre[q]]
      <4> HIDE DEF B, base, pre, G, mu
      <4> QED BY <2>2, <3>1, <3>3
    <3> QED BY <2>4, <3>1, <3>4
  <2> QED BY <2>3, <2>4
<1>7. f = [q \in Bounds |-> IF t < q.end THEN q ELSE f[Period(q.end, AddMonth(q.end))]]
  BY <1>6
<1> QED BY <1>7 DEF RollEq

\* The loop of subscription_period, one round at a time.
LEMMA RolledStep ==
  ASSUME NEW t \in Nat, NEW p \in Bounds
  PROVE  Rolled(p, t) = IF t < p.end THEN p ELSE Rolled(Period(p.end, AddMonth(p.end)), t)
<1>1. PICK f : f = CHOOSE g : RollEq(g, t)
  OBVIOUS
<1>2. RollEq(f, t)
  BY <1>1, RollExists
<1>3. \A q : Rolled(q, t) = f[q]
  BY <1>1, RolledDef
<1>5. f[p] = IF t < p.end THEN p ELSE f[Period(p.end, AddMonth(p.end))]
  BY <1>2 DEF RollEq
<1> QED BY <1>3, <1>5

NextOf(q) == Period(q.end, AddMonth(q.end))

\* The loop ends, so nothing is true that each round would pass to the next.
LEMMA RollEnds ==
  ASSUME NEW t \in Nat, NEW T \in SUBSET Bounds,
         \A p \in T : p.end <= t /\ NextOf(p) \in T
  PROVE  T = {}
<1> DEFINE mu == [q \in Bounds |-> IF t < q.end THEN 0 ELSE t + 1 - q.end]
<1>1. ASSUME NEW q \in Bounds PROVE (IF t < q.end THEN 0 ELSE t + 1 - q.end) \in Nat
  <2>1. q.end \in Nat
    BY DEF Bounds
  <2> QED BY <2>1
<1>2. mu \in [Bounds -> Nat]
  BY <1>1
<1>3. SUFFICES ASSUME T # {} PROVE FALSE
  OBVIOUS
<1>4. PICK p \in T : \A q \in T : mu[p] <= mu[q]
  <2> HIDE DEF mu
  <2> QED BY <1>2, <1>3, LeastFailure
<1>5. /\ p.end \in Nat /\ p.end <= t /\ NextOf(p) \in T /\ NextOf(p).end = AddMonth(p.end)
      /\ AddMonth(p.end) \in Nat /\ p.end < AddMonth(p.end)
  BY NextPeriod DEF NextOf
<1>6. mu[p] = t + 1 - p.end
  BY <1>5
<1>7. mu[NextOf(p)] = IF t < AddMonth(p.end) THEN 0 ELSE t + 1 - AddMonth(p.end)
  BY <1>5
<1>8. mu[p] <= mu[NextOf(p)]
  BY <1>4, <1>5
<1> QED BY <1>5, <1>6, <1>7, <1>8

\* What subscription_period returns for a stored period p: it ends after t, it
\* begins before t if p did, and it is p or exactly one month that follows p.
RollsTo(p, t, q) ==
  /\ q \in Bounds /\ t < q.end /\ q.start < q.end
  /\ p.start <= t => q.start <= t
  /\ q = p \/ q.end = AddMonth(q.start)

LEMMA RolledFacts ==
  ASSUME NEW t \in Nat, NEW p \in Bounds, p.start < p.end
  PROVE  RollsTo(p, t, Rolled(p, t))
<1> DEFINE T == {q \in Bounds : q.start < q.end /\ ~ RollsTo(q, t, Rolled(q, t))}
<1>1. ASSUME NEW q \in T PROVE q.end <= t /\ NextOf(q) \in T
  <2>0. q \in Bounds /\ q.start \in Nat /\ q.end \in Nat /\ q.start < q.end
    BY <1>1 DEF Bounds
  <2>1. q.end <= t
    <3> SUFFICES ASSUME t < q.end PROVE FALSE
      BY <2>0
    <3>1. Rolled(q, t) = q
      BY <2>0, RolledStep
    <3> QED BY <1>1, <2>0, <3>1 DEF RollsTo
  <2>2. Rolled(q, t) = Rolled(NextOf(q), t)
    BY <2>0, <2>1, RolledStep DEF NextOf
  <2>3. /\ NextOf(q) \in Bounds /\ NextOf(q).start = q.end /\ NextOf(q).end = AddMonth(q.end)
        /\ q.end < AddMonth(q.end)
    BY <2>0, NextPeriod DEF NextOf
  <2>4. RollsTo(NextOf(q), t, Rolled(q, t)) => RollsTo(q, t, Rolled(q, t))
    BY <2>0, <2>1, <2>3 DEF RollsTo
  <2> QED BY <1>1, <2>1, <2>2, <2>3, <2>4
<1>2. T = {}
  <2> HIDE DEF T
  <2>1. T \in SUBSET Bounds
    BY DEF T
  <2> QED BY <1>1, <2>1, RollEnds
<1> QED BY <1>2

\* A day later the period is the same, or the month after it.
LEMMA RolledTick ==
  ASSUME NEW t \in Nat, NEW p \in Bounds
  PROVE  Rolled(p, t + 1) =
           IF t + 1 < Rolled(p, t).end THEN Rolled(p, t) ELSE NextOf(Rolled(p, t))
<1> DEFINE Moves(q) == Rolled(q, t + 1) =
                         IF t + 1 < Rolled(q, t).end THEN Rolled(q, t) ELSE NextOf(Rolled(q, t))
           T == {q \in Bounds : ~ Moves(q)}
<1>0. t + 1 \in Nat
  OBVIOUS
<1>1. ASSUME NEW q \in T PROVE q.end <= t /\ NextOf(q) \in T
  <2>0. /\ q \in Bounds /\ q.end \in Nat /\ NextOf(q) \in Bounds
        /\ NextOf(q).end = AddMonth(q.end) /\ AddMonth(q.end) \in Nat /\ q.end < AddMonth(q.end)
    BY <1>1, NextPeriod DEF NextOf
  <2>1. /\ Rolled(q, t) = IF t < q.end THEN q ELSE Rolled(NextOf(q), t)
        /\ Rolled(q, t + 1) = IF t + 1 < q.end THEN q ELSE Rolled(NextOf(q), t + 1)
        /\ t + 1 < NextOf(q).end => Rolled(NextOf(q), t + 1) = NextOf(q)
    BY <1>0, <2>0, RolledStep DEF NextOf
  <2>2. q.end <= t
    <3> SUFFICES ASSUME t < q.end PROVE FALSE
      BY <2>0
    <3>1. t + 1 < NextOf(q).end
      BY <2>0
    <3>2. Moves(q)
      BY <2>1, <3>1
    <3> QED BY <1>1, <3>2
  <2>3. ~ (t < q.end) /\ ~ (t + 1 < q.end)
    BY <2>0, <2>2
  <2>4. Moves(NextOf(q)) => Moves(q)
    BY <2>1, <2>3
  <2> QED BY <1>1, <2>0, <2>2, <2>4
<1>2. T = {}
  <2> HIDE DEF T
  <2>1. T \in SUBSET Bounds
    BY DEF T
  <2> QED BY <1>1, <2>1, RollEnds
<1> QED BY <1>2

-----------------------------------------------------------------------------
(* The period that counts. *)

\* A subscription row as the code stores it.
Stored(s) == s = NoSub \/ (s \in Row /\ s.period.start < s.period.end)

LEMMA PeriodFacts ==
  ASSUME NEW t \in Nat, NEW s, Stored(s)
  PROVE  /\ PeriodAt(s, t) \in Bounds
         /\ t < PeriodAt(s, t).end /\ PeriodAt(s, t).start < PeriodAt(s, t).end
         /\ s = NoSub \/ s.period.start <= t => PeriodAt(s, t).start <= t
<1>1. CASE s = NoSub
  <2>1. PeriodAt(s, t) = CalendarPeriod(t)
    BY <1>1 DEF PeriodAt
  <2>2. CalendarPeriod(t) \in Bounds /\ Within(t, CalendarPeriod(t))
    BY CalendarIsMonth DEF Bounds
  <2> QED BY <2>1, <2>2 DEF Bounds, Within
<1>2. CASE s # NoSub
  <2>1. s.period \in Bounds /\ s.period.start < s.period.end
    BY <1>2 DEF Stored, Row, Bounds
  <2>2. PeriodAt(s, t) = Rolled(s.period, t)
    BY <1>2, <2>1 DEF PeriodAt, SubscriptionPeriod, Bounds
  <2> QED BY <1>2, <2>1, <2>2, RolledFacts DEF RollsTo
<1> QED BY <1>1, <1>2

LEMMA PeriodTick ==
  ASSUME NEW t \in Nat, NEW s, Stored(s)
  PROVE  PeriodAt(s, t + 1) =
           IF t + 1 < PeriodAt(s, t).end THEN PeriodAt(s, t) ELSE NextOf(PeriodAt(s, t))
<1>0. t + 1 \in Nat
  OBVIOUS
<1>1. CASE s = NoSub
  <2> DEFINE m == MonthOf(t)
  <2>1. m \in Nat /\ FirstDay[m] <= t /\ t < FirstDay[m + 1]
    BY MonthFound
  <2>2. /\ FirstDay[m] \in Nat /\ m + 1 \in Nat /\ FirstDay[m + 1] \in Nat
        /\ FirstDay[(m + 1) + 1] \in Nat /\ FirstDay[m + 1] < FirstDay[(m + 1) + 1]
    <3>1. m + 1 \in Nat /\ FirstDay[m] \in Nat /\ FirstDay[m + 1] \in Nat
      BY <2>1, MonthFacts
    <3>2. FirstDay[(m + 1) + 1] \in Nat /\ FirstDay[(m + 1) + 1] >= FirstDay[m + 1] + 1
      BY <3>1, MonthFacts
    <3> QED BY <3>1, <3>2
  <2>3. /\ PeriodAt(s, t) = Period(FirstDay[m], FirstDay[m + 1])
        /\ PeriodAt(s, t + 1) = Period(FirstDay[MonthOf(t + 1)], FirstDay[MonthOf(t + 1) + 1])
    BY <1>0, <1>1, CalendarIsMonth DEF PeriodAt
  <2>4. AddMonth(FirstDay[m + 1]) = FirstDay[(m + 1) + 1]
    BY <2>2, AddMonthFirst
  <2>5. /\ PeriodAt(s, t).end = FirstDay[m + 1]
        /\ NextOf(PeriodAt(s, t)) = Period(FirstDay[m + 1], FirstDay[(m + 1) + 1])
    BY <2>3, <2>4 DEF Period, NextOf
  <2> HIDE DEF m
  <2>6. CASE t + 1 < FirstDay[m + 1]
    <3>1. MonthOf(t + 1) = m
      <4>1. FirstDay[m] <= t + 1
        BY <2>1, <2>2
      <4> QED BY <1>0, <2>1, <2>6, <4>1, MonthUnique
    <3> QED BY <2>3, <2>5, <2>6, <3>1
  <2>7. CASE ~ (t + 1 < FirstDay[m + 1])
    <3>1. MonthOf(t + 1) = m + 1
      <4>1. FirstDay[m + 1] <= t + 1 /\ t + 1 < FirstDay[(m + 1) + 1]
        BY <2>1, <2>2, <2>7
      <4> QED BY <1>0, <2>2, <4>1, MonthUnique
    <3> QED BY <2>3, <2>5, <2>7, <3>1
  <2> QED BY <2>6, <2>7
<1>2. CASE s # NoSub
  <2>1. s.period \in Bounds /\ s.period.start < s.period.end
    BY <1>2 DEF Stored, Row, Bounds
  <2>2. PeriodAt(s, t) = Rolled(s.period, t) /\ PeriodAt(s, t + 1) = Rolled(s.period, t + 1)
    BY <1>2, <2>1 DEF PeriodAt, SubscriptionPeriod, Bounds
  <2> QED BY <2>1, <2>2, RolledTick
<1> QED BY <1>1, <1>2

-----------------------------------------------------------------------------
(* Sums. *)

Chosen(s) == CHOOSE x \in s : TRUE
SumEq(f, table, S) ==
  f = [s \in SUBSET S |-> IF s = {} THEN 0 ELSE table[Chosen(s)] + f[s \ {Chosen(s)}]]
Numbers(table, S) == \A t \in S : table[t] \in Nat
Sum(table, S) == (CHOOSE f : SumEq(f, table, S))[S]

LEMMA TotalIsSum ==
  ASSUME NEW table, NEW p
  PROVE  UsageTotal(table, p) = Sum(table, {t \in DOMAIN table : Within(t, p)})
BY DEF UsageTotal, FoldFunctionOnSet, MapThenFoldSet, Sum, SumEq, Chosen

Rest(s) == s \ {Chosen(s)}

LEMMA RestFacts ==
  ASSUME NEW s, IsFiniteSet(s), s # {}
  PROVE  /\ Chosen(s) \in s /\ IsFiniteSet(Rest(s))
         /\ Cardinality(s) \in Nat /\ Cardinality(Rest(s)) = Cardinality(s) - 1
<1>1. Chosen(s) \in s
  BY DEF Chosen
<1> QED BY <1>1, FS_RemoveElement, FS_CardinalityType DEF Rest

\* Taking elements out of a finite set ends.
LEMMA RestEnds ==
  ASSUME NEW S, IsFiniteSet(S), NEW T \in SUBSET (SUBSET S),
         \A s \in T : s # {} /\ Rest(s) \in T
  PROVE  T = {}
<1> DEFINE mu == [s \in SUBSET S |-> Cardinality(s)]
<1>1. \A s \in SUBSET S : IsFiniteSet(s)
  BY FS_Subset
<1>2. mu \in [SUBSET S -> Nat]
  BY <1>1, FS_CardinalityType
<1>3. SUFFICES ASSUME T # {} PROVE FALSE
  OBVIOUS
<1>4. PICK s \in T : \A r \in T : mu[s] <= mu[r]
  <2> HIDE DEF mu
  <2> QED BY <1>2, <1>3, LeastFailure
<1>5. mu[s] \in Nat /\ Rest(s) \in SUBSET S /\ mu[s] <= mu[Rest(s)]
  BY <1>2, <1>4
<1>6. mu[s] = Cardinality(s) /\ mu[Rest(s)] = Cardinality(Rest(s))
  BY <1>4, <1>5
<1>7. Cardinality(s) \in Nat /\ Cardinality(Rest(s)) = Cardinality(s) - 1
  BY <1>1, <1>4, RestFacts
<1> QED BY <1>5, <1>6, <1>7

LEMMA SumExists ==
  ASSUME NEW S, IsFiniteSet(S), NEW table, Numbers(table, S)
  PROVE  \E f : SumEq(f, table, S)
<1> DEFINE D == SUBSET S
           B == {{}}
           base == [s \in D |-> 0]
           pre == [s \in D |-> IF s = {} THEN {} ELSE Rest(s)]
           mu == [s \in D |-> Cardinality(s)]
           G == [s \in D |-> [v \in Nat |-> IF s = {} THEN 0 ELSE table[Chosen(s)] + v]]
<1>0. \A s \in D : IsFiniteSet(s)
  BY FS_Subset
<1>1. base \in [D -> Nat] /\ pre \in [D -> D] /\ mu \in [D -> Nat]
  <2>1. base \in [D -> Nat]
    OBVIOUS
  <2>2. pre \in [D -> D]
    BY DEF Rest
  <2>3. mu \in [D -> Nat]
    BY <1>0, FS_CardinalityType
  <2> QED BY <2>1, <2>2, <2>3
<1>2. G \in [D -> [Nat -> Nat]]
  <2>1. ASSUME NEW s \in D, NEW v \in Nat
        PROVE  (IF s = {} THEN 0 ELSE table[Chosen(s)] + v) \in Nat
    <3>1. s # {} => Chosen(s) \in S
      BY <1>0, RestFacts
    <3>2. s # {} => table[Chosen(s)] \in Nat
      BY <3>1 DEF Numbers
    <3> QED BY <3>2
  <2> QED BY <2>1
<1>3. ASSUME NEW s \in D, s \notin B PROVE mu[pre[s]] < mu[s]
  <2>1. s # {} /\ pre[s] = Rest(s) /\ Rest(s) \in D
    BY <1>3 DEF Rest
  <2>2. Cardinality(s) \in Nat /\ Cardinality(Rest(s)) = Cardinality(s) - 1
    BY <1>0, <2>1, RestFacts
  <2> QED BY <2>1, <2>2
<1>4. GetsSmaller(D, Nat, B, base, pre, G, mu)
  <2> HIDE DEF D, B, base, pre, G, mu
  <2> QED BY <1>1, <1>2, <1>3 DEF GetsSmaller
<1>5. PICK f \in [D -> Nat] : Solves(f, D, B, base, pre, G)
  <2> HIDE DEF D, B, base, pre, G, mu
  <2> QED BY <1>4, RecursiveFunction
<1>6. ASSUME NEW s \in D
      PROVE  f[s] = IF s = {} THEN 0 ELSE table[Chosen(s)] + f[Rest(s)]
  <2>2. f[s] = IF s \in B THEN base[s] ELSE G[s][f[pre[s]]]
    <3> HIDE DEF D, B, base, pre, G, mu
    <3> QED BY <1>5 DEF Solves
  <2>3. CASE s = {}
    BY <2>2, <2>3
  <2>4. CASE s # {}
    <3>1. pre[s] = Rest(s) /\ pre[s] \in D /\ s \notin B
      BY <1>1, <2>4
    <3>2. f[pre[s]] \in Nat
      BY <3>1
    <3>3. G[s][f[pre[s]]] = table[Chosen(s)] + f[pre[s]]
      BY <2>4, <3>2
    <3>4. f[s] = G[s][f[pre[s]]]
      <4> HIDE DEF D, B, base, pre, G, mu
      <4> QED BY <2>2, <3>1
    <3> QED BY <2>4, <3>1, <3>3, <3>4
  <2> QED BY <2>3, <2>4
<1>7. f = [s \in SUBSET S |-> IF s = {} THEN 0 ELSE table[Chosen(s)] + f[s \ {Chosen(s)}]]
  BY <1>6 DEF Rest
<1> QED BY <1>7 DEF SumEq

\* Partial sums: what Sum goes through on its way.
SumsUp(f, table, S) ==
  \A s \in SUBSET S :
    f[s] \in Nat /\ f[s] = IF s = {} THEN 0 ELSE table[Chosen(s)] + f[Rest(s)]

LEMMA PartialSums ==
  ASSUME NEW S, IsFiniteSet(S), NEW table, Numbers(table, S)
  PROVE  \E f : Sum(table, S) = f[S] /\ SumsUp(f, table, S)
<1> DEFINE f == CHOOSE g : SumEq(g, table, S)
<1>2. SumEq(f, table, S)
  BY SumExists
<1>3. Sum(table, S) = f[S]
  BY DEF Sum
<1> HIDE DEF f
<1>4. \A s \in SUBSET S : f[s] = IF s = {} THEN 0 ELSE table[Chosen(s)] + f[Rest(s)]
  BY <1>2 DEF SumEq, Rest
<1> DEFINE T == {s \in SUBSET S : f[s] \notin Nat}
<1>5. ASSUME NEW s \in T PROVE s # {} /\ Rest(s) \in T
  <2>1. s # {} /\ IsFiniteSet(s) /\ Rest(s) \in SUBSET S
    <3>1. f[{}] = 0 /\ 0 \in Nat
      BY <1>4
    <3>2. s # {}
      BY <1>5, <3>1
    <3>3. IsFiniteSet(s)
      BY <1>5, FS_Subset
    <3> QED BY <1>5, <3>2, <3>3 DEF Rest
  <2>2. Chosen(s) \in S
    BY <2>1, RestFacts
  <2>3. table[Chosen(s)] \in Nat /\ f[s] = table[Chosen(s)] + f[Rest(s)]
    BY <1>4, <2>1, <2>2 DEF Numbers
  <2> QED BY <2>1, <2>3
<1>6. T = {}
  <2> HIDE DEF T
  <2>1. T \in SUBSET (SUBSET S)
    BY DEF T
  <2> QED BY <1>5, <2>1, RestEnds
<1>7. SumsUp(f, table, S)
  BY <1>4, <1>6 DEF SumsUp
<1> QED BY <1>3, <1>7

LEMMA SumZero ==
  ASSUME NEW S, IsFiniteSet(S), NEW table, \A t \in S : table[t] = 0
  PROVE  Sum(table, S) = 0
<1>0. Numbers(table, S)
  BY DEF Numbers
<1>1. PICK f : Sum(table, S) = f[S] /\ SumsUp(f, table, S)
  BY <1>0, PartialSums
<1> DEFINE T == {s \in SUBSET S : f[s] # 0}
<1>2. ASSUME NEW s \in T PROVE s # {} /\ Rest(s) \in T
  <2>1. s # {} /\ IsFiniteSet(s) /\ Rest(s) \in SUBSET S
    BY <1>1, <1>2, FS_Subset DEF Rest, SumsUp
  <2>2. Chosen(s) \in S
    BY <2>1, RestFacts
  <2>3. table[Chosen(s)] = 0 /\ f[s] = table[Chosen(s)] + f[Rest(s)] /\ f[Rest(s)] \in Nat
    BY <1>1, <2>1, <2>2 DEF SumsUp
  <2> QED BY <1>2, <2>1, <2>3
<1>3. T = {}
  <2> HIDE DEF T
  <2>1. T \in SUBSET (SUBSET S)
    BY DEF T
  <2> QED BY <1>2, <2>1, RestEnds
<1> QED BY <1>1, <1>3

\* One entry more.
Adds(new, table, S, c, q) ==
  \A t \in S : new[t] = IF t = c THEN table[t] + q ELSE table[t]

LEMMA SumAdd ==
  ASSUME NEW S, IsFiniteSet(S), NEW table, NEW new, NEW c \in S, NEW q \in Nat,
         Numbers(table, S), Adds(new, table, S, c, q)
  PROVE  Sum(new, S) = Sum(table, S) + q /\ Sum(table, S) \in Nat
<1>0. Numbers(new, S)
  BY DEF Numbers, Adds
<1>1. PICK f : Sum(table, S) = f[S] /\ SumsUp(f, table, S)
  BY PartialSums
<1>2. PICK g : Sum(new, S) = g[S] /\ SumsUp(g, new, S)
  BY <1>0, PartialSums
<1> DEFINE Differ(s) == g[s] = f[s] + (IF c \in s THEN q ELSE 0)
           T == {s \in SUBSET S : ~ Differ(s)}
<1>3. ASSUME NEW s \in T PROVE s # {} /\ Rest(s) \in T
  <2>1. s # {}
    <3>1. f[{}] = 0 /\ g[{}] = 0
      BY <1>1, <1>2 DEF SumsUp
    <3>2. Differ({})
      BY <3>1
    <3> QED BY <1>3, <3>2
  <2>2. IsFiniteSet(s) /\ Rest(s) \in SUBSET S
    BY <1>3, FS_Subset DEF Rest
  <2>3. Chosen(s) \in s /\ Chosen(s) \in S
    BY <1>3, <2>1, <2>2, RestFacts
  <2>4. /\ f[s] = table[Chosen(s)] + f[Rest(s)] /\ f[Rest(s)] \in Nat
        /\ g[s] = new[Chosen(s)] + g[Rest(s)] /\ g[Rest(s)] \in Nat
        /\ table[Chosen(s)] \in Nat
        /\ new[Chosen(s)] = IF Chosen(s) = c THEN table[Chosen(s)] + q ELSE table[Chosen(s)]
    BY <1>1, <1>2, <1>3, <2>1, <2>2, <2>3 DEF SumsUp, Numbers, Adds
  <2>5. c \in s <=> c \in Rest(s) \/ Chosen(s) = c
    BY <2>3 DEF Rest
  <2>6. Chosen(s) = c => c \notin Rest(s)
    BY DEF Rest
  <2>7. Differ(Rest(s)) => Differ(s)
    <3>1. CASE Chosen(s) = c
      BY <2>4, <2>5, <2>6, <3>1
    <3>2. CASE Chosen(s) # c
      BY <2>4, <2>5, <3>2
    <3> QED BY <3>1, <3>2
  <2> QED BY <1>3, <2>1, <2>2, <2>7
<1>4. T = {}
  <2> HIDE DEF T
  <2>1. T \in SUBSET (SUBSET S)
    BY DEF T
  <2> QED BY <1>3, <2>1, RestEnds
<1>5. Differ(S) /\ f[S] \in Nat
  BY <1>1, <1>4 DEF SumsUp
<1> QED BY <1>1, <1>2, <1>5

Table == [0..MaxTime -> Nat]
DaysIn(p) == {t \in 0..MaxTime : Within(t, p)}

USE UsageAssumption, NoSubAssumption

LEMMA TotalOver ==
  ASSUME NEW table \in Table, NEW p
  PROVE  /\ UsageTotal(table, p) = Sum(table, DaysIn(p))
         /\ IsFiniteSet(DaysIn(p)) /\ Numbers(table, DaysIn(p))
<1>1. DOMAIN table = 0..MaxTime
  BY DEF Table
<1>2. IsFiniteSet(0..MaxTime)
  BY FS_Interval
<1>3. IsFiniteSet(DaysIn(p))
  BY <1>2, FS_Subset DEF DaysIn
<1>4. Numbers(table, DaysIn(p))
  BY DEF Numbers, DaysIn, Table
<1> QED BY <1>1, <1>3, <1>4, TotalIsSum DEF DaysIn

\* _usage_total counts an event of the period, and is 0 for an empty one.
LEMMA TotalAdd ==
  ASSUME NEW table \in Table, NEW p, NEW c \in 0..MaxTime, Within(c, p), NEW q \in Nat
  PROVE  /\ UsageTotal([table EXCEPT ![c] = @ + q], p) = UsageTotal(table, p) + q
         /\ UsageTotal(table, p) \in Nat
<1> DEFINE new == [table EXCEPT ![c] = @ + q]
<1>1. new \in Table /\ c \in DaysIn(p)
  BY DEF Table, DaysIn
<1>2. Adds(new, table, DaysIn(p), c, q)
  BY DEF DaysIn, Table, Adds
<1> HIDE DEF new
<1>3. Sum(new, DaysIn(p)) = Sum(table, DaysIn(p)) + q /\ Sum(table, DaysIn(p)) \in Nat
  BY <1>1, <1>2, TotalOver, SumAdd
<1>4. UsageTotal(new, p) = UsageTotal(table, p) + q /\ UsageTotal(table, p) \in Nat
  BY <1>1, <1>3, TotalOver
<1> QED BY <1>4 DEF new

LEMMA TotalZero ==
  ASSUME NEW table \in Table, NEW p, \A t \in DaysIn(p) : table[t] = 0
  PROVE  UsageTotal(table, p) = 0
BY TotalOver, SumZero

LEMMA TotalType ==
  ASSUME NEW table \in Table, NEW p
  PROVE  UsageTotal(table, p) \in Nat
<1>1. PICK f : Sum(table, DaysIn(p)) = f[DaysIn(p)] /\ SumsUp(f, table, DaysIn(p))
  BY TotalOver, PartialSums
<1> QED BY <1>1, TotalOver DEF SumsUp

-----------------------------------------------------------------------------
(* The inductive invariant. *)

\* A transaction has locked the organization, and knows what it was asked.
Locked(r) ==
  pc[r] # "idle" => /\ lock = r /\ arg[r] \in Arg
                    /\ arg[r].op = "record" => commits < MaxCommits

\* The verdict of record_usage still holds when the event is inserted, whatever
\* the clock has done since.
VerdictHolds(r) ==
  pc[r] = "write" /\ arg[r].op = "record" => FitsQuota(arg[r].quantity)

\* The row about to be stored, and the period change_plan found.
RowReady(r) ==
  pc[r] = "write" /\ arg[r].op # "record" =>
    /\ row[r] \in Row /\ row[r].period.start < row[r].period.end
    /\ ~ Ahead => row[r].period.start <= clock
    /\ arg[r].op = "change" => PeriodAt(row[r], clock) = PeriodAt(sub, clock)

Request(r) == Locked(r) /\ VerdictHolds(r) /\ RowReady(r)

UsageInv ==
  /\ UTypeOK
  /\ \A t \in 0..MaxTime : clock < t => usage[t] = 0
  /\ ~ Ahead /\ sub # NoSub => sub.period.start <= clock
  /\ \A r \in Requests : Request(r)

LEMMA UsageInit == Init => UsageInv
<1> SUFFICES ASSUME Init PROVE UsageInv
  OBVIOUS
<1>1. CalendarPeriod(0) \in Bounds /\ Within(0, CalendarPeriod(0))
  BY CalendarIsMonth DEF Bounds
<1>2. sub \in Row \cup {NoSub} /\ (sub # NoSub => Within(0, sub.period) /\ sub.period \in Bounds)
  BY <1>1 DEF Init, DefaultRow, Row, Bounds
<1>3. UTypeOK
  BY <1>2 DEF Init, UTypeOK, Bounds, Within
<1>4. \A r \in Requests : Request(r)
  BY DEF Init, Request, Locked, VerdictHolds, RowReady
<1> QED BY <1>2, <1>3, <1>4 DEF Init, UsageInv, Within

LEMMA ArgFacts ==
  ASSUME NEW a \in Arg
  PROVE  /\ a.op \in {"record", "change", "webhook"}
         /\ a.op = "record" => a.quantity \in Nat \ {0}
         /\ a.op # "record" => a.plan \in Plans
         /\ a.op = "webhook" => a.period = NoSub \/ a.period \in Bounds
<1>1. CASE a \in [op: {"record"}, quantity: Quantities]
  BY <1>1
<1>2. CASE a \in [op: {"change"}, plan: Plans]
  BY <1>2
<1>3. CASE a \in [op: {"webhook"}, plan: Plans, period: ProviderPeriods \cup {NoSub}]
  BY <1>3 DEF Bounds
<1> QED BY <1>1, <1>2, <1>3 DEF Arg

LEMMA SubStored == UTypeOK => Stored(sub) /\ clock \in Nat
BY DEF UTypeOK, Stored

\* A request that has ended.
LEMMA EndedRequest ==
  ASSUME UsageInv, NEW r \in Requests, pc[r] # "idle", End(r)
  PROVE  /\ \A q \in Requests : Request(q)'
         /\ lock' \in Requests \cup {NoReq}
         /\ pc' \in [Requests -> {"idle", "locked", "write"}]
         /\ arg' \in [Requests -> Arg \cup {NoArg}] /\ row' \in [Requests -> Row \cup {NoSub}]
<1>0. UTypeOK
  BY DEF UsageInv
<1>1. ASSUME NEW q \in Requests PROVE pc'[q] = "idle"
  <2>1. CASE q = r
    BY <1>0, <2>1 DEF UTypeOK, End
  <2>2. CASE q # r
    BY <1>0, <2>2 DEF UTypeOK, End, UsageInv, Request, Locked
  <2> QED BY <2>1, <2>2
<1>2. \A q \in Requests : Request(q)'
  BY <1>1 DEF Request, Locked, VerdictHolds, RowReady
<1> QED BY <1>0, <1>2 DEF UTypeOK, End

\* A step of a transaction that holds the lock is no step of the others.
LEMMA OthersIdle ==
  ASSUME UsageInv, NEW r \in Requests, lock = r \/ lock = NoReq, NEW q \in Requests, q # r
  PROVE  pc[q] = "idle"
BY DEF UsageInv, Request, Locked

LEMMA TickKeeps == UsageInv /\ Tick => UsageInv'
<1> SUFFICES ASSUME UsageInv, Tick PROVE UsageInv'
  OBVIOUS
<1>0. UTypeOK /\ Stored(sub) /\ clock \in Nat /\ clock' = clock + 1
  BY SubStored DEF UsageInv, Tick
<1>1. UTypeOK'
  BY <1>0 DEF UTypeOK, Tick
<1>2. \A t \in 0..MaxTime : clock < t => usage[t] = 0
  BY DEF UsageInv
<1>3. ASSUME NEW s, Stored(s)
      PROVE  PeriodAt(s, clock') =
               IF clock + 1 < PeriodAt(s, clock).end THEN PeriodAt(s, clock)
               ELSE NextOf(PeriodAt(s, clock))
  BY <1>0, <1>3, PeriodTick
<1>4. ASSUME NEW r \in Requests PROVE Request(r)'
  <2>0. Request(r) /\ pc'[r] = pc[r] /\ arg'[r] = arg[r] /\ row'[r] = row[r]
    BY DEF UsageInv, Tick
  <2>1. Locked(r)'
    BY <2>0 DEF Request, Locked, Tick
  <2>2. ASSUME pc[r] = "write", arg[r].op = "record", FitsQuota(arg[r].quantity)
        PROVE  FitsQuota(arg[r].quantity)'
    <3> DEFINE p == PeriodAt(sub, clock)
               quantity == arg[r].quantity
    <3>1. quantity \in Nat
      BY <2>0, <2>2, ArgFacts DEF Request, Locked
    <3>2. usage \in Table /\ UsageTotal(usage, p) \in Nat /\ Quota[PlanOf(sub)] \in Nat
      <4>1. usage \in Table
        BY <1>0 DEF UTypeOK, Table
      <4>2. PlanOf(sub) \in Plans
        BY <1>0 DEF UTypeOK, PlanOf, Row
      <4> QED BY <4>1, <4>2, TotalType
    <3>3. UsageTotal(usage, p) + quantity <= Quota[PlanOf(sub)]
      BY <2>2 DEF FitsQuota
    <3>4. CASE clock + 1 < p.end
      BY <1>0, <1>3, <2>0, <3>3, <3>4 DEF FitsQuota, Tick
    <3>5. CASE ~ (clock + 1 < p.end)
      <4>1. p \in Bounds /\ clock < p.end
        BY <1>0, PeriodFacts
      <4>2. p.end = clock + 1
        BY <1>0, <3>5, <4>1 DEF Bounds
      <4>3. NextOf(p).start = clock + 1
        BY <4>1, <4>2, NextPeriod DEF NextOf
      <4>4. \A t \in DaysIn(NextOf(p)) : usage[t] = 0
        BY <1>0, <1>2, <4>3 DEF DaysIn, Within
      <4>5. UsageTotal(usage, NextOf(p)) = 0
        BY <3>2, <4>4, TotalZero
      <4>6. PeriodAt(sub, clock') = NextOf(p)
        BY <1>0, <1>3, <3>5
      <4>7. 0 + quantity <= Quota[PlanOf(sub)]
        BY <3>1, <3>2, <3>3
      <4> QED BY <2>0, <4>5, <4>6, <4>7 DEF FitsQuota, Tick
    <3> QED BY <3>4, <3>5
  <2>3. VerdictHolds(r)'
    BY <2>0, <2>2 DEF Request, VerdictHolds
  <2>4. RowReady(r)'
    <3> SUFFICES ASSUME pc[r] = "write", arg[r].op # "record"
                 PROVE  /\ row[r] \in Row /\ row[r].period.start < row[r].period.end
                        /\ ~ Ahead => row[r].period.start <= clock'
                        /\ arg[r].op = "change" => PeriodAt(row[r], clock') = PeriodAt(sub, clock')
      BY <2>0 DEF RowReady, Tick
    <3>1. /\ row[r] \in Row /\ row[r].period.start < row[r].period.end
          /\ ~ Ahead => row[r].period.start <= clock
          /\ arg[r].op = "change" => PeriodAt(row[r], clock) = PeriodAt(sub, clock)
      BY <2>0 DEF Request, RowReady
    <3>2. Stored(row[r]) /\ row[r].period.start \in Nat
      BY <3>1 DEF Stored, Row
    <3>3. arg[r].op = "change" => PeriodAt(row[r], clock') = PeriodAt(sub, clock')
      BY <1>0, <1>3, <3>1, <3>2
    <3>4. row[r].period.start <= clock => row[r].period.start <= clock'
      BY <1>0, <3>2
    <3> QED BY <3>1, <3>3, <3>4
  <2> QED BY <2>1, <2>3, <2>4 DEF Request
<1>5. \A t \in 0..MaxTime : clock' < t => usage'[t] = 0
  BY <1>0, <1>2 DEF Tick
<1>6. ~ Ahead /\ sub' # NoSub => sub'.period.start <= clock'
  <2>1. sub # NoSub => sub.period.start \in Nat
    BY <1>0 DEF UTypeOK, Row
  <2> QED BY <1>0, <2>1 DEF UsageInv, Tick
<1> QED BY <1>1, <1>4, <1>5, <1>6 DEF UsageInv

LEMMA LockKeeps ==
  ASSUME UsageInv, NEW r \in Requests, LockOrganization(r)
  PROVE  UsageInv'
<1>0. UTypeOK
  BY DEF UsageInv
<1>1. UTypeOK'
  BY <1>0 DEF UTypeOK, LockOrganization
<1>2. ASSUME NEW q \in Requests PROVE Request(q)'
  <2>1. CASE q = r
    <3>1. pc'[r] = "locked" /\ lock' = r /\ arg'[r] \in Arg
          /\ (arg'[r].op = "record" => commits' < MaxCommits)
      BY <1>0 DEF UTypeOK, LockOrganization
    <3> QED BY <2>1, <3>1 DEF Request, Locked, VerdictHolds, RowReady
  <2>2. CASE q # r
    <3>1. pc'[q] = "idle"
      BY <1>0, <2>2, OthersIdle DEF UTypeOK, LockOrganization, Available
    <3> QED BY <3>1 DEF Request, Locked, VerdictHolds, RowReady
  <2> QED BY <2>1, <2>2
<1> QED BY <1>1, <1>2 DEF UsageInv, LockOrganization

LEMMA RollbackKeeps ==
  ASSUME UsageInv, NEW r \in Requests, Rollback(r)
  PROVE  UsageInv'
<1>1. /\ \A q \in Requests : Request(q)'
      /\ lock' \in Requests \cup {NoReq}
      /\ pc' \in [Requests -> {"idle", "locked", "write"}]
      /\ arg' \in [Requests -> Arg \cup {NoArg}] /\ row' \in [Requests -> Row \cup {NoSub}]
  BY EndedRequest DEF Rollback
<1>2. UTypeOK'
  BY <1>1 DEF UsageInv, UTypeOK, Rollback
<1> QED BY <1>1, <1>2 DEF UsageInv, Rollback

LEMMA CheckKeeps ==
  ASSUME UsageInv, NEW r \in Requests, CheckQuota(r)
  PROVE  UsageInv'
<1>0. UTypeOK /\ Request(r) /\ lock = r
  BY DEF UsageInv, Request, Locked, CheckQuota
<1>1. CASE Rollback(r)
  BY <1>1, RollbackKeeps
<1>2. CASE /\ FitsQuota(arg[r].quantity) /\ pc' = [pc EXCEPT ![r] = "write"]
           /\ UNCHANGED <<clock, sub, usage, commits, lock, arg, row>>
  <2>1. UTypeOK'
    BY <1>0, <1>2 DEF UTypeOK
  <2>2. ASSUME NEW q \in Requests PROVE Request(q)'
    <3>1. CASE q = r
      <4>1. pc'[r] = "write" /\ arg'[r].op = "record" /\ FitsQuota(arg[r].quantity)'
        BY <1>0, <1>2 DEF UTypeOK, CheckQuota, FitsQuota
      <4>2. Locked(r)'
        BY <1>0, <1>2 DEF Request, Locked, CheckQuota
      <4> QED BY <1>2, <3>1, <4>1, <4>2 DEF Request, VerdictHolds, RowReady
    <3>2. CASE q # r
      <4>1. pc'[q] = "idle"
        BY <1>0, <1>2, <3>2, OthersIdle DEF UTypeOK
      <4> QED BY <4>1 DEF Request, Locked, VerdictHolds, RowReady
    <3> QED BY <3>1, <3>2
  <2> QED BY <1>2, <2>1, <2>2 DEF UsageInv
<1> QED BY <1>1, <1>2 DEF CheckQuota

LEMMA InsertKeeps ==
  ASSUME UsageInv, NEW r \in Requests, InsertUsage(r)
  PROVE  UsageInv'
<1>0. /\ UTypeOK /\ arg[r] \in Arg /\ commits < MaxCommits
      /\ arg[r].quantity \in Nat
  BY ArgFacts DEF UsageInv, Request, Locked, InsertUsage
<1>1. /\ \A q \in Requests : Request(q)'
      /\ lock' \in Requests \cup {NoReq}
      /\ pc' \in [Requests -> {"idle", "locked", "write"}]
      /\ arg' \in [Requests -> Arg \cup {NoArg}] /\ row' \in [Requests -> Row \cup {NoSub}]
  BY EndedRequest DEF InsertUsage
<1>2. clock \in 0..MaxTime /\ usage \in [0..MaxTime -> Nat] /\ commits \in 0..MaxCommits
  BY <1>0 DEF UTypeOK
<1>3. usage' \in [0..MaxTime -> Nat] /\ commits' \in 0..MaxCommits
  <2>1. usage[clock] + arg[r].quantity \in Nat
    <3>1. PICK n \in Nat : n = usage[clock]
      BY <1>2
    <3>2. PICK m \in Nat : m = arg[r].quantity
      BY <1>0
    <3> QED BY <3>1, <3>2
  <2>2. usage' = [usage EXCEPT ![clock] = usage[clock] + arg[r].quantity]
    BY DEF InsertUsage
  <2>3. usage' \in [0..MaxTime -> Nat]
    BY <1>2, <2>1, <2>2
  <2>4. commits' \in 0..MaxCommits
    BY <1>0, <1>2 DEF InsertUsage
  <2> QED BY <2>3, <2>4
<1>4. UTypeOK'
  BY <1>0, <1>1, <1>3 DEF UTypeOK, InsertUsage
<1>5. \A t \in 0..MaxTime : clock' < t => usage'[t] = 0
  BY <1>2 DEF UsageInv, InsertUsage
<1> QED BY <1>1, <1>4, <1>5 DEF UsageInv, InsertUsage

LEMMA WriteKeeps ==
  ASSUME UsageInv, NEW r \in Requests, WriteChange(r)
  PROVE  UsageInv'
<1>1. /\ \A q \in Requests : Request(q)'
      /\ lock' \in Requests \cup {NoReq}
      /\ pc' \in [Requests -> {"idle", "locked", "write"}]
      /\ arg' \in [Requests -> Arg \cup {NoArg}] /\ row' \in [Requests -> Row \cup {NoSub}]
  BY EndedRequest DEF WriteChange
<1>2. /\ sub' \in Row /\ sub'.period.start < sub'.period.end
      /\ ~ Ahead => sub'.period.start <= clock
  BY DEF UsageInv, Request, RowReady, WriteChange
<1>3. UTypeOK'
  BY <1>1, <1>2 DEF UsageInv, UTypeOK, WriteChange
<1> QED BY <1>1, <1>2, <1>3 DEF UsageInv, WriteChange

\* What change_plan stores keeps the period that counts; what a webhook stores
\* has begun, unless the provider announces periods that have not.
LEMMA PreparedRow ==
  ASSUME UsageInv, NEW r \in Requests, PrepareChange(r)
  PROVE  /\ row'[r] \in Row /\ row'[r].period.start < row'[r].period.end
         /\ ~ Ahead => row'[r].period.start <= clock
         /\ arg[r].op = "change" => PeriodAt(row'[r], clock) = PeriodAt(sub, clock)
         /\ arg[r].op # "record"
<1>0. /\ UTypeOK /\ Stored(sub) /\ clock \in Nat /\ arg[r] \in Arg
      /\ ~ Ahead /\ sub # NoSub => sub.period.start <= clock
  BY SubStored DEF UsageInv, Request, Locked, PrepareChange
<1>1. /\ arg[r].op = "change" \/ arg[r].op = "webhook" => arg[r].plan \in Plans
      /\ arg[r].op = "webhook" => arg[r].period = NoSub \/ arg[r].period \in Bounds
  BY <1>0, ArgFacts
<1>2. ASSUME NEW plan \in Plans, NEW p \in Bounds, p.start < p.end,
             ~ Ahead => p.start <= clock,
             row' = [row EXCEPT ![r] = [plan |-> plan, period |-> p]]
      PROVE  /\ row'[r] \in Row /\ row'[r].period = p
             /\ row'[r].period.start < row'[r].period.end
             /\ ~ Ahead => row'[r].period.start <= clock
  BY <1>0, <1>2 DEF UTypeOK, Row, Bounds
<1>3. CASE /\ arg[r].op = "change"
           /\ row' = [row EXCEPT ![r] = [plan |-> arg[r].plan, period |-> ChangedPeriod(sub, clock)]]
  <2> DEFINE p == PeriodAt(sub, clock)
  <2>1. p \in Bounds /\ p.start < p.end /\ clock < p.end /\ (~ Ahead => p.start <= clock)
    BY <1>0, PeriodFacts
  <2>2. row' = [row EXCEPT ![r] = [plan |-> arg[r].plan, period |-> p]]
    BY <1>3 DEF ChangedPeriod
  <2> HIDE DEF p
  <2>3. /\ row'[r] \in Row /\ row'[r].period = p
        /\ row'[r].period.start < row'[r].period.end
        /\ ~ Ahead => row'[r].period.start <= clock
    BY <1>1, <1>2, <1>3, <2>1, <2>2
  <2>4. row'[r] # NoSub /\ PeriodAt(row'[r], clock) = Rolled(p, clock)
    BY <2>1, <2>3 DEF PeriodAt, SubscriptionPeriod, Bounds
  <2>5. Rolled(p, clock) = p
    BY <1>0, <2>1, RolledStep
  <2> QED BY <1>3, <2>3, <2>4, <2>5 DEF p
<1>4. CASE /\ arg[r].op = "webhook" /\ arg[r].period = NoSub
           /\ row' = [row EXCEPT ![r] = [plan |-> arg[r].plan, period |-> CalendarPeriod(clock)]]
  <2>1. CalendarPeriod(clock) \in Bounds /\ Within(clock, CalendarPeriod(clock))
    BY <1>0, CalendarIsMonth DEF Bounds
  <2>2. /\ CalendarPeriod(clock).start < CalendarPeriod(clock).end
        /\ CalendarPeriod(clock).start <= clock
    BY <1>0, <2>1 DEF Within, Bounds
  <2> QED BY <1>1, <1>2, <1>4, <2>1, <2>2
<1>5. CASE /\ arg[r].op = "webhook" /\ arg[r].period # NoSub
           /\ ValidPeriod(arg[r].period) /\ (Ahead \/ arg[r].period.start <= clock)
           /\ row' = [row EXCEPT ![r] = [plan |-> arg[r].plan, period |-> arg[r].period]]
  <2>1. /\ arg[r].period \in Bounds /\ arg[r].period.start < arg[r].period.end
        /\ ~ Ahead => arg[r].period.start <= clock
    BY <1>1, <1>5 DEF ValidPeriod
  <2> QED BY <1>1, <1>2, <1>5, <2>1
<1> QED BY <1>3, <1>4, <1>5 DEF PrepareChange

LEMMA PrepareKeeps ==
  ASSUME UsageInv, NEW r \in Requests, PrepareChange(r)
  PROVE  UsageInv'
<1>0. UTypeOK /\ Request(r) /\ lock = r
  BY DEF UsageInv, Request, Locked, PrepareChange
<1>1. /\ pc' = [pc EXCEPT ![r] = "write"]
      /\ UNCHANGED <<clock, sub, usage, commits, lock, arg>>
      /\ \E x : row' = [row EXCEPT ![r] = x]
  BY DEF PrepareChange
<1>2. row' \in [Requests -> Row \cup {NoSub}]
  <2>1. PICK x : row' = [row EXCEPT ![r] = x]
    BY <1>1
  <2>2. x \in Row
    BY <1>0, <2>1, PreparedRow DEF UTypeOK
  <2> QED BY <1>0, <2>1, <2>2 DEF UTypeOK
<1>3. UTypeOK'
  BY <1>0, <1>1, <1>2 DEF UTypeOK
<1>4. ASSUME NEW q \in Requests PROVE Request(q)'
  <2>1. CASE q = r
    <3>1. pc'[r] = "write" /\ arg'[r].op # "record"
      BY <1>0, <1>1, PreparedRow DEF UTypeOK
    <3>2. Locked(r)'
      BY <1>0, <1>1 DEF Request, Locked, PrepareChange
    <3>3. VerdictHolds(r)'
      BY <3>1 DEF VerdictHolds
    <3>4. RowReady(r)'
      BY <1>1, PreparedRow DEF RowReady
    <3> QED BY <2>1, <3>2, <3>3, <3>4 DEF Request
  <2>2. CASE q # r
    <3>1. pc'[q] = "idle"
      BY <1>0, <1>1, <2>2, OthersIdle DEF UTypeOK
    <3> QED BY <3>1 DEF Request, Locked, VerdictHolds, RowReady
  <2> QED BY <2>1, <2>2
<1> QED BY <1>1, <1>3, <1>4 DEF UsageInv

LEMMA UsageStep == UsageInv /\ [Next]_vars => UsageInv'
<1> SUFFICES ASSUME UsageInv, [Next]_vars PROVE UsageInv'
  OBVIOUS
<1>1. CASE UNCHANGED vars
  BY <1>1 DEF UsageInv, UTypeOK, Request, Locked, VerdictHolds, RowReady, FitsQuota, vars
<1> QED BY <1>1, TickKeeps, LockKeeps, CheckKeeps, InsertKeeps, PrepareKeeps, WriteKeeps,
           RollbackKeeps DEF Next

-----------------------------------------------------------------------------
(* The theorems. *)

\* The invariant of record_usage, change_plan and the webhook's plan change.
THEOREM UsageCorrect == Spec => []UsageInv
BY UsageInit, UsageStep, PTL DEF Spec

\* The tables and the transactions keep their types, and a stored period is never
\* empty.
THEOREM UsageTypes == Spec => []UTypeOK
<1>1. UsageInv => UTypeOK
  BY DEF UsageInv
<1> QED BY <1>1, UsageCorrect, PTL

\* subscription_period skips no month, whatever day the period is anchored to and
\* whatever the lengths of the months are.
THEOREM PeriodsRollMonthly == Spec => []RollsMonthly
<1>1. ASSUME UsageInv PROVE RollsMonthly
  <2> DEFINE p == PeriodAt(sub, clock)
  <2> SUFFICES ASSUME sub # NoSub, p.start > sub.period.start
               PROVE  MonthOf(p.end) = MonthOf(p.start) + 1
    BY DEF RollsMonthly
  <2>1. Stored(sub) /\ clock \in Nat
    BY <1>1, SubStored DEF UsageInv
  <2>2. sub.period \in Bounds /\ sub.period.start < sub.period.end
    BY <2>1 DEF Stored, Row, Bounds
  <2>3. p = Rolled(sub.period, clock)
    BY <2>2 DEF PeriodAt, SubscriptionPeriod, Bounds
  <2> HIDE DEF p
  <2>4. RollsTo(sub.period, clock, p)
    BY <2>1, <2>2, <2>3, RolledFacts
  <2>5. p \in Bounds /\ p # sub.period
    BY <2>2, <2>4 DEF RollsTo, Bounds
  <2>6. p.start \in Nat /\ p.end = AddMonth(p.start)
    BY <2>4, <2>5 DEF RollsTo, Bounds
  <2> QED BY <2>6, AddMonthNext
<1> QED BY <1>1, UsageCorrect, PTL

\* change_plan gives nobody a fresh quota, although it computes the period before
\* it writes and the clock goes on in between.
THEOREM PlanChangeGivesNoQuota == Spec => PlanChangeKeepsPeriod
<1> DEFINE Keeps == \A r \in Requests :
                      pc[r] = "write" /\ arg[r].op = "change" /\ sub' # sub =>
                        PeriodAt(sub', clock) = PeriodAt(sub, clock)
<1>1. ASSUME UsageInv, [Next]_vars PROVE Keeps
  <2> SUFFICES ASSUME NEW r \in Requests, pc[r] = "write", arg[r].op = "change", sub' # sub
               PROVE  PeriodAt(sub', clock) = PeriodAt(sub, clock)
    OBVIOUS
  <2>1. PICK q \in Requests : WriteChange(q)
    BY <1>1 DEF Next, Tick, LockOrganization, CheckQuota, InsertUsage, PrepareChange, Rollback, vars
  <2>2. q = r
    BY <1>1, <2>1 DEF WriteChange, UsageInv, Request, Locked
  <2> QED BY <1>1, <2>1, <2>2 DEF WriteChange, UsageInv, Request, RowReady
<1> QED BY <1>1, UsageCorrect, PTL DEF Spec, PlanChangeKeepsPeriod

\* What an insert does to the total of the period that counts.
LEMMA InsertCounts ==
  ASSUME ~ Ahead, UsageInv, [Next]_vars, commits' # commits
  PROVE  LET p == PeriodAt(sub, clock)
         IN /\ sub' = sub /\ clock' = clock /\ Within(clock, p)
            /\ UsageTotal(usage', p) > UsageTotal(usage, p)
            /\ UsageTotal(usage', p) <= Quota[PlanOf(sub)]
<1> DEFINE p == PeriodAt(sub, clock)
<1>1. PICK r \in Requests : InsertUsage(r)
  BY DEF Next, Tick, LockOrganization, CheckQuota, PrepareChange, WriteChange, Rollback, vars
<1>2. /\ UTypeOK /\ Stored(sub) /\ clock \in Nat /\ arg[r] \in Arg
      /\ sub # NoSub => sub.period.start <= clock
      /\ FitsQuota(arg[r].quantity)
  BY <1>1, SubStored DEF UsageInv, Request, Locked, VerdictHolds, InsertUsage
<1>3. arg[r].quantity \in Nat /\ arg[r].quantity > 0
  BY <1>1, <1>2, ArgFacts DEF InsertUsage
<1>4. Within(clock, p)
  BY <1>2, PeriodFacts DEF Within
<1>5. usage \in Table /\ clock \in 0..MaxTime
  BY <1>2 DEF UTypeOK, Table
<1>6. usage' = [usage EXCEPT ![clock] = @ + arg[r].quantity] /\ sub' = sub /\ clock' = clock
  BY <1>1 DEF InsertUsage
<1>7. UsageTotal(usage, p) + arg[r].quantity <= Quota[PlanOf(sub)]
  BY <1>2 DEF FitsQuota
<1> HIDE DEF p
<1>8. /\ UsageTotal(usage', p) = UsageTotal(usage, p) + arg[r].quantity
      /\ UsageTotal(usage, p) \in Nat
  <2>1. PICK q \in Nat : q = arg[r].quantity
    BY <1>3
  <2>2. PICK c \in 0..MaxTime : c = clock
    BY <1>5
  <2>3. Within(c, p)
    BY <1>4, <2>2
  <2>4. /\ UsageTotal([usage EXCEPT ![c] = @ + q], p) = UsageTotal(usage, p) + q
        /\ UsageTotal(usage, p) \in Nat
    BY <1>5, <2>3, TotalAdd
  <2>5. usage' = [usage EXCEPT ![c] = @ + q]
    BY <1>6, <2>1, <2>2
  <2> QED BY <2>1, <2>4, <2>5
<1>9. UsageTotal(usage', p) > UsageTotal(usage, p) /\ UsageTotal(usage', p) <= Quota[PlanOf(sub)]
  BY <1>3, <1>7, <1>8
<1> QED BY <1>4, <1>6, <1>9 DEF p

\* record_usage never overspends, for every quota, calendar and timing, if the
\* provider announces no period that has not begun.
THEOREM QuotaKept ==
  ASSUME ~ Ahead
  PROVE  Spec => QuotaRespected
<1> DEFINE Respects == commits' # commits =>
                         LET p == PeriodAt(sub', clock')
                         IN /\ Within(clock', p)
                            /\ UsageTotal(usage', p) <= Quota[PlanOf(sub')]
<1>1. ASSUME UsageInv, [Next]_vars PROVE Respects
  BY <1>1, InsertCounts
<1> QED BY <1>1, UsageCorrect, PTL DEF Spec, QuotaRespected

\* What the README says of usage writes then holds: two requests cannot both
\* spend the same remaining quota, because an insert is counted by the next check.
THEOREM QuotaIsSpent ==
  ASSUME ~ Ahead
  PROVE  Spec => QuotaSpent
<1> DEFINE Spends == commits' # commits =>
                       UsageTotal(usage', PeriodAt(sub, clock)) > UsageTotal(usage, PeriodAt(sub, clock))
<1>1. ASSUME UsageInv, [Next]_vars PROVE Spends
  BY <1>1, InsertCounts
<1> QED BY <1>1, UsageCorrect, PTL DEF Spec, QuotaSpent

=============================================================================
