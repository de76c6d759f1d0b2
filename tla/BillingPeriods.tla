--------------------------- MODULE BillingPeriods ----------------------------
(***************************************************************************)
(* The calendar arithmetic of app/services/usage.py.  An instant is the    *)
(* number of its day; the months of the year have the lengths              *)
(* MonthLengths, year after year.  What happens inside a day is left out:  *)
(* add_month keeps the time of day.                                        *)
(*                                                                         *)
(* An operator named X_Fault is a deliberately wrong variant of X.         *)
(***************************************************************************)
EXTENDS Naturals, Sequences

CONSTANT MonthLengths

ASSUME CalendarAssumption ==
  /\ MonthLengths \in Seq(Nat \ {0})
  /\ MonthLengths # <<>>

MonthLength(m) == MonthLengths[1 + (m % Len(MonthLengths))]
FirstDay[m \in Nat] == IF m = 0 THEN 0 ELSE FirstDay[m - 1] + MonthLength(m - 1)
MonthOf(t) == CHOOSE m \in 0..t : FirstDay[m] <= t /\ t < FirstDay[m + 1]

Least(a, b) == IF a < b THEN a ELSE b

\* The same day of the next month, or its last day when it has no such day.
AddMonth_Unclamped(t) == FirstDay[MonthOf(t) + 1] + (t - FirstDay[MonthOf(t)])
AddMonth(t) ==
  LET m == MonthOf(t)
  IN FirstDay[m + 1] + Least(t - FirstDay[m], MonthLength(m + 1) - 1)

Period(start, end) == [start |-> start, end |-> end]
Within(t, p) == p.start <= t /\ t < p.end

CalendarPeriod(t) ==
  LET first == FirstDay[MonthOf(t)] IN Period(first, AddMonth(first))

\* The period of a subscription at t: the stored one, rolled forward month by
\* month until it ends after t.  A stored period that lies ahead of t is taken
\* as it is.
Rolled(p, t) ==
  LET roll[q \in [start: Nat, end: Nat]] ==
        IF t < q.end THEN q ELSE roll[Period(q.end, AddMonth(q.end))]
  IN roll[p]

SubscriptionPeriod(p, t) ==
  IF p.end <= p.start THEN CalendarPeriod(t) ELSE Rolled(p, t)

=============================================================================
