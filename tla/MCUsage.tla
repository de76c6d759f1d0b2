------------------------------- MODULE MCUsage -------------------------------
(* UsageQuota for TLC: a year of three months with 3, 1 and 2 days. *)
EXTENDS UsageQuota, TLC

ShortYear == <<3, 1, 2>>
SmallQuota == ("FREE" :> 2) @@ ("PRO" :> 3)

\* Periods that start and end inside months, one of them empty, and one that
\* ends on a day the next month does not have.
SomePeriods == {Period(0, 2), Period(1, 5), Period(2, 2), Period(4, 6)}
LaterPeriod == {Period(3, 5)}

UsageSymmetry == Permutations(Requests)
=============================================================================
