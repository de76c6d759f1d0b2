------------------------------ MODULE UsageQuota ------------------------------
(***************************************************************************)
(* Quota accounting of one organization: record_usage of                   *)
(* app/services/usage.py, in transactions that compete with plan changes   *)
(* (app/services/billing.py) and billing webhooks                          *)
(* (app/services/webhooks.py) while time passes.                           *)
(*                                                                         *)
(* All three lock the organization row first and hold it to the commit.    *)
(* The clock is read where the code reads it: record_usage reads it for    *)
(* the period it sums, and once more for created_at.                       *)
(*                                                                         *)
(* An operator named X_Fault is a deliberately wrong variant of X.         *)
(***************************************************************************)
EXTENDS BillingPeriods, Functions

CONSTANTS
  Requests,         \* concurrent transactions
  Plans, Quota,     \* plans, and PLAN_QUOTAS
  Quantities,       \* what one call may record
  ProviderPeriods,  \* billing periods the provider may announce
  Ahead,            \* whether it announces periods that have not begun
  MaxTime,          \* bound: the clock stops there
  MaxCommits,       \* bound: usage events recorded
  NoSub, NoReq

ASSUME UsageAssumption ==
  /\ "FREE" \in Plans /\ Quota \in [Plans -> Nat]
  /\ Quantities \subseteq Nat \ {0}
  /\ ProviderPeriods \subseteq [start: Nat, end: Nat]
  /\ Ahead \in BOOLEAN /\ MaxTime \in Nat /\ MaxCommits \in Nat
  /\ NoReq \notin Requests

Row == [plan: Plans, period: [start: Nat, end: Nat]]

ASSUME NoSubAssumption == NoSub \notin Row

VARIABLES
  clock,
  sub,      \* the subscription row
  usage,    \* quantity recorded, by created_at
  commits,  \* how many usage events there are
  lock,     \* who holds the organization row
  pc, arg,  \* where a transaction is, and what it was asked
  row       \* the subscription row a change is about to write

vars == <<clock, sub, usage, commits, lock, pc, arg, row>>

NoArg == [op |-> "none"]
Arg == [op: {"record"}, quantity: Quantities]
         \cup [op: {"change"}, plan: Plans]
         \cup [op: {"webhook"}, plan: Plans, period: ProviderPeriods \cup {NoSub}]

DefaultRow(t) == [plan |-> "FREE", period |-> CalendarPeriod(t)]

\* An organization with its default subscription, or without one.
Init ==
  /\ clock = 0 /\ commits = 0
  /\ sub \in {NoSub, DefaultRow(clock)}
  /\ usage = [t \in 0..MaxTime |-> 0]
  /\ lock = NoReq
  /\ pc = [r \in Requests |-> "idle"]
  /\ arg = [r \in Requests |-> NoArg]
  /\ row = [r \in Requests |-> NoSub]

PlanOf(s) == IF s = NoSub THEN "FREE" ELSE s.plan
PeriodAt(s, t) == IF s = NoSub THEN CalendarPeriod(t) ELSE SubscriptionPeriod(s.period, t)

\* _usage_total
UsageTotal(table, p) ==
  FoldFunctionOnSet(+, 0, table, {t \in DOMAIN table : Within(t, p)})

-----------------------------------------------------------------------------

Available(r) == lock = NoReq

\* SELECT ... FOR UPDATE on the organization.
LockOrganization(r) ==
  /\ pc[r] = "idle" /\ Available(r)
  /\ \E a \in Arg : /\ a.op = "record" => commits < MaxCommits
                    /\ arg' = [arg EXCEPT ![r] = a]
  /\ lock' = r
  /\ pc' = [pc EXCEPT ![r] = "locked"]
  /\ UNCHANGED <<clock, sub, usage, commits, row>>

End(r) ==
  /\ lock' = NoReq
  /\ pc' = [pc EXCEPT ![r] = "idle"]
  /\ arg' = [arg EXCEPT ![r] = NoArg]
  /\ row' = [row EXCEPT ![r] = NoSub]

\* Any failure, and a 429: nothing is written.
Rollback(r) ==
  /\ pc[r] # "idle"
  /\ End(r)
  /\ UNCHANGED <<clock, sub, usage, commits>>

\* record_usage: the subscription, the clock, the sum and the verdict.
FitsQuota_NotRolled(quantity) ==
  UsageTotal(usage, IF sub = NoSub THEN CalendarPeriod(clock) ELSE sub.period) + quantity
    <= Quota[PlanOf(sub)]
FitsQuota(quantity) ==
  UsageTotal(usage, PeriodAt(sub, clock)) + quantity <= Quota[PlanOf(sub)]

CheckQuota(r) ==
  /\ pc[r] = "locked" /\ arg[r].op = "record"
  /\ IF FitsQuota(arg[r].quantity)
     THEN /\ pc' = [pc EXCEPT ![r] = "write"]
          /\ UNCHANGED <<clock, sub, usage, commits, lock, arg, row>>
     ELSE Rollback(r)

\* The insert, with created_at from a clock read after the check.
InsertUsage(r) ==
  /\ pc[r] = "write" /\ arg[r].op = "record"
  /\ usage' = [usage EXCEPT ![clock] = @ + arg[r].quantity]
  /\ commits' = commits + 1
  /\ End(r)
  /\ UNCHANGED <<clock, sub>>

\* change_plan stores the period it finds, rolled forward.
ChangedPeriod_Restarted(s, t) == CalendarPeriod(t)
ChangedPeriod(s, t) == PeriodAt(s, t)

\* validate_webhook: the period, when there is one, must not be empty.
ValidPeriod(p) == p.start < p.end

PrepareChange(r) ==
  /\ pc[r] = "locked"
  /\ \/ /\ arg[r].op = "change"
        /\ row' = [row EXCEPT ![r] = [plan |-> arg[r].plan,
                                      period |-> ChangedPeriod(sub, clock)]]
     \/ /\ arg[r].op = "webhook" /\ arg[r].period = NoSub
        /\ row' = [row EXCEPT ![r] = [plan |-> arg[r].plan, period |-> CalendarPeriod(clock)]]
     \/ /\ arg[r].op = "webhook" /\ arg[r].period # NoSub
        /\ ValidPeriod(arg[r].period)
        /\ Ahead \/ arg[r].period.start <= clock
        /\ row' = [row EXCEPT ![r] = [plan |-> arg[r].plan, period |-> arg[r].period]]
  /\ pc' = [pc EXCEPT ![r] = "write"]
  /\ UNCHANGED <<clock, sub, usage, commits, lock, arg>>

WriteChange(r) ==
  /\ pc[r] = "write" /\ arg[r].op # "record"
  /\ sub' = row[r]
  /\ End(r)
  /\ UNCHANGED <<clock, usage, commits>>

Tick ==
  /\ clock < MaxTime
  /\ clock' = clock + 1
  /\ UNCHANGED <<sub, usage, commits, lock, pc, arg, row>>

Next ==
  \/ \E r \in Requests : \/ LockOrganization(r) \/ CheckQuota(r) \/ InsertUsage(r)
                         \/ PrepareChange(r) \/ WriteChange(r) \/ Rollback(r)
  \/ Tick

Spec == Init /\ [][Next]_vars

-----------------------------------------------------------------------------
(* Properties. *)

\* The tables and the transactions are in their types, and a stored period is
\* not empty.
UTypeOK ==
  /\ clock \in 0..MaxTime /\ commits \in 0..MaxCommits
  /\ sub \in Row \cup {NoSub}
  /\ sub # NoSub => sub.period.start < sub.period.end
  /\ usage \in [0..MaxTime -> Nat]
  /\ lock \in Requests \cup {NoReq}
  /\ pc \in [Requests -> {"idle", "locked", "write"}]
  /\ arg \in [Requests -> Arg \cup {NoArg}]
  /\ row \in [Requests -> Row \cup {NoSub}]

\* record_usage never overspends: an event it inserts falls into the billing
\* period of that instant and leaves that period within the plan's quota, also
\* when the period turned between the check and created_at, or the plan or the
\* period was changed by a transaction that waited for the same row.
QuotaRespected ==
  [][commits' # commits =>
       LET p == PeriodAt(sub', clock')
       IN /\ Within(clock', p)
          /\ UsageTotal(usage', p) <= Quota[PlanOf(sub')]]_vars

\* README: "Usage writes lock the organization row while checking the current
\* total and inserting the event, so concurrent requests cannot both spend the
\* same remaining quota."  An event that was inserted is counted against the
\* period the next request is checked against.
QuotaSpent ==
  [][commits' # commits =>
       UsageTotal(usage', PeriodAt(sub, clock)) > UsageTotal(usage, PeriodAt(sub, clock))]_vars

\* change_plan gives nobody a fresh quota: whenever it commits, the period that
\* counts is the one that counted before.
PlanChangeKeepsPeriod ==
  [][\A r \in Requests :
       pc[r] = "write" /\ arg[r].op = "change" /\ sub' # sub =>
         PeriodAt(sub', clock) = PeriodAt(sub, clock)]_vars

\* Rolling a period forward skips no month, whichever day it is anchored to:
\* each rolled period ends in the month after the one it starts in.
RollsMonthly ==
  LET p == PeriodAt(sub, clock)
  IN sub # NoSub /\ p.start > sub.period.start => MonthOf(p.end) = MonthOf(p.start) + 1

=============================================================================
