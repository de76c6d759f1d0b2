------------------------ MODULE BillingContractProofs ------------------------
(***************************************************************************)
(* What follows from the contract of billing, and so holds of every        *)
(* implementation of it: the audit log explains the plan.                  *)
(***************************************************************************)
EXTENDS BillingContract, TLAPS

\* The parts of AuditTrail, for one log.
EndsAt(log, plan) == plan = IF log = <<>> THEN "FREE" ELSE log[Len(log)].to
Unbroken(log) == \A n \in DOMAIN log : log[n].from = IF n = 1 THEN "FREE" ELSE log[n - 1].to
Names(log, e) == \E n \in DOMAIN log : log[n].event = e
NamesOnce(log) ==
  \A m, n \in DOMAIN log : log[m].event = log[n].event /\ log[m].event # NoEvent => m = n

Explained(o) ==
  /\ EndsAt(trail[o], OrDefault(sub[o]).plan)
  /\ Unbroken(trail[o])
  /\ \A e \in Events : Payload[e].org = o => (e \in processed <=> Names(trail[o], e))
  /\ NamesOnce(trail[o])

ContractInv ==
  /\ stored \subseteq Events /\ processed \subseteq stored /\ alive \subseteq Orgs
  /\ sub \in [Orgs -> Subscription \cup {NoSub}]
  /\ trail \in [Orgs -> Seq(AuditRow)]
  /\ \A o \in alive : Explained(o)

\* The subscription a transaction works on.
LEMMA OrDefaultType ==
  ASSUME WellFormed, NEW s \in Subscription \cup {NoSub}
  PROVE  OrDefault(s) \in Subscription /\ OrDefault(s).plan \in Plans
BY DEF OrDefault, DefaultSubscription, Subscription, Statuses, WellFormed

\* An event leaves a subscription a subscription (process_webhook_event).
LEMMA EffectType ==
  ASSUME WellFormed, NEW e \in Events, NEW s \in Subscription
  PROVE  Effect(e, s) \in Subscription /\ Effect(e, s).plan \in Plans
<1>1. Payload[e] \in PayloadRecord
  BY DEF WellFormed
<1> QED BY <1>1 DEF PayloadRecord, EventTypes, Effect, Subscription, Statuses

\* A row that begins where the log ends keeps it unbroken and ends it anew.
LEMMA LoggedExtends ==
  ASSUME NEW log \in Seq(AuditRow), NEW e \in Events \cup {NoEvent},
         NEW old \in Plans, NEW new \in Plans,
         EndsAt(log, old), Unbroken(log), NamesOnce(log),
         e # NoEvent => ~Names(log, e)
  PROVE  /\ Logged(log, e, old, new) \in Seq(AuditRow)
         /\ EndsAt(Logged(log, e, old, new), new)
         /\ Unbroken(Logged(log, e, old, new))
         /\ NamesOnce(Logged(log, e, old, new))
         /\ \A f \in Events : Names(Logged(log, e, old, new), f) <=> Names(log, f) \/ f = e
<1> DEFINE row == [event |-> e, from |-> old, to |-> new]
           longer == Append(log, row)
           k == Len(log)
<1>1. row \in AuditRow /\ row.event = e /\ row.from = old /\ row.to = new
  BY DEF AuditRow
<1> HIDE DEF row
<1>2. /\ longer \in Seq(AuditRow) /\ k \in Nat /\ Len(longer) = k + 1
      /\ DOMAIN longer = 1..(k + 1) /\ DOMAIN log = 1..k
      /\ longer[k + 1] = row
      /\ \A n \in 1..k : longer[n] = log[n]
      /\ longer # <<>>
      /\ log = <<>> <=> k = 0
  BY <1>1
<1> HIDE DEF longer, k
<1>3. EndsAt(longer, new)
  BY <1>1, <1>2 DEF EndsAt
<1>4. Unbroken(longer)
  <2> SUFFICES ASSUME NEW n \in 1..(k + 1)
               PROVE  longer[n].from = IF n = 1 THEN "FREE" ELSE longer[n - 1].to
    BY <1>2 DEF Unbroken
  <2>1. CASE n \in 1..k
    <3>1. n # 1 => n - 1 \in 1..k
      BY <1>2, <2>1
    <3> QED BY <1>2, <2>1, <3>1 DEF Unbroken
  <2>2. CASE n = k + 1
    <3>1. old = IF k = 0 THEN "FREE" ELSE log[k].to
      BY <1>2 DEF EndsAt, k
    <3>2. k # 0 => k \in 1..k
      BY <1>2
    <3> QED BY <1>1, <1>2, <2>2, <3>1, <3>2
  <2> QED BY <1>2, <2>1, <2>2
<1>5. NamesOnce(longer)
  <2> SUFFICES ASSUME NEW m \in 1..(k + 1), NEW n \in 1..(k + 1),
                      longer[m].event = longer[n].event, longer[m].event # NoEvent
               PROVE  m = n
    BY <1>2 DEF NamesOnce
  <2>1. CASE m \in 1..k /\ n \in 1..k
    BY <1>2, <2>1 DEF NamesOnce
  <2>2. CASE m = k + 1 /\ n \in 1..k
    BY <1>1, <1>2, <2>2 DEF Names
  <2>3. CASE n = k + 1 /\ m \in 1..k
    BY <1>1, <1>2, <2>3 DEF Names
  <2> QED BY <1>2, <2>1, <2>2, <2>3
<1>6. ASSUME NEW f \in Events PROVE Names(longer, f) <=> Names(log, f) \/ f = e
  <2>1. ASSUME Names(log, f) PROVE Names(longer, f)
    <3>1. PICK n \in 1..k : log[n].event = f
      BY <1>2, <2>1 DEF Names
    <3>2. n \in 1..(k + 1) /\ longer[n].event = f
      BY <1>2, <3>1
    <3> QED BY <1>2, <3>2 DEF Names
  <2>2. ASSUME f = e PROVE Names(longer, f)
    BY <1>1, <1>2, <2>2 DEF Names
  <2>3. ASSUME Names(longer, f) PROVE Names(log, f) \/ f = e
    <3>1. PICK n \in 1..(k + 1) : longer[n].event = f
      BY <1>2, <2>3 DEF Names
    <3>2. CASE n \in 1..k
      BY <1>2, <3>1, <3>2 DEF Names
    <3>3. CASE n = k + 1
      BY <1>1, <1>2, <3>1, <3>3
    <3> QED BY <1>2, <3>2, <3>3
  <2> QED BY <2>1, <2>2, <2>3
<1> QED BY <1>2, <1>3, <1>4, <1>5, <1>6 DEF Logged, longer, row

\* What is not touched stays explained.
LEMMA OthersExplained ==
  ASSUME NEW o, Explained(o), trail'[o] = trail[o], sub'[o] = sub[o],
         \A e \in Events : Payload[e].org = o => (e \in processed' <=> e \in processed)
  PROVE  Explained(o)'
BY DEF Explained, OrDefault

\* An event is applied.
LEMMA ApplyStep ==
  ASSUME WellFormed, ContractInv, NEW e \in Events, Apply(e)
  PROVE  ContractInv'
<1> DEFINE o == Payload[e].org
           old == OrDefault(sub[o])
           new == Effect(e, old)
<1>1. o \in Orgs /\ o \in alive /\ Explained(o) /\ sub[o] \in Subscription \cup {NoSub}
  BY DEF WellFormed, PayloadRecord, Apply, ContractInv
<1>2. old \in Subscription /\ old.plan \in Plans /\ new \in Subscription /\ new.plan \in Plans
  BY <1>1, OrDefaultType, EffectType
<1>3. /\ e \in stored /\ e \notin processed /\ processed' = processed \cup {e}
      /\ sub' = [sub EXCEPT ![o] = new]
      /\ trail' = [trail EXCEPT ![o] = Logged(trail[o], e, old.plan, new.plan)]
      /\ stored' = stored /\ alive' = alive
  BY DEF Apply
<1> HIDE DEF old, new, o
<1>4. /\ trail \in [Orgs -> Seq(AuditRow)] /\ sub \in [Orgs -> Subscription \cup {NoSub}]
      /\ stored \subseteq Events /\ processed \subseteq stored /\ alive \subseteq Orgs
  BY DEF ContractInv
<1>5. /\ EndsAt(trail[o], old.plan) /\ Unbroken(trail[o]) /\ NamesOnce(trail[o])
      /\ \A f \in Events : Payload[f].org = o => (f \in processed <=> Names(trail[o], f))
  BY <1>1 DEF Explained, old
<1>6. ~Names(trail[o], e)
  BY <1>3, <1>5 DEF o
<1> DEFINE log == Logged(trail[o], e, old.plan, new.plan)
<1>7. /\ log \in Seq(AuditRow) /\ EndsAt(log, new.plan) /\ Unbroken(log) /\ NamesOnce(log)
      /\ \A f \in Events : Names(log, f) <=> Names(trail[o], f) \/ f = e
  BY <1>1, <1>2, <1>4, <1>5, <1>6, LoggedExtends
<1> HIDE DEF log
<1>8. trail' = [trail EXCEPT ![o] = log]
  BY <1>3 DEF log
<1>9. trail'[o] = log /\ sub'[o] = new
  BY <1>1, <1>3, <1>4, <1>8
<1>10. Explained(o)'
  <2>1. OrDefault(sub[o])' = new /\ trail'[o] = log
    BY <1>2, <1>9 DEF OrDefault, WellFormed
  <2>2. \A f \in Events : Payload[f].org = o => (f \in processed' <=> Names(log, f))
    BY <1>3, <1>5, <1>7
  <2> QED BY <1>7, <2>1, <2>2 DEF Explained, o
<1>11. ASSUME NEW p \in alive PROVE Explained(p)'
  <2>1. CASE p = o
    BY <1>10, <2>1 DEF o
  <2>2. CASE p # o
    <3>1. trail'[p] = trail[p] /\ sub'[p] = sub[p] /\ Explained(p)
      BY <1>3, <1>4, <1>8, <2>2 DEF ContractInv
    <3>2. \A f \in Events : Payload[f].org = p => (f \in processed' <=> f \in processed)
      BY <1>3, <2>2 DEF o
    <3> QED BY <3>1, <3>2, OthersExplained
  <2> QED BY <2>1, <2>2
<1>12. /\ stored' \subseteq Events /\ processed' \subseteq stored' /\ alive' \subseteq Orgs
       /\ sub' \in [Orgs -> Subscription \cup {NoSub}]
       /\ trail' \in [Orgs -> Seq(AuditRow)]
  BY <1>1, <1>2, <1>3, <1>4, <1>7, <1>8
<1> QED BY <1>3, <1>11, <1>12 DEF ContractInv

\* A member changes the plan.
LEMMA ChangePlanStep ==
  ASSUME WellFormed, ContractInv, NEW o \in Orgs, NEW p \in Plans, ChangePlan(o, p)
  PROVE  ContractInv'
<1> DEFINE old == OrDefault(sub[o]).plan
           log == LoggedChange(trail[o], old, p)
           new == [plan |-> p, status |-> "ACTIVE"]
<1>1. /\ o \in alive /\ Explained(o) /\ sub[o] \in Subscription \cup {NoSub}
      /\ trail \in [Orgs -> Seq(AuditRow)] /\ sub \in [Orgs -> Subscription \cup {NoSub}]
  BY DEF ContractInv, ChangePlan
<1>2. old \in Plans
  BY <1>1, OrDefaultType
<1>3. /\ sub' = [sub EXCEPT ![o] = new] /\ trail' = [trail EXCEPT ![o] = log]
      /\ UNCHANGED <<stored, processed, alive>>
  BY DEF ChangePlan
<1>4. new \in Subscription /\ new.plan = p /\ new # NoSub
  BY DEF Subscription, Statuses, WellFormed
<1>5. /\ EndsAt(trail[o], old) /\ Unbroken(trail[o]) /\ NamesOnce(trail[o])
      /\ \A f \in Events : Payload[f].org = o => (f \in processed <=> Names(trail[o], f))
  BY <1>1 DEF Explained
<1> HIDE DEF old, new
<1>6. /\ log \in Seq(AuditRow) /\ EndsAt(log, p) /\ Unbroken(log) /\ NamesOnce(log)
      /\ \A f \in Events : Names(log, f) <=> Names(trail[o], f)
  <2>1. CASE old = p
    BY <1>1, <1>5, <2>1 DEF LoggedChange
  <2>2. CASE old # p
    <3>1. NoEvent \notin Events
      BY DEF WellFormed
    <3> QED BY <1>1, <1>2, <1>5, <2>2, <3>1, LoggedExtends DEF LoggedChange
  <2> QED BY <2>1, <2>2
<1> HIDE DEF log
<1>7. trail'[o] = log /\ OrDefault(sub[o])' = new
  BY <1>1, <1>3, <1>4 DEF OrDefault
<1>8. Explained(o)'
  BY <1>3, <1>4, <1>5, <1>6, <1>7 DEF Explained
<1>9. ASSUME NEW q \in alive PROVE Explained(q)'
  <2>1. CASE q = o
    BY <1>8, <2>1
  <2>2. CASE q # o
    <3>1. /\ trail'[q] = trail[q] /\ sub'[q] = sub[q] /\ Explained(q)
          /\ processed' = processed
      BY <1>1, <1>3, <2>2 DEF ContractInv
    <3> QED BY <3>1, OthersExplained
  <2> QED BY <2>1, <2>2
<1>10. /\ sub' \in [Orgs -> Subscription \cup {NoSub}]
       /\ trail' \in [Orgs -> Seq(AuditRow)]
  BY <1>1, <1>3, <1>4, <1>6
<1> QED BY <1>3, <1>9, <1>10 DEF ContractInv

\* An organization is deleted, its log with it.
LEMMA DeleteOrgStep ==
  ASSUME ContractInv, NEW o \in Orgs, DeleteOrg(o)
  PROVE  ContractInv'
<1>1. /\ trail \in [Orgs -> Seq(AuditRow)] /\ sub \in [Orgs -> Subscription \cup {NoSub}]
      /\ stored \subseteq Events /\ processed \subseteq stored /\ alive \subseteq Orgs
  BY DEF ContractInv
<1>2. /\ alive' = alive \ {o} /\ sub' = [sub EXCEPT ![o] = NoSub]
      /\ trail' = [trail EXCEPT ![o] = <<>>] /\ UNCHANGED <<stored, processed>>
  BY DEF DeleteOrg
<1>3. ASSUME NEW q \in alive' PROVE Explained(q)'
  <2>1. /\ trail'[q] = trail[q] /\ sub'[q] = sub[q] /\ Explained(q) /\ processed' = processed
    BY <1>1, <1>2 DEF ContractInv
  <2> QED BY <2>1, OthersExplained
<1>4. <<>> \in Seq(AuditRow)
  OBVIOUS
<1>5. /\ sub' \in [Orgs -> Subscription \cup {NoSub}]
      /\ trail' \in [Orgs -> Seq(AuditRow)]
  BY <1>1, <1>2, <1>4
<1> QED BY <1>1, <1>2, <1>3, <1>5 DEF ContractInv

\* Billing that keeps the contract leaves an audit log from which the plan of
\* every organization, and the events that led to it, can be read
\* (process_webhook_event, change_plan, write_audit).
THEOREM TrailExplains ==
  ASSUME WellFormed
  PROVE  CSpec => []AuditTrail
<1>1. CInit => ContractInv
  <2> SUFFICES ASSUME CInit PROVE ContractInv
    OBVIOUS
  <2>1. /\ trail = [o \in Orgs |-> <<>>] /\ sub \in [Orgs -> Subscription \cup {NoSub}]
        /\ \A o \in Orgs : OrDefault(sub[o]).plan = "FREE"
    BY DEF CInit, OrDefault, DefaultSubscription, Subscription, Statuses, WellFormed
  <2>2. <<>> \in Seq(AuditRow) /\ DOMAIN <<>> = {}
    OBVIOUS
  <2>3. \A o \in Orgs : Explained(o)
    BY <2>1, <2>2 DEF Explained, EndsAt, Unbroken, Names, NamesOnce, CInit
  <2> QED BY <2>1, <2>2, <2>3 DEF ContractInv, CInit
<1>2. ContractInv /\ [CNext]_cvars => ContractInv'
  <2> SUFFICES ASSUME ContractInv, [CNext]_cvars PROVE ContractInv'
    OBVIOUS
  <2>1. CASE UNCHANGED cvars
    BY <2>1 DEF cvars, ContractInv, Explained, OrDefault
  <2>2. ASSUME NEW e \in Events, Store(e) PROVE ContractInv'
    BY <2>2 DEF Store, ContractInv, Explained, OrDefault
  <2>3. ASSUME NEW e \in Events, Apply(e) PROVE ContractInv'
    BY <2>3, ApplyStep
  <2>4. ASSUME NEW o \in Orgs, NEW p \in Plans, ChangePlan(o, p) PROVE ContractInv'
    BY <2>4, ChangePlanStep
  <2>5. ASSUME NEW o \in Orgs, DeleteOrg(o) PROVE ContractInv'
    BY <2>5, DeleteOrgStep
  <2> QED
    BY <2>1, <2>2, <2>3, <2>4, <2>5 DEF CNext
<1>3. ContractInv => AuditTrail
  BY DEF ContractInv, Explained, EndsAt, Unbroken, Names, NamesOnce, AuditTrail
<1> QED
  BY <1>1, <1>2, <1>3, PTL DEF CSpec

=============================================================================
