--------------------------- MODULE BillingContract ---------------------------
(***************************************************************************)
(* What billing promises, without queue, workers, transactions or          *)
(* failures: a webhook event is stored once; its change is applied to the  *)
(* subscription as it then is, at most once, in the step that marks it     *)
(* PROCESSED; nothing else but a plan change or the deletion of the        *)
(* organization touches a subscription; and every change of the plan is in *)
(* the audit log.                                                          *)
(***************************************************************************)
EXTENDS Naturals, Sequences

CONSTANTS Events, Orgs, Plans,
          Payload,   \* event -> what the provider says
          NoSub,     \* no row in subscriptions
          NoEvent    \* what a plan change by a member names as its event

Statuses == {"ACTIVE", "PAST_DUE", "CANCELED"}
EventTypes == {"subscription.updated", "subscription.cancelled", "invoice.payment_failed"}
Subscription == [plan: Plans, status: Statuses]

\* "subscription.created" is handled exactly as "subscription.updated".
PayloadRecord ==
  [org: Orgs, type: EventTypes, plan: Plans, status: Statuses]

WellFormed ==
  /\ Payload \in [Events -> PayloadRecord]
  /\ "FREE" \in Plans
  /\ NoSub \notin Subscription
  /\ NoEvent \notin Events

\* The "subscription.changed" rows of audit_logs.
AuditRow == [event: Events \cup {NoEvent}, from: Plans, to: Plans]

VARIABLES stored,     \* events in webhook_events
          processed,  \* of those, the ones marked PROCESSED
          sub,        \* subscriptions, by organization
          alive,      \* organizations
          trail       \* their audit rows, by organization

DefaultSubscription == [plan |-> "FREE", status |-> "ACTIVE"]
OrDefault(s) == IF s = NoSub THEN DefaultSubscription ELSE s

\* The change an event asks for.
Effect(e, s) ==
  CASE Payload[e].type = "subscription.updated" ->
         [plan |-> Payload[e].plan, status |-> Payload[e].status]
    [] Payload[e].type = "subscription.cancelled" ->
         [s EXCEPT !.status = "CANCELED"]
    [] Payload[e].type = "invoice.payment_failed" ->
         [s EXCEPT !.status = "PAST_DUE"]

\* The audit log of an organization with one more row.
Logged(log, e, old, new) == Append(log, [event |-> e, from |-> old, to |-> new])

\* change_plan writes no row when the plan stays what it is.
LoggedChange(log, old, new) == IF old = new THEN log ELSE Logged(log, NoEvent, old, new)

cvars == <<stored, processed, sub, alive, trail>>

\* create_organization gives every organization the default subscription; one
\* that was inserted without it is given one by the first writer.
CInit ==
  /\ stored = {} /\ processed = {}
  /\ alive = Orgs /\ sub \in [Orgs -> {NoSub, DefaultSubscription}]
  /\ trail = [o \in Orgs |-> <<>>]

Store(e) ==
  /\ e \notin stored
  /\ stored' = stored \cup {e}
  /\ UNCHANGED <<processed, sub, alive, trail>>

Apply(e) ==
  LET o == Payload[e].org
      old == OrDefault(sub[o])
      new == Effect(e, old) IN
  /\ e \in stored \ processed
  /\ o \in alive
  /\ processed' = processed \cup {e}
  /\ sub' = [sub EXCEPT ![o] = new]
  /\ trail' = [trail EXCEPT ![o] = Logged(@, e, old.plan, new.plan)]
  /\ UNCHANGED <<stored, alive>>

ChangePlan(o, p) ==
  /\ o \in alive
  /\ sub' = [sub EXCEPT ![o] = [plan |-> p, status |-> "ACTIVE"]]
  /\ trail' = [trail EXCEPT ![o] = LoggedChange(@, OrDefault(sub[o]).plan, p)]
  /\ UNCHANGED <<stored, processed, alive>>

DeleteOrg(o) ==
  /\ o \in alive
  /\ alive' = alive \ {o}
  /\ sub' = [sub EXCEPT ![o] = NoSub]
  /\ trail' = [trail EXCEPT ![o] = <<>>]
  /\ UNCHANGED <<stored, processed>>

CNext ==
  \/ \E e \in Events : Store(e) \/ Apply(e)
  \/ \E o \in Orgs : DeleteOrg(o) \/ \E p \in Plans : ChangePlan(o, p)

CSpec == CInit /\ [][CNext]_cvars

-----------------------------------------------------------------------------
\* The audit log explains the plan of every organization: it begins with FREE,
\* each row takes up where the one before left off, and the last leads to the
\* plan of today; and it names the PROCESSED events of the organization, each
\* in one row.
AuditTrail ==
  \A o \in alive :
    LET log == trail[o] IN
    /\ OrDefault(sub[o]).plan = IF log = <<>> THEN "FREE" ELSE log[Len(log)].to
    /\ \A n \in DOMAIN log : log[n].from = IF n = 1 THEN "FREE" ELSE log[n - 1].to
    /\ \A e \in Events : Payload[e].org = o =>
         (e \in processed <=> \E n \in DOMAIN log : log[n].event = e)
    /\ \A m, n \in DOMAIN log : log[m].event = log[n].event /\ log[m].event # NoEvent => m = n

=============================================================================
