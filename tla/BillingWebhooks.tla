--------------------------- MODULE BillingWebhooks ---------------------------
(***************************************************************************)
(* Billing webhooks from delivery to subscription: the route               *)
(* app/api/routes/webhooks.py stores an event and enqueues a job, the      *)
(* worker of JobQueue runs process_billing_webhook_job on it, in database  *)
(* transactions that compete with plan changes and the deletion of the     *)
(* organization.                                                           *)
(*                                                                         *)
(* The queue is JobQueue itself: its actions are conjoined with what the   *)
(* route and the handler do.  Row locks are held from the SELECT ... FOR   *)
(* UPDATE to the commit or rollback.  Rejected deliveries (bad signature,  *)
(* unsupported or invalid event) change nothing and are left out.          *)
(*                                                                         *)
(* An operator named X_Fault is a deliberately wrong variant of X.         *)
(***************************************************************************)
EXTENDS JobQueue

CONSTANTS Events, Orgs, Plans, Payload, NoSub,
          Deliveries,   \* concurrent requests of the provider
          Changers,     \* concurrent change-plan requests
          MaxChanges,   \* bound: how many of those are made
          NoEvent, NoOne

VARIABLES
  event,     \* status of the webhook_events row, by external id
  sub, alive,          \* subscriptions by organization; organizations
  trail,               \* audit rows of billing, by organization
  elock, olock,        \* who holds the event and organization rows
  loaded,              \* the subscription as a transaction has read it
  dpc, delivered,      \* where a delivery is, and its event
  hpc,                 \* where the handler is, in a worker that handles
  cpc, change,         \* where a change-plan request is, and what it asks
  jobEvent,            \* payload of a job: the event
  accepted,            \* events for which the provider got its 202
  changes

C == INSTANCE BillingContract WITH
       stored <- {e \in Events : event[e] # "absent"},
       processed <- {e \in Events : event[e] = "PROCESSED"}

ASSUME BillingAssumption ==
  /\ Foreign = {}
  /\ MaxChanges \in Nat
  /\ Workers \cap Changers = {} /\ NoOne \notin Workers \cup Changers
  /\ NoEvent \notin Events
  /\ C!WellFormed

Clients == Workers \cup Changers

rows == <<event, sub, alive, trail>>
txvars == <<elock, olock, loaded>>
bvars == <<event, sub, alive, trail, elock, olock, loaded, dpc, delivered, hpc, cpc,
           change, jobEvent, accepted, changes>>
vars == <<qvars, bvars>>

BInit ==
  /\ QInit
  /\ event = [e \in Events |-> "absent"]
  /\ sub \in [Orgs -> {NoSub, C!DefaultSubscription}] /\ alive = Orgs
  /\ trail = [o \in Orgs |-> <<>>]
  /\ elock = [e \in Events |-> NoOne] /\ olock = [o \in Orgs |-> NoOne]
  /\ loaded = [c \in Clients |-> NoSub]
  /\ dpc = [d \in Deliveries |-> "idle"]
  /\ delivered = [d \in Deliveries |-> NoEvent]
  /\ hpc = [w \in Workers |-> "start"]
  /\ cpc = [c \in Changers |-> "idle"]
  /\ change = [c \in Changers |-> <<>>]
  /\ jobEvent = [j \in JobIds |-> NoEvent]
  /\ accepted = {} /\ changes = 0

FreeRow_EventUnlocked(lock, k) == k \in Events \/ lock[k] = NoOne
FreeRow(lock, k) == lock[k] = NoOne
Released(lock, c) == [k \in DOMAIN lock |-> IF lock[k] = c THEN NoOne ELSE lock[k]]

-----------------------------------------------------------------------------
(* The route: billing_webhook. *)

DeliveryEnds(d) ==
  /\ dpc' = [dpc EXCEPT ![d] = "idle"]
  /\ delivered' = [delivered EXCEPT ![d] = NoEvent]

ShouldEnqueue_NewOnly(status) == FALSE
ShouldEnqueue(status) == status # "PROCESSED"

\* Answer 202 at once, or go on to the enqueue.
AnswerOrEnqueue(d, e, status) ==
  IF ShouldEnqueue(status)
  THEN /\ dpc' = [dpc EXCEPT ![d] = "enqueue"]
       /\ delivered' = [delivered EXCEPT ![d] = e]
       /\ UNCHANGED accepted
  ELSE DeliveryEnds(d) /\ accepted' = accepted \cup {e}

\* A signed, valid delivery arrives and store_webhook_event looks for its row.
\* The bound: there is a job id left for it.
Deliver(d, e) ==
  /\ dpc[d] = "idle"
  /\ Cardinality(JobIds \ sent) > Cardinality({x \in Deliveries : dpc[x] # "idle"})
  /\ IF event[e] = "absent"
     THEN /\ dpc' = [dpc EXCEPT ![d] = "insert"]
          /\ delivered' = [delivered EXCEPT ![d] = e]
          /\ UNCHANGED accepted
     ELSE AnswerOrEnqueue(d, e, event[e])
  /\ UNCHANGED <<qvars, rows, txvars, hpc, cpc, change, jobEvent, changes>>

\* The insert in its savepoint, and the commit.  The unique constraint turns
\* the loser of a race to the row it finds then.
StoreEvent(d) ==
  LET e == delivered[d] IN
  /\ dpc[d] = "insert"
  /\ IF event[e] = "absent"
     THEN /\ event' = [event EXCEPT ![e] = "PENDING"]
          /\ dpc' = [dpc EXCEPT ![d] = "enqueue"]
          /\ UNCHANGED <<delivered, accepted>>
     ELSE AnswerOrEnqueue(d, e, event[e]) /\ UNCHANGED event
  /\ UNCHANGED <<qvars, sub, alive, trail, txvars, hpc, cpc, change, jobEvent, changes>>

\* The enqueue, after the commit; a Redis error is a 500 to the provider.
EnqueueEvent(d, j, n) ==
  /\ dpc[d] = "enqueue"
  /\ Enqueue(j, n)
  /\ jobEvent' = [jobEvent EXCEPT ![j] = delivered[d]]
  /\ accepted' = IF n = 0 THEN accepted ELSE accepted \cup {delivered[d]}
  /\ DeliveryEnds(d)
  /\ UNCHANGED <<rows, txvars, hpc, cpc, change, changes>>

\* The request dies: a database error, or the API process.
DeliveryFails(d) ==
  /\ dpc[d] # "idle"
  /\ DeliveryEnds(d)
  /\ UNCHANGED <<qvars, rows, txvars, hpc, cpc, change, jobEvent, accepted, changes>>

-----------------------------------------------------------------------------
(* The handler: process_billing_webhook_job. *)

HandledEvent(w) == jobEvent[job[w].id]
HandledOrg(w) == Payload[HandledEvent(w)].org
At(w, step) == pc[w] = "handle" /\ hpc[w] = step
HandlerAt(w, step) == hpc' = [hpc EXCEPT ![w] = step]

\* Commit or rollback, by a worker or a change-plan request.
EndTransaction(c) ==
  /\ elock' = Released(elock, c) /\ olock' = Released(olock, c)
  /\ loaded' = [loaded EXCEPT ![c] = NoSub]

\* process_webhook_event locks the event; a PROCESSED one is left alone.
BeginEvent(w) ==
  /\ At(w, "start")
  /\ FreeRow(elock, HandledEvent(w))
  /\ IF event[HandledEvent(w)] = "PROCESSED"
     THEN HandlerReturns(w) /\ UNCHANGED <<hpc, elock>>
     ELSE /\ HandlerAt(w, "org")
          /\ elock' = [elock EXCEPT ![HandledEvent(w)] = w]
          /\ UNCHANGED qvars
  /\ UNCHANGED <<rows, olock, loaded, dpc, delivered, cpc, change, jobEvent, accepted, changes>>

\* _locked_subscription: no organization is an error.
LockSubscription(w) ==
  LET o == HandledOrg(w) IN
  /\ At(w, "org")
  /\ FreeRow(olock, o)
  /\ IF o \in alive
     THEN /\ olock' = [olock EXCEPT ![o] = w]
          /\ loaded' = [loaded EXCEPT ![w] = sub[o]]
          /\ HandlerAt(w, "apply") /\ UNCHANGED elock
     ELSE EndTransaction(w) /\ HandlerAt(w, "mark")
  /\ UNCHANGED <<qvars, rows, dpc, delivered, cpc, change, jobEvent, accepted, changes>>

\* The flush: an INSERT when there was no row, else an UPDATE of the columns
\* that differ from what was read.
Flushed(row, read, new) ==
  IF read = NoSub THEN new
  ELSE [f \in DOMAIN new |-> IF new[f] = read[f] THEN row[f] ELSE new[f]]

\* The subscription, its audit row and the PROCESSED marker, in one commit.
\* When its reply is lost the handler takes the path of a failure.
ApplyEvent(w) ==
  LET e == HandledEvent(w)
      o == HandledOrg(w)
      old == C!OrDefault(loaded[w])
      new == C!Effect(e, old) IN
  /\ At(w, "apply")
  /\ sub' = [sub EXCEPT ![o] = Flushed(@, loaded[w], new)]
  /\ trail' = [trail EXCEPT ![o] = C!Logged(@, e, old.plan, new.plan)]
  /\ event' = [event EXCEPT ![e] = "PROCESSED"]
  /\ EndTransaction(w)
  /\ \/ HandlerReturns(w) /\ HandlerAt(w, "start")
     \/ UNCHANGED qvars /\ HandlerAt(w, "mark")
  /\ UNCHANGED <<alive, dpc, delivered, cpc, change, jobEvent, accepted, changes>>

\* Anything in the transaction raises, and it is rolled back.
ProcessingFails(w) ==
  /\ pc[w] = "handle" /\ hpc[w] # "mark"
  /\ EndTransaction(w)
  /\ HandlerAt(w, "mark")
  /\ UNCHANGED <<qvars, rows, dpc, delivered, cpc, change, jobEvent, accepted, changes>>

\* mark_webhook_failed in a transaction of its own, which may fail too; the
\* exception goes on to the worker.
Reraise_Swallowed(w) == HandlerReturns(w)
Reraise(w) == HandlerRaises(w)

MarkedFailed_Always(status) == "FAILED"
MarkedFailed(status) == IF status = "PROCESSED" THEN status ELSE "FAILED"

MarkFailed(w) ==
  LET e == HandledEvent(w) IN
  /\ At(w, "mark")
  /\ \/ FreeRow(elock, e) /\ event' = [event EXCEPT ![e] = MarkedFailed(@)]
     \/ UNCHANGED event
  /\ Reraise(w)
  /\ HandlerAt(w, "start")
  /\ UNCHANGED <<sub, alive, trail, txvars, dpc, delivered, cpc, change, jobEvent, accepted, changes>>

WorkerDies(w) ==
  /\ Crash(w)
  /\ EndTransaction(w)
  /\ HandlerAt(w, "start")
  /\ UNCHANGED <<rows, dpc, delivered, cpc, change, jobEvent, accepted, changes>>

-----------------------------------------------------------------------------
(* What else writes the tables. *)

\* change_plan up to its flush: get_or_create_subscription locks the
\* organization.
StartChange(c, o, p) ==
  /\ cpc[c] = "idle" /\ changes < MaxChanges
  /\ o \in alive /\ FreeRow(olock, o)
  /\ olock' = [olock EXCEPT ![o] = c]
  /\ loaded' = [loaded EXCEPT ![c] = sub[o]]
  /\ cpc' = [cpc EXCEPT ![c] = "write"]
  /\ change' = [change EXCEPT ![c] = <<o, p>>]
  /\ changes' = changes + 1
  /\ UNCHANGED <<qvars, rows, elock, dpc, delivered, hpc, jobEvent, accepted>>

ChangeEnds(c) ==
  /\ EndTransaction(c)
  /\ cpc' = [cpc EXCEPT ![c] = "idle"]
  /\ change' = [change EXCEPT ![c] = <<>>]
  /\ UNCHANGED <<qvars, event, alive, dpc, delivered, hpc, jobEvent, accepted, changes>>

\* Its flush, the audit row and the commit; or the request fails and is rolled
\* back.
WriteChange(c) ==
  LET o == change[c][1]
      p == change[c][2] IN
  /\ cpc[c] = "write"
  /\ \/ /\ sub' = [sub EXCEPT ![o] =
                     Flushed(@, loaded[c], [plan |-> p, status |-> "ACTIVE"])]
        /\ trail' = [trail EXCEPT ![o] = C!LoggedChange(@, C!OrDefault(loaded[c]).plan, p)]
     \/ UNCHANGED <<sub, trail>>
  /\ ChangeEnds(c)

\* delete_organization: subscriptions and audit rows cascade, webhook events
\* stay.
DeleteOrg(o) ==
  /\ o \in alive /\ FreeRow(olock, o)
  /\ alive' = alive \ {o}
  /\ sub' = [sub EXCEPT ![o] = NoSub]
  /\ trail' = [trail EXCEPT ![o] = <<>>]
  /\ UNCHANGED <<qvars, event, txvars, dpc, delivered, hpc, cpc, change, jobEvent, accepted, changes>>

-----------------------------------------------------------------------------

DeliveryStep(d) ==
  \/ \E e \in Events : Deliver(d, e)
  \/ StoreEvent(d) \/ DeliveryFails(d)
  \/ \E j \in JobIds, n \in 0..2 : EnqueueEvent(d, j, n)

HandlerStep(w) ==
  \/ BeginEvent(w) \/ LockSubscription(w) \/ ApplyEvent(w)
  \/ ProcessingFails(w) \/ MarkFailed(w)

BNext ==
  \/ \E d \in Deliveries : DeliveryStep(d)
  \/ \E w \in Workers :
       \/ WorkerStep(w) /\ UNCHANGED bvars
       \/ HandlerStep(w) \/ WorkerDies(w)
  \/ \E c \in Changers : \/ \E o \in Orgs, p \in Plans : StartChange(c, o, p)
                         \/ WriteChange(c)
  \/ \E o \in Orgs : DeleteOrg(o)

BSpec == BInit /\ [][BNext]_vars

\* Workers as in JobQueue; an open change-plan transaction ends.
BFairness ==
  /\ \A w \in Workers : /\ WF_vars(WorkerStep(w) /\ UNCHANGED bvars)
                        /\ WF_vars(HandlerStep(w))
  /\ \A c \in Changers : WF_vars(WriteChange(c))

BFairSpec == BSpec /\ BFairness

-----------------------------------------------------------------------------
(* Properties. *)

\* The tables, the locks and every process are in their types, and a lock is
\* held only by a transaction that is open at that point of the code.
BTypeOK ==
  /\ QTypeOK
  /\ event \in [Events -> {"absent", "PENDING", "FAILED", "PROCESSED"}]
  /\ alive \subseteq Orgs
  /\ sub \in [Orgs -> C!Subscription \cup {NoSub}]
  /\ \A o \in Orgs \ alive : sub[o] = NoSub /\ trail[o] = <<>>
  /\ trail \in [Orgs -> Seq(C!AuditRow)]
  /\ loaded \in [Clients -> C!Subscription \cup {NoSub}]
  /\ elock \in [Events -> Workers \cup {NoOne}]
  /\ olock \in [Orgs -> Clients \cup {NoOne}]
  /\ dpc \in [Deliveries -> {"idle", "insert", "enqueue"}]
  /\ delivered \in [Deliveries -> Events \cup {NoEvent}]
  /\ hpc \in [Workers -> {"start", "org", "apply", "mark"}]
  /\ cpc \in [Changers -> {"idle", "write"}]
  /\ change \in [Changers -> (Orgs \X Plans) \cup {<<>>}] /\ changes \in 0..MaxChanges
  /\ \A w \in Workers : hpc[w] # "start" => pc[w] = "handle"
  /\ \A e \in Events : elock[e] # NoOne =>
       hpc[elock[e]] \in {"org", "apply"} /\ HandledEvent(elock[e]) = e
  /\ \A o \in Orgs : olock[o] \in Workers =>
       hpc[olock[o]] = "apply" /\ HandledOrg(olock[o]) = o
  /\ \A o \in Orgs : olock[o] \in Changers => cpc[olock[o]] = "write"
  /\ jobEvent \in [JobIds -> Events \cup {NoEvent}]
  /\ accepted \subseteq Events

\* README: "webhook processing locks its event and commits billing changes with
\* the PROCESSED marker in one transaction" and "Repeated webhook delivery
\* returns the existing result without reapplying billing changes".  Through
\* crashes, lost commits, repeated jobs and overlapping workers, billing does
\* what BillingContract allows.
ExactlyOnce == C!CSpec

\* A delivery that was answered 202 is never forgotten: its event is PROCESSED,
\* or a job for it is waiting, in flight or buried.  The commit comes before the
\* enqueue and either may fail, so this is what redelivery has to repair.
AcceptedIsRemembered ==
  \A e \in accepted :
    \/ event[e] = "PROCESSED"
    \/ \E j \in JobIds : jobEvent[j] = e /\ (Listed(j) \/ Buried(j))

\* A job is acknowledged only when its event is PROCESSED: no handler returns
\* on the path of a failure.
DoneMeansProcessed == \A j \in done : event[jobEvent[j]] = "PROCESSED"

\* A delivery that was answered 202 ends: its event is PROCESSED, or a job for
\* it is buried after all its retries.  After a lost or repeated Redis command
\* this takes a restart of the worker (JobQueue!RestartRescues).
AcceptedEnds ==
  \A e \in Events :
    e \in accepted ~>
      \/ event[e] = "PROCESSED"
      \/ \E j \in JobIds : jobEvent[j] = e /\ Buried(j)
      \/ faults > 0

=============================================================================
