---------------------------- MODULE BillingProofs ----------------------------
(***************************************************************************)
(* BillingWebhooks implements JobQueue and BillingContract, for any number *)
(* of workers, events, deliveries, crashes and failing commands.           *)
(***************************************************************************)
EXTENDS BillingWebhooks, JobQueueProofs

-----------------------------------------------------------------------------
(* The inductive invariant. *)

\* A job that was sent names an event whose row was committed before.
JobsNameEvents == \A j \in sent : jobEvent[j] \in Events /\ event[jobEvent[j]] # "absent"

\* A delivery that goes on has an event, and one that enqueues has its row.
DeliveryKnown(d) ==
  /\ dpc[d] # "idle" => delivered[d] \in Events
  /\ dpc[d] = "enqueue" => event[delivered[d]] # "absent"

\* From the first SELECT ... FOR UPDATE to the commit the handler holds the row
\* of its event, which nobody marks meanwhile.
EventHeld(w) ==
  hpc[w] \in {"org", "apply"} =>
    elock[HandledEvent(w)] = w /\ event[HandledEvent(w)] # "PROCESSED"

\* About to write, a transaction holds the organization's row, and what it has
\* loaded is still the subscription.
OrgHeld(c, o) == olock[o] = c /\ o \in alive /\ loaded[c] = sub[o]
HandlerHeld(w) == EventHeld(w) /\ (hpc[w] = "apply" => OrgHeld(w, HandledOrg(w)))
ChangeHeld(c) ==
  cpc[c] = "write" => change[c] \in Orgs \X Plans /\ OrgHeld(c, change[c][1])

\* An accepted event is PROCESSED, or a job for it reached Redis.
AcceptedSent ==
  \A e \in accepted : event[e] = "PROCESSED" \/ \E j \in sent : jobEvent[j] = e

BillingInv ==
  /\ QInv /\ OnlySent /\ BTypeOK /\ JobsNameEvents
  /\ \A d \in Deliveries : DeliveryKnown(d)
  /\ \A w \in Workers : HandlerHeld(w)
  /\ \A c \in Changers : ChangeHeld(c)
  /\ AcceptedSent /\ DoneMeansProcessed

-----------------------------------------------------------------------------
(* Facts that the steps share. *)

USE BillingAssumption

\* A step of billing is a step of the queue, or leaves it alone.
LEMMA QueueStep == [BNext]_vars => [QNext]_qvars
<1> SUFFICES ASSUME [BNext]_vars PROVE [QNext]_qvars
  OBVIOUS
<1>1. ASSUME NEW d \in Deliveries, DeliveryStep(d) PROVE [QNext]_qvars
  BY <1>1 DEF DeliveryStep, Deliver, StoreEvent, DeliveryFails, EnqueueEvent, QNext
<1>2. ASSUME NEW w \in Workers, WorkerStep(w) PROVE QNext
  BY <1>2 DEF QNext
<1>3. ASSUME NEW w \in Workers, HandlerStep(w) PROVE [QNext]_qvars
  BY <1>3 DEF HandlerStep, BeginEvent, LockSubscription, ApplyEvent, ProcessingFails,
              MarkFailed, Reraise, QNext
<1>4. ASSUME NEW w \in Workers, WorkerDies(w) PROVE QNext
  BY <1>4 DEF WorkerDies, QNext
<1>5. ASSUME NEW c \in Changers, NEW o \in Orgs, NEW p \in Plans, StartChange(c, o, p)
      PROVE  [QNext]_qvars
  BY <1>5 DEF StartChange
<1>6. ASSUME NEW c \in Changers, WriteChange(c) PROVE [QNext]_qvars
  BY <1>6 DEF WriteChange, ChangeEnds
<1>7. ASSUME NEW o \in Orgs, DeleteOrg(o) PROVE [QNext]_qvars
  BY <1>7 DEF DeleteOrg
<1>8. CASE UNCHANGED vars
  BY <1>8 DEF vars
<1> QED BY <1>1, <1>2, <1>3, <1>4, <1>5, <1>6, <1>7, <1>8 DEF BNext

LEMMA QueueKept == BillingInv /\ [BNext]_vars => QInv' /\ OnlySent'
BY QueueStep, NextInv, OnlySentStep DEF BillingInv

\* A running handler has a job that was sent, and so an event that is stored.
LEMMA HandledKnown ==
  ASSUME BillingInv, NEW w \in Workers, pc[w] = "handle"
  PROVE  /\ job[w] \in Job /\ job[w].id \in sent /\ job[w].id \in JobIds
         /\ HandledEvent(w) \in Events /\ event[HandledEvent(w)] # "absent"
         /\ HandledOrg(w) \in Orgs
<1>1. job[w] \in Job /\ job[w] # NoJob
  BY DEF BillingInv, QInv, QTypeOK, Holding
<1>2. job[w].id \in sent /\ job[w].id \in JobIds
  BY <1>1 DEF BillingInv, OnlySent, Job
<1>3. HandledEvent(w) \in Events /\ event[HandledEvent(w)] # "absent"
  BY <1>2 DEF BillingInv, JobsNameEvents, HandledEvent
<1>4. Payload[HandledEvent(w)].org \in Orgs
  BY <1>3 DEF C!WellFormed, C!PayloadRecord
<1> QED BY <1>1, <1>2, <1>3, <1>4 DEF HandledOrg

Typed ==
  /\ event \in [Events -> {"absent", "PENDING", "FAILED", "PROCESSED"}]
  /\ dpc \in [Deliveries -> {"idle", "insert", "enqueue"}]
  /\ delivered \in [Deliveries -> Events \cup {NoEvent}]
  /\ jobEvent \in [JobIds -> Events \cup {NoEvent}]
  /\ accepted \subseteq Events

LEMMA TypedNow == BillingInv => Typed
BY DEF BillingInv, BTypeOK, Typed

\* What the steps of the route leave alone.
LEMMA RouteFrame ==
  ASSUME BillingInv, QInv', OnlySent',
         UNCHANGED <<pc, job, done, sub, alive, trail, txvars, hpc, cpc, change, changes>>,
         \A j \in sent : jobEvent'[j] = jobEvent[j],
         \A e \in Events : event[e] # "absent" => event'[e] = event[e],
         Typed'
  PROVE  /\ BTypeOK'
         /\ \A w \in Workers : HandlerHeld(w)'
         /\ \A c \in Changers : ChangeHeld(c)'
         /\ DoneMeansProcessed'
<1>1. ASSUME NEW w \in Workers, pc[w] = "handle"
      PROVE  HandledEvent(w)' = HandledEvent(w) /\ event'[HandledEvent(w)] = event[HandledEvent(w)]
  BY <1>1, HandledKnown DEF HandledEvent
<1>2. \A w \in Workers : hpc[w] # "start" => pc[w] = "handle"
  BY DEF BillingInv, BTypeOK
<1>3. \A w \in Workers : HandlerHeld(w)'
  BY <1>1, <1>2 DEF BillingInv, HandlerHeld, EventHeld, OrgHeld, HandledOrg, txvars
<1>4. \A c \in Changers : ChangeHeld(c)'
  BY DEF BillingInv, ChangeHeld, OrgHeld, txvars
<1>5. DoneMeansProcessed'
  <2> SUFFICES ASSUME NEW j \in done PROVE event'[jobEvent'[j]] = "PROCESSED"
    BY DEF DoneMeansProcessed
  <2>1. j \in sent /\ jobEvent[j] \in Events /\ event[jobEvent[j]] = "PROCESSED"
    BY DEF BillingInv, OnlySent, JobsNameEvents, DoneMeansProcessed
  <2> QED BY <2>1
<1>6. BTypeOK'
  <2>1. QTypeOK'
    BY DEF QInv
  <2>2. \A w \in Workers : hpc[w] # "start" =>
          HandledEvent(w)' = HandledEvent(w) /\ HandledOrg(w)' = HandledOrg(w)
    BY <1>1, <1>2 DEF HandledOrg
  <2> QED BY <2>1, <2>2 DEF BillingInv, BTypeOK, Typed, txvars
<1> QED BY <1>3, <1>4, <1>5, <1>6

LEMMA DeliverStep ==
  ASSUME BillingInv, QInv', OnlySent', NEW d \in Deliveries, NEW e \in Events, Deliver(d, e)
  PROVE  BillingInv'
<1>1. UNCHANGED <<qvars, rows, txvars, hpc, cpc, change, jobEvent, changes>>
  BY DEF Deliver
<1>2. /\ \/ dpc' = [dpc EXCEPT ![d] = "insert"] /\ delivered' = [delivered EXCEPT ![d] = e]
         \/ /\ dpc' = [dpc EXCEPT ![d] = "enqueue"] /\ delivered' = [delivered EXCEPT ![d] = e]
            /\ event[e] # "absent"
         \/ dpc' = [dpc EXCEPT ![d] = "idle"] /\ delivered' = [delivered EXCEPT ![d] = NoEvent]
      /\ \/ accepted' = accepted
         \/ accepted' = accepted \cup {e} /\ event[e] = "PROCESSED"
  BY DEF Deliver, AnswerOrEnqueue, DeliveryEnds, ShouldEnqueue
<1> USE DEF qvars, rows
<1>3. Typed'
  BY <1>1, <1>2, TypedNow DEF Typed
<1>4. /\ BTypeOK'
      /\ \A w \in Workers : HandlerHeld(w)'
      /\ \A c \in Changers : ChangeHeld(c)'
      /\ DoneMeansProcessed'
  BY <1>1, <1>3, RouteFrame
<1>5. JobsNameEvents' /\ AcceptedSent'
  BY <1>1, <1>2 DEF BillingInv, JobsNameEvents, AcceptedSent
<1>6. \A x \in Deliveries : DeliveryKnown(x)'
  BY <1>1, <1>2 DEF BillingInv, BTypeOK, DeliveryKnown
<1> QED BY <1>3, <1>4, <1>5, <1>6 DEF BillingInv

LEMMA StoreEventStep ==
  ASSUME BillingInv, QInv', OnlySent', NEW d \in Deliveries, StoreEvent(d)
  PROVE  BillingInv'
<1> DEFINE e == delivered[d]
<1>0. e \in Events
  BY DEF StoreEvent, BillingInv, DeliveryKnown
<1>1. UNCHANGED <<qvars, sub, alive, trail, txvars, hpc, cpc, change, jobEvent, changes>>
  BY DEF StoreEvent
<1>2. \/ /\ event[e] = "absent" /\ event' = [event EXCEPT ![e] = "PENDING"]
         /\ dpc' = [dpc EXCEPT ![d] = "enqueue"] /\ UNCHANGED <<delivered, accepted>>
      \/ /\ event[e] # "absent" /\ UNCHANGED <<event, accepted>>
         /\ dpc' = [dpc EXCEPT ![d] = "enqueue"] /\ delivered' = [delivered EXCEPT ![d] = e]
      \/ /\ event[e] = "PROCESSED" /\ UNCHANGED event /\ accepted' = accepted \cup {e}
         /\ dpc' = [dpc EXCEPT ![d] = "idle"] /\ delivered' = [delivered EXCEPT ![d] = NoEvent]
  BY DEF StoreEvent, AnswerOrEnqueue, DeliveryEnds, ShouldEnqueue
<1>3. /\ event' \in [Events -> {"absent", "PENDING", "FAILED", "PROCESSED"}]
      /\ \A f \in Events : event[f] # "absent" => event'[f] = event[f]
      /\ dpc' = [dpc EXCEPT ![d] = "enqueue"] => event'[e] # "absent"
  BY <1>0, <1>2 DEF BillingInv, BTypeOK
<1> HIDE DEF e
<1> USE DEF qvars
<1>4. Typed'
  BY <1>0, <1>1, <1>2, <1>3, TypedNow DEF Typed
<1>5. /\ BTypeOK'
      /\ \A w \in Workers : HandlerHeld(w)'
      /\ \A c \in Changers : ChangeHeld(c)'
      /\ DoneMeansProcessed'
  BY <1>1, <1>3, <1>4, RouteFrame
<1>6. JobsNameEvents'
  BY <1>1, <1>3 DEF BillingInv, JobsNameEvents
<1>7. AcceptedSent'
  <2>1. accepted \subseteq Events
    BY DEF BillingInv, BTypeOK
  <2> QED BY <1>1, <1>2, <1>3, <2>1 DEF BillingInv, AcceptedSent
<1>8. ASSUME NEW x \in Deliveries PROVE DeliveryKnown(x)'
  <2>1. CASE x = d
    BY <2>1, <1>0, <1>2, <1>3 DEF BillingInv, BTypeOK, DeliveryKnown, e
  <2>2. CASE x # d
    <3>1. dpc'[x] = dpc[x] /\ delivered'[x] = delivered[x]
      BY <2>2, <1>2 DEF BillingInv, BTypeOK
    <3> QED BY <3>1, <1>3 DEF BillingInv, DeliveryKnown
  <2> QED BY <2>1, <2>2
<1> QED BY <1>4, <1>5, <1>6, <1>7, <1>8 DEF BillingInv

LEMMA DeliveryFailsStep ==
  ASSUME BillingInv, QInv', OnlySent', NEW d \in Deliveries, DeliveryFails(d)
  PROVE  BillingInv'
<1> USE DEF DeliveryFails, DeliveryEnds, qvars, rows
<1>1. Typed'
  BY TypedNow DEF Typed
<1>2. /\ BTypeOK'
      /\ \A w \in Workers : HandlerHeld(w)'
      /\ \A c \in Changers : ChangeHeld(c)'
      /\ DoneMeansProcessed'
  BY <1>1, RouteFrame
<1>3. JobsNameEvents' /\ AcceptedSent'
  BY DEF BillingInv, JobsNameEvents, AcceptedSent
<1>4. \A x \in Deliveries : DeliveryKnown(x)'
  BY DEF BillingInv, BTypeOK, DeliveryKnown
<1> QED BY <1>1, <1>2, <1>3, <1>4 DEF BillingInv

LEMMA EnqueueEventStep ==
  ASSUME BillingInv, QInv', OnlySent', NEW d \in Deliveries, NEW j \in JobIds, NEW n \in 0..2,
         EnqueueEvent(d, j, n)
  PROVE  BillingInv'
<1> DEFINE e == delivered[d]
<1>0. e \in Events /\ event[e] # "absent"
  BY DEF EnqueueEvent, BillingInv, DeliveryKnown
<1>1. /\ UNCHANGED <<pc, job, done>> /\ j \notin sent
      /\ sent' = IF n = 0 THEN sent ELSE sent \cup {j}
      /\ UNCHANGED <<rows, txvars, hpc, cpc, change, changes>>
      /\ jobEvent' = [jobEvent EXCEPT ![j] = e]
      /\ accepted' = IF n = 0 THEN accepted ELSE accepted \cup {e}
      /\ dpc' = [dpc EXCEPT ![d] = "idle"] /\ delivered' = [delivered EXCEPT ![d] = NoEvent]
  BY DEF EnqueueEvent, Enqueue, DeliveryEnds
<1> HIDE DEF e
<1> USE DEF rows
<1>2. /\ jobEvent' \in [JobIds -> Events \cup {NoEvent}] /\ jobEvent'[j] = e
      /\ \A i \in sent : jobEvent'[i] = jobEvent[i]
  <2>1. jobEvent \in [JobIds -> Events \cup {NoEvent}] /\ sent \subseteq JobIds
    BY DEF BillingInv, BTypeOK, QInv, QTypeOK
  <2> QED BY <1>0, <1>1, <2>1
<1>3. Typed'
  BY <1>0, <1>1, <1>2, TypedNow DEF Typed
<1>4. /\ BTypeOK'
      /\ \A w \in Workers : HandlerHeld(w)'
      /\ \A c \in Changers : ChangeHeld(c)'
      /\ DoneMeansProcessed'
  BY <1>1, <1>2, <1>3, RouteFrame
<1>5. JobsNameEvents'
  BY <1>0, <1>1, <1>2 DEF BillingInv, JobsNameEvents
<1>6. AcceptedSent'
  BY <1>0, <1>1, <1>2 DEF BillingInv, AcceptedSent
<1>7. \A x \in Deliveries : DeliveryKnown(x)'
  BY <1>1 DEF BillingInv, BTypeOK, DeliveryKnown
<1> QED BY <1>3, <1>4, <1>5, <1>6, <1>7 DEF BillingInv

-----------------------------------------------------------------------------
(* Transactions. *)

\* The rest of BTypeOK: the variables of the transactions, ...
TypedTx ==
  /\ alive \subseteq Orgs
  /\ sub \in [Orgs -> C!Subscription \cup {NoSub}]
  /\ trail \in [Orgs -> Seq(C!AuditRow)]
  /\ \A o \in Orgs \ alive : sub[o] = NoSub /\ trail[o] = <<>>
  /\ cpc \in [Changers -> {"idle", "write"}]
  /\ change \in [Changers -> (Orgs \X Plans) \cup {<<>>}] /\ changes \in 0..MaxChanges

\* ... the handlers with their locks, ...
TypedLocks ==
  /\ loaded \in [Clients -> C!Subscription \cup {NoSub}]
  /\ elock \in [Events -> Workers \cup {NoOne}]
  /\ olock \in [Orgs -> Clients \cup {NoOne}]
  /\ hpc \in [Workers -> {"start", "org", "apply", "mark"}]

\* ... and whom the locks belong to.
LocksBelong ==
  /\ \A w \in Workers : hpc[w] # "start" => pc[w] = "handle"
  /\ \A w \in Workers, e \in Events : elock[e] = w =>
       hpc[w] \in {"org", "apply"} /\ HandledEvent(w) = e
  /\ \A w \in Workers, o \in Orgs : olock[o] = w => hpc[w] = "apply" /\ HandledOrg(w) = o
  /\ \A c \in Changers, o \in Orgs : olock[o] = c => cpc[c] = "write"

LEMMA TypeParts == BTypeOK => Typed /\ TypedTx /\ TypedLocks /\ LocksBelong
<1> SUFFICES ASSUME BTypeOK PROVE Typed /\ TypedTx /\ TypedLocks /\ LocksBelong
  OBVIOUS
<1>1. Typed /\ TypedTx /\ TypedLocks
  BY DEF BTypeOK, Typed, TypedTx, TypedLocks
<1>2. LocksBelong
  BY DEF BTypeOK, LocksBelong
<1> QED BY <1>1, <1>2

LEMMA TypePartsNext ==
  QTypeOK' /\ Typed' /\ TypedTx' /\ TypedLocks' /\ LocksBelong' => BTypeOK'
<1> SUFFICES ASSUME QTypeOK', Typed', TypedTx', TypedLocks', LocksBelong' PROVE BTypeOK'
  OBVIOUS
<1>1. \A e \in Events : elock'[e] # NoOne => elock'[e] \in Workers
  BY DEF TypedLocks
<1>2. \A e \in Events : elock'[e] # NoOne =>
        hpc'[elock'[e]] \in {"org", "apply"} /\ jobEvent'[job'[elock'[e]].id] = e
  BY <1>1 DEF LocksBelong, HandledEvent
<1>3. \A o \in Orgs : olock'[o] \in Workers =>
        hpc'[olock'[o]] = "apply" /\ Payload[jobEvent'[job'[olock'[o]].id]].org = o
  BY DEF LocksBelong, HandledEvent, HandledOrg
<1>4. /\ \A w \in Workers : hpc'[w] # "start" => pc'[w] = "handle"
      /\ \A o \in Orgs : olock'[o] \in Changers => cpc'[olock'[o]] = "write"
  BY DEF LocksBelong
<1> QED BY <1>2, <1>3, <1>4 DEF BTypeOK, Typed, TypedTx, TypedLocks, HandledEvent, HandledOrg

LEMMA TypedTxNow == BillingInv => Typed /\ TypedTx /\ TypedLocks /\ LocksBelong
BY TypeParts DEF BillingInv

\* Outside the route, an event is never forgotten and a PROCESSED one stays so.
LEMMA RouteKept ==
  ASSUME BillingInv, UNCHANGED <<sent, jobEvent, dpc, delivered, accepted>>,
         event' \in [Events -> {"absent", "PENDING", "FAILED", "PROCESSED"}],
         \A e \in Events : /\ event[e] # "absent" => event'[e] # "absent"
                           /\ event[e] = "PROCESSED" => event'[e] = "PROCESSED",
         \A j \in done' : j \in done \/ (j \in sent /\ event'[jobEvent[j]] = "PROCESSED")
  PROVE  /\ Typed' /\ JobsNameEvents' /\ AcceptedSent' /\ DoneMeansProcessed'
         /\ \A d \in Deliveries : DeliveryKnown(d)'
<1>1. Typed'
  BY TypedNow DEF Typed
<1>2. JobsNameEvents'
  BY DEF BillingInv, JobsNameEvents
<1>3. AcceptedSent'
  BY TypedNow DEF BillingInv, AcceptedSent, Typed
<1>4. \A d \in Deliveries : DeliveryKnown(d)'
  BY DEF BillingInv, DeliveryKnown
<1>5. DoneMeansProcessed'
  <2> SUFFICES ASSUME NEW j \in done' PROVE event'[jobEvent'[j]] = "PROCESSED"
    BY DEF DoneMeansProcessed
  <2>1. j \in done => j \in sent /\ event[jobEvent[j]] = "PROCESSED"
    BY DEF BillingInv, OnlySent, DoneMeansProcessed
  <2>2. j \in sent => jobEvent[j] \in Events
    BY DEF BillingInv, JobsNameEvents
  <2> QED BY <2>1, <2>2
<1> QED BY <1>1, <1>2, <1>3, <1>4, <1>5

\* A handler keeps what it holds through a step that respects its locks.
LEMMA HandlerKept ==
  ASSUME BillingInv, UNCHANGED jobEvent, NEW v \in Workers,
         hpc'[v] = hpc[v], loaded'[v] = loaded[v], pc[v] = "handle" => job'[v] = job[v],
         \A e \in Events : elock[e] = v => elock'[e] = v /\ event'[e] = event[e],
         \A o \in alive : olock[o] = v => olock'[o] = v /\ o \in alive' /\ sub'[o] = sub[o]
  PROVE  HandlerHeld(v)'
<1>1. CASE hpc[v] = "start"
  BY <1>1 DEF HandlerHeld, EventHeld
<1>2. CASE hpc[v] # "start"
  <2>1. pc[v] = "handle"
    BY <1>2, TypedTxNow DEF LocksBelong
  <2>2. HandledEvent(v) \in Events /\ HandledOrg(v) \in Orgs
    BY <2>1, HandledKnown
  <2>3. HandledEvent(v)' = HandledEvent(v) /\ HandledOrg(v)' = HandledOrg(v)
    BY <2>1 DEF HandledEvent, HandledOrg
  <2> QED BY <2>2, <2>3 DEF BillingInv, HandlerHeld, EventHeld, OrgHeld
<1> QED BY <1>1, <1>2

\* So does a plan change.
LEMMA ChangeKept ==
  ASSUME BillingInv, NEW c \in Changers,
         cpc'[c] = cpc[c], change'[c] = change[c], loaded'[c] = loaded[c],
         \A o \in alive : olock[o] = c => olock'[o] = c /\ o \in alive' /\ sub'[o] = sub[o]
  PROVE  ChangeHeld(c)'
<1>1. CASE cpc[c] = "write"
  <2>1. change[c] \in Orgs \X Plans /\ change[c][1] \in Orgs /\ OrgHeld(c, change[c][1])
    BY <1>1 DEF BillingInv, ChangeHeld
  <2> QED BY <2>1 DEF ChangeHeld, OrgHeld
<1>2. CASE cpc[c] # "write"
  BY <1>2 DEF ChangeHeld
<1> QED BY <1>1, <1>2

\* Commit and rollback release what the transaction holds and nothing else.
LEMMA Ended ==
  ASSUME TypedLocks, NEW c \in Clients, EndTransaction(c)
  PROVE  /\ loaded' \in [Clients -> C!Subscription \cup {NoSub}]
         /\ elock' \in [Events -> Workers \cup {NoOne}]
         /\ olock' \in [Orgs -> Clients \cup {NoOne}]
         /\ \A e \in Events : elock'[e] = IF elock[e] = c THEN NoOne ELSE elock[e]
         /\ \A o \in Orgs : olock'[o] = IF olock[o] = c THEN NoOne ELSE olock[o]
         /\ \A d \in Clients : d # c => loaded'[d] = loaded[d]
BY DEF TypedLocks, EndTransaction, Released

\* A worker outside its handler: nothing of billing changes.
LEMMA WorkerStepStep ==
  ASSUME BillingInv, QInv', OnlySent', NEW w \in Workers, WorkerStep(w), UNCHANGED bvars
  PROVE  BillingInv'
<1> USE DEF bvars
<1>1. /\ UNCHANGED <<sent, done>>
      /\ \A v \in Workers : pc[v] = "handle" => pc'[v] = "handle" /\ job'[v] = job[v]
  BY WorkerStepFrame DEF BillingInv, history
<1>2. Typed /\ TypedTx /\ TypedLocks /\ LocksBelong
  BY TypedTxNow
<1>3. /\ Typed' /\ JobsNameEvents' /\ AcceptedSent' /\ DoneMeansProcessed'
      /\ \A d \in Deliveries : DeliveryKnown(d)'
  BY <1>1, <1>2, RouteKept DEF Typed
<1>4. \A v \in Workers : HandlerHeld(v)'
  BY <1>1, HandlerKept
<1>5. \A c \in Changers : ChangeHeld(c)'
  BY DEF BillingInv, ChangeHeld, OrgHeld
<1>6. LocksBelong'
  <2>1. \A v \in Workers : hpc[v] # "start" =>
          /\ pc'[v] = "handle"
          /\ HandledEvent(v)' = HandledEvent(v) /\ HandledOrg(v)' = HandledOrg(v)
    BY <1>1, <1>2 DEF LocksBelong, HandledEvent, HandledOrg
  <2> QED BY <1>2, <2>1 DEF LocksBelong
<1>7. TypedTx' /\ TypedLocks'
  BY <1>2 DEF TypedTx, TypedLocks
<1>8. BTypeOK'
  BY <1>3, <1>6, <1>7, TypePartsNext DEF QInv
<1> QED BY <1>3, <1>4, <1>5, <1>8 DEF BillingInv

-----------------------------------------------------------------------------
(* The handler. *)

\* The commit or rollback of one transaction disturbs no other.
LEMMA OthersEnded ==
  ASSUME BillingInv, NEW c \in Clients, EndTransaction(c), UNCHANGED <<jobEvent, alive>>,
         \A v \in Workers : v # c => job'[v] = job[v],
         \A e \in Events : elock[e] # c => event'[e] = event[e],
         \A o \in Orgs : olock[o] # c => sub'[o] = sub[o]
  PROVE  /\ \A v \in Workers : v # c /\ hpc'[v] = hpc[v] => HandlerHeld(v)'
         /\ \A d \in Changers : d # c /\ cpc'[d] = cpc[d] /\ change'[d] = change[d] => ChangeHeld(d)'
<1>1. /\ \A e \in Events : elock'[e] = IF elock[e] = c THEN NoOne ELSE elock[e]
      /\ \A o \in Orgs : olock'[o] = IF olock[o] = c THEN NoOne ELSE olock[o]
      /\ \A d \in Clients : d # c => loaded'[d] = loaded[d]
      /\ alive \subseteq Orgs
  BY Ended, TypedTxNow DEF TypedTx
<1>2. ASSUME NEW v \in Workers, v # c, hpc'[v] = hpc[v] PROVE HandlerHeld(v)'
  BY <1>1, <1>2, HandlerKept DEF Clients
<1>3. ASSUME NEW d \in Changers, d # c, cpc'[d] = cpc[d], change'[d] = change[d]
      PROVE  ChangeHeld(d)'
  BY <1>1, <1>3, ChangeKept DEF Clients
<1> QED BY <1>2, <1>3

\* A worker that has ended its transaction holds no lock.
LEMMA LocksLeft ==
  ASSUME BillingInv, NEW w \in Workers, NEW step \in {"start", "mark"},
         EndTransaction(w), HandlerAt(w, step), UNCHANGED <<jobEvent, cpc>>,
         \A v \in Workers : v # w => pc'[v] = pc[v] /\ job'[v] = job[v],
         step = "mark" => pc'[w] = "handle"
  PROVE  TypedLocks' /\ LocksBelong'
<1>1. Typed /\ TypedTx /\ TypedLocks /\ LocksBelong
  BY TypedTxNow
<1>2. /\ loaded' \in [Clients -> C!Subscription \cup {NoSub}]
      /\ elock' \in [Events -> Workers \cup {NoOne}]
      /\ olock' \in [Orgs -> Clients \cup {NoOne}]
      /\ \A e \in Events : elock'[e] = IF elock[e] = w THEN NoOne ELSE elock[e]
      /\ \A o \in Orgs : olock'[o] = IF olock[o] = w THEN NoOne ELSE olock[o]
  BY <1>1, Ended DEF Clients
<1>3. /\ hpc' \in [Workers -> {"start", "org", "apply", "mark"}]
      /\ hpc'[w] = step /\ \A v \in Workers : v # w => hpc'[v] = hpc[v]
  BY <1>1 DEF TypedLocks, HandlerAt
<1>4. TypedLocks'
  BY <1>2, <1>3 DEF TypedLocks
<1>5. \A v \in Workers : v # w =>
        HandledEvent(v)' = HandledEvent(v) /\ HandledOrg(v)' = HandledOrg(v)
  BY DEF HandledEvent, HandledOrg
<1>6. LocksBelong'
  <2>1. \A v \in Workers : hpc'[v] # "start" => pc'[v] = "handle"
    BY <1>1, <1>3 DEF LocksBelong
  <2>2. ASSUME NEW v \in Workers, NEW e \in Events, elock'[e] = v
        PROVE  hpc'[v] \in {"org", "apply"} /\ HandledEvent(v)' = e
    <3>1. v # w /\ elock[e] = v
      BY <2>2, <1>2
    <3> QED BY <3>1, <1>1, <1>3, <1>5 DEF LocksBelong
  <2>3. ASSUME NEW v \in Workers, NEW o \in Orgs, olock'[o] = v
        PROVE  hpc'[v] = "apply" /\ HandledOrg(v)' = o
    <3>1. v # w /\ olock[o] = v
      BY <2>3, <1>2
    <3> QED BY <3>1, <1>1, <1>3, <1>5 DEF LocksBelong
  <2>4. ASSUME NEW c \in Changers, NEW o \in Orgs, olock'[o] = c PROVE cpc'[c] = "write"
    <3>1. olock[o] = c
      BY <2>4, <1>2
    <3> QED BY <3>1, <1>1 DEF LocksBelong
  <2> QED BY <2>1, <2>2, <2>3, <2>4 DEF LocksBelong
<1> QED BY <1>4, <1>6

LEMMA BeginEventStep ==
  ASSUME BillingInv, QInv', OnlySent', NEW w \in Workers, BeginEvent(w)
  PROVE  BillingInv'
<1> DEFINE e == HandledEvent(w)
<1>1. Typed /\ TypedTx /\ TypedLocks /\ LocksBelong
  BY TypedTxNow
<1>2. /\ pc[w] = "handle" /\ hpc[w] = "start" /\ elock[e] = NoOne
      /\ UNCHANGED <<rows, olock, loaded, dpc, delivered, cpc, change, jobEvent, accepted, changes>>
  BY DEF BeginEvent, At, FreeRow
<1>3. e \in Events /\ event[e] # "absent" /\ job[w].id \in sent
  BY <1>2, HandledKnown
<1>4. \/ /\ event[e] = "PROCESSED" /\ UNCHANGED <<hpc, elock, job, sent>>
         /\ done' = done \cup {job[w].id} /\ pc' = [pc EXCEPT ![w] = "ack"]
      \/ /\ event[e] # "PROCESSED" /\ UNCHANGED <<job, sent, done, pc>>
         /\ hpc' = [hpc EXCEPT ![w] = "org"] /\ elock' = [elock EXCEPT ![e] = w]
  BY DEF BeginEvent, HandlerReturns, HandlerAt, GoTo, qvars
<1> USE DEF rows
<1>5. /\ Typed' /\ JobsNameEvents' /\ AcceptedSent' /\ DoneMeansProcessed'
      /\ \A d \in Deliveries : DeliveryKnown(d)'
  <2>1. \A j \in done' : j \in done \/ (j \in sent /\ event[jobEvent[j]] = "PROCESSED")
    BY <1>3, <1>4 DEF HandledEvent
  <2> QED BY <1>1, <1>2, <1>4, <2>1, RouteKept DEF Typed
<1>6. \A c \in Changers : ChangeHeld(c)'
  BY <1>2, ChangeKept
<1>7. /\ \A v \in Workers : HandledEvent(v)' = HandledEvent(v) /\ HandledOrg(v)' = HandledOrg(v)
      /\ HandledEvent(w)' = e
  BY <1>2, <1>4 DEF HandledEvent, HandledOrg
<1> HIDE DEF e
<1>8. /\ elock' \in [Events -> Workers \cup {NoOne}]
      /\ hpc' \in [Workers -> {"start", "org", "apply", "mark"}]
      /\ \A v \in Workers : v # w => hpc'[v] = hpc[v] /\ pc'[v] = pc[v]
      /\ \A f \in Events : f # e => elock'[f] = elock[f]
      /\ \/ hpc'[w] = "start" /\ elock'[e] = NoOne
         \/ hpc'[w] = "org" /\ pc'[w] = "handle" /\ elock'[e] = w /\ event[e] # "PROCESSED"
  <2>1. pc \in [Workers -> Steps] /\ w # NoOne
    BY DEF BillingInv, QInv, QTypeOK
  <2> QED BY <2>1, <1>1, <1>2, <1>3, <1>4 DEF TypedLocks
<1>9. ASSUME NEW v \in Workers PROVE HandlerHeld(v)'
  <2>1. CASE v = w
    BY <2>1, <1>2, <1>7, <1>8 DEF HandlerHeld, EventHeld
  <2>2. CASE v # w
    <3>1. \A f \in Events : elock[f] = v => elock'[f] = v
      BY <1>2, <1>8
    <3> QED BY <2>2, <3>1, <1>1, <1>2, <1>4, <1>8, HandlerKept DEF TypedTx
  <2> QED BY <2>1, <2>2
<1>10. LocksBelong'
  <2>1. \A v \in Workers : hpc'[v] # "start" => pc'[v] = "handle"
    BY <1>1, <1>8 DEF LocksBelong
  <2>2. ASSUME NEW v \in Workers, NEW f \in Events, elock'[f] = v
        PROVE  hpc'[v] \in {"org", "apply"} /\ HandledEvent(v)' = f
    <3>1. CASE f = e
      BY <2>2, <3>1, <1>7, <1>8
    <3>2. CASE f # e
      <4>1. elock[f] = v /\ hpc[v] \in {"org", "apply"} /\ HandledEvent(v) = f
        BY <2>2, <3>2, <1>1, <1>8 DEF LocksBelong
      <4>2. v # w
        BY <4>1, <1>2
      <4> QED BY <4>1, <4>2, <1>7, <1>8
    <3> QED BY <3>1, <3>2
  <2>3. ASSUME NEW v \in Workers, NEW o \in Orgs, olock[o] = v
        PROVE  hpc'[v] = "apply" /\ HandledOrg(v)' = o
    <3>1. hpc[v] = "apply" /\ HandledOrg(v) = o /\ v # w
      BY <2>3, <1>1, <1>2 DEF LocksBelong
    <3> QED BY <3>1, <1>7, <1>8
  <2>4. \A c \in Changers, o \in Orgs : olock'[o] = c => cpc'[c] = "write"
    BY <1>1, <1>2 DEF LocksBelong
  <2> QED BY <2>1, <2>2, <2>3, <2>4, <1>2 DEF LocksBelong
<1>11. TypedTx' /\ TypedLocks'
  BY <1>1, <1>2, <1>8 DEF TypedTx, TypedLocks
<1>12. BTypeOK'
  BY <1>5, <1>10, <1>11, TypePartsNext DEF QInv
<1> QED BY <1>5, <1>6, <1>9, <1>12 DEF BillingInv

\* The handler leaves its transaction, by a commit that wrote under its locks or
\* by a rollback, or dies in it.
LEMMA HandlerEnds ==
  ASSUME BillingInv, QInv', OnlySent', NEW w \in Workers, NEW step \in {"start", "mark"},
         EndTransaction(w), HandlerAt(w, step),
         UNCHANGED <<sent, alive, dpc, delivered, cpc, change, jobEvent, accepted>>,
         \A v \in Workers : v # w => pc'[v] = pc[v] /\ job'[v] = job[v],
         step = "mark" => pc'[w] = "handle",
         event' \in [Events -> {"absent", "PENDING", "FAILED", "PROCESSED"}],
         \A e \in Events : /\ elock[e] # w => event'[e] = event[e]
                           /\ event[e] # "absent" => event'[e] # "absent"
                           /\ event[e] = "PROCESSED" => event'[e] = "PROCESSED",
         \A o \in Orgs : olock[o] # w => sub'[o] = sub[o],
         \A j \in done' : j \in done \/ (j \in sent /\ event'[jobEvent[j]] = "PROCESSED"),
         TypedTx'
  PROVE  BillingInv'
<1>1. w \in Clients /\ w \notin Changers
  BY DEF Clients
<1>2. hpc'[w] = step /\ \A v \in Workers : v # w => hpc'[v] = hpc[v]
  BY TypedTxNow DEF TypedLocks, HandlerAt
<1>3. /\ Typed' /\ JobsNameEvents' /\ AcceptedSent' /\ DoneMeansProcessed'
      /\ \A d \in Deliveries : DeliveryKnown(d)'
  BY RouteKept
<1>4. /\ \A v \in Workers : v # w /\ hpc'[v] = hpc[v] => HandlerHeld(v)'
      /\ \A d \in Changers : d # w /\ cpc'[d] = cpc[d] /\ change'[d] = change[d] => ChangeHeld(d)'
  BY <1>1, OthersEnded
<1>5. \A v \in Workers : HandlerHeld(v)'
  <2>1. HandlerHeld(w)'
    BY <1>2 DEF HandlerHeld, EventHeld
  <2> QED BY <2>1, <1>2, <1>4
<1>6. \A c \in Changers : ChangeHeld(c)'
  BY <1>1, <1>4
<1>7. TypedLocks' /\ LocksBelong'
  BY LocksLeft
<1>8. BTypeOK'
  BY <1>3, <1>7, TypePartsNext DEF QInv
<1> QED BY <1>3, <1>5, <1>6, <1>8 DEF BillingInv

\* The organization is there, is locked and its subscription is read; or it is
\* gone and the transaction is rolled back.
LEMMA LockSubscriptionStep ==
  ASSUME BillingInv, QInv', OnlySent', NEW w \in Workers, LockSubscription(w)
  PROVE  BillingInv'
<1> DEFINE o == HandledOrg(w)
<1> USE DEF qvars, rows
<1>1. Typed /\ TypedTx /\ TypedLocks /\ LocksBelong
  BY TypedTxNow
<1>2. /\ pc[w] = "handle" /\ hpc[w] = "org" /\ olock[o] = NoOne
      /\ UNCHANGED <<qvars, rows, dpc, delivered, cpc, change, jobEvent, accepted, changes>>
  BY DEF LockSubscription, At, FreeRow
<1>3. o \in Orgs
  BY <1>2, HandledKnown
<1>4. CASE o \notin alive
  <2>1. EndTransaction(w) /\ HandlerAt(w, "mark")
    BY <1>4 DEF LockSubscription
  <2>2. TypedTx'
    BY <1>1, <1>2 DEF TypedTx
  <2> QED BY <1>1, <1>2, <2>1, <2>2, HandlerEnds DEF Typed
<1>5. CASE o \in alive
  <2>1. /\ olock' = [olock EXCEPT ![o] = w] /\ loaded' = [loaded EXCEPT ![w] = sub[o]]
        /\ hpc' = [hpc EXCEPT ![w] = "apply"] /\ UNCHANGED elock
    BY <1>5 DEF LockSubscription, HandlerAt
  <2>2. /\ \A v \in Workers : HandledEvent(v)' = HandledEvent(v) /\ HandledOrg(v)' = HandledOrg(v)
        /\ HandledOrg(w)' = o
    BY <1>2 DEF HandledEvent, HandledOrg
  <2> HIDE DEF o
  <2>3. /\ olock' \in [Orgs -> Clients \cup {NoOne}]
        /\ hpc' \in [Workers -> {"start", "org", "apply", "mark"}]
        /\ hpc'[w] = "apply" /\ \A v \in Workers : v # w => hpc'[v] = hpc[v]
        /\ olock'[o] = w /\ \A u \in Orgs : u # o => olock'[u] = olock[u]
    BY <1>1, <1>3, <2>1 DEF TypedLocks, Clients
  <2>4. /\ loaded' \in [Clients -> C!Subscription \cup {NoSub}]
        /\ loaded'[w] = sub[o] /\ \A c \in Clients : c # w => loaded'[c] = loaded[c]
    <3>1. sub[o] \in C!Subscription \cup {NoSub}
      BY <1>1, <1>3 DEF TypedTx
    <3>2. loaded \in [Clients -> C!Subscription \cup {NoSub}] /\ w \in Clients
      BY <1>1 DEF TypedLocks, Clients
    <3> QED BY <2>1, <3>1, <3>2
  <2>5. /\ Typed' /\ JobsNameEvents' /\ AcceptedSent' /\ DoneMeansProcessed'
        /\ \A d \in Deliveries : DeliveryKnown(d)'
    BY <1>1, <1>2, RouteKept DEF Typed
  <2>6. \A u \in alive, c \in Clients : olock[u] = c => olock'[u] = c
    BY <1>1, <1>2, <2>3 DEF Clients, TypedTx
  <2>7. ASSUME NEW c \in Changers PROVE ChangeHeld(c)'
    <3>1. c \in Clients /\ c # w
      BY DEF Clients
    <3> QED BY <1>2, <2>4, <2>6, <3>1, ChangeKept
  <2>8. ASSUME NEW v \in Workers PROVE HandlerHeld(v)'
    <3>1. CASE v = w
      <4>1. EventHeld(w)'
        <5>1. elock[HandledEvent(w)] = w /\ event[HandledEvent(w)] # "PROCESSED"
          BY <1>2 DEF BillingInv, HandlerHeld, EventHeld
        <5> QED BY <5>1, <1>2, <2>1, <2>2 DEF EventHeld
      <4>2. olock'[o] = w /\ o \in alive' /\ loaded'[w] = sub'[o]
        BY <1>2, <1>5, <2>3, <2>4
      <4> QED BY <3>1, <4>1, <4>2, <2>2 DEF HandlerHeld, OrgHeld
    <3>2. CASE v # w
      <4>1. v \in Clients
        BY DEF Clients
      <4> QED BY <1>2, <2>1, <2>3, <2>4, <2>6, <3>2, <4>1, HandlerKept
    <3> QED BY <3>1, <3>2
  <2>9. LocksBelong'
    <3>1. \A v \in Workers : hpc'[v] # "start" => pc'[v] = "handle"
      BY <1>1, <1>2, <2>3 DEF LocksBelong
    <3>2. \A v \in Workers, e \in Events : elock'[e] = v =>
            hpc'[v] \in {"org", "apply"} /\ HandledEvent(v)' = e
      BY <1>1, <2>1, <2>2, <2>3 DEF LocksBelong
    <3>3. ASSUME NEW v \in Workers, NEW u \in Orgs, olock'[u] = v
          PROVE  hpc'[v] = "apply" /\ HandledOrg(v)' = u
      BY <3>3, <1>1, <2>2, <2>3 DEF LocksBelong
    <3>4. \A c \in Changers, u \in Orgs : olock'[u] = c => cpc'[c] = "write"
      BY <1>1, <1>2, <2>3 DEF LocksBelong
    <3> QED BY <3>1, <3>2, <3>3, <3>4 DEF LocksBelong
  <2>10. TypedTx' /\ TypedLocks'
    BY <1>1, <1>2, <2>1, <2>3, <2>4 DEF TypedTx, TypedLocks
  <2>11. BTypeOK'
    BY <2>5, <2>9, <2>10, TypePartsNext DEF QInv
  <2> QED BY <2>5, <2>7, <2>8, <2>11 DEF BillingInv
<1> QED BY <1>4, <1>5

\* When what was read is still the row, the columns that are written are all
\* that differ: the row becomes the new value.
LEMMA FlushedNew ==
  ASSUME NEW row \in C!Subscription \cup {NoSub}, NEW new \in C!Subscription
  PROVE  Flushed(row, row, new) = new
<1>1. CASE row = NoSub
  BY <1>1 DEF Flushed
<1>2. CASE row \in C!Subscription
  <2>1. row # NoSub
    BY <1>2 DEF C!WellFormed
  <2> QED BY <1>2, <2>1 DEF Flushed, C!Subscription
<1> QED BY <1>1, <1>2

LEMMA EffectTyped ==
  ASSUME NEW e \in Events, NEW s \in C!Subscription \cup {NoSub}
  PROVE  /\ C!OrDefault(s) \in C!Subscription /\ C!OrDefault(s).plan \in Plans
         /\ C!Effect(e, C!OrDefault(s)) \in C!Subscription
         /\ C!Effect(e, C!OrDefault(s)).plan \in Plans
<1>1. C!OrDefault(s) \in C!Subscription
  BY DEF C!OrDefault, C!DefaultSubscription, C!Subscription, C!Statuses, C!WellFormed
<1>2. Payload[e] \in C!PayloadRecord
  BY DEF C!WellFormed
<1>3. C!Effect(e, C!OrDefault(s)) \in C!Subscription
  BY <1>1, <1>2 DEF C!PayloadRecord, C!EventTypes, C!Effect, C!Subscription, C!Statuses
<1> QED BY <1>1, <1>3 DEF C!Subscription

\* The effect of the handler's commit on the tables.
LEMMA Applied ==
  ASSUME BillingInv, NEW w \in Workers, ApplyEvent(w)
  PROVE  LET e == HandledEvent(w)
             o == HandledOrg(w)
             old == C!OrDefault(sub[o])
             new == C!Effect(e, old) IN
         /\ pc[w] = "handle" /\ job[w].id \in sent
         /\ e \in Events /\ event[e] \notin {"absent", "PROCESSED"} /\ elock[e] = w
         /\ o \in alive /\ o \in Orgs /\ olock[o] = w
         /\ new \in C!Subscription /\ old.plan \in Plans /\ new.plan \in Plans
         /\ sub' = [sub EXCEPT ![o] = new]
         /\ trail' = [trail EXCEPT ![o] = C!Logged(@, e, old.plan, new.plan)]
         /\ event' = [event EXCEPT ![e] = "PROCESSED"]
<1> DEFINE e == HandledEvent(w)
           o == HandledOrg(w)
           old == C!OrDefault(sub[o])
           new == C!Effect(e, old)
<1>1. pc[w] = "handle" /\ hpc[w] = "apply"
  BY DEF ApplyEvent, At
<1>2. job[w].id \in sent /\ e \in Events /\ event[e] # "absent" /\ o \in Orgs
  BY <1>1, HandledKnown
<1>3. /\ elock[e] = w /\ event[e] # "PROCESSED" /\ olock[o] = w /\ o \in alive
      /\ loaded[w] = sub[o]
  BY <1>1 DEF BillingInv, HandlerHeld, EventHeld, OrgHeld
<1>4. sub[o] \in C!Subscription \cup {NoSub} /\ sub \in [Orgs -> C!Subscription \cup {NoSub}]
  BY <1>2, TypedTxNow DEF TypedTx
<1>5. new \in C!Subscription /\ old.plan \in Plans /\ new.plan \in Plans
  BY <1>2, <1>4, EffectTyped
<1>6. Flushed(sub[o], loaded[w], new) = new
  BY <1>3, <1>4, <1>5, FlushedNew
<1>7. /\ sub' = [sub EXCEPT ![o] = Flushed(sub[o], loaded[w], new)]
      /\ trail' = [trail EXCEPT ![o] = C!Logged(@, e, old.plan, new.plan)]
      /\ event' = [event EXCEPT ![e] = "PROCESSED"]
  <2> HIDE DEF C!Logged, C!Effect, C!OrDefault, Flushed
  <2> QED BY <1>3 DEF ApplyEvent
<1> QED BY <1>1, <1>2, <1>3, <1>5, <1>6, <1>7

LEMMA ApplyEventStep ==
  ASSUME BillingInv, QInv', OnlySent', NEW w \in Workers, ApplyEvent(w)
  PROVE  BillingInv'
<1> DEFINE e == HandledEvent(w)
           o == HandledOrg(w)
           old == C!OrDefault(sub[o])
           new == C!Effect(e, old)
           row == [event |-> e, from |-> old.plan, to |-> new.plan]
<1>1. /\ pc[w] = "handle" /\ job[w].id \in sent
      /\ e \in Events /\ event[e] \notin {"absent", "PROCESSED"} /\ elock[e] = w
      /\ o \in alive /\ o \in Orgs /\ olock[o] = w
      /\ new \in C!Subscription /\ old.plan \in Plans /\ new.plan \in Plans
      /\ sub' = [sub EXCEPT ![o] = new]
      /\ trail' = [trail EXCEPT ![o] = Append(@, row)]
      /\ event' = [event EXCEPT ![e] = "PROCESSED"]
  BY Applied DEF C!Logged
<1>2. row \in C!AuditRow
  BY <1>1 DEF C!AuditRow
<1>3. /\ EndTransaction(w)
      /\ UNCHANGED <<alive, dpc, delivered, cpc, change, jobEvent, accepted, changes>>
      /\ \/ /\ done' = done \cup {job[w].id} /\ pc' = [pc EXCEPT ![w] = "ack"]
            /\ UNCHANGED <<sent, job>> /\ HandlerAt(w, "start")
         \/ UNCHANGED <<pc, job, sent, done>> /\ HandlerAt(w, "mark")
  BY DEF ApplyEvent, HandlerReturns, GoTo, qvars
<1>4. Typed /\ TypedTx
  BY TypedTxNow
<1>5. jobEvent[job[w].id] = e
  BY DEF HandledEvent
<1> HIDE DEF e, o, new, row
<1>6. /\ event' \in [Events -> {"absent", "PENDING", "FAILED", "PROCESSED"}]
      /\ event'[e] = "PROCESSED" /\ \A f \in Events : f # e => event'[f] = event[f]
  BY <1>1, <1>4 DEF Typed
<1>7. /\ sub' \in [Orgs -> C!Subscription \cup {NoSub}]
      /\ \A u \in Orgs : u # o => sub'[u] = sub[u]
  BY <1>1, <1>4 DEF TypedTx
<1>8. /\ trail' \in [Orgs -> Seq(C!AuditRow)]
      /\ \A u \in Orgs : u # o => trail'[u] = trail[u]
  <2>1. trail \in [Orgs -> Seq(C!AuditRow)]
    BY <1>4 DEF TypedTx
  <2>2. Append(trail[o], row) \in Seq(C!AuditRow)
    BY <1>1, <1>2, <2>1
  <2> QED BY <1>1, <2>1, <2>2
<1>9. TypedTx'
  BY <1>1, <1>3, <1>4, <1>7, <1>8 DEF TypedTx
<1>10. /\ \A v \in Workers : v # w => pc'[v] = pc[v] /\ job'[v] = job[v]
       /\ UNCHANGED sent
       /\ \A j \in done' : j \in done \/ (j \in sent /\ event'[jobEvent[j]] = "PROCESSED")
  <2>1. pc \in [Workers -> Steps]
    BY DEF BillingInv, QInv, QTypeOK
  <2> QED BY <1>1, <1>3, <1>5, <1>6, <2>1
<1>11. \/ HandlerAt(w, "start")
       \/ HandlerAt(w, "mark") /\ pc'[w] = "handle"
  BY <1>1, <1>3
<1>12. /\ \A f \in Events : /\ elock[f] # w => event'[f] = event[f]
                            /\ event[f] # "absent" => event'[f] # "absent"
                            /\ event[f] = "PROCESSED" => event'[f] = "PROCESSED"
       /\ \A u \in Orgs : olock[u] # w => sub'[u] = sub[u]
  BY <1>1, <1>6, <1>7
<1>13. UNCHANGED <<sent, alive, dpc, delivered, cpc, change, jobEvent, accepted>>
  BY <1>3, <1>10
<1>14. CASE HandlerAt(w, "start")
  BY <1>3, <1>6, <1>9, <1>10, <1>12, <1>13, <1>14, HandlerEnds
<1>15. CASE HandlerAt(w, "mark") /\ pc'[w] = "handle"
  BY <1>3, <1>6, <1>9, <1>10, <1>12, <1>13, <1>15, HandlerEnds
<1> QED BY <1>11, <1>14, <1>15

LEMMA ProcessingFailsStep ==
  ASSUME BillingInv, QInv', OnlySent', NEW w \in Workers, ProcessingFails(w)
  PROVE  BillingInv'
<1>1. /\ EndTransaction(w) /\ HandlerAt(w, "mark") /\ pc[w] = "handle"
      /\ UNCHANGED <<qvars, rows, dpc, delivered, cpc, change, jobEvent, accepted, changes>>
  BY DEF ProcessingFails
<1>2. Typed /\ TypedTx
  BY TypedTxNow
<1> USE DEF qvars, rows
<1>3. TypedTx'
  BY <1>1, <1>2 DEF TypedTx
<1> QED BY <1>1, <1>2, <1>3, HandlerEnds DEF Typed

LEMMA WorkerDiesStep ==
  ASSUME BillingInv, QInv', OnlySent', NEW w \in Workers, WorkerDies(w)
  PROVE  BillingInv'
<1>1. /\ EndTransaction(w) /\ HandlerAt(w, "start") /\ UNCHANGED <<sent, done>>
      /\ pc' = [pc EXCEPT ![w] = "down"] /\ job' = [job EXCEPT ![w] = NoJob]
      /\ UNCHANGED <<rows, dpc, delivered, cpc, change, jobEvent, accepted, changes>>
  BY DEF WorkerDies, Crash, GoTo, Drop, history
<1>2. Typed /\ TypedTx
  BY TypedTxNow
<1> USE DEF rows
<1>3. TypedTx'
  BY <1>1, <1>2 DEF TypedTx
<1>4. \A v \in Workers : v # w => pc'[v] = pc[v] /\ job'[v] = job[v]
  BY <1>1 DEF BillingInv, QInv, QTypeOK
<1> QED BY <1>1, <1>2, <1>3, <1>4, HandlerEnds DEF Typed

\* mark_webhook_failed writes a row that nobody has locked, and never one that
\* is PROCESSED.
LEMMA MarkFailedStep ==
  ASSUME BillingInv, QInv', OnlySent', NEW w \in Workers, MarkFailed(w)
  PROVE  BillingInv'
<1> DEFINE e == HandledEvent(w)
<1>1. Typed /\ TypedTx /\ TypedLocks /\ LocksBelong
  BY TypedTxNow
<1>2. /\ pc[w] = "handle" /\ hpc[w] = "mark"
      /\ \/ elock[e] = NoOne /\ event' = [event EXCEPT ![e] = MarkedFailed(@)]
         \/ UNCHANGED event
      /\ \E step : pc' = [pc EXCEPT ![w] = step]
      /\ hpc' = [hpc EXCEPT ![w] = "start"] /\ UNCHANGED <<job, sent, done>>
      /\ UNCHANGED <<sub, alive, trail, elock, olock, loaded, dpc, delivered, cpc, change,
                     jobEvent, accepted, changes>>
  BY DEF MarkFailed, At, FreeRow, Reraise, HandlerRaises, GoTo, HandlerAt, txvars
<1>3. e \in Events /\ event[e] # "absent"
  BY <1>2, HandledKnown
<1>4. \A v \in Workers : HandledEvent(v)' = HandledEvent(v) /\ HandledOrg(v)' = HandledOrg(v)
  BY <1>2 DEF HandledEvent, HandledOrg
<1> HIDE DEF e
<1>5. /\ event' \in [Events -> {"absent", "PENDING", "FAILED", "PROCESSED"}]
      /\ \A f \in Events : /\ event[f] # "absent" => event'[f] # "absent"
                           /\ event[f] = "PROCESSED" => event'[f] = "PROCESSED"
                           /\ event'[f] = event[f] \/ elock[f] = NoOne
  BY <1>1, <1>2, <1>3 DEF Typed, MarkedFailed
<1>6. /\ \A v \in Workers : v # w => pc'[v] = pc[v] /\ hpc'[v] = hpc[v]
      /\ hpc'[w] = "start" /\ hpc' \in [Workers -> {"start", "org", "apply", "mark"}]
  <2>1. pc \in [Workers -> Steps]
    BY DEF BillingInv, QInv, QTypeOK
  <2> QED BY <1>1, <1>2, <2>1 DEF TypedLocks
<1>7. /\ Typed' /\ JobsNameEvents' /\ AcceptedSent' /\ DoneMeansProcessed'
      /\ \A d \in Deliveries : DeliveryKnown(d)'
  BY <1>2, <1>5, RouteKept
<1>8. \A c \in Changers : ChangeHeld(c)'
  BY <1>2, ChangeKept
<1>9. ASSUME NEW v \in Workers PROVE HandlerHeld(v)'
  <2>1. CASE v = w
    BY <2>1, <1>6 DEF HandlerHeld, EventHeld
  <2>2. CASE v # w
    <3>1. \A f \in Events : elock[f] = v => event'[f] = event[f]
      BY <1>5
    <3> QED BY <2>2, <3>1, <1>2, <1>6, HandlerKept
  <2> QED BY <2>1, <2>2
<1>10. LocksBelong'
  <2>1. \A v \in Workers : hpc'[v] # "start" => pc'[v] = "handle"
    BY <1>1, <1>6 DEF LocksBelong
  <2>2. ASSUME NEW v \in Workers, NEW f \in Events, elock[f] = v
        PROVE  hpc'[v] \in {"org", "apply"} /\ HandledEvent(v)' = f
    <3>1. hpc[v] \in {"org", "apply"} /\ HandledEvent(v) = f
      BY <2>2, <1>1 DEF LocksBelong
    <3> QED BY <3>1, <1>2, <1>4, <1>6
  <2>3. ASSUME NEW v \in Workers, NEW o \in Orgs, olock[o] = v
        PROVE  hpc'[v] = "apply" /\ HandledOrg(v)' = o
    <3>1. hpc[v] = "apply" /\ HandledOrg(v) = o
      BY <2>3, <1>1 DEF LocksBelong
    <3> QED BY <3>1, <1>2, <1>4, <1>6
  <2>4. \A c \in Changers, o \in Orgs : olock[o] = c => cpc[c] = "write"
    BY <1>1 DEF LocksBelong
  <2> QED BY <2>1, <2>2, <2>3, <2>4, <1>2 DEF LocksBelong
<1>11. TypedTx' /\ TypedLocks'
  BY <1>1, <1>2, <1>6 DEF TypedTx, TypedLocks
<1>12. BTypeOK'
  BY <1>7, <1>10, <1>11, TypePartsNext DEF QInv
<1> QED BY <1>7, <1>8, <1>9, <1>12 DEF BillingInv

-----------------------------------------------------------------------------
(* Plan changes and deletion. *)

\* A request that locks the organization reads its subscription with it.
LEMMA StartChangeStep ==
  ASSUME BillingInv, QInv', OnlySent',
         NEW c \in Changers, NEW o \in Orgs, NEW p \in Plans, StartChange(c, o, p)
  PROVE  BillingInv'
<1> USE DEF qvars, rows
<1>1. Typed /\ TypedTx /\ TypedLocks /\ LocksBelong
  BY TypedTxNow
<1>2. /\ cpc[c] = "idle" /\ o \in alive /\ olock[o] = NoOne /\ changes < MaxChanges
      /\ olock' = [olock EXCEPT ![o] = c] /\ loaded' = [loaded EXCEPT ![c] = sub[o]]
      /\ cpc' = [cpc EXCEPT ![c] = "write"] /\ change' = [change EXCEPT ![c] = <<o, p>>]
      /\ changes' = changes + 1
      /\ UNCHANGED <<qvars, rows, elock, dpc, delivered, hpc, jobEvent, accepted>>
  BY DEF StartChange, FreeRow
<1>3. c \in Clients /\ c \notin Workers /\ c # NoOne
  BY DEF Clients
<1>4. /\ olock' \in [Orgs -> Clients \cup {NoOne}]
      /\ olock'[o] = c /\ \A u \in Orgs : u # o => olock'[u] = olock[u]
  BY <1>1, <1>2, <1>3 DEF TypedLocks
<1>5. /\ loaded' \in [Clients -> C!Subscription \cup {NoSub}]
      /\ loaded'[c] = sub[o] /\ \A d \in Clients : d # c => loaded'[d] = loaded[d]
  <2>1. sub[o] \in C!Subscription \cup {NoSub}
    BY <1>1 DEF TypedTx
  <2>2. loaded \in [Clients -> C!Subscription \cup {NoSub}]
    BY <1>1 DEF TypedLocks
  <2> QED BY <1>2, <1>3, <2>1, <2>2
<1>6. /\ cpc' \in [Changers -> {"idle", "write"}] /\ cpc'[c] = "write"
      /\ change' \in [Changers -> (Orgs \X Plans) \cup {<<>>}] /\ change'[c] = <<o, p>>
      /\ \A d \in Changers : d # c => cpc'[d] = cpc[d] /\ change'[d] = change[d]
      /\ changes' \in 0..MaxChanges
  BY <1>1, <1>2 DEF TypedTx
<1>7. /\ Typed' /\ JobsNameEvents' /\ AcceptedSent' /\ DoneMeansProcessed'
      /\ \A d \in Deliveries : DeliveryKnown(d)'
  BY <1>1, <1>2, RouteKept DEF Typed
<1>8. \A u \in alive, d \in Clients : olock[u] = d => olock'[u] = d
  <2>1. alive \subseteq Orgs /\ NoOne \notin Clients
    BY <1>1 DEF TypedTx, Clients
  <2> QED BY <1>2, <1>4, <2>1
<1>9. ASSUME NEW v \in Workers PROVE HandlerHeld(v)'
  <2>1. v \in Clients /\ v # c
    BY <1>3 DEF Clients
  <2> QED BY <1>2, <1>5, <1>8, <2>1, HandlerKept
<1>10. ASSUME NEW d \in Changers PROVE ChangeHeld(d)'
  <2>1. CASE d = c
    <3>1. change'[c] \in Orgs \X Plans /\ change'[c][1] = o
      BY <1>6
    <3>2. olock'[o] = c /\ o \in alive' /\ loaded'[c] = sub'[o]
      BY <1>2, <1>4, <1>5
    <3> QED BY <2>1, <3>1, <3>2 DEF ChangeHeld, OrgHeld
  <2>2. CASE d # c
    <3>1. d \in Clients
      BY DEF Clients
    <3> QED BY <1>2, <1>5, <1>6, <1>8, <2>2, <3>1, ChangeKept
  <2> QED BY <2>1, <2>2
<1>11. LocksBelong'
  <2>1. \A v \in Workers : HandledEvent(v)' = HandledEvent(v) /\ HandledOrg(v)' = HandledOrg(v)
    BY <1>2 DEF HandledEvent, HandledOrg
  <2>2. /\ \A v \in Workers : hpc'[v] # "start" => pc'[v] = "handle"
        /\ \A v \in Workers, e \in Events : elock'[e] = v =>
             hpc'[v] \in {"org", "apply"} /\ HandledEvent(v)' = e
    BY <1>1, <1>2, <2>1 DEF LocksBelong
  <2>3. \A v \in Workers, u \in Orgs : olock'[u] = v => hpc'[v] = "apply" /\ HandledOrg(v)' = u
    BY <1>1, <1>2, <1>3, <1>4, <2>1 DEF LocksBelong
  <2>4. \A d \in Changers, u \in Orgs : olock'[u] = d => cpc'[d] = "write"
    BY <1>1, <1>4, <1>6 DEF LocksBelong
  <2> QED BY <2>2, <2>3, <2>4 DEF LocksBelong
<1>12. TypedTx' /\ TypedLocks'
  BY <1>1, <1>2, <1>4, <1>5, <1>6 DEF TypedTx, TypedLocks
<1>13. BTypeOK'
  BY <1>7, <1>11, <1>12, TypePartsNext DEF QInv
<1> QED BY <1>7, <1>9, <1>10, <1>13 DEF BillingInv

\* The effect of change_plan's commit on the tables.
LEMMA Changed ==
  ASSUME BillingInv, NEW c \in Changers, WriteChange(c)
  PROVE  LET o == change[c][1]
             p == change[c][2]
             old == C!OrDefault(sub[o]).plan IN
         /\ o \in Orgs /\ p \in Plans /\ old \in Plans /\ o \in alive /\ olock[o] = c
         /\ [plan |-> p, status |-> "ACTIVE"] \in C!Subscription
         /\ \/ /\ sub' = [sub EXCEPT ![o] = [plan |-> p, status |-> "ACTIVE"]]
               /\ trail' = [trail EXCEPT ![o] = C!LoggedChange(@, old, p)]
            \/ UNCHANGED <<sub, trail>>
<1> DEFINE o == change[c][1]
           p == change[c][2]
           old == C!OrDefault(sub[o]).plan
           new == [plan |-> p, status |-> "ACTIVE"]
<1>1. change[c] \in Orgs \X Plans /\ olock[o] = c /\ o \in alive /\ loaded[c] = sub[o]
  BY DEF WriteChange, BillingInv, ChangeHeld, OrgHeld
<1>2. o \in Orgs /\ p \in Plans /\ new \in C!Subscription
  BY <1>1 DEF C!Subscription, C!Statuses
<1>3. sub[o] \in C!Subscription \cup {NoSub}
  BY <1>2, TypedTxNow DEF TypedTx
<1>4. old \in Plans
  BY <1>3 DEF C!OrDefault, C!DefaultSubscription, C!Subscription, C!WellFormed
<1>5. Flushed(sub[o], loaded[c], new) = new
  BY <1>1, <1>2, <1>3, FlushedNew
<1>6. \/ /\ sub' = [sub EXCEPT ![o] = Flushed(sub[o], loaded[c], new)]
         /\ trail' = [trail EXCEPT ![o] = C!LoggedChange(@, old, p)]
      \/ UNCHANGED <<sub, trail>>
  BY <1>1 DEF WriteChange
<1> QED BY <1>1, <1>2, <1>4, <1>5, <1>6

LEMMA WriteChangeStep ==
  ASSUME BillingInv, QInv', OnlySent', NEW c \in Changers, WriteChange(c)
  PROVE  BillingInv'
<1> DEFINE o == change[c][1]
           p == change[c][2]
           old == C!OrDefault(sub[o]).plan
           new == [plan |-> p, status |-> "ACTIVE"]
           row == [event |-> NoEvent, from |-> old, to |-> p]
<1> USE DEF qvars
<1>1. Typed /\ TypedTx /\ TypedLocks /\ LocksBelong
  BY TypedTxNow
<1>2. /\ o \in Orgs /\ p \in Plans /\ old \in Plans /\ o \in alive /\ olock[o] = c
      /\ new \in C!Subscription
      /\ \/ /\ sub' = [sub EXCEPT ![o] = new]
            /\ trail' = [trail EXCEPT ![o] = IF old = p THEN @ ELSE Append(@, row)]
         \/ UNCHANGED <<sub, trail>>
  BY Changed DEF C!LoggedChange, C!Logged
<1>3. /\ EndTransaction(c)
      /\ cpc' = [cpc EXCEPT ![c] = "idle"] /\ change' = [change EXCEPT ![c] = <<>>]
      /\ UNCHANGED <<qvars, event, alive, dpc, delivered, hpc, jobEvent, accepted, changes>>
  BY DEF WriteChange, ChangeEnds
<1>4. row \in C!AuditRow
  BY <1>2 DEF C!AuditRow
<1>5. c \in Clients /\ c \notin Workers
  BY DEF Clients
<1> HIDE DEF o, p, old, new, row
<1>6. /\ sub' \in [Orgs -> C!Subscription \cup {NoSub}]
      /\ \A u \in Orgs : u # o => sub'[u] = sub[u]
  <2>1. sub \in [Orgs -> C!Subscription \cup {NoSub}]
    BY <1>1 DEF TypedTx
  <2> QED BY <1>2, <2>1
<1>7. /\ trail' \in [Orgs -> Seq(C!AuditRow)]
      /\ \A u \in Orgs : u # o => trail'[u] = trail[u]
  <2>1. trail \in [Orgs -> Seq(C!AuditRow)]
    BY <1>1 DEF TypedTx
  <2>2. Append(trail[o], row) \in Seq(C!AuditRow) /\ trail[o] \in Seq(C!AuditRow)
    BY <1>2, <1>4, <2>1
  <2> QED BY <1>2, <2>1, <2>2
<1>8. /\ cpc' \in [Changers -> {"idle", "write"}] /\ cpc'[c] = "idle"
      /\ change' \in [Changers -> (Orgs \X Plans) \cup {<<>>}]
      /\ \A d \in Changers : d # c => cpc'[d] = cpc[d] /\ change'[d] = change[d]
  BY <1>1, <1>3 DEF TypedTx
<1>9. TypedTx'
  BY <1>1, <1>2, <1>3, <1>6, <1>7, <1>8 DEF TypedTx
<1>10. /\ Typed' /\ JobsNameEvents' /\ AcceptedSent' /\ DoneMeansProcessed'
       /\ \A d \in Deliveries : DeliveryKnown(d)'
  BY <1>1, <1>3, RouteKept DEF Typed
<1>11. /\ loaded' \in [Clients -> C!Subscription \cup {NoSub}]
       /\ elock' \in [Events -> Workers \cup {NoOne}]
       /\ olock' \in [Orgs -> Clients \cup {NoOne}]
       /\ \A e \in Events : elock'[e] = IF elock[e] = c THEN NoOne ELSE elock[e]
       /\ \A u \in Orgs : olock'[u] = IF olock[u] = c THEN NoOne ELSE olock[u]
  BY <1>1, <1>3, <1>5, Ended
<1>12. \A u \in Orgs : olock[u] # c => sub'[u] = sub[u]
  BY <1>2, <1>6
<1>13. /\ \A v \in Workers : v # c /\ hpc'[v] = hpc[v] => HandlerHeld(v)'
       /\ \A d \in Changers : d # c /\ cpc'[d] = cpc[d] /\ change'[d] = change[d] => ChangeHeld(d)'
  BY <1>3, <1>5, <1>12, OthersEnded
<1>14. \A v \in Workers : HandlerHeld(v)'
  BY <1>3, <1>5, <1>13
<1>15. \A d \in Changers : ChangeHeld(d)'
  <2>1. ChangeHeld(c)'
    BY <1>8 DEF ChangeHeld
  <2> QED BY <2>1, <1>8, <1>13
<1>16. LocksBelong'
  <2>1. \A v \in Workers : HandledEvent(v)' = HandledEvent(v) /\ HandledOrg(v)' = HandledOrg(v)
    BY <1>3 DEF HandledEvent, HandledOrg
  <2>2. \A v \in Workers : hpc'[v] # "start" => pc'[v] = "handle"
    BY <1>1, <1>3 DEF LocksBelong
  <2>3. ASSUME NEW v \in Workers, NEW e \in Events, elock'[e] = v
        PROVE  hpc'[v] \in {"org", "apply"} /\ HandledEvent(v)' = e
    <3>1. elock[e] = v
      BY <2>3, <1>11
    <3> QED BY <3>1, <1>1, <1>3, <2>1 DEF LocksBelong
  <2>4. ASSUME NEW v \in Workers, NEW u \in Orgs, olock'[u] = v
        PROVE  hpc'[v] = "apply" /\ HandledOrg(v)' = u
    <3>1. olock[u] = v
      BY <2>4, <1>11
    <3> QED BY <3>1, <1>1, <1>3, <2>1 DEF LocksBelong
  <2>5. ASSUME NEW d \in Changers, NEW u \in Orgs, olock'[u] = d PROVE cpc'[d] = "write"
    <3>1. olock[u] = d /\ d # c
      BY <2>5, <1>11
    <3> QED BY <3>1, <1>1, <1>8 DEF LocksBelong
  <2> QED BY <2>2, <2>3, <2>4, <2>5 DEF LocksBelong
<1>17. TypedLocks'
  BY <1>1, <1>3, <1>11 DEF TypedLocks
<1>18. BTypeOK'
  BY <1>9, <1>10, <1>16, <1>17, TypePartsNext DEF QInv
<1> QED BY <1>10, <1>14, <1>15, <1>18 DEF BillingInv

\* An organization is deleted only while no transaction holds its row.
LEMMA DeleteOrgStep ==
  ASSUME BillingInv, QInv', OnlySent', NEW o \in Orgs, DeleteOrg(o)
  PROVE  BillingInv'
<1> USE DEF qvars, txvars
<1>1. Typed /\ TypedTx /\ TypedLocks /\ LocksBelong
  BY TypedTxNow
<1>2. /\ olock[o] = NoOne /\ alive' = alive \ {o}
      /\ sub' = [sub EXCEPT ![o] = NoSub] /\ trail' = [trail EXCEPT ![o] = <<>>]
      /\ UNCHANGED <<qvars, event, txvars, dpc, delivered, hpc, cpc, change, jobEvent, accepted,
                     changes>>
  BY DEF DeleteOrg, FreeRow
<1>3. /\ Typed' /\ JobsNameEvents' /\ AcceptedSent' /\ DoneMeansProcessed'
      /\ \A d \in Deliveries : DeliveryKnown(d)'
  BY <1>1, <1>2, RouteKept DEF Typed
<1>4. \A u \in alive : olock[u] # NoOne => u \in alive' /\ sub'[u] = sub[u]
  BY <1>1, <1>2 DEF TypedTx
<1>5. \A v \in Workers : HandlerHeld(v)'
  BY <1>2, <1>4, HandlerKept
<1>6. \A c \in Changers : ChangeHeld(c)'
  BY <1>2, <1>4, ChangeKept
<1>7. LocksBelong'
  BY <1>1, <1>2 DEF LocksBelong, HandledEvent, HandledOrg
<1>8. TypedTx' /\ TypedLocks'
  <2>1. trail' \in [Orgs -> Seq(C!AuditRow)]
    BY <1>1, <1>2 DEF TypedTx
  <2>2. /\ sub' \in [Orgs -> C!Subscription \cup {NoSub}]
        /\ \A u \in Orgs \ alive' : sub'[u] = NoSub /\ trail'[u] = <<>>
    BY <1>1, <1>2 DEF TypedTx
  <2> QED BY <1>1, <1>2, <2>1, <2>2 DEF TypedTx, TypedLocks
<1>9. BTypeOK'
  BY <1>3, <1>7, <1>8, TypePartsNext DEF QInv
<1> QED BY <1>3, <1>5, <1>6, <1>9 DEF BillingInv

-----------------------------------------------------------------------------
(* The theorems. *)

LEMMA BillingInit == BInit => BillingInv
<1> SUFFICES ASSUME BInit PROVE BillingInv
  OBVIOUS
<1> USE DEF BInit
<1>1. QInv /\ OnlySent /\ QInit
  BY InitInv, OnlySentInit
<1>2. sent = {} /\ done = {} /\ \A w \in Workers : pc[w] # "handle"
  BY <1>1 DEF QInit
<1>3. C!DefaultSubscription \in C!Subscription
  BY DEF C!DefaultSubscription, C!Subscription, C!Statuses, C!WellFormed
<1>4. Typed /\ LocksBelong
  BY DEF Typed, LocksBelong
<1>5. TypedLocks
  BY DEF TypedLocks
<1>6. TypedTx
  <2>1. trail \in [Orgs -> Seq(C!AuditRow)]
    OBVIOUS
  <2>2. sub \in [Orgs -> C!Subscription \cup {NoSub}]
    BY <1>3
  <2>3. alive = Orgs /\ changes \in 0..MaxChanges
    OBVIOUS
  <2>4. cpc \in [Changers -> {"idle", "write"}] /\ change \in [Changers -> (Orgs \X Plans) \cup {<<>>}]
    OBVIOUS
  <2> QED BY <2>1, <2>2, <2>3, <2>4 DEF TypedTx
<1>7. BTypeOK
  <2>1. \A e \in Events : elock[e] = NoOne
    OBVIOUS
  <2>2. \A o \in Orgs : olock[o] = NoOne
    OBVIOUS
  <2> QED BY <1>1, <1>4, <1>5, <1>6, <2>1, <2>2
          DEF BTypeOK, QInv, Typed, TypedTx, TypedLocks, LocksBelong
<1>8. JobsNameEvents /\ AcceptedSent /\ DoneMeansProcessed
  BY <1>2 DEF JobsNameEvents, AcceptedSent, DoneMeansProcessed
<1>9. /\ \A d \in Deliveries : DeliveryKnown(d)
      /\ \A w \in Workers : HandlerHeld(w)
      /\ \A c \in Changers : ChangeHeld(c)
  BY DEF DeliveryKnown, HandlerHeld, EventHeld, ChangeHeld
<1> QED BY <1>1, <1>7, <1>8, <1>9 DEF BillingInv

LEMMA BillingStutter ==
  ASSUME BillingInv, QInv', OnlySent', UNCHANGED vars
  PROVE  BillingInv'
<1> USE DEF vars, qvars, bvars
<1>1. UNCHANGED <<sent, done, pc, job>> /\ UNCHANGED bvars
  OBVIOUS
<1>2. Typed'
  BY <1>1, TypedNow DEF Typed
<1>3. /\ BTypeOK'
      /\ \A w \in Workers : HandlerHeld(w)'
      /\ \A c \in Changers : ChangeHeld(c)'
      /\ DoneMeansProcessed'
  BY <1>1, <1>2, RouteFrame DEF txvars
<1>4. /\ JobsNameEvents' /\ AcceptedSent'
      /\ \A d \in Deliveries : DeliveryKnown(d)'
  BY <1>1 DEF BillingInv, JobsNameEvents, AcceptedSent, DeliveryKnown
<1> QED BY <1>3, <1>4 DEF BillingInv

LEMMA BillingStep == BillingInv /\ [BNext]_vars => BillingInv'
<1> SUFFICES ASSUME BillingInv, [BNext]_vars PROVE BillingInv'
  OBVIOUS
<1>0. QInv' /\ OnlySent'
  BY QueueKept
<1>1. ASSUME NEW d \in Deliveries, DeliveryStep(d) PROVE BillingInv'
  BY <1>0, <1>1, DeliverStep, StoreEventStep, DeliveryFailsStep, EnqueueEventStep
  DEF DeliveryStep
<1>2. ASSUME NEW w \in Workers, WorkerStep(w), UNCHANGED bvars PROVE BillingInv'
  BY <1>0, <1>2, WorkerStepStep
<1>3. ASSUME NEW w \in Workers, HandlerStep(w) PROVE BillingInv'
  BY <1>0, <1>3, BeginEventStep, LockSubscriptionStep, ApplyEventStep, ProcessingFailsStep,
     MarkFailedStep DEF HandlerStep
<1>4. ASSUME NEW w \in Workers, WorkerDies(w) PROVE BillingInv'
  BY <1>0, <1>4, WorkerDiesStep
<1>5. ASSUME NEW c \in Changers, NEW o \in Orgs, NEW p \in Plans, StartChange(c, o, p)
      PROVE  BillingInv'
  BY <1>0, <1>5, StartChangeStep
<1>6. ASSUME NEW c \in Changers, WriteChange(c) PROVE BillingInv'
  BY <1>0, <1>6, WriteChangeStep
<1>7. ASSUME NEW o \in Orgs, DeleteOrg(o) PROVE BillingInv'
  BY <1>0, <1>7, DeleteOrgStep
<1>8. CASE UNCHANGED vars
  BY <1>0, <1>8, BillingStutter
<1> QED BY <1>1, <1>2, <1>3, <1>4, <1>5, <1>6, <1>7, <1>8 DEF BNext

\* Whatever crashes, fails or overlaps, a transaction of billing holds the rows
\* it writes, and what it has read is still what they hold.
THEOREM BillingCorrect == BSpec => []BillingInv
BY BillingInit, BillingStep, PTL DEF BSpec

\* Every variable of billing stays in its type, and every lock belongs to a
\* transaction that is open at that point of the code.
THEOREM BillingTypes == BSpec => []BTypeOK
<1>1. BillingInv => BTypeOK
  BY DEF BillingInv
<1> QED BY <1>1, BillingCorrect, PTL

\* process_billing_webhook_job returns, so that its job is acknowledged, only
\* when the event is PROCESSED.
THEOREM AcknowledgedIsProcessed == BSpec => []DoneMeansProcessed
<1>1. BillingInv => DoneMeansProcessed
  BY DEF BillingInv
<1> QED BY <1>1, BillingCorrect, PTL

\* An event whose delivery was answered 202 is PROCESSED, or a job for it is in
\* the queue, in processing or on the dead-letter list.
THEOREM AcceptedIsNotForgotten == BSpec => []AcceptedIsRemembered
<1>1. ASSUME BillingInv PROVE AcceptedIsRemembered
  <2> SUFFICES ASSUME NEW e \in accepted, event[e] # "PROCESSED"
               PROVE  \E j \in JobIds : jobEvent[j] = e /\ (Listed(j) \/ Buried(j))
    BY DEF AcceptedIsRemembered
  <2>1. PICK j \in sent : jobEvent[j] = e
    BY <1>1 DEF BillingInv, AcceptedSent
  <2>2. j \in JobIds
    BY <1>1 DEF BillingInv, QInv, QTypeOK
  <2>3. j \notin done
    BY <1>1, <2>1 DEF BillingInv, DoneMeansProcessed
  <2>4. Listed(j) \/ Buried(j)
    BY <1>1, <2>1, <2>3 DEF BillingInv, QInv, NeverLost
  <2> QED BY <2>1, <2>2, <2>4
<1> QED BY <1>1, BillingCorrect, PTL

\* The queue under billing is the queue of JobQueue, so that everything proved
\* of it holds here.
THEOREM BillingUsesTheQueue == BSpec => QSpec
<1>1. BInit => QInit
  BY DEF BInit
<1> QED BY <1>1, QueueStep, PTL DEF BSpec, QSpec

-----------------------------------------------------------------------------
(* The contract. *)

\* Events that are stored, and those that are PROCESSED, as the contract sees them.
Stored == {e \in Events : event[e] # "absent"}
Processed == {e \in Events : event[e] = "PROCESSED"}

\* A step of the route stores one event, or nothing.
LEMMA DeliveryRefines ==
  ASSUME BillingInv, NEW d \in Deliveries, DeliveryStep(d)
  PROVE  [C!CNext]_(C!cvars)
<1> USE DEF rows
<1>1. CASE UNCHANGED <<event, sub, alive, trail>>
  BY <1>1 DEF C!cvars
<1>2. CASE StoreEvent(d) /\ event[delivered[d]] = "absent"
  <2>0. PICK e \in Events : e = delivered[d]
    BY <1>2 DEF StoreEvent, BillingInv, DeliveryKnown
  <2>1. /\ event[e] = "absent" /\ event' = [event EXCEPT ![e] = "PENDING"]
        /\ UNCHANGED <<sub, alive, trail>>
    BY <1>2, <2>0 DEF StoreEvent
  <2>2. e \notin Stored /\ Stored' = Stored \cup {e} /\ Processed' = Processed
    BY <2>1, TypedNow DEF Typed, Stored, Processed
  <2>3. C!Store(e)
    BY <2>1, <2>2 DEF C!Store, Stored, Processed
  <2> QED BY <2>3 DEF C!CNext
<1>3. UNCHANGED <<event, sub, alive, trail>> \/ (StoreEvent(d) /\ event[delivered[d]] = "absent")
  BY DEF DeliveryStep, Deliver, StoreEvent, DeliveryFails, EnqueueEvent
<1> QED BY <1>1, <1>2, <1>3

\* The commit of the handler applies the event, once, to the subscription as it
\* is; the other steps of a handler change nothing that the contract sees.
LEMMA HandlerRefines ==
  ASSUME BillingInv, NEW w \in Workers, HandlerStep(w)
  PROVE  [C!CNext]_(C!cvars)
<1> USE DEF rows
<1>1. CASE UNCHANGED <<event, sub, alive, trail>>
  BY <1>1 DEF C!cvars
<1>2. CASE ApplyEvent(w)
  <2>0. PICK e \in Events : e = HandledEvent(w)
    BY <1>2, Applied
  <2> DEFINE o == Payload[e].org
             old == C!OrDefault(sub[o])
             new == C!Effect(e, old)
  <2>1. /\ event[e] \notin {"absent", "PROCESSED"} /\ o \in alive
        /\ sub' = [sub EXCEPT ![o] = new]
        /\ trail' = [trail EXCEPT ![o] = C!Logged(@, e, old.plan, new.plan)]
        /\ event' = [event EXCEPT ![e] = "PROCESSED"]
    BY <1>2, <2>0, Applied DEF HandledOrg
  <2>2. UNCHANGED alive
    BY <1>2 DEF ApplyEvent
  <2>3. e \in Stored \ Processed /\ Stored' = Stored /\ Processed' = Processed \cup {e}
    BY <2>1, TypedNow DEF Typed, Stored, Processed
  <2>4. C!Apply(e)
    BY <2>1, <2>2, <2>3 DEF C!Apply, Stored, Processed
  <2> QED BY <2>4 DEF C!CNext
<1>3. CASE MarkFailed(w)
  <2> DEFINE e == HandledEvent(w)
  <2>1. /\ \/ event' = [event EXCEPT ![e] = MarkedFailed(@)]
           \/ UNCHANGED event
        /\ UNCHANGED <<sub, alive, trail>>
    BY <1>3 DEF MarkFailed
  <2>2. e \in Events /\ event[e] # "absent"
    BY <1>3, HandledKnown DEF MarkFailed, At
  <2> HIDE DEF e
  <2>3. Stored' = Stored /\ Processed' = Processed
    BY <2>1, <2>2, TypedNow DEF Typed, Stored, Processed, MarkedFailed
  <2> QED BY <2>1, <2>3 DEF C!cvars, Stored, Processed
<1>4. UNCHANGED <<event, sub, alive, trail>> \/ ApplyEvent(w) \/ MarkFailed(w)
  BY DEF HandlerStep, BeginEvent, LockSubscription, ProcessingFails
<1> QED BY <1>1, <1>2, <1>3, <1>4

LEMMA BillingRefines == BillingInv /\ [BNext]_vars => [C!CNext]_(C!cvars)
<1> SUFFICES ASSUME BillingInv, [BNext]_vars PROVE [C!CNext]_(C!cvars)
  OBVIOUS
<1> USE DEF rows
<1>1. ASSUME UNCHANGED <<event, sub, alive, trail>> PROVE [C!CNext]_(C!cvars)
  BY <1>1 DEF C!cvars
<1>2. ASSUME NEW w \in Workers, WorkerStep(w) /\ UNCHANGED bvars PROVE [C!CNext]_(C!cvars)
  BY <1>1, <1>2 DEF bvars
<1>3. ASSUME NEW w \in Workers, WorkerDies(w) PROVE [C!CNext]_(C!cvars)
  BY <1>1, <1>3 DEF WorkerDies
<1>4. ASSUME NEW c \in Changers, NEW o \in Orgs, NEW p \in Plans, StartChange(c, o, p)
      PROVE  [C!CNext]_(C!cvars)
  BY <1>1, <1>4 DEF StartChange
<1>5. ASSUME NEW c \in Changers, WriteChange(c) PROVE [C!CNext]_(C!cvars)
  <2> DEFINE o == change[c][1]
             p == change[c][2]
  <2>1. UNCHANGED <<event, alive>>
    BY <1>5 DEF WriteChange, ChangeEnds
  <2>2. /\ o \in Orgs /\ p \in Plans /\ o \in alive
        /\ \/ /\ sub' = [sub EXCEPT ![o] = [plan |-> p, status |-> "ACTIVE"]]
              /\ trail' = [trail EXCEPT ![o] = C!LoggedChange(@, C!OrDefault(sub[o]).plan, p)]
           \/ UNCHANGED <<sub, trail>>
    BY <1>5, Changed
  <2> HIDE DEF o, p
  <2>3. CASE UNCHANGED <<sub, trail>>
    BY <1>1, <2>1, <2>3
  <2>4. CASE ~UNCHANGED <<sub, trail>>
    <3>1. C!ChangePlan(o, p)
      BY <2>1, <2>2, <2>4 DEF C!ChangePlan
    <3> QED BY <2>2, <3>1 DEF C!CNext
  <2> QED BY <2>3, <2>4
<1>6. ASSUME NEW o \in Orgs, DeleteOrg(o) PROVE [C!CNext]_(C!cvars)
  <2>1. C!DeleteOrg(o)
    BY <1>6 DEF DeleteOrg, C!DeleteOrg
  <2> QED BY <2>1 DEF C!CNext
<1>7. CASE UNCHANGED vars
  BY <1>1, <1>7 DEF vars, bvars
<1> QED BY <1>2, <1>3, <1>4, <1>5, <1>6, <1>7, DeliveryRefines, HandlerRefines DEF BNext

\* README: "Repeated webhook delivery returns the existing result without
\* reapplying billing changes".  Route, queue, workers and transactions
\* implement the contract: an event takes effect at most once, on the
\* subscription as it then is, together with its audit row and its PROCESSED
\* marker.
THEOREM BillingExactlyOnce == BSpec => ExactlyOnce
<1>1. BInit => C!CInit
  BY DEF BInit, C!CInit
<1> QED BY <1>1, BillingCorrect, BillingRefines, PTL DEF BSpec, ExactlyOnce, C!CSpec

P == INSTANCE BillingContractProofs WITH
       stored <- {e \in Events : event[e] # "absent"},
       processed <- {e \in Events : event[e] = "PROCESSED"}

\* So the audit log of a running system, through crashes and retries, begins at
\* the FREE plan, has no gap, names each PROCESSED event of the organization once
\* and ends at the plan of today.
THEOREM BillingTrailExplains == BSpec => []C!AuditTrail
<1>1. P!WellFormed
  BY DEF C!WellFormed, P!WellFormed, C!PayloadRecord, P!PayloadRecord, C!EventTypes, P!EventTypes,
         C!Statuses, P!Statuses, C!Subscription, P!Subscription
<1>2. P!CSpec => []P!AuditTrail
  BY <1>1, P!TrailExplains
<1>3. C!CInit => P!CInit
  BY DEF C!CInit, P!CInit, C!DefaultSubscription, P!DefaultSubscription
<1>4. [C!CNext]_(C!cvars) => [P!CNext]_(P!cvars)
  BY DEF C!CNext, P!CNext, C!cvars, P!cvars, C!Store, P!Store, C!Apply, P!Apply, C!ChangePlan,
         P!ChangePlan, C!DeleteOrg, P!DeleteOrg, C!OrDefault, P!OrDefault, C!DefaultSubscription,
         P!DefaultSubscription, C!Effect, P!Effect, C!Logged, P!Logged, C!LoggedChange,
         P!LoggedChange
<1>5. P!AuditTrail => C!AuditTrail
  BY DEF P!AuditTrail, C!AuditTrail, C!OrDefault, P!OrDefault, C!DefaultSubscription,
         P!DefaultSubscription
<1> QED BY <1>2, <1>3, <1>4, <1>5, BillingExactlyOnce, PTL DEF ExactlyOnce, C!CSpec, P!CSpec

=============================================================================
