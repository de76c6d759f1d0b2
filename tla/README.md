# TenantForge: specification, model checking and proofs

TLA+ modules for the stateful core of TenantForge, TLC configurations that check
them on small instances, and TLAPS proofs of the results that matter most.
Source paths below are relative to the repository root. An operator named
`X_Something` is a deliberately wrong variant of `X`: put in its place, the
property paired with it in `PROJECT.json` must fail.

## 1. The system

TenantForge is a FastAPI service over PostgreSQL (SQLAlchemy async sessions, READ
COMMITTED) and Redis, with a worker process.

| Component | State | Operations | Interacts with |
| --- | --- | --- | --- |
| Organizations, memberships (`app/services/organizations.py`) | `organizations`, `memberships` | create, update, delete, change role, remove member | audit log; deletion cascades to everything a tenant owns |
| Invitations (`app/services/invitations.py`) | `invitations` | create, accept, expire | memberships; e-mail queue after the commit |
| Audit log (`app/services/audit.py`) | `audit_logs` | append | written in the transaction of each change |
| Request dependencies (`app/api/deps.py`) | none of its own | load user, membership, check role | the session whose identity map the services share |
| Job queue (`app/infrastructure/queue.py`) | three Redis lists | enqueue, dequeue, acknowledge, retry, dead-letter, recover | routes produce, the worker consumes |
| Worker (`app/workers/worker.py`, `jobs.py`) | the job in hand | run loop, retry budget, handlers | queue, database |
| Billing webhooks (`app/services/webhooks.py`, route) | `webhook_events`, `subscriptions` | store, enqueue, process, mark failed | queue, plan changes, organization deletion |
| Subscriptions (`app/services/billing.py`) | `subscriptions` | default, change plan | webhooks, usage |
| Usage and quota (`app/services/usage.py`) | `usage_events` | record, sum, roll periods | subscriptions, clock |
| Accounts and sessions (`app/services/auth.py`) | `users`, `refresh_tokens` | register, login, refresh, logout | clock |
| API keys (`app/services/api_keys.py`) | `api_keys` | create, revoke, authenticate | memberships, rate limiter |
| Projects (`app/services/projects.py`) | `projects` | create, update, delete | memberships |
| Rate limiter (`app/infrastructure/rate_limit.py`) | Redis counters | increment, expire | request dependencies |
| Health, metrics, logging, schemas, configuration, credentials, migrations, demo data | none the properties depend on | | |

What is hard: transactions that wait for each other's row locks and go on with
what they read before the wait; lock orders that can form cycles; look-ups
followed by inserts that only a constraint protects; a commit followed by a Redis
command that may fail; a worker that dies between handling and acknowledging;
Redis commands whose reply is lost or that are sent twice; clocks read twice in
one transaction. `PROJECT.json` lists these hazards at their lines with the
properties that would catch them.

## 2. Modules

### TenancyContract, Tenancy (with MCTenancy, TenancyProofs)

`TenancyContract` is what the services promise, without transactions, locks or
sessions: each of create, rename, change role, remove, delete, invite and accept is
one step on the state it commits in, with one audit row that names a caller who has,
in that state, the role the SQL of the operation asks for. A membership is known by
organization and user. What the code decides on a role that may be stale (whom an
admin may change, section 3, finding `stale`) and on a clock read earlier (whether an
invitation has expired) is left open there.

`Tenancy` is the code. Each HTTP request is a process `r` with its own
transaction. `pc[r]` is the SQL statement it will execute next and `arg[r]` what
the client asked; `olock`, `mlock` and `ilock` are the `FOR UPDATE` locks. A
locking SELECT is one step per row: it waits until the row is free and then
evaluates its WHERE clause on the committed row, which is what PostgreSQL does
at READ COMMITTED after a wait. `_ensure_another_owner` locks a set of rows,
hence `ScanOwners` (snapshot), `LockOwner` (row by row) and `EnsureAnotherOwner`
(verdict). Writes appear in the step that commits; that step waits for the key
share of the organization row, which the foreign keys of the inserted rows need.
`Cascade` locks the rows that a deletion takes with it.

`view` is the session's identity map. `get_current_membership` loads the caller's
row without a lock; the later `SELECT ... FOR UPDATE` returns the same object and
does not refresh it, so the services judge the caller by the role he had before
the wait (`SeenRole`).

`Abort` is a crash or a disconnect at any point; `DeadlockAbort` is PostgreSQL's
detector, enabled exactly when the request is in a cycle of waits (`Deadlocked`).
`Ready(r)` says, statement by statement, when `r` waits for nobody.

`ActsAtomically` is the contract with `slug` read from the organizations and `role`
from the memberships (`RoleTable`): of all the steps of all requests, only commits
and the clock change the contract's state. `Resources` uses the contract's role
change as its `ChangeMember`.

### JobQueue, JobOrder (with JobQueueProofs)

The three lists of `RedisJobQueue` and any number of workers in `run_forever`.
A Redis command is one step, executed `n` times: once; never (connection error);
twice (redis-py repeats a command whose reply was lost). The last two consume
`MaxFaults`. `Crash` ends the process anywhere; `Start` and `Recover` are the
restart. A job is its id and attempt counter. Entries in `Foreign` are what
`Job.from_json` rejects.

`JobOrder` adds a history variable to it, which no action reads: `ahead[k]` is the
set of the jobs that were waiting when `k` began to wait and have waited since. Its
property `TakenInTurn` says that with one worker, and while no Redis command goes
wrong, a job that leaves the queue was ahead of every job that stays. So a job that
is retried, or put back after it killed its worker, lets the others pass, and events
are handled in the order in which they were enqueued as long as their jobs do not
fail.

### BillingContract, BillingWebhooks (with BillingContractProofs, BillingProofs, MCBilling)

`BillingContract` is the promise: an event is stored once and its effect applied
at most once, atomically with the PROCESSED marker and its audit row, on the
subscription as it is at that moment. `trail` holds the `subscription.changed` rows
of each organization in the order of the commits (their `created_at` is the start
of the transaction, which may order two overlapping ones the other way).
`AuditTrail`, which is proved of the contract, says that these rows explain the
plan. `BillingWebhooks` EXTENDS `JobQueue` and composes it with the
route (`Deliver`, `StoreEvent`, `EnqueueEvent`), the handler (`BeginEvent`,
`LockSubscription`, `ApplyEvent`, `ProcessingFails`, `MarkFailed`) and the
competing writers (`StartChange`, `WriteChange`, `DeleteOrg`). It is shown to
implement the contract under the mapping "stored = rows in `webhook_events`,
processed = rows marked PROCESSED", by TLC and by proof. `ApplyEvent` has two outcomes after the
commit: the answer arrives, or it is lost and the failure path runs.

### BillingPeriods, UsageQuota (with MCUsage, UsageProofs)

`BillingPeriods` is `add_month`, `calendar_period` and `subscription_period` on
day numbers, for a year with arbitrary month lengths. `UsageQuota` is one
organization's `record_usage` against `change_plan` and webhooks; all three hold
the organization row. The clock (`Tick`) moves between any two steps, so the
period used for the check and `created_at` may differ. Deletion of the
organization, which only turns the call into a 404, is left out.

### Sessions (with MCSessions, SessionsProofs)

Registration, login, refresh and logout. A token row carries the login it
descends from, which the database does not store; properties speak of it.

### RateLimit (with RateLimitProofs)

`FixedWindowRateLimiter` and a client that heeds Retry-After. A request reads the
clock (`ReadClock`), and any time later its script runs in Redis (`Admit` or
`Reject`): `INCR`, and `EXPIRE` when the counter is new. `LoseReply` runs the
script without an answer, after which redis-py sends it again; `Fail` gives up. An
expired key is absent (`Value`). Time is in ticks, several to a second, because
the code mixes a fractional clock with whole seconds. The limit is kept only for
requests whose script runs within a second of their clock reading: that is what
the extra second in `window_seconds + 1` buys, and `late` counts the others.

### Resources (with MCResources, ResourcesProofs)

API keys, projects and the usage recorded with a key. Requests and locks are as in
Tenancy, with one lock table for the rows of all tables; `Statements` lists the
statements of each operation. Membership changes and the deletion of the
organization, whose detail is in Tenancy, compete with them (`ChangeMember` in one
step, the deletion with its cascade row by row). The rate limiter and the quota,
which RateLimit and UsageQuota have in detail, may turn a request away at any
time. `authenticate_api_key` is two steps: the lookup, which takes no lock
(`BeginUse`), and the flush of `last_used_at`, which locks the row (`Touch`).
From the flush on, a revocation waits (`RevocationWaits`); a request that looked
the key up before a revocation and flushes after it is still served, because the
UPDATE does not look at `revoked_at`. The repository's README says that revoked
keys are rejected, which the lookup does for every request that begins after the
revocation.

## 3. What the runs check

All runs set `CHECK_DEADLOCK FALSE`, because the modelled system may stop: clients
stop sending, the worker waits on an empty queue, and the finite pools of keys
run out.

| Run | Shows | Bounds |
| --- | --- | --- |
| `tenants` | `LastOwner`, `TenantIsolation`, `ActsAtomically`, `NeverStuck`, `UniqueRows` | an owner and an admin, two concurrent requests again and again (role changes, removals, creation, renaming, deletion), a second tenant that either may create |
| `invite` | `OneActiveInvitation`, `ActsAtomically`, `ActorQualifiedAtCommit`, `MailAfterCommit` | two concurrent requests (invite, accept, remove), two invitation keys, two new members, so that a user who was removed can come back |
| `live` | `EveryRequestEnds`, `NoOrphans`, `DeadlockNeedsMemberChange` | a founder and a user he may invite, one invitation key; lock cycles between removals, deletion, invitation, acceptance and renaming (a role change takes the locks of a removal) |
| `stale` | finding, see below | three owners, two requests |
| `queue` | `NeverLost`, `DeadAfterRetries`, `HeldIsInFlight`, `OneCopy`, `TakenInTurn`, `EveryJobEnds`, `RestartRescues` | one worker, two jobs and a foreign entry, one retry, two crashes, two faults; `MaxEntries` is out of reach |
| `billing_delivery` | `ExactlyOnce`, `AcceptedIsRemembered`, `DoneMeansProcessed`, `AcceptedEnds` | two events, two concurrent deliveries, two jobs, a crash and a fault |
| `billing_overlap` | `ExactlyOnce` | two workers, two jobs of one event (a failed payment, whose effect no plan change has), a crash and a plan change; `MaxEntries` stops copies from multiplying without end |
| `usage_quota` | `QuotaRespected`, `PlanChangeKeepsPeriod`, `RollsMonthly` | months of 3, 1 and 2 days, so that clamping and two turns of the period happen |
| `usage_ahead` | finding, see below | one period that has not begun |
| `sessions` | `OneLivePerLogin`, `SuccessorReplacesLive`, `UniqueEmails` | three requests and three tokens: two refreshes and a logout of one token |
| `rate_limit` | `WithinLimit`, `NoEarlyRejection`, `RetryAfterExact` | two concurrent requests, a limit of 2, windows of two seconds of two ticks, and time for a counter to expire and for the next window to begin; one lost reply; one identifier, since a counter belongs to one |
| `resources` | `NoOrphans`, `DeadlockNeedsDeletion`, `AuditExact`, `TenantIsolation`, `OwnersManageKeys`, `RevocationWaits` | two tenants with a shared owner, two concurrent requests again and again, one key and one project, both created in the run |

Each module has one type invariant, which includes how locks and program counters
belong together. All are proved, and the runs do not repeat them.

Two-process races need two requests or workers, and `sessions` has three because a
third can undo what the first two rely on; a process that has finished starts
again, so two slots give sequences of any length. The bounds on keys, crashes and faults let
each kind of event happen at least once in combination with every other. The
results that do not depend on such bounds are proved (section 5).

### Findings

* `stale`: an owner who is demoted to ADMIN while his request waits for his own
  membership row is still judged as OWNER (`app/services/organizations.py:184`
  and `:220`), and may demote, remove or make an owner. The README says that
  admin operations "reject changes to an owner and any attempt to grant the owner
  role". `LastOwner` holds nevertheless, and is proved: a stale object can only
  be the caller's own row, and a caller who changes his own row is seen as OWNER,
  so an owner is never mistaken for less.
* `usage_ahead`: a webhook may store a period that has not begun.
  `subscription_period` returns it as it is, so `record_usage` sums a period its
  event does not fall into, and every request until then spends the same
  remaining quota. `usage_quota` covers periods that have begun (`Ahead = FALSE`).
  With that restriction the sentence of the README is proved (`QuotaIsSpent`).

## 4. Fairness

* `Tenancy.FairSpec`: handlers run on (weak fairness of steps that do not wait);
  strong fairness of lock acquisition and of commits that wait for a key share,
  because PostgreSQL queues waiters; the deadlock detector breaks every cycle.
  No request is assumed to be sent, and `Abort` is not assumed to happen.
* `JobQueue.QFairSpec`: a worker that is up takes steps and is restarted when it
  dies (`docker-compose.yml` runs it with `restart: unless-stopped`); handlers
  return or raise. Neither outcome is favoured. The number of crashes is bounded:
  a job that always kills its worker is retried for ever, because recovery counts
  no attempt.
* `BillingWebhooks.BFairSpec`: the same, and an open plan change ends.
* `RateLimit` and `Resources` have none. For Tenancy, that not everybody waits is
  also stated without fairness (`NeverStuck`): in every state with an open request
  some request is `Ready` or part of a deadlock.

## 5. Proofs

| Theorem | Statement |
| --- | --- |
| `TenancyProofs!TenancyCorrect`, `TypeCorrect`, `OwnerKept`, `NothingOrphaned`, `RowsUnique` | `Spec => []TenancyInv` and, from it, `TypeOK`, `LastOwner`, `NoOrphans`, `UniqueRows` |
| `TenancyProofs!ChecksHold`, `InvitedOnce`, `MailedAfterCommit` | `Spec => []HandlerInv` and, from it, `OneActiveInvitation`, `MailAfterCommit` |
| `TenancyProofs!OperationsAreAtomic`, `InviteeStaysOutside` | `Spec => ActsAtomically`, that is the contract's `CSpec` under the mapping of section 2; on the way to it, `Spec => []AddressInv` |
| `TenancyProofs!SomebodyGoesOn`, `MemberChangeInEveryDeadlock` | `Spec => []NeverStuck` and `Spec => []DeadlockNeedsMemberChange` |
| `TenancyProofs!CallersQualify`, `TenantsIsolated`, `EntryByInvitation`, `EveryChangeAudited` | `Spec` implies the action properties `ActorQualifiedAtCommit`, `TenantIsolation`, `AdmittedByInvitation`, `ChangesAudited` |
| `JobQueueProofs!QueueCorrect`, `QueueTypes`, `NoJobLost`, `DeadOnlyWhenExhausted` | `QSpec => []QInv` and, from it, `QTypeOK`, `NeverLost`, `DeadAfterRetries` |
| `JobQueueProofs!NothingInvented` | `QSpec => []OnlySent`: lists and workers hold only jobs that were enqueued |
| `JobQueueProofs!HeldJobInFlight`, `JobsNotDuplicated`, `TurnsKept` | with one worker, `QSpec => []HeldIsInFlight`, `QSpec => []OneCopy` and `OSpec => TakenInTurn` |
| `BillingProofs!BillingCorrect`, `BillingTypes`, `AcknowledgedIsProcessed`, `AcceptedIsNotForgotten` | `BSpec => []BillingInv` and, from it, `BTypeOK`, `DoneMeansProcessed`, `AcceptedIsRemembered` |
| `BillingProofs!BillingUsesTheQueue` | `BSpec => QSpec` |
| `BillingProofs!BillingExactlyOnce`, `BillingTrailExplains` | `BSpec => ExactlyOnce`, that is the contract's `CSpec` under the mapping of section 2; so `BSpec => []AuditTrail` |
| `ResourcesProofs!ResourcesCorrect`, `ResourceTypes`, `NothingOrphaned`, `DeletionInEveryDeadlock` | `Spec => []ResourceInv` and, from it, `RTypeOK`, `NoOrphans`, `DeadlockNeedsDeletion` |
| `ResourcesProofs!AuditIsExact`, `TenantsAreIsolated`, `KeysByOwners`, `RevocationWaitsForUse` | `Spec` implies the action properties `AuditExact`, `TenantIsolation`, `OwnersManageKeys`, `RevocationWaits` |
| `UsageProofs!UsageCorrect`, `UsageTypes`, `PeriodsRollMonthly`, `PlanChangeGivesNoQuota` | `Spec => []UsageInv` and, from it, `UTypeOK`, `RollsMonthly`, `PlanChangeKeepsPeriod` |
| `UsageProofs!QuotaKept`, `QuotaIsSpent` | if no period is stored before it begins (`~Ahead`), `Spec` implies `QuotaRespected` and `QuotaSpent` |
| `SessionsProofs!SessionsCorrect`, `OneTokenLives`, `OneAccountPerEmail`, `RefreshNeedsLive` | `Spec => []SessionsInv` and, from it, `OneLivePerLogin`, `UniqueEmails`, `SuccessorReplacesLive` |
| `RateLimitProofs!LimitCorrect`, `LimitTypes`, `LimitKept`, `RejectedOnlyWhenFull`, `RetryAfterIsExact` | `Spec => []LimitInv` and, from it, `LTypeOK`, `WithinLimit`, `NoEarlyRejection`, `RetryAfterExact` |
| `BillingContractProofs!TrailExplains` | `CSpec => []AuditTrail`, if `WellFormed` |

Assumptions are those named in the modules: markers such as `Free` and `NoReq` are
not values of the sets they are added to, the initial database is consistent
(`InitAssumption`, `ResourceAssumption`: the foreign keys hold), rows of different
tables are different, Tenancy's requests and row ids are finite sets (`PoolAssumption`, for
counting), a month has at least one day (`CalendarAssumption`), payloads have the
form `validate_webhook` lets through (`WellFormed`), the retry budget is at least
one, bounds are natural numbers. The three single-worker theorems carry their
hypothesis in the statement: `docker-compose.yml` starts one worker, and with two
a restart takes over what the other is still handling. `OneCopy` and
`TakenInTurn` speak only of runs without a lost reply or failed command (`faults = 0`). The two quota
theorems assume `~Ahead`, without which the run `usage_ahead` refutes
`QuotaSpent`.

*Tenancy.* `LastOwner` is not inductive: a write that demotes an owner is harmless
only because of what happened before it. `RequestInv` records that: the target of
a change is locked and was not mistaken for less than an owner (`TargetHeld`); the
owners found by the scan are locked and so still owners (`FoundHeld`); a request
about to take ownership away has found another owner (`OwnershipChecked`). For the
stale identity map, `OnlyOwnRowLoaded` says that before the target is locked the
session has loaded no row but the caller's. `OrgHeld` and `InvitationHeld` carry
`NoOrphans` through deletion and acceptance.

`HandlerInv` is a second invariant on top of the first: what a handler has checked
still holds when it writes. The caller's membership, once locked, keeps a role the
query asked for (`ActorHeld`), although the role the session remembers may be
stale; the look-up for an open invitation cannot be overtaken, because invitations
to one organization wait for its row (`InviteChecked`); the invitation being
accepted stays unused and the caller's (`AcceptanceChecked`). The action properties
follow from what each writing step promises in a state with both invariants.

`OperationsAreAtomic` is the refinement. A commit of one request is a step of the
contract because everything the contract asks of the state it commits in is either
under the request's locks or behind a constraint: the caller's role (`ActorHeld`),
the target's row and the other owner (`TargetHeld`, `OwnershipChecked`), the
invitation (`InvitationHeld`, `AcceptanceChecked`), the slug and the membership (the
unique constraints). One thing is neither: that the address a request is about to
invite is not yet a member. `AddressInv` says that it holds all the same, since every
acceptance into the organization waits for the organization's row, which the
inviting request has locked before it looked. The table of roles is well defined
because a user has one row in an organization (`UniqueRows`), and a commit that
inserts, changes or deletes one row changes one entry (`OneEntryChanges`).

`NeverStuck` rests on three facts: a request that waits for nobody is ready
(`UnblockedReady`), which includes that the model's finite pool of ids never holds up
a request that has begun (`RoomLeft`); the holder of a lock is an open request
(`IdleLocksNothing`), so that nobody waits for a session that is over; hence, if
nobody is ready, the open requests all wait for each other, which is what the
deadlock detector looks for.

`DeadlockNeedsMemberChange` is the lock order of the operations that touch no other
member's row: an acceptance locks its invitation and then waits for the
organization; an invitation or a renaming locks the organization and then the
caller's membership. Each lock a request waits for is therefore of a later kind than
those it holds (`LockOrder`), and among such requests a chain of waits ends. A role change or removal, which locks its organization last, and a
deletion, which locks it first and memberships after it, are outside that order.

*JobQueue.* `NeverLost` needs to know that a worker about to remove a job from the
in-flight list has a reason to (`Earned`), and `DeadAfterRetries` that attempt
counters never run ahead of failures (`Counted`). Neither uses that the job in a
worker's hands is still on the list, so the proof covers overlapping workers,
repeated commands and any number of crashes. Lemmas reduce each Redis command to
an operation on the set of list entries. For one worker the lists matter as
sequences: no entry stands twice in a list or in two lists (`NoCopies`). An
enqueued job is new because nothing is on a list that was not sent (`OnlySent`),
and a job is moved, not copied, because the job in hand is still in flight
(`HeldIsInFlight`). From the same facts every step leaves the queue as it is, adds on
the left a job that was not waiting, or takes the one on the right (`QueueMoves`), so
that who is further right is ahead (`InTurn`), which gives `TakenInTurn`.

*Sessions.* `OneLivePerLogin` needs `RotationHeld`: a refresh about to rotate
holds its token's row, so the token is still live at the commit; and that a login
bears the name of a token that exists, so that a new login shares it with none.

*RateLimit.* `WithinLimit` is not inductive: a counter that expired too early would
be started again from nothing. `CounterKept` says that until `Deadline(w)`, after
which no punctual request of window `w` can be counted, the counter of the window
either does not exist and nothing has passed, or does not expire and has counted
every request that passed. `CountEarned` is the converse for `NoEarlyRejection`: a
counter is ahead of the requests that passed only by lost replies. `RetryAfterExact`
needs `WaitsLongEnough`. The arithmetic of windows (products and quotients of
constants) is in lemmas of its own.

*BillingContract.* `AuditTrail` with the types of the variables is inductive. The
argument is that of an append to a log: an event is applied to an organization
whose log does not name it yet, because it is not processed, and its row takes up
at the plan the last row led to. A change that keeps the plan writes no row and
needs none. The theorem holds of everything that implements the contract, so of
`BillingWebhooks`.

*BillingWebhooks.* Its steps are steps of the queue, so `QInv` and `OnlySent` hold
of it. `BillingInv` adds what ties the queue to the database: a job names an event
whose row was committed before the job was sent (`JobsNameEvents`,
`DeliveryKnown`); a handler about to write holds the event's row, which is not
PROCESSED, and the organization's row, and what it loaded is still the
subscription (`HandlerHeld`, and `ChangeHeld` for a plan change); an accepted event
is PROCESSED or has a job that was sent (`AcceptedSent`). `NeverLost` then gives
`AcceptedIsRemembered`. Step by step, `StoreEvent` of a new event is the contract's
`Store`, `ApplyEvent` is `Apply`, `WriteChange` is `ChangePlan` or a stutter,
`DeleteOrg` is `DeleteOrg`, and everything else (lost answers, the failure path,
crashes, redelivery, retries) leaves the contract's state alone.

*Resources.* `ResourceInv` says of each request which rows it may have locked at
which statement (`Holds`) and what it knows of them: the caller is still an owner
(`OwnerHeld`), and the key or project it is about to write is the one it loaded, of
the organization on the path (`KeyHeld`, `UseHeld`, `ProjectHeld`). The action
properties follow per writing step. `DeadlockNeedsDeletion` is the lock order:
memberships before keys, keys and projects before organizations, so that a set of
requests that all wait for each other contains a deletion, whose cascade goes the
other way.

*UsageQuota.* The first day of a month, the rolled period and the sum of the usage
are recursive functions. `RecursiveFunction` shows once that a recursion whose
argument gets smaller in some measure defines a function, and each induction is the
choice of a counterexample of least measure. From there `PeriodTick` is all the
calendar one needs: a day later the period is the same, or the month that follows
it. So the verdict of `record_usage` survives the clock (`VerdictHolds`): the period
stays, or a new one begins in which nothing is recorded yet. So, too, the period
`change_plan` is about to store and the one stored now roll to the same period
(`RowReady`). Each transaction relies on the organization's row lock for the rest.

Only model-checked:

* liveness under fairness: `EveryRequestEnds`, `EveryJobEnds`, `RestartRescues`,
  `AcceptedEnds`, which is outside the prover's reach;
* the two findings, whose counterexamples are TLC's.

## 6. Not modelled

Read-only endpoints (listings, `get_usage_summary`), input validation, wording of
errors, logging and metrics; cryptography of passwords, JWTs and signatures;
migrations, demo data (`scripts/seed_demo.py`, which runs alone) and container
files. The rollup and e-mail handlers only log and appear as handlers that return
or raise. Users are never deactivated by the service, so `is_active` is constant.
Rejected webhook deliveries change nothing. Provider order of events is not
promised by the code, and checked only for jobs that do not fail (`TakenInTurn`). All servers share one clock. In `Resources`
nobody is admitted to an organization after the start; a new member differs from
a present one only in having been absent.

## 7. State of the project

Every component with state of its own is modelled: Tenancy against TenancyContract,
BillingWebhooks (which is JobQueue with the route, the handler and the database)
against BillingContract, UsageQuota over BillingPeriods, Sessions, RateLimit and
Resources. Every safety property of a passing run is proved;
liveness is checked by TLC. A change of the code starts at the definitions that
`PROJECT.json` maps to its lines.
