------------------------------- MODULE JobQueue -------------------------------
(***************************************************************************)
(* The Redis list queue of app/infrastructure/queue.py and the worker      *)
(* processes of app/workers/worker.py that drain it.                       *)
(*                                                                         *)
(* Lists run from left to right, as in Redis: LPUSH adds on the left and   *)
(* the next job is the one on the right.  A Redis command is one step,     *)
(* executed some number of times: once normally; not at all when the       *)
(* connection fails first; twice when the reply is lost and the client     *)
(* (redis-py 6 retries by default) sends it again.  The worker loop        *)
(* catches the error of a failed command and polls on, so an error after   *)
(* the execution and a normal reply differ only for dequeue and recovery.  *)
(*                                                                         *)
(* A job is its id and its attempt counter.  Equal jobs are equal JSON     *)
(* texts: parsing and printing a text the application produced gives the   *)
(* same text, so LREM finds it.                                            *)
(*                                                                         *)
(* An operator named X_Fault is a deliberately wrong variant of X.         *)
(***************************************************************************)
EXTENDS Naturals, SequencesExt

CONSTANTS Workers,      \* worker processes
          JobIds,       \* jobs the application may enqueue
          Foreign,      \* entries that are not a job: Job.from_json rejects them
          MaxAttempts,  \* the worker's retry budget
          MaxCrashes,   \* bound: how often worker processes die
          MaxFaults,    \* bound: how many Redis commands go wrong
          MaxEntries,   \* bound: entries on the lists when a recovery goes on
          NoJob

ASSUME BudgetAssumption == MaxAttempts \in Nat \ {0}
ASSUME BoundAssumption == MaxCrashes \in Nat /\ MaxFaults \in Nat /\ MaxEntries \in Nat
ASSUME ForeignAssumption == JobIds \cap Foreign = {}

Job == [id: JobIds \cup Foreign, attempt: 0..MaxAttempts]

ASSUME NoJobAssumption == NoJob \notin Job

VARIABLES
  queue, processing,  \* the job list and the in-flight list
  dead,     \* the dead-letter list; nothing reads it, so a set of jobs
  pc, job,  \* where each worker is in run_forever, and the job in its hands
  sent,     \* jobs LPUSHed by the application
  done,     \* jobs whose handler has returned
  fails,    \* how often the handler of a job has raised, up to the budget
  crashes, faults

lists == <<queue, processing, dead>>
history == <<sent, done, fails>>
qvars == <<queue, processing, dead, pc, job, sent, done, fails, crashes, faults>>

QInit ==
  /\ queue = <<>> /\ processing = <<>> /\ dead = {}
  /\ pc = [w \in Workers |-> "down"]
  /\ job = [w \in Workers |-> NoJob]
  /\ sent = {} /\ done = {}
  /\ fails = [j \in JobIds |-> 0]
  /\ crashes = 0 /\ faults = 0

-----------------------------------------------------------------------------
(* Redis. *)

\* A command is executed once, or, for one unit of the fault bound, 0 or 2 times.
Fault == faults < MaxFaults /\ faults' = faults + 1
Executed(n) ==
  \/ n = 1 /\ UNCHANGED faults
  \/ n \in {0, 2} /\ Fault

\* LPUSH list e, n times.
Pushed(list, e, n) == [i \in 1..n |-> e] \o list

\* LREM list 1 e, n times.
Removed(list, e, n) ==
  CASE n = 0 -> list
    [] n = 1 -> RemoveFirst(list, e)
    [] n = 2 -> RemoveFirst(RemoveFirst(list, e), e)

\* (B)RPOPLPUSH, n times: what remains on the source, and the part of it that
\* comes before the old contents of the destination.
Remaining(list, n) == SubSeq(list, 1, Len(list) - n)
Popped(list, n) == SubSeq(list, Len(list) - n + 1, Len(list))

-----------------------------------------------------------------------------
(* Producers: RedisJobQueue.enqueue, with the fresh job of Job.create. *)

Enqueue(j, n) ==
  /\ j \notin sent
  /\ Executed(n)
  /\ queue' = Pushed(queue, [id |-> j, attempt |-> 0], n)
  /\ sent' = IF n = 0 THEN sent ELSE sent \cup {j}
  /\ UNCHANGED <<processing, dead, pc, job, done, fails, crashes>>

\* Another client of the same Redis pushes something that is not a job.
PushForeign(f) ==
  /\ f \notin sent
  /\ queue' = Pushed(queue, [id |-> f, attempt |-> 0], 1)
  /\ sent' = sent \cup {f}
  /\ UNCHANGED <<processing, dead, pc, job, done, fails, crashes, faults>>

-----------------------------------------------------------------------------
(* The worker process. *)

GoTo(w, step) == pc' = [pc EXCEPT ![w] = step]
Drop(w) == job' = [job EXCEPT ![w] = NoJob]

Start(w) ==
  /\ pc[w] = "down"
  /\ GoTo(w, "recover")
  /\ UNCHANGED <<lists, job, history, crashes, faults>>

\* recover_in_flight, one RPOPLPUSH at a time.  It runs outside the loop's try,
\* so an error there ends the process; a repeated command that finds the list
\* empty ends the recovery.  A recovery that overlaps another worker takes the
\* job from under it, and the two may go on multiplying copies: MaxEntries
\* bounds that, and is out of reach with one worker.
RecoverMoves_Nothing(n) == UNCHANGED <<queue, processing>>
RecoverMoves_Copy(n) ==
  queue' = Popped(processing, n) \o queue /\ UNCHANGED processing
RecoverMoves_First(n) ==
  queue' = queue \o Popped(processing, n) /\ processing' = Remaining(processing, n)
RecoverMoves(n) ==
  /\ queue' = Popped(processing, n) \o queue
  /\ processing' = Remaining(processing, n)

Recover(w, n) ==
  /\ pc[w] = "recover"
  /\ n <= Len(processing) /\ RecoverMoves(n)
  /\ Len(processing) \in 1..(MaxEntries - Len(queue))
  /\ \/ n = 1 /\ UNCHANGED <<pc, faults>>
     \/ n = 2 /\ Fault /\ UNCHANGED pc
     \/ n \in {0, 1} /\ Fault /\ GoTo(w, "down")
     \/ n = 1 /\ Len(processing) = 1 /\ Fault /\ GoTo(w, "poll")
  /\ UNCHANGED <<dead, job, history, crashes>>

Recovered(w) ==
  /\ pc[w] = "recover"
  /\ processing = <<>>
  /\ GoTo(w, "poll")
  /\ UNCHANGED <<lists, job, history, crashes, faults>>

InFlight(n) == processing' = Popped(queue, n) \o processing

\* dequeue: the worker holds the job the last BRPOPLPUSH moved.  When the reply
\* is lost, or a repeated command finds the queue empty, it holds nothing and
\* what was moved stays in flight.
Dequeue(w, n) ==
  /\ pc[w] = "poll"
  /\ n \in 1..Len(queue)
  /\ Executed(n)
  /\ queue' = Remaining(queue, n)
  /\ InFlight(n)
  /\ LET e == Head(Popped(queue, n)) IN
       /\ job' = [job EXCEPT ![w] = e]
       /\ GoTo(w, IF e.id \in Foreign THEN "discard" ELSE "handle")
  /\ UNCHANGED <<dead, history, crashes>>

DequeueLost(w) ==
  /\ pc[w] = "poll"
  /\ queue # <<>>
  /\ Fault
  /\ queue' = Remaining(queue, 1)
  /\ InFlight(1)
  /\ UNCHANGED <<dead, pc, job, history, crashes>>

\* dequeue of an entry from_json rejects: a MULTI of LREM and LPUSH.
Discard(w, n) ==
  /\ pc[w] = "discard"
  /\ Executed(n)
  /\ processing' = Removed(processing, job[w], n)
  /\ dead' = IF n = 0 THEN dead ELSE dead \cup {job[w]}
  /\ GoTo(w, "poll") /\ Drop(w)
  /\ UNCHANGED <<queue, history, crashes>>

-----------------------------------------------------------------------------
(* run_once: the handler returns, or raises (an unknown job type raises). *)

HandlerReturns(w) ==
  /\ pc[w] = "handle"
  /\ done' = done \cup {job[w].id}
  /\ GoTo(w, "ack")
  /\ UNCHANGED <<lists, job, sent, fails, crashes, faults>>

Exhausted_OneEarly(e) == e.attempt + 1 >= MaxAttempts
Exhausted(e) == e.attempt >= MaxAttempts

HandlerRaises_Requeues(w) ==
  /\ pc[w] = "handle"
  /\ fails' = [fails EXCEPT ![job[w].id] = IF @ > MaxAttempts THEN @ ELSE @ + 1]
  /\ GoTo(w, IF Exhausted(job[w]) THEN "bury" ELSE "retry")
  /\ queue' = Pushed(queue, job[w], 1)
  /\ processing' = Removed(processing, job[w], 1)
  /\ UNCHANGED <<dead, job, sent, done, crashes, faults>>
HandlerRaises(w) ==
  /\ pc[w] = "handle"
  /\ fails' = [fails EXCEPT ![job[w].id] = IF @ > MaxAttempts THEN @ ELSE @ + 1]
  /\ GoTo(w, IF Exhausted(job[w]) THEN "bury" ELSE "retry")
  /\ UNCHANGED <<lists, job, sent, done, crashes, faults>>

Acknowledge(w, n) ==
  /\ pc[w] = "ack"
  /\ Executed(n)
  /\ processing' = Removed(processing, job[w], n)
  /\ GoTo(w, "poll") /\ Drop(w)
  /\ UNCHANGED <<queue, dead, history, crashes>>

NextAttempt_Same(e) == e
NextAttempt(e) == [e EXCEPT !.attempt = @ + 1]

\* retry, after the sleep: a MULTI of LREM and LPUSH.
RetryPushes_Nothing(e, n) == UNCHANGED queue
RetryPushes(e, n) == queue' = Pushed(queue, NextAttempt(e), n)

Retry(w, n) ==
  /\ pc[w] = "retry"
  /\ Executed(n)
  /\ processing' = Removed(processing, job[w], n)
  /\ RetryPushes(job[w], n)
  /\ GoTo(w, "poll") /\ Drop(w)
  /\ UNCHANGED <<dead, history, crashes>>

\* move_to_dead_letter: a MULTI of LREM and LPUSH.
MoveToDeadLetter(w, n) ==
  /\ pc[w] = "bury"
  /\ Executed(n)
  /\ processing' = Removed(processing, job[w], n)
  /\ dead' = IF n = 0 THEN dead ELSE dead \cup {job[w]}
  /\ GoTo(w, "poll") /\ Drop(w)
  /\ UNCHANGED <<queue, history, crashes>>

\* The process dies at any point; the job it held stays in flight.
Crash(w) ==
  /\ pc[w] # "down"
  /\ crashes < MaxCrashes
  /\ crashes' = crashes + 1
  /\ GoTo(w, "down") /\ Drop(w)
  /\ UNCHANGED <<lists, history, faults>>

-----------------------------------------------------------------------------

\* Everything a worker does that is not its handler.
WorkerStep(w) ==
  \/ Start(w) \/ Recovered(w) \/ DequeueLost(w)
  \/ \E n \in 0..2 :
       \/ Recover(w, n) \/ Dequeue(w, n) \/ Discard(w, n)
       \/ Acknowledge(w, n) \/ Retry(w, n) \/ MoveToDeadLetter(w, n)

QNext ==
  \/ \E j \in JobIds, n \in 0..2 : Enqueue(j, n)
  \/ \E f \in Foreign : PushForeign(f)
  \/ \E w \in Workers :
       WorkerStep(w) \/ HandlerReturns(w) \/ HandlerRaises(w) \/ Crash(w)

QSpec == QInit /\ [][QNext]_qvars

\* Every worker process keeps running, and is restarted when it dies (compose
\* runs it with restart: unless-stopped); handlers return or raise.
Fairness ==
  \A w \in Workers : /\ WF_qvars(WorkerStep(w))
                     /\ WF_qvars(HandlerReturns(w) \/ HandlerRaises(w))

QFairSpec == QSpec /\ Fairness

-----------------------------------------------------------------------------
(* Properties. *)

Steps == {"down", "recover", "poll", "discard", "handle", "ack", "retry", "bury"}
Holding == {"discard", "handle", "ack", "retry", "bury"}

\* The lists hold jobs within the retry budget, and a worker holds a job
\* exactly while run_once has one: one it can parse when it handles, retries
\* or buries it.
QTypeOK ==
  /\ queue \in Seq(Job) /\ processing \in Seq(Job) /\ dead \subseteq Job
  /\ pc \in [Workers -> Steps]
  /\ job \in [Workers -> Job \cup {NoJob}]
  /\ \A w \in Workers :
       /\ (pc[w] \in Holding) <=> (job[w] # NoJob)
       /\ job[w] # NoJob => ((pc[w] = "discard") <=> (job[w].id \in Foreign))
  /\ sent \subseteq JobIds \cup Foreign /\ done \subseteq JobIds
  /\ fails \in [JobIds -> 0..(MaxAttempts + 1)]
  /\ crashes \in 0..MaxCrashes /\ faults \in 0..MaxFaults

Listed(j) == \E e \in ToSet(queue) \cup ToSet(processing) : e.id = j
Buried(j) == \E e \in dead : e.id = j

\* README: jobs "are acknowledged only after successful handling".  Whatever
\* crashes, lost replies, repeated commands and overlapping workers do, a job
\* that reached Redis is waiting, in flight, buried, or its handler returned.
NeverLost == \A j \in sent : Listed(j) \/ Buried(j) \/ j \in done

\* README: "Jobs that exhaust the retry budget move to a dead-letter queue".
\* A job is buried only after the handler raised once more than the budget.
DeadAfterRetries == \A e \in dead : e.id \in JobIds => fails[e.id] = MaxAttempts + 1

\* One worker: the job in its hands is on the in-flight list, so that the next
\* recover_in_flight finds it if the process dies now.
HeldIsInFlight ==
  \A w \in Workers : pc[w] \in Holding => Contains(processing, job[w])

Occurrences(list, j) == Cardinality({i \in DOMAIN list : list[i].id = j})

\* One worker and a Redis that answers: crashes, retries and recovery never
\* make a second copy of a job.
OneCopy ==
  faults = 0 =>
    \A j \in sent :
      Occurrences(queue, j) + Occurrences(processing, j)
        + Cardinality({e \in dead : e.id = j}) <= 1

\* Every job that reached Redis ends, done or buried, although workers crash
\* (a bounded number of times) and handlers raise; only a Redis command that
\* goes wrong can leave it where nobody looks, and RestartRescues is about that.
EveryJobEnds ==
  \A j \in JobIds : j \in sent ~> (j \in done \/ Buried(j) \/ faults > 0)

\* A job a lost reply left in flight waits for a restart; the restart rescues
\* it: once no more commands go wrong, every job Redis has when a worker
\* starts ends.
RestartRescues ==
  \A j \in JobIds, w \in Workers :
    (j \in sent /\ pc[w] = "recover" /\ faults = MaxFaults)
      ~> (j \in done \/ Buried(j))

=============================================================================
