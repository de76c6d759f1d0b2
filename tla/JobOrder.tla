------------------------------- MODULE JobOrder -------------------------------
(***************************************************************************)
(* The order in which the worker takes the jobs of JobQueue.  A history    *)
(* variable, which no action reads, records for every waiting job which    *)
(* jobs are ahead of it.                                                   *)
(***************************************************************************)
EXTENDS JobQueue

VARIABLE ahead  \* by job: those that were waiting when it began to wait and still are

ovars == <<queue, processing, dead, pc, job, sent, done, fails, crashes, faults, ahead>>

Entries == JobIds \cup Foreign
Waiting(list) == {e.id : e \in ToSet(list)}

OInit == QInit /\ ahead = [j \in Entries |-> {}]

\* Whoever leaves the queue is no longer ahead of anybody, also when it comes
\* back; whoever joins it finds the others ahead.
Ranks ==
  ahead' = [j \in Entries |->
    IF j \notin Waiting(queue') THEN {}
    ELSE IF j \in Waiting(queue) THEN ahead[j] \cap Waiting(queue')
    ELSE Waiting(queue)]

ONext == QNext /\ Ranks

OSpec == OInit /\ [][ONext]_ovars
OFairSpec == OSpec /\ Fairness

-----------------------------------------------------------------------------

\* One worker and a Redis that answers: a job is taken only when its turn has
\* come.  New jobs, retried jobs and jobs put back after a crash all wait for
\* those that were there before them, so nobody is overtaken twice by the same
\* job: a job that fails, or kills its worker again and again, does not hold up
\* the others, and events whose jobs do not fail are handled in the order in
\* which they were enqueued.
TakenInTurn ==
  [][faults' = 0 =>
       \A j \in Waiting(queue) \ Waiting(queue'), k \in Waiting(queue) \cap Waiting(queue') :
         j \in ahead[k]]_ovars

=============================================================================
