--------------------------- MODULE JobQueueProofs ---------------------------
(***************************************************************************)
(* Proofs about JobQueue and JobOrder, for any number of workers, jobs and *)
(* failures.  All but the order of the turns depends on the lists only     *)
(* through the sets of their entries, so the first lemmas say what each    *)
(* Redis command does to those sets.                                       *)
(***************************************************************************)
EXTENDS JobOrder, FiniteSetTheorems, WellFoundedInduction, TLAPS

\* The inductive invariant: besides NeverLost and DeadAfterRetries, an attempt
\* counter never runs ahead of the failures, and the job a worker
\* acknowledges, retries or buries has earned it.
Counted(e) == e.id \in JobIds => fails[e.id] >= e.attempt
Earned(w) ==
  /\ job[w] # NoJob => Counted(job[w])
  /\ pc[w] = "ack" => job[w].id \in done
  /\ pc[w] = "retry" =>
       job[w].attempt < MaxAttempts /\ fails[job[w].id] > job[w].attempt
  /\ pc[w] = "bury" => fails[job[w].id] = MaxAttempts + 1

QInv ==
  /\ QTypeOK /\ NeverLost /\ DeadAfterRetries
  /\ \A e \in ToSet(queue) \cup ToSet(processing) : Counted(e)
  /\ \A w \in Workers : Earned(w)

\* A nonempty set of numbers has its minimum.
LEMMA MinIsMember ==
  ASSUME NEW I \in SUBSET Nat, I # {}
  PROVE  Min(I) \in I
<1> DEFINE R == OpToRel(<, Nat)
<1>1. \E x \in I : \A y \in I : ~ (<<y, x>> \in R)
  <2>1. IsWellFoundedOn(R, Nat)
    BY NatLessThanWellFounded
  <2> HIDE DEF R
  <2> QED BY <2>1, WFMin
<1>2. ASSUME NEW x \in I, NEW y \in I, ~ (<<y, x>> \in R)
      PROVE  x <= y
  <2>1. <<y, x>> \in Nat \X Nat => ~ (y < x)
    BY <1>2 DEF OpToRel
  <2> QED BY <2>1
<1>3. \E x \in I : \A y \in I : x <= y
  BY <1>1, <1>2
<1> QED BY <1>3 DEF Min

\* An entry of a list is the value at some index.
LEMMA EntryAt ==
  ASSUME NEW S, NEW s \in Seq(S)
  PROVE  /\ \A i \in 1..Len(s) : s[i] \in ToSet(s)
         /\ \A x \in ToSet(s) : \E i \in 1..Len(s) : x = s[i]
         /\ ToSet(s) \subseteq S
BY DEF ToSet

\* So a set has all the entries when it has the value at every index.
LEMMA EntriesIn ==
  ASSUME NEW S, NEW s \in Seq(S), NEW T, \A i \in 1..Len(s) : s[i] \in T
  PROVE  ToSet(s) \subseteq T
BY DEF ToSet

\* Concatenation joins the entries.
LEMMA ConcatSet ==
  ASSUME NEW S, NEW s \in Seq(S), NEW t \in Seq(S)
  PROVE  s \o t \in Seq(S) /\ ToSet(s \o t) = ToSet(s) \cup ToSet(t)
<1> DEFINE u == s \o t
<1>1. /\ u \in Seq(S) /\ Len(u) = Len(s) + Len(t)
      /\ \A i \in 1..Len(s) : u[i] = s[i]
      /\ \A i \in 1..Len(t) : u[Len(s) + i] = t[i]
  OBVIOUS
<1> HIDE DEF u
<1>2. ASSUME NEW i \in 1..Len(u) PROVE u[i] \in ToSet(s) \cup ToSet(t)
  <2>1. CASE i <= Len(s)
    BY <2>1, <1>1, EntryAt
  <2>2. CASE i > Len(s)
    <3>1. PICK k \in 1..Len(t) : i = Len(s) + k
      <4>1. i - Len(s) \in 1..Len(t) /\ i = Len(s) + (i - Len(s))
        BY <2>2, <1>1
      <4> QED BY <4>1
    <3>2. u[i] = t[k]
      BY <3>1, <1>1
    <3> QED BY <3>2, EntryAt
  <2> QED BY <2>1, <2>2, <1>1
<1>3. ASSUME NEW i \in 1..Len(s) PROVE s[i] \in ToSet(u)
  BY <1>1, i \in 1..Len(u), EntryAt
<1>4. ASSUME NEW i \in 1..Len(t) PROVE t[i] \in ToSet(u)
  BY <1>1, Len(s) + i \in 1..Len(u), EntryAt
<1>5. ToSet(u) = ToSet(s) \cup ToSet(t)
  <2>1. ToSet(u) \subseteq ToSet(s) \cup ToSet(t)
    BY <1>1, <1>2, EntriesIn
  <2>2. ToSet(s) \subseteq ToSet(u)
    BY <1>3, EntriesIn
  <2>3. ToSet(t) \subseteq ToSet(u)
    BY <1>4, EntriesIn
  <2> QED BY <2>1, <2>2, <2>3
<1> QED BY <1>1, <1>5 DEF u

\* LPUSH adds an entry.
LEMMA PushedSet ==
  ASSUME NEW S, NEW s \in Seq(S), NEW e \in S, NEW n \in 0..2
  PROVE  /\ Pushed(s, e, n) \in Seq(S)
         /\ ToSet(s) \subseteq ToSet(Pushed(s, e, n))
         /\ \A x \in ToSet(Pushed(s, e, n)) : x \in ToSet(s) \/ (n # 0 /\ x = e)
         /\ n # 0 => e \in ToSet(Pushed(s, e, n))
<1> DEFINE t == [i \in 1..n |-> e]
<1>1. t \in Seq(S) /\ Len(t) = n /\ \A i \in 1..n : t[i] = e
  OBVIOUS
<1> HIDE DEF t
<1>2. (n = 0 => ToSet(t) = {}) /\ (n # 0 => ToSet(t) = {e})
  BY <1>1 DEF ToSet
<1>3. t \o s \in Seq(S) /\ ToSet(t \o s) = ToSet(t) \cup ToSet(s)
  BY <1>1, ConcatSet
<1>4. Pushed(s, e, n) = t \o s
  BY DEF Pushed, t
<1> QED BY <1>2, <1>3, <1>4

\* RPOPLPUSH splits the entries of its source.
LEMMA SplitSet ==
  ASSUME NEW S, NEW s \in Seq(S), NEW n \in 0..Len(s)
  PROVE  /\ Remaining(s, n) \in Seq(S) /\ Popped(s, n) \in Seq(S)
         /\ ToSet(s) = ToSet(Remaining(s, n)) \cup ToSet(Popped(s, n))
         /\ n # 0 => Head(Popped(s, n)) \in ToSet(s)
<1> DEFINE k == Len(s) - n
           a == Remaining(s, n)
           b == Popped(s, n)
<1>1. /\ a \in Seq(S) /\ Len(a) = k /\ \A i \in 1..k : a[i] = s[i]
  BY DEF Remaining
<1>2. /\ b \in Seq(S) /\ Len(b) = n /\ \A i \in 1..n : b[i] = s[k + i]
  BY DEF Popped
<1>3. k \in 0..Len(s) /\ k + n = Len(s)
  OBVIOUS
<1> HIDE DEF a, b, k
<1>4. ASSUME NEW i \in 1..Len(s) PROVE s[i] \in ToSet(a) \cup ToSet(b)
  <2>1. CASE i <= k
    BY <2>1, <1>1, <1>3, EntryAt
  <2>2. CASE i > k
    <3>1. i - k \in 1..n /\ b[i - k] = s[i]
      BY <2>2, <1>2, <1>3, k + (i - k) = i
    <3> QED BY <3>1, <1>2, EntryAt
  <2> QED BY <2>1, <2>2, <1>3
<1>5. ASSUME NEW i \in 1..k PROVE a[i] \in ToSet(s)
  BY <1>1, <1>3, i \in 1..Len(s), EntryAt
<1>6. ASSUME NEW i \in 1..n PROVE b[i] \in ToSet(s)
  BY <1>2, <1>3, k + i \in 1..Len(s), EntryAt
<1>7. ToSet(s) = ToSet(a) \cup ToSet(b)
  <2>1. ToSet(s) \subseteq ToSet(a) \cup ToSet(b)
    BY <1>4, EntriesIn
  <2>2. ToSet(a) \subseteq ToSet(s)
    BY <1>1, <1>5, EntriesIn
  <2>3. ToSet(b) \subseteq ToSet(s)
    BY <1>2, <1>6, EntriesIn
  <2> QED BY <2>1, <2>2, <2>3
<1>8. n # 0 => Head(b) \in ToSet(s)
  <2> SUFFICES ASSUME n # 0 PROVE Head(b) \in ToSet(s)
    OBVIOUS
  <2>1. Head(b) = b[1]
    BY <1>2
  <2> QED BY <2>1, <1>6
<1> QED BY <1>1, <1>2, <1>7, <1>8 DEF a, b

\* LREM takes at most the entry it is given.
LEMMA RemoveFirstSet ==
  ASSUME NEW S, NEW s \in Seq(S), NEW e
  PROVE  /\ RemoveFirst(s, e) \in Seq(S)
         /\ ToSet(s) \ {e} \subseteq ToSet(RemoveFirst(s, e))
         /\ ToSet(RemoveFirst(s, e)) \subseteq ToSet(s)
<1> DEFINE I == {i \in 1..Len(s) : s[i] = e}
           k == Min(I)
           a == SubSeq(s, 1, k - 1)
           b == SubSeq(s, k + 1, Len(s))
<1>1. CASE \E i \in 1..Len(s) : s[i] = e
  <2>1. I # {} /\ I \in SUBSET Nat
    BY <1>1
  <2>2. RemoveFirst(s, e) = a \o b
    BY <1>1, <2>1 DEF RemoveFirst, RemoveAt, SelectInSeq
  <2>3. k \in I
    BY <2>1, MinIsMember
  <2> HIDE DEF k
  <2>4. k \in 1..Len(s) /\ s[k] = e
    BY <2>3
  <2>5. a \in Seq(S) /\ Len(a) = k - 1 /\ \A i \in 1..(k - 1) : a[i] = s[i]
    BY <2>4
  <2>6. b \in Seq(S) /\ Len(b) = Len(s) - k /\ \A i \in 1..(Len(s) - k) : b[i] = s[k + i]
    BY <2>4
  <2> HIDE DEF a, b, I
  <2>7. ASSUME NEW i \in 1..Len(s), s[i] # e PROVE s[i] \in ToSet(a) \cup ToSet(b)
    <3>1. CASE i < k
      BY <3>1, <2>5, <2>4, i \in 1..Len(a), EntryAt
    <3>2. CASE i > k
      <4>1. i - k \in 1..Len(b) /\ b[i - k] = s[i]
        BY <3>2, <2>4, <2>6, k + (i - k) = i
      <4> QED BY <4>1, <2>6, EntryAt
    <3>3. i # k
      BY <2>4, <2>7
    <3> QED BY <3>1, <3>2, <3>3, <2>4
  <2>8. ASSUME NEW i \in 1..Len(a) PROVE a[i] \in ToSet(s)
    BY <2>4, <2>5, i \in 1..Len(s), EntryAt
  <2>9. ASSUME NEW i \in 1..Len(b) PROVE b[i] \in ToSet(s)
    BY <2>4, <2>6, k + i \in 1..Len(s), EntryAt
  <2>10. /\ ToSet(s) \ {e} \subseteq ToSet(a) \cup ToSet(b)
         /\ ToSet(a) \cup ToSet(b) \subseteq ToSet(s)
    <3>1. ToSet(s) \subseteq ToSet(a) \cup ToSet(b) \cup {e}
      BY <2>7, EntriesIn
    <3>2. ToSet(a) \subseteq ToSet(s)
      BY <2>5, <2>8, EntriesIn
    <3>3. ToSet(b) \subseteq ToSet(s)
      BY <2>6, <2>9, EntriesIn
    <3> QED BY <3>1, <3>2, <3>3
  <2> QED BY <2>2, <2>5, <2>6, <2>10, ConcatSet
<1>2. CASE ~\E i \in 1..Len(s) : s[i] = e
  <2>1. RemoveFirst(s, e) = s
    BY <1>2 DEF RemoveFirst
  <2> QED BY <2>1
<1> QED BY <1>1, <1>2

\* ... however often it is executed.
LEMMA RemovedSet ==
  ASSUME NEW S, NEW s \in Seq(S), NEW e, NEW n \in 0..2
  PROVE  /\ Removed(s, e, n) \in Seq(S)
         /\ ToSet(s) \ {e} \subseteq ToSet(Removed(s, e, n))
         /\ ToSet(Removed(s, e, n)) \subseteq ToSet(s)
         /\ n = 0 => Removed(s, e, n) = s
<1>1. CASE n = 0
  BY <1>1 DEF Removed
<1>2. CASE n = 1
  <2>1. Removed(s, e, n) = RemoveFirst(s, e)
    BY <1>2 DEF Removed
  <2> QED BY <1>2, <2>1, RemoveFirstSet
<1>3. CASE n = 2
  <2> DEFINE t == RemoveFirst(s, e)
  <2>1. Removed(s, e, n) = RemoveFirst(t, e)
    BY <1>3 DEF Removed
  <2>2. /\ t \in Seq(S) /\ ToSet(t) \subseteq ToSet(s) /\ ToSet(s) \ {e} \subseteq ToSet(t)
    BY RemoveFirstSet
  <2> HIDE DEF t
  <2>3. /\ RemoveFirst(t, e) \in Seq(S)
        /\ ToSet(t) \ {e} \subseteq ToSet(RemoveFirst(t, e))
        /\ ToSet(RemoveFirst(t, e)) \subseteq ToSet(t)
    BY <2>2, RemoveFirstSet
  <2> QED BY <1>3, <2>1, <2>2, <2>3
<1> QED BY <1>1, <1>2, <1>3

-----------------------------------------------------------------------------
(* The invariant. *)

USE BudgetAssumption, BoundAssumption, ForeignAssumption, NoJobAssumption

\* The fault bound is kept by every command.
LEMMA FaultsBounded ==
  ASSUME faults \in 0..MaxFaults, NEW n, Executed(n) \/ Fault
  PROVE  faults' \in 0..MaxFaults
BY DEF Executed, Fault

LEMMA InitInv == QInit => QInv
<1> SUFFICES ASSUME QInit PROVE QInv
  OBVIOUS
<1>1. ToSet(<<>>) = {}
  BY DEF ToSet
<1>2. QTypeOK
  BY DEF QInit, QTypeOK, Steps, Holding
<1> QED BY <1>1, <1>2 DEF QInit, QInv, NeverLost, DeadAfterRetries, Earned, Counted

\* The same, of the queue.
LEMMA QueuePush ==
  ASSUME QInv, NEW e \in Job, NEW n \in 0..2, queue' = Pushed(queue, e, n)
  PROVE  /\ queue' \in Seq(Job)
         /\ ToSet(queue) \subseteq ToSet(queue')
         /\ \A x \in ToSet(queue') : x \in ToSet(queue) \/ (n # 0 /\ x = e)
         /\ n # 0 => e \in ToSet(queue')
<1>1. queue \in Seq(Job)
  BY DEF QInv, QTypeOK
<1> QED BY <1>1, PushedSet

LEMMA EnqueueInv ==
  ASSUME QInv, NEW j \in JobIds, NEW n \in 0..2, Enqueue(j, n)
  PROVE  QInv'
<1> DEFINE e == [id |-> j, attempt |-> 0]
<1>1. e \in Job
  BY DEF Job
<1>2. /\ queue' \in Seq(Job)
      /\ ToSet(queue) \subseteq ToSet(queue')
      /\ \A x \in ToSet(queue') : x \in ToSet(queue) \/ (n # 0 /\ x = e)
      /\ n # 0 => e \in ToSet(queue')
  <2>1. queue' = Pushed(queue, e, n)
    BY DEF Enqueue
  <2> QED BY <1>1, <2>1, QueuePush
<1>3. QTypeOK'
  BY <1>2, FaultsBounded DEF QInv, QTypeOK, Enqueue
<1>4. NeverLost'
  BY <1>2 DEF QInv, NeverLost, Listed, Buried, Enqueue
<1>5. ASSUME NEW x \in ToSet(queue') \cup ToSet(processing') PROVE Counted(x)'
  BY <1>2 DEF QInv, QTypeOK, Counted, Enqueue
<1>6. DeadAfterRetries' /\ \A w \in Workers : Earned(w)'
  BY DEF QInv, DeadAfterRetries, Earned, Counted, Enqueue
<1> QED BY <1>3, <1>4, <1>5, <1>6 DEF QInv

LEMMA PushForeignInv ==
  ASSUME QInv, NEW f \in Foreign, PushForeign(f)
  PROVE  QInv'
<1> DEFINE e == [id |-> f, attempt |-> 0]
<1>1. e \in Job
  BY DEF Job
<1>2. /\ queue' \in Seq(Job)
      /\ ToSet(queue) \subseteq ToSet(queue')
      /\ \A x \in ToSet(queue') : x \in ToSet(queue) \/ x = e
      /\ e \in ToSet(queue')
  <2>1. queue' = Pushed(queue, e, 1)
    BY DEF PushForeign
  <2> QED BY <1>1, <2>1, 1 \in 0..2, 1 # 0, QueuePush
<1>3. QTypeOK'
  BY <1>2 DEF QInv, QTypeOK, PushForeign
<1>4. NeverLost'
  BY <1>2 DEF QInv, NeverLost, Listed, Buried, PushForeign
<1>5. ASSUME NEW x \in ToSet(queue') \cup ToSet(processing') PROVE Counted(x)'
  <2>1. e.id \notin JobIds
    OBVIOUS
  <2> HIDE DEF e
  <2> QED BY <1>2, <2>1 DEF QInv, QTypeOK, Counted, PushForeign
<1>6. DeadAfterRetries' /\ \A w \in Workers : Earned(w)'
  BY DEF QInv, DeadAfterRetries, Earned, Counted, PushForeign
<1> QED BY <1>3, <1>4, <1>5, <1>6 DEF QInv

\* Moving entries between the lists keeps every property that speaks of their
\* union.
LEMMA SameEntries ==
  ASSUME QInv,
         ToSet(queue') \cup ToSet(processing') = ToSet(queue) \cup ToSet(processing),
         UNCHANGED <<dead, history>>
  PROVE  /\ NeverLost' /\ DeadAfterRetries'
         /\ \A x \in ToSet(queue') \cup ToSet(processing') : Counted(x)'
BY DEF QInv, NeverLost, Listed, Buried, DeadAfterRetries, Counted, history

LEMMA StartInv ==
  ASSUME QInv, NEW w \in Workers, Start(w)
  PROVE  QInv'
<1>1. QTypeOK'
  BY DEF QInv, QTypeOK, Start, GoTo, Steps, Holding, lists, history
<1>2. \A v \in Workers : Earned(v)'
  BY DEF QInv, QTypeOK, Earned, Counted, Start, GoTo, history
<1> QED BY <1>1, <1>2, SameEntries DEF QInv, Start, lists

LEMMA RecoveredInv ==
  ASSUME QInv, NEW w \in Workers, Recovered(w)
  PROVE  QInv'
<1>1. QTypeOK'
  BY DEF QInv, QTypeOK, Recovered, GoTo, Steps, Holding, lists, history
<1>2. \A v \in Workers : Earned(v)'
  BY DEF QInv, QTypeOK, Earned, Counted, Recovered, GoTo, history
<1> QED BY <1>1, <1>2, SameEntries DEF QInv, Recovered, lists

LEMMA RecoverInv ==
  ASSUME QInv, NEW w \in Workers, NEW n \in 0..2, Recover(w, n)
  PROVE  QInv'
<1>1. n \in 0..Len(processing)
  BY DEF Recover
<1>2. /\ Remaining(processing, n) \in Seq(Job) /\ Popped(processing, n) \in Seq(Job)
      /\ ToSet(processing) =
           ToSet(Remaining(processing, n)) \cup ToSet(Popped(processing, n))
  BY <1>1, SplitSet DEF QInv, QTypeOK
<1>3. /\ queue' \in Seq(Job) /\ processing' \in Seq(Job)
      /\ ToSet(queue') \cup ToSet(processing') = ToSet(queue) \cup ToSet(processing)
  BY <1>2, ConcatSet DEF QInv, QTypeOK, Recover, RecoverMoves
<1>4. /\ pc' \in [Workers -> Steps]
      /\ \A v \in Workers : pc[v] # pc'[v] => v = w /\ pc'[v] \in {"down", "poll"}
  BY DEF Recover, GoTo, QInv, QTypeOK, Steps
<1>5. faults' \in 0..MaxFaults
  BY FaultsBounded DEF Recover, QInv, QTypeOK
<1>6. pc[w] = "recover" /\ UNCHANGED <<dead, job, history, crashes>>
  BY DEF Recover
<1>7. QTypeOK'
  BY <1>3, <1>4, <1>5, <1>6 DEF QInv, QTypeOK, Steps, Holding, history
<1>8. \A v \in Workers : Earned(v)'
  BY <1>4, <1>6 DEF QInv, QTypeOK, Earned, Counted, history
<1> QED BY <1>3, <1>6, <1>7, <1>8, SameEntries DEF QInv

\* The job a worker takes, or leaves in flight, was on the queue.
LEMMA DequeueEntries ==
  ASSUME QInv, NEW n \in 1..Len(queue), InFlight(n), queue' = Remaining(queue, n)
  PROVE  /\ queue' \in Seq(Job) /\ processing' \in Seq(Job)
         /\ ToSet(queue') \cup ToSet(processing') = ToSet(queue) \cup ToSet(processing)
         /\ Head(Popped(queue, n)) \in ToSet(queue) /\ Head(Popped(queue, n)) \in Job
<1>1. queue \in Seq(Job) /\ processing \in Seq(Job) /\ n \in 0..Len(queue) /\ n # 0
  BY DEF QInv, QTypeOK
<1>2. /\ Remaining(queue, n) \in Seq(Job) /\ Popped(queue, n) \in Seq(Job)
      /\ ToSet(queue) = ToSet(Remaining(queue, n)) \cup ToSet(Popped(queue, n))
      /\ Head(Popped(queue, n)) \in ToSet(queue)
  BY <1>1, SplitSet
<1>3. /\ processing' \in Seq(Job)
      /\ ToSet(processing') = ToSet(Popped(queue, n)) \cup ToSet(processing)
  BY <1>1, <1>2, ConcatSet DEF InFlight
<1>4. ToSet(queue) \subseteq Job
  BY <1>1, EntryAt
<1> QED BY <1>2, <1>3, <1>4

LEMMA DequeueInv ==
  ASSUME QInv, NEW w \in Workers, NEW n \in 0..2, Dequeue(w, n)
  PROVE  QInv'
<1> DEFINE e == Head(Popped(queue, n))
<1>1. /\ queue' \in Seq(Job) /\ processing' \in Seq(Job)
      /\ ToSet(queue') \cup ToSet(processing') = ToSet(queue) \cup ToSet(processing)
      /\ e \in ToSet(queue) /\ e \in Job
  BY DequeueEntries DEF Dequeue
<1>2. /\ job' = [job EXCEPT ![w] = e]
      /\ pc' = [pc EXCEPT ![w] = IF e.id \in Foreign THEN "discard" ELSE "handle"]
      /\ UNCHANGED <<dead, history, crashes>>
      /\ faults' \in 0..MaxFaults
  BY FaultsBounded DEF Dequeue, GoTo, QInv, QTypeOK
<1> HIDE DEF e
<1>3. e # NoJob /\ Counted(e)
  BY <1>1 DEF QInv
<1>4. QTypeOK'
  BY <1>1, <1>2, <1>3 DEF QInv, QTypeOK, Steps, Holding, history
<1>5. \A v \in Workers : Earned(v)'
  BY <1>2, <1>3 DEF QInv, QTypeOK, Earned, Counted, history
<1> QED BY <1>1, <1>2, <1>4, <1>5, SameEntries DEF QInv

LEMMA DequeueLostInv ==
  ASSUME QInv, NEW w \in Workers, DequeueLost(w)
  PROVE  QInv'
<1>1. 1 \in 1..Len(queue)
  BY DEF DequeueLost, QInv, QTypeOK
<1>2. /\ queue' \in Seq(Job) /\ processing' \in Seq(Job)
      /\ ToSet(queue') \cup ToSet(processing') = ToSet(queue) \cup ToSet(processing)
  BY <1>1, DequeueEntries DEF DequeueLost
<1>3. UNCHANGED <<dead, pc, job, history, crashes>> /\ faults' \in 0..MaxFaults
  BY FaultsBounded DEF DequeueLost, QInv, QTypeOK
<1>4. QTypeOK'
  BY <1>2, <1>3 DEF QInv, QTypeOK, history
<1>5. \A v \in Workers : Earned(v)'
  BY <1>3 DEF QInv, QTypeOK, Earned, Counted, history
<1> QED BY <1>2, <1>3, <1>4, <1>5, SameEntries DEF QInv

\* A worker that has finished with its job holds nothing and polls.
LEMMA HandsEmpty ==
  ASSUME QInv, NEW w \in Workers, pc' = [pc EXCEPT ![w] = "poll"], Drop(w),
         UNCHANGED <<history, crashes>>, faults' \in 0..MaxFaults,
         queue' \in Seq(Job), processing' \in Seq(Job), dead' \subseteq Job
  PROVE  QTypeOK' /\ \A v \in Workers : Earned(v)'
<1>1. QTypeOK'
  BY DEF QInv, QTypeOK, Drop, Steps, Holding, history
<1>2. \A v \in Workers : Earned(v)'
  BY DEF QInv, QTypeOK, Earned, Counted, Drop, history
<1> QED BY <1>1, <1>2

LEMMA AcknowledgeInv ==
  ASSUME QInv, NEW w \in Workers, NEW n \in 0..2, Acknowledge(w, n)
  PROVE  QInv'
<1>1. /\ processing' \in Seq(Job)
      /\ ToSet(processing) \ {job[w]} \subseteq ToSet(processing')
      /\ ToSet(processing') \subseteq ToSet(processing)
  BY RemovedSet DEF QInv, QTypeOK, Acknowledge
<1>2. job[w].id \in done
  BY DEF QInv, Earned, Acknowledge
<1>3. QTypeOK' /\ \A v \in Workers : Earned(v)'
  BY <1>1, HandsEmpty, FaultsBounded DEF Acknowledge, GoTo, QInv, QTypeOK
<1>4. NeverLost'
  BY <1>1, <1>2 DEF QInv, NeverLost, Listed, Buried, Acknowledge, history
<1>5. /\ DeadAfterRetries'
      /\ \A x \in ToSet(queue') \cup ToSet(processing') : Counted(x)'
  BY <1>1 DEF QInv, DeadAfterRetries, Counted, Acknowledge, history
<1> QED BY <1>3, <1>4, <1>5 DEF QInv

LEMMA RetryInv ==
  ASSUME QInv, NEW w \in Workers, NEW n \in 0..2, Retry(w, n)
  PROVE  QInv'
<1> DEFINE e == NextAttempt(job[w])
<1>1. job[w] \in Job /\ job[w].id \in JobIds
  BY DEF QInv, QTypeOK, Retry, Holding, Job
<1>2. e \in Job /\ e.id = job[w].id /\ Counted(e)
  <2>1. /\ job[w].attempt \in 0..(MaxAttempts - 1)
        /\ fails[job[w].id] > job[w].attempt /\ fails[job[w].id] \in Nat
    BY <1>1 DEF QInv, QTypeOK, Earned, Retry, Job
  <2>2. e \in Job /\ e.id = job[w].id /\ e.attempt = job[w].attempt + 1
    BY <1>1, <2>1 DEF NextAttempt, Job
  <2> HIDE DEF e
  <2> QED BY <2>1, <2>2 DEF Counted
<1>3. /\ processing' \in Seq(Job)
      /\ ToSet(processing) \ {job[w]} \subseteq ToSet(processing')
      /\ ToSet(processing') \subseteq ToSet(processing)
      /\ n = 0 => processing' = processing
  BY RemovedSet DEF QInv, QTypeOK, Retry
<1>4. /\ queue' \in Seq(Job)
      /\ ToSet(queue) \subseteq ToSet(queue')
      /\ \A x \in ToSet(queue') : x \in ToSet(queue) \/ (n # 0 /\ x = e)
      /\ n # 0 => e \in ToSet(queue')
  <2>1. queue' = Pushed(queue, e, n)
    BY DEF Retry, RetryPushes
  <2> QED BY <1>2, <2>1, QueuePush
<1> HIDE DEF e
<1>5. QTypeOK' /\ \A v \in Workers : Earned(v)'
  BY <1>3, <1>4, HandsEmpty, FaultsBounded DEF Retry, GoTo, QInv, QTypeOK
<1>6. NeverLost'
  BY <1>2, <1>3, <1>4 DEF QInv, NeverLost, Listed, Buried, Retry, history
<1>7. /\ DeadAfterRetries'
      /\ \A x \in ToSet(queue') \cup ToSet(processing') : Counted(x)'
  BY <1>2, <1>3, <1>4 DEF QInv, DeadAfterRetries, Counted, Retry, history
<1> QED BY <1>5, <1>6, <1>7 DEF QInv

\* The two ways into the dead-letter list.
LEMMA BuryInv ==
  ASSUME QInv, NEW w \in Workers, NEW n \in 0..2, Discard(w, n) \/ MoveToDeadLetter(w, n)
  PROVE  QInv'
<1>1. job[w] \in Job /\ pc[w] \in {"discard", "bury"}
  BY DEF QInv, QTypeOK, Discard, MoveToDeadLetter, Holding
<1>2. job[w].id \in JobIds => fails[job[w].id] = MaxAttempts + 1
  BY <1>1 DEF QInv, QTypeOK, Earned
<1>3. /\ processing' \in Seq(Job)
      /\ ToSet(processing) \ {job[w]} \subseteq ToSet(processing')
      /\ ToSet(processing') \subseteq ToSet(processing)
      /\ n = 0 => processing' = processing
  BY RemovedSet DEF QInv, QTypeOK, Discard, MoveToDeadLetter
<1>4. /\ dead' = IF n = 0 THEN dead ELSE dead \cup {job[w]}
      /\ pc' = [pc EXCEPT ![w] = "poll"] /\ Drop(w)
      /\ UNCHANGED <<queue, history, crashes>>
      /\ faults' \in 0..MaxFaults
  BY FaultsBounded DEF Discard, MoveToDeadLetter, GoTo, QInv, QTypeOK
<1>5. QTypeOK' /\ \A v \in Workers : Earned(v)'
  BY <1>1, <1>3, <1>4, HandsEmpty DEF QInv, QTypeOK
<1>6. NeverLost'
  BY <1>3, <1>4 DEF QInv, NeverLost, Listed, Buried, history
<1>7. /\ DeadAfterRetries'
      /\ \A x \in ToSet(queue') \cup ToSet(processing') : Counted(x)'
  BY <1>2, <1>3, <1>4 DEF QInv, DeadAfterRetries, Counted, history
<1> QED BY <1>5, <1>6, <1>7 DEF QInv

LEMMA HandlerReturnsInv ==
  ASSUME QInv, NEW w \in Workers, HandlerReturns(w)
  PROVE  QInv'
<1>1. job[w] \in Job /\ job[w].id \in JobIds
  BY DEF QInv, QTypeOK, HandlerReturns, Holding, Job
<1>2. QTypeOK'
  BY <1>1 DEF QInv, QTypeOK, HandlerReturns, GoTo, Steps, Holding, lists
<1>3. \A v \in Workers : Earned(v)'
  BY <1>1 DEF QInv, QTypeOK, Earned, Counted, HandlerReturns, GoTo
<1>4. NeverLost' /\ DeadAfterRetries'
  BY DEF QInv, NeverLost, Listed, Buried, DeadAfterRetries, HandlerReturns, lists
<1>5. \A x \in ToSet(queue') \cup ToSet(processing') : Counted(x)'
  BY DEF QInv, Counted, HandlerReturns, lists
<1> QED BY <1>2, <1>3, <1>4, <1>5 DEF QInv

LEMMA HandlerRaisesInv ==
  ASSUME QInv, NEW w \in Workers, HandlerRaises(w)
  PROVE  QInv'
<1> DEFINE j == job[w].id
<1>1. job[w] \in Job /\ j \in JobIds
  BY DEF QInv, QTypeOK, HandlerRaises, Holding, Job
<1>2. fails[j] >= job[w].attempt /\ job[w].attempt \in 0..MaxAttempts
  BY <1>1 DEF QInv, Earned, Counted, Job
<1>3. /\ fails \in [JobIds -> 0..(MaxAttempts + 1)] /\ fails' \in [JobIds -> 0..(MaxAttempts + 1)]
      /\ \A i \in JobIds : fails'[i] >= fails[i]
      /\ \A i \in JobIds : fails[i] = MaxAttempts + 1 => fails'[i] = MaxAttempts + 1
      /\ fails'[j] > job[w].attempt
  BY <1>1, <1>2 DEF QInv, QTypeOK, HandlerRaises
<1>4. /\ pc' = [pc EXCEPT ![w] = IF job[w].attempt >= MaxAttempts THEN "bury" ELSE "retry"]
      /\ UNCHANGED <<lists, job, sent, done, crashes, faults>>
  BY DEF HandlerRaises, GoTo, Exhausted
<1> HIDE DEF j
<1>5. QTypeOK'
  BY <1>1, <1>3, <1>4 DEF QInv, QTypeOK, Steps, Holding, lists, HandlerRaises
<1>6. ASSUME NEW x, x \in Job, Counted(x) PROVE Counted(x)'
  BY <1>3, <1>6 DEF Counted, Job
<1>7. ASSUME NEW v \in Workers PROVE Earned(v)'
  <2>1. job[v] # NoJob => Counted(job[v]) /\ job[v] \in Job
    BY DEF QInv, QTypeOK, Earned
  <2>2. CASE v = w
    <3>0. fails'[j] >= job[w].attempt
      BY <1>1, <1>2, <1>3
    <3>1. job'[w] = job[w] /\ pc'[w] \in {"bury", "retry"}
      BY <1>4 DEF QInv, QTypeOK
    <3>2. pc'[w] = "retry" => job[w].attempt < MaxAttempts
      BY <1>2, <1>4 DEF QInv, QTypeOK
    <3>3. pc'[w] = "bury" => fails'[j] = MaxAttempts + 1
      BY <1>1, <1>2, <1>3, <1>4 DEF QInv, QTypeOK
    <3> QED BY <2>2, <3>0, <3>1, <3>2, <3>3, <1>3 DEF Earned, Counted, j
  <2>3. CASE v # w
    <3>1. pc'[v] = pc[v] /\ job'[v] = job[v] /\ done' = done
      BY <2>3, <1>4 DEF QInv, QTypeOK
    <3>2. pc[v] \in {"retry", "bury"} => job[v].id \in JobIds /\ job[v] \in Job
      BY DEF QInv, QTypeOK, Holding, Job
    <3> QED BY <2>1, <3>1, <3>2, <1>3 DEF QInv, Earned, Counted, Job
  <2> QED BY <2>2, <2>3
<1>8. NeverLost'
  BY <1>4 DEF QInv, NeverLost, Listed, Buried, lists
<1>9. DeadAfterRetries'
  BY <1>3, <1>4 DEF QInv, DeadAfterRetries, lists
<1>10. \A x \in ToSet(queue') \cup ToSet(processing') : Counted(x)'
  <2>1. ToSet(queue) \subseteq Job /\ ToSet(processing) \subseteq Job
    BY EntryAt DEF QInv, QTypeOK
  <2> QED BY <2>1, <1>4, <1>6 DEF QInv, lists
<1> QED BY <1>5, <1>7, <1>8, <1>9, <1>10 DEF QInv

LEMMA CrashInv ==
  ASSUME QInv, NEW w \in Workers, Crash(w)
  PROVE  QInv'
<1>1. QTypeOK'
  BY DEF QInv, QTypeOK, Crash, GoTo, Drop, Steps, Holding, lists, history
<1>2. \A v \in Workers : Earned(v)'
  BY DEF QInv, QTypeOK, Earned, Counted, Crash, GoTo, Drop, history
<1> QED BY <1>1, <1>2, SameEntries DEF QInv, Crash, lists

LEMMA StutterInv ==
  ASSUME QInv, UNCHANGED qvars
  PROVE  QInv'
BY DEF QInv, QTypeOK, NeverLost, Listed, Buried, DeadAfterRetries, Counted, Earned, qvars

LEMMA NextInv == QInv /\ [QNext]_qvars => QInv'
<1> SUFFICES ASSUME QInv, [QNext]_qvars PROVE QInv'
  OBVIOUS
<1>1. ASSUME NEW j \in JobIds, NEW n \in 0..2, Enqueue(j, n) PROVE QInv'
  BY <1>1, EnqueueInv
<1>2. ASSUME NEW f \in Foreign, PushForeign(f) PROVE QInv'
  BY <1>2, PushForeignInv
<1>3. ASSUME NEW w \in Workers, WorkerStep(w) PROVE QInv'
  <2>1. CASE Start(w) \/ Recovered(w) \/ DequeueLost(w)
    BY <2>1, StartInv, RecoveredInv, DequeueLostInv
  <2>2. ASSUME NEW n \in 0..2,
               \/ Recover(w, n) \/ Dequeue(w, n) \/ Discard(w, n)
               \/ Acknowledge(w, n) \/ Retry(w, n) \/ MoveToDeadLetter(w, n)
        PROVE  QInv'
    BY <2>2, RecoverInv, DequeueInv, BuryInv, AcknowledgeInv, RetryInv
  <2> QED BY <1>3, <2>1, <2>2 DEF WorkerStep
<1>4. ASSUME NEW w \in Workers, HandlerReturns(w) \/ HandlerRaises(w) \/ Crash(w)
      PROVE  QInv'
  BY <1>4, HandlerReturnsInv, HandlerRaisesInv, CrashInv
<1>5. CASE UNCHANGED qvars
  BY <1>5, StutterInv
<1> QED BY <1>1, <1>2, <1>3, <1>4, <1>5 DEF QNext

-----------------------------------------------------------------------------

\* The inductive invariant holds for any number of workers, jobs, crashes and
\* failing Redis commands.
THEOREM QueueCorrect == QSpec => []QInv
BY InitInv, NextInv, PTL DEF QSpec

\* Lists, attempt counters and what a worker holds keep their types: no attempt
\* goes beyond the retry budget of run_once.
THEOREM QueueTypes == QSpec => []QTypeOK
<1>1. QInv => QTypeOK
  BY DEF QInv
<1> QED BY <1>1, QueueCorrect, PTL

\* No job is lost, even when several workers overlap and recover each other's
\* jobs.
THEOREM NoJobLost == QSpec => []NeverLost
<1>1. QInv => NeverLost
  BY DEF QInv
<1> QED BY <1>1, QueueCorrect, PTL

\* No job reaches the dead-letter list before its retry budget is used up.
THEOREM DeadOnlyWhenExhausted == QSpec => []DeadAfterRetries
<1>1. QInv => DeadAfterRetries
  BY DEF QInv
<1> QED BY <1>1, QueueCorrect, PTL

-----------------------------------------------------------------------------
(* Where entries come from. *)

\* What is on a list, in the hands of a worker or done was once sent.
OnlySent ==
  /\ \A e \in ToSet(queue) \cup ToSet(processing) \cup dead : e.id \in sent
  /\ \A w \in Workers : job[w] # NoJob => job[w].id \in sent
  /\ done \subseteq sent

\* A step of run_forever outside the handler sends and finishes nothing, leaves
\* every running handler its job, and hands out only what is on the queue.
LEMMA WorkerStepFrame ==
  ASSUME QInv, NEW w \in Workers, WorkerStep(w)
  PROVE  /\ UNCHANGED history
         /\ \A v \in Workers : pc[v] = "handle" => pc'[v] = "handle" /\ job'[v] = job[v]
         /\ \A v \in Workers : \/ job'[v] \in {NoJob, job[v]}
                               \/ job'[v] \in ToSet(queue)
         /\ \A e \in ToSet(queue') \cup ToSet(processing') \cup dead' :
              \/ e \in ToSet(queue) \cup ToSet(processing) \cup dead
              \/ job[w] # NoJob /\ e.id = job[w].id
<1> USE DEF QInv
<1>0. queue \in Seq(Job) /\ processing \in Seq(Job) /\ pc \in [Workers -> Steps]
      /\ job \in [Workers -> Job \cup {NoJob}] /\ (pc[w] \in Holding <=> job[w] # NoJob)
  BY DEF QTypeOK
<1> USE DEF history, lists, GoTo, Drop
<1>1. CASE Start(w) \/ Recovered(w)
  BY <1>0, <1>1 DEF Start, Recovered
<1>2. CASE DequeueLost(w)
  <2>1. 1 \in 1..Len(queue)
    BY <1>0, <1>2 DEF DequeueLost
  <2>2. ToSet(queue') \cup ToSet(processing') = ToSet(queue) \cup ToSet(processing)
    BY <1>2, <2>1, DequeueEntries DEF DequeueLost
  <2> QED BY <1>2, <2>2 DEF DequeueLost
<1>3. ASSUME NEW n \in 0..2, Recover(w, n)
      PROVE  /\ UNCHANGED <<job, dead, history>>
             /\ \A v \in Workers : pc[v] = "handle" => pc'[v] = "handle"
             /\ ToSet(queue') \cup ToSet(processing') = ToSet(queue) \cup ToSet(processing)
  <2>1. n \in 0..Len(processing)
    BY <1>3 DEF Recover
  <2>2. /\ Remaining(processing, n) \in Seq(Job) /\ Popped(processing, n) \in Seq(Job)
        /\ ToSet(processing) =
             ToSet(Remaining(processing, n)) \cup ToSet(Popped(processing, n))
    BY <1>0, <2>1, SplitSet
  <2>3. ToSet(queue') \cup ToSet(processing') = ToSet(queue) \cup ToSet(processing)
    BY <1>0, <1>3, <2>2, ConcatSet DEF Recover, RecoverMoves
  <2>4. \A v \in Workers : pc[v] = "handle" => pc'[v] = "handle"
    BY <1>0, <1>3 DEF Recover
  <2> QED BY <1>3, <2>3, <2>4 DEF Recover
<1>4. ASSUME NEW n \in 0..2, Dequeue(w, n)
      PROVE  /\ UNCHANGED <<dead, history>>
             /\ \A v \in Workers : pc[v] = "handle" => pc'[v] = "handle" /\ job'[v] = job[v]
             /\ \A v \in Workers : job'[v] = job[v] \/ job'[v] \in ToSet(queue)
             /\ ToSet(queue') \cup ToSet(processing') = ToSet(queue) \cup ToSet(processing)
  <2> DEFINE e == Head(Popped(queue, n))
  <2>1. /\ ToSet(queue') \cup ToSet(processing') = ToSet(queue) \cup ToSet(processing)
        /\ e \in ToSet(queue)
    BY <1>4, DequeueEntries DEF Dequeue
  <2>2. /\ job' = [job EXCEPT ![w] = e] /\ pc[w] = "poll"
        /\ \E step : pc' = [pc EXCEPT ![w] = step]
        /\ UNCHANGED <<dead, history>>
    BY <1>4 DEF Dequeue
  <2> HIDE DEF e
  <2> QED BY <1>0, <2>1, <2>2
<1>5. ASSUME NEW n \in 0..2,
             \/ Discard(w, n) \/ Acknowledge(w, n) \/ Retry(w, n) \/ MoveToDeadLetter(w, n)
      PROVE  /\ UNCHANGED history
             /\ \A v \in Workers : pc[v] = "handle" => pc'[v] = "handle" /\ job'[v] = job[v]
             /\ \A v \in Workers : job'[v] \in {NoJob, job[v]}
             /\ ToSet(processing') \subseteq ToSet(processing)
             /\ dead' \subseteq dead \cup {job[w]}
             /\ \A e \in ToSet(queue') : e \in ToSet(queue) \/ e.id = job[w].id
             /\ job[w] # NoJob
  <2>1. /\ pc[w] \in {"discard", "ack", "retry", "bury"}
        /\ pc' = [pc EXCEPT ![w] = "poll"] /\ job' = [job EXCEPT ![w] = NoJob]
        /\ processing' = Removed(processing, job[w], n)
        /\ dead' \subseteq dead \cup {job[w]}
        /\ UNCHANGED history
    BY <1>5 DEF Discard, Acknowledge, Retry, MoveToDeadLetter
  <2>2. job[w] \in Job
    BY <1>0, <2>1 DEF Holding
  <2>3. ToSet(processing') \subseteq ToSet(processing)
    BY <1>0, <2>1, RemovedSet
  <2>4. \A e \in ToSet(queue') : e \in ToSet(queue) \/ e.id = job[w].id
    <3>1. CASE Retry(w, n)
      <4> DEFINE e == NextAttempt(job[w])
      <4>1. e.id = job[w].id
        BY <2>2 DEF NextAttempt, Job
      <4>2. e \in Job
        BY <2>2, <3>1 DEF NextAttempt, Job, Earned, Retry
      <4>3. queue' = Pushed(queue, e, n)
        BY <3>1 DEF Retry, RetryPushes
      <4>4. \A x \in ToSet(queue') : x \in ToSet(queue) \/ (n # 0 /\ x = e)
        BY <4>2, <4>3, QueuePush
      <4> HIDE DEF e
      <4> QED BY <4>1, <4>4
    <3>2. CASE ~Retry(w, n)
      BY <1>5, <3>2 DEF Discard, Acknowledge, MoveToDeadLetter
    <3> QED BY <3>1, <3>2
  <2> QED BY <1>0, <2>1, <2>2, <2>3, <2>4 DEF Holding
<1> QED BY <1>1, <1>2, <1>3, <1>4, <1>5 DEF WorkerStep

\* Producers and handlers put nothing on a list that they have not sent.
LEMMA OnlySentStep == QInv /\ OnlySent /\ [QNext]_qvars => OnlySent'
<1> SUFFICES ASSUME QInv, OnlySent, [QNext]_qvars PROVE OnlySent'
  OBVIOUS
<1>1. ASSUME NEW j \in JobIds \cup Foreign, NEW n \in 0..2,
             queue' = Pushed(queue, [id |-> j, attempt |-> 0], n),
             sent' = IF n = 0 THEN sent ELSE sent \cup {j},
             UNCHANGED <<processing, dead, job, done>>
      PROVE  OnlySent'
  <2> DEFINE e == [id |-> j, attempt |-> 0]
  <2>1. e \in Job /\ e.id = j
    BY DEF Job
  <2>2. queue' = Pushed(queue, e, n)
    BY <1>1
  <2> HIDE DEF e
  <2>3. \A x \in ToSet(queue') : x \in ToSet(queue) \/ (n # 0 /\ x = e)
    BY <2>1, <2>2, QueuePush
  <2> QED BY <1>1, <2>1, <2>3 DEF OnlySent
<1>2. ASSUME NEW w \in Workers, WorkerStep(w) PROVE OnlySent'
  BY <1>2, WorkerStepFrame DEF OnlySent, history
<1>3. ASSUME NEW w \in Workers, HandlerReturns(w) PROVE OnlySent'
  <2>1. job[w] # NoJob
    BY <1>3 DEF HandlerReturns, QInv, QTypeOK, Holding
  <2> QED BY <1>3, <2>1 DEF HandlerReturns, OnlySent, lists
<1>4. ASSUME NEW w \in Workers, HandlerRaises(w) \/ Crash(w) PROVE OnlySent'
  BY <1>4 DEF HandlerRaises, Crash, Drop, OnlySent, lists, history, QInv, QTypeOK
<1>5. CASE UNCHANGED qvars
  BY <1>5 DEF qvars, OnlySent
<1>6. ASSUME NEW j \in JobIds, NEW n \in 0..2, Enqueue(j, n) PROVE OnlySent'
  BY <1>1, <1>6 DEF Enqueue
<1>7. ASSUME NEW f \in Foreign, PushForeign(f) PROVE OnlySent'
  <2>1. sent' = IF 1 = 0 THEN sent ELSE sent \cup {f}
    BY <1>7 DEF PushForeign
  <2> QED BY <1>1, <1>7, <2>1, 1 \in 0..2 DEF PushForeign
<1> QED BY <1>2, <1>3, <1>4, <1>5, <1>6, <1>7 DEF QNext

LEMMA OnlySentInit == QInit => OnlySent
<1>1. ToSet(<<>>) = {}
  BY DEF ToSet
<1> QED BY <1>1 DEF QInit, OnlySent

\* Recovery, retries and repeated commands invent no job: what a worker handles,
\* finishes or buries, an application once enqueued.
THEOREM NothingInvented == QSpec => []OnlySent
BY OnlySentInit, OnlySentStep, QueueCorrect, PTL DEF QSpec

-----------------------------------------------------------------------------
(* One worker, as docker-compose.yml starts it.  Its job stays in flight, and *)
(* as long as every Redis command is executed once, no job has two entries.   *)

\* A list names no job twice, and two lists name no job in common.
Distinct(list) == \A i, k \in 1..Len(list) : list[i].id = list[k].id => i = k
Apart(A, B) == \A x \in A, y \in B : x.id # y.id

LEMMA DistinctConcat ==
  ASSUME NEW S, NEW s \in Seq(S), NEW t \in Seq(S), Distinct(s), Distinct(t),
         Apart(ToSet(s), ToSet(t))
  PROVE  Distinct(s \o t)
<1> DEFINE u == s \o t
<1>1. /\ u \in Seq(S) /\ Len(u) = Len(s) + Len(t)
      /\ \A i \in 1..Len(u) : u[i] = IF i <= Len(s) THEN s[i] ELSE t[i - Len(s)]
  OBVIOUS
<1> HIDE DEF u
<1>2. \A i \in 1..Len(s), k \in 1..Len(t) : s[i].id # t[k].id
  BY EntryAt DEF Apart
<1>3. SUFFICES ASSUME NEW i \in 1..Len(u), NEW k \in 1..Len(u), u[i].id = u[k].id
               PROVE  i = k
  BY DEF Distinct, u
<1>4. CASE i <= Len(s) /\ k <= Len(s)
  BY <1>1, <1>3, <1>4 DEF Distinct
<1>5. CASE i > Len(s) /\ k > Len(s)
  <2>1. i - Len(s) \in 1..Len(t) /\ k - Len(s) \in 1..Len(t)
    BY <1>1, <1>5
  <2>2. t[i - Len(s)].id = t[k - Len(s)].id
    BY <1>1, <1>3, <1>5
  <2>3. i - Len(s) = k - Len(s)
    BY <2>1, <2>2 DEF Distinct
  <2> QED BY <2>3
<1>6. CASE i <= Len(s) /\ k > Len(s)
  <2>1. k - Len(s) \in 1..Len(t) /\ i \in 1..Len(s)
    BY <1>1, <1>6
  <2>2. u[i] = s[i] /\ u[k] = t[k - Len(s)]
    BY <1>1, <1>6
  <2> QED BY <1>2, <1>3, <2>1, <2>2
<1>7. CASE i > Len(s) /\ k <= Len(s)
  <2>1. i - Len(s) \in 1..Len(t) /\ k \in 1..Len(s)
    BY <1>1, <1>7
  <2>2. u[k] = s[k] /\ u[i] = t[i - Len(s)]
    BY <1>1, <1>7
  <2> QED BY <1>2, <1>3, <2>1, <2>2
<1> QED BY <1>4, <1>5, <1>6, <1>7

\* What the two parts of a popped list hold, index by index.
LEMMA SplitAt ==
  ASSUME NEW S, NEW s \in Seq(S), NEW n \in 0..Len(s)
  PROVE  /\ Remaining(s, n) \in Seq(S) /\ Len(Remaining(s, n)) = Len(s) - n
         /\ \A i \in 1..(Len(s) - n) : Remaining(s, n)[i] = s[i]
         /\ Popped(s, n) \in Seq(S) /\ Len(Popped(s, n)) = n
         /\ n # 0 => Popped(s, n)[n] = s[Len(s)]
<1>1. /\ Remaining(s, n) \in Seq(S) /\ Len(Remaining(s, n)) = Len(s) - n
      /\ \A i \in 1..(Len(s) - n) : Remaining(s, n)[i] = s[i]
  BY DEF Remaining
<1>2. /\ Popped(s, n) \in Seq(S) /\ Len(Popped(s, n)) = n
      /\ \A i \in 1..n : Popped(s, n)[i] = s[Len(s) - n + i]
  BY DEF Popped
<1>3. n # 0 => n \in 1..n /\ Len(s) - n + n = Len(s)
  OBVIOUS
<1> QED BY <1>1, <1>2, <1>3

\* One RPOPLPUSH moves one entry between two lists that stay apart.
LEMMA MoveKeepsApart ==
  ASSUME NEW S, NEW s \in Seq(S), NEW t \in Seq(S), Len(s) >= 1,
         Distinct(s), Distinct(t), Apart(ToSet(s), ToSet(t))
  PROVE  /\ Distinct(Remaining(s, 1)) /\ Distinct(Popped(s, 1) \o t)
         /\ Apart(ToSet(Remaining(s, 1)), ToSet(Popped(s, 1) \o t))
<1> DEFINE a == Remaining(s, 1)
           b == Popped(s, 1)
           n == Len(s)
<1>0. n \in Nat /\ n >= 1 /\ n - 1 \in 0..n
  OBVIOUS
<1>1. a \in Seq(S) /\ Len(a) = n - 1 /\ \A i \in 1..(n - 1) : a[i] = s[i]
  BY <1>0, SplitAt, 1 \in 0..Len(s)
<1>2. b \in Seq(S) /\ Len(b) = 1 /\ b[1] = s[n]
  <2>1. 1 \in 0..Len(s)
    BY <1>0
  <2>2. 1 # 0 => Popped(s, 1)[1] = s[Len(s)]
    BY <2>1, SplitAt, Zenon
  <2>3. b \in Seq(S) /\ Len(b) = 1
    <3>1. Popped(s, 1) \in Seq(S)
      BY <2>1, SplitSet
    <3>2. Popped(s, 1) = SubSeq(s, Len(s), Len(s))
      BY <1>0 DEF Popped
    <3>3. Len(SubSeq(s, Len(s), Len(s))) = 1
      BY <1>0
    <3> QED BY <3>1, <3>2, <3>3
  <2> HIDE DEF b
  <2>4. b[1] = s[n]
    BY <2>2 DEF b
  <2> QED BY <2>3, <2>4
<1> HIDE DEF a, b
<1>3. Distinct(a) /\ Distinct(b)
  <2>1. ASSUME NEW i \in 1..Len(a), NEW k \in 1..Len(a), a[i].id = a[k].id PROVE i = k
    <3>1. i \in 1..Len(s) /\ k \in 1..Len(s) /\ s[i].id = s[k].id
      BY <1>0, <1>1, <2>1
    <3> QED BY <3>1 DEF Distinct
  <2>2. \A i, k \in 1..Len(b) : i = k
    BY <1>2
  <2> QED BY <2>1, <2>2 DEF Distinct
<1>4. ToSet(b) = {s[n]} /\ s[n] \in ToSet(s)
  <2>1. \A x \in ToSet(b) : x = s[n]
    <3>1. \A i \in 1..Len(b) : b[i] = s[n]
      BY <1>2
    <3> QED BY <1>2, <3>1, EntryAt
  <2>2. s[n] \in ToSet(b)
    BY <1>2, 1 \in 1..Len(b), EntryAt
  <2>3. s[n] \in ToSet(s)
    BY n \in 1..Len(s), EntryAt
  <2> QED BY <2>1, <2>2, <2>3
<1>5. \A x \in ToSet(a) : x \in ToSet(s) /\ x.id # s[n].id
  <2> SUFFICES ASSUME NEW x \in ToSet(a) PROVE x \in ToSet(s) /\ x.id # s[n].id
    OBVIOUS
  <2>1. PICK i \in 1..(n - 1) : x = s[i]
    BY <1>1, EntryAt
  <2>2. i \in 1..Len(s) /\ n \in 1..Len(s) /\ i # n
    BY <2>1
  <2> QED BY <2>1, <2>2, EntryAt DEF Distinct
<1>6. Apart(ToSet(b), ToSet(t))
  BY <1>4 DEF Apart
<1>7. Distinct(b \o t)
  BY <1>2, <1>3, <1>6, DistinctConcat
<1>8. ToSet(b \o t) = ToSet(b) \cup ToSet(t)
  BY <1>2, ConcatSet
<1>9. Apart(ToSet(a), ToSet(b \o t))
  BY <1>4, <1>5, <1>8 DEF Apart
<1> QED BY <1>3, <1>7, <1>9 DEF a, b

\* LREM of an entry of a list that names no job twice leaves no entry of that job.
LEMMA RemoveKeepsDistinct ==
  ASSUME NEW S, NEW s \in Seq(S), NEW e \in ToSet(s), Distinct(s)
  PROVE  /\ Distinct(RemoveFirst(s, e))
         /\ \A x \in ToSet(RemoveFirst(s, e)) : x.id # e.id
<1> DEFINE I == {i \in 1..Len(s) : s[i] = e}
           k == Min(I)
           a == SubSeq(s, 1, k - 1)
           b == SubSeq(s, k + 1, Len(s))
           u == a \o b
<1>1. \E i \in 1..Len(s) : s[i] = e
  BY EntryAt
<1>2. I # {} /\ I \in SUBSET Nat
  BY <1>1
<1>3. RemoveFirst(s, e) = u
  BY <1>1, <1>2 DEF RemoveFirst, RemoveAt, SelectInSeq
<1>4. k \in I
  BY <1>2, MinIsMember
<1> HIDE DEF k
<1>5. k \in 1..Len(s) /\ s[k] = e
  BY <1>4
<1>6. a \in Seq(S) /\ Len(a) = k - 1 /\ \A i \in 1..(k - 1) : a[i] = s[i]
  BY <1>5
<1>7. b \in Seq(S) /\ Len(b) = Len(s) - k /\ \A i \in 1..(Len(s) - k) : b[i] = s[k + i]
  BY <1>5
<1> HIDE DEF a, b, I
<1>8. Distinct(a) /\ Distinct(b)
  <2>1. Distinct(a)
    BY <1>5, <1>6 DEF Distinct
  <2>2. SUFFICES ASSUME NEW i \in 1..Len(b), NEW j \in 1..Len(b), b[i].id = b[j].id
                 PROVE  i = j
    BY <2>1 DEF Distinct
  <2>3. k + i \in 1..Len(s) /\ k + j \in 1..Len(s) /\ s[k + i].id = s[k + j].id
    BY <1>5, <1>7, <2>2
  <2>4. k + i = k + j
    BY <2>3 DEF Distinct
  <2> QED BY <1>5, <2>4
<1>9. \A x \in ToSet(a) : \E i \in 1..Len(s) : x = s[i] /\ i < k
  <2> SUFFICES ASSUME NEW x \in ToSet(a) PROVE \E i \in 1..Len(s) : x = s[i] /\ i < k
    OBVIOUS
  <2>1. PICK i \in 1..Len(a) : x = a[i]
    BY <1>6, EntryAt
  <2> QED BY <1>5, <1>6, <2>1
<1>10. \A y \in ToSet(b) : \E i \in 1..Len(s) : y = s[i] /\ i > k
  <2> SUFFICES ASSUME NEW y \in ToSet(b) PROVE \E i \in 1..Len(s) : y = s[i] /\ i > k
    OBVIOUS
  <2>1. PICK i \in 1..Len(b) : y = b[i]
    BY <1>7, EntryAt
  <2>2. k + i \in 1..Len(s) /\ y = s[k + i] /\ k + i > k
    BY <1>5, <1>7, <2>1
  <2> QED BY <2>2
<1>11. Apart(ToSet(a), ToSet(b))
  <2> SUFFICES ASSUME NEW x \in ToSet(a), NEW y \in ToSet(b) PROVE x.id # y.id
    BY DEF Apart
  <2>1. PICK i \in 1..Len(s) : x = s[i] /\ i < k
    BY <1>9
  <2>2. PICK j \in 1..Len(s) : y = s[j] /\ j > k
    BY <1>10
  <2>3. i # j
    BY <1>5, <2>1, <2>2
  <2> QED BY <2>1, <2>2, <2>3 DEF Distinct
<1>12. \A x \in ToSet(a) \cup ToSet(b) : x.id # e.id
  <2> SUFFICES ASSUME NEW x \in ToSet(a) \cup ToSet(b) PROVE x.id # e.id
    OBVIOUS
  <2>1. PICK i \in 1..Len(s) : x = s[i] /\ i # k
    <3>1. \E i \in 1..Len(s) : x = s[i] /\ (i < k \/ i > k)
      BY <1>9, <1>10
    <3> QED BY <1>5, <3>1
  <2> QED BY <1>5, <2>1 DEF Distinct
<1> QED BY <1>3, <1>6, <1>7, <1>8, <1>11, <1>12, DistinctConcat, ConcatSet


\* The worker's hands and the lists, while nothing goes wrong in Redis.
NoCopies ==
  /\ Distinct(queue) /\ Distinct(processing)
  /\ Apart(ToSet(queue), ToSet(processing))
  /\ Apart(ToSet(queue) \cup ToSet(processing), dead)
  /\ \A d, e \in dead : d.id = e.id => d = e

SingleCopies == faults = 0 => NoCopies

\* The job in the only worker's hands is in flight: nobody else removes it.
LEMMA HeldStep ==
  ASSUME \A v, w \in Workers : v = w, QInv, HeldIsInFlight, [QNext]_qvars
  PROVE  HeldIsInFlight'
<1>0. queue \in Seq(Job) /\ processing \in Seq(Job) /\ pc \in [Workers -> Steps]
      /\ job \in [Workers -> Job \cup {NoJob}]
  BY DEF QInv, QTypeOK
<1>1. CASE UNCHANGED <<processing, pc, job>>
  BY <1>1 DEF HeldIsInFlight, Contains
<1>2. ASSUME NEW w \in Workers, pc'[w] \notin Holding PROVE HeldIsInFlight'
  BY <1>2 DEF HeldIsInFlight
<1>3. ASSUME NEW w \in Workers, Start(w) \/ Recovered(w) \/ Crash(w) PROVE HeldIsInFlight'
  BY <1>0, <1>2, <1>3 DEF Start, Recovered, Crash, GoTo, Holding
<1>4. ASSUME NEW w \in Workers, NEW n \in 0..2,
             Discard(w, n) \/ Acknowledge(w, n) \/ Retry(w, n) \/ MoveToDeadLetter(w, n)
      PROVE  HeldIsInFlight'
  BY <1>0, <1>2, <1>4 DEF Discard, Acknowledge, Retry, MoveToDeadLetter, GoTo, Holding
<1>5. ASSUME NEW w \in Workers, NEW n \in 0..2, Recover(w, n) PROVE HeldIsInFlight'
  BY <1>0, <1>2, <1>5 DEF Recover, GoTo, Holding
<1>6. ASSUME NEW w \in Workers, DequeueLost(w) PROVE HeldIsInFlight'
  BY <1>0, <1>2, <1>6 DEF DequeueLost, Holding
<1>7. ASSUME NEW w \in Workers, HandlerReturns(w) \/ HandlerRaises(w) PROVE HeldIsInFlight'
  <2>1. UNCHANGED <<processing, job>> /\ pc[w] \in Holding
    BY <1>7 DEF HandlerReturns, HandlerRaises, lists, Holding
  <2> QED BY <2>1 DEF HeldIsInFlight, Contains
<1>8. ASSUME NEW w \in Workers, NEW n \in 0..2, Dequeue(w, n) PROVE HeldIsInFlight'
  <2> DEFINE b == Popped(queue, n)
             e == Head(b)
  <2>1. n \in 0..Len(queue) /\ n # 0 /\ processing' = b \o processing /\ job' = [job EXCEPT ![w] = e]
    BY <1>0, <1>8 DEF Dequeue, InFlight
  <2>2. b \in Seq(Job) /\ Len(b) = n
    BY <1>0, <2>1, SplitAt
  <2> HIDE DEF b
  <2>3. 1 \in 1..Len(b \o processing) /\ (b \o processing)[1] = e
    BY <1>0, <2>1, <2>2
  <2>4. Contains(processing', job'[w])
    BY <1>0, <2>1, <2>3 DEF Contains
  <2> QED BY <2>4 DEF HeldIsInFlight
<1>9. ASSUME NEW j, NEW n, Enqueue(j, n) \/ PushForeign(j) PROVE HeldIsInFlight'
  BY <1>1, <1>9 DEF Enqueue, PushForeign
<1>10. CASE UNCHANGED qvars
  BY <1>1, <1>10 DEF qvars
<1> QED BY <1>3, <1>4, <1>5, <1>6, <1>7, <1>8, <1>9, <1>10 DEF QNext, WorkerStep

LEMMA HeldInit == QInit => HeldIsInFlight
BY DEF QInit, HeldIsInFlight, Holding

\* One worker: recover_in_flight will find the job the process holds if it dies
\* now, whatever goes wrong in Redis.
THEOREM HeldJobInFlight ==
  ASSUME \A v, w \in Workers : v = w
  PROVE  QSpec => []HeldIsInFlight
BY HeldInit, HeldStep, QueueCorrect, PTL DEF QSpec


\* A command that is executed once, seen from a state where none went wrong.
LEMMA OnceMore ==
  ASSUME QTypeOK, NEW n, Executed(n), faults' = 0
  PROVE  n = 1 /\ faults = 0
BY DEF QTypeOK, Executed, Fault

\* LPUSH of a job that no list names.
LEMMA PushKeepsDistinct ==
  ASSUME NEW s \in Seq(Job), NEW e \in Job, Distinct(s), Apart({e}, ToSet(s))
  PROVE  /\ Distinct(Pushed(s, e, 1)) /\ ToSet(Pushed(s, e, 1)) = ToSet(s) \cup {e}
<1> DEFINE t == [i \in 1..1 |-> e]
<1>1. t \in Seq(Job) /\ Len(t) = 1 /\ \A i \in 1..1 : t[i] = e
  OBVIOUS
<1> HIDE DEF t
<1>2. ToSet(t) = {e}
  BY <1>1 DEF ToSet
<1>3. Distinct(t)
  BY <1>1 DEF Distinct
<1>4. Pushed(s, e, 1) = t \o s
  BY DEF Pushed, t
<1>5. Distinct(t \o s)
  BY <1>1, <1>2, <1>3, DistinctConcat
<1>6. ToSet(t \o s) = ToSet(t) \cup ToSet(s)
  BY <1>1, ConcatSet
<1> QED BY <1>2, <1>4, <1>5, <1>6

\* Producers push jobs that were never sent, and so are nowhere.
LEMMA ProducerCopies ==
  ASSUME QInv, OnlySent, NoCopies, NEW j \in JobIds \cup Foreign, j \notin sent,
         queue' = Pushed(queue, [id |-> j, attempt |-> 0], 1), UNCHANGED <<processing, dead>>
  PROVE  NoCopies'
<1> DEFINE e == [id |-> j, attempt |-> 0]
<1>1. e \in Job /\ e.id = j
  BY DEF Job
<1>2. queue' = Pushed(queue, e, 1) /\ queue \in Seq(Job)
  BY DEF QInv, QTypeOK
<1> HIDE DEF e
<1>3. \A x \in ToSet(queue) \cup ToSet(processing) \cup dead : x.id # e.id
  BY <1>1 DEF OnlySent
<1>4. Apart({e}, ToSet(queue))
  BY <1>3 DEF Apart
<1>5. Distinct(queue') /\ ToSet(queue') = ToSet(queue) \cup {e}
  BY <1>1, <1>2, <1>4, PushKeepsDistinct DEF NoCopies
<1> QED BY <1>3, <1>5 DEF NoCopies, Apart

\* The worker is done with the job it holds: its only entry goes.
LEMMA WorkerDrops ==
  ASSUME QInv, HeldIsInFlight, NoCopies, NEW w \in Workers, pc[w] \in Holding
  PROVE  /\ job[w] \in Job /\ job[w] \in ToSet(processing)
         /\ Distinct(Removed(processing, job[w], 1))
         /\ ToSet(Removed(processing, job[w], 1)) \subseteq ToSet(processing)
         /\ \A x \in ToSet(Removed(processing, job[w], 1)) : x.id # job[w].id
<1>1. processing \in Seq(Job) /\ job[w] \in Job
  BY DEF QInv, QTypeOK
<1>2. job[w] \in ToSet(processing)
  BY <1>1, EntryAt DEF HeldIsInFlight, Contains
<1>3. Removed(processing, job[w], 1) = RemoveFirst(processing, job[w])
  BY DEF Removed
<1> QED BY <1>1, <1>2, <1>3, RemoveFirstSet, RemoveKeepsDistinct DEF NoCopies

LEMMA CopiesStep ==
  ASSUME QInv, OnlySent, HeldIsInFlight, SingleCopies, [QNext]_qvars
  PROVE  SingleCopies'
<1> SUFFICES ASSUME faults' = 0 PROVE NoCopies'
  BY DEF SingleCopies
<1>0. QTypeOK /\ queue \in Seq(Job) /\ processing \in Seq(Job)
  BY DEF QInv, QTypeOK
<1>1. faults = 0 => NoCopies
  BY DEF SingleCopies
<1>2. CASE UNCHANGED <<queue, processing, dead, faults>>
  BY <1>1, <1>2 DEF NoCopies
<1>3. ASSUME NEW j \in JobIds, NEW n \in 0..2, Enqueue(j, n) PROVE NoCopies'
  BY <1>0, <1>1, <1>3, OnceMore, ProducerCopies DEF Enqueue
<1>4. ASSUME NEW f \in Foreign, PushForeign(f) PROVE NoCopies'
  BY <1>1, <1>4, ProducerCopies DEF PushForeign
<1>5. ASSUME NEW w \in Workers,
             Start(w) \/ Recovered(w) \/ Crash(w) \/ HandlerReturns(w) \/ HandlerRaises(w)
      PROVE NoCopies'
  BY <1>2, <1>5 DEF Start, Recovered, Crash, HandlerReturns, HandlerRaises, lists
<1>6. ASSUME NEW w \in Workers, DequeueLost(w) PROVE NoCopies'
  BY <1>0, <1>6 DEF DequeueLost, Fault, QTypeOK
<1>7. ASSUME NEW w \in Workers, NEW n \in 0..2, Recover(w, n) PROVE NoCopies'
  <2>1. n = 1 /\ faults = 0 /\ Len(processing) >= 1 /\ UNCHANGED dead
    BY <1>0, <1>7 DEF Recover, Fault, QTypeOK
  <2>2. queue' = Popped(processing, 1) \o queue /\ processing' = Remaining(processing, 1)
    BY <1>7, <2>1 DEF Recover, RecoverMoves
  <2>3. NoCopies /\ Apart(ToSet(processing), ToSet(queue))
    BY <1>1, <2>1 DEF NoCopies, Apart
  <2>4. Distinct(queue') /\ Distinct(processing') /\ Apart(ToSet(processing'), ToSet(queue'))
    BY <1>0, <2>1, <2>2, <2>3, MoveKeepsApart DEF NoCopies
  <2>5. ToSet(queue') \cup ToSet(processing') = ToSet(queue) \cup ToSet(processing)
    <3>1. 1 \in 0..Len(processing)
      BY <1>0, <2>1
    <3>2. /\ Popped(processing, 1) \in Seq(Job)
          /\ ToSet(processing) = ToSet(Remaining(processing, 1)) \cup ToSet(Popped(processing, 1))
      BY <1>0, <3>1, SplitSet
    <3> QED BY <1>0, <2>2, <3>2, ConcatSet
  <2> QED BY <2>1, <2>3, <2>4, <2>5 DEF NoCopies, Apart
<1>8. ASSUME NEW w \in Workers, NEW n \in 0..2, Dequeue(w, n) PROVE NoCopies'
  <2>1. n = 1 /\ faults = 0 /\ Len(queue) >= 1 /\ UNCHANGED dead
    BY <1>0, <1>8, OnceMore DEF Dequeue
  <2>2. processing' = Popped(queue, 1) \o processing /\ queue' = Remaining(queue, 1)
    BY <1>8, <2>1 DEF Dequeue, InFlight
  <2>3. NoCopies
    BY <1>1, <2>1
  <2>4. Distinct(queue') /\ Distinct(processing') /\ Apart(ToSet(queue'), ToSet(processing'))
    BY <1>0, <2>1, <2>2, <2>3, MoveKeepsApart DEF NoCopies
  <2>5. ToSet(queue') \cup ToSet(processing') = ToSet(queue) \cup ToSet(processing)
    BY <1>8, <2>1, DequeueEntries DEF Dequeue
  <2> QED BY <2>1, <2>3, <2>4, <2>5 DEF NoCopies, Apart
<1>9. ASSUME NEW w \in Workers, NEW n \in 0..2, Acknowledge(w, n) PROVE NoCopies'
  <2>1. /\ n = 1 /\ NoCopies /\ pc[w] \in Holding /\ UNCHANGED <<queue, dead>>
        /\ processing' = Removed(processing, job[w], 1)
    BY <1>0, <1>1, <1>9, OnceMore DEF Acknowledge, Holding
  <2> QED BY <2>1, WorkerDrops DEF NoCopies, Apart
<1>10. ASSUME NEW w \in Workers, NEW n \in 0..2, Discard(w, n) \/ MoveToDeadLetter(w, n)
       PROVE  NoCopies'
  <2>1. /\ n = 1 /\ NoCopies /\ pc[w] \in Holding /\ UNCHANGED queue
        /\ processing' = Removed(processing, job[w], 1) /\ dead' = dead \cup {job[w]}
    BY <1>0, <1>1, <1>10, OnceMore DEF Discard, MoveToDeadLetter, Holding
  <2> QED BY <2>1, WorkerDrops DEF NoCopies, Apart
<1>11. ASSUME NEW w \in Workers, NEW n \in 0..2, Retry(w, n) PROVE NoCopies'
  <2> DEFINE e == NextAttempt(job[w])
  <2>1. /\ n = 1 /\ NoCopies /\ pc[w] \in Holding /\ UNCHANGED dead
        /\ processing' = Removed(processing, job[w], 1)
        /\ queue' = Pushed(queue, e, 1)
    BY <1>0, <1>1, <1>11, OnceMore DEF Retry, RetryPushes, Holding
  <2>2. /\ job[w] \in Job /\ job[w] \in ToSet(processing) /\ Distinct(processing')
        /\ ToSet(processing') \subseteq ToSet(processing)
        /\ \A x \in ToSet(processing') : x.id # job[w].id
    BY <2>1, WorkerDrops
  <2>3. e \in Job /\ e.id = job[w].id
    BY <1>11, <2>2 DEF NextAttempt, Job, Retry, QInv, Earned
  <2> HIDE DEF e
  <2>4. Apart({e}, ToSet(queue))
    BY <2>1, <2>2, <2>3 DEF NoCopies, Apart
  <2>5. Distinct(queue') /\ ToSet(queue') = ToSet(queue) \cup {e}
    BY <1>0, <2>1, <2>3, <2>4, PushKeepsDistinct DEF NoCopies
  <2> QED BY <2>1, <2>2, <2>3, <2>5 DEF NoCopies, Apart
<1>12. CASE UNCHANGED qvars
  BY <1>2, <1>12 DEF qvars
<1> QED BY <1>3, <1>4, <1>5, <1>6, <1>7, <1>8, <1>9, <1>10, <1>11, <1>12 DEF QNext, WorkerStep

LEMMA CopiesInit == QInit => SingleCopies
<1>1. ToSet(<<>>) = {} /\ Distinct(<<>>)
  BY DEF ToSet, Distinct
<1> QED BY <1>1 DEF QInit, SingleCopies, NoCopies, Apart

\* A set without two different elements.
LEMMA AtMostOne ==
  ASSUME NEW A, \A x, y \in A : x = y
  PROVE  /\ Cardinality(A) \in {0, 1}
         /\ Cardinality(A) = 1 => A # {}
<1>1. CASE A = {}
  BY <1>1, FS_EmptySet
<1>2. CASE A # {}
  <2>1. PICK x : A = {x}
    BY <1>2
  <2> QED BY <2>1, FS_Singleton
<1> QED BY <1>1, <1>2

\* One worker and a Redis that answers: enqueueing, crashing, recovering and
\* retrying never make a second copy of a job.
THEOREM JobsNotDuplicated ==
  ASSUME \A v, w \in Workers : v = w
  PROVE  QSpec => []OneCopy
<1>1. QInv /\ SingleCopies => OneCopy
  <2> SUFFICES ASSUME QInv, NoCopies, NEW j
               PROVE  Occurrences(queue, j) + Occurrences(processing, j)
                        + Cardinality({e \in dead : e.id = j}) <= 1
    BY DEF SingleCopies, OneCopy
  <2> DEFINE Q == {i \in DOMAIN queue : queue[i].id = j}
             P == {i \in DOMAIN processing : processing[i].id = j}
             D == {e \in dead : e.id = j}
  <2>0. queue \in Seq(Job) /\ processing \in Seq(Job)
    BY DEF QInv, QTypeOK
  <2>1. /\ \A x, y \in Q : x = y
        /\ \A x, y \in P : x = y
        /\ \A x, y \in D : x = y
    BY <2>0 DEF NoCopies, Distinct
  <2>2. /\ \A i \in Q : queue[i] \in ToSet(queue) /\ queue[i].id = j
        /\ \A i \in P : processing[i] \in ToSet(processing) /\ processing[i].id = j
    BY <2>0, EntryAt
  <2>3. /\ Q = {} \/ P = {}
        /\ Q \cup P = {} \/ D = {}
    BY <2>2 DEF NoCopies, Apart
  <2>4. Occurrences(queue, j) = Cardinality(Q) /\ Occurrences(processing, j) = Cardinality(P)
    BY DEF Occurrences
  <2> HIDE DEF Q, P, D
  <2>5. /\ Cardinality(Q) \in {0, 1} /\ (Cardinality(Q) = 1 => Q # {})
        /\ Cardinality(P) \in {0, 1} /\ (Cardinality(P) = 1 => P # {})
        /\ Cardinality(D) \in {0, 1} /\ (Cardinality(D) = 1 => D # {})
    BY <2>1, AtMostOne
  <2>6. Cardinality(Q) + Cardinality(P) + Cardinality(D) <= 1
    BY <2>3, <2>5
  <2> QED BY <2>4, <2>6 DEF D
<1> QED BY <1>1, CopiesInit, CopiesStep, QueueCorrect, NothingInvented, HeldJobInFlight, PTL DEF QSpec

-----------------------------------------------------------------------------
(* The turns of the waiting jobs, in JobOrder. *)

\* While every command is executed once, the queue stays as it is, gets a job
\* that was not waiting on the left, or loses the one on the right.
LEMMA QueueMoves ==
  ASSUME QInv, OnlySent, HeldIsInFlight, SingleCopies, [QNext]_qvars, faults' = 0
  PROVE  /\ faults = 0
         /\ \/ queue' = queue
            \/ \E e \in Job : e.id \notin Waiting(queue) /\ queue' = Pushed(queue, e, 1)
            \/ queue # <<>> /\ queue' = Remaining(queue, 1)
<1> DEFINE Moves ==
             \/ queue' = queue
             \/ \E e \in Job : e.id \notin Waiting(queue) /\ queue' = Pushed(queue, e, 1)
             \/ queue # <<>> /\ queue' = Remaining(queue, 1)
<1> SUFFICES faults = 0 /\ Moves
  OBVIOUS
<1>0. QTypeOK /\ queue \in Seq(Job) /\ processing \in Seq(Job)
  BY DEF QInv, QTypeOK
<1>1. faults = 0 => NoCopies
  BY DEF SingleCopies
<1>2. CASE UNCHANGED <<queue, faults>>
  BY <1>2
<1>3. ASSUME NEW j \in JobIds \cup Foreign, j \notin sent, faults = 0,
             queue' = Pushed(queue, [id |-> j, attempt |-> 0], 1)
      PROVE  Moves
  <2> DEFINE e == [id |-> j, attempt |-> 0]
  <2>1. e \in Job /\ e.id = j
    BY DEF Job
  <2>2. queue' = Pushed(queue, e, 1)
    BY <1>3
  <2> HIDE DEF e
  <2>3. e.id \notin Waiting(queue)
    BY <1>3, <2>1 DEF OnlySent, Waiting
  <2> QED BY <2>1, <2>2, <2>3
<1>4. ASSUME NEW j \in JobIds, NEW n \in 0..2, Enqueue(j, n) PROVE faults = 0 /\ Moves
  <2>1. n = 1 /\ faults = 0
    BY <1>0, <1>4, OnceMore DEF Enqueue
  <2> QED BY <1>3, <1>4, <2>1 DEF Enqueue
<1>5. ASSUME NEW f \in Foreign, PushForeign(f) PROVE faults = 0 /\ Moves
  BY <1>3, <1>5 DEF PushForeign
<1>6. ASSUME NEW w \in Workers,
             Start(w) \/ Recovered(w) \/ Crash(w) \/ HandlerReturns(w) \/ HandlerRaises(w)
      PROVE  faults = 0 /\ Moves
  BY <1>2, <1>6 DEF Start, Recovered, Crash, HandlerReturns, HandlerRaises, lists
<1>7. ASSUME NEW w \in Workers, DequeueLost(w) PROVE faults = 0 /\ Moves
  BY <1>0, <1>7 DEF DequeueLost, Fault, QTypeOK
<1>8. ASSUME NEW w \in Workers, NEW n \in 0..2, Recover(w, n) PROVE faults = 0 /\ Moves
  <2>1. n = 1 /\ faults = 0 /\ Len(processing) >= 1
    BY <1>0, <1>8 DEF Recover, Fault, QTypeOK
  <2> DEFINE e == processing[Len(processing)]
  <2>2. e \in ToSet(processing) /\ e \in Job
    BY <1>0, <2>1, EntryAt
  <2>3. Popped(processing, 1) = [i \in 1..1 |-> e]
    BY <1>0, <2>1 DEF Popped
  <2>4. queue' = Pushed(queue, e, 1)
    BY <1>8, <2>1, <2>3 DEF Recover, RecoverMoves, Pushed
  <2>5. e.id \notin Waiting(queue)
    BY <1>1, <2>1, <2>2 DEF NoCopies, Apart, Waiting
  <2> QED BY <2>1, <2>2, <2>4, <2>5
<1>9. ASSUME NEW w \in Workers, NEW n \in 0..2, Dequeue(w, n) PROVE faults = 0 /\ Moves
  BY <1>0, <1>9, OnceMore DEF Dequeue
<1>10. ASSUME NEW w \in Workers, NEW n \in 0..2,
              Acknowledge(w, n) \/ Discard(w, n) \/ MoveToDeadLetter(w, n)
       PROVE  faults = 0 /\ Moves
  BY <1>0, <1>10, OnceMore DEF Acknowledge, Discard, MoveToDeadLetter
<1>11. ASSUME NEW w \in Workers, NEW n \in 0..2, Retry(w, n) PROVE faults = 0 /\ Moves
  <2> DEFINE e == NextAttempt(job[w])
  <2>1. n = 1 /\ faults = 0 /\ NoCopies /\ pc[w] \in Holding /\ queue' = Pushed(queue, e, 1)
    BY <1>0, <1>1, <1>11, OnceMore DEF Retry, RetryPushes, Holding
  <2>2. job[w] \in Job /\ job[w] \in ToSet(processing)
    BY <2>1, WorkerDrops
  <2>3. e \in Job /\ e.id = job[w].id
    BY <1>11, <2>2 DEF NextAttempt, Job, Retry, QInv, Earned
  <2> HIDE DEF e
  <2>4. e.id \notin Waiting(queue)
    BY <2>1, <2>2, <2>3 DEF NoCopies, Apart, Waiting
  <2> QED BY <2>1, <2>3, <2>4
<1>12. CASE UNCHANGED qvars
  BY <1>2, <1>12 DEF qvars
<1> HIDE DEF Moves
<1> QED BY <1>4, <1>5, <1>6, <1>7, <1>8, <1>9, <1>10, <1>11, <1>12 DEF QNext, WorkerStep

\* While nothing has gone wrong in Redis, who is further right on the queue is
\* ahead.
InTurn ==
  faults = 0 =>
    \A l, i \in 1..Len(queue) : l < i => queue[i].id \in ahead[queue[l].id]

\* What is known of every state the turns depend on.
TurnsInv == QInv /\ OnlySent /\ HeldIsInFlight /\ SingleCopies /\ InTurn

\* Every entry of the queue waits.
LEMMA EntryWaits ==
  ASSUME NEW s \in Seq(Job)
  PROVE  /\ \A i \in 1..Len(s) : s[i].id \in Waiting(s) /\ s[i].id \in Entries
         /\ \A k \in Waiting(s) : \E i \in 1..Len(s) : k = s[i].id
<1>1. ASSUME NEW i \in 1..Len(s) PROVE s[i].id \in Waiting(s) /\ s[i].id \in Entries
  <2>1. s[i] \in ToSet(s) /\ s[i] \in Job
    BY EntryAt
  <2> QED BY <2>1 DEF Waiting, Entries, Job
<1>2. ASSUME NEW k \in Waiting(s) PROVE \E i \in 1..Len(s) : k = s[i].id
  BY EntryAt DEF Waiting
<1> QED BY <1>1, <1>2

\* Concatenation, entry by entry.
LEMMA ConcatAt ==
  ASSUME NEW S, NEW t \in Seq(S), NEW s \in Seq(S)
  PROVE  /\ t \o s \in Seq(S) /\ Len(t \o s) = Len(t) + Len(s)
         /\ \A i \in 1..(Len(t) + Len(s)) :
              (t \o s)[i] = IF i <= Len(t) THEN t[i] ELSE s[i - Len(t)]
OBVIOUS

\* What LPUSH leaves: the old entries move one place to the right.
LEMMA QueuePushedAt ==
  ASSUME queue \in Seq(Job), NEW e \in Job, queue' = Pushed(queue, e, 1)
  PROVE  /\ queue' \in Seq(Job) /\ Len(queue') = Len(queue) + 1 /\ queue'[1] = e
         /\ \A i \in 2..(Len(queue) + 1) : queue'[i] = queue[i - 1]
<1> DEFINE t == [i \in 1..1 |-> e]
           r == t \o queue
<1>1. t \in Seq(Job) /\ Len(t) = 1 /\ t[1] = e
  OBVIOUS
<1>2. queue' = r
  BY DEF Pushed
<1> HIDE DEF t
<1>3. t \in Seq(Job)
  BY <1>1
<1>4. /\ r \in Seq(Job) /\ Len(r) = Len(t) + Len(queue)
      /\ \A i \in 1..(Len(t) + Len(queue)) :
           r[i] = IF i <= Len(t) THEN t[i] ELSE queue[i - Len(t)]
  BY <1>3, ConcatAt
<1> HIDE DEF r
<1>5. Len(queue) \in Nat
  OBVIOUS
<1> QED BY <1>1, <1>2, <1>4, <1>5

\* What BRPOPLPUSH leaves stays in place.
LEMMA QueuePoppedAt ==
  ASSUME queue \in Seq(Job), queue # <<>>, queue' = Remaining(queue, 1)
  PROVE  /\ queue' \in Seq(Job) /\ Len(queue') = Len(queue) - 1
         /\ \A n \in 1..Len(queue') : queue'[n] = queue[n]
<1> DEFINE u == Remaining(queue, 1)
<1>0. 1 \in 0..Len(queue)
  OBVIOUS
<1>1. /\ u \in Seq(Job) /\ Len(u) = Len(queue) - 1
      /\ \A n \in 1..(Len(queue) - 1) : u[n] = queue[n]
  BY <1>0, SplitAt
<1>2. queue' = u
  OBVIOUS
<1> HIDE DEF u
<1> QED BY <1>1, <1>2

\* Who was already waiting and still is keeps the relevant part of its ahead.
LEMMA StillAhead ==
  ASSUME Ranks, NEW j \in Waiting(queue) \cap Waiting(queue'),
         NEW k \in Waiting(queue) \cap Waiting(queue') \cap Entries, j \in ahead[k]
  PROVE  j \in ahead'[k]
BY DEF Ranks

LEMMA TurnsStep ==
  ASSUME TurnsInv, [ONext]_ovars
  PROVE  InTurn'
<1> SUFFICES ASSUME faults' = 0, NEW l \in 1..Len(queue'), NEW i \in 1..Len(queue'), l < i
             PROVE  queue'[i].id \in ahead'[queue'[l].id]
  BY DEF InTurn
<1>1. CASE UNCHANGED ovars
  BY <1>1 DEF ovars, TurnsInv, InTurn
<1>2. CASE ONext
  <2>1. [QNext]_qvars /\ Ranks /\ queue \in Seq(Job)
    BY <1>2 DEF ONext, TurnsInv, QInv, QTypeOK
  <2>2. faults = 0 /\ \A m, n \in 1..Len(queue) : m < n => queue[n].id \in ahead[queue[m].id]
    BY <2>1, QueueMoves DEF TurnsInv, InTurn
  <2>3. ASSUME queue' \in Seq(Job), NEW m \in 1..Len(queue), NEW n \in 1..Len(queue), m < n,
               queue'[l] = queue[m], queue'[i] = queue[n]
        PROVE  queue'[i].id \in ahead'[queue'[l].id]
    <3>1. queue[n].id \in ahead[queue[m].id]
      BY <2>2, <2>3
    <3>2. /\ queue[n].id \in Waiting(queue) \cap Waiting(queue')
          /\ queue[m].id \in Waiting(queue) \cap Waiting(queue') \cap Entries
      BY <2>1, <2>3, EntryWaits
    <3> QED BY <2>1, <2>3, <3>1, <3>2, StillAhead
  <2>4. CASE queue' = queue
    BY <2>1, <2>3, <2>4
  <2>5. ASSUME NEW e \in Job, e.id \notin Waiting(queue), queue' = Pushed(queue, e, 1)
        PROVE  queue'[i].id \in ahead'[queue'[l].id]
    <3>1. /\ queue' \in Seq(Job) /\ Len(queue') = Len(queue) + 1 /\ queue'[1] = e
          /\ \A n \in 2..(Len(queue) + 1) : queue'[n] = queue[n - 1]
      BY <2>1, <2>5, QueuePushedAt
    <3>2. i - 1 \in 1..Len(queue) /\ queue'[i] = queue[i - 1]
      <4>1. i - 1 \in 1..Len(queue) /\ i \in 2..(Len(queue) + 1)
        BY <2>1, <3>1
      <4> QED BY <3>1, <4>1
    <3>3. CASE l = 1
      <4>1. queue'[i].id \in Waiting(queue)
        BY <2>1, <3>2, EntryWaits
      <4>2. e.id \in Waiting(queue') /\ e.id \in Entries
        BY <3>1, <3>3, EntryWaits
      <4>3. ahead'[e.id] = Waiting(queue)
        BY <2>1, <2>5, <4>2 DEF Ranks
      <4> QED BY <3>1, <3>3, <4>1, <4>3
    <3>4. CASE l # 1
      <4>1. l - 1 \in 1..Len(queue) /\ l \in 2..(Len(queue) + 1) /\ l - 1 < i - 1
        BY <2>1, <3>1, <3>4
      <4>2. queue'[l] = queue[l - 1]
        BY <3>1, <4>1
      <4> QED BY <2>3, <3>1, <3>2, <4>1, <4>2
    <3> QED BY <3>3, <3>4
  <2>6. CASE queue # <<>> /\ queue' = Remaining(queue, 1)
    <3>1. queue' \in Seq(Job) /\ Len(queue') = Len(queue) - 1
          /\ \A n \in 1..Len(queue') : queue'[n] = queue[n]
      BY <2>1, <2>6, QueuePoppedAt
    <3>2. l \in 1..Len(queue) /\ i \in 1..Len(queue)
      BY <2>1, <3>1
    <3> QED BY <2>3, <3>1, <3>2
  <2> QED BY <2>1, <2>4, <2>5, <2>6, QueueMoves DEF TurnsInv
<1> QED BY <1>1, <1>2

\* One worker and a Redis that answers: whoever is taken was ahead of all who
\* go on waiting.
THEOREM TurnsKept ==
  ASSUME \A v, w \in Workers : v = w
  PROVE  OSpec => TakenInTurn
<1> DEFINE Turn ==
             faults' = 0 =>
               \A j \in Waiting(queue) \ Waiting(queue'),
                  k \in Waiting(queue) \cap Waiting(queue') : j \in ahead[k]
<1>1. OInit => QInit /\ InTurn
  BY DEF OInit, QInit, InTurn
<1>2. [ONext]_ovars => [QNext]_qvars
  BY DEF ONext, ovars, qvars
<1>3. TurnsInv /\ [ONext]_ovars => InTurn'
  BY TurnsStep
<1>4. TurnsInv /\ [ONext]_ovars => [Turn]_ovars
  <2> SUFFICES ASSUME TurnsInv, [ONext]_ovars, faults' = 0,
                      NEW j \in Waiting(queue) \ Waiting(queue'),
                      NEW k \in Waiting(queue) \cap Waiting(queue')
               PROVE  j \in ahead[k]
    OBVIOUS
  <2>0. queue \in Seq(Job)
    BY DEF TurnsInv, QInv, QTypeOK
  <2>1. /\ faults = 0
        /\ \/ queue' = queue
           \/ \E e \in Job : e.id \notin Waiting(queue) /\ queue' = Pushed(queue, e, 1)
           \/ queue # <<>> /\ queue' = Remaining(queue, 1)
    BY <1>2, QueueMoves DEF TurnsInv
  <2>2. PICK i \in 1..Len(queue) : j = queue[i].id
    BY <2>0, EntryWaits
  <2>3. ASSUME NEW e \in Job, queue' = Pushed(queue, e, 1) PROVE FALSE
    <3>1. /\ queue' \in Seq(Job) /\ Len(queue') = Len(queue) + 1
          /\ \A n \in 2..(Len(queue) + 1) : queue'[n] = queue[n - 1]
      BY <2>0, <2>3, QueuePushedAt
    <3>2. i + 1 \in 2..(Len(queue) + 1) /\ (i + 1) - 1 = i /\ i + 1 \in 1..Len(queue')
      BY <2>0, <2>2, <3>1
    <3>3. queue'[i + 1] = queue[i]
      BY <3>1, <3>2
    <3> QED BY <2>2, <3>1, <3>2, <3>3, EntryWaits
  <2>4. queue # <<>> /\ queue' = Remaining(queue, 1)
    BY <2>1, <2>3
  <2>5. queue' \in Seq(Job) /\ Len(queue') = Len(queue) - 1
        /\ \A n \in 1..Len(queue') : queue'[n] = queue[n]
    BY <2>0, <2>4, QueuePoppedAt
  <2>6. i \notin 1..Len(queue')
    BY <2>2, <2>5, EntryWaits
  <2>7. PICK l \in 1..Len(queue') : k = queue'[l].id
    BY <2>5, EntryWaits
  <2>8. l \in 1..Len(queue) /\ l < i /\ k = queue[l].id
    BY <2>0, <2>5, <2>6, <2>7
  <2> QED BY <2>1, <2>2, <2>8 DEF TurnsInv, InTurn
<1> HIDE DEF Turn
<1>5. TakenInTurn <=> [][Turn]_ovars
  BY DEF TakenInTurn, Turn
<1>6. OSpec => QSpec
  BY <1>1, <1>2, PTL DEF OSpec, QSpec
<1>7. QSpec => [](QInv /\ OnlySent /\ HeldIsInFlight /\ SingleCopies)
  BY CopiesInit, CopiesStep, QueueCorrect, NothingInvented, HeldJobInFlight, PTL DEF QSpec
<1>8. TurnsInv <=> QInv /\ OnlySent /\ HeldIsInFlight /\ SingleCopies /\ InTurn
  BY DEF TurnsInv
<1>9. OSpec => []TurnsInv
  BY <1>1, <1>3, <1>6, <1>7, <1>8, PTL DEF OSpec
<1> QED BY <1>4, <1>5, <1>9, PTL DEF OSpec

=============================================================================
