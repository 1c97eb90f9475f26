-------------------------- MODULE ThreadPoolProofs --------------------------
(***************************************************************************)
(* ThreadPool for every number of threads, producers and jobs: its type    *)
(* invariant, that no wakeup for work is lost, that no worker sleeps while *)
(* a job has nobody on its way to it, that stop() leaves nothing running,  *)
(* that jobs begin in FIFO order, and that the pool implements WorkerPool. *)
(***************************************************************************)
EXTENDS ThreadPool, FiniteSetTheorems, TLAPS

-----------------------------------------------------------------------------
(* The inductive invariant *)

\* The worker between locking and releasing the mutex is the one that holds it.
MutexHeld ==
  \A w \in Workers : pc[w] \in {"pred", "block", "take"} <=> queueMutex = w

\* A worker decided to sleep because the queue was empty, and it still is:
\* nobody can push while the worker holds the mutex.
SleepsOnEmpty == \A w \in Workers : pc[w] = "block" => taskQueue = <<>>

\* Workers leave only when told to, joined workers have left, and stop() returns
\* only when all are joined.
StopOrder ==
  /\ \A w \in Workers : pc[w] = "exited" => stopFlag
  /\ \A w \in Workers : w <= joined => pc[w] = "exited"
  /\ stopper # "idle" => stopFlag
  /\ Stopped => joined = NumThreads

\* Until stop() is called the queue holds the jobs after the begun ones, in
\* order and without a gap.
QueueContiguous ==
  ~stopFlag => /\ begun + Len(taskQueue) = nextJob - 1
               /\ \A i \in 1..Len(taskQueue) : taskQueue[i] = begun + i

IInv ==
  /\ TypeOK
  /\ MutexHeld
  /\ SleepsOnEmpty
  /\ FrontExists
  /\ NoMissedWork
  /\ StopOrder
  /\ QueueContiguous

-----------------------------------------------------------------------------
(* Type correctness *)

\* Workers are positive numbers, so none of them is mistaken for Free.
LEMMA WorkersPositive ==
  \A w \in Workers : w \in Nat \ {0} /\ w <= NumThreads /\ w # Free
  BY PoolAssumption DEF Workers, Free

\* Every step keeps the type invariant of the pool (workerLoop, enqueueTask,
\* stop); a worker takes a job only where there is one.
LEMMA TypeStep == TypeOK /\ FrontExists /\ [Next]_vars => TypeOK'
<1> SUFFICES ASSUME TypeOK, FrontExists, [Next]_vars PROVE TypeOK'
  OBVIOUS
<1> USE PoolAssumption DEF TypeOK, WorkerPC, Jobs, Free, NoJob
<1>1. ASSUME NEW p \in Producers, EnqueuePush(p) PROVE TypeOK'
  <2>1. nextJob \in Jobs /\ nextJob' \in 1..(MaxJobs + 1)
    BY <1>1 DEF EnqueuePush
  <2> QED BY <1>1, <2>1 DEF EnqueuePush
<1>2. ASSUME NEW p \in Producers, EnqueueNotify(p) PROVE TypeOK'
  BY <1>2 DEF EnqueueNotify, Waiting, Wake
<1>3. CASE StopStore
  BY <1>3 DEF StopStore
<1>4. CASE StopNotify
  BY <1>4 DEF StopNotify, Waiting, Wake
<1>5. CASE StopJoin
  BY <1>5 DEF StopJoin
<1>6. CASE StopDiscard
  BY <1>6 DEF StopDiscard
<1>7. ASSUME NEW w \in Workers, Lock(w) PROVE TypeOK'
  BY <1>7 DEF Lock
<1>8. ASSUME NEW w \in Workers, EvalPredicate(w) PROVE TypeOK'
  BY <1>8 DEF EvalPredicate
<1>9. ASSUME NEW w \in Workers, Block(w) PROVE TypeOK'
  BY <1>9 DEF Block
<1>10. ASSUME NEW w \in Workers, SpuriousWakeup(w) PROVE TypeOK'
  BY <1>10 DEF SpuriousWakeup, Wake
<1>11. ASSUME NEW w \in Workers, ExitOnStop(w) PROVE TypeOK'
  BY <1>11 DEF ExitOnStop
<1>12. ASSUME NEW w \in Workers, TakeJob(w) PROVE TypeOK'
  <2>1. Head(taskQueue) \in Jobs /\ Tail(taskQueue) \in Seq(Jobs)
    BY <1>12 DEF TakeJob, FrontExists
  <2> QED BY <1>12, <2>1 DEF TakeJob
<1>13. ASSUME NEW w \in Workers, FinishJob(w) PROVE TypeOK'
  BY <1>13 DEF FinishJob
<1>14. CASE UNCHANGED vars
  BY <1>14 DEF vars
<1> HIDE DEF TypeOK
<1> QED
  BY <1>1, <1>2, <1>3, <1>4, <1>5, <1>6, <1>7, <1>8, <1>9, <1>10, <1>11, <1>12,
     <1>13, <1>14 DEF Next, StopStep, WorkerStep

-----------------------------------------------------------------------------
(* The other conjuncts, one lemma each *)

\* The mutex is held by the worker in its critical section and by no other.
LEMMA MutexStep == TypeOK /\ MutexHeld /\ [Next]_vars => MutexHeld'
<1> SUFFICES ASSUME TypeOK, MutexHeld, [Next]_vars PROVE MutexHeld'
  OBVIOUS
<1> USE WorkersPositive DEF TypeOK, WorkerPC, MutexHeld
<1>1. ASSUME NEW p \in Producers, EnqueuePush(p) PROVE MutexHeld'
  BY <1>1 DEF EnqueuePush
<1>2. ASSUME NEW p \in Producers, EnqueueNotify(p) PROVE MutexHeld'
  BY <1>2 DEF EnqueueNotify, Waiting, Wake
<1>3. CASE StopStore
  BY <1>3 DEF StopStore
<1>4. CASE StopStep
  BY <1>4 DEF StopStep, StopNotify, StopJoin, StopDiscard, Waiting, Wake
<1>5. ASSUME NEW w \in Workers, Lock(w) PROVE MutexHeld'
  BY <1>5 DEF Lock
<1>6. ASSUME NEW w \in Workers, EvalPredicate(w) PROVE MutexHeld'
  BY <1>6 DEF EvalPredicate
<1>7. ASSUME NEW w \in Workers, Block(w) PROVE MutexHeld'
  BY <1>7 DEF Block
<1>8. ASSUME NEW w \in Workers, SpuriousWakeup(w) PROVE MutexHeld'
  BY <1>8 DEF SpuriousWakeup, Wake
<1>9. ASSUME NEW w \in Workers, ExitOnStop(w) \/ TakeJob(w) PROVE MutexHeld'
  BY <1>9 DEF ExitOnStop, TakeJob
<1>10. ASSUME NEW w \in Workers, FinishJob(w) PROVE MutexHeld'
  BY <1>10 DEF FinishJob
<1>11. CASE UNCHANGED vars
  BY <1>11 DEF vars
<1> HIDE DEF MutexHeld, TypeOK
<1> QED
  BY <1>1, <1>2, <1>3, <1>4, <1>5, <1>6, <1>7, <1>8, <1>9, <1>10, <1>11
  DEF Next, WorkerStep

\* A worker about to sleep saw the queue empty, and one about to take a job saw
\* it filled: the mutex keeps everybody else from changing that in between.
LEMMA SeenUnderMutexStep ==
  TypeOK /\ MutexHeld /\ SleepsOnEmpty /\ FrontExists /\ [Next]_vars
    => SleepsOnEmpty' /\ FrontExists'
<1> SUFFICES ASSUME TypeOK, MutexHeld, SleepsOnEmpty, FrontExists, [Next]_vars
             PROVE  (SleepsOnEmpty /\ FrontExists)'
  OBVIOUS
<1> USE WorkersPositive DEF TypeOK, WorkerPC, MutexHeld, SleepsOnEmpty, FrontExists
<1>1. ASSUME NEW p \in Producers, EnqueuePush(p) PROVE (SleepsOnEmpty /\ FrontExists)'
  BY <1>1 DEF EnqueuePush
<1>2. ASSUME NEW p \in Producers, EnqueueNotify(p)
      PROVE  (SleepsOnEmpty /\ FrontExists)'
  BY <1>2 DEF EnqueueNotify, Waiting, Wake
<1>3. CASE StopStore
  BY <1>3 DEF StopStore
<1>4. CASE StopStep
  BY <1>4 DEF StopStep, StopNotify, StopJoin, StopDiscard, Waiting, Wake
<1>5. ASSUME NEW w \in Workers, Lock(w) \/ Block(w) \/ FinishJob(w)
      PROVE  (SleepsOnEmpty /\ FrontExists)'
  BY <1>5 DEF Lock, Block, FinishJob
<1>6. ASSUME NEW w \in Workers, EvalPredicate(w) PROVE (SleepsOnEmpty /\ FrontExists)'
  BY <1>6 DEF EvalPredicate, WaitPredicate
<1>7. ASSUME NEW w \in Workers, SpuriousWakeup(w) PROVE (SleepsOnEmpty /\ FrontExists)'
  BY <1>7 DEF SpuriousWakeup, Wake
<1>8. ASSUME NEW w \in Workers, ExitOnStop(w) \/ TakeJob(w)
      PROVE  (SleepsOnEmpty /\ FrontExists)'
  BY <1>8 DEF ExitOnStop, TakeJob
<1>9. CASE UNCHANGED vars
  BY <1>9 DEF vars
<1> HIDE DEF SleepsOnEmpty, FrontExists, MutexHeld, TypeOK
<1> QED
  BY <1>1, <1>2, <1>3, <1>4, <1>5, <1>6, <1>7, <1>8, <1>9 DEF Next, WorkerStep

\* A step that leaves a filled queue leaves somebody awake or a notification on
\* its way.
LEMMA NoMissedWorkStep ==
  TypeOK /\ SleepsOnEmpty /\ NoMissedWork /\ [Next]_vars => NoMissedWork'
<1> SUFFICES ASSUME TypeOK, SleepsOnEmpty, NoMissedWork, [Next]_vars
             PROVE  NoMissedWork'
  OBVIOUS
<1> USE WorkersPositive DEF TypeOK, WorkerPC, SleepsOnEmpty, NoMissedWork
<1>1. ASSUME NEW p \in Producers, EnqueuePush(p) PROVE NoMissedWork'
  BY <1>1 DEF EnqueuePush
<1>2. ASSUME NEW p \in Producers, EnqueueNotify(p) PROVE NoMissedWork'
  <2>1. CASE Waiting = {} /\ UNCHANGED pc
    BY <1>2, <2>1 DEF EnqueueNotify, Waiting
  <2>2. CASE \E w \in Waiting : Wake({w})
    BY <1>2, <2>2 DEF EnqueueNotify, Waiting, Wake
  <2> QED BY <1>2, <2>1, <2>2 DEF EnqueueNotify
<1>3. CASE StopStore
  BY <1>3 DEF StopStore
<1>4. CASE StopNotify
  BY <1>4 DEF StopNotify, Waiting, Wake
<1>5. CASE StopJoin \/ StopDiscard
  BY <1>5 DEF StopJoin, StopDiscard
<1>6. ASSUME NEW w \in Workers, Block(w) PROVE NoMissedWork'
  BY <1>6 DEF Block
<1>7. ASSUME NEW w \in Workers, SpuriousWakeup(w) PROVE NoMissedWork'
  BY <1>7 DEF SpuriousWakeup, Wake
<1>8. ASSUME NEW w \in Workers,
             \/ Lock(w) \/ EvalPredicate(w) \/ ExitOnStop(w) \/ TakeJob(w) \/ FinishJob(w)
      PROVE  NoMissedWork'
  <2>1. pc'[w] # "waiting"
    BY <1>8 DEF Lock, EvalPredicate, ExitOnStop, TakeJob, FinishJob
  <2> QED BY <2>1
<1>9. CASE UNCHANGED vars
  BY <1>9 DEF vars
<1> HIDE DEF NoMissedWork, SleepsOnEmpty, TypeOK
<1> QED
  BY <1>1, <1>2, <1>3, <1>4, <1>5, <1>6, <1>7, <1>8, <1>9
  DEF Next, StopStep, WorkerStep

\* Workers leave, are joined and stop() returns in that order.
LEMMA StopOrderStep == TypeOK /\ StopOrder /\ [Next]_vars => StopOrder'
<1> SUFFICES ASSUME TypeOK, StopOrder, [Next]_vars PROVE StopOrder'
  OBVIOUS
<1> USE PoolAssumption, WorkersPositive DEF TypeOK, WorkerPC, StopOrder, Stopped
<1>1. ASSUME NEW p \in Producers, EnqueuePush(p) \/ EnqueueNotify(p) PROVE StopOrder'
  BY <1>1 DEF EnqueuePush, EnqueueNotify, Waiting, Wake
<1>2. CASE StopStore
  BY <1>2 DEF StopStore
<1>3. CASE StopNotify
  BY <1>3 DEF StopNotify, Waiting, Wake
<1>4. CASE StopJoin
  <2>1. \A w \in Workers : w <= joined' => w <= joined \/ w = joined + 1
    BY <1>4 DEF StopJoin
  <2> QED BY <1>4, <2>1 DEF StopJoin
<1>5. CASE StopDiscard
  BY <1>5 DEF StopDiscard
<1>6. ASSUME NEW w \in Workers, SpuriousWakeup(w) PROVE StopOrder'
  BY <1>6 DEF SpuriousWakeup, Wake
<1>7. ASSUME NEW w \in Workers, WorkerStep(w) PROVE StopOrder'
  BY <1>7 DEF WorkerStep, Lock, EvalPredicate, Block, ExitOnStop, TakeJob, FinishJob
<1>8. CASE UNCHANGED vars
  BY <1>8 DEF vars
<1> HIDE DEF StopOrder, TypeOK
<1> QED
  BY <1>1, <1>2, <1>3, <1>4, <1>5, <1>6, <1>7, <1>8 DEF Next, StopStep

\* The queue of a pool that is not stopped stays without a gap.
LEMMA QueueContiguousStep ==
  TypeOK /\ FrontExists /\ StopOrder /\ QueueContiguous /\ [Next]_vars => QueueContiguous'
<1> SUFFICES ASSUME TypeOK, FrontExists, StopOrder, QueueContiguous, [Next]_vars
             PROVE  QueueContiguous'
  OBVIOUS
<1> USE DEF TypeOK, QueueContiguous
<1>1. ASSUME NEW p \in Producers, EnqueuePush(p) PROVE QueueContiguous'
  <2>1. /\ Len(taskQueue') = Len(taskQueue) + 1
        /\ \A i \in 1..Len(taskQueue) : taskQueue'[i] = taskQueue[i]
        /\ taskQueue'[Len(taskQueue) + 1] = nextJob
    BY <1>1 DEF EnqueuePush
  <2> HIDE DEF QueueContiguous
  <2> SUFFICES ASSUME ~stopFlag, NEW i \in 1..Len(taskQueue')
               PROVE  /\ begun' + Len(taskQueue') = nextJob' - 1
                      /\ taskQueue'[i] = begun' + i
    BY <1>1, <2>1 DEF EnqueuePush, QueueContiguous
  <2>2. Len(taskQueue) \in Nat /\ begun + Len(taskQueue) = nextJob - 1
    BY DEF QueueContiguous
  <2>3. taskQueue'[i] = begun + i
    <3>1. CASE i \in 1..Len(taskQueue)
      BY <2>1, <3>1 DEF QueueContiguous
    <3>2. CASE i = Len(taskQueue) + 1
      BY <2>1, <2>2, <3>2
    <3> QED BY <2>1, <2>2, <3>1, <3>2
  <2> QED BY <1>1, <2>1, <2>2, <2>3 DEF EnqueuePush
<1>2. ASSUME NEW w \in Workers, TakeJob(w) PROVE QueueContiguous'
  <2>1. taskQueue # <<>>
    BY <1>2 DEF TakeJob, FrontExists
  <2>2. /\ Len(taskQueue') = Len(taskQueue) - 1
        /\ \A i \in 1..Len(taskQueue') : taskQueue'[i] = taskQueue[i + 1]
    BY <1>2, <2>1 DEF TakeJob
  <2>3. Len(taskQueue) \in Nat /\ begun + Len(taskQueue) = nextJob - 1
    BY <1>2 DEF TakeJob
  <2>4. ASSUME NEW i \in 1..Len(taskQueue') PROVE taskQueue'[i] = begun' + i
    <3>1. i + 1 \in 1..Len(taskQueue)
      BY <2>2, <2>3
    <3>2. taskQueue[i + 1] = begun + (i + 1)
      BY <1>2, <3>1 DEF TakeJob
    <3> QED BY <1>2, <2>2, <3>2 DEF TakeJob
  <2>5. begun' + Len(taskQueue') = nextJob' - 1
    <3>1. begun' = begun + 1 /\ nextJob' = nextJob /\ begun \in Nat /\ nextJob \in Nat
      BY <1>2 DEF TakeJob
    <3> HIDE DEF TypeOK, QueueContiguous
    <3> QED BY <2>2, <2>3, <3>1
  <2> QED BY <2>4, <2>5
<1>3. CASE StopDiscard
  BY <1>3 DEF StopDiscard, StopOrder
<1>4. CASE UNCHANGED <<taskQueue, nextJob, begun>> /\ (stopFlag => stopFlag')
  BY <1>4
<1> HIDE DEF QueueContiguous
<1> QED
  BY <1>1, <1>2, <1>3, <1>4
  DEF Next, vars, StopStep, WorkerStep, EnqueueNotify, StopStore, StopNotify, StopJoin,
      Lock, EvalPredicate, Block, SpuriousWakeup, ExitOnStop, FinishJob

\* The pool's initial state, all workers about to lock the mutex, satisfies the
\* invariant.
LEMMA InvInit == Init => IInv
<1> SUFFICES ASSUME Init PROVE IInv
  OBVIOUS
<1> USE PoolAssumption, WorkersPositive DEF Init
<1>1. TypeOK
  <2>1. taskQueue \in Seq(Jobs) /\ nextJob \in 1..(MaxJobs + 1) /\ joined \in 0..NumThreads
    OBVIOUS
  <2>2. pc \in [Workers -> WorkerPC] /\ job \in [Workers -> Jobs \cup {NoJob}]
    BY DEF WorkerPC
  <2> QED BY <2>1, <2>2 DEF TypeOK
<1>2. MutexHeld
  BY DEF MutexHeld
<1>3. SleepsOnEmpty /\ FrontExists /\ NoMissedWork
  BY DEF SleepsOnEmpty, FrontExists, NoMissedWork
<1>4. StopOrder
  BY DEF StopOrder, Stopped
<1>5. QueueContiguous
  BY DEF QueueContiguous
<1> QED BY <1>1, <1>2, <1>3, <1>4, <1>5 DEF IInv

\* The conjunction is inductive.
LEMMA InvStep == IInv /\ [Next]_vars => IInv'
  BY TypeStep, MutexStep, SeenUnderMutexStep, NoMissedWorkStep, StopOrderStep,
     QueueContiguousStep DEF IInv

\* The inductive invariant holds in every reachable state of the pool.
THEOREM Invariance == Spec => []IInv
  BY InvInit, InvStep, PTL DEF Spec

-----------------------------------------------------------------------------
(* What follows from it *)

\* The type invariant of the pool, with a worker executing a job exactly while it
\* is in task().
THEOREM TypeCorrect == Spec => []TypeOK
  BY Invariance, PTL DEF IInv

\* front() is never called on an empty queue: a worker that passed the wait and
\* finds the stop flag clear finds a job (workerLoop).
THEOREM FrontIsThere == Spec => []FrontExists
  BY Invariance, PTL DEF IInv

\* No wakeup for work is lost (workerLoop against enqueueTask).
THEOREM NoWorkMissed == Spec => []NoMissedWork
  BY Invariance, PTL DEF IInv

\* Once stop() has returned every worker has left and no job is executing.
THEOREM StoppedIsQuiet == Spec => []QuietWhenStopped
<1>1. IInv => QuietWhenStopped
  BY WorkersPositive DEF IInv, TypeOK, StopOrder, QuietWhenStopped, Jobs, NoJob
<1> QED BY <1>1, Invariance, PTL

\* The n-th job to begin is the n-th one enqueued.
THEOREM JobsBeginInOrder == Spec => DispatchFIFO
<1> DEFINE Fifo == \A w \in Workers : job[w] = NoJob /\ job'[w] # NoJob => job'[w] = begun'
<1>1. ASSUME IInv, [Next]_vars PROVE [Fifo]_vars
  <2> USE <1>1 DEF IInv, TypeOK
  <2>1. ASSUME NEW w \in Workers, TakeJob(w) PROVE Fifo
    <3>1. taskQueue # <<>> /\ ~stopFlag
      BY <2>1 DEF TakeJob, FrontExists
    <3>2. Len(taskQueue) \in Nat /\ Len(taskQueue) >= 1 /\ Head(taskQueue) = taskQueue[1]
      BY <3>1
    <3>3. Head(taskQueue) = begun + 1
      BY <3>1, <3>2 DEF QueueContiguous
    <3> QED BY <2>1, <3>3 DEF TakeJob
  <2>2. ASSUME NEW w \in Workers, FinishJob(w) PROVE Fifo
    BY <2>2 DEF FinishJob
  <2>3. CASE UNCHANGED job
    BY <2>3
  <2> QED
    BY <1>1, <2>1, <2>2, <2>3
    DEF Next, vars, StopStep, WorkerStep, EnqueuePush, EnqueueNotify, StopStore,
        StopNotify, StopJoin, StopDiscard, Lock, EvalPredicate, Block, SpuriousWakeup,
        ExitOnStop
<1> QED BY <1>1, Invariance, PTL DEF Spec, DispatchFIFO

-----------------------------------------------------------------------------
(* Counting: a worker or a notification for every waiting job *)

Notifying == {p \in Producers : producer[p] = "notify"}
Awake == {w \in Workers : pc[w] \in {"lock", "pred", "take"}}

\* WorkConserving alone is inductive only while the notifications can be counted:
\* there are finitely many of them even when the producers are infinitely many.
CountInv == IsFiniteSet(Notifying) /\ WorkConserving

\* Workers, and so those awake, are finitely many.
LEMMA AwakeFinite ==
  /\ IsFiniteSet(Awake) /\ Cardinality(Awake) \in Nat
  /\ (IsFiniteSet(Notifying) => Cardinality(Notifying) \in Nat)
<1>1. IsFiniteSet(Workers)
  BY PoolAssumption, FS_Interval DEF Workers
<1>2. IsFiniteSet(Awake)
  BY <1>1, FS_Subset DEF Awake
<1> QED BY <1>2, FS_CardinalityType

\* The invariant is about these two numbers and the length of the queue.
LEMMA Conserving ==
  WorkConserving <=> (Waiting # {} /\ ~stopFlag =>
                        Len(taskQueue) <= Cardinality(Notifying) + Cardinality(Awake))
  BY DEF WorkConserving, Notifying, Awake

\* While the queue is empty, the pool stopped or nobody asleep, nothing needs to be
\* counted.
LEMMA NothingToCount ==
  IsFiniteSet(Notifying) /\ (Len(taskQueue) = 0 \/ stopFlag \/ Waiting = {}) => CountInv
  BY AwakeFinite, Conserving DEF CountInv

\* Pushing a job adds a notification, notifying turns it into an awake worker, and
\* taking a job uses one up (enqueueTask, workerLoop).
LEMMA CountStep == IInv /\ CountInv /\ [Next]_vars => CountInv'
<1> SUFFICES ASSUME IInv, CountInv, [Next]_vars PROVE CountInv'
  OBVIOUS
<1> DEFINE N == Cardinality(Notifying)
           A == Cardinality(Awake)
           L == Len(taskQueue)
<1>0. /\ IsFiniteSet(Notifying) /\ IsFiniteSet(Awake)
      /\ N \in Nat /\ A \in Nat /\ L \in Nat
      /\ Waiting # {} /\ ~stopFlag => L <= N + A
  BY AwakeFinite, Conserving DEF CountInv, IInv, TypeOK
<1>1. ASSUME IsFiniteSet(Notifying'),
             Waiting' # {} /\ ~stopFlag' =>
               Len(taskQueue') <= Cardinality(Notifying') + Cardinality(Awake')
      PROVE  CountInv'
  BY <1>1 DEF CountInv, WorkConserving, Notifying, Awake
<1>1a. (IsFiniteSet(Notifying) /\ (Len(taskQueue) = 0 \/ stopFlag \/ Waiting = {}) => CountInv)'
  BY NothingToCount, PTL
<1> HIDE DEF N, A, L
<1> USE DEF IInv, TypeOK, WorkerPC
<1>2. ASSUME NEW p \in Producers, EnqueuePush(p) PROVE CountInv'
  <2>1. /\ Notifying' = Notifying \cup {p} /\ p \notin Notifying
        /\ UNCHANGED <<Awake, Waiting, stopFlag>>
    BY <1>2 DEF EnqueuePush, Notifying, Awake, Waiting
  <2>2. Len(taskQueue') = L + 1
    BY <1>2 DEF EnqueuePush, L
  <2>3. IsFiniteSet(Notifying') /\ Cardinality(Notifying') = N + 1 /\ Cardinality(Awake') = A
    BY <1>0, <2>1, FS_AddElement DEF N, A
  <2> HIDE DEF IInv
  <2> QED BY <1>0, <1>1, <2>1, <2>2, <2>3
<1>3. ASSUME NEW p \in Producers, EnqueueNotify(p) PROVE CountInv'
  <2>1. Notifying' = Notifying \ {p} /\ p \in Notifying /\ UNCHANGED <<taskQueue, stopFlag>>
    BY <1>3 DEF EnqueueNotify, Notifying
  <2>2. IsFiniteSet(Notifying') /\ Cardinality(Notifying') = N - 1
    BY <1>0, <2>1, FS_RemoveElement DEF N
  <2>3. CASE Waiting = {} /\ UNCHANGED pc
    <3>1. Waiting' = {}
      BY <2>3 DEF Waiting
    <3> QED BY <1>1, <2>2, <3>1
  <2>4. CASE \E w \in Waiting : Wake({w})
    <3>1. PICK w \in Waiting : Wake({w})
      BY <2>4
    <3>2. Awake' = Awake \cup {w} /\ w \notin Awake
      BY <3>1 DEF Wake, Awake, Waiting
    <3>3. Cardinality(Awake') = A + 1
      BY <1>0, <3>2, FS_AddElement DEF A
    <3>4. Waiting # {}
      OBVIOUS
    <3> HIDE DEF IInv
    <3> QED BY <1>0, <1>1, <2>1, <2>2, <3>3, <3>4 DEF L
  <2> QED BY <1>3, <2>3, <2>4 DEF EnqueueNotify
<1>4. ASSUME UNCHANGED producer PROVE Notifying' = Notifying /\ IsFiniteSet(Notifying')
  BY <1>0, <1>4 DEF Notifying
<1>5. CASE StopStore \/ StopStep
  <2>1. stopFlag' /\ UNCHANGED producer
    BY <1>5 DEF StopStore, StopStep, StopNotify, StopJoin, StopDiscard, StopOrder
  <2> QED BY <1>1, <1>4, <2>1
<1>6. ASSUME NEW w \in Workers, Lock(w) PROVE CountInv'
  <2>1. Awake' = Awake /\ Waiting' = Waiting /\ UNCHANGED <<taskQueue, stopFlag, producer>>
    BY <1>6 DEF Lock, Awake, Waiting
  <2> HIDE DEF IInv
  <2> QED BY <1>0, <1>1, <1>4, <2>1 DEF N, A, L
<1>7. ASSUME NEW w \in Workers, EvalPredicate(w) PROVE CountInv'
  <2>1. UNCHANGED <<taskQueue, stopFlag, producer>>
    BY <1>7 DEF EvalPredicate
  <2>2. CASE WaitPredicate
    <3>1. Awake' = Awake /\ Waiting' = Waiting
      BY <1>7, <2>2 DEF EvalPredicate, Awake, Waiting
    <3> HIDE DEF IInv
    <3> QED BY <1>0, <1>1, <1>4, <2>1, <3>1 DEF N, A, L
  <2>3. CASE ~WaitPredicate
    <3>1. Len(taskQueue') = 0
      BY <2>1, <2>3 DEF WaitPredicate
    <3> QED BY <1>4, <1>1a, <2>1, <3>1
  <2> QED BY <2>2, <2>3
<1>8. ASSUME NEW w \in Workers, Block(w) PROVE CountInv'
  <2>1. UNCHANGED producer /\ Len(taskQueue') = 0
    BY <1>8 DEF Block, SleepsOnEmpty
  <2> QED BY <1>4, <1>1a, <2>1
<1>9. ASSUME NEW w \in Workers, SpuriousWakeup(w) \/ FinishJob(w) PROVE CountInv'
  <2>1. /\ Awake' = Awake \cup {w} /\ w \notin Awake /\ Waiting' \subseteq Waiting
        /\ UNCHANGED <<taskQueue, stopFlag, producer>>
    BY <1>9 DEF SpuriousWakeup, FinishJob, Wake, Awake, Waiting
  <2>2. Cardinality(Awake') = A + 1
    BY <1>0, <2>1, FS_AddElement DEF A
  <2>3. Waiting' # {} => Waiting # {}
    BY <2>1
  <2> HIDE DEF IInv
  <2> QED BY <1>0, <1>1, <1>4, <2>1, <2>2, <2>3 DEF N, L
<1>10. ASSUME NEW w \in Workers, ExitOnStop(w) PROVE CountInv'
  BY <1>1, <1>4, <1>10 DEF ExitOnStop
<1>11. ASSUME NEW w \in Workers, TakeJob(w) PROVE CountInv'
  <2>1. /\ Awake' = Awake \ {w} /\ w \in Awake /\ Waiting' = Waiting
        /\ UNCHANGED <<stopFlag, producer>>
    BY <1>11 DEF TakeJob, Awake, Waiting
  <2>2. Cardinality(Awake') = A - 1
    BY <1>0, <2>1, FS_RemoveElement DEF A
  <2>3. Len(taskQueue') = L - 1
    BY <1>11 DEF TakeJob, FrontExists, L
  <2> HIDE DEF IInv
  <2> QED BY <1>0, <1>1, <1>4, <2>1, <2>2, <2>3 DEF N
<1>12. CASE UNCHANGED vars
  <2>1. Awake' = Awake /\ Waiting' = Waiting /\ UNCHANGED <<taskQueue, stopFlag, producer>>
    BY <1>12 DEF vars, Awake, Waiting
  <2> HIDE DEF IInv
  <2> QED BY <1>0, <1>1, <1>4, <2>1 DEF N, A, L
<1> HIDE DEF IInv
<1> QED
  BY <1>2, <1>3, <1>5, <1>6, <1>7, <1>8, <1>9, <1>10, <1>11, <1>12 DEF Next, WorkerStep

\* As long as a worker sleeps, every job in the queue has a worker on its way to
\* it or a notify_one still to come, for every number of workers and producers.
THEOREM EveryJobIsCovered == Spec => []WorkConserving
<1>1. Init => CountInv
  <2> SUFFICES ASSUME Init PROVE CountInv
    OBVIOUS
  <2>1. Notifying = {} /\ Waiting = {}
    BY DEF Init, Notifying, Waiting
  <2> QED BY <2>1, FS_EmptySet DEF CountInv, WorkConserving
<1>2. CountInv => WorkConserving
  BY DEF CountInv
<1> QED BY <1>1, <1>2, CountStep, Invariance, PTL DEF Spec

-----------------------------------------------------------------------------
(* Refinement *)

Gone == {w \in Workers : pc[w] = "exited"}

\* The pool's initial state is one of the abstract pool.
LEMMA RefinesInit == Init => Abstract!PoolInit
  BY DEF Init, Abstract!PoolInit

\* Every step of the pool is a step of the abstract pool, or changes nothing it
\* can see: the mutex, the condition variable and the join are internal.
LEMMA RefinesStep == IInv /\ [Next]_vars => [Abstract!PoolNext]_(Abstract!poolVars)
<1> SUFFICES ASSUME IInv, [Next]_vars
             PROVE  Abstract!PoolNext \/ UNCHANGED <<taskQueue, job, Gone, stopFlag>>
  BY DEF Abstract!poolVars, Gone
<1> USE DEF IInv, TypeOK, WorkerPC
<1>1. ASSUME NEW p \in Producers, EnqueuePush(p) PROVE Abstract!PoolNext
  <2>1. nextJob \in Jobs
    BY <1>1, PoolAssumption DEF EnqueuePush, Jobs
  <2>2. Abstract!Submit(nextJob)
    BY <1>1 DEF EnqueuePush, Abstract!Submit
  <2> QED BY <2>1, <2>2 DEF Abstract!PoolNext
<1>2. CASE StopStore
  BY <1>2 DEF StopStore, Abstract!Close, Abstract!PoolNext
<1>3. CASE StopDiscard
  <2>1. Gone = Workers /\ stopFlag
    BY <1>3, WorkersPositive DEF StopDiscard, StopOrder, Gone
  <2> QED BY <1>3, <2>1 DEF StopDiscard, Gone, Abstract!Discard, Abstract!PoolNext
<1>4. ASSUME NEW w \in Workers, ExitOnStop(w) PROVE Abstract!PoolNext
  <2>1. Abstract!Leave(w)
    <3>1. Gone' = Gone \cup {w} /\ w \notin Gone
      BY <1>4 DEF ExitOnStop, Gone
    <3>2. job[w] = NoJob
      BY <1>4 DEF ExitOnStop
    <3> QED BY <1>4, <3>1, <3>2 DEF ExitOnStop, Gone, Abstract!Leave
  <2> QED BY <2>1 DEF Abstract!PoolNext
<1>5. ASSUME NEW w \in Workers, TakeJob(w) PROVE Abstract!PoolNext
  <2>1. Abstract!Begin(w)
    <3>1. Gone' = Gone /\ w \notin Gone /\ job[w] = NoJob
      BY <1>5 DEF TakeJob, Gone
    <3>2. taskQueue # <<>> /\ ~stopFlag
      BY <1>5 DEF TakeJob, FrontExists
    <3> QED BY <1>5, <3>1, <3>2 DEF TakeJob, Gone, Abstract!Begin
  <2> QED BY <2>1 DEF Abstract!PoolNext
<1>6. ASSUME NEW w \in Workers, FinishJob(w) PROVE Abstract!PoolNext
  <2>1. Abstract!End(w)
    <3>1. Gone' = Gone /\ job[w] # NoJob
      BY <1>6 DEF FinishJob, Gone
    <3> QED BY <1>6, <3>1 DEF FinishJob, Gone, Abstract!End
  <2> QED BY <2>1 DEF Abstract!PoolNext
<1>7. ASSUME NEW p \in Producers, EnqueueNotify(p)
      PROVE  UNCHANGED <<taskQueue, job, Gone, stopFlag>>
  BY <1>7 DEF EnqueueNotify, Waiting, Wake, Gone
<1>8. CASE StopNotify
  BY <1>8 DEF StopNotify, Waiting, Wake, Gone
<1>9. CASE StopJoin
  BY <1>9 DEF StopJoin, Gone
<1>10. ASSUME NEW w \in Workers, Lock(w) \/ EvalPredicate(w) \/ Block(w)
       PROVE  UNCHANGED <<taskQueue, job, Gone, stopFlag>>
  BY <1>10 DEF Lock, EvalPredicate, Block, Gone
<1>11. ASSUME NEW w \in Workers, SpuriousWakeup(w)
       PROVE  UNCHANGED <<taskQueue, job, Gone, stopFlag>>
  BY <1>11 DEF SpuriousWakeup, Wake, Gone
<1>12. CASE UNCHANGED vars
  BY <1>12 DEF vars, Gone
<1> HIDE DEF IInv
<1> QED
  BY <1>1, <1>2, <1>3, <1>4, <1>5, <1>6, <1>7, <1>8, <1>9, <1>10, <1>11, <1>12
  DEF Next, StopStep, WorkerStep

\* ThreadPool implements the abstract pool TaskScheduler is modelled with.
THEOREM PoolRefinement == Spec => ImplementsPool
  BY RefinesInit, RefinesStep, Invariance, PTL DEF Spec, ImplementsPool, Abstract!PoolSpec
=============================================================================
