----------------------------- MODULE ThreadPool -----------------------------
(***************************************************************************)
(* The ThreadPool class (src/ThreadPool.cpp) at the grain of its mutex,    *)
(* its condition variable and its atomic stop flag: the worker loops, the  *)
(* threads that call enqueueTask and the one that calls stop (directly or  *)
(* through the destructor).                                                *)
(*                                                                         *)
(* std::condition_variable::wait(lock, pred) is "while (!pred()) wait":    *)
(* the predicate is evaluated with queueMutex held, and releasing the      *)
(* mutex and joining the waiters is one step.  A notification moves a      *)
(* waiter to where it competes for the mutex again; one that finds no      *)
(* waiter is lost; a waiter may also wake for no reason.                   *)
(***************************************************************************)
EXTENDS Naturals, Sequences, FiniteSets

CONSTANTS NumThreads,   \* the size of the vector workers
          Producers,    \* the threads that call enqueueTask
          MaxJobs       \* bound on the number of calls of enqueueTask

ASSUME PoolAssumption == NumThreads \in Nat /\ MaxJobs \in Nat

Workers == 1..NumThreads
Jobs == 1..MaxJobs      \* a job is named by its place in the enqueue order
NoJob == 0
Free == 0               \* nobody holds queueMutex

VARIABLES
  taskQueue,   \* the FIFO of jobs waiting for a worker
  stopFlag,    \* the atomic flag
  queueMutex,  \* the worker holding the mutex between two steps, or Free
  pc,          \* the program counter of each worker
  job,         \* the job each worker is executing
  producer,    \* "idle", or "notify": pushed, about to call notify_one
  stopper,     \* where the thread that calls stop() is
  joined,      \* workers 1..joined have been joined
  nextJob,     \* the job the next enqueueTask will push
  begun        \* history: how many jobs have been begun

vars == <<taskQueue, stopFlag, queueMutex, pc, job, producer, stopper, joined,
          nextJob, begun>>

\* The constructor starts every worker; each enters workerLoop.
Init ==
  /\ taskQueue = <<>>
  /\ stopFlag = FALSE
  /\ queueMutex = Free
  /\ pc = [w \in Workers |-> "lock"]
  /\ job = [w \in Workers |-> NoJob]
  /\ producer = [p \in Producers |-> "idle"]
  /\ stopper = "idle"
  /\ joined = 0
  /\ nextJob = 1
  /\ begun = 0

Waiting == {w \in Workers : pc[w] = "waiting"}

Wake(S) == pc' = [w \in Workers |-> IF w \in S THEN "lock" ELSE pc[w]]

-----------------------------------------------------------------------------
(* enqueueTask *)

\* Mutant: only the job that ends an empty queue is notified.
EnqueuePushNotifyFirst(p) ==
  /\ producer[p] = "idle" /\ nextJob <= MaxJobs
  /\ queueMutex = Free
  /\ taskQueue' = Append(taskQueue, nextJob)
  /\ nextJob' = nextJob + 1
  /\ producer' = [producer EXCEPT ![p] = IF taskQueue = <<>> THEN "notify" ELSE "idle"]
  /\ UNCHANGED <<stopFlag, queueMutex, pc, job, stopper, joined, begun>>

EnqueuePush(p) ==
  /\ producer[p] = "idle" /\ nextJob <= MaxJobs
  /\ queueMutex = Free
  /\ taskQueue' = Append(taskQueue, nextJob)
  /\ nextJob' = nextJob + 1
  /\ producer' = [producer EXCEPT ![p] = "notify"]
  /\ UNCHANGED <<stopFlag, queueMutex, pc, job, stopper, joined, begun>>

\* Mutant: no worker is notified.
EnqueueNotifySilent(p) ==
  /\ producer[p] = "notify"
  /\ producer' = [producer EXCEPT ![p] = "idle"]
  /\ UNCHANGED <<taskQueue, stopFlag, queueMutex, pc, job, stopper, joined, nextJob,
                 begun>>

EnqueueNotify(p) ==
  /\ producer[p] = "notify"
  /\ \/ Waiting = {} /\ UNCHANGED pc
     \/ \E w \in Waiting : Wake({w})
  /\ producer' = [producer EXCEPT ![p] = "idle"]
  /\ UNCHANGED <<taskQueue, stopFlag, queueMutex, job, stopper, joined, nextJob,
                 begun>>

-----------------------------------------------------------------------------
(* stop, which the destructor calls again: a joined worker is not joinable *)

StopStore ==
  /\ stopper = "idle"
  /\ stopFlag' = TRUE
  /\ stopper' = "notify"
  /\ UNCHANGED <<taskQueue, queueMutex, pc, job, producer, joined, nextJob, begun>>

StopNotify ==
  /\ stopper = "notify"
  /\ Wake(Waiting)
  /\ stopper' = "join"
  /\ UNCHANGED <<taskQueue, stopFlag, queueMutex, job, producer, joined, nextJob,
                 begun>>

StopJoin ==
  /\ stopper = "join" /\ joined < NumThreads
  /\ pc[joined + 1] = "exited"
  /\ joined' = joined + 1
  /\ UNCHANGED <<taskQueue, stopFlag, queueMutex, pc, job, producer, stopper,
                 nextJob, begun>>

\* Mutant: the last worker is not waited for.
StopDiscardEarly ==
  /\ stopper = "join" /\ joined >= NumThreads - 1
  /\ queueMutex = Free
  /\ taskQueue' = <<>>
  /\ stopper' = "idle"
  /\ UNCHANGED <<stopFlag, queueMutex, pc, job, producer, joined, nextJob, begun>>

StopDiscard ==
  /\ stopper = "join" /\ joined = NumThreads
  /\ queueMutex = Free
  /\ taskQueue' = <<>>
  /\ stopper' = "idle"
  /\ UNCHANGED <<stopFlag, queueMutex, pc, job, producer, joined, nextJob, begun>>

-----------------------------------------------------------------------------
(* workerLoop *)

Lock(w) ==
  /\ pc[w] = "lock" /\ queueMutex = Free
  /\ queueMutex' = w
  /\ pc' = [pc EXCEPT ![w] = "pred"]
  /\ UNCHANGED <<taskQueue, stopFlag, job, producer, stopper, joined, nextJob,
                 begun>>

\* Mutant: the predicate forgets the stop flag.
WaitPredicateWorkOnly == taskQueue # <<>>

WaitPredicate == taskQueue # <<>> \/ stopFlag

\* Mutant: wait() without a predicate believes every wakeup.
EvalPredicateSkipped(w) ==
  /\ pc[w] = "pred"
  /\ pc' = [pc EXCEPT ![w] = "take"]
  /\ UNCHANGED <<taskQueue, stopFlag, queueMutex, job, producer, stopper, joined,
                 nextJob, begun>>

EvalPredicate(w) ==
  /\ pc[w] = "pred"
  /\ pc' = [pc EXCEPT ![w] = IF WaitPredicate THEN "take" ELSE "block"]
  /\ UNCHANGED <<taskQueue, stopFlag, queueMutex, job, producer, stopper, joined,
                 nextJob, begun>>

Block(w) ==
  /\ pc[w] = "block"
  /\ queueMutex' = Free
  /\ pc' = [pc EXCEPT ![w] = "waiting"]
  /\ UNCHANGED <<taskQueue, stopFlag, job, producer, stopper, joined, nextJob,
                 begun>>

SpuriousWakeup(w) ==
  /\ pc[w] = "waiting"
  /\ Wake({w})
  /\ UNCHANGED <<taskQueue, stopFlag, queueMutex, job, producer, stopper, joined,
                 nextJob, begun>>

\* The stop flag is read again: set, the worker leaves; clear, it takes the
\* front of the queue.
ExitOnStop(w) ==
  /\ pc[w] = "take" /\ stopFlag
  /\ queueMutex' = Free
  /\ pc' = [pc EXCEPT ![w] = "exited"]
  /\ UNCHANGED <<taskQueue, stopFlag, job, producer, stopper, joined, nextJob,
                 begun>>

\* Mutants: the newest job is taken; a stopped pool goes on taking jobs.
TakeJobNewest(w) ==
  /\ pc[w] = "take" /\ ~stopFlag
  /\ queueMutex' = Free
  /\ job' = [job EXCEPT ![w] = taskQueue[Len(taskQueue)]]
  /\ taskQueue' = SubSeq(taskQueue, 1, Len(taskQueue) - 1)
  /\ begun' = begun + 1
  /\ pc' = [pc EXCEPT ![w] = "run"]
  /\ UNCHANGED <<stopFlag, producer, stopper, joined, nextJob>>

TakeJobWhenStopped(w) ==
  /\ pc[w] = "take" /\ taskQueue # <<>>
  /\ queueMutex' = Free
  /\ job' = [job EXCEPT ![w] = Head(taskQueue)]
  /\ taskQueue' = Tail(taskQueue)
  /\ begun' = begun + 1
  /\ pc' = [pc EXCEPT ![w] = "run"]
  /\ UNCHANGED <<stopFlag, producer, stopper, joined, nextJob>>

TakeJob(w) ==
  /\ pc[w] = "take" /\ ~stopFlag
  /\ queueMutex' = Free
  /\ job' = [job EXCEPT ![w] = Head(taskQueue)]
  /\ taskQueue' = Tail(taskQueue)
  /\ begun' = begun + 1
  /\ pc' = [pc EXCEPT ![w] = "run"]
  /\ UNCHANGED <<stopFlag, producer, stopper, joined, nextJob>>

\* Mutant: the worker keeps the function object of the job it finished.
FinishJobKeeps(w) ==
  /\ pc[w] = "run"
  /\ pc' = [pc EXCEPT ![w] = "lock"]
  /\ UNCHANGED <<taskQueue, stopFlag, queueMutex, job, producer, stopper, joined,
                 nextJob, begun>>

\* The job returns, or throws and is caught: either way the loop goes on.
FinishJob(w) ==
  /\ pc[w] = "run"
  /\ job' = [job EXCEPT ![w] = NoJob]
  /\ pc' = [pc EXCEPT ![w] = "lock"]
  /\ UNCHANGED <<taskQueue, stopFlag, queueMutex, producer, stopper, joined,
                 nextJob, begun>>

-----------------------------------------------------------------------------

WorkerStep(w) == Lock(w) \/ EvalPredicate(w) \/ Block(w) \/ ExitOnStop(w)
                   \/ TakeJob(w) \/ FinishJob(w)

StopStep == StopNotify \/ StopJoin \/ StopDiscard

Next ==
  \/ \E p \in Producers : EnqueuePush(p) \/ EnqueueNotify(p)
  \/ StopStore \/ StopStep
  \/ \E w \in Workers : WorkerStep(w) \/ SpuriousWakeup(w)

Spec == Init /\ [][Next]_vars

\* Threads that can run do run and jobs return; nobody has to call
\* enqueueTask or stop, and no spurious wakeup has to happen.
Fairness ==
  /\ \A w \in Workers : WF_vars(WorkerStep(w))
  /\ \A p \in Producers : WF_vars(EnqueueNotify(p))
  /\ WF_vars(StopStep)

FairSpec == Spec /\ Fairness

-----------------------------------------------------------------------------
(* Properties *)

WorkerPC == {"lock", "pred", "block", "waiting", "take", "run", "exited"}

\* The values of the pool's state: the queue holds jobs, a worker executes a
\* job exactly while it is in task() (workerLoop).
TypeOK ==
  /\ taskQueue \in Seq(Jobs)
  /\ stopFlag \in BOOLEAN
  /\ queueMutex \in Workers \cup {Free}
  /\ pc \in [Workers -> WorkerPC]
  /\ job \in [Workers -> Jobs \cup {NoJob}]
  /\ producer \in [Producers -> {"idle", "notify"}]
  /\ stopper \in {"idle", "notify", "join"}
  /\ joined \in 0..NumThreads
  /\ nextJob \in 1..(MaxJobs + 1)
  /\ begun \in Nat
  /\ \A w \in Workers : pc[w] = "run" <=> job[w] # NoJob

\* taskQueue.front() is never evaluated on an empty queue: a worker that got
\* past the wait and finds the stop flag clear finds a job (workerLoop lines
\* 138-142).
FrontExists ==
  \A w \in Workers : pc[w] = "take" /\ ~stopFlag => taskQueue # <<>>

\* No wakeup for work is lost: while the queue holds a job and no stop is
\* requested, not every worker sleeps unless a notify_one is still to come
\* (enqueueTask pushes under the mutex and notifies after releasing it).  A pool of
\* zero threads, which the constructor allows, accepts jobs that nobody will run.
NoMissedWork ==
  Workers # {} /\ taskQueue # <<>> /\ ~stopFlag =>
    \/ \E w \in Workers : pc[w] # "waiting"
    \/ \E p \in Producers : producer[p] = "notify"

\* No worker idles while work waits: as long as a worker sleeps, every job in the
\* queue has a worker on its way to it or a notify_one still to come, however
\* long the other workers' jobs take (one notification per job in enqueueTask).
WorkConserving ==
  Waiting # {} /\ ~stopFlag =>
    Len(taskQueue) <= Cardinality({p \in Producers : producer[p] = "notify"})
                       + Cardinality({w \in Workers : pc[w] \in {"lock", "pred", "take"}})

\* stop() has returned at least once.
Stopped == stopFlag /\ stopper = "idle"

\* Once stop() has returned, every worker has left its loop and no job is
\* executing ("No more tasks should execute after stop", ThreadPoolTest).
QuietWhenStopped ==
  Stopped => \A w \in Workers : pc[w] = "exited" /\ job[w] = NoJob

\* The n-th job to begin is the n-th one enqueued: jobs are begun in FIFO
\* order, none is skipped and none is begun twice (enqueueTask, workerLoop).
DispatchFIFO ==
  [][\A w \in Workers : job[w] = NoJob /\ job'[w] # NoJob => job'[w] = begun']_vars

\* Every job enqueued is begun unless the pool is stopped.
JobsBegin ==
  \A j \in Jobs : (j < nextJob) ~> (begun >= j \/ stopFlag)

\* stop() returns if its notify_all found no worker between the predicate and
\* the wait.
StopReturnsIfAllWoken ==
  stopper = "join" /\ (\A w \in Workers : pc[w] \notin {"block", "waiting"})
    ~> stopper = "idle"

\* A call of stop() returns: the notify_all it issues reaches the workers
\* (stop "notifies all worker threads to wake up and exit").
StopReturns == (stopper = "notify") ~> (stopper = "idle")

\* The pool implements the abstract pool the scheduler is modelled with.
Abstract == INSTANCE WorkerPool
              WITH pending <- taskQueue, running <- job, closed <- stopFlag,
                   gone <- {w \in Workers : pc[w] = "exited"}

ImplementsPool == Abstract!PoolSpec
=============================================================================
