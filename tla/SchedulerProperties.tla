------------------------- MODULE SchedulerProperties -------------------------
(***************************************************************************)
(* What makes the scheduler of TaskScheduler correct: who holds a task,    *)
(* the safety and liveness properties, and the statements of the           *)
(* repository's documentation that the code does not live up to.           *)
(***************************************************************************)
EXTENDS TaskScheduler, FiniteSets

-----------------------------------------------------------------------------
(* Where a task is held *)

InQueue(t) == taskQueue[t] > 0
Carrying == loop \in {"lookup", "check", "mark", "dispatch"}
InHand(t) == hand = t /\ Carrying
InPool(t) == \E i \in DOMAIN pending : pending[i] = t
Executing(w, t) == running[w] = t /\ stage[w] # "notify"
AtWorker(t) == \E w \in Workers : Executing(w, t)
Pushing(c, t) == client[c].pc = "push" /\ client[c].task = t
AtClient(t) == \E c \in Clients : Pushing(c, t)
Held(t) == InQueue(t) \/ InHand(t) \/ InPool(t) \/ AtWorker(t) \/ AtClient(t)

Cancelling(c, t) ==
  client[c].task = t /\ client[c].pc \in {"cancelStats", "cancelCall", "cancelRecord"}

-----------------------------------------------------------------------------
(* Safety *)

LoopPC == {"off", "top", "pred", "block", "waiting", "woken", "pop", "timedPred",
           "timedBlock", "timedWaiting", "timedWoken", "lookup", "check", "mark",
           "dispatch", "exited"}
Stages == {"idle", "exec", "finalize", "status", "stats", "call", "record", "erase",
           "resched", "pend", "push", "notify"}
ClientPC == {"idle", "push", "count", "notify", "cancelQueued", "cancelStats",
             "cancelCall", "cancelRecord"}

\* The types of the registry and the task objects, of the priority queue and the
\* loop's locals, of the pool and the workers' locals, of the clients' locals, and
\* of the rest.
RecordTypes ==
  /\ nextId \in 1..(MaxTasks + 1)
  /\ task \in [Tasks -> TaskRecord]
  /\ activeTasks \subseteq 1..(nextId - 1)
  /\ completedTasks \in [Tasks -> FinalStatus \cup {"none"}]
  /\ stats \in [FinalStatus \cup {"SCHEDULED"} -> Nat]
QueueTypes ==
  /\ taskQueue \in [Tasks -> Nat]
  /\ isRunning \in BOOLEAN
  /\ loop \in LoopPC /\ hand \in Tasks \cup {NoTask}
  /\ Carrying => hand # NoTask
PoolTypes ==
  /\ pending \in Seq(Tasks)
  /\ running \in [Workers -> Tasks \cup {NoTask}]
  /\ gone \subseteq Workers /\ closed \in BOOLEAN
  /\ stage \in [Workers -> Stages]
  /\ outcome \in [Workers -> FinalStatus]
  /\ begunAt \in [Workers -> Nat]
  /\ \A w \in Workers : stage[w] = "idle" <=> running[w] = NoTask
ClientTypes ==
  /\ client \in [Clients -> [pc: ClientPC, task: Tasks \cup {NoTask}]]
  /\ \A c \in Clients : client[c].pc = "idle" <=> client[c].task = NoTask
OtherTypes ==
  /\ completionCallback \in Callbacks \cup {"none"}
  /\ ctl \in {"idle", "wake", "joinLoop", "closePool", "joinPool"}
  /\ now \in Nat
  /\ runs \in [Tasks -> Nat]

\* The values of the scheduler's state; every thread that works on a task has
\* one, and one that was created (Task::Task, and the locals of each method).
TypeOK == RecordTypes /\ QueueTypes /\ PoolTypes /\ ClientTypes /\ OtherTypes

OneOwner(t) ==
  /\ taskQueue[t] <= 1
  /\ \A i, j \in DOMAIN pending : pending[i] = t /\ pending[j] = t => i = j
  /\ \A v, w \in Workers : Executing(v, t) /\ Executing(w, t) => v = w
  /\ \A c, d \in Clients : Pushing(c, t) /\ Pushing(d, t) => c = d
  /\ InQueue(t) => ~InHand(t) /\ ~InPool(t) /\ ~AtWorker(t) /\ ~AtClient(t)
  /\ InHand(t) => ~InPool(t) /\ ~AtWorker(t) /\ ~AtClient(t)
  /\ InPool(t) => ~AtWorker(t) /\ ~AtClient(t)
  /\ AtWorker(t) => ~AtClient(t)

\* A task has one owner at a time: it is in the priority queue once, or in the
\* hands of the loop, or in the pool's FIFO once, or with one worker, or with
\* the client scheduling it.  That is what lets reschedule() write the start
\* time without a lock while the queue compares start times under its own.
SingleOwner == \A t \in Tasks : OneOwner(t)

\* What getTaskStatus reports of a registered task is what happens to it: PENDING until
\* the loop marks it, RUNNING while its function executes, its outcome while that is
\* counted, told and recorded, and PENDING again before it is back in the queue.  In
\* between, from the mark until a worker takes it, it waits but is reported RUNNING:
\* see StatusAsDocumented.
RegistryStatus ==
  \A t \in activeTasks :
    LET status == GetTaskStatus(t) IN
    /\ InQueue(t) \/ AtClient(t) => status = "PENDING"
    /\ InHand(t) /\ loop # "dispatch" => status = "PENDING"
    /\ \A w \in Workers : running[w] = t =>
         /\ stage[w] \in {"exec", "finalize"} => status = "RUNNING"
         /\ stage[w] \in {"stats", "call", "record", "erase", "resched", "pend"}
              => status = outcome[w]
         /\ stage[w] = "push" => status = "PENDING"

\* No registered task is forgotten: until the pool is stopped, a task in
\* activeTasks is held by someone who will take it further (the push back of a
\* task that is not due, the rescheduling of a repeatable one, the erase of a
\* finished one).  The one exception: a callback that throws when it is told of a
\* failure skips the erase, and the task stays registered and reported as FAILED.
NoTaskLost ==
  ~closed => \A t \in activeTasks : Held(t) \/ (MayThrow /\ GetTaskStatus(t) = "FAILED")

\* A task that does not repeat is executed at most once.
OneShotRunsOnce == \A t \in Tasks : runs[t] > 1 => task[t].isRepeatable

\* The executions begun, the k-th one of task t as <<t, k>>.
Executions == UNION {{t} \X (1..runs[t]) : t \in Tasks}

Uncounted == {w \in Workers : stage[w] \in {"exec", "finalize", "status", "stats"}}
Counted == stats["COMPLETED"] + stats["FAILED"] + stats["TIMEOUT"]
Paying == {c \in Clients : client[c].pc = "cancelStats"}
NeverCancelled == stats["CANCELLED"] = 0 /\ Paying = {}

\* No execution goes uncounted (updateStatistics and its callers): a worker counts its
\* outcome or leaves it to the cancelTask that it found to have cancelled the task, and
\* one cancellation excuses one execution.  None is counted under two outcomes either,
\* unless a callback throws, which adds a failure to what it was told of, and no more
\* than one: even then each execution is counted at most once as ended and at most once
\* as failed.
EachRunCounted ==
  LET total == Cardinality(Executions)
      known == Counted + Cardinality(Uncounted)
  IN  /\ known + stats["CANCELLED"] + Cardinality(Paying) >= total
      /\ ~MayThrow => known <= total
      /\ stats["COMPLETED"] + stats["TIMEOUT"] <= total /\ stats["FAILED"] <= total

\* A task that has left the registry has its final status recorded, so that
\* getTaskStatus does not fall back on COMPLETED, unless the cancelTask that
\* removed it is still under way.  Only of cancelled tasks the record may be missing,
\* and only when the callback throws.
FinalStatusRecorded ==
  ~MayThrow \/ NeverCancelled =>
    \A t \in 1..(nextId - 1) :
      \/ t \in activeTasks
      \/ completedTasks[t] # "none"
      \/ \E c \in Clients : Cancelling(c, t)

\* The loop pops only from a queue that has a top: TaskQueue::pop is undefined on an
\* empty queue.  The queue is tested in the predicate of the wait and the flag once
\* more after it; in between neither cancelTask may empty the queue nor may stop()
\* end the wait and the flag be up again.
PopFindsTask == loop = "pop" /\ isRunning => Tops(taskQueue, task) # {}

\* When stop() has returned no task executes, every worker is joined, the scheduler
\* thread is gone, and it left no task in the pool: it was joined before the pool was
\* emptied.  A start() after that brings back the thread, not the workers.
QuietWhenStopped ==
  closed /\ ctl = "idle" =>
    /\ gone = Workers
    /\ \A w \in Workers : running[w] = NoTask
    /\ ~isRunning => loop = "off" /\ pending = <<>>

\* t was created, is no longer registered, and nobody holds it beyond the point
\* where the loop looks tasks up in the registry.
Withdrawn(t) ==
  /\ t < nextId /\ t \notin activeTasks
  /\ ~(InHand(t) /\ loop # "lookup") /\ ~InPool(t) /\ ~AtWorker(t)

\* Withdrawal is for ever: a task cancelled before the loop looked it up, or one that
\* is finished, is never executed again, even when its entry is still in the
\* queue or it is repeatable and was pushed back after the cancellation.  (One that is
\* cancelled between that lookup and its dispatch is still executed, once.)
WithdrawnIsFinal == [][\A t \in Tasks : Withdrawn(t) => Withdrawn(t)']_vars

\* No execution begins before the task's start time (the test on line 246),
\* rescheduled start times included.
NotBeforeStart ==
  [][\A t \in Tasks : runs'[t] > runs[t] => task[t].startTime <= now]_vars

\* What the heap is sorted by does not change while a task is in it: reschedule()
\* writes the start time without queueMutex, but only of a task that is outside.
KeysFixedInQueue ==
  [][\A t \in Tasks : InQueue(t) /\ InQueue(t)' =>
       /\ task'[t].priority = task[t].priority
       /\ task'[t].startTime = task[t].startTime]_vars

-----------------------------------------------------------------------------
(* Liveness *)

\* A registered task of a running scheduler is executed, unless it is cancelled
\* or the scheduler stopped: no wakeup of the loop is lost.  This is about tasks that
\* do not repeat: a repeating one that always is the head can starve the others.
TasksBegin ==
  \A t \in Tasks :
    isRunning /\ t \in activeTasks ~> runs[t] > 0 \/ t \notin activeTasks \/ ~isRunning

\* A task handed to the pool of a running scheduler that was not stopped before
\* begins ("The scheduler runs until stop() is called", start).
DispatchedBegin ==
  \A t \in Tasks : isRunning /\ InPool(t) ~> AtWorker(t) \/ ~isRunning

\* stop() returns if the loop was not on its way to sleep when the notification
\* was sent (stop against the predicate of the wait in runSchedulerLoop).  The
\* workers are those of the abstract pool, which always leave a closed pool.
StopReturnsUnlessBlocked ==
  ctl = "joinLoop" /\ loop \notin {"block", "waiting"} ~> ctl = "idle"

-----------------------------------------------------------------------------
(* What the documentation says and the code does not do *)

\* tasksCancelled is the "Number of tasks cancelled before or during execution".
CancelledOnce == stats["CANCELLED"] <= nextId - 1

\* The statuses mean what the comments of the enum say.  RUNNING is "Task is currently
\* being executed" (and PENDING "waiting to be executed"): a task that is reported
\* RUNNING, and has left the hands of the loop that marks it, is with a worker.
\* COMPLETED is "Task has completed successfully": a task that is reported so has run.
StatusAsDocumented ==
  \A t \in 1..(nextId - 1) :
    /\ GetTaskStatus(t) = "RUNNING" /\ ~InHand(t) => AtWorker(t)
    /\ GetTaskStatus(t) = "COMPLETED" => runs[t] > 0

\* A cancelled task gets no further processing (finalizeCompletedTask): the final
\* status CANCELLED, once recorded, is not replaced by another.
CancelIsFinal ==
  [][\A t \in Tasks : completedTasks[t] = "CANCELLED" => completedTasks'[t] = "CANCELLED"]_vars
=============================================================================
