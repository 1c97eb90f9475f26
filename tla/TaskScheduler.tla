---------------------------- MODULE TaskScheduler ----------------------------
(***************************************************************************)
(* The TaskScheduler class (src/TaskScheduler.cpp): the scheduler loop,    *)
(* the jobs it hands to the thread pool, the client threads that call      *)
(* scheduleTask and cancelTask, and the thread that calls start and stop.  *)
(*                                                                         *)
(* One step is one access to shared state: an atomic load or store, or a   *)
(* critical section.  Only the scheduler loop holds a mutex (queueMutex)   *)
(* from one step to the next; every other critical section is one step.    *)
(* The pool is the abstract WorkerPool that ThreadPool implements.         *)
(***************************************************************************)
EXTENDS TaskQueue, Sequences

CONSTANTS
  Workers,     \* the worker threads of the pool
  Clients,     \* the threads that call scheduleTask and cancelTask
  Configs,     \* the configurations they schedule tasks with
  Callbacks,   \* the completion callbacks that may be registered
  MaxTasks,    \* bound on the number of calls of scheduleTask
  Targets,     \* the tasks that cancelTask is called for
  MaxTime,     \* bound on the clock
  MayRestart   \* whether start() may be called again after stop()

ASSUME SchedulerAssumption ==
  /\ Configs \subseteq Config
  /\ Callbacks \subseteq {"returns", "throws"}
  /\ MaxTasks \in Nat /\ MaxTime \in Nat /\ MayRestart \in BOOLEAN
  /\ Targets \subseteq 1..MaxTasks

Tasks == 1..MaxTasks
NoTask == 0

VARIABLES
  nextId,              \* Task::nextId
  task,                \* the Task objects
  activeTasks,         \* the registry, by task id
  completedTasks,      \* the recorded final status of a task, or "none"
  taskQueue,           \* the priority queue
  stats,               \* Statistics
  completionCallback,  \* "none", or the behaviour of the registered function
  isRunning,           \* the atomic flag
  loop,                \* the program counter of runSchedulerLoop
  hand,                \* its local variable task
  pending,             \* the pool's FIFO
  running,             \* the task each worker executes
  gone,                \* the workers that have left
  closed,              \* the pool's stop flag
  stage,               \* where each worker is in executeAndFinalizeTask
  outcome,             \* the status the worker is giving its task
  begunAt,             \* when it called execute()
  client,              \* where each client is, and with which task
  ctl,                 \* where the thread calling start and stop is
  now,                 \* the clock
  runs                 \* history: how often each task was begun

queueVars  == <<taskQueue, isRunning, loop, hand>>
poolVars   == <<pending, running, gone, closed>>
workerVars == <<stage, outcome, begunAt>>
recordVars == <<nextId, task, activeTasks, completedTasks, stats>>
otherVars  == <<completionCallback, client, ctl, now, runs>>
vars == <<queueVars, poolVars, workerVars, recordVars, otherVars>>

Pool == INSTANCE WorkerPool WITH Jobs <- Tasks, NoJob <- NoTask

BlankTask == [priority |-> 0, startTime |-> 0, isRepeatable |-> FALSE,
              repeatEvery |-> 0, timeout |-> 0, status |-> "PENDING"]

Init ==
  /\ nextId = 1
  /\ task = [t \in Tasks |-> BlankTask]
  /\ activeTasks = {}
  /\ completedTasks = [t \in Tasks |-> "none"]
  /\ taskQueue = [t \in Tasks |-> 0]
  /\ stats = [s \in FinalStatus \cup {"SCHEDULED"} |-> 0]
  /\ completionCallback = "none"
  /\ isRunning = FALSE
  /\ loop = "off" /\ hand = NoTask
  /\ Pool!PoolInit
  /\ stage = [w \in Workers |-> "idle"]
  /\ outcome = [w \in Workers |-> "COMPLETED"]
  /\ begunAt = [w \in Workers |-> 0]
  /\ client = [c \in Clients |-> [pc |-> "idle", task |-> NoTask]]
  /\ ctl = "idle"
  /\ now = 0
  /\ runs = [t \in Tasks |-> 0]

\* queueMutex is held by the loop between two of its steps.
QueueLocked == loop \in {"pred", "block", "pop", "timedPred", "timedBlock"}

\* workAvailable_cv: the loop is the only thread that ever waits on it.
Notify ==
  loop' = CASE loop = "waiting"      -> "woken"
            [] loop = "timedWaiting" -> "timedWoken"
            [] OTHER                 -> loop

SetStatus(t, s) == task' = [task EXCEPT ![t].status = s]
Count(s) == stats' = [stats EXCEPT ![s] = @ + 1]
MayThrow == completionCallback = "throws"

-----------------------------------------------------------------------------
(* scheduleTask, called by client c *)

GoClient(c, pc, t) == client' = [client EXCEPT ![c] = [pc |-> pc, task |-> t]]

ScheduleTask(c, cfg) ==
  /\ client[c].pc = "idle" /\ nextId <= MaxTasks
  /\ task' = [task EXCEPT ![nextId] = NewTask(cfg)]
  /\ activeTasks' = activeTasks \cup {nextId}
  /\ nextId' = nextId + 1
  /\ GoClient(c, "push", nextId)
  /\ UNCHANGED <<completedTasks, stats, queueVars, poolVars, workerVars,
                 completionCallback, ctl, now, runs>>

SchedulePush(c) ==
  /\ client[c].pc = "push" /\ ~QueueLocked
  /\ taskQueue' = Push(taskQueue, client[c].task)
  /\ GoClient(c, "count", client[c].task)
  /\ UNCHANGED <<isRunning, loop, hand, poolVars, workerVars, recordVars,
                 completionCallback, ctl, now, runs>>

ScheduleCount(c) ==
  /\ client[c].pc = "count"
  /\ Count("SCHEDULED")
  /\ GoClient(c, "notify", client[c].task)
  /\ UNCHANGED <<nextId, task, activeTasks, completedTasks, queueVars, poolVars,
                 workerVars, completionCallback, ctl, now, runs>>

\* Mutant: the scheduler thread is not notified.
ScheduleNotifySilent(c) ==
  /\ client[c].pc = "notify"
  /\ GoClient(c, "idle", NoTask)
  /\ UNCHANGED <<queueVars, poolVars, workerVars, recordVars, completionCallback,
                 ctl, now, runs>>

ScheduleNotify(c) ==
  /\ client[c].pc = "notify"
  /\ Notify
  /\ GoClient(c, "idle", NoTask)
  /\ UNCHANGED <<taskQueue, isRunning, hand, poolVars, workerVars, recordVars,
                 completionCallback, ctl, now, runs>>

-----------------------------------------------------------------------------
(* cancelTask, called by client c.  Ids are sequential and the completion   *)
(* callback passes them on, so the scheduleTask of t may still be under way. *)

CancelActive(c, t) ==
  /\ client[c].pc = "idle" /\ t < nextId
  /\ IF t \in activeTasks
     THEN /\ SetStatus(t, "CANCELLED")
          /\ activeTasks' = activeTasks \ {t}
          /\ GoClient(c, "cancelStats", t)
     ELSE /\ GoClient(c, "cancelQueued", t)
          /\ UNCHANGED <<task, activeTasks>>
  /\ UNCHANGED <<nextId, completedTasks, stats, queueVars, poolVars, workerVars,
                 completionCallback, ctl, now, runs>>

CancelQueued(c) ==
  LET t == client[c].task IN
  /\ client[c].pc = "cancelQueued" /\ ~QueueLocked
  /\ IF taskQueue[t] > 0
     THEN /\ SetStatus(t, "CANCELLED")
          /\ taskQueue' = RemoveAll(taskQueue, t)
          /\ GoClient(c, "cancelStats", t)
     ELSE /\ GoClient(c, "idle", NoTask)
          /\ UNCHANGED <<task, taskQueue>>
  /\ UNCHANGED <<nextId, activeTasks, completedTasks, stats, isRunning, loop, hand,
                 poolVars, workerVars, completionCallback, ctl, now, runs>>

CancelStats(c) ==
  /\ client[c].pc = "cancelStats"
  /\ Count("CANCELLED")
  /\ GoClient(c, "cancelCall", client[c].task)
  /\ UNCHANGED <<nextId, task, activeTasks, completedTasks, queueVars, poolVars,
                 workerVars, completionCallback, ctl, now, runs>>

\* The callback runs with no lock held.  If it throws, the exception leaves
\* cancelTask and the final status is never recorded.
CancelCall(c) ==
  /\ client[c].pc = "cancelCall"
  /\ \/ GoClient(c, "cancelRecord", client[c].task)
     \/ MayThrow /\ GoClient(c, "idle", NoTask)
  /\ UNCHANGED <<queueVars, poolVars, workerVars, recordVars, completionCallback,
                 ctl, now, runs>>

CancelRecord(c) ==
  /\ client[c].pc = "cancelRecord"
  /\ completedTasks' = [completedTasks EXCEPT ![client[c].task] = "CANCELLED"]
  /\ GoClient(c, "idle", NoTask)
  /\ UNCHANGED <<nextId, task, activeTasks, stats, queueVars, poolVars, workerVars,
                 completionCallback, ctl, now, runs>>

\* getTaskStatus, in one critical section: a task that repeats is in both maps and
\* the registry comes first; an id found in neither map is reported COMPLETED.
GetTaskStatus(t) ==
  IF t \in activeTasks THEN task[t].status
  ELSE IF completedTasks[t] # "none" THEN completedTasks[t]
  ELSE "COMPLETED"

-----------------------------------------------------------------------------
(* runSchedulerLoop *)

GoLoop(from, to) == loop = from /\ loop' = to

LoopFrame == <<poolVars, workerVars, recordVars, otherVars>>

\* The while condition, then the mutex.
LoopTop ==
  /\ GoLoop("top", IF isRunning THEN "pred" ELSE "exited")
  /\ UNCHANGED <<taskQueue, isRunning, hand, LoopFrame>>

\* Mutant: the wait predicate forgets that stop() may have been called.
LoopPredWorkOnly ==
  /\ GoLoop("pred", IF ~IsEmpty(taskQueue) THEN "pop" ELSE "block")
  /\ UNCHANGED <<taskQueue, isRunning, hand, LoopFrame>>

LoopPred ==
  /\ GoLoop("pred", IF ~isRunning \/ ~IsEmpty(taskQueue) THEN "pop" ELSE "block")
  /\ UNCHANGED <<taskQueue, isRunning, hand, LoopFrame>>

LoopBlock ==
  /\ GoLoop("block", "waiting")
  /\ UNCHANGED <<taskQueue, isRunning, hand, LoopFrame>>

\* Mutant: the predicate of the first wait is not evaluated again after a wakeup.
LoopRewakeUntested ==
  /\ \/ GoLoop("woken", "pop")
     \/ GoLoop("timedWoken", "timedPred") /\ task[hand].startTime > now
  /\ UNCHANGED <<taskQueue, isRunning, hand, LoopFrame>>

\* A wait_until woken past its deadline has timed out.
LoopRewake ==
  /\ \/ GoLoop("woken", "pred")
     \/ GoLoop("timedWoken", "timedPred") /\ task[hand].startTime > now
  /\ UNCHANGED <<taskQueue, isRunning, hand, LoopFrame>>

SpuriousWakeup ==
  /\ GoLoop("waiting", "woken") \/ GoLoop("timedWaiting", "timedWoken")
  /\ UNCHANGED <<taskQueue, isRunning, hand, LoopFrame>>

LoopBreak ==
  /\ GoLoop("pop", "exited") /\ ~isRunning
  /\ UNCHANGED <<taskQueue, isRunning, hand, LoopFrame>>

\* Mutants: the top is read and stays in the queue; a task is taken for due one
\* tick too early.
LoopPopDuePeek ==
  /\ GoLoop("pop", "lookup") /\ isRunning
  /\ \E t \in Tops(taskQueue, task) : task[t].startTime <= now /\ hand' = t
  /\ UNCHANGED <<taskQueue, isRunning, LoopFrame>>

LoopPopDueTooEarly ==
  /\ GoLoop("pop", "lookup") /\ isRunning
  /\ \E t \in Tops(taskQueue, task) :
       /\ task[t].startTime <= now + 1
       /\ taskQueue' = PopTop(taskQueue, t)
       /\ hand' = t
  /\ UNCHANGED <<isRunning, LoopFrame>>

\* The top of the queue is due: it leaves the queue and the mutex is released.
LoopPopDue ==
  /\ GoLoop("pop", "lookup") /\ isRunning
  /\ \E t \in Tops(taskQueue, task) :
       /\ task[t].startTime <= now
       /\ taskQueue' = PopTop(taskQueue, t)
       /\ hand' = t
  /\ UNCHANGED <<isRunning, LoopFrame>>

\* Mutant: the task that is not due is not pushed back.
LoopPopEarlyDrops ==
  /\ GoLoop("pop", "timedPred") /\ isRunning
  /\ \E t \in Tops(taskQueue, task) :
       /\ task[t].startTime > now
       /\ taskQueue' = PopTop(taskQueue, t)
       /\ hand' = t
  /\ UNCHANGED <<isRunning, LoopFrame>>

\* The top is not due: it is pushed back and the loop waits for its time.
LoopPopEarly ==
  /\ GoLoop("pop", "timedPred") /\ isRunning
  /\ \E t \in Tops(taskQueue, task) :
       /\ task[t].startTime > now
       /\ taskQueue' = Push(PopTop(taskQueue, t), t)
       /\ hand' = t
  /\ UNCHANGED <<isRunning, LoopFrame>>

\* wait_until(startTime, [!isRunning]): the predicate looks at isRunning only.
LoopTimedPred ==
  /\ GoLoop("timedPred", IF isRunning THEN "timedBlock" ELSE "exited")
  /\ hand' = IF isRunning THEN hand ELSE NoTask
  /\ UNCHANGED <<taskQueue, isRunning, LoopFrame>>

LoopTimedBlock ==
  /\ GoLoop("timedBlock", "timedWaiting")
  /\ UNCHANGED <<taskQueue, isRunning, hand, LoopFrame>>

LoopTimeout ==
  /\ loop \in {"timedWaiting", "timedWoken"}
  /\ task[hand].startTime <= now
  /\ loop' = IF isRunning THEN "top" ELSE "exited"
  /\ hand' = NoTask
  /\ UNCHANGED <<taskQueue, isRunning, LoopFrame>>

\* Mutant: the pointer from the queue is used without asking the registry.
LoopLookupTrusting ==
  /\ GoLoop("lookup", "check")
  /\ UNCHANGED <<taskQueue, isRunning, hand, LoopFrame>>

\* Find the task in the registry: one that was cancelled is not there.
LoopLookup ==
  /\ GoLoop("lookup", IF hand \in activeTasks THEN "check" ELSE "top")
  /\ hand' = IF hand \in activeTasks THEN hand ELSE NoTask
  /\ UNCHANGED <<taskQueue, isRunning, LoopFrame>>

LoopCheck ==
  /\ GoLoop("check", IF task[hand].status = "CANCELLED" THEN "top" ELSE "mark")
  /\ hand' = IF task[hand].status = "CANCELLED" THEN NoTask ELSE hand
  /\ UNCHANGED <<taskQueue, isRunning, LoopFrame>>

LoopMark ==
  /\ GoLoop("mark", "dispatch")
  /\ SetStatus(hand, "RUNNING")
  /\ UNCHANGED <<nextId, activeTasks, completedTasks, stats, taskQueue, isRunning,
                 hand, poolVars, workerVars, otherVars>>

LoopDispatch ==
  /\ GoLoop("dispatch", "top")
  /\ Pool!Submit(hand)
  /\ hand' = NoTask
  /\ UNCHANGED <<taskQueue, isRunning, workerVars, recordVars, otherVars>>

LoopStep ==
  \/ LoopTop \/ LoopPred \/ LoopBlock \/ LoopRewake \/ LoopBreak \/ LoopPopDue
  \/ LoopPopEarly \/ LoopTimedPred \/ LoopTimedBlock \/ LoopTimeout
  \/ LoopLookup \/ LoopCheck \/ LoopMark \/ LoopDispatch

-----------------------------------------------------------------------------
(* executeAndFinalizeTask, run by worker w for the task running[w] *)

GoStage(w, from, to) == stage[w] = from /\ stage' = [stage EXCEPT ![w] = to]

\* The job is over: the worker drops its locals and goes back to its loop.
EndJob(w, from) ==
  /\ GoStage(w, from, "idle")
  /\ Pool!End(w)
  /\ outcome' = [outcome EXCEPT ![w] = "COMPLETED"]
  /\ begunAt' = [begunAt EXCEPT ![w] = 0]

WorkerFrame == <<poolVars, queueVars, outcome, begunAt, otherVars>>

BeginTask(w) ==
  /\ Pool!Begin(w)
  /\ GoStage(w, "idle", "exec")
  /\ begunAt' = [begunAt EXCEPT ![w] = now]
  /\ runs' = [runs EXCEPT ![Head(pending)] = @ + 1]
  /\ UNCHANGED <<outcome, queueVars, recordVars, completionCallback, client, ctl, now>>

\* The function threw (FAILED), took too long (TIMEOUT), or neither; in the
\* last case finalizeCompletedTask looks at the status first.
FinishTask(w) ==
  /\ \/ /\ GoStage(w, "exec", "status")
        /\ outcome' = [outcome EXCEPT ![w] = "FAILED"]
     \/ /\ GoStage(w, "exec", "status")
        /\ TimedOut(task[running[w]], now - begunAt[w])
        /\ outcome' = [outcome EXCEPT ![w] = "TIMEOUT"]
     \/ /\ GoStage(w, "exec", "finalize")
        /\ ~TimedOut(task[running[w]], now - begunAt[w])
        /\ UNCHANGED outcome
  /\ UNCHANGED <<begunAt, poolVars, queueVars, recordVars, otherVars>>

FinalizeCancelled(w) ==
  /\ EndJob(w, "finalize")
  /\ task[running[w]].status = "CANCELLED"
  /\ UNCHANGED <<queueVars, recordVars, otherVars>>

FinalizeCompleted(w) ==
  /\ GoStage(w, "finalize", "status")
  /\ task[running[w]].status # "CANCELLED"
  /\ UNCHANGED <<WorkerFrame, recordVars>>

SetOutcome(w) ==
  /\ GoStage(w, "status", "stats")
  /\ SetStatus(running[w], outcome[w])
  /\ UNCHANGED <<WorkerFrame, nextId, activeTasks, completedTasks, stats>>

\* Mutant: the switch has no case for FAILED.
UpdateStatisticsNoFailed(w) ==
  /\ GoStage(w, "stats", "call")
  /\ IF outcome[w] = "FAILED" THEN UNCHANGED stats ELSE Count(outcome[w])
  /\ UNCHANGED <<WorkerFrame, nextId, task, activeTasks, completedTasks>>

UpdateStatistics(w) ==
  /\ GoStage(w, "stats", "call")
  /\ Count(outcome[w])
  /\ UNCHANGED <<WorkerFrame, nextId, task, activeTasks, completedTasks>>

CallbackReturns(w) ==
  /\ GoStage(w, "call", "record")
  /\ UNCHANGED <<WorkerFrame, recordVars>>

\* The exception of the callback is taken for a failure of the task, unless
\* that is what was being reported: then the worker loop of the pool gets it.
CallbackThrows(w) ==
  /\ MayThrow
  /\ \/ /\ outcome[w] # "FAILED"
        /\ GoStage(w, "call", "status")
        /\ outcome' = [outcome EXCEPT ![w] = "FAILED"]
        /\ UNCHANGED <<begunAt, poolVars>>
     \/ /\ outcome[w] = "FAILED"
        /\ EndJob(w, "call")
  /\ UNCHANGED <<queueVars, recordVars, otherVars>>

\* Mutants: the status is recorded only when a callback is registered; a task
\* is rescheduled whether or not it repeats.
RecordStatusIfCallback(w) ==
  /\ GoStage(w, "record",
             IF outcome[w] = "COMPLETED" /\ task[running[w]].isRepeatable
             THEN "resched" ELSE "erase")
  /\ completedTasks' = IF completionCallback = "none" THEN completedTasks
                       ELSE [completedTasks EXCEPT ![running[w]] = outcome[w]]
  /\ UNCHANGED <<WorkerFrame, nextId, task, activeTasks, stats>>

RecordStatusRepeatsAll(w) ==
  /\ GoStage(w, "record", IF outcome[w] = "COMPLETED" THEN "resched" ELSE "erase")
  /\ completedTasks' = [completedTasks EXCEPT ![running[w]] = outcome[w]]
  /\ UNCHANGED <<WorkerFrame, nextId, task, activeTasks, stats>>

RecordStatus(w) ==
  /\ GoStage(w, "record",
             IF outcome[w] = "COMPLETED" /\ task[running[w]].isRepeatable
             THEN "resched" ELSE "erase")
  /\ completedTasks' = [completedTasks EXCEPT ![running[w]] = outcome[w]]
  /\ UNCHANGED <<WorkerFrame, nextId, task, activeTasks, stats>>

EraseTask(w) ==
  /\ EndJob(w, "erase")
  /\ activeTasks' = activeTasks \ {running[w]}
  /\ UNCHANGED <<queueVars, nextId, task, completedTasks, stats, otherVars>>

Reschedule(w) ==
  /\ GoStage(w, "resched", "pend")
  /\ task' = [task EXCEPT ![running[w]].startTime = NextStart(task[running[w]], now)]
  /\ UNCHANGED <<WorkerFrame, nextId, activeTasks, completedTasks, stats>>

\* Mutant: the status is left COMPLETED for the next execution.
ResetPendingSkipped(w) ==
  /\ GoStage(w, "pend", "push")
  /\ UNCHANGED <<WorkerFrame, recordVars>>

ResetPending(w) ==
  /\ GoStage(w, "pend", "push")
  /\ SetStatus(running[w], "PENDING")
  /\ UNCHANGED <<WorkerFrame, nextId, activeTasks, completedTasks, stats>>

\* Mutant: a repeatable task is not pushed back.
PushBackForgets(w) ==
  /\ GoStage(w, "push", "notify") /\ ~QueueLocked
  /\ UNCHANGED <<queueVars, poolVars, outcome, begunAt, recordVars, otherVars>>

\* Mutant: a repeatable task is pushed back first and rescheduled then.
PushBackFirst(w) ==
  /\ GoStage(w, "push", "resched") /\ ~QueueLocked
  /\ taskQueue' = Push(taskQueue, running[w])
  /\ UNCHANGED <<isRunning, loop, hand, poolVars, outcome, begunAt, recordVars,
                 otherVars>>

PushBack(w) ==
  /\ GoStage(w, "push", "notify") /\ ~QueueLocked
  /\ taskQueue' = Push(taskQueue, running[w])
  /\ UNCHANGED <<isRunning, loop, hand, poolVars, outcome, begunAt, recordVars,
                 otherVars>>

NotifyLoop(w) ==
  /\ EndJob(w, "notify")
  /\ Notify
  /\ UNCHANGED <<taskQueue, isRunning, hand, recordVars, otherVars>>

\* Mutant: a worker that finds nothing to do leaves the pool.
LeavePoolWhenIdle(w) ==
  /\ w \notin gone /\ running[w] = NoTask /\ pending = <<>>
  /\ gone' = gone \cup {w}
  /\ UNCHANGED <<pending, running, closed, queueVars, workerVars, recordVars,
                 otherVars>>

LeavePool(w) ==
  /\ Pool!Leave(w)
  /\ UNCHANGED <<queueVars, workerVars, recordVars, otherVars>>

WorkerStep(w) ==
  \/ BeginTask(w) \/ FinishTask(w) \/ FinalizeCancelled(w) \/ FinalizeCompleted(w)
  \/ SetOutcome(w) \/ UpdateStatistics(w) \/ CallbackReturns(w) \/ CallbackThrows(w)
  \/ RecordStatus(w) \/ EraseTask(w) \/ Reschedule(w) \/ ResetPending(w)
  \/ PushBack(w) \/ NotifyLoop(w) \/ LeavePool(w)

-----------------------------------------------------------------------------
(* start, stop and setTaskCompletionCallback, called by one thread *)

GoCtl(from, to) == ctl = from /\ ctl' = to

CtlFrame == <<workerVars, recordVars, completionCallback, client, now, runs>>

Start ==
  /\ ctl = "idle" /\ ~isRunning /\ (closed => MayRestart)
  /\ isRunning' = TRUE
  /\ loop' = "top"
  /\ UNCHANGED <<taskQueue, hand, ctl, poolVars, CtlFrame>>

Stop ==
  /\ GoCtl("idle", "wake")
  /\ isRunning' = FALSE
  /\ UNCHANGED <<taskQueue, loop, hand, poolVars, CtlFrame>>

StopWake ==
  /\ GoCtl("wake", "joinLoop")
  /\ Notify
  /\ UNCHANGED <<taskQueue, isRunning, hand, poolVars, CtlFrame>>

\* Mutant: the scheduler thread is not joined.
StopJoinDetached ==
  /\ GoCtl("joinLoop", "closePool")
  /\ UNCHANGED <<queueVars, poolVars, CtlFrame>>

StopJoin ==
  /\ GoCtl("joinLoop", "closePool")
  /\ loop \in {"off", "exited"}
  /\ loop' = "off"
  /\ UNCHANGED <<taskQueue, isRunning, hand, poolVars, CtlFrame>>

StopClosePool ==
  /\ GoCtl("closePool", "joinPool")
  /\ Pool!Close
  /\ UNCHANGED <<queueVars, CtlFrame>>

StopDiscard ==
  /\ GoCtl("joinPool", "idle")
  /\ Pool!Discard
  /\ UNCHANGED <<queueVars, CtlFrame>>

StopStep == StopWake \/ StopJoin \/ StopClosePool \/ StopDiscard

\* completionCallback is not protected by a mutex; it is taken to be set
\* before anything can call it, as the examples and the tests do.
SetTaskCompletionCallback(cb) ==
  /\ ctl = "idle" /\ nextId = 1
  /\ completionCallback' = cb
  /\ UNCHANGED <<queueVars, poolVars, workerVars, recordVars, client, ctl, now, runs>>

Tick ==
  /\ now < MaxTime
  /\ now' = now + 1
  /\ UNCHANGED <<queueVars, poolVars, workerVars, recordVars, completionCallback,
                 client, ctl, runs>>

-----------------------------------------------------------------------------

ClientStep(c) ==
  \/ SchedulePush(c) \/ ScheduleCount(c) \/ ScheduleNotify(c)
  \/ CancelQueued(c) \/ CancelStats(c) \/ CancelCall(c) \/ CancelRecord(c)

Next ==
  \/ \E c \in Clients : \/ \E cfg \in Configs : ScheduleTask(c, cfg)
                        \/ \E t \in Targets : CancelActive(c, t)
                        \/ ClientStep(c)
  \/ LoopStep \/ SpuriousWakeup
  \/ \E w \in Workers : WorkerStep(w)
  \/ Start \/ Stop \/ StopStep
  \/ \E cb \in Callbacks : SetTaskCompletionCallback(cb)
  \/ Tick

Spec == Init /\ [][Next]_vars

\* Threads that can run do run, one that waits for a mutex that is free again
\* and again gets it (the scheduler thread may wake spuriously and take it any
\* number of times), task functions and callbacks return or throw, and time
\* passes.  Nobody has to call the API, and no spurious wakeup has to happen.
Fairness ==
  /\ WF_vars(LoopStep)
  /\ \A w \in Workers : WF_vars(WorkerStep(w)) /\ SF_vars(PushBack(w))
  /\ \A c \in Clients : WF_vars(ClientStep(c))
                           /\ SF_vars(SchedulePush(c)) /\ SF_vars(CancelQueued(c))
  /\ WF_vars(StopStep)
  /\ WF_vars(Tick)

FairSpec == Spec /\ Fairness
=============================================================================
