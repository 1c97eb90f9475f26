-------------------------- MODULE SchedulerRunProofs --------------------------
(***************************************************************************)
(* The executions of the scheduler's tasks, for every number of workers,   *)
(* clients and tasks: a stopped scheduler is quiet, a task that does not   *)
(* repeat runs once, and no run begins before the task's start time.       *)
(***************************************************************************)
EXTENDS SchedulerProofs, TaskQueueProofs

-----------------------------------------------------------------------------
(* What may happen to the fields of a task *)

\* setStatus() writes the status and no other field.
LEMMA StatusOnly ==
  ASSUME TypeOK, NEW u \in Tasks, NEW s \in Status, SetStatus(u, s), NEW t \in Tasks
  PROVE  /\ task'[t].isRepeatable = task[t].isRepeatable
         /\ task'[t].startTime = task[t].startTime
         /\ task'[t].priority = task[t].priority
         /\ task'[t].status = IF t = u THEN s ELSE task[t].status
<1>1. task \in [Tasks -> TaskRecord]
  BY DEF TypeOK, RecordTypes
<1>2. CASE t = u
  BY <1>1, <1>2 DEF SetStatus, TaskRecord
<1>3. CASE t # u
  BY <1>1, <1>3 DEF SetStatus
<1> QED BY <1>2, <1>3

\* reschedule() writes the start time and no other field.
LEMMA StartTimeOnly ==
  ASSUME TypeOK, NEW w \in Workers, Reschedule(w), NEW t \in Tasks
  PROVE  /\ task'[t].isRepeatable = task[t].isRepeatable
         /\ task'[t].status = task[t].status
         /\ task'[t].priority = task[t].priority
         /\ t # running[w] => task'[t] = task[t]
         /\ running[w] \in Tasks
<1>1. task \in [Tasks -> TaskRecord] /\ running[w] \in Tasks
  BY DEF TypeOK, RecordTypes, PoolTypes, Reschedule, GoStage
<1>2. CASE t = running[w]
  BY <1>1, <1>2 DEF Reschedule, TaskRecord
<1>3. CASE t # running[w]
  BY <1>1, <1>3 DEF Reschedule
<1> QED BY <1>1, <1>2, <1>3

\* A task is written by its constructor, by setStatus() and by reschedule().
LEMMA TaskWritten ==
  ASSUME TypeOK, [Next]_vars
  PROVE  \/ UNCHANGED task
         \/ \E c \in Clients : \E cfg \in Configs : ScheduleTask(c, cfg)
         \/ \E u \in Tasks : \E s \in Status : SetStatus(u, s)
         \/ \E w \in Workers : Reschedule(w)
<1> DEFINE Goal == \/ UNCHANGED task
                   \/ \E c \in Clients : \E cfg \in Configs : ScheduleTask(c, cfg)
                   \/ \E u \in Tasks : \E s \in Status : SetStatus(u, s)
                   \/ \E w \in Workers : Reschedule(w)
<1>0. 0 \notin Tasks /\ Targets \subseteq Tasks
  BY SchedulerAssumption DEF Tasks
<1>1. ASSUME NEW c \in Clients, ClientAction(c) PROVE Goal
  <2>1. ASSUME NEW t \in Targets, CancelActive(c, t) PROVE Goal
    BY <1>0, <2>1 DEF CancelActive, Status, FinalStatus
  <2>2. CASE CancelQueued(c)
    <3>1. client[c].task \in Tasks
      BY <1>0, <2>2 DEF CancelQueued, TypeOK, ClientTypes, NoTask
    <3> QED BY <2>2, <3>1 DEF CancelQueued, Status, FinalStatus
  <2> QED
    BY <1>1, <2>1, <2>2
    DEF ClientAction, ClientStep, SchedulePush, ScheduleCount, ScheduleNotify, CancelStats,
        CancelCall, CancelRecord, recordVars
<1>2. CASE LoopStep \/ SpuriousWakeup
  <2>1. CASE LoopMark
    <3>1. hand \in Tasks
      BY <2>1 DEF LoopMark, GoLoop, TypeOK, QueueTypes, Carrying
    <3> QED BY <2>1, <3>1 DEF LoopMark, Status
  <2> QED
    BY <1>2, <2>1
    DEF LoopStep, SpuriousWakeup, LoopTop, LoopPred, LoopBlock, LoopRewake, LoopBreak,
        LoopPopDue, LoopPopEarly, LoopTimedPred, LoopTimedBlock, LoopTimeout, LoopLookup,
        LoopCheck, LoopDispatch, LoopFrame, recordVars
<1>3. ASSUME NEW w \in Workers, WorkerStep(w) PROVE Goal
  <2>1. CASE SetOutcome(w) \/ ResetPending(w)
    <3>1. running[w] \in Tasks /\ outcome[w] \in Status
      BY <2>1 DEF SetOutcome, ResetPending, GoStage, TypeOK, PoolTypes, Status
    <3> QED BY <2>1, <3>1 DEF SetOutcome, ResetPending, Status
  <2> QED
    BY <1>3, <2>1
    DEF WorkerStep, BeginTask, FinishTask, FinalizeCancelled, FinalizeCompleted,
        UpdateStatistics, CallbackReturns, CallbackThrows, RecordStatus, EraseTask,
        PushBack, NotifyLoop, LeavePool, recordVars
<1>4. CASE CtlStep
  BY <1>4, CtlFrames DEF recordVars
<1>5. CASE Tick \/ UNCHANGED vars
  BY <1>5 DEF Tick, vars, recordVars
<1> QED BY <1>1, <1>2, <1>3, <1>4, <1>5, Actors

\* Whether a task repeats is decided when it is created (nothing writes isRepeatable later).
LEMMA RepeatableKept ==
  ASSUME TypeOK, [Next]_vars, NEW t \in Tasks, t # nextId
  PROVE  task'[t].isRepeatable = task[t].isRepeatable
<1>1. ASSUME NEW c \in Clients, NEW cfg \in Configs, ScheduleTask(c, cfg)
      PROVE  task'[t] = task[t]
  BY <1>1 DEF ScheduleTask, TypeOK, RecordTypes
<1> QED BY <1>1, TaskWritten, StatusOnly, StartTimeOnly

\* Only the worker that executes a task moves its start time, and its priority stays.
LEMMA KeysKept ==
  ASSUME TypeOK, [Next]_vars, NEW t \in Tasks, t # nextId
  PROVE  /\ task'[t].priority = task[t].priority
         /\ \/ task'[t].startTime = task[t].startTime
            \/ \E w \in Workers : Executing(w, t)
<1>1. ASSUME NEW c \in Clients, NEW cfg \in Configs, ScheduleTask(c, cfg)
      PROVE  task'[t] = task[t]
  BY <1>1 DEF ScheduleTask, TypeOK, RecordTypes
<1>2. ASSUME NEW w \in Workers, Reschedule(w), t = running[w] PROVE Executing(w, t)
  BY <1>2 DEF Reschedule, GoStage, Executing
<1> QED BY <1>1, <1>2, TaskWritten, StatusOnly, StartTimeOnly

\* What a step of a worker does to the pool: it takes the front of the FIFO, drops
\* its task, leaves, or keeps everything.
LEMMA WorkerAndPool ==
  ASSUME NEW w \in Workers, WorkerStep(w)
  PROVE  \/ BeginTask(w)
         \/ Pool!End(w)
         \/ LeavePool(w)
         \/ UNCHANGED poolVars
  BY DEF WorkerStep, FinishTask, FinalizeCancelled, FinalizeCompleted, SetOutcome,
         UpdateStatistics, CallbackReturns, CallbackThrows, RecordStatus, EraseTask,
         Reschedule, ResetPending, PushBack, NotifyLoop, EndJob, WorkerFrame

\* What clients and workers do to the loop: nothing, or they notify it.
LEMMA LoopLeftAlone ==
  ASSUME \/ \E c \in Clients : ClientAction(c)
         \/ \E w \in Workers : WorkerStep(w)
  PROVE  UNCHANGED loop \/ Notify
  BY DEF ClientAction, ClientStep, ScheduleTask, SchedulePush, ScheduleCount,
         ScheduleNotify, CancelActive, CancelQueued, CancelStats, CancelCall, CancelRecord,
         WorkerStep, BeginTask, FinishTask, FinalizeCancelled, FinalizeCompleted,
         SetOutcome, UpdateStatistics, CallbackReturns, CallbackThrows, RecordStatus,
         EraseTask, Reschedule, ResetPending, PushBack, NotifyLoop, LeavePool,
         WorkerFrame, queueVars

-----------------------------------------------------------------------------
(* Stopping *)

\* The flag is down from the first step of stop() on; the scheduler thread is
\* joined before the pool is closed and there is none while the flag is down between
\* calls; a closed pool whose stop() has returned has no worker left, and no job unless
\* start() was called again; workers that left execute nothing.
StopInv ==
  /\ ctl # "idle" => ~isRunning
  /\ ctl \in {"closePool", "joinPool"} \/ (ctl = "idle" /\ ~isRunning) => loop = "off"
  /\ closed => ctl = "joinPool" \/ gone = Workers
  /\ closed /\ ctl = "idle" /\ ~isRunning => pending = <<>>
  /\ \A w \in gone : running[w] = NoTask

\* start() and stop() go through their steps in this order; loop and workers can
\* only come to rest.
LEMMA StopStepInv == TypeOK /\ StopInv /\ [Next]_vars => StopInv'
<1> SUFFICES ASSUME TypeOK, StopInv, [Next]_vars PROVE StopInv'
  OBVIOUS
<1>0. gone \subseteq Workers /\ running \in [Workers -> Tasks \cup {NoTask}]
  BY DEF TypeOK, PoolTypes
<1>1. ASSUME UNCHANGED loop \/ Notify PROVE loop = "off" => loop' = "off"
  BY <1>1 DEF Notify
<1>2. ASSUME NEW c \in Clients, ClientAction(c) PROVE StopInv'
  <2>1. loop = "off" => loop' = "off"
    BY <1>1, <1>2, LoopLeftAlone
  <2> QED BY <1>2, <2>1, ClientFrame DEF StopInv, poolVars
<1>3. CASE LoopStep \/ SpuriousWakeup
  <2>1. loop # "off"
    BY <1>3 DEF LoopStep, SpuriousWakeup, LoopTop, LoopPred, LoopBlock, LoopRewake,
        LoopBreak, LoopPopDue, LoopPopEarly, LoopTimedPred, LoopTimedBlock, LoopTimeout,
        LoopLookup, LoopCheck, LoopMark, LoopDispatch, GoLoop
  <2> QED BY <1>3, <2>1, LoopFrames DEF StopInv
<1>4. ASSUME NEW w \in Workers, WorkerStep(w) PROVE StopInv'
  <2>1. loop = "off" => loop' = "off"
    BY <1>1, <1>4, LoopLeftAlone
  <2>2. UNCHANGED <<isRunning, ctl, closed>>
    BY <1>4, WorkerFrames
  <2>3. /\ gone = Workers => gone' = Workers
        /\ \A v \in gone' : running'[v] = NoTask
        /\ closed => pending' = pending
    <3>1. CASE BeginTask(w)
      BY <1>0, <3>1 DEF BeginTask, Pool!Begin, StopInv
    <3>2. CASE Pool!End(w)
      BY <1>0, <3>2 DEF Pool!End, StopInv
    <3>3. CASE LeavePool(w)
      BY <1>0, <3>3 DEF LeavePool, Pool!Leave, StopInv
    <3>4. CASE UNCHANGED poolVars
      BY <3>4 DEF poolVars, StopInv
    <3> QED BY <1>4, <3>1, <3>2, <3>3, <3>4, WorkerAndPool
  <2> QED BY <2>1, <2>2, <2>3 DEF StopInv
<1>5. CASE CtlStep
  <2>1. UNCHANGED <<running, gone>>
    BY <1>5, CtlFrames
  <2>2. CASE Start \/ Stop
    BY <2>1, <2>2 DEF Start, Stop, GoCtl, poolVars, StopInv
  <2>3. CASE StopWake
    BY <2>1, <2>3 DEF StopWake, GoCtl, poolVars, StopInv
  <2>4. CASE StopJoin
    BY <2>1, <2>4 DEF StopJoin, GoCtl, poolVars, StopInv
  <2>5. CASE StopClosePool
    BY <2>1, <2>5 DEF StopClosePool, GoCtl, Pool!Close, queueVars, StopInv
  <2>6. CASE StopDiscard
    BY <2>1, <2>6 DEF StopDiscard, GoCtl, Pool!Discard, queueVars, StopInv
  <2>7. ASSUME NEW cb \in Callbacks, SetTaskCompletionCallback(cb) PROVE StopInv'
    BY <2>1, <2>7 DEF SetTaskCompletionCallback, queueVars, poolVars, StopInv
  <2> QED BY <1>5, <2>2, <2>3, <2>4, <2>5, <2>6, <2>7 DEF CtlStep, StopStep
<1>6. CASE Tick \/ UNCHANGED vars
  BY <1>6 DEF Tick, vars, queueVars, poolVars, otherVars, StopInv
<1> QED BY <1>2, <1>3, <1>4, <1>5, <1>6, Actors

\* The invariant of start() and stop() holds in every reachable state.
THEOREM StopInvariance == Spec => []StopInv
<1>1. Init => StopInv
  BY DEF Init, Pool!PoolInit, StopInv
<1> QED BY <1>1, StopStepInv, TypeCorrect, PTL DEF Spec

\* When stop() has returned no task executes, every worker is joined, the scheduler
\* thread is gone and the pool is empty, restarts included.
THEOREM StoppedIsQuiet == Spec => []QuietWhenStopped
<1>1. TypeOK /\ StopInv => QuietWhenStopped
  BY DEF TypeOK, PoolTypes, StopInv, QuietWhenStopped
<1> QED BY <1>1, StopInvariance, TypeCorrect, PTL

-----------------------------------------------------------------------------
(* Executions *)

\* t is on its way to a worker.
Awaits(t) == InQueue(t) \/ InHand(t) \/ InPool(t) \/ AtClient(t)

\* Appending to the pool's FIFO adds the appended task only, and taking its front
\* adds none (enqueueTask, workerLoop).
LEMMA FifoMembers ==
  ASSUME NEW q \in Seq(Tasks)
  PROVE  /\ \A u \in Tasks : \A i \in DOMAIN Append(q, u) :
              Append(q, u)[i] = u \/ \E j \in DOMAIN q : Append(q, u)[i] = q[j]
         /\ q # <<>> => /\ Head(q) \in Tasks
                        /\ \E j \in DOMAIN q : Head(q) = q[j]
                        /\ \A i \in DOMAIN Tail(q) : \E j \in DOMAIN q : Tail(q)[i] = q[j]
<1>1. ASSUME NEW u \in Tasks, NEW i \in DOMAIN Append(q, u)
      PROVE  Append(q, u)[i] = u \/ \E j \in DOMAIN q : Append(q, u)[i] = q[j]
  <2>1. /\ DOMAIN q = 1..Len(q) /\ Len(q) \in Nat
        /\ DOMAIN Append(q, u) = 1..(Len(q) + 1)
        /\ Append(q, u)[Len(q) + 1] = u
        /\ \A j \in DOMAIN q : Append(q, u)[j] = q[j]
    OBVIOUS
  <2>2. i = Len(q) + 1 \/ i \in DOMAIN q
    BY <2>1
  <2> QED BY <2>1, <2>2
<1>2. ASSUME q # <<>>
      PROVE  Head(q) \in Tasks /\ \E j \in DOMAIN q : Head(q) = q[j]
  <2>1. 1 \in DOMAIN q /\ Head(q) = q[1] /\ Head(q) \in Tasks
    BY <1>2
  <2> QED BY <2>1
<1>3. ASSUME q # <<>>, NEW i \in DOMAIN Tail(q)
      PROVE  \E j \in DOMAIN q : Tail(q)[i] = q[j]
  <2>1. i + 1 \in DOMAIN q /\ Tail(q)[i] = q[i + 1]
    BY <1>3
  <2> QED BY <2>1
<1> QED BY <1>1, <1>2, <1>3

\* A task comes into the queue, or to the client about to push it there, when it is
\* created and when a worker pushes it back.
LEMMA QueuedStep ==
  ASSUME TypeOK, [Next]_vars, NEW t \in Tasks, InQueue(t)' \/ AtClient(t)'
  PROVE  \/ InQueue(t) \/ AtClient(t)
         \/ t = nextId /\ \E c \in Clients : \E cfg \in Configs : ScheduleTask(c, cfg)
         \/ \E w \in Workers : PushBack(w) /\ running[w] = t
<1> DEFINE Goal == \/ InQueue(t) \/ AtClient(t)
                   \/ t = nextId /\ \E c \in Clients : \E cfg \in Configs : ScheduleTask(c, cfg)
                   \/ \E w \in Workers : PushBack(w) /\ running[w] = t
<1>0. /\ taskQueue \in [Tasks -> Nat]
      /\ client \in [Clients -> [pc: ClientPC, task: Tasks \cup {NoTask}]]
  BY DEF TypeOK, QueueTypes, ClientTypes
<1>1. ASSUME UNCHANGED taskQueue PROVE InQueue(t)' => InQueue(t)
  BY <1>1 DEF InQueue
<1>2. ASSUME UNCHANGED client PROVE AtClient(t)' => AtClient(t)
  BY <1>2 DEF AtClient, Pushing
<1>3. ASSUME NEW c \in Clients, ClientAction(c) PROVE Goal
  <2>1. ASSUME NEW cfg \in Configs, ScheduleTask(c, cfg) PROVE Goal
    <3>1. AtClient(t)' => AtClient(t) \/ t = nextId
      BY <1>0, <2>1 DEF ScheduleTask, GoClient, AtClient, Pushing
    <3> QED BY <1>1, <2>1, <3>1 DEF ScheduleTask, queueVars
  <2>2. CASE SchedulePush(c)
    <3>1. InQueue(t)' => InQueue(t) \/ Pushing(c, t)
      BY <1>0, <2>2 DEF SchedulePush, Push, InQueue, Pushing
    <3>2. AtClient(t)' => AtClient(t)
      BY <1>0, <2>2 DEF SchedulePush, GoClient, AtClient, Pushing
    <3> QED BY <3>1, <3>2 DEF AtClient
  <2>3. CASE \/ \E u \in Targets : CancelActive(c, u)
             \/ ScheduleCount(c) \/ ScheduleNotify(c) \/ CancelQueued(c) \/ CancelStats(c)
             \/ CancelCall(c) \/ CancelRecord(c)
    <3>1. InQueue(t)' => InQueue(t)
      BY <1>0, <2>3
      DEF CancelActive, ScheduleCount, ScheduleNotify, CancelQueued, CancelStats, CancelCall,
          CancelRecord, queueVars, RemoveAll, InQueue
    <3>2. AtClient(t)' => AtClient(t)
      BY <1>0, <2>3
      DEF CancelActive, ScheduleCount, ScheduleNotify, CancelQueued, CancelStats, CancelCall,
          CancelRecord, GoClient, AtClient, Pushing
    <3> QED BY <3>1, <3>2
  <2> QED BY <1>3, <2>1, <2>2, <2>3 DEF ClientAction, ClientStep
<1>4. CASE LoopStep \/ SpuriousWakeup
  <2>1. AtClient(t)' => AtClient(t)
    BY <1>2, <1>4, LoopFrames
  <2>2. CASE LoopPopDue \/ LoopPopEarly
    <3>1. PICK u \in Tasks : /\ taskQueue[u] > 0
                             /\ \/ taskQueue' = PopTop(taskQueue, u)
                                \/ taskQueue' = Push(PopTop(taskQueue, u), u)
      BY <1>0, <2>2 DEF LoopPopDue, LoopPopEarly, Tops
    <3>2. InQueue(t)' => InQueue(t)
      BY <1>0, <3>1 DEF InQueue, Push, PopTop
    <3> QED BY <2>1, <3>2
  <2>3. CASE UNCHANGED taskQueue
    BY <1>1, <2>1, <2>3
  <2> QED
    BY <1>4, <2>2, <2>3
    DEF LoopStep, SpuriousWakeup, LoopTop, LoopPred, LoopBlock, LoopRewake, LoopBreak,
        LoopTimedPred, LoopTimedBlock, LoopTimeout, LoopLookup, LoopCheck, LoopMark,
        LoopDispatch
<1>5. ASSUME NEW w \in Workers, WorkerStep(w) PROVE Goal
  <2>1. AtClient(t)' => AtClient(t)
    BY <1>2, <1>5, WorkerFrames
  <2>2. CASE PushBack(w)
    <3>1. InQueue(t)' => InQueue(t) \/ running[w] = t
      BY <1>0, <2>2 DEF PushBack, Push, InQueue
    <3> QED BY <2>1, <2>2, <3>1
  <2>3. CASE UNCHANGED taskQueue
    BY <1>1, <2>1, <2>3
  <2> QED
    BY <1>5, <2>2, <2>3
    DEF WorkerStep, BeginTask, FinishTask, FinalizeCancelled, FinalizeCompleted, SetOutcome,
        UpdateStatistics, CallbackReturns, CallbackThrows, RecordStatus, EraseTask,
        Reschedule, ResetPending, NotifyLoop, LeavePool, WorkerFrame, queueVars
<1>6. CASE CtlStep \/ Tick \/ UNCHANGED vars
  BY <1>1, <1>2, <1>6, CtlFrames DEF Tick, vars, queueVars, otherVars
<1> QED BY <1>3, <1>4, <1>5, <1>6, Actors

\* The loop takes a task in its hands from the top of the queue when it is due, and
\* marks it before it dispatches it.
LEMMA HandStep ==
  ASSUME TypeOK, [Next]_vars, NEW t \in Tasks, InHand(t)'
  PROVE  \/ InHand(t) /\ (loop' = "dispatch" <=> loop = "dispatch")
         \/ InHand(t) /\ LoopMark
         \/ /\ InQueue(t) /\ LoopPopDue /\ loop' = "lookup"
            /\ task[t].startTime <= now /\ UNCHANGED <<task, now>>
<1>0. taskQueue \in [Tasks -> Nat] /\ t # NoTask
  BY DEF TypeOK, QueueTypes, Tasks, NoTask
<1>1. ASSUME UNCHANGED loop \/ Notify, UNCHANGED hand
      PROVE  InHand(t) /\ (loop' = "dispatch" <=> loop = "dispatch")
  BY <1>1, NotifyKeepsHand DEF InHand, Carrying
<1>2. CASE LoopPopDue
  <2>1. PICK u \in Tasks : taskQueue[u] > 0 /\ task[u].startTime <= now /\ hand' = u
    BY <1>0, <1>2 DEF LoopPopDue, Tops
  <2> QED
    BY <1>2, <2>1 DEF LoopPopDue, GoLoop, InHand, InQueue, LoopFrame, recordVars, otherVars
<1>3. CASE LoopMark
  BY <1>3 DEF LoopMark, GoLoop, InHand, Carrying
<1>4. CASE \/ SpuriousWakeup \/ LoopTop \/ LoopPred \/ LoopBlock \/ LoopRewake \/ LoopBreak
           \/ LoopPopEarly \/ LoopTimedPred \/ LoopTimedBlock \/ LoopTimeout \/ LoopLookup
           \/ LoopCheck \/ LoopDispatch
  BY <1>0, <1>4
  DEF SpuriousWakeup, LoopTop, LoopPred, LoopBlock, LoopRewake, LoopBreak, LoopPopEarly,
      LoopTimedPred, LoopTimedBlock, LoopTimeout, LoopLookup, LoopCheck, LoopDispatch,
      GoLoop, InHand, Carrying
<1>5. CASE CtlStep
  <2>1. loop' \in {loop, "top", "off"} \/ Notify
    BY <1>5 DEF CtlStep, StopStep, Start, Stop, StopWake, StopJoin, StopClosePool,
        StopDiscard, SetTaskCompletionCallback, queueVars
  <2>2. UNCHANGED loop \/ Notify
    BY <2>1 DEF InHand, Carrying
  <2> QED BY <1>1, <1>5, <2>2, CtlFrames
<1>6. CASE Tick \/ UNCHANGED vars
  BY <1>1, <1>6 DEF Tick, vars, queueVars
<1> QED
  BY <1>1, <1>2, <1>3, <1>4, <1>5, <1>6, Actors, ClientFrame, WorkerFrames, LoopLeftAlone
  DEF LoopStep

\* Tasks enter the pool's FIFO from the hands of the loop, at the dispatch.
LEMMA PoolStep ==
  ASSUME TypeOK, [Next]_vars, NEW t \in Tasks, InPool(t)'
  PROVE  InPool(t) \/ (InHand(t) /\ loop = "dispatch")
<1>0. pending \in Seq(Tasks)
  BY DEF TypeOK, PoolTypes
<1>1. CASE UNCHANGED pending
  BY <1>1 DEF InPool
<1>2. CASE LoopStep \/ SpuriousWakeup
  <2>1. CASE LoopDispatch
    <3>1. loop = "dispatch" /\ pending' = Append(pending, hand) /\ hand \in Tasks
      BY <2>1 DEF LoopDispatch, GoLoop, Pool!Submit, TypeOK, QueueTypes, Carrying
    <3> QED BY <1>0, <3>1, FifoMembers DEF InPool, InHand, Carrying
  <2> QED
    BY <1>1, <1>2, <2>1
    DEF LoopStep, SpuriousWakeup, LoopTop, LoopPred, LoopBlock, LoopRewake, LoopBreak,
        LoopPopDue, LoopPopEarly, LoopTimedPred, LoopTimedBlock, LoopTimeout, LoopLookup,
        LoopCheck, LoopMark, LoopFrame, poolVars
<1>3. ASSUME NEW w \in Workers, WorkerStep(w) PROVE InPool(t)
  <2>1. CASE BeginTask(w)
    BY <1>0, <2>1, FifoMembers DEF BeginTask, Pool!Begin, InPool
  <2> QED BY <1>1, <1>3, <2>1, WorkerAndPool DEF Pool!End, LeavePool, Pool!Leave, InPool, poolVars
<1>4. CASE CtlStep
  <2>1. pending' = pending \/ pending' = <<>>
    BY <1>4 DEF CtlStep, StopStep, Start, Stop, StopWake, StopJoin, StopClosePool,
        StopDiscard, SetTaskCompletionCallback, Pool!Close, Pool!Discard, poolVars
  <2> QED BY <1>1, <2>1 DEF InPool
<1> QED BY <1>1, <1>2, <1>3, <1>4, Actors, ClientFrame DEF Tick, vars, poolVars

\* A task comes on its way to a worker when it is created and when a worker pushes
\* it back.
LEMMA AwaitsStep ==
  ASSUME TypeOK, [Next]_vars, NEW t \in Tasks, Awaits(t)'
  PROVE  \/ Awaits(t)
         \/ t = nextId /\ \E c \in Clients : \E cfg \in Configs : ScheduleTask(c, cfg)
         \/ \E w \in Workers : PushBack(w) /\ running[w] = t
  BY QueuedStep, HandStep, PoolStep DEF Awaits

\* Executions are begun by workers, with the task at the front of the FIFO, and a
\* task object is made by scheduleTask.
LEMMA RunsStep ==
  ASSUME TypeOK, [Next]_vars
  PROVE  /\ UNCHANGED runs \/ \E w \in Workers : BeginTask(w)
         /\ nextId' = nextId \/ nextId' = nextId + 1
         /\ \A w \in Workers : BeginTask(w) =>
              /\ Head(pending) \in Tasks /\ InPool(Head(pending))
              /\ runs' = [runs EXCEPT ![Head(pending)] = @ + 1]
              /\ UNCHANGED <<task, nextId, now, activeTasks, completedTasks>>
<1>1. UNCHANGED runs \/ \E w \in Workers : BeginTask(w)
  <2>1. ASSUME NEW w \in Workers, WorkerStep(w), ~BeginTask(w) PROVE UNCHANGED runs
    BY <2>1
    DEF WorkerStep, FinishTask, FinalizeCancelled, FinalizeCompleted, SetOutcome,
        UpdateStatistics, CallbackReturns, CallbackThrows, RecordStatus, EraseTask,
        Reschedule, ResetPending, PushBack, NotifyLoop, LeavePool, WorkerFrame, otherVars
  <2> QED BY <2>1, Actors, ClientFrame, LoopFrames, CtlFrames DEF Tick, vars, otherVars
<1>2. nextId' = nextId \/ nextId' = nextId + 1
  <2>1. ASSUME NEW c \in Clients, ClientAction(c) PROVE nextId' = nextId \/ nextId' = nextId + 1
    BY <2>1
    DEF ClientAction, ClientStep, ScheduleTask, SchedulePush, ScheduleCount, ScheduleNotify,
        CancelActive, CancelQueued, CancelStats, CancelCall, CancelRecord, recordVars
  <2> QED BY <2>1, Actors, WorkerFrames, LoopFrames, CtlFrames DEF Tick, vars, recordVars
<1>3. ASSUME NEW w \in Workers, BeginTask(w)
      PROVE  /\ Head(pending) \in Tasks /\ InPool(Head(pending))
             /\ runs' = [runs EXCEPT ![Head(pending)] = @ + 1]
             /\ UNCHANGED <<task, nextId, now, activeTasks, completedTasks>>
  <2>1. pending \in Seq(Tasks) /\ pending # <<>>
    BY <1>3 DEF BeginTask, Pool!Begin, TypeOK, PoolTypes
  <2> QED BY <1>3, <2>1, FifoMembers DEF BeginTask, recordVars, InPool
<1> QED BY <1>1, <1>2, <1>3

Repeating == {"resched", "pend", "push"}

\* A worker goes on to reschedule only the task it recorded as completed and found
\* repeatable (executeAndFinalizeTask).
LEMMA RepeatingStep ==
  ASSUME TypeOK, [Next]_vars, NEW v \in Workers, stage'[v] \in Repeating
  PROVE  /\ running'[v] = running[v] /\ running[v] \in Tasks /\ Executing(v, running[v])
         /\ stage[v] \in Repeating \/ (task[running[v]].isRepeatable /\ UNCHANGED task)
<1> DEFINE Goal == /\ running'[v] = running[v] /\ running[v] \in Tasks
                   /\ Executing(v, running[v])
                   /\ stage[v] \in Repeating \/ (task[running[v]].isRepeatable /\ UNCHANGED task)
<1>0. PoolTypes
  BY DEF TypeOK
<1>1. CASE UNCHANGED <<running, stage>>
  BY <1>0, <1>1 DEF PoolTypes, Executing, Repeating
<1>2. ASSUME NEW w \in Workers, WorkerStep(w) PROVE Goal
  <2>1. ASSUME NEW a, NEW b, GoStage(w, a, b), UNCHANGED poolVars,
               b \in Repeating => a \in Repeating
        PROVE  Goal
    BY <1>0, <2>1 DEF GoStage, PoolTypes, Executing, Repeating, poolVars
  <2>2. ASSUME NEW a, EndJob(w, a) PROVE Goal
    BY <1>0, <2>2 DEF EndJob, GoStage, Pool!End, PoolTypes, Executing, Repeating
  <2>3. CASE BeginTask(w)
    BY <1>0, <2>3 DEF BeginTask, Pool!Begin, GoStage, PoolTypes, Executing, Repeating
  <2>4. CASE \/ FinishTask(w) \/ FinalizeCompleted(w) \/ SetOutcome(w) \/ UpdateStatistics(w)
             \/ CallbackReturns(w) \/ Reschedule(w) \/ ResetPending(w) \/ PushBack(w)
    BY <2>1, <2>4
    DEF FinishTask, FinalizeCompleted, SetOutcome, UpdateStatistics, CallbackReturns,
        Reschedule, ResetPending, PushBack, WorkerFrame, Repeating
  <2>5. CASE RecordStatus(w)
    BY <1>0, <2>5 DEF RecordStatus, GoStage, WorkerFrame, poolVars, PoolTypes, Executing,
                      Repeating
  <2>6. CASE FinalizeCancelled(w) \/ EraseTask(w) \/ NotifyLoop(w)
    BY <2>2, <2>6 DEF FinalizeCancelled, EraseTask, NotifyLoop
  <2>7. CASE CallbackThrows(w)
    BY <2>1, <2>2, <2>7 DEF CallbackThrows, Repeating
  <2>8. CASE LeavePool(w)
    BY <1>1, <2>8 DEF LeavePool, Pool!Leave, workerVars
  <2> QED BY <1>2, <2>3, <2>4, <2>5, <2>6, <2>7, <2>8 DEF WorkerStep
<1> QED
  BY <1>1, <1>2, Actors, ClientFrame, LoopFrames, CtlFrames
  DEF Tick, vars, poolVars, workerVars

\* Tasks not yet created have not run; a task that has run and does not repeat is not
\* on its way to a worker, and no worker is rescheduling it.
RunInv ==
  \A t \in Tasks :
    /\ t >= nextId => runs[t] = 0
    /\ runs[t] > 0 /\ ~task[t].isRepeatable => ~Awaits(t)
    /\ runs[t] > 1 => task[t].isRepeatable
    /\ \A w \in Workers : running[w] = t /\ stage[w] \in Repeating => task[t].isRepeatable

\* The only way back to the queue leads through the test of isRepeatable.
LEMMA RunInvStep == OwnerInv /\ OwnerInv' /\ RunInv /\ [Next]_vars => RunInv'
<1> SUFFICES ASSUME OwnerInv, OwnerInv', RunInv, [Next]_vars, NEW t \in Tasks
             PROVE  /\ t >= nextId' => runs'[t] = 0
                    /\ runs'[t] > 0 /\ ~task'[t].isRepeatable => ~Awaits(t)'
                    /\ runs'[t] > 1 => task'[t].isRepeatable
                    /\ \A w \in Workers : running'[w] = t /\ stage'[w] \in Repeating
                         => task'[t].isRepeatable
  BY DEF RunInv
<1>0. /\ TypeOK /\ t \in Nat /\ nextId \in Nat /\ runs \in [Tasks -> Nat]
      /\ Held(t) => t < nextId
  BY SchedulerAssumption DEF OwnerInv, Fresh, TypeOK, RecordTypes, OtherTypes, Tasks
<1>1. /\ t >= nextId => runs[t] = 0
      /\ runs[t] > 0 /\ ~task[t].isRepeatable => ~Awaits(t)
      /\ runs[t] > 1 => task[t].isRepeatable
      /\ \A w \in Workers : running[w] = t /\ stage[w] \in Repeating => task[t].isRepeatable
  BY DEF RunInv
<1>2. t # nextId => task'[t].isRepeatable = task[t].isRepeatable
  BY <1>0, RepeatableKept
<1>3. nextId' = nextId \/ nextId' = nextId + 1
  BY <1>0, RunsStep
<1>4. ASSUME NEW w \in Workers, running'[w] = t, stage'[w] \in Repeating
      PROVE  task'[t].isRepeatable
  <2>1. /\ running[w] = t /\ Executing(w, t)
        /\ stage[w] \in Repeating \/ (task[t].isRepeatable /\ UNCHANGED task)
    BY <1>0, <1>4, RepeatingStep
  <2>2. t # nextId
    BY <1>0, <2>1 DEF Held, AtWorker
  <2> QED BY <1>1, <1>2, <2>1, <2>2
<1>5. ASSUME NEW w \in Workers, BeginTask(w)
      PROVE  /\ t >= nextId' => runs'[t] = 0
             /\ runs'[t] > 0 /\ ~task'[t].isRepeatable => ~Awaits(t)'
             /\ runs'[t] > 1 => task'[t].isRepeatable
  <2> DEFINE u == Head(pending)
  <2>1. /\ u \in Tasks /\ InPool(u) /\ UNCHANGED <<task, nextId>>
        /\ runs' = [runs EXCEPT ![u] = @ + 1]
    BY <1>0, <1>5, RunsStep
  <2> HIDE DEF u
  <2>2. CASE t = u
    <3>1. Awaits(t) /\ t < nextId
      BY <1>0, <2>1, <2>2 DEF Awaits, Held
    <3>2. AtWorker(t)'
      <4>1. running'[w] = t /\ stage'[w] = "exec"
        BY <1>0, <1>5, <2>2
        DEF u, BeginTask, Pool!Begin, GoStage, TypeOK, PoolTypes
      <4> QED BY <4>1 DEF AtWorker, Executing
    <3>3. ~Awaits(t)'
      BY <3>2 DEF OwnerInv, SingleOwner, OneOwner, Awaits
    <3>4. runs[t] > 0 => task[t].isRepeatable
      BY <1>1, <3>1
    <3>5. runs'[t] = runs[t] + 1
      BY <1>0, <2>1, <2>2
    <3> QED BY <1>0, <2>1, <3>1, <3>3, <3>4, <3>5
  <2>3. CASE t # u
    <3>1. runs'[t] = runs[t]
      BY <1>0, <2>1, <2>3
    <3>2. ~(\E c \in Clients : \E cfg \in Configs : ScheduleTask(c, cfg))
          /\ ~(\E v \in Workers : PushBack(v) /\ running[v] = t)
      <4>1. runs' # runs
        BY <1>0, <2>1
      <4> QED BY <4>1 DEF ScheduleTask, PushBack, otherVars
    <3>3. Awaits(t)' => Awaits(t)
      BY <1>0, <3>2, AwaitsStep
    <3> QED BY <1>1, <2>1, <3>1, <3>3
  <2> QED BY <2>2, <2>3
<1>6. CASE UNCHANGED runs
  <2>1. t >= nextId' => runs'[t] = 0
    BY <1>0, <1>1, <1>3, <1>6
  <2>2. ASSUME runs'[t] > 0 PROVE t # nextId
    BY <1>0, <1>1, <1>6, <2>2
  <2>3. runs'[t] > 1 => task'[t].isRepeatable
    BY <1>0, <1>1, <1>2, <1>6, <2>2
  <2>4. ASSUME runs'[t] > 0, ~task'[t].isRepeatable, Awaits(t)' PROVE FALSE
    <3>1. t # nextId /\ ~task[t].isRepeatable /\ ~Awaits(t)
      BY <1>1, <1>2, <1>6, <2>2, <2>4
    <3>2. PICK w \in Workers : PushBack(w) /\ running[w] = t
      BY <1>0, <2>4, <3>1, AwaitsStep
    <3>3. stage[w] \in Repeating
      BY <3>2 DEF PushBack, GoStage, Repeating
    <3> QED BY <1>1, <3>1, <3>2, <3>3
  <2> QED BY <1>4, <2>1, <2>3, <2>4
<1> QED BY <1>0, <1>4, <1>5, <1>6, RunsStep

\* A task that does not repeat is executed at most once, whatever the clients, the
\* workers, stop() and start() do.
THEOREM OneShots == Spec => []OneShotRunsOnce
<1>1. Init => RunInv
  BY SchedulerAssumption DEF Init, RunInv, Repeating
<1>2. RunInv => OneShotRunsOnce
  BY DEF RunInv, OneShotRunsOnce
<1> QED BY <1>1, <1>2, RunInvStep, Ownership, PTL DEF Spec

-----------------------------------------------------------------------------
(* Start times *)

\* A task past the test of the loop is due, and stays due until it is executed.
DueInv == \A t \in Tasks : InHand(t) \/ InPool(t) => task[t].startTime <= now

\* The loop lets only tasks pass that are due, and a start time is moved only by
\* the worker that owns the task.
LEMMA DueInvStep == OwnerInv /\ OwnerInv' /\ DueInv /\ [Next]_vars => DueInv'
<1> SUFFICES ASSUME OwnerInv, OwnerInv', DueInv, [Next]_vars, NEW t \in Tasks,
                    InHand(t)' \/ InPool(t)'
             PROVE  task'[t].startTime <= now'
  BY DEF DueInv
<1>0. /\ TypeOK /\ TypeOK' /\ t \in Nat /\ nextId \in Nat /\ now \in Nat /\ t # NoTask
      /\ task[t].startTime \in Int /\ (Held(t) => t < nextId) /\ OneOwner(t)
      /\ taskQueue \in [Tasks -> Nat] /\ pending \in Seq(Tasks)
  <2>1. TypeOK /\ (Held(t) => t < nextId) /\ OneOwner(t)
    BY DEF OwnerInv, Fresh, SingleOwner
  <2>2. task[t].startTime \in Int
    BY <2>1 DEF TypeOK, RecordTypes, TaskRecord
  <2>3. /\ nextId \in Nat /\ now \in Nat
        /\ taskQueue \in [Tasks -> Nat] /\ pending \in Seq(Tasks)
    BY <2>1, SchedulerAssumption DEF TypeOK, RecordTypes, QueueTypes, PoolTypes, OtherTypes
  <2>4. t \in Nat /\ t # NoTask
    BY DEF Tasks, NoTask
  <2> QED BY <2>1, <2>2, <2>3, <2>4 DEF OwnerInv
<1>1. now' \in Nat /\ now <= now'
  BY <1>0, Actors, ClientFrame, LoopFrames, WorkerFrames, CtlFrames
  DEF Tick, vars, otherVars, TypeOK, OtherTypes
<1>2. CASE InHand(t)' /\ LoopPopDue
  BY <1>0, <1>2, HandStep DEF DueInv, LoopMark, LoopPopDue, GoLoop, InHand, Carrying
<1>3. ASSUME ~(InHand(t)' /\ LoopPopDue) PROVE InHand(t) \/ InPool(t)
  BY <1>0, <1>3, HandStep, PoolStep
<1>4. ASSUME InHand(t) \/ InPool(t) PROVE task'[t].startTime = task[t].startTime
  <2>1. t # nextId /\ ~AtWorker(t)
    BY <1>0, <1>4 DEF Held, OneOwner
  <2> QED BY <1>0, <2>1, KeysKept DEF AtWorker
<1>5. ASSUME InHand(t) \/ InPool(t) PROVE task[t].startTime <= now
  BY <1>5 DEF DueInv
<1> QED BY <1>0, <1>1, <1>2, <1>3, <1>4, <1>5

\* No execution begins before the task's start time, rescheduled ones included.
THEOREM NeverEarly == Spec => NotBeforeStart
<1>1. Init => DueInv
  BY DEF Init, Pool!PoolInit, DueInv, InHand, Carrying, InPool
<1>2. ASSUME OwnerInv, DueInv, [Next]_vars, NEW t \in Tasks, runs'[t] > runs[t]
      PROVE  task[t].startTime <= now
  <2>1. TypeOK /\ runs \in [Tasks -> Nat]
    BY <1>2 DEF OwnerInv, TypeOK, OtherTypes
  <2>2. ~UNCHANGED runs
    BY <1>2, <2>1
  <2>3. PICK w \in Workers : BeginTask(w)
    BY <1>2, <2>1, <2>2, RunsStep
  <2>4. Head(pending) = t /\ InPool(t)
    BY <1>2, <2>1, <2>3, RunsStep
  <2> QED BY <1>2, <2>4 DEF DueInv
<1>3. OwnerInv /\ DueInv /\ [Next]_vars
        => [\A t \in Tasks : runs'[t] > runs[t] => task[t].startTime <= now]_vars
  BY <1>2
<1> QED BY <1>1, <1>3, DueInvStep, Ownership, PTL DEF Spec, NotBeforeStart

-----------------------------------------------------------------------------
(* The priority queue *)

\* What the heap is sorted by stays as it is while a task is in the queue, although
\* reschedule() does not take queueMutex: a queued task has no other owner.
THEOREM KeysStay == Spec => KeysFixedInQueue
<1>1. ASSUME OwnerInv, [Next]_vars, NEW t \in Tasks, InQueue(t)
      PROVE  /\ task'[t].priority = task[t].priority
             /\ task'[t].startTime = task[t].startTime
  <2>1. TypeOK /\ OneOwner(t) /\ t < nextId /\ t \in Nat
    BY <1>1 DEF OwnerInv, Fresh, SingleOwner, Held, Tasks
  <2>2. t # nextId
    BY <2>1
  <2>3. ~ \E w \in Workers : Executing(w, t)
    BY <1>1, <2>1 DEF OneOwner, AtWorker
  <2> QED BY <1>1, <2>1, <2>2, <2>3, KeysKept
<1>2. OwnerInv /\ [Next]_vars =>
        [\A t \in Tasks : InQueue(t) /\ InQueue(t)' =>
           /\ task'[t].priority = task[t].priority
           /\ task'[t].startTime = task[t].startTime]_vars
  BY <1>1
<1> QED BY <1>2, Ownership, PTL DEF Spec, KeysFixedInQueue

\* The loop is about to pop: the queue is not empty, or the flag is down.
PopInv == loop = "pop" /\ isRunning => ~IsEmpty(taskQueue)

\* From the test to the pop the loop holds queueMutex, which everyone else needs to
\* change the queue, and start() raises the flag for a new loop only.
LEMMA PopStep == PopInv /\ [Next]_vars => PopInv'
<1> SUFFICES ASSUME PopInv, [Next]_vars, loop' = "pop", isRunning' PROVE ~IsEmpty(taskQueue)'
  BY DEF PopInv
<1>1. ASSUME loop = "pop", isRunning, UNCHANGED taskQueue PROVE ~IsEmpty(taskQueue)'
  BY <1>1 DEF PopInv, IsEmpty
<1>2. ASSUME UNCHANGED loop \/ Notify PROVE loop = "pop" /\ QueueLocked
  BY <1>2 DEF Notify, QueueLocked
<1>3. ASSUME NEW c \in Clients, ClientAction(c) PROVE ~IsEmpty(taskQueue)'
  <2>1. loop = "pop" /\ QueueLocked
    BY <1>2, <1>3, LoopLeftAlone
  <2>2. UNCHANGED <<taskQueue, isRunning>>
    BY <1>3, <2>1
    DEF ClientAction, ClientStep, ScheduleTask, SchedulePush, ScheduleCount, ScheduleNotify,
        CancelActive, CancelQueued, CancelStats, CancelCall, CancelRecord, queueVars
  <2> QED BY <1>1, <2>1, <2>2
<1>4. CASE LoopStep \/ SpuriousWakeup
  <2>1. LoopPred
    BY <1>4
    DEF LoopStep, SpuriousWakeup, LoopTop, LoopBlock, LoopRewake, LoopBreak, LoopPopDue,
        LoopPopEarly, LoopTimedPred, LoopTimedBlock, LoopTimeout, LoopLookup, LoopCheck,
        LoopMark, LoopDispatch, GoLoop
  <2> QED BY <2>1 DEF LoopPred, GoLoop, IsEmpty
<1>5. ASSUME NEW w \in Workers, WorkerStep(w) PROVE ~IsEmpty(taskQueue)'
  <2>1. loop = "pop" /\ QueueLocked
    BY <1>2, <1>5, LoopLeftAlone
  <2>2. UNCHANGED <<taskQueue, isRunning>>
    BY <1>5, <2>1
    DEF WorkerStep, BeginTask, FinishTask, FinalizeCancelled, FinalizeCompleted, SetOutcome,
        UpdateStatistics, CallbackReturns, CallbackThrows, RecordStatus, EraseTask,
        Reschedule, ResetPending, PushBack, NotifyLoop, LeavePool, WorkerFrame, queueVars
  <2> QED BY <1>1, <2>1, <2>2
<1>6. CASE CtlStep
  <2>1. (UNCHANGED loop \/ Notify) /\ UNCHANGED <<taskQueue, isRunning>>
    BY <1>6
    DEF CtlStep, StopStep, Start, Stop, StopWake, StopJoin, StopClosePool, StopDiscard,
        SetTaskCompletionCallback, queueVars
  <2> QED BY <1>1, <1>2, <2>1
<1>7. CASE Tick \/ UNCHANGED vars
  BY <1>1, <1>7 DEF Tick, vars, queueVars
<1> QED BY <1>3, <1>4, <1>5, <1>6, <1>7, Actors

\* The loop never pops an empty queue: whenever it gets there with the flag up, the
\* queue has a top to return.
THEOREM PopsFindTasks == Spec => []PopFindsTask
<1>1. Init => PopInv
  BY DEF Init, PopInv
<1>2. ASSUME TypeOK, PopInv PROVE PopFindsTask
  <2>1. IsFiniteSet(Tasks)
    BY SchedulerAssumption, FS_Interval DEF Tasks
  <2>2. taskQueue \in [Tasks -> Nat] /\ task \in [Tasks -> TaskRecord]
    BY <1>2 DEF TypeOK, QueueTypes, RecordTypes
  <2> QED BY <1>2, <2>1, <2>2, TopExists DEF PopInv, PopFindsTask
<1>3. TypeOK /\ PopInv => PopFindsTask
  BY <1>2
<1> QED BY <1>1, <1>3, PopStep, TypeCorrect, PTL DEF Spec
=============================================================================
