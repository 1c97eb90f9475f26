--------------------------- MODULE SchedulerProofs ---------------------------
(***************************************************************************)
(* TaskScheduler for every number of workers, clients and tasks and every  *)
(* set of configurations: its type invariant, that a task has one owner,   *)
(* and that a withdrawn task stays withdrawn.                              *)
(***************************************************************************)
EXTENDS SchedulerProperties, TLAPS

-----------------------------------------------------------------------------
(* Task records *)

\* Writing one field of a Task keeps it a Task (setStatus, reschedule).
LEMMA StatusWritten ==
  ASSUME NEW tk \in [Tasks -> TaskRecord], NEW t \in Tasks, NEW s \in Status
  PROVE  [tk EXCEPT ![t].status = s] \in [Tasks -> TaskRecord]
  BY DEF TaskRecord

\* A new start time keeps a Task a Task (reschedule).
LEMMA StartTimeWritten ==
  ASSUME NEW tk \in [Tasks -> TaskRecord], NEW t \in Tasks, NEW d \in Int
  PROVE  [tk EXCEPT ![t].startTime = d] \in [Tasks -> TaskRecord]
  BY DEF TaskRecord

\* The constructor makes a Task of a configuration.
LEMMA NewTaskIsTask == ASSUME NEW cfg \in Configs PROVE NewTask(cfg) \in TaskRecord
  BY SchedulerAssumption DEF NewTask, TaskRecord, Config, Status

\* reschedule() moves the start time to a time.
LEMMA NextStartIsTime ==
  ASSUME NEW a \in TaskRecord, NEW t \in Nat PROVE NextStart(a, t) \in Int
<1>1. a.repeatEvery \in Int
  BY DEF TaskRecord
<1>2. \A m, n \in Int : m * n \in Int
  OBVIOUS
<1> QED BY <1>1, <1>2, TicksAssumption DEF NextStart
-----------------------------------------------------------------------------
(* Who changes what *)

CtlStep ==
  \/ Start \/ Stop \/ StopStep
  \/ \E cb \in Callbacks : SetTaskCompletionCallback(cb)

ClientAction(c) ==
  \/ \E cfg \in Configs : ScheduleTask(c, cfg)
  \/ \E t \in Targets : CancelActive(c, t)
  \/ ClientStep(c)

\* The threads of the system.
LEMMA Actors ==
  ASSUME Next
  PROVE  \/ \E c \in Clients : ClientAction(c)
         \/ LoopStep \/ SpuriousWakeup
         \/ \E w \in Workers : WorkerStep(w)
         \/ CtlStep \/ Tick
  BY DEF Next, ClientAction, CtlStep

\* What a step of a client leaves alone.
LEMMA ClientFrame ==
  ASSUME NEW c \in Clients, ClientAction(c)
  PROVE  /\ UNCHANGED <<isRunning, hand, poolVars, workerVars>>
         /\ UNCHANGED <<completionCallback, ctl, now, runs>>
  BY DEF ClientAction, ClientStep, ScheduleTask, SchedulePush, ScheduleCount,
         ScheduleNotify, CancelActive, CancelQueued, CancelStats, CancelCall, CancelRecord,
         queueVars, poolVars, workerVars

\* What a step of the scheduler loop leaves alone.
LEMMA LoopFrames ==
  ASSUME LoopStep \/ SpuriousWakeup
  PROVE  /\ UNCHANGED <<isRunning, running, gone, closed, workerVars>>
         /\ UNCHANGED <<nextId, activeTasks, completedTasks, stats>>
         /\ UNCHANGED <<completionCallback, client, ctl, now, runs>>
  BY DEF LoopStep, SpuriousWakeup, LoopTop, LoopPred, LoopBlock, LoopRewake, LoopBreak,
         LoopPopDue, LoopPopEarly, LoopTimedPred, LoopTimedBlock, LoopTimeout, LoopLookup,
         LoopCheck, LoopMark, LoopDispatch, Pool!Submit, LoopFrame,
         poolVars, workerVars, recordVars, otherVars

\* What a step of a worker leaves alone.
LEMMA WorkerFrames ==
  ASSUME NEW w \in Workers, WorkerStep(w)
  PROVE  /\ UNCHANGED <<isRunning, hand, closed, nextId>>
         /\ UNCHANGED <<completionCallback, client, ctl, now>>
  BY DEF WorkerStep, BeginTask, FinishTask, FinalizeCancelled, FinalizeCompleted,
         SetOutcome, UpdateStatistics, CallbackReturns, CallbackThrows, RecordStatus,
         EraseTask, Reschedule, ResetPending, PushBack, NotifyLoop, LeavePool,
         EndJob, Pool!Begin, Pool!End, Pool!Leave, WorkerFrame,
         queueVars, poolVars, recordVars, otherVars

\* What start, stop and the registration of a callback leave alone.
LEMMA CtlFrames ==
  ASSUME CtlStep
  PROVE  UNCHANGED <<taskQueue, hand, running, gone, workerVars, recordVars, client, now,
                     runs>>
  BY DEF CtlStep, StopStep, Start, Stop, StopWake, StopJoin, StopClosePool, StopDiscard,
         SetTaskCompletionCallback, Pool!Close, Pool!Discard, CtlFrame,
         queueVars, poolVars, workerVars, recordVars

-----------------------------------------------------------------------------
(* Type correctness *)

\* Nobody holds a task in the initial state.
LEMMA TypeInit == Init => TypeOK
<1> SUFFICES ASSUME Init PROVE TypeOK
  OBVIOUS
<1> USE SchedulerAssumption DEF Init, Tasks, NoTask
<1>1. task \in [Tasks -> TaskRecord]
  BY DEF BlankTask, TaskRecord, Status
<1>2. nextId \in 1..(MaxTasks + 1) /\ activeTasks \subseteq 1..(nextId - 1)
  OBVIOUS
<1>3. /\ outcome \in [Workers -> FinalStatus] /\ stage \in [Workers -> Stages]
      /\ completedTasks \in [Tasks -> FinalStatus \cup {"none"}]
  BY DEF FinalStatus, Stages
<1>4. client \in [Clients -> [pc: ClientPC, task: Tasks \cup {NoTask}]]
  BY DEF ClientPC
<1>5. /\ pending \in Seq(Tasks) /\ running \in [Workers -> Tasks \cup {NoTask}]
      /\ gone \subseteq Workers /\ closed \in BOOLEAN
  <2>1. pending = <<>> /\ gone = {} /\ closed = FALSE /\ running = [w \in Workers |-> NoTask]
    BY DEF Pool!PoolInit
  <2>2. pending \in Seq(Tasks)
    BY <2>1
  <2> QED BY <2>1, <2>2
<1>6. loop \in LoopPC /\ hand \in Tasks \cup {NoTask} /\ (Carrying => hand # NoTask)
  BY DEF LoopPC, Carrying
<1>7. \A w \in Workers : stage[w] = "idle" <=> running[w] = NoTask
  BY DEF Pool!PoolInit
<1>8. \A c \in Clients : client[c].pc = "idle" <=> client[c].task = NoTask
  OBVIOUS
<1>9. /\ stats \in [FinalStatus \cup {"SCHEDULED"} -> Nat] /\ taskQueue \in [Tasks -> Nat]
      /\ begunAt \in [Workers -> Nat] /\ runs \in [Tasks -> Nat]
  OBVIOUS
<1> QED BY <1>1, <1>2, <1>3, <1>4, <1>5, <1>6, <1>7, <1>8, <1>9
  DEF TypeOK, RecordTypes, QueueTypes, PoolTypes, ClientTypes, OtherTypes

\* A client is idle or has a task.
LEMMA ClientTypesStep == TypeOK /\ [Next]_vars => ClientTypes'
<1> SUFFICES ASSUME TypeOK, [Next]_vars PROVE ClientTypes'
  OBVIOUS
<1>1. ASSUME NEW c \in Clients, NEW pc \in ClientPC, NEW t \in Tasks \cup {NoTask},
             GoClient(c, pc, t), pc = "idle" <=> t = NoTask
      PROVE  ClientTypes'
  BY <1>1 DEF GoClient, TypeOK, ClientTypes
<1>2. ASSUME NEW c \in Clients, ClientAction(c) PROVE ClientTypes'
  <2>1. /\ client[c].pc # "idle" => client[c].task \in Tasks
        /\ 0 \notin Tasks
    BY DEF TypeOK, ClientTypes, Tasks
  <2>2. ASSUME NEW cfg \in Configs, ScheduleTask(c, cfg) PROVE ClientTypes'
    <3>1. nextId \in Tasks
      BY <2>2, SchedulerAssumption DEF ScheduleTask, TypeOK, RecordTypes, Tasks
    <3> QED BY <1>1, <2>1, <2>2, <3>1 DEF ScheduleTask, ClientPC, NoTask
  <2>3. ASSUME NEW t \in Targets, CancelActive(c, t) PROVE ClientTypes'
    <3>1. t \in Tasks
      BY SchedulerAssumption DEF Tasks
    <3> QED BY <1>1, <2>1, <2>3, <3>1 DEF CancelActive, ClientPC, NoTask
  <2>4. CASE ClientStep(c)
    BY <1>1, <2>1, <2>4
    DEF ClientStep, SchedulePush, ScheduleCount, ScheduleNotify, CancelQueued, CancelStats,
        CancelCall, CancelRecord, ClientPC, NoTask
  <2> QED BY <1>2, <2>2, <2>3, <2>4 DEF ClientAction
<1>3. CASE UNCHANGED client
  BY <1>3 DEF TypeOK, ClientTypes
<1> QED
  BY <1>2, <1>3, Actors, LoopFrames, WorkerFrames, CtlFrames DEF vars, otherVars, Tick

\* Callback, clock and history.
LEMMA OtherTypesStep == TypeOK /\ [Next]_vars => OtherTypes'
<1> SUFFICES ASSUME TypeOK, [Next]_vars PROVE OtherTypes'
  OBVIOUS
<1> USE DEF TypeOK, OtherTypes
<1>1. ASSUME NEW w \in Workers, WorkerStep(w) PROVE OtherTypes'
  <2>1. CASE BeginTask(w)
    <3>1. Head(pending) \in Tasks
      BY <2>1 DEF BeginTask, Pool!Begin, PoolTypes
    <3> QED BY <2>1, <3>1 DEF BeginTask
  <2>2. CASE UNCHANGED runs
    BY <1>1, <2>2, WorkerFrames
  <2> QED
    BY <1>1, <2>1, <2>2
    DEF WorkerStep, FinishTask, FinalizeCancelled, FinalizeCompleted,
        SetOutcome, UpdateStatistics, CallbackReturns, CallbackThrows, RecordStatus,
        EraseTask, Reschedule, ResetPending, PushBack, NotifyLoop, LeavePool,
        WorkerFrame, otherVars
<1>2. CASE CtlStep
  BY <1>2, CtlFrames
  DEF CtlStep, Start, Stop, StopStep, StopWake, StopJoin, StopClosePool, StopDiscard,
      SetTaskCompletionCallback, GoCtl, CtlFrame
<1>3. CASE Tick
  BY <1>3 DEF Tick
<1>4. CASE UNCHANGED <<completionCallback, ctl, now, runs>>
  BY <1>4
<1> HIDE DEF TypeOK, OtherTypes
<1> QED BY <1>1, <1>2, <1>3, <1>4, Actors, ClientFrame, LoopFrames DEF vars, otherVars

\* A notification moves the loop from a wait to a wakeup and nothing else.
LEMMA NotifyMoves ==
  ASSUME QueueTypes, Notify
  PROVE  loop' \in LoopPC /\ (loop' \in {"lookup", "check", "mark", "dispatch"} <=> Carrying)
  BY DEF QueueTypes, Notify, LoopPC, Carrying

\* The priority queue, and the loop with a task in its hands where it needs one.
LEMMA QueueTypesStep == TypeOK /\ [Next]_vars => QueueTypes'
<1> SUFFICES ASSUME TypeOK, [Next]_vars PROVE QueueTypes'
  OBVIOUS
<1>0. QueueTypes /\ 0 \notin Tasks
  BY DEF TypeOK, Tasks
<1>1. ASSUME NEW t \in Tasks, taskQueue' = Push(taskQueue, t),
             UNCHANGED <<isRunning, loop, hand>>
      PROVE  QueueTypes'
  BY <1>0, <1>1 DEF Push, QueueTypes, Carrying
<1>2. ASSUME Notify, UNCHANGED <<taskQueue, hand>>, isRunning' \in BOOLEAN PROVE QueueTypes'
  BY <1>0, <1>2, NotifyMoves DEF QueueTypes, Carrying
<1>3. CASE UNCHANGED queueVars
  BY <1>0, <1>3 DEF QueueTypes, Carrying, queueVars
<1>4. ASSUME NEW c \in Clients, ClientAction(c) PROVE QueueTypes'
  <2>1. CASE SchedulePush(c)
    <3>1. client[c].task \in Tasks
      BY <1>0, <2>1 DEF SchedulePush, TypeOK, ClientTypes, NoTask
    <3> QED BY <1>1, <2>1, <3>1 DEF SchedulePush
  <2>2. CASE ScheduleNotify(c)
    BY <1>0, <1>2, <2>2 DEF ScheduleNotify, QueueTypes
  <2>3. CASE CancelQueued(c)
    BY <1>0, <2>3 DEF CancelQueued, RemoveAll, QueueTypes, Carrying
  <2> QED
    BY <1>3, <1>4, <2>1, <2>2, <2>3
    DEF ClientAction, ClientStep, ScheduleTask, ScheduleCount, CancelActive, CancelStats,
        CancelCall, CancelRecord
<1>5. CASE LoopStep \/ SpuriousWakeup
  <2> USE <1>0 DEF QueueTypes, LoopPC, Carrying, GoLoop, NoTask
  <2>1. CASE LoopTop \/ LoopPred \/ LoopBlock \/ LoopRewake \/ SpuriousWakeup \/ LoopBreak
    BY <2>1 DEF LoopTop, LoopPred, LoopBlock, LoopRewake, SpuriousWakeup, LoopBreak
  <2>2. CASE LoopPopDue
    <3>1. PICK t \in Tasks : /\ taskQueue[t] > 0 /\ hand' = t
                             /\ taskQueue' = [taskQueue EXCEPT ![t] = @ - 1]
      BY <2>2 DEF LoopPopDue, Tops, PopTop
    <3> QED BY <2>2, <3>1 DEF LoopPopDue
  <2>3. CASE LoopPopEarly
    <3>1. PICK t \in Tasks : /\ taskQueue[t] > 0 /\ hand' = t
                             /\ taskQueue' = Push(PopTop(taskQueue, t), t)
      BY <2>3 DEF LoopPopEarly, Tops
    <3>2. taskQueue' \in [Tasks -> Nat]
      BY <3>1 DEF Push, PopTop
    <3> QED BY <2>3, <3>1, <3>2 DEF LoopPopEarly
  <2>4. CASE LoopTimedPred \/ LoopTimedBlock \/ LoopTimeout
    BY <2>4 DEF LoopTimedPred, LoopTimedBlock, LoopTimeout
  <2>5. CASE LoopLookup \/ LoopCheck \/ LoopMark \/ LoopDispatch
    BY <2>5 DEF LoopLookup, LoopCheck, LoopMark, LoopDispatch
  <2> QED BY <1>5, <2>1, <2>2, <2>3, <2>4, <2>5 DEF LoopStep
<1>6. ASSUME NEW w \in Workers, WorkerStep(w) PROVE QueueTypes'
  <2>1. CASE PushBack(w)
    <3>1. running[w] \in Tasks
      BY <1>0, <2>1 DEF PushBack, GoStage, TypeOK, PoolTypes, NoTask
    <3> QED BY <1>1, <2>1, <3>1 DEF PushBack
  <2>2. CASE NotifyLoop(w)
    BY <1>0, <1>2, <2>2 DEF NotifyLoop, QueueTypes
  <2> QED
    BY <1>3, <1>6, <2>1, <2>2
    DEF WorkerStep, BeginTask, FinishTask, FinalizeCancelled, FinalizeCompleted,
        SetOutcome, UpdateStatistics, CallbackReturns, CallbackThrows, RecordStatus,
        EraseTask, Reschedule, ResetPending, LeavePool, WorkerFrame
<1>7. CASE CtlStep
  <2>1. CASE Start \/ Stop \/ StopJoin
    BY <1>0, <2>1 DEF Start, Stop, StopJoin, QueueTypes, LoopPC, Carrying
  <2>2. CASE StopWake
    BY <1>0, <1>2, <2>2 DEF StopWake, QueueTypes
  <2> QED
    BY <1>3, <1>7, <2>1, <2>2
    DEF CtlStep, StopStep, StopClosePool, StopDiscard, SetTaskCompletionCallback
<1> QED BY <1>3, <1>4, <1>5, <1>6, <1>7, Actors DEF vars, Tick

\* The pool, and a worker with a task exactly while it executes a job.
LEMMA PoolTypesStep == TypeOK /\ [Next]_vars => PoolTypes'
<1> SUFFICES ASSUME TypeOK, [Next]_vars PROVE PoolTypes'
  OBVIOUS
<1>0. PoolTypes /\ 0 \notin Tasks
  BY DEF TypeOK, Tasks
<1>1. CASE UNCHANGED <<poolVars, workerVars>>
  BY <1>0, <1>1 DEF PoolTypes, poolVars, workerVars
<1>2. CASE LoopDispatch
  <2>1. hand \in Tasks
    BY <1>2 DEF LoopDispatch, GoLoop, TypeOK, QueueTypes, Carrying
  <2> QED BY <1>0, <1>2, <2>1 DEF LoopDispatch, Pool!Submit, PoolTypes, workerVars
<1>3. ASSUME NEW w \in Workers, WorkerStep(w) PROVE PoolTypes'
  <2> USE <1>0
  <2>1. ASSUME NEW a \in Stages, NEW b \in Stages \ {"idle"}, a # "idle", GoStage(w, a, b),
               outcome' \in [Workers -> FinalStatus], UNCHANGED <<poolVars, begunAt>>
        PROVE  PoolTypes'
    BY <2>1 DEF PoolTypes, GoStage, poolVars
  <2>2. ASSUME NEW a \in Stages, EndJob(w, a) PROVE PoolTypes'
    <3>1. /\ stage' = [stage EXCEPT ![w] = "idle"] /\ running' = [running EXCEPT ![w] = NoTask]
          /\ outcome' = [outcome EXCEPT ![w] = "COMPLETED"]
          /\ begunAt' = [begunAt EXCEPT ![w] = 0]
          /\ UNCHANGED <<pending, gone, closed>>
      BY <2>2 DEF EndJob, GoStage, Pool!End
    <3>2. stage' \in [Workers -> Stages] /\ outcome' \in [Workers -> FinalStatus]
      BY <3>1 DEF PoolTypes, Stages, FinalStatus
    <3> QED BY <3>1, <3>2 DEF PoolTypes
  <2>3. CASE BeginTask(w)
    <3>1. Head(pending) \in Tasks /\ Tail(pending) \in Seq(Tasks)
      BY <2>3 DEF BeginTask, Pool!Begin, PoolTypes
    <3>2. now \in Nat
      BY DEF TypeOK, OtherTypes
    <3> QED BY <2>3, <3>1, <3>2 DEF BeginTask, Pool!Begin, GoStage, PoolTypes, Stages, NoTask
  <2>4. CASE FinishTask(w)
    <3>1. outcome' \in [Workers -> FinalStatus]
      BY <2>4 DEF FinishTask, PoolTypes, FinalStatus
    <3>2. GoStage(w, "exec", "status") \/ GoStage(w, "exec", "finalize")
      BY <2>4 DEF FinishTask
    <3> QED BY <2>1, <2>4, <3>1, <3>2 DEF FinishTask, Stages
  <2>5. CASE \/ FinalizeCompleted(w) \/ SetOutcome(w) \/ UpdateStatistics(w)
             \/ CallbackReturns(w) \/ RecordStatus(w) \/ Reschedule(w) \/ ResetPending(w)
    BY <2>1, <2>5
    DEF FinalizeCompleted, SetOutcome, UpdateStatistics, CallbackReturns, RecordStatus,
        Reschedule, ResetPending, WorkerFrame, PoolTypes, Stages
  <2>6. CASE PushBack(w)
    BY <2>1, <2>6 DEF PushBack, PoolTypes, Stages
  <2>7. CASE FinalizeCancelled(w) \/ EraseTask(w) \/ NotifyLoop(w)
    BY <2>2, <2>7 DEF FinalizeCancelled, EraseTask, NotifyLoop, Stages
  <2>8. CASE CallbackThrows(w)
    <3>1. CASE EndJob(w, "call")
      BY <2>2, <3>1 DEF Stages
    <3>2. CASE /\ GoStage(w, "call", "status") /\ UNCHANGED <<begunAt, poolVars>>
               /\ outcome' = [outcome EXCEPT ![w] = "FAILED"]
      <4>1. outcome' \in [Workers -> FinalStatus]
        BY <3>2 DEF PoolTypes, FinalStatus
      <4> QED BY <2>1, <3>2, <4>1 DEF Stages
    <3> QED BY <2>8, <3>1, <3>2 DEF CallbackThrows
  <2>9. CASE LeavePool(w)
    BY <2>9 DEF LeavePool, Pool!Leave, PoolTypes, workerVars
  <2> QED BY <1>3, <2>3, <2>4, <2>5, <2>6, <2>7, <2>8, <2>9 DEF WorkerStep
<1>4. CASE CtlStep
  <2>1. CASE StopClosePool \/ StopDiscard
    <3>1. pending' \in Seq(Tasks) /\ closed' \in BOOLEAN
      <4>1. \/ pending' = pending /\ closed' = TRUE
            \/ pending' = <<>> /\ closed' = closed
        BY <2>1 DEF StopClosePool, StopDiscard, Pool!Close, Pool!Discard
      <4>2. <<>> \in Seq(Tasks) /\ pending \in Seq(Tasks) /\ closed \in BOOLEAN
        BY <1>0 DEF PoolTypes
      <4> QED BY <4>1, <4>2
    <3> QED BY <1>0, <1>4, <3>1, CtlFrames DEF PoolTypes, workerVars
  <2> QED
    BY <1>1, <1>4, <2>1, CtlFrames
    DEF CtlStep, StopStep, Start, Stop, StopWake, StopJoin, SetTaskCompletionCallback, CtlFrame
<1>5. CASE LoopStep \/ SpuriousWakeup
  BY <1>1, <1>2, <1>5
  DEF LoopStep, SpuriousWakeup, LoopTop, LoopPred, LoopBlock, LoopRewake, LoopBreak,
      LoopPopDue, LoopPopEarly, LoopTimedPred, LoopTimedBlock, LoopTimeout, LoopLookup,
      LoopCheck, LoopMark, LoopFrame
<1> QED BY <1>1, <1>3, <1>4, <1>5, Actors, ClientFrame DEF vars, Tick

\* The registry, the task objects and the counters.
LEMMA RecordTypesStep == TypeOK /\ [Next]_vars => RecordTypes'
<1> SUFFICES ASSUME TypeOK, [Next]_vars PROVE RecordTypes'
  OBVIOUS
<1>0. RecordTypes /\ 0 \notin Tasks /\ Tasks = 1..MaxTasks /\ MaxTasks \in Nat
  BY SchedulerAssumption DEF TypeOK, Tasks
<1>1. CASE UNCHANGED recordVars
  BY <1>0, <1>1 DEF RecordTypes, recordVars
<1>2. ASSUME NEW t \in Tasks, NEW st \in Status, SetStatus(t, st),
             activeTasks' \subseteq activeTasks, UNCHANGED <<nextId, completedTasks, stats>>
      PROVE  RecordTypes'
  <2>1. task' \in [Tasks -> TaskRecord]
    BY <1>0, <1>2, StatusWritten DEF SetStatus, RecordTypes
  <2> QED BY <1>0, <1>2, <2>1 DEF RecordTypes
<1>3. ASSUME NEW st \in FinalStatus \cup {"SCHEDULED"}, Count(st),
             UNCHANGED <<nextId, task, activeTasks, completedTasks>>
      PROVE  RecordTypes'
  BY <1>0, <1>3 DEF Count, RecordTypes
<1>4. ASSUME NEW t \in Tasks, NEW st \in FinalStatus,
             completedTasks' = [completedTasks EXCEPT ![t] = st],
             UNCHANGED <<nextId, task, activeTasks, stats>>
      PROVE  RecordTypes'
  BY <1>0, <1>4 DEF RecordTypes
<1>5. ASSUME NEW c \in Clients, ClientAction(c) PROVE RecordTypes'
  <2>0. client[c].pc # "idle" => client[c].task \in Tasks
    BY <1>0 DEF TypeOK, ClientTypes, NoTask
  <2>1. ASSUME NEW cfg \in Configs, ScheduleTask(c, cfg) PROVE RecordTypes'
    <3>1. nextId \in Tasks /\ nextId' = nextId + 1 /\ UNCHANGED <<completedTasks, stats>>
      BY <1>0, <2>1 DEF ScheduleTask, RecordTypes
    <3>2. task' \in [Tasks -> TaskRecord]
      BY <1>0, <2>1, <3>1, NewTaskIsTask DEF ScheduleTask, RecordTypes
    <3>3. activeTasks' \subseteq 1..(nextId' - 1)
      BY <1>0, <2>1, <3>1 DEF ScheduleTask, RecordTypes
    <3>4. nextId' \in 1..(MaxTasks + 1)
      BY <1>0, <3>1
    <3> QED BY <1>0, <3>1, <3>2, <3>3, <3>4 DEF RecordTypes
  <2>2. ASSUME NEW t \in Targets, CancelActive(c, t) PROVE RecordTypes'
    <3>1. t \in Tasks
      BY <1>0, SchedulerAssumption
    <3>2. CASE t \in activeTasks
      BY <1>2, <2>2, <3>1, <3>2 DEF CancelActive, Status, FinalStatus
    <3>3. CASE t \notin activeTasks
      BY <1>1, <2>2, <3>3 DEF CancelActive, recordVars
    <3> QED BY <3>2, <3>3
  <2>3. CASE CancelQueued(c)
    <3>1. CASE SetStatus(client[c].task, "CANCELLED")
      BY <1>2, <2>0, <2>3, <3>1 DEF CancelQueued, Status, FinalStatus
    <3>2. CASE UNCHANGED task
      BY <1>1, <2>3, <3>2 DEF CancelQueued, recordVars
    <3> QED BY <2>3, <3>1, <3>2 DEF CancelQueued
  <2>4. CASE ScheduleCount(c) \/ CancelStats(c)
    BY <1>3, <2>4 DEF ScheduleCount, CancelStats, FinalStatus
  <2>5. CASE CancelRecord(c)
    BY <1>4, <2>0, <2>5 DEF CancelRecord, FinalStatus
  <2> QED
    BY <1>1, <1>5, <2>1, <2>2, <2>3, <2>4, <2>5
    DEF ClientAction, ClientStep, SchedulePush, ScheduleNotify, CancelCall
<1>6. CASE LoopStep \/ SpuriousWakeup
  <2>1. CASE LoopMark
    <3>1. hand \in Tasks
      BY <2>1 DEF LoopMark, GoLoop, TypeOK, QueueTypes, Carrying
    <3> QED BY <1>2, <2>1, <3>1 DEF LoopMark, Status
  <2> QED
    BY <1>1, <1>6, <2>1
    DEF LoopStep, SpuriousWakeup, LoopTop, LoopPred, LoopBlock, LoopRewake, LoopBreak,
        LoopPopDue, LoopPopEarly, LoopTimedPred, LoopTimedBlock, LoopTimeout, LoopLookup,
        LoopCheck, LoopDispatch, LoopFrame
<1>7. ASSUME NEW w \in Workers, WorkerStep(w) PROVE RecordTypes'
  <2>0. outcome[w] \in FinalStatus /\ (stage[w] # "idle" => running[w] \in Tasks)
    BY <1>0 DEF TypeOK, PoolTypes, NoTask
  <2>1. CASE SetOutcome(w)
    BY <1>2, <2>0, <2>1 DEF SetOutcome, GoStage, Status
  <2>2. CASE ResetPending(w)
    BY <1>2, <2>0, <2>2 DEF ResetPending, GoStage, Status
  <2>3. CASE UpdateStatistics(w)
    BY <1>3, <2>0, <2>3 DEF UpdateStatistics
  <2>4. CASE RecordStatus(w)
    BY <1>4, <2>0, <2>4 DEF RecordStatus, GoStage
  <2>5. CASE EraseTask(w)
    BY <1>0, <2>5 DEF EraseTask, RecordTypes
  <2>6. CASE Reschedule(w)
    <3>1. running[w] \in Tasks /\ now \in Nat /\ task \in [Tasks -> TaskRecord]
      BY <1>0, <2>0, <2>6 DEF Reschedule, GoStage, TypeOK, OtherTypes, RecordTypes
    <3>2. task' \in [Tasks -> TaskRecord]
      BY <2>6, <3>1, NextStartIsTime, StartTimeWritten DEF Reschedule
    <3> QED BY <1>0, <2>6, <3>2 DEF Reschedule, RecordTypes
  <2> QED
    BY <1>1, <1>7, <2>1, <2>2, <2>3, <2>4, <2>5, <2>6
    DEF WorkerStep, BeginTask, FinishTask, FinalizeCancelled, FinalizeCompleted,
        CallbackReturns, CallbackThrows, PushBack, NotifyLoop, LeavePool
<1> QED BY <1>1, <1>5, <1>6, <1>7, Actors, CtlFrames DEF vars, Tick

\* The type invariant holds in every reachable state of the scheduler, for every
\* number of workers, clients and tasks.
THEOREM TypeCorrect == Spec => []TypeOK
<1>1. TypeOK /\ [Next]_vars => TypeOK'
  BY RecordTypesStep, QueueTypesStep, PoolTypesStep, ClientTypesStep, OtherTypesStep
  DEF TypeOK
<1> QED BY <1>1, TypeInit, PTL DEF Spec

-----------------------------------------------------------------------------
(* Withdrawn tasks *)

\* A notification never changes where a loop that carries a task is.
LEMMA NotifyKeepsHand ==
  ASSUME NEW t, Notify, UNCHANGED hand
  PROVE  /\ InHand(t)' <=> InHand(t)
         /\ InHand(t) => loop' = loop
  BY DEF Notify, InHand, Carrying

\* Clients add no task to the registry but a new one, and hand nothing to the loop
\* or the pool.
LEMMA WithdrawnClient ==
  ASSUME TypeOK, NEW t \in Tasks, Withdrawn(t), NEW c \in Clients, ClientAction(c)
  PROVE  Withdrawn(t)'
<1>1. t < nextId' /\ t \notin activeTasks'
  BY SchedulerAssumption
  DEF TypeOK, RecordTypes, Tasks, Withdrawn, ClientAction, ClientStep, ScheduleTask,
      SchedulePush, ScheduleCount, ScheduleNotify, CancelActive, CancelQueued, CancelStats,
      CancelCall, CancelRecord, recordVars
<1>2. ~InPool(t)' /\ ~AtWorker(t)'
  BY ClientFrame DEF Withdrawn, InPool, AtWorker, Executing, poolVars, workerVars
<1>3. UNCHANGED loop \/ Notify
  BY DEF ClientAction, ClientStep, ScheduleTask, SchedulePush, ScheduleCount,
         ScheduleNotify, CancelActive, CancelQueued, CancelStats, CancelCall, CancelRecord,
         queueVars
<1>4. ~(InHand(t)' /\ loop' # "lookup")
  BY <1>3, ClientFrame, NotifyKeepsHand DEF Withdrawn, InHand, Carrying
<1> QED BY <1>1, <1>2, <1>4 DEF Withdrawn

\* The loop lets no task past the lookup that is not registered.
LEMMA WithdrawnLoop ==
  ASSUME TypeOK, NEW t \in Tasks, Withdrawn(t), LoopStep \/ SpuriousWakeup
  PROVE  Withdrawn(t)'
<1>1. t < nextId' /\ t \notin activeTasks' /\ ~AtWorker(t)'
  BY LoopFrames DEF Withdrawn, AtWorker, Executing, workerVars
<1>2. ~(InHand(t)' /\ loop' # "lookup")
  BY DEF LoopStep, SpuriousWakeup, LoopTop, LoopPred, LoopBlock, LoopRewake, LoopBreak,
         LoopPopDue, LoopPopEarly, LoopTimedPred, LoopTimedBlock, LoopTimeout, LoopLookup,
         LoopCheck, LoopMark, LoopDispatch, GoLoop, Withdrawn, InHand, Carrying
<1>3. ~InPool(t)'
  <2>1. CASE LoopDispatch
    <3>1. hand # t /\ pending \in Seq(Tasks) /\ hand \in Tasks
      BY <2>1 DEF LoopDispatch, GoLoop, Withdrawn, InHand, Carrying, TypeOK, PoolTypes,
                  QueueTypes
    <3> QED BY <2>1, <3>1 DEF LoopDispatch, Pool!Submit, InPool, Withdrawn
  <2>2. CASE UNCHANGED pending
    BY <2>2 DEF Withdrawn, InPool
  <2> QED
    BY <2>1, <2>2
    DEF LoopStep, SpuriousWakeup, LoopTop, LoopPred, LoopBlock, LoopRewake, LoopBreak,
        LoopPopDue, LoopPopEarly, LoopTimedPred, LoopTimedBlock, LoopTimeout, LoopLookup,
        LoopCheck, LoopMark, LoopFrame, poolVars
<1> QED BY <1>1, <1>2, <1>3 DEF Withdrawn

\* A worker takes tasks from the pool only, and gives them to the queue at most.
LEMMA WithdrawnWorker ==
  ASSUME TypeOK, NEW t \in Tasks, Withdrawn(t), NEW w \in Workers, WorkerStep(w)
  PROVE  Withdrawn(t)'
<1>0. t # NoTask /\ PoolTypes
  BY DEF TypeOK, Tasks, NoTask
<1>1. t < nextId' /\ t \notin activeTasks'
  BY WorkerFrames
  DEF Withdrawn, WorkerStep, BeginTask, FinishTask, FinalizeCancelled, FinalizeCompleted,
      SetOutcome, UpdateStatistics, CallbackReturns, CallbackThrows, RecordStatus,
      EraseTask, Reschedule, ResetPending, PushBack, NotifyLoop, LeavePool, recordVars
<1>2. UNCHANGED loop \/ Notify
  BY DEF WorkerStep, BeginTask, FinishTask, FinalizeCancelled, FinalizeCompleted,
         SetOutcome, UpdateStatistics, CallbackReturns, CallbackThrows, RecordStatus,
         EraseTask, Reschedule, ResetPending, PushBack, NotifyLoop, LeavePool,
         WorkerFrame, queueVars
<1>3. ~(InHand(t)' /\ loop' # "lookup")
  BY <1>2, WorkerFrames, NotifyKeepsHand DEF Withdrawn, InHand, Carrying
<1>4. ~InPool(t)' /\ ~AtWorker(t)'
  <2> USE <1>0
  <2>1. CASE BeginTask(w)
    <3>1. pending # <<>> /\ Head(pending) = pending[1] /\ 1 \in DOMAIN pending
      BY <2>1 DEF BeginTask, Pool!Begin, PoolTypes
    <3>2. Head(pending) # t
      BY <3>1 DEF Withdrawn, InPool
    <3>3. \A i \in DOMAIN Tail(pending) : \E j \in DOMAIN pending : Tail(pending)[i] = pending[j]
      <4> TAKE i \in DOMAIN Tail(pending)
      <4>1. i + 1 \in DOMAIN pending /\ Tail(pending)[i] = pending[i + 1]
        BY <3>1 DEF PoolTypes
      <4> QED BY <4>1
    <3>4. ~InPool(t)'
      BY <2>1, <3>3 DEF BeginTask, Pool!Begin, Withdrawn, InPool
    <3>5. ~AtWorker(t)'
      BY <2>1, <3>2 DEF BeginTask, Pool!Begin, GoStage, PoolTypes, Withdrawn, AtWorker,
                        Executing
    <3> QED BY <3>4, <3>5
  <2>2. ASSUME NEW a, NEW b, a # "notify", GoStage(w, a, b), UNCHANGED poolVars
        PROVE  ~InPool(t)' /\ ~AtWorker(t)'
    BY <2>2 DEF GoStage, PoolTypes, Withdrawn, AtWorker, Executing, InPool, poolVars
  <2>3. ASSUME NEW a, EndJob(w, a) PROVE ~InPool(t)' /\ ~AtWorker(t)'
    BY <2>3
    DEF EndJob, GoStage, Pool!End, PoolTypes, Withdrawn, AtWorker, Executing, InPool
  <2>4. CASE FinishTask(w) \/ PushBack(w)
    BY <2>2, <2>4 DEF FinishTask, PushBack
  <2>5. CASE \/ FinalizeCompleted(w) \/ SetOutcome(w) \/ UpdateStatistics(w)
             \/ CallbackReturns(w) \/ RecordStatus(w) \/ Reschedule(w) \/ ResetPending(w)
    BY <2>2, <2>5
    DEF FinalizeCompleted, SetOutcome, UpdateStatistics, CallbackReturns, RecordStatus,
        Reschedule, ResetPending, WorkerFrame
  <2>6. CASE FinalizeCancelled(w) \/ EraseTask(w) \/ NotifyLoop(w)
    BY <2>3, <2>6 DEF FinalizeCancelled, EraseTask, NotifyLoop
  <2>7. CASE CallbackThrows(w)
    BY <2>2, <2>3, <2>7 DEF CallbackThrows
  <2>8. CASE LeavePool(w)
    BY <2>8 DEF LeavePool, Pool!Leave, Withdrawn, AtWorker, Executing, InPool, workerVars
  <2> QED BY <2>1, <2>4, <2>5, <2>6, <2>7, <2>8 DEF WorkerStep
<1> QED BY <1>1, <1>3, <1>4 DEF Withdrawn

\* stop() only takes tasks out of the pool.
LEMMA WithdrawnCtl ==
  ASSUME TypeOK, NEW t \in Tasks, Withdrawn(t), CtlStep
  PROVE  Withdrawn(t)'
<1>1. t < nextId' /\ t \notin activeTasks' /\ ~AtWorker(t)'
  BY CtlFrames DEF Withdrawn, AtWorker, Executing, workerVars, recordVars
<1>2. pending' = pending \/ pending' = <<>>
  BY DEF CtlStep, StopStep, Start, Stop, StopWake, StopJoin, StopClosePool, StopDiscard,
         SetTaskCompletionCallback, Pool!Close, Pool!Discard, poolVars
<1>3. loop' \in {loop, "top", "off"} \/ Notify
  BY DEF CtlStep, StopStep, Start, Stop, StopWake, StopJoin, StopClosePool, StopDiscard,
         SetTaskCompletionCallback, queueVars
<1>4. ~(InHand(t)' /\ loop' # "lookup")
  BY <1>3, CtlFrames, NotifyKeepsHand DEF Withdrawn, InHand, Carrying
<1> QED BY <1>1, <1>2, <1>4 DEF Withdrawn, InPool

\* A task cancelled before it was dispatched, or finished, is never dispatched or
\* executed again.
THEOREM WithdrawnForEver == Spec => WithdrawnIsFinal
<1>1. ASSUME TypeOK, [Next]_vars, NEW t \in Tasks, Withdrawn(t) PROVE Withdrawn(t)'
  <2>1. CASE UNCHANGED vars \/ Tick
    BY <1>1, <2>1
    DEF Withdrawn, InHand, Carrying, InPool, AtWorker, Executing, Tick, vars, queueVars,
        poolVars, workerVars, recordVars
  <2> QED
    BY <1>1, <2>1, Actors, WithdrawnClient, WithdrawnLoop, WithdrawnWorker, WithdrawnCtl
<1>2. TypeOK /\ [Next]_vars => [\A t \in Tasks : Withdrawn(t) => Withdrawn(t)']_vars
  BY <1>1
<1> QED BY <1>2, TypeCorrect, PTL DEF Spec, WithdrawnIsFinal

-----------------------------------------------------------------------------
(* Ownership *)

\* Nobody holds a task that was not created, so a new one has no owner.
Fresh == \A t \in Tasks : Held(t) => t < nextId

OwnerInv == TypeOK /\ Fresh /\ SingleOwner

\* A step that only gives t up keeps it with at most one owner.
LEMMA GivesUp ==
  ASSUME TypeOK, TypeOK', NEW t \in Tasks, OneOwner(t), Held(t) => t < nextId,
         nextId <= nextId',
         taskQueue'[t] <= taskQueue[t], InHand(t)' => InHand(t),
         pending' = pending \/ pending' = <<>>,
         \A w \in Workers : Executing(w, t)' => Executing(w, t),
         \A c \in Clients : Pushing(c, t)' => Pushing(c, t)
  PROVE  OneOwner(t)' /\ (Held(t)' => t < nextId')
<1>1. taskQueue[t] \in Nat /\ taskQueue'[t] \in Nat /\ nextId \in Nat /\ nextId' \in Nat
      /\ t \in Nat
  BY SchedulerAssumption DEF TypeOK, QueueTypes, RecordTypes, Tasks
<1>2. /\ InQueue(t)' => InQueue(t)
      /\ InPool(t)' => InPool(t)
      /\ AtWorker(t)' => AtWorker(t)
      /\ AtClient(t)' => AtClient(t)
  BY <1>1 DEF InQueue, InPool, AtWorker, AtClient
<1>3. \A i, j \in DOMAIN pending' : pending'[i] = t /\ pending'[j] = t => i = j
  BY DEF OneOwner
<1>4. taskQueue'[t] <= 1
  BY <1>1 DEF OneOwner
<1>5. Held(t)' => t < nextId'
  BY <1>1, <1>2 DEF Held
<1> QED BY <1>2, <1>3, <1>4, <1>5 DEF OneOwner

\* A client makes a task nobody holds, or moves the one it made to the queue.
LEMMA OwnerClient ==
  ASSUME TypeOK, TypeOK', NEW t \in Tasks, OneOwner(t), Held(t) => t < nextId,
         NEW c \in Clients, ClientAction(c)
  PROVE  OneOwner(t)' /\ (Held(t)' => t < nextId')
<1>0. /\ taskQueue \in [Tasks -> Nat] /\ nextId \in Nat /\ t \in Nat
      /\ client \in [Clients -> [pc: ClientPC, task: Tasks \cup {NoTask}]]
  BY SchedulerAssumption DEF TypeOK, QueueTypes, RecordTypes, ClientTypes, Tasks
<1>1. /\ UNCHANGED <<hand, pending>>
      /\ \A w \in Workers : Executing(w, t)' <=> Executing(w, t)
  BY ClientFrame DEF Executing, poolVars, workerVars
<1>2. UNCHANGED loop \/ Notify
  BY DEF ClientAction, ClientStep, ScheduleTask, SchedulePush, ScheduleCount,
         ScheduleNotify, CancelActive, CancelQueued, CancelStats, CancelCall, CancelRecord,
         queueVars
<1>3. /\ InHand(t)' <=> InHand(t)
      /\ InPool(t)' <=> InPool(t)
      /\ AtWorker(t)' <=> AtWorker(t)
  BY <1>1, <1>2, NotifyKeepsHand DEF InHand, Carrying, InPool, AtWorker
<1>4. ASSUME NEW cfg \in Configs, ScheduleTask(c, cfg)
      PROVE  OneOwner(t)' /\ (Held(t)' => t < nextId')
  <2>1. /\ client' = [client EXCEPT ![c] = [pc |-> "push", task |-> nextId]]
        /\ client[c].pc = "idle" /\ nextId' = nextId + 1 /\ taskQueue' = taskQueue
    BY <1>4 DEF ScheduleTask, GoClient, queueVars
  <2>2. CASE t = nextId
    <3>1. ~Held(t)
      BY <1>0, <2>2
    <3>2. \A d \in Clients : Pushing(d, t)' => d = c
      BY <1>0, <2>1, <3>1 DEF Pushing, Held, AtClient
    <3>3. ~InQueue(t)' /\ ~InHand(t)' /\ ~InPool(t)' /\ ~AtWorker(t)' /\ taskQueue'[t] <= 1
      BY <1>0, <1>3, <2>1, <3>1 DEF Held, InQueue
    <3>4. t < nextId'
      BY <1>0, <2>1, <2>2
    <3> QED BY <1>1, <3>2, <3>3, <3>4 DEF OneOwner, AtWorker, InPool
  <2>3. CASE t # nextId
    <3>1. \A d \in Clients : Pushing(d, t)' => Pushing(d, t)
      BY <1>0, <2>1, <2>3 DEF Pushing
    <3>2. taskQueue'[t] <= taskQueue[t] /\ nextId <= nextId'
      BY <1>0, <2>1
    <3> QED BY <1>1, <1>3, <3>1, <3>2, GivesUp
  <2> QED BY <2>2, <2>3
<1>5. CASE SchedulePush(c)
  <2>1. /\ client' = [client EXCEPT ![c] = [pc |-> "count", task |-> client[c].task]]
        /\ client[c].pc = "push" /\ nextId' = nextId
        /\ taskQueue' = Push(taskQueue, client[c].task)
    BY <1>5 DEF SchedulePush, GoClient, recordVars
  <2>2. \A d \in Clients : Pushing(d, t)' => Pushing(d, t) /\ d # c
    BY <1>0, <2>1 DEF Pushing
  <2>3. CASE t = client[c].task
    <3>1. Pushing(c, t) /\ AtClient(t)
      BY <2>1, <2>3 DEF Pushing, AtClient
    <3>2. taskQueue[t] = 0 /\ ~InHand(t) /\ ~InPool(t) /\ ~AtWorker(t)
      BY <1>0, <3>1 DEF OneOwner, InQueue
    <3>3. ~AtClient(t)'
      BY <2>2, <3>1 DEF OneOwner, AtClient
    <3>4. taskQueue'[t] = 1
      BY <1>0, <2>1, <2>3, <3>2 DEF Push
    <3>5. t < nextId'
      BY <2>1, <3>1 DEF Held
    <3> QED BY <1>1, <1>3, <3>2, <3>3, <3>4, <3>5
            DEF OneOwner, InQueue, AtClient, AtWorker, InPool
  <2>4. CASE t # client[c].task
    <3>1. taskQueue'[t] <= taskQueue[t] /\ nextId <= nextId'
      BY <1>0, <2>1, <2>4 DEF Push
    <3> QED BY <1>1, <1>3, <2>2, <3>1, GivesUp
  <2> QED BY <2>3, <2>4
<1>6. CASE CancelQueued(c)
  <2>1. taskQueue'[t] <= taskQueue[t] /\ nextId <= nextId'
    BY <1>0, <1>6 DEF CancelQueued, RemoveAll
  <2>2. \A d \in Clients : Pushing(d, t)' => Pushing(d, t)
    BY <1>0, <1>6 DEF CancelQueued, GoClient, Pushing
  <2> QED BY <1>1, <1>3, <2>1, <2>2, GivesUp
<1>7. CASE \/ \E u \in Targets : CancelActive(c, u)
           \/ ScheduleCount(c) \/ ScheduleNotify(c) \/ CancelStats(c) \/ CancelCall(c)
           \/ CancelRecord(c)
  <2>1. UNCHANGED <<taskQueue, nextId>>
    BY <1>7
    DEF CancelActive, ScheduleCount, ScheduleNotify, CancelStats, CancelCall, CancelRecord,
        queueVars, recordVars
  <2>2. \A d \in Clients : Pushing(d, t)' => Pushing(d, t)
    BY <1>0, <1>7
    DEF CancelActive, ScheduleCount, ScheduleNotify, CancelStats, CancelCall, CancelRecord,
        GoClient, Pushing
  <2>3. taskQueue'[t] <= taskQueue[t] /\ nextId <= nextId'
    BY <1>0, <2>1
  <2> QED BY <1>1, <1>3, <2>2, <2>3, GivesUp
<1> QED BY <1>4, <1>5, <1>6, <1>7 DEF ClientAction, ClientStep

\* The loop moves a task from the queue to its hands and on to the pool.
LEMMA OwnerLoop ==
  ASSUME TypeOK, TypeOK', NEW t \in Tasks, OneOwner(t), Held(t) => t < nextId,
         LoopStep \/ SpuriousWakeup
  PROVE  OneOwner(t)' /\ (Held(t)' => t < nextId')
<1>0. /\ taskQueue \in [Tasks -> Nat] /\ nextId \in Nat /\ t \in Nat
      /\ pending \in Seq(Tasks)
  BY SchedulerAssumption DEF TypeOK, QueueTypes, RecordTypes, PoolTypes, Tasks
<1>1. /\ nextId' = nextId
      /\ \A w \in Workers : Executing(w, t)' <=> Executing(w, t)
      /\ \A c \in Clients : Pushing(c, t)' <=> Pushing(c, t)
      /\ AtWorker(t)' <=> AtWorker(t)
      /\ AtClient(t)' <=> AtClient(t)
  BY LoopFrames DEF Executing, Pushing, AtWorker, AtClient, workerVars
<1>2. CASE LoopPopDue
  <2>1. PICK u \in Tasks : /\ taskQueue[u] > 0 /\ hand' = u
                           /\ taskQueue' = [taskQueue EXCEPT ![u] = @ - 1]
    BY <1>0, <1>2 DEF LoopPopDue, Tops, PopTop
  <2>2. loop' = "lookup" /\ pending' = pending /\ loop = "pop"
    BY <1>2 DEF LoopPopDue, GoLoop, LoopFrame, poolVars
  <2>3. CASE t = u
    <3>1. /\ InQueue(t) /\ taskQueue'[t] = 0
          /\ ~InPool(t) /\ ~AtWorker(t) /\ ~AtClient(t)
      BY <1>0, <2>1, <2>3 DEF OneOwner, InQueue
    <3>2. ~InQueue(t)' /\ ~InPool(t)' /\ ~AtWorker(t)' /\ ~AtClient(t)' /\ taskQueue'[t] <= 1
      BY <1>1, <2>2, <3>1 DEF InQueue, InPool
    <3>3. t < nextId'
      BY <1>1, <3>1 DEF Held
    <3> QED BY <3>2, <3>3 DEF OneOwner, AtWorker, AtClient, InPool
  <2>4. CASE t # u
    <3>1. taskQueue'[t] <= taskQueue[t] /\ nextId <= nextId' /\ ~InHand(t)'
      BY <1>0, <1>1, <2>1, <2>4 DEF InHand
    <3> QED BY <1>1, <2>2, <3>1, GivesUp
  <2> QED BY <2>3, <2>4
<1>3. CASE LoopDispatch
  <2>1. /\ loop = "dispatch" /\ loop' = "top" /\ taskQueue' = taskQueue
        /\ pending' = Append(pending, hand) /\ hand \in Tasks
    BY <1>3 DEF LoopDispatch, GoLoop, Pool!Submit, TypeOK, QueueTypes, Carrying
  <2>2. ~InHand(t)'
    BY <2>1 DEF InHand, Carrying
  <2>3. /\ DOMAIN pending = 1..Len(pending) /\ Len(pending) \in Nat
        /\ DOMAIN pending' = 1..(Len(pending) + 1)
        /\ \A i \in DOMAIN pending : pending'[i] = pending[i]
        /\ pending'[Len(pending) + 1] = hand
    BY <1>0, <2>1
  <2>4. CASE t = hand
    <3>1. InHand(t) /\ t < nextId'
      BY <1>1, <2>1, <2>4 DEF InHand, Carrying, Held
    <3>2. ~InQueue(t) /\ ~InPool(t) /\ ~AtWorker(t) /\ ~AtClient(t)
      BY <3>1 DEF OneOwner
    <3>3. \A i \in DOMAIN pending' : pending'[i] = t => i = Len(pending) + 1
      BY <2>3, <3>2 DEF InPool
    <3>4. ~InQueue(t)' /\ ~AtWorker(t)' /\ ~AtClient(t)' /\ taskQueue'[t] <= 1
      BY <1>1, <2>1, <3>2 DEF InQueue, OneOwner
    <3> QED BY <2>2, <3>1, <3>3, <3>4 DEF OneOwner, AtWorker, AtClient
  <2>5. CASE t # hand
    <3>1. \A i \in DOMAIN pending' : pending'[i] = t => i \in DOMAIN pending /\ pending[i] = t
      BY <2>3, <2>5
    <3>2. InPool(t)' => InPool(t)
      BY <3>1 DEF InPool
    <3>3. \A i, j \in DOMAIN pending' : pending'[i] = t /\ pending'[j] = t => i = j
      BY <3>1 DEF OneOwner
    <3>4. (InQueue(t)' <=> InQueue(t)) /\ taskQueue'[t] <= 1
      BY <2>1 DEF InQueue, OneOwner
    <3>5. Held(t)' => t < nextId'
      BY <1>1, <2>2, <3>2, <3>4 DEF Held
    <3> QED BY <1>1, <2>2, <3>2, <3>3, <3>4, <3>5 DEF OneOwner
  <2> QED BY <2>4, <2>5
<1>4. CASE LoopPopEarly
  <2>1. PICK u \in Tasks : taskQueue' = Push(PopTop(taskQueue, u), u)
    BY <1>0, <1>4 DEF LoopPopEarly, Tops
  <2>2. taskQueue'[t] <= taskQueue[t] /\ nextId <= nextId' /\ pending' = pending
    BY <1>0, <1>1, <1>4, <2>1 DEF LoopPopEarly, LoopFrame, poolVars, Push, PopTop
  <2>3. ~InHand(t)'
    BY <1>4 DEF LoopPopEarly, GoLoop, InHand, Carrying
  <2> QED BY <1>1, <2>2, <2>3, GivesUp
<1>5. CASE \/ SpuriousWakeup \/ LoopTop \/ LoopPred \/ LoopBlock \/ LoopRewake \/ LoopBreak
           \/ LoopTimedPred \/ LoopTimedBlock \/ LoopTimeout \/ LoopLookup \/ LoopCheck
           \/ LoopMark
  <2>1. taskQueue' = taskQueue /\ pending' = pending
    BY <1>5
    DEF SpuriousWakeup, LoopTop, LoopPred, LoopBlock, LoopRewake, LoopBreak, LoopTimedPred,
        LoopTimedBlock, LoopTimeout, LoopLookup, LoopCheck, LoopMark, LoopFrame, poolVars
  <2>2. InHand(t)' => InHand(t)
    BY <1>5
    DEF SpuriousWakeup, LoopTop, LoopPred, LoopBlock, LoopRewake, LoopBreak, LoopTimedPred,
        LoopTimedBlock, LoopTimeout, LoopLookup, LoopCheck, LoopMark, GoLoop, InHand,
        Carrying, Tasks, NoTask
  <2>3. taskQueue'[t] <= taskQueue[t] /\ nextId <= nextId'
    BY <1>0, <1>1, <2>1
  <2> QED BY <1>1, <2>1, <2>2, <2>3, GivesUp
<1> QED BY <1>2, <1>3, <1>4, <1>5 DEF LoopStep

\* A worker moves a task from the pool to itself, and a repeatable one on to the
\* queue.
LEMMA OwnerWorker ==
  ASSUME TypeOK, TypeOK', NEW t \in Tasks, OneOwner(t), Held(t) => t < nextId,
         NEW w \in Workers, WorkerStep(w)
  PROVE  OneOwner(t)' /\ (Held(t)' => t < nextId')
<1>0. /\ taskQueue \in [Tasks -> Nat] /\ nextId \in Nat /\ t \in Nat /\ t # NoTask
      /\ PoolTypes
  BY SchedulerAssumption DEF TypeOK, QueueTypes, RecordTypes, Tasks, NoTask
<1>1. /\ nextId' = nextId
      /\ \A c \in Clients : Pushing(c, t)' <=> Pushing(c, t)
      /\ AtClient(t)' <=> AtClient(t)
  BY WorkerFrames DEF Pushing, AtClient
<1>2. UNCHANGED loop \/ Notify
  BY DEF WorkerStep, BeginTask, FinishTask, FinalizeCancelled, FinalizeCompleted,
         SetOutcome, UpdateStatistics, CallbackReturns, CallbackThrows, RecordStatus,
         EraseTask, Reschedule, ResetPending, PushBack, NotifyLoop, LeavePool,
         WorkerFrame, queueVars
<1>3. (InHand(t)' <=> InHand(t)) /\ nextId <= nextId'
  BY <1>0, <1>1, <1>2, WorkerFrames, NotifyKeepsHand DEF InHand, Carrying
<1>4. CASE BeginTask(w)
  <2>1. /\ pending # <<>> /\ running' = [running EXCEPT ![w] = Head(pending)]
        /\ pending' = Tail(pending) /\ taskQueue' = taskQueue
        /\ stage[w] = "idle" /\ stage' = [stage EXCEPT ![w] = "exec"] /\ running[w] = NoTask
    BY <1>4 DEF BeginTask, Pool!Begin, GoStage, queueVars
  <2>2. /\ Head(pending) = pending[1] /\ 1 \in DOMAIN pending
        /\ \A i \in DOMAIN pending' :
             i \in Nat /\ i # 0 /\ i + 1 \in DOMAIN pending /\ pending'[i] = pending[i + 1]
    BY <1>0, <2>1 DEF PoolTypes
  <2>3. InPool(t)' => InPool(t)
    BY <2>2 DEF InPool
  <2>4. ASSUME NEW i \in DOMAIN pending', NEW j \in DOMAIN pending',
               pending'[i] = t, pending'[j] = t
        PROVE  i = j
    <3>1. i + 1 = j + 1
      BY <2>2, <2>4 DEF OneOwner
    <3> QED BY <2>2, <3>1
  <2>5. (InQueue(t)' <=> InQueue(t)) /\ taskQueue'[t] <= 1
    BY <2>1 DEF InQueue, OneOwner
  <2>6. CASE t = Head(pending)
    <3>1. InPool(t) /\ t < nextId'
      BY <1>1, <2>2, <2>6 DEF InPool, Held
    <3>2. ~InQueue(t) /\ ~InHand(t) /\ ~AtWorker(t) /\ ~AtClient(t)
      BY <3>1 DEF OneOwner
    <3>3. ~InPool(t)'
      <4> SUFFICES ASSUME NEW i \in DOMAIN pending', pending'[i] = t PROVE FALSE
        BY DEF InPool
      <4>1. i + 1 = 1
        BY <2>2, <2>6 DEF OneOwner
      <4> QED BY <2>2, <4>1
    <3>4. \A v \in Workers : Executing(v, t)' => v = w
      BY <1>0, <2>1, <3>2 DEF Executing, AtWorker, PoolTypes
    <3> QED BY <1>1, <1>3, <2>4, <2>5, <3>1, <3>2, <3>3, <3>4 DEF OneOwner, AtClient
  <2>7. CASE t # Head(pending)
    <3>1. \A v \in Workers : Executing(v, t)' => Executing(v, t)
      BY <1>0, <2>1, <2>7 DEF Executing, PoolTypes
    <3>2. AtWorker(t)' => AtWorker(t)
      BY <3>1 DEF AtWorker
    <3>3. Held(t)' => t < nextId'
      BY <1>1, <1>3, <2>3, <2>5, <3>2 DEF Held
    <3> QED BY <1>1, <1>3, <2>3, <2>4, <2>5, <3>1, <3>2, <3>3 DEF OneOwner
  <2> QED BY <2>6, <2>7
<1>5. CASE PushBack(w)
  <2>1. /\ stage[w] = "push" /\ stage' = [stage EXCEPT ![w] = "notify"]
        /\ taskQueue' = Push(taskQueue, running[w]) /\ UNCHANGED <<running, pending>>
    BY <1>5 DEF PushBack, GoStage, poolVars
  <2>2. \A v \in Workers : Executing(v, t)' => Executing(v, t) /\ v # w
    BY <1>0, <2>1 DEF Executing, PoolTypes
  <2>3. InPool(t)' <=> InPool(t)
    BY <2>1 DEF InPool
  <2>4. CASE t = running[w]
    <3>1. Executing(w, t) /\ AtWorker(t)
      BY <2>1, <2>4 DEF Executing, AtWorker
    <3>2. taskQueue[t] = 0 /\ ~InHand(t) /\ ~InPool(t) /\ ~AtClient(t)
      BY <1>0, <3>1 DEF OneOwner, InQueue
    <3>3. ~AtWorker(t)'
      BY <2>2, <3>1 DEF OneOwner, AtWorker
    <3>4. taskQueue'[t] = 1
      BY <1>0, <2>1, <2>4, <3>2 DEF Push
    <3>5. t < nextId'
      BY <1>1, <3>1 DEF Held
    <3> QED BY <1>1, <1>3, <2>1, <2>3, <3>2, <3>3, <3>4, <3>5
            DEF OneOwner, InQueue, AtClient, AtWorker
  <2>5. CASE t # running[w]
    <3>1. taskQueue'[t] <= taskQueue[t]
      BY <1>0, <2>1, <2>5 DEF Push
    <3> QED BY <1>1, <1>3, <2>1, <2>2, <3>1, GivesUp
  <2> QED BY <2>4, <2>5
<1>6. ASSUME NEW a, NEW b, a # "notify", GoStage(w, a, b), UNCHANGED <<poolVars, taskQueue>>
      PROVE  OneOwner(t)' /\ (Held(t)' => t < nextId')
  <2>1. \A v \in Workers : Executing(v, t)' => Executing(v, t)
    BY <1>0, <1>6 DEF GoStage, Executing, PoolTypes, poolVars
  <2>2. taskQueue'[t] <= taskQueue[t] /\ pending' = pending
    BY <1>0, <1>6 DEF poolVars
  <2> QED BY <1>1, <1>3, <2>1, <2>2, GivesUp
<1>7. ASSUME NEW a, EndJob(w, a), UNCHANGED taskQueue
      PROVE  OneOwner(t)' /\ (Held(t)' => t < nextId')
  <2>1. \A v \in Workers : Executing(v, t)' => Executing(v, t)
    BY <1>0, <1>7 DEF EndJob, GoStage, Pool!End, Executing, PoolTypes
  <2>2. taskQueue'[t] <= taskQueue[t] /\ pending' = pending
    BY <1>0, <1>7 DEF EndJob, Pool!End
  <2> QED BY <1>1, <1>3, <2>1, <2>2, GivesUp
<1>8. CASE LeavePool(w)
  <2>1. \A v \in Workers : Executing(v, t)' => Executing(v, t)
    BY <1>8 DEF LeavePool, Pool!Leave, Executing, workerVars
  <2>2. taskQueue'[t] <= taskQueue[t] /\ pending' = pending
    BY <1>0, <1>8 DEF LeavePool, Pool!Leave, queueVars
  <2> QED BY <1>1, <1>3, <2>1, <2>2, GivesUp
<1>9. CASE \/ FinishTask(w) \/ FinalizeCompleted(w) \/ SetOutcome(w) \/ UpdateStatistics(w)
           \/ CallbackReturns(w) \/ RecordStatus(w) \/ Reschedule(w) \/ ResetPending(w)
  BY <1>6, <1>9
  DEF FinishTask, FinalizeCompleted, SetOutcome, UpdateStatistics, CallbackReturns,
      RecordStatus, Reschedule, ResetPending, WorkerFrame, queueVars
<1>10. CASE FinalizeCancelled(w) \/ EraseTask(w) \/ NotifyLoop(w)
  BY <1>7, <1>10 DEF FinalizeCancelled, EraseTask, NotifyLoop, queueVars
<1>11. CASE CallbackThrows(w)
  BY <1>6, <1>7, <1>11 DEF CallbackThrows, queueVars
<1> QED BY <1>4, <1>5, <1>8, <1>9, <1>10, <1>11 DEF WorkerStep

\* start() and stop() only take tasks away from the loop and the pool.
LEMMA OwnerCtl ==
  ASSUME TypeOK, TypeOK', NEW t \in Tasks, OneOwner(t), Held(t) => t < nextId, CtlStep
  PROVE  OneOwner(t)' /\ (Held(t)' => t < nextId')
<1>1. pending' = pending \/ pending' = <<>>
  BY DEF CtlStep, StopStep, Start, Stop, StopWake, StopJoin, StopClosePool, StopDiscard,
         SetTaskCompletionCallback, Pool!Close, Pool!Discard, poolVars
<1>2. loop' \in {loop, "top", "off"} \/ Notify
  BY DEF CtlStep, StopStep, Start, Stop, StopWake, StopJoin, StopClosePool, StopDiscard,
         SetTaskCompletionCallback, queueVars
<1>3. InHand(t)' => InHand(t)
  BY <1>2, CtlFrames, NotifyKeepsHand DEF InHand, Carrying
<1>4. /\ \A w \in Workers : Executing(w, t)' => Executing(w, t)
      /\ \A c \in Clients : Pushing(c, t)' => Pushing(c, t)
  BY CtlFrames DEF Executing, Pushing, workerVars
<1>5. taskQueue'[t] <= taskQueue[t] /\ nextId <= nextId'
  BY CtlFrames, SchedulerAssumption DEF TypeOK, QueueTypes, RecordTypes, recordVars
<1> QED BY <1>1, <1>3, <1>4, <1>5, GivesUp

\* Nobody holds a task in the initial state, so none has two owners.
LEMMA OwnerInit == Init => OwnerInv
<1> SUFFICES ASSUME Init PROVE OwnerInv
  OBVIOUS
<1>1. ASSUME NEW t \in Tasks
      PROVE  ~InQueue(t) /\ ~InHand(t) /\ ~InPool(t) /\ ~AtWorker(t) /\ ~AtClient(t)
  BY DEF Init, Pool!PoolInit, InQueue, InHand, Carrying, InPool, AtWorker, Executing,
         AtClient, Pushing, Tasks, NoTask
<1>2. ASSUME NEW t \in Tasks PROVE OneOwner(t) /\ ~Held(t)
  <2>1. taskQueue[t] <= 1
    BY DEF Init
  <2> QED BY <1>1, <2>1 DEF OneOwner, Held, InPool, AtWorker, AtClient
<1> QED BY <1>2, TypeInit DEF OwnerInv, Fresh, SingleOwner

\* Types, freshness and unique ownership together are inductive.
LEMMA OwnerStep == OwnerInv /\ [Next]_vars => OwnerInv'
<1> SUFFICES ASSUME OwnerInv, [Next]_vars PROVE OwnerInv'
  OBVIOUS
<1>1. TypeOK /\ TypeOK'
  BY RecordTypesStep, QueueTypesStep, PoolTypesStep, ClientTypesStep, OtherTypesStep
  DEF TypeOK, OwnerInv
<1>2. ASSUME NEW t \in Tasks PROVE OneOwner(t)' /\ (Held(t)' => t < nextId')
  <2>1. OneOwner(t) /\ (Held(t) => t < nextId)
    BY DEF OwnerInv, Fresh, SingleOwner
  <2>2. CASE UNCHANGED vars \/ Tick
    BY <2>1, <2>2
    DEF OneOwner, Held, InQueue, InHand, Carrying, InPool, AtWorker, Executing, AtClient,
        Pushing, Tick, vars, queueVars, poolVars, workerVars, recordVars, otherVars
  <2> QED
    BY <1>1, <2>1, <2>2, Actors, OwnerClient, OwnerLoop, OwnerWorker, OwnerCtl
<1> QED BY <1>1, <1>2 DEF OwnerInv, Fresh, SingleOwner

\* The invariant the theorems about executions and about the registry build on.
THEOREM Ownership == Spec => []OwnerInv
  BY OwnerInit, OwnerStep, PTL DEF Spec

\* A task has at most one owner in every reachable state, for every number of
\* workers, clients and tasks.
THEOREM OwnershipIsUnique == Spec => []SingleOwner
  BY Ownership, PTL DEF OwnerInv
=============================================================================
