----------------------- MODULE SchedulerRegistryProofs -----------------------
(***************************************************************************)
(* The registry of the scheduler, for every number of workers, clients and *)
(* tasks: no registered task is forgotten, what getTaskStatus reports of   *)
(* one is where it is, and one that left has its final status recorded.    *)
(***************************************************************************)
EXTENDS SchedulerRunProofs

-----------------------------------------------------------------------------
(* Cancellation *)

\* A task that is marked CANCELLED has left the registry: cancelTask does both in
\* one critical section, and its second half works on a task it did not find there.
\* A run never ends as CANCELLED.
CancelInv ==
  /\ \A t \in activeTasks : task[t].status # "CANCELLED"
  /\ \A w \in Workers : outcome[w] # "CANCELLED"
  /\ \A c \in Clients : client[c].pc = "cancelQueued" =>
       client[c].task < nextId /\ client[c].task \notin activeTasks

\* Registered tasks are tasks that were created, before and after a step.
LEMMA ActiveAreTasks ==
  (TypeOK => activeTasks \subseteq Tasks) /\ (TypeOK' => activeTasks' \subseteq Tasks)
<1>1. ASSUME NEW n \in 1..(MaxTasks + 1), NEW S \in SUBSET (1..(n - 1)) PROVE S \subseteq Tasks
  BY SchedulerAssumption DEF Tasks
<1> QED BY <1>1 DEF TypeOK, RecordTypes

\* Only scheduleTask registers a task, the new one.
LEMMA RegistryStep ==
  ASSUME TypeOK, [Next]_vars
  PROVE  \/ activeTasks' \subseteq activeTasks
         \/ /\ \E c \in Clients : \E cfg \in Configs : ScheduleTask(c, cfg)
            /\ activeTasks' = activeTasks \cup {nextId}
            /\ nextId' = nextId + 1
<1>1. ASSUME NEW c \in Clients, ClientAction(c),
             ~ \E cfg \in Configs : ScheduleTask(c, cfg)
      PROVE  activeTasks' \subseteq activeTasks
  BY <1>1
  DEF ClientAction, ClientStep, SchedulePush, ScheduleCount, ScheduleNotify, CancelActive,
      CancelQueued, CancelStats, CancelCall, CancelRecord, recordVars
<1>2. ASSUME NEW w \in Workers, WorkerStep(w) PROVE activeTasks' \subseteq activeTasks
  BY <1>2
  DEF WorkerStep, BeginTask, FinishTask, FinalizeCancelled, FinalizeCompleted, SetOutcome,
      UpdateStatistics, CallbackReturns, CallbackThrows, RecordStatus, EraseTask,
      Reschedule, ResetPending, PushBack, NotifyLoop, LeavePool, recordVars
<1> QED
  BY <1>1, <1>2, Actors, LoopFrames, CtlFrames DEF ScheduleTask, Tick, vars, recordVars

\* The outcomes the handlers of executeAndFinalizeTask report.
LEMMA OutcomeStep ==
  ASSUME TypeOK, [Next]_vars, NEW v \in Workers, outcome[v] # "CANCELLED"
  PROVE  outcome'[v] # "CANCELLED"
<1>1. outcome \in [Workers -> FinalStatus]
  BY DEF TypeOK, PoolTypes
<1>2. ASSUME NEW w \in Workers, WorkerStep(w) PROVE outcome'[v] # "CANCELLED"
  BY <1>1, <1>2
  DEF WorkerStep, BeginTask, FinishTask, FinalizeCancelled, FinalizeCompleted, SetOutcome,
      UpdateStatistics, CallbackReturns, CallbackThrows, RecordStatus, EraseTask,
      Reschedule, ResetPending, PushBack, NotifyLoop, LeavePool, EndJob, WorkerFrame,
      workerVars
<1> QED
  BY <1>2, Actors, ClientFrame, LoopFrames, CtlFrames DEF Tick, vars, workerVars

\* What a step writes into the status of a task that stays registered.
LEMMA ActiveStatus ==
  ASSUME TypeOK, CancelInv, [Next]_vars, NEW t \in Tasks, t \in activeTasks'
  PROVE  \/ task'[t].status = task[t].status /\ t \in activeTasks
         \/ task'[t].status = "PENDING" /\ t = nextId
         \/ LoopMark /\ hand = t /\ task'[t].status = "RUNNING"
         \/ \E w \in Workers : /\ SetOutcome(w) /\ running[w] = t
                               /\ task'[t].status = outcome[w]
         \/ \E w \in Workers : /\ ResetPending(w) /\ running[w] = t
                               /\ task'[t].status = "PENDING"
<1> DEFINE Same == task'[t].status = task[t].status /\ t \in activeTasks
           Goal == \/ Same
                   \/ task'[t].status = "PENDING" /\ t = nextId
                   \/ LoopMark /\ hand = t /\ task'[t].status = "RUNNING"
                   \/ \E w \in Workers : /\ SetOutcome(w) /\ running[w] = t
                                         /\ task'[t].status = outcome[w]
                   \/ \E w \in Workers : /\ ResetPending(w) /\ running[w] = t
                                         /\ task'[t].status = "PENDING"
<1>0. task \in [Tasks -> TaskRecord] /\ 0 \notin Tasks /\ Targets \subseteq Tasks
  BY SchedulerAssumption DEF TypeOK, RecordTypes, Tasks
<1>1. ASSUME UNCHANGED task, activeTasks' \subseteq activeTasks PROVE Goal
  BY <1>1
<1>2. ASSUME NEW c \in Clients, ClientAction(c) PROVE Goal
  <2>1. ASSUME NEW cfg \in Configs, ScheduleTask(c, cfg) PROVE Goal
    <3>1. t = nextId \/ (t \in activeTasks /\ t # nextId)
      BY <2>1 DEF ScheduleTask
    <3> QED BY <1>0, <2>1, <3>1 DEF ScheduleTask, NewTask
  <2>2. ASSUME NEW u \in Targets, CancelActive(c, u) PROVE Goal
    <3>1. CASE u \in activeTasks
      <4>1. SetStatus(u, "CANCELLED") /\ t \in activeTasks /\ t # u
        BY <2>2, <3>1 DEF CancelActive
      <4> QED BY <1>0, <4>1, StatusOnly DEF Status, FinalStatus
    <3>2. CASE u \notin activeTasks
      BY <1>1, <2>2, <3>2 DEF CancelActive
    <3> QED BY <3>1, <3>2
  <2>3. CASE CancelQueued(c)
    <3>1. t \in activeTasks /\ t # client[c].task /\ client[c].task \in Tasks
      BY <1>0, <2>3 DEF CancelQueued, CancelInv, TypeOK, ClientTypes, NoTask
    <3>2. CASE SetStatus(client[c].task, "CANCELLED")
      BY <3>1, <3>2, StatusOnly DEF Status, FinalStatus
    <3> QED BY <1>1, <2>3, <3>2 DEF CancelQueued
  <2> QED
    BY <1>1, <1>2, <2>1, <2>2, <2>3
    DEF ClientAction, ClientStep, SchedulePush, ScheduleCount, ScheduleNotify, CancelStats,
        CancelCall, CancelRecord, recordVars
<1>3. CASE LoopStep \/ SpuriousWakeup
  <2>1. CASE LoopMark
    <3>1. hand \in Tasks /\ SetStatus(hand, "RUNNING") /\ UNCHANGED activeTasks
      BY <2>1 DEF LoopMark, GoLoop, TypeOK, QueueTypes, Carrying
    <3> QED BY <2>1, <3>1, StatusOnly DEF Status
  <2> QED
    BY <1>1, <1>3, <2>1, LoopFrames
    DEF LoopStep, SpuriousWakeup, LoopTop, LoopPred, LoopBlock, LoopRewake, LoopBreak,
        LoopPopDue, LoopPopEarly, LoopTimedPred, LoopTimedBlock, LoopTimeout, LoopLookup,
        LoopCheck, LoopDispatch, LoopFrame, recordVars
<1>4. ASSUME NEW w \in Workers, WorkerStep(w) PROVE Goal
  <2>1. CASE SetOutcome(w)
    <3>1. running[w] \in Tasks /\ outcome[w] \in Status
      BY <2>1 DEF SetOutcome, GoStage, TypeOK, PoolTypes, Status
    <3> QED BY <2>1, <3>1, StatusOnly DEF SetOutcome
  <2>2. CASE ResetPending(w)
    <3>1. running[w] \in Tasks
      BY <2>2 DEF ResetPending, GoStage, TypeOK, PoolTypes
    <3> QED BY <2>2, <3>1, StatusOnly DEF ResetPending, Status
  <2>3. CASE Reschedule(w)
    BY <2>3, StartTimeOnly DEF Reschedule
  <2>4. CASE EraseTask(w)
    BY <1>1, <2>4 DEF EraseTask
  <2> QED
    BY <1>1, <1>4, <2>1, <2>2, <2>3, <2>4
    DEF WorkerStep, BeginTask, FinishTask, FinalizeCancelled, FinalizeCompleted,
        UpdateStatistics, CallbackReturns, CallbackThrows, RecordStatus,
        PushBack, NotifyLoop, LeavePool, recordVars
<1>5. CASE CtlStep \/ Tick \/ UNCHANGED vars
  BY <1>1, <1>5, CtlFrames DEF Tick, vars, recordVars
<1> QED BY <1>2, <1>3, <1>4, <1>5, Actors

\* cancelTask keeps the invariant, and nobody else writes CANCELLED.
LEMMA CancelStep == TypeOK /\ CancelInv /\ [Next]_vars => CancelInv'
<1> SUFFICES ASSUME TypeOK, CancelInv, [Next]_vars PROVE CancelInv'
  OBVIOUS
<1>0. /\ activeTasks' \subseteq activeTasks \cup {nextId} /\ activeTasks \subseteq Tasks
      /\ nextId \in Nat /\ activeTasks \subseteq 1..(nextId - 1)
      /\ nextId \in activeTasks' => nextId \in Tasks
  <2>1. /\ activeTasks \subseteq Tasks /\ nextId \in Nat
        /\ activeTasks \subseteq 1..(nextId - 1) /\ nextId \in 1..(MaxTasks + 1)
    BY SchedulerAssumption DEF TypeOK, RecordTypes, Tasks
  <2>2. ASSUME nextId \in activeTasks' PROVE nextId \in Tasks
    <3>1. nextId \notin activeTasks
      BY <2>1
    <3>2. nextId <= MaxTasks
      BY <2>2, <3>1, RegistryStep DEF ScheduleTask
    <3> QED BY <2>1, <3>2, SchedulerAssumption DEF Tasks
  <2> QED BY <2>1, <2>2, RegistryStep
<1>1. ASSUME NEW t \in activeTasks' PROVE task'[t].status # "CANCELLED"
  <2>1. t \in Tasks
    BY <1>0
  <2> QED BY <2>1, ActiveStatus DEF CancelInv
<1>2. \A w \in Workers : outcome'[w] # "CANCELLED"
  BY OutcomeStep DEF CancelInv
<1>3. ASSUME NEW d \in Clients, client'[d].pc = "cancelQueued"
      PROVE  client'[d].task < nextId' /\ client'[d].task \notin activeTasks'
  <2>0. /\ client \in [Clients -> [pc: ClientPC, task: Tasks \cup {NoTask}]]
        /\ Tasks \cup {NoTask} \subseteq Nat
    BY DEF TypeOK, ClientTypes, Tasks, NoTask
  <2>1. ASSUME client'[d] = client[d] PROVE client'[d].task < nextId' /\ client'[d].task \notin activeTasks'
    <3>1. client[d].task < nextId /\ client[d].task \notin activeTasks /\ client[d].task \in Nat
      BY <1>3, <2>0, <2>1 DEF CancelInv
    <3>2. nextId' = nextId \/ nextId' = nextId + 1
      BY RunsStep
    <3> QED BY <1>0, <2>1, <3>1, <3>2
  <2>2. ASSUME NEW c \in Clients, ClientAction(c), client'[d] # client[d]
        PROVE  client'[d].task < nextId' /\ client'[d].task \notin activeTasks'
    <3>1. ASSUME NEW cfg \in Configs, ScheduleTask(c, cfg) PROVE FALSE
      BY <1>3, <2>0, <2>2, <3>1 DEF ScheduleTask, GoClient
    <3>2. CASE ClientStep(c)
      BY <1>3, <2>0, <2>2, <3>2
      DEF ClientStep, SchedulePush, ScheduleCount, ScheduleNotify, CancelQueued, CancelStats,
          CancelCall, CancelRecord, GoClient
    <3>3. ASSUME NEW u \in Targets, CancelActive(c, u)
          PROVE  client'[d].task < nextId' /\ client'[d].task \notin activeTasks'
      BY <1>3, <2>0, <2>2, <3>3 DEF CancelActive, GoClient
    <3> QED BY <2>2, <3>1, <3>2, <3>3 DEF ClientAction
  <2> QED
    BY <2>1, <2>2, Actors, LoopFrames, WorkerFrames, CtlFrames DEF Tick, vars, otherVars
<1> QED BY <1>1, <1>2, <1>3 DEF CancelInv

\* A task marked CANCELLED is no longer registered, in every reachable state.
THEOREM CancelledHaveLeft == Spec => []CancelInv
<1>1. Init => CancelInv
  BY DEF Init, CancelInv
<1> QED BY <1>1, CancelStep, TypeCorrect, PTL DEF Spec

-----------------------------------------------------------------------------
(* Final statuses *)

Recorded == {"erase", "resched", "pend", "push", "notify"}

\* A worker past the recording of the final status has recorded it.
RecordInv == \A w \in Workers : stage[w] \in Recorded => completedTasks[running[w]] # "none"

\* A recorded final status may be replaced, never removed.
LEMMA RecordsKept ==
  ASSUME TypeOK, [Next]_vars, NEW t \in Tasks, completedTasks[t] # "none"
  PROVE  completedTasks'[t] # "none"
<1>0. completedTasks \in [Tasks -> FinalStatus \cup {"none"}]
  BY DEF TypeOK, RecordTypes
<1>1. ASSUME NEW c \in Clients, ClientAction(c) PROVE completedTasks'[t] # "none"
  BY <1>0, <1>1
  DEF ClientAction, ClientStep, ScheduleTask, SchedulePush, ScheduleCount, ScheduleNotify,
      CancelActive, CancelQueued, CancelStats, CancelCall, CancelRecord, recordVars
<1>2. ASSUME NEW w \in Workers, WorkerStep(w) PROVE completedTasks'[t] # "none"
  <2>1. outcome[w] # "none"
    BY DEF TypeOK, PoolTypes, FinalStatus
  <2> QED
    BY <1>0, <1>2, <2>1
    DEF WorkerStep, BeginTask, FinishTask, FinalizeCancelled, FinalizeCompleted, SetOutcome,
        UpdateStatistics, CallbackReturns, CallbackThrows, RecordStatus, EraseTask,
        Reschedule, ResetPending, PushBack, NotifyLoop, LeavePool, recordVars
<1> QED BY <1>1, <1>2, Actors, LoopFrames, CtlFrames DEF Tick, vars, recordVars

\* The later steps of a job come after the recording (executeAndFinalizeTask).
LEMMA RecordStep == TypeOK /\ RecordInv /\ [Next]_vars => RecordInv'
<1> SUFFICES ASSUME TypeOK, RecordInv, [Next]_vars, NEW v \in Workers, stage'[v] \in Recorded
             PROVE  completedTasks'[running'[v]] # "none"
  BY DEF RecordInv
<1>0. PoolTypes /\ completedTasks \in [Tasks -> FinalStatus \cup {"none"}]
  BY DEF TypeOK, RecordTypes
<1>1. ASSUME stage[v] \in Recorded, running'[v] = running[v]
      PROVE  completedTasks'[running'[v]] # "none"
  <2>1. running[v] \in Tasks /\ completedTasks[running[v]] # "none"
    BY <1>0, <1>1 DEF PoolTypes, Recorded, RecordInv
  <2> QED BY <1>1, <2>1, RecordsKept
<1>2. CASE UNCHANGED <<running, stage>>
  BY <1>1, <1>2
<1>3. ASSUME NEW w \in Workers, WorkerStep(w) PROVE completedTasks'[running'[v]] # "none"
  <2>1. ASSUME NEW a, NEW b, GoStage(w, a, b), UNCHANGED poolVars,
               b \in Recorded => a \in Recorded
        PROVE  completedTasks'[running'[v]] # "none"
    BY <1>0, <1>1, <2>1 DEF GoStage, PoolTypes, poolVars
  <2>2. ASSUME NEW a, EndJob(w, a) PROVE completedTasks'[running'[v]] # "none"
    BY <1>0, <1>1, <2>2 DEF EndJob, GoStage, Pool!End, PoolTypes, Recorded
  <2>3. CASE BeginTask(w)
    BY <1>0, <1>1, <2>3 DEF BeginTask, Pool!Begin, GoStage, PoolTypes, Recorded
  <2>4. CASE \/ FinishTask(w) \/ FinalizeCompleted(w) \/ SetOutcome(w) \/ UpdateStatistics(w)
             \/ CallbackReturns(w) \/ Reschedule(w) \/ ResetPending(w) \/ PushBack(w)
    BY <2>1, <2>4
    DEF FinishTask, FinalizeCompleted, SetOutcome, UpdateStatistics, CallbackReturns,
        Reschedule, ResetPending, PushBack, WorkerFrame, Recorded
  <2>5. CASE RecordStatus(w)
    <3>1. /\ running' = running /\ stage[w] = "record" /\ running[w] \in Tasks
          /\ completedTasks' = [completedTasks EXCEPT ![running[w]] = outcome[w]]
          /\ outcome[w] # "none" /\ (v # w => stage'[v] = stage[v])
      BY <1>0, <2>5 DEF RecordStatus, GoStage, WorkerFrame, poolVars, PoolTypes, FinalStatus
    <3> QED BY <1>0, <1>1, <3>1
  <2>6. CASE FinalizeCancelled(w) \/ EraseTask(w) \/ NotifyLoop(w)
    BY <2>2, <2>6 DEF FinalizeCancelled, EraseTask, NotifyLoop
  <2>7. CASE CallbackThrows(w)
    BY <2>1, <2>2, <2>7 DEF CallbackThrows, Recorded
  <2>8. CASE LeavePool(w)
    BY <1>2, <2>8 DEF LeavePool, Pool!Leave, workerVars
  <2> QED BY <1>3, <2>3, <2>4, <2>5, <2>6, <2>7, <2>8 DEF WorkerStep
<1> QED
  BY <1>2, <1>3, Actors, ClientFrame, LoopFrames, CtlFrames
  DEF Tick, vars, poolVars, workerVars

\* Whether a callback may throw is settled before the first task is created.
LEMMA CallbackSettled ==
  ASSUME TypeOK, [Next]_vars
  PROVE  UNCHANGED completionCallback \/ (nextId = 1 /\ nextId' = 1 /\ activeTasks' = {})
<1>1. ASSUME NEW cb \in Callbacks, SetTaskCompletionCallback(cb)
      PROVE  nextId = 1 /\ nextId' = 1 /\ activeTasks' = {}
  BY <1>1 DEF SetTaskCompletionCallback, recordVars, TypeOK, RecordTypes
<1> QED
  BY <1>1, Actors, ClientFrame, LoopFrames, WorkerFrames
  DEF CtlStep, StopStep, Start, Stop, StopWake, StopJoin, StopClosePool, StopDiscard,
      CtlFrame, Tick, vars, otherVars

\* A cancelTask under way goes on to the recording, unless the callback throws.
LEMMA CancellingStep ==
  ASSUME TypeOK, [Next]_vars, ~MayThrow, NEW t \in Tasks, NEW d \in Clients, Cancelling(d, t)
  PROVE  Cancelling(d, t)' \/ completedTasks'[t] # "none"
<1>0. /\ client \in [Clients -> [pc: ClientPC, task: Tasks \cup {NoTask}]]
      /\ completedTasks \in [Tasks -> FinalStatus \cup {"none"}]
  BY DEF TypeOK, ClientTypes, RecordTypes
<1>1. CASE client'[d] = client[d]
  BY <1>1 DEF Cancelling
<1>2. ASSUME NEW c \in Clients, ClientAction(c), c = d
      PROVE  Cancelling(d, t)' \/ completedTasks'[t] # "none"
  BY <1>0, <1>2
  DEF ClientAction, ClientStep, ScheduleTask, SchedulePush, ScheduleCount, ScheduleNotify,
      CancelActive, CancelQueued, CancelStats, CancelCall, CancelRecord, GoClient, Cancelling
<1>3. ASSUME NEW c \in Clients, ClientAction(c), c # d PROVE client'[d] = client[d]
  BY <1>0, <1>3
  DEF ClientAction, ClientStep, ScheduleTask, SchedulePush, ScheduleCount, ScheduleNotify,
      CancelActive, CancelQueued, CancelStats, CancelCall, CancelRecord, GoClient
<1> QED
  BY <1>1, <1>2, <1>3, Actors, LoopFrames, WorkerFrames, CtlFrames DEF Tick, vars, otherVars

\* A task leaves the registry through cancelTask, which goes on to record it, or
\* through the erase at the end of a job, which has recorded it.
LEMMA LeavesRecorded ==
  ASSUME TypeOK, RecordInv, [Next]_vars, NEW t \in Tasks, t \in activeTasks,
         t \notin activeTasks'
  PROVE  completedTasks'[t] # "none" \/ \E c \in Clients : Cancelling(c, t)'
<1>1. ASSUME NEW c \in Clients, ClientAction(c) PROVE Cancelling(c, t)'
  <2>1. PICK u \in Targets : CancelActive(c, u)
    BY <1>1
    DEF ClientAction, ClientStep, ScheduleTask, SchedulePush, ScheduleCount, ScheduleNotify,
        CancelQueued, CancelStats, CancelCall, CancelRecord, recordVars
  <2>2. u = t /\ GoClient(c, "cancelStats", t)
    BY <2>1 DEF CancelActive
  <2>3. client'[c] = [pc |-> "cancelStats", task |-> t]
    BY <2>2 DEF GoClient, TypeOK, ClientTypes
  <2> QED BY <2>3 DEF Cancelling
<1>2. ASSUME NEW w \in Workers, WorkerStep(w) PROVE completedTasks'[t] # "none"
  <2>1. EraseTask(w)
    BY <1>2
    DEF WorkerStep, BeginTask, FinishTask, FinalizeCancelled, FinalizeCompleted, SetOutcome,
        UpdateStatistics, CallbackReturns, CallbackThrows, RecordStatus, Reschedule,
        ResetPending, PushBack, NotifyLoop, LeavePool, recordVars
  <2>2. running[w] = t /\ stage[w] \in Recorded
    BY <2>1 DEF EraseTask, EndJob, GoStage, Recorded
  <2> QED BY <2>2, RecordsKept DEF RecordInv
<1> QED BY <1>1, <1>2, Actors, LoopFrames, CtlFrames DEF Tick, vars, recordVars

\* Cancellations are never uncounted.
LEMMA CancellationsKept ==
  ASSUME TypeOK, CancelInv, [Next]_vars
  PROVE  NeverCancelled' => NeverCancelled
<1>0. /\ stats \in [FinalStatus \cup {"SCHEDULED"} -> Nat]
      /\ client \in [Clients -> [pc: ClientPC, task: Tasks \cup {NoTask}]]
      /\ "CANCELLED" \in FinalStatus
  BY DEF TypeOK, RecordTypes, ClientTypes, FinalStatus
<1>1. ASSUME NEW c \in Clients, ClientAction(c)
      PROVE  NeverCancelled' => NeverCancelled
  <2>1. \A d \in Clients : d # c => client'[d] = client[d]
    BY <1>0, <1>1
    DEF ClientAction, ClientStep, ScheduleTask, SchedulePush, ScheduleCount, ScheduleNotify,
        CancelActive, CancelQueued, CancelStats, CancelCall, CancelRecord, GoClient
  <2>2. CASE CancelStats(c)
    <3>1. stats'["CANCELLED"] = stats["CANCELLED"] + 1 /\ stats["CANCELLED"] \in Nat
      BY <1>0, <2>2 DEF CancelStats, Count
    <3>2. stats'["CANCELLED"] # 0
      BY <3>1
    <3> QED BY <3>2 DEF NeverCancelled, Paying
  <2>3. CASE client[c].pc # "cancelStats" /\ stats'["CANCELLED"] = stats["CANCELLED"]
    BY <2>1, <2>3 DEF NeverCancelled, Paying
  <2>4. CASE ~CancelStats(c)
    <3>1. client[c].pc # "cancelStats"
      BY <1>1, <2>4
      DEF ClientAction, ClientStep, ScheduleTask, SchedulePush, ScheduleCount,
          ScheduleNotify, CancelActive, CancelQueued, CancelCall, CancelRecord
    <3>2. stats'["CANCELLED"] = stats["CANCELLED"]
      BY <1>0, <1>1, <2>4
      DEF ClientAction, ClientStep, ScheduleTask, SchedulePush, ScheduleCount,
          ScheduleNotify, CancelActive, CancelQueued, CancelCall, CancelRecord, Count,
          recordVars
    <3> QED BY <2>3, <3>1, <3>2
  <2> QED BY <2>2, <2>4
<1>2. ASSUME NEW w \in Workers, WorkerStep(w) PROVE NeverCancelled' => NeverCancelled
  <2>1. stats'["CANCELLED"] = stats["CANCELLED"]
    <3>1. outcome[w] # "CANCELLED"
      BY DEF CancelInv
    <3> QED
      BY <1>0, <1>2, <3>1
      DEF WorkerStep, BeginTask, FinishTask, FinalizeCancelled, FinalizeCompleted,
          SetOutcome, UpdateStatistics, CallbackReturns, CallbackThrows, RecordStatus,
          EraseTask, Reschedule, ResetPending, PushBack, NotifyLoop, LeavePool, Count,
          recordVars
  <2> QED BY <1>2, <2>1, WorkerFrames DEF NeverCancelled, Paying
<1> QED
  BY <1>1, <1>2, Actors, LoopFrames, CtlFrames
  DEF NeverCancelled, Paying, Tick, vars, recordVars, otherVars

\* A cancelTask past its counting has counted the cancellation.
CancelCounted ==
  \A c \in Clients : client[c].pc \in {"cancelCall", "cancelRecord"} => ~NeverCancelled

LEMMA CancelCountedStep == TypeOK /\ CancelInv /\ CancelCounted /\ [Next]_vars => CancelCounted'
<1> SUFFICES ASSUME TypeOK, CancelInv, CancelCounted, [Next]_vars, NeverCancelled',
                    NEW d \in Clients, client'[d].pc \in {"cancelCall", "cancelRecord"}
             PROVE  FALSE
  BY DEF CancelCounted
<1>0. client \in [Clients -> [pc: ClientPC, task: Tasks \cup {NoTask}]]
  BY DEF TypeOK, ClientTypes
<1>1. client[d].pc \notin {"cancelStats", "cancelCall", "cancelRecord"}
  BY CancellationsKept DEF CancelCounted, NeverCancelled, Paying
<1>2. ASSUME NEW c \in Clients, ClientAction(c) PROVE FALSE
  BY <1>0, <1>1, <1>2
  DEF ClientAction, ClientStep, ScheduleTask, SchedulePush, ScheduleCount, ScheduleNotify,
      CancelActive, CancelQueued, CancelStats, CancelCall, CancelRecord, GoClient
<1>3. client'[d] # client[d]
  BY <1>1
<1> QED
  BY <1>2, <1>3, Actors, LoopFrames, WorkerFrames, CtlFrames DEF Tick, vars, otherVars

\* A task that has left the registry has its final status recorded, unless the
\* cancelTask that removed it is still under way; a callback that throws can lose
\* nothing but the record of a cancellation.
THEOREM EndsAreRecorded == Spec => []FinalStatusRecorded
<1>1. Init => RecordInv /\ CancelCounted /\ FinalStatusRecorded
  BY DEF Init, RecordInv, Recorded, CancelCounted, FinalStatusRecorded
<1>2. ASSUME TypeOK, CancelInv, RecordInv, CancelCounted, FinalStatusRecorded, [Next]_vars
      PROVE  FinalStatusRecorded'
  <2> SUFFICES ASSUME ~MayThrow' \/ NeverCancelled', NEW t \in 1..(nextId' - 1),
                      t \notin activeTasks', completedTasks'[t] = "none"
               PROVE  \E c \in Clients : Cancelling(c, t)'
    BY DEF FinalStatusRecorded
  <2>0. nextId \in 1..(MaxTasks + 1) /\ MaxTasks \in Nat
    BY <1>2, SchedulerAssumption DEF TypeOK, RecordTypes
  <2>1. ~MayThrow \/ NeverCancelled
    BY <1>2, CallbackSettled, CancellationsKept DEF MayThrow
  <2>2. t \in 1..(nextId - 1) /\ t \in Tasks
    <3>1. nextId' = nextId \/ (nextId' = nextId + 1 /\ nextId \in activeTasks' /\ nextId <= MaxTasks)
      <4>1. ASSUME NEW c \in Clients, ClientAction(c), nextId' # nextId
            PROVE  nextId' = nextId + 1 /\ nextId \in activeTasks' /\ nextId <= MaxTasks
        BY <4>1
        DEF ClientAction, ClientStep, ScheduleTask, SchedulePush, ScheduleCount,
            ScheduleNotify, CancelActive, CancelQueued, CancelStats, CancelCall,
            CancelRecord, recordVars
      <4> QED
        BY <1>2, <4>1, Actors, LoopFrames, WorkerFrames, CtlFrames DEF Tick, vars, recordVars
    <3> QED BY <2>0, <3>1 DEF Tasks
  <2>3. CASE t \in activeTasks
    BY <1>2, <2>2, <2>3, LeavesRecorded
  <2>4. CASE t \notin activeTasks
    <3>1. completedTasks[t] = "none"
      BY <1>2, <2>2, RecordsKept
    <3>2. PICK c \in Clients : Cancelling(c, t)
      BY <2>1, <1>2, <2>2, <2>4, <3>1 DEF FinalStatusRecorded
    <3>3. ~NeverCancelled
      BY <1>2, <3>2 DEF Cancelling, CancelCounted, NeverCancelled, Paying
    <3> QED BY <1>2, <2>1, <2>2, <3>2, <3>3, CancellingStep
  <2> QED BY <2>3, <2>4
<1>3. TypeOK /\ CancelInv /\ RecordInv /\ CancelCounted /\ FinalStatusRecorded /\ [Next]_vars
        => FinalStatusRecorded'
  BY <1>2
<1> QED
  BY <1>1, <1>3, RecordStep, CancelCountedStep, CancelledHaveLeft, TypeCorrect, PTL DEF Spec

-----------------------------------------------------------------------------
(* How a registered task is passed on *)

\* A task stays held if whoever held it holds it still or has passed it on.
LEMMA PassedOn ==
  ASSUME NEW t, Held(t), InQueue(t) => Held(t)', InHand(t) => Held(t)',
         InPool(t) => Held(t)', AtWorker(t) => Held(t)', AtClient(t) => Held(t)'
  PROVE  Held(t)'
  BY DEF Held

\* scheduleTask passes its task on to the queue, and cancelTask removes from the
\* queue only what is not registered.
LEMMA HeldClient ==
  ASSUME TypeOK, CancelInv, NEW t \in Tasks, t \in activeTasks, Held(t),
         NEW c \in Clients, ClientAction(c)
  PROVE  Held(t)'
<1>0. /\ taskQueue \in [Tasks -> Nat]
      /\ client \in [Clients -> [pc: ClientPC, task: Tasks \cup {NoTask}]]
  BY DEF TypeOK, QueueTypes, ClientTypes
<1>1. /\ InHand(t) => InHand(t)'
      /\ InPool(t) => InPool(t)'
      /\ AtWorker(t) => AtWorker(t)'
  BY ClientFrame, LoopLeftAlone, NotifyKeepsHand
  DEF poolVars, workerVars, InHand, Carrying, InPool, AtWorker, Executing
<1>2. CASE SchedulePush(c)
  <2>1. InQueue(t) => InQueue(t)'
    BY <1>0, <1>2 DEF SchedulePush, Push, InQueue
  <2>2. AtClient(t) => AtClient(t)' \/ InQueue(t)'
    BY <1>0, <1>2 DEF SchedulePush, Push, InQueue, GoClient, AtClient, Pushing
  <2> QED BY <1>1, <2>1, <2>2, PassedOn DEF Held
<1>3. CASE CancelQueued(c)
  <2>1. t # client[c].task
    BY <1>3 DEF CancelQueued, CancelInv
  <2>2. InQueue(t) => InQueue(t)'
    BY <1>0, <1>3, <2>1 DEF CancelQueued, RemoveAll, InQueue
  <2>3. AtClient(t) => AtClient(t)'
    BY <1>0, <1>3 DEF CancelQueued, GoClient, AtClient, Pushing
  <2> QED BY <1>1, <2>2, <2>3, PassedOn DEF Held
<1>4. CASE \/ \E cfg \in Configs : ScheduleTask(c, cfg)
           \/ \E u \in Targets : CancelActive(c, u)
           \/ ScheduleCount(c) \/ ScheduleNotify(c) \/ CancelStats(c) \/ CancelCall(c)
           \/ CancelRecord(c)
  <2>1. InQueue(t) => InQueue(t)'
    BY <1>4
    DEF ScheduleTask, CancelActive, ScheduleCount, ScheduleNotify, CancelStats, CancelCall,
        CancelRecord, queueVars, InQueue
  <2>2. AtClient(t) => AtClient(t)'
    <3>1. client[c].pc # "push" /\ \A d \in Clients : d # c => client'[d] = client[d]
      BY <1>0, <1>4
      DEF ScheduleTask, CancelActive, ScheduleCount, ScheduleNotify, CancelStats, CancelCall,
          CancelRecord, GoClient
    <3> QED BY <3>1 DEF AtClient, Pushing
  <2> QED BY <1>1, <2>1, <2>2, PassedOn DEF Held
<1> QED BY <1>2, <1>3, <1>4 DEF ClientAction, ClientStep

\* The loop drops only tasks it does not find in the registry or finds CANCELLED.
LEMMA HeldLoop ==
  ASSUME TypeOK, CancelInv, NEW t \in Tasks, t \in activeTasks, Held(t),
         LoopStep \/ SpuriousWakeup
  PROVE  Held(t)'
<1>0. /\ taskQueue \in [Tasks -> Nat] /\ pending \in Seq(Tasks)
      /\ task[t].status # "CANCELLED"
  BY DEF TypeOK, QueueTypes, PoolTypes, CancelInv
<1>1. (AtWorker(t) => AtWorker(t)') /\ (AtClient(t) => AtClient(t)')
  BY LoopFrames DEF workerVars, AtWorker, Executing, AtClient, Pushing
<1>2. CASE LoopPopDue
  <2>1. PICK u \in Tasks : /\ taskQueue[u] > 0 /\ hand' = u
                           /\ taskQueue' = [taskQueue EXCEPT ![u] = @ - 1]
    BY <1>0, <1>2 DEF LoopPopDue, Tops, PopTop
  <2>2. loop = "pop" /\ loop' = "lookup" /\ UNCHANGED pending
    BY <1>2 DEF LoopPopDue, GoLoop, LoopFrame, poolVars
  <2>3. InQueue(t) => InQueue(t)' \/ InHand(t)'
    BY <1>0, <2>1, <2>2 DEF InQueue, InHand, Carrying
  <2>4. ~InHand(t) /\ (InPool(t) => InPool(t)')
    BY <2>2 DEF InHand, Carrying, InPool
  <2> QED BY <1>1, <2>3, <2>4, PassedOn DEF Held
<1>3. CASE LoopPopEarly
  <2>1. PICK u \in Tasks : taskQueue[u] > 0 /\ taskQueue' = Push(PopTop(taskQueue, u), u)
    BY <1>0, <1>3 DEF LoopPopEarly, Tops
  <2>2. loop = "pop" /\ UNCHANGED pending
    BY <1>3 DEF LoopPopEarly, GoLoop, LoopFrame, poolVars
  <2>3. InQueue(t) => InQueue(t)'
    BY <1>0, <2>1 DEF InQueue, Push, PopTop
  <2>4. ~InHand(t) /\ (InPool(t) => InPool(t)')
    BY <2>2 DEF InHand, Carrying, InPool
  <2> QED BY <1>1, <2>3, <2>4, PassedOn DEF Held
<1>4. CASE LoopDispatch
  <2>1. /\ pending' = Append(pending, hand) /\ hand \in Tasks /\ UNCHANGED taskQueue
    BY <1>4 DEF LoopDispatch, GoLoop, Pool!Submit, TypeOK, QueueTypes, Carrying
  <2>2. /\ Len(pending) + 1 \in DOMAIN pending' /\ pending'[Len(pending) + 1] = hand
        /\ \A i \in DOMAIN pending : i \in DOMAIN pending' /\ pending'[i] = pending[i]
    BY <1>0, <2>1
  <2>3. (InPool(t) => InPool(t)') /\ (InHand(t) => InPool(t)') /\ (InQueue(t) => InQueue(t)')
    BY <2>1, <2>2 DEF InPool, InHand, InQueue
  <2> QED BY <1>1, <2>3, PassedOn DEF Held
<1>5. CASE \/ SpuriousWakeup \/ LoopTop \/ LoopPred \/ LoopBlock \/ LoopRewake \/ LoopBreak
           \/ LoopTimedPred \/ LoopTimedBlock \/ LoopTimeout \/ LoopLookup \/ LoopCheck
           \/ LoopMark
  <2>1. taskQueue' = taskQueue /\ pending' = pending
    BY <1>5
    DEF SpuriousWakeup, LoopTop, LoopPred, LoopBlock, LoopRewake, LoopBreak, LoopTimedPred,
        LoopTimedBlock, LoopTimeout, LoopLookup, LoopCheck, LoopMark, LoopFrame, poolVars
  <2>2. InHand(t) => InHand(t)'
    BY <1>0, <1>5
    DEF SpuriousWakeup, LoopTop, LoopPred, LoopBlock, LoopRewake, LoopBreak, LoopTimedPred,
        LoopTimedBlock, LoopTimeout, LoopLookup, LoopCheck, LoopMark, GoLoop, InHand,
        Carrying
  <2>3. (InPool(t) => InPool(t)') /\ (InQueue(t) => InQueue(t)')
    BY <2>1 DEF InPool, InQueue
  <2> QED BY <1>1, <2>2, <2>3, PassedOn DEF Held
<1> QED BY <1>2, <1>3, <1>4, <1>5 DEF LoopStep

\* A worker lets go of a task that it pushed back, that it takes out of the registry,
\* that was cancelled, or of whose failure the callback did not want to hear.
LEMMA HeldWorker ==
  ASSUME TypeOK, CancelInv, NEW t \in Tasks, t \in activeTasks, Held(t),
         NEW w \in Workers, WorkerStep(w), t \in activeTasks'
  PROVE  \/ Held(t)'
         \/ /\ MayThrow /\ running[w] = t /\ stage[w] = "call" /\ outcome[w] = "FAILED"
            /\ UNCHANGED task
<1>0. /\ taskQueue \in [Tasks -> Nat] /\ PoolTypes /\ t # NoTask
      /\ task[t].status # "CANCELLED"
  BY DEF TypeOK, QueueTypes, CancelInv, Tasks, NoTask
<1>1. (InHand(t) => InHand(t)') /\ (AtClient(t) => AtClient(t)')
  BY WorkerFrames, LoopLeftAlone, NotifyKeepsHand
  DEF InHand, Carrying, AtClient, Pushing
<1>2. CASE BeginTask(w)
  <2>1. /\ pending # <<>> /\ running' = [running EXCEPT ![w] = Head(pending)]
        /\ pending' = Tail(pending) /\ UNCHANGED taskQueue
        /\ stage[w] = "idle" /\ stage' = [stage EXCEPT ![w] = "exec"] /\ running[w] = NoTask
    BY <1>2 DEF BeginTask, Pool!Begin, GoStage, queueVars
  <2>2. \A v \in Workers : Executing(v, t) => Executing(v, t)'
    BY <1>0, <2>1 DEF Executing, PoolTypes
  <2>3. ASSUME NEW i \in DOMAIN pending, pending[i] = t PROVE InPool(t)' \/ AtWorker(t)'
    <3>1. CASE i = 1
      <4>1. Executing(w, t)'
        BY <1>0, <2>1, <2>3, <3>1 DEF Executing, PoolTypes
      <4> QED BY <4>1 DEF AtWorker
    <3>2. CASE i # 1
      <4>1. i - 1 \in DOMAIN pending' /\ pending'[i - 1] = t
        BY <1>0, <2>1, <2>3, <3>2 DEF PoolTypes
      <4> QED BY <4>1 DEF InPool
    <3> QED BY <3>1, <3>2
  <2>4. /\ InPool(t) => InPool(t)' \/ AtWorker(t)'
        /\ AtWorker(t) => AtWorker(t)'
        /\ InQueue(t) => InQueue(t)'
    BY <2>1, <2>2, <2>3 DEF InPool, AtWorker, InQueue
  <2> QED BY <1>1, <2>4, PassedOn DEF Held
<1>3. CASE PushBack(w)
  <2>1. /\ stage[w] = "push" /\ stage' = [stage EXCEPT ![w] = "notify"]
        /\ taskQueue' = Push(taskQueue, running[w]) /\ UNCHANGED <<running, pending>>
    BY <1>3 DEF PushBack, GoStage, poolVars
  <2>2. (InQueue(t) => InQueue(t)') /\ (running[w] = t => InQueue(t)')
    BY <1>0, <2>1 DEF Push, InQueue
  <2>3. \A v \in Workers : Executing(v, t) => Executing(v, t)' \/ InQueue(t)'
    BY <1>0, <2>1, <2>2 DEF Executing, PoolTypes
  <2>4. InPool(t) => InPool(t)'
    BY <2>1 DEF InPool
  <2> QED BY <1>1, <2>2, <2>3, <2>4, PassedOn DEF Held, AtWorker
<1>4. ASSUME NEW a, NEW b, b # "notify", GoStage(w, a, b), UNCHANGED <<poolVars, taskQueue>>
      PROVE  Held(t)'
  <2>1. \A v \in Workers : Executing(v, t) => Executing(v, t)'
    BY <1>0, <1>4 DEF GoStage, Executing, PoolTypes, poolVars
  <2>2. (InPool(t) => InPool(t)') /\ (InQueue(t) => InQueue(t)')
    BY <1>4 DEF InPool, InQueue, poolVars
  <2> QED BY <1>1, <2>1, <2>2, PassedOn DEF Held, AtWorker
<1>5. ASSUME NEW a, EndJob(w, a), ~Executing(w, t), UNCHANGED taskQueue PROVE Held(t)'
  <2>1. \A v \in Workers : Executing(v, t) => Executing(v, t)'
    BY <1>0, <1>5 DEF EndJob, GoStage, Pool!End, Executing, PoolTypes
  <2>2. (InPool(t) => InPool(t)') /\ (InQueue(t) => InQueue(t)')
    BY <1>5 DEF EndJob, Pool!End, InPool, InQueue
  <2> QED BY <1>1, <2>1, <2>2, PassedOn DEF Held, AtWorker
<1>6. CASE \/ FinishTask(w) \/ FinalizeCompleted(w) \/ SetOutcome(w) \/ UpdateStatistics(w)
           \/ CallbackReturns(w) \/ RecordStatus(w) \/ Reschedule(w) \/ ResetPending(w)
  BY <1>4, <1>6
  DEF FinishTask, FinalizeCompleted, SetOutcome, UpdateStatistics, CallbackReturns,
      RecordStatus, Reschedule, ResetPending, WorkerFrame, queueVars
<1>7. CASE FinalizeCancelled(w)
  BY <1>0, <1>5, <1>7 DEF FinalizeCancelled, Executing, queueVars
<1>8. CASE EraseTask(w)
  BY <1>5, <1>8 DEF EraseTask, Executing, queueVars
<1>9. CASE NotifyLoop(w)
  BY <1>5, <1>9 DEF NotifyLoop, EndJob, GoStage, Executing
<1>10. CASE LeavePool(w)
  <2>1. UNCHANGED <<pending, running, stage, taskQueue>>
    BY <1>10 DEF LeavePool, Pool!Leave, workerVars, queueVars
  <2>2. /\ InPool(t) => InPool(t)'
        /\ AtWorker(t) => AtWorker(t)'
        /\ InQueue(t) => InQueue(t)'
    BY <2>1 DEF InPool, AtWorker, Executing, InQueue
  <2> QED BY <1>1, <2>2, PassedOn DEF Held
<1>11. CASE CallbackThrows(w)
  <2>1. CASE GoStage(w, "call", "status") /\ UNCHANGED poolVars
    BY <1>4, <1>11, <2>1 DEF CallbackThrows, queueVars
  <2>2. CASE outcome[w] = "FAILED" /\ EndJob(w, "call")
    <3>1. CASE Executing(w, t)
      BY <1>11, <2>2, <3>1 DEF CallbackThrows, EndJob, GoStage, Executing, recordVars
    <3>2. CASE ~Executing(w, t)
      BY <1>5, <1>11, <2>2, <3>2 DEF CallbackThrows, queueVars
    <3> QED BY <3>1, <3>2
  <2> QED BY <1>11, <2>1, <2>2 DEF CallbackThrows
<1> QED BY <1>2, <1>3, <1>6, <1>7, <1>8, <1>9, <1>10, <1>11 DEF WorkerStep

\* start() finds no scheduler thread that carries a task, and stop() drops what is
\* in the pool only after closing it.
LEMMA HeldCtl ==
  ASSUME TypeOK, StopInv, ~closed, NEW t \in Tasks, Held(t), CtlStep
  PROVE  Held(t)'
<1>1. /\ InQueue(t) => InQueue(t)'
      /\ AtWorker(t) => AtWorker(t)'
      /\ AtClient(t) => AtClient(t)'
  BY CtlFrames DEF workerVars, InQueue, AtWorker, Executing, AtClient, Pushing
<1>2. UNCHANGED pending
  BY DEF CtlStep, StopStep, Start, Stop, StopWake, StopJoin, StopClosePool, StopDiscard,
         SetTaskCompletionCallback, Pool!Close, Pool!Discard, poolVars
<1>3. UNCHANGED loop \/ Notify \/ loop \in {"off", "exited"}
  BY DEF CtlStep, StopStep, Start, Stop, StopWake, StopJoin, StopClosePool, StopDiscard,
         SetTaskCompletionCallback, queueVars, StopInv
<1>4. InHand(t) => InHand(t)'
  BY <1>3, CtlFrames, NotifyKeepsHand DEF InHand, Carrying
<1>5. InPool(t) => InPool(t)'
  BY <1>2 DEF InPool
<1> QED BY <1>1, <1>4, <1>5, PassedOn DEF Held

-----------------------------------------------------------------------------
(* What getTaskStatus reports *)

Before == {"exec", "finalize"}
Told == {"stats", "call", "record", "erase", "resched", "pend"}

\* The status of t is the one of where t is; for the invariant to be inductive that
\* includes the way from the loop's mark to the worker, on which t is RUNNING already.
Fits(t) ==
  /\ InQueue(t) \/ AtClient(t) => task[t].status = "PENDING"
  /\ InHand(t) => task[t].status = IF loop = "dispatch" THEN "RUNNING" ELSE "PENDING"
  /\ InPool(t) => task[t].status = "RUNNING"
  /\ \A w \in Workers : running[w] = t =>
       /\ stage[w] \in Before => task[t].status = "RUNNING"
       /\ stage[w] \in Told => task[t].status = outcome[w]
       /\ stage[w] = "push" => task[t].status = "PENDING"
AllFit == \A t \in activeTasks : Fits(t)

\* getTaskStatus reports the status of the task object while the task is registered.
LEMMA ReportedStatus == AllFit => RegistryStatus
<1>1. \A t \in activeTasks : GetTaskStatus(t) = task[t].status
  BY DEF GetTaskStatus
<1> QED BY <1>1 DEF RegistryStatus, AllFit, Fits, Before, Told

\* The steps of a job follow each other; the outcome is set before it is reported and
\* stays as it is until the job ends.
LEMMA StageStep ==
  ASSUME TypeOK, [Next]_vars, NEW t \in Tasks, NEW v \in Workers, running'[v] = t
  PROVE  /\ stage'[v] \in Before => InPool(t) \/ (running[v] = t /\ stage[v] \in Before)
         /\ stage'[v] \in Told =>
              /\ running[v] = t /\ outcome'[v] = outcome[v]
              /\ stage[v] \in Told \/ SetOutcome(v)
         /\ stage'[v] = "push" => running[v] = t /\ (stage[v] = "push" \/ ResetPending(v))
<1> DEFINE Goal == /\ stage'[v] \in Before => InPool(t) \/ (running[v] = t /\ stage[v] \in Before)
                   /\ stage'[v] \in Told =>
                        /\ running[v] = t /\ outcome'[v] = outcome[v]
                        /\ stage[v] \in Told \/ SetOutcome(v)
                   /\ stage'[v] = "push" =>
                        running[v] = t /\ (stage[v] = "push" \/ ResetPending(v))
<1>0. PoolTypes
  BY DEF TypeOK
<1>1. ASSUME running'[v] = running[v], stage'[v] = stage[v], outcome'[v] = outcome[v] PROVE Goal
  BY <1>1
<1>2. ASSUME NEW w \in Workers, WorkerStep(w) PROVE Goal
  <2>1. ASSUME NEW a, NEW b, GoStage(w, a, b), UNCHANGED poolVars,
               v # w => outcome'[v] = outcome[v], v = w => Goal
        PROVE  Goal
    BY <1>0, <1>1, <2>1 DEF GoStage, PoolTypes, poolVars
  <2>2. ASSUME NEW a, EndJob(w, a) PROVE Goal
    <3>1. CASE v = w
      BY <1>0, <2>2, <3>1 DEF EndJob, GoStage, PoolTypes, Before, Told
    <3>2. CASE v # w
      BY <1>0, <1>1, <2>2, <3>2 DEF EndJob, GoStage, Pool!End, PoolTypes
    <3> QED BY <3>1, <3>2
  <2>3. CASE BeginTask(w)
    <3>1. /\ running' = [running EXCEPT ![w] = Head(pending)] /\ UNCHANGED outcome
          /\ stage' = [stage EXCEPT ![w] = "exec"] /\ InPool(Head(pending))
      BY <2>3, RunsStep DEF BeginTask, Pool!Begin, GoStage
    <3>2. CASE v = w
      BY <1>0, <3>1, <3>2 DEF PoolTypes, Before, Told
    <3> QED BY <1>0, <1>1, <3>1, <3>2 DEF PoolTypes
  <2>4. CASE FinishTask(w) \/ FinalizeCompleted(w) \/ SetOutcome(w) \/ ResetPending(w)
    <3>1. v = w => Goal
      BY <1>0, <2>4
      DEF FinishTask, FinalizeCompleted, SetOutcome, ResetPending, WorkerFrame, GoStage,
          poolVars, PoolTypes, Before, Told
    <3>2. v # w => outcome'[v] = outcome[v]
      BY <1>0, <2>4 DEF FinishTask, FinalizeCompleted, SetOutcome, ResetPending, WorkerFrame,
                        PoolTypes
    <3> QED
      BY <2>1, <2>4, <3>1, <3>2
      DEF FinishTask, FinalizeCompleted, SetOutcome, ResetPending, WorkerFrame
  <2>5. CASE \/ UpdateStatistics(w) \/ CallbackReturns(w) \/ RecordStatus(w) \/ Reschedule(w)
             \/ PushBack(w)
    <3>1. v = w => Goal
      BY <1>0, <2>5
      DEF UpdateStatistics, CallbackReturns, RecordStatus, Reschedule, PushBack, WorkerFrame,
          GoStage, poolVars, PoolTypes, Before, Told
    <3> QED
      BY <2>1, <2>5, <3>1
      DEF UpdateStatistics, CallbackReturns, RecordStatus, Reschedule, PushBack, WorkerFrame
  <2>6. CASE FinalizeCancelled(w) \/ EraseTask(w) \/ NotifyLoop(w)
    BY <2>2, <2>6 DEF FinalizeCancelled, EraseTask, NotifyLoop
  <2>7. CASE CallbackThrows(w)
    <3>1. ASSUME GoStage(w, "call", "status"), UNCHANGED poolVars,
                 outcome' = [outcome EXCEPT ![w] = "FAILED"]
          PROVE  Goal
      <4>1. v = w => Goal
        BY <1>0, <3>1 DEF GoStage, PoolTypes, Before, Told
      <4> QED BY <1>0, <2>1, <3>1, <4>1 DEF PoolTypes
    <3> QED BY <2>2, <2>7, <3>1 DEF CallbackThrows
  <2>8. CASE LeavePool(w)
    BY <1>1, <2>8 DEF LeavePool, Pool!Leave, workerVars
  <2> QED BY <1>2, <2>3, <2>4, <2>5, <2>6, <2>7, <2>8 DEF WorkerStep
<1> QED
  BY <1>1, <1>2, Actors, ClientFrame, LoopFrames, CtlFrames
  DEF Tick, vars, poolVars, workerVars

\* Each writer of a status owns the task, and moves it to where the status belongs.
LEMMA FitsStep ==
  ASSUME OwnerInv, OwnerInv', CancelInv, \A u \in activeTasks : Fits(u), [Next]_vars,
         NEW t \in Tasks, t \in activeTasks'
  PROVE  Fits(t)'
<1>0. /\ TypeOK /\ TypeOK' /\ t # NoTask
  BY DEF OwnerInv, Tasks, NoTask
<1>1. /\ InHand(t)' => /\ ~InQueue(t)' /\ ~AtClient(t)' /\ ~InPool(t)'
                       /\ \A w \in Workers : ~Executing(w, t)'
      /\ AtClient(t)' => /\ ~InHand(t)' /\ ~InPool(t)'
                         /\ \A w \in Workers : ~Executing(w, t)'
      /\ \A v \in Workers : Executing(v, t)' =>
           /\ ~InQueue(t)' /\ ~AtClient(t)' /\ ~InPool(t)' /\ ~InHand(t)'
           /\ \A w \in Workers : Executing(w, t)' => w = v
  BY DEF OwnerInv, SingleOwner, OneOwner, AtWorker
<1>2. ASSUME NEW w \in Workers, running'[w] = t, stage'[w] \in Before \cup Told \cup {"push"}
      PROVE  Executing(w, t)'
  BY <1>2 DEF Executing, Before, Told
<1>3. CASE LoopMark /\ hand = t /\ task'[t].status = "RUNNING"
  <2>1. InHand(t)' /\ loop' = "dispatch"
    BY <1>3 DEF LoopMark, GoLoop, InHand, Carrying
  <2> QED BY <1>1, <1>2, <1>3, <2>1 DEF Fits
<1>4. ASSUME NEW v \in Workers, SetOutcome(v), running[v] = t, task'[t].status = outcome[v]
      PROVE  Fits(t)'
  <2>1. running'[v] = t /\ stage'[v] = "stats" /\ outcome'[v] = outcome[v]
    BY <1>0, <1>4 DEF SetOutcome, GoStage, WorkerFrame, poolVars, TypeOK, PoolTypes
  <2>2. Executing(v, t)'
    BY <2>1 DEF Executing
  <2> QED BY <1>1, <1>2, <1>4, <2>1, <2>2 DEF Fits, Before, Told
<1>5. ASSUME NEW v \in Workers, ResetPending(v), running[v] = t, task'[t].status = "PENDING"
      PROVE  Fits(t)'
  <2>1. running'[v] = t /\ stage'[v] = "push"
    BY <1>0, <1>5 DEF ResetPending, GoStage, WorkerFrame, poolVars, TypeOK, PoolTypes
  <2>2. Executing(v, t)'
    BY <2>1 DEF Executing
  <2> QED BY <1>1, <1>2, <1>5, <2>1, <2>2 DEF Fits, Before, Told
<1>6. CASE task'[t].status = "PENDING" /\ t = nextId
  <2>1. t \notin activeTasks
    BY <1>0, <1>6, SchedulerAssumption DEF TypeOK, RecordTypes
  <2>2. PICK c \in Clients : \E cfg \in Configs : ScheduleTask(c, cfg)
    BY <1>0, <2>1, RegistryStep
  <2>3. Pushing(c, t)'
    BY <1>0, <1>6, <2>2 DEF ScheduleTask, GoClient, Pushing, TypeOK, ClientTypes
  <2> QED BY <1>1, <1>2, <1>6, <2>3 DEF Fits, AtClient
<1>7. ASSUME task'[t].status = task[t].status, t \in activeTasks,
             ~(LoopMark /\ hand = t),
             \A w \in Workers : running[w] = t => ~SetOutcome(w) /\ ~ResetPending(w)
      PROVE  Fits(t)'
  <2>0. Fits(t) /\ t # nextId
    BY <1>0, <1>7, SchedulerAssumption DEF TypeOK, RecordTypes
  <2>1. InQueue(t)' \/ AtClient(t)' => task'[t].status = "PENDING"
    <3>1. ASSUME NEW w \in Workers, PushBack(w), running[w] = t
          PROVE  task[t].status = "PENDING"
      BY <2>0, <3>1 DEF PushBack, GoStage, Fits
    <3> QED BY <1>0, <1>7, <2>0, <3>1, QueuedStep DEF Fits
  <2>2. InHand(t)' => task'[t].status = IF loop' = "dispatch" THEN "RUNNING" ELSE "PENDING"
    BY <1>0, <1>7, <2>0, HandStep DEF Fits, InHand
  <2>3. InPool(t)' => task'[t].status = "RUNNING"
    BY <1>0, <1>7, <2>0, PoolStep DEF Fits
  <2>4. ASSUME NEW w \in Workers, running'[w] = t
        PROVE  /\ stage'[w] \in Before => task'[t].status = "RUNNING"
               /\ stage'[w] \in Told => task'[t].status = outcome'[w]
               /\ stage'[w] = "push" => task'[t].status = "PENDING"
    BY <1>0, <1>7, <2>0, <2>4, StageStep DEF Fits
  <2> QED BY <2>1, <2>2, <2>3, <2>4 DEF Fits
<1>8. /\ LoopMark /\ hand = t => task'[t].status = "RUNNING"
      /\ \A w \in Workers : SetOutcome(w) /\ running[w] = t => task'[t].status = outcome[w]
      /\ \A w \in Workers : ResetPending(w) /\ running[w] = t => task'[t].status = "PENDING"
  <2>1. {"RUNNING", "PENDING"} \subseteq Status /\ FinalStatus \subseteq Status
    BY DEF Status
  <2>2. ASSUME LoopMark, hand = t PROVE task'[t].status = "RUNNING"
    BY <1>0, <2>1, <2>2, StatusOnly DEF LoopMark
  <2>3. ASSUME NEW w \in Workers, SetOutcome(w), running[w] = t
        PROVE  task'[t].status = outcome[w]
    <3>1. outcome[w] \in Status /\ SetStatus(t, outcome[w])
      BY <1>0, <2>1, <2>3 DEF SetOutcome, TypeOK, PoolTypes
    <3> QED BY <1>0, <3>1, StatusOnly
  <2>4. ASSUME NEW w \in Workers, ResetPending(w), running[w] = t
        PROVE  task'[t].status = "PENDING"
    BY <1>0, <2>1, <2>4, StatusOnly DEF ResetPending
  <2> QED BY <2>2, <2>3, <2>4
<1> QED BY <1>0, <1>3, <1>4, <1>5, <1>6, <1>7, <1>8, ActiveStatus

\* The status of a registered task is the one of where it is, at any time and for any
\* interleaving of clients, loop and workers.
THEOREM StatusFits == Spec => []AllFit
<1>1. Init => AllFit
  BY DEF Init, AllFit
<1>2. ASSUME OwnerInv, OwnerInv', CancelInv, AllFit, [Next]_vars PROVE AllFit'
  <2>1. activeTasks' \subseteq Tasks
    BY <1>2, ActiveAreTasks DEF OwnerInv
  <2> QED BY <1>2, <2>1, FitsStep DEF AllFit
<1>3. OwnerInv /\ OwnerInv' /\ CancelInv /\ AllFit /\ [Next]_vars => AllFit'
  BY <1>2
<1> QED BY <1>1, <1>3, Ownership, CancelledHaveLeft, PTL DEF Spec

\* What getTaskStatus reports of a registered task is what happens to it: PENDING in the
\* queue, RUNNING while it executes, then its outcome (setStatus is called without a
\* lock by the loop, by workers and by clients).
THEOREM StatusIsWhereItIs == Spec => []RegistryStatus
  BY StatusFits, ReportedStatus, PTL

-----------------------------------------------------------------------------
(* No registered task is forgotten *)

\* Only its owner changes the status of a registered task: of one that nobody holds
\* it stays as it is.
LEMMA UnheldKeepsStatus ==
  ASSUME TypeOK, CancelInv, [Next]_vars, NEW t \in Tasks, t \in activeTasks,
         t \in activeTasks', ~Held(t)
  PROVE  task'[t].status = task[t].status
<1>1. t # nextId
  BY SchedulerAssumption DEF TypeOK, RecordTypes
<1>2. ~(LoopMark /\ hand = t)
  BY DEF LoopMark, GoLoop, Held, InHand, Carrying
<1>3. \A w \in Workers : running[w] = t => ~SetOutcome(w) /\ ~ResetPending(w)
  BY DEF SetOutcome, ResetPending, GoStage, Held, AtWorker, Executing
<1> QED BY <1>1, <1>2, <1>3, ActiveStatus

\* Until the pool is stopped, every registered task is held by someone who will take
\* it further, or is one whose failure a throwing callback was told of: that one stays
\* registered as FAILED.
THEOREM NothingIsLost == Spec => []NoTaskLost
<1>1. Init => NoTaskLost
  BY DEF Init, NoTaskLost
<1>2. ASSUME TypeOK, TypeOK', CancelInv, StopInv, AllFit, NoTaskLost, [Next]_vars
      PROVE  NoTaskLost'
  <2> SUFFICES ASSUME ~closed', NEW t \in activeTasks'
               PROVE  Held(t)' \/ (MayThrow' /\ GetTaskStatus(t)' = "FAILED")
    BY DEF NoTaskLost
  <2>0. /\ t \in Tasks /\ GetTaskStatus(t)' = task'[t].status
        /\ MayThrow => MayThrow'
    <3>1. activeTasks' \subseteq Tasks
      BY <1>2, ActiveAreTasks
    <3> QED BY <1>2, <3>1, CallbackSettled DEF MayThrow, GetTaskStatus
  <2>1. ~closed
    BY <1>2, Actors, ClientFrame, LoopFrames, WorkerFrames
    DEF CtlStep, StopStep, Start, Stop, StopWake, StopJoin, StopClosePool, StopDiscard,
        SetTaskCompletionCallback, Pool!Close, Pool!Discard, Tick, vars, poolVars
  <2>2. CASE t \in activeTasks /\ Held(t)
    <3>1. CASE Tick \/ UNCHANGED vars
      BY <2>2, <3>1
      DEF Held, InQueue, InHand, Carrying, InPool, AtWorker, Executing, AtClient, Pushing,
          Tick, vars, queueVars, poolVars, workerVars, otherVars
    <3>2. ASSUME NEW w \in Workers, WorkerStep(w), ~Held(t)'
          PROVE  MayThrow /\ task'[t].status = "FAILED"
      <4>1. /\ MayThrow /\ running[w] = t /\ stage[w] = "call" /\ outcome[w] = "FAILED"
            /\ UNCHANGED task
        BY <1>2, <2>0, <2>2, <3>2, HeldWorker
      <4>2. GetTaskStatus(t) = "FAILED"
        BY <1>2, <2>2, <4>1, ReportedStatus DEF RegistryStatus
      <4> QED BY <2>2, <4>1, <4>2 DEF GetTaskStatus
    <3> QED
      BY <1>2, <2>0, <2>1, <2>2, <3>1, <3>2, Actors, HeldClient, HeldLoop, HeldCtl
  <2>3. CASE t \in activeTasks /\ ~Held(t)
    <3>1. MayThrow /\ task[t].status = "FAILED"
      BY <1>2, <2>1, <2>3 DEF NoTaskLost, GetTaskStatus
    <3> QED BY <1>2, <2>0, <2>3, <3>1, UnheldKeepsStatus
  <2>4. CASE t \notin activeTasks
    <3>1. PICK c \in Clients : \E cfg \in Configs : ScheduleTask(c, cfg)
      BY <1>2, <2>4, RegistryStep
    <3>2. t = nextId
      BY <1>2, <2>4, <3>1, RegistryStep
    <3>3. Pushing(c, t)'
      BY <1>2, <3>1, <3>2 DEF ScheduleTask, GoClient, Pushing, TypeOK, ClientTypes
    <3> QED BY <3>3 DEF Held, AtClient
  <2> QED BY <2>2, <2>3, <2>4
<1>3. TypeOK /\ TypeOK' /\ CancelInv /\ StopInv /\ AllFit /\ NoTaskLost /\ [Next]_vars
        => NoTaskLost'
  BY <1>2
<1> QED
  BY <1>1, <1>3, CancelledHaveLeft, StopInvariance, StatusFits, TypeCorrect, PTL
  DEF Spec
=============================================================================
