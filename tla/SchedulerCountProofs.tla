------------------------ MODULE SchedulerCountProofs ------------------------
(***************************************************************************)
(* The statistics of the scheduler, for every number of workers, clients   *)
(* and tasks: each execution is counted, once, under its outcome, or the   *)
(* cancellation of its task is.                                            *)
(***************************************************************************)
EXTENDS SchedulerRegistryProofs, FiniteSetTheorems

\* The workers with a job; those that may still count its normal end, and those that
\* may still count a failure, of the function or of a callback told of its end.
Busy == {w \in Workers : stage[w] # "idle"}
ToEnd == {w \in Workers : \/ stage[w] \in {"exec", "finalize"}
                          \/ stage[w] \in {"status", "stats"} /\ outcome[w] # "FAILED"}
ToFail == {w \in Workers : \/ stage[w] \in {"exec", "finalize", "status", "stats"}
                           \/ stage[w] = "call" /\ outcome[w] # "FAILED"}
Ended == stats["COMPLETED"] + stats["TIMEOUT"]

\* t is past the loop's mark and not past the worker's look at its status.
Ahead(t) ==
  \/ InHand(t) /\ loop = "dispatch"
  \/ InPool(t)
  \/ \E w \in Workers : running[w] = t /\ stage[w] \in Before

\* A worker that finds its task CANCELLED does not count the execution.  The tasks of
\* which it will find that, and the cancellations, counted or about to be, that are not
\* set aside for one of these tasks: they excuse the executions no worker counted.
Owed == {t \in Tasks : task[t].status = "CANCELLED" /\ Ahead(t)}
Excused == stats["CANCELLED"] + Cardinality(Paying) - Cardinality(Owed)

\* The counters and the workers on their way to them, against the executions.  Before
\* the first task is created, while the callback may still be replaced, there is nothing
\* to count.
CountedInv ==
  /\ IsFiniteSet(Executions) /\ IsFiniteSet(Busy) /\ IsFiniteSet(Paying)
  /\ Counted + Cardinality(Uncounted) + Excused >= Cardinality(Executions)
  /\ ~MayThrow \/ nextId = 1 =>
       Counted + Cardinality(Uncounted) <= Cardinality(Executions)
  /\ Ended + Cardinality(ToEnd) <= Cardinality(Executions)
  /\ stats["FAILED"] + Cardinality(ToFail) <= Cardinality(Executions)

-----------------------------------------------------------------------------

\* One more run of u is one more execution.
LEMMA OneMoreExecution ==
  ASSUME TypeOK, NEW u \in Tasks, runs' = [runs EXCEPT ![u] = @ + 1]
  PROVE  /\ Executions' = Executions \cup {<<u, runs[u] + 1>>}
         /\ <<u, runs[u] + 1>> \notin Executions
<1>1. runs \in [Tasks -> Nat]
  BY DEF TypeOK, OtherTypes
<1>2. \A t \in Tasks : 1..runs'[t] = (1..runs[t]) \cup (IF t = u THEN {runs[u] + 1} ELSE {})
  BY <1>1
<1>3. Executions' = Executions \cup {<<u, runs[u] + 1>>}
  BY <1>2 DEF Executions
<1>4. <<u, runs[u] + 1>> \notin Executions
  <2>1. runs[u] + 1 \notin 1..runs[u]
    BY <1>1
  <2> QED BY <2>1 DEF Executions
<1> QED BY <1>3, <1>4

\* A task becomes CANCELLED only in cancelTask, which goes on to count it.
LEMMA CancelledBy ==
  ASSUME TypeOK, CancelInv, [Next]_vars, NEW t \in Tasks, task'[t].status = "CANCELLED",
         task[t].status # "CANCELLED"
  PROVE  \E c \in Clients : ClientAction(c) /\ GoClient(c, "cancelStats", t)
<1>0. /\ client \in [Clients -> [pc: ClientPC, task: Tasks \cup {NoTask}]]
      /\ 0 \notin Tasks /\ Targets \subseteq Tasks /\ "CANCELLED" \in Status
  BY SchedulerAssumption DEF TypeOK, ClientTypes, Tasks, Status, FinalStatus
<1>2. ASSUME NEW c \in Clients, ClientAction(c) PROVE GoClient(c, "cancelStats", t)
  <2>1. ASSUME NEW cfg \in Configs, ScheduleTask(c, cfg) PROVE FALSE
    <3>1. task \in [Tasks -> TaskRecord]
      BY DEF TypeOK, RecordTypes
    <3> QED BY <2>1, <3>1 DEF ScheduleTask, NewTask
  <2>2. ASSUME NEW u \in Targets, CancelActive(c, u) PROVE GoClient(c, "cancelStats", t)
    <3>1. u \in Tasks /\ u \in activeTasks /\ SetStatus(u, "CANCELLED")
      BY <1>0, <2>2 DEF CancelActive
    <3>2. u = t
      BY <1>0, <3>1, StatusOnly
    <3> QED BY <2>2, <3>1, <3>2 DEF CancelActive
  <2>3. CASE CancelQueued(c)
    <3>1. client[c].task \in Tasks
      BY <1>0, <2>3 DEF CancelQueued, TypeOK, ClientTypes, NoTask
    <3>2. taskQueue[client[c].task] > 0 /\ SetStatus(client[c].task, "CANCELLED")
      BY <2>3 DEF CancelQueued
    <3>3. client[c].task = t
      BY <1>0, <3>1, <3>2, StatusOnly
    <3> QED BY <2>3, <3>2, <3>3 DEF CancelQueued
  <2> QED
    BY <1>2, <2>1, <2>2, <2>3
    DEF ClientAction, ClientStep, SchedulePush, ScheduleCount, ScheduleNotify, CancelStats,
        CancelCall, CancelRecord, recordVars
<1>3. CASE LoopStep \/ SpuriousWakeup
  <2>1. CASE LoopMark
    <3>1. hand \in Tasks
      BY <2>1 DEF LoopMark, GoLoop, TypeOK, QueueTypes, Carrying
    <3>2. SetStatus(hand, "RUNNING") /\ "RUNNING" \in Status
      BY <2>1 DEF LoopMark, Status
    <3> QED BY <3>1, <3>2, StatusOnly
  <2> QED
    BY <1>3, <2>1
    DEF LoopStep, SpuriousWakeup, LoopTop, LoopPred, LoopBlock, LoopRewake, LoopBreak,
        LoopPopDue, LoopPopEarly, LoopTimedPred, LoopTimedBlock, LoopTimeout, LoopLookup,
        LoopCheck, LoopDispatch, LoopFrame, recordVars
<1>4. ASSUME NEW w \in Workers, WorkerStep(w) PROVE FALSE
  <2>1. CASE SetOutcome(w) \/ ResetPending(w)
    <3>1. running[w] \in Tasks /\ outcome[w] \in Status /\ outcome[w] # "CANCELLED"
      BY <2>1 DEF SetOutcome, ResetPending, GoStage, TypeOK, PoolTypes, Status, CancelInv
    <3>2. PICK s \in Status : SetStatus(running[w], s) /\ s # "CANCELLED"
      BY <2>1, <3>1 DEF SetOutcome, ResetPending, Status
    <3> QED BY <3>1, <3>2, StatusOnly
  <2>2. CASE Reschedule(w)
    BY <2>2, StartTimeOnly
  <2> QED
    BY <1>4, <2>1, <2>2
    DEF WorkerStep, BeginTask, FinishTask, FinalizeCancelled, FinalizeCompleted,
        UpdateStatistics, CallbackReturns, CallbackThrows, RecordStatus, EraseTask,
        PushBack, NotifyLoop, LeavePool, recordVars
<1> QED BY <1>2, <1>3, <1>4, Actors, CtlFrames DEF Tick, vars, recordVars

\* Nothing gets past the loop's mark but what the loop marks.
LEMMA AheadStep ==
  ASSUME TypeOK, [Next]_vars, NEW t \in Tasks, Ahead(t)'
  PROVE  Ahead(t) \/ (LoopMark /\ hand = t)
<1>1. CASE InHand(t)' /\ loop' = "dispatch"
  BY <1>1, HandStep DEF Ahead, InHand
<1>2. CASE InPool(t)'
  BY <1>2, PoolStep DEF Ahead
<1>3. ASSUME NEW w \in Workers, running'[w] = t, stage'[w] \in Before PROVE Ahead(t)
  BY <1>3, StageStep DEF Ahead
<1> QED BY <1>1, <1>2, <1>3 DEF Ahead

\* A task is owed for only when cancelTask has marked it, and goes on to count that.
LEMMA OwedBy ==
  ASSUME TypeOK, CancelInv, [Next]_vars, NEW t \in Owed', t \notin Owed
  PROVE  \E c \in Clients : ClientAction(c) /\ GoClient(c, "cancelStats", t)
<1>1. t \in Tasks /\ task'[t].status = "CANCELLED" /\ Ahead(t)'
  BY DEF Owed
<1>2. ~(LoopMark /\ hand = t)
  <2> SUFFICES ASSUME LoopMark, hand = t PROVE FALSE
    OBVIOUS
  <2>1. SetStatus(t, "RUNNING") /\ "RUNNING" \in Status
    BY DEF LoopMark, Status
  <2> QED BY <1>1, <2>1, StatusOnly
<1>3. task[t].status # "CANCELLED"
  BY <1>1, <1>2, AheadStep DEF Owed
<1> QED BY <1>1, <1>3, CancelledBy

\* Of the steps of a client, the call of cancelTask that marks a task puts it among those
\* who have to count, and CancelStats counts.
LEMMA PayingStep ==
  ASSUME TypeOK, NEW c \in Clients, ClientAction(c)
  PROVE  /\ Paying' \ {c} = Paying \ {c}
         /\ IF CancelStats(c)
            THEN /\ stats'["CANCELLED"] = stats["CANCELLED"] + 1
                 /\ c \in Paying /\ c \notin Paying'
            ELSE stats'["CANCELLED"] = stats["CANCELLED"] /\ c \notin Paying
<1>0. /\ stats \in [FinalStatus \cup {"SCHEDULED"} -> Nat] /\ "CANCELLED" \in FinalStatus
      /\ client \in [Clients -> [pc: ClientPC, task: Tasks \cup {NoTask}]]
  BY DEF TypeOK, RecordTypes, ClientTypes, FinalStatus
<1>1. \A d \in Clients : d # c => client'[d] = client[d]
  BY <1>0
  DEF ClientAction, ClientStep, ScheduleTask, SchedulePush, ScheduleCount, ScheduleNotify,
      CancelActive, CancelQueued, CancelStats, CancelCall, CancelRecord, GoClient
<1>2. ASSUME CancelStats(c)
      PROVE  /\ stats'["CANCELLED"] = stats["CANCELLED"] + 1
             /\ client[c].pc = "cancelStats" /\ client'[c].pc # "cancelStats"
  BY <1>0, <1>2 DEF CancelStats, Count, GoClient
<1>3. ASSUME ~CancelStats(c)
      PROVE  stats'["CANCELLED"] = stats["CANCELLED"] /\ client[c].pc # "cancelStats"
  BY <1>0, <1>3
  DEF ClientAction, ClientStep, ScheduleTask, SchedulePush, ScheduleCount, ScheduleNotify,
      CancelActive, CancelQueued, CancelCall, CancelRecord, Count, recordVars
<1> QED BY <1>1, <1>2, <1>3 DEF Paying

\* Excuses are numbers; a task less that is owed for is an excuse more.
LEMMA ExcuseTypes ==
  TypeOK /\ IsFiniteSet(Paying) =>
    /\ IsFiniteSet(Owed) /\ Cardinality(Owed) \in Nat /\ Cardinality(Paying) \in Nat
    /\ stats["CANCELLED"] \in Nat /\ Excused \in Int
<1> SUFFICES ASSUME TypeOK, IsFiniteSet(Paying)
             PROVE  /\ IsFiniteSet(Owed)
                    /\ Cardinality(Owed) \in Nat /\ Cardinality(Paying) \in Nat
                    /\ stats["CANCELLED"] \in Nat /\ Excused \in Int
  OBVIOUS
<1>1. IsFiniteSet(Tasks)
  BY SchedulerAssumption, FS_Interval DEF Tasks
<1>2. IsFiniteSet(Owed) /\ Cardinality(Owed) \in Nat /\ Cardinality(Paying) \in Nat
  BY <1>1, FS_Subset, FS_CardinalityType DEF Owed
<1>3. stats["CANCELLED"] \in Nat
  BY DEF TypeOK, RecordTypes, FinalStatus
<1> QED BY <1>2, <1>3 DEF Excused

-----------------------------------------------------------------------------

\* The invariant compares natural numbers.
LEMMA CountTypes ==
  ASSUME TypeOK, IsFiniteSet(Executions), IsFiniteSet(Busy)
  PROVE  /\ Cardinality(Executions) \in Nat
         /\ Counted \in Nat /\ Ended \in Nat /\ stats["FAILED"] \in Nat
         /\ \A S \in {Uncounted, ToEnd, ToFail} : IsFiniteSet(S) /\ Cardinality(S) \in Nat
<1>1. /\ stats["COMPLETED"] \in Nat /\ stats["FAILED"] \in Nat /\ stats["TIMEOUT"] \in Nat
  BY DEF TypeOK, RecordTypes, FinalStatus
<1>2. \A S \in {Uncounted, ToEnd, ToFail} : S \subseteq Busy
  BY DEF Uncounted, ToEnd, ToFail, Busy
<1>3. ASSUME NEW S \in {Uncounted, ToEnd, ToFail} PROVE IsFiniteSet(S) /\ Cardinality(S) \in Nat
  BY <1>2, <1>3, FS_Subset, FS_CardinalityType
<1>4. Cardinality(Executions) \in Nat
  BY FS_CardinalityType
<1>5. Counted \in Nat /\ Ended \in Nat
  BY <1>1 DEF Counted, Ended
<1> QED BY <1>1, <1>3, <1>4, <1>5

\* A set of threads that one thread enters or leaves grows or shrinks by one.
LEMMA OneWorker ==
  ASSUME NEW S, NEW T, NEW w, IsFiniteSet(S), T \ {w} = S \ {w}
  PROVE  /\ (w \in T <=> w \in S) => Cardinality(T) = Cardinality(S)
         /\ w \in T /\ w \notin S => Cardinality(T) = Cardinality(S) + 1
         /\ w \in S /\ w \notin T => Cardinality(T) = Cardinality(S) - 1
<1>1. (w \in T <=> w \in S) => T = S
  OBVIOUS
<1>2. CASE w \in T /\ w \notin S
  <2>1. T = S \cup {w}
    BY <1>2
  <2> QED BY <1>2, <2>1, FS_AddElement
<1>3. CASE w \in S /\ w \notin T
  <2>1. T = S \ {w}
    BY <1>3
  <2> QED BY <1>3, <2>1, FS_RemoveElement
<1> QED BY <1>1, <1>2, <1>3

\* A step of w changes the sets of workers at w only.
LEMMA OnlyOneWorker ==
  ASSUME TypeOK, NEW w \in Workers, WorkerStep(w)
  PROVE  /\ Uncounted' \ {w} = Uncounted \ {w} /\ ToEnd' \ {w} = ToEnd \ {w}
         /\ ToFail' \ {w} = ToFail \ {w} /\ Busy' \ {w} = Busy \ {w}
<1>0. stage \in [Workers -> Stages] /\ outcome \in [Workers -> FinalStatus]
  BY DEF TypeOK, PoolTypes
<1>1. ASSUME NEW v \in Workers, v # w PROVE stage'[v] = stage[v] /\ outcome'[v] = outcome[v]
  BY <1>0, <1>1
  DEF WorkerStep, BeginTask, FinishTask, FinalizeCancelled, FinalizeCompleted, SetOutcome,
      UpdateStatistics, CallbackReturns, CallbackThrows, RecordStatus, EraseTask,
      Reschedule, ResetPending, PushBack, NotifyLoop, LeavePool, EndJob, GoStage,
      WorkerFrame, workerVars
<1> QED BY <1>1 DEF Uncounted, ToEnd, ToFail, Busy

\* A cancellation that is counted, or about to be, remains so.
LEMMA CancellationsGrow ==
  ASSUME TypeOK, CancelInv, IsFiniteSet(Paying), [Next]_vars
  PROVE  /\ IsFiniteSet(Paying')
         /\ \/ stats'["CANCELLED"] + Cardinality(Paying') = stats["CANCELLED"] + Cardinality(Paying)
            \/ \E c \in Clients :
                 /\ c \notin Paying /\ Paying' = Paying \cup {c}
                 /\ stats'["CANCELLED"] = stats["CANCELLED"]
<1>1. CASE UNCHANGED client /\ stats'["CANCELLED"] = stats["CANCELLED"]
  BY <1>1 DEF Paying
<1>2. ASSUME NEW c \in Clients, ClientAction(c), CancelStats(c)
      PROVE  /\ IsFiniteSet(Paying')
             /\ stats'["CANCELLED"] + Cardinality(Paying') = stats["CANCELLED"] + Cardinality(Paying)
  <2>1. /\ Paying' = Paying \ {c} /\ c \in Paying
        /\ stats'["CANCELLED"] = stats["CANCELLED"] + 1
    BY <1>2, PayingStep
  <2>2. IsFiniteSet(Paying') /\ Cardinality(Paying') = Cardinality(Paying) - 1
    BY <2>1, FS_RemoveElement
  <2>3. stats["CANCELLED"] \in Nat /\ Cardinality(Paying) \in Nat
    BY ExcuseTypes
  <2> QED BY <2>1, <2>2, <2>3
<1>3. ASSUME NEW c \in Clients, ClientAction(c), ~CancelStats(c)
      PROVE  /\ c \notin Paying /\ stats'["CANCELLED"] = stats["CANCELLED"]
             /\ IsFiniteSet(Paying')
             /\ Paying' = Paying \/ Paying' = Paying \cup {c}
  <2>1. /\ Paying' \ {c} = Paying \ {c} /\ c \notin Paying
        /\ stats'["CANCELLED"] = stats["CANCELLED"]
    BY <1>3, PayingStep
  <2>2. Paying' = Paying \/ Paying' = Paying \cup {c}
    BY <2>1
  <2> QED BY <2>1, <2>2, FS_AddElement
<1>4. ASSUME NEW w \in Workers, WorkerStep(w)
      PROVE  UNCHANGED client /\ stats'["CANCELLED"] = stats["CANCELLED"]
  <2>1. outcome[w] # "CANCELLED" /\ stats \in [FinalStatus \cup {"SCHEDULED"} -> Nat]
    BY DEF CancelInv, TypeOK, RecordTypes
  <2>2. stats'["CANCELLED"] = stats["CANCELLED"]
    BY <1>4, <2>1
    DEF WorkerStep, BeginTask, FinishTask, FinalizeCancelled, FinalizeCompleted, SetOutcome,
        UpdateStatistics, CallbackReturns, CallbackThrows, RecordStatus, EraseTask,
        Reschedule, ResetPending, PushBack, NotifyLoop, LeavePool, Count, recordVars,
        FinalStatus
  <2> QED BY <1>4, <2>2, WorkerFrames
<1>5. CASE LoopStep \/ SpuriousWakeup \/ CtlStep \/ Tick \/ UNCHANGED vars
  <2>1. UNCHANGED <<client, stats>>
    BY <1>5, LoopFrames, CtlFrames DEF Tick, vars, recordVars, otherVars
  <2> QED BY <1>1, <2>1
<1>6. ASSUME NEW c \in Clients, ClientAction(c)
      PROVE  /\ IsFiniteSet(Paying')
             /\ \/ stats'["CANCELLED"] + Cardinality(Paying') = stats["CANCELLED"] + Cardinality(Paying)
                \/ /\ c \notin Paying /\ Paying' = Paying \cup {c}
                   /\ stats'["CANCELLED"] = stats["CANCELLED"]
  BY <1>2, <1>3, <1>6
<1> QED BY <1>1, <1>4, <1>5, <1>6, Actors

\* No step uses up an excuse, and the one that leaves an execution uncounted because its
\* task was cancelled frees one.
LEMMA ExcusedStep ==
  ASSUME OwnerInv, TypeOK', CancelInv, IsFiniteSet(Paying), [Next]_vars
  PROVE  /\ IsFiniteSet(Paying') /\ Excused \in Int /\ Excused' \in Int
         /\ Excused' >= Excused
         /\ \A w \in Workers : FinalizeCancelled(w) => Excused' >= Excused + 1
<1> DEFINE C == stats["CANCELLED"]
           P == Cardinality(Paying)
           O == Cardinality(Owed)
<1>0. /\ TypeOK /\ C \in Nat /\ P \in Nat /\ O \in Nat
      /\ IsFiniteSet(Owed) /\ Excused = C + P - O
  BY ExcuseTypes DEF OwnerInv, Excused
<1>1. /\ IsFiniteSet(Paying')
      /\ \/ C' + P' = C + P
         \/ \E c \in Clients : c \notin Paying /\ Paying' = Paying \cup {c} /\ C' = C
  BY <1>0, CancellationsGrow
<1>2. /\ IsFiniteSet(Owed') /\ O' \in Nat /\ P' \in Nat /\ C' \in Nat
      /\ Excused' \in Int /\ Excused' = C' + P' - O'
  <2>1. TypeOK' /\ IsFiniteSet(Paying)' =>
          /\ IsFiniteSet(Owed)' /\ (Cardinality(Owed) \in Nat)' /\ (Cardinality(Paying) \in Nat)'
          /\ (stats["CANCELLED"] \in Nat)' /\ (Excused \in Int)'
    BY ExcuseTypes, PTL
  <2> QED BY <1>1, <2>1 DEF Excused
<1>3. C' + P' >= C + P
  <2>1. ASSUME NEW c \in Clients, c \notin Paying, Paying' = Paying \cup {c}, C' = C
        PROVE  C' + P' >= C + P
    <3>1. P' = P + 1
      BY <2>1, FS_AddElement
    <3> QED BY <1>0, <2>1, <3>1
  <2> QED BY <1>0, <1>1, <1>2, <2>1
<1>4. ASSUME Owed' \subseteq Owed PROVE Excused' >= Excused
  <2>1. O' <= O
    BY <1>0, <1>4, FS_Subset
  <2> QED BY <1>0, <1>2, <1>3, <2>1
<1>5. ASSUME NEW t \in Owed', t \notin Owed PROVE Excused' >= Excused
  <2>0. client \in [Clients -> [pc: ClientPC, task: Tasks \cup {NoTask}]]
    BY <1>0 DEF TypeOK, ClientTypes
  <2>1. PICK c \in Clients : ClientAction(c) /\ GoClient(c, "cancelStats", t)
    BY <1>0, <1>5, OwedBy
  <2>2. /\ c \in Paying' /\ c \notin Paying /\ C' = C /\ client[c].pc # "cancelStats"
        /\ Paying' \ {c} = Paying \ {c}
    <3>1. c \in Paying'
      BY <2>0, <2>1 DEF GoClient, Paying
    <3> QED BY <1>0, <2>1, <3>1, PayingStep DEF Paying
  <2>3. ASSUME NEW u \in Owed', u \notin Owed PROVE u = t
    <3>1. PICK d \in Clients : GoClient(d, "cancelStats", u)
      BY <1>0, <2>3, OwedBy
    <3>2. client'[c].pc = "cancelStats" /\ client'[c].task = t /\ client'[d].task = u
      BY <2>0, <2>1, <3>1 DEF GoClient
    <3>3. d = c
      BY <2>0, <2>2, <3>1, <3>2 DEF GoClient
    <3> QED BY <3>2, <3>3
  <2>4. Owed' \subseteq Owed \cup {t}
    BY <2>3
  <2>5. O' <= O + 1
    <3>1. IsFiniteSet(Owed \cup {t}) /\ Cardinality(Owed \cup {t}) = O + 1
      BY <1>0, <1>5, FS_AddElement
    <3> QED BY <2>4, <3>1, FS_Subset
  <2>6. P' = P + 1
    <3>1. Paying' = Paying \cup {c}
      BY <2>2
    <3> QED BY <2>2, <3>1, FS_AddElement
  <2> QED BY <1>0, <1>2, <2>2, <2>5, <2>6
<1>6. ASSUME NEW w \in Workers, FinalizeCancelled(w) PROVE Excused' >= Excused + 1
  <2>0. PICK t \in Tasks : running[w] = t
    BY <1>0, <1>6 DEF FinalizeCancelled, EndJob, GoStage, TypeOK, PoolTypes
  <2>1. /\ stage[w] = "finalize" /\ task[t].status = "CANCELLED"
        /\ UNCHANGED <<task, loop, hand, pending, client, stats>>
        /\ stage'[w] = "idle" /\ running'[w] = NoTask
        /\ \A v \in Workers : v # w => stage'[v] = stage[v] /\ running'[v] = running[v]
        /\ NoTask \notin Tasks
    BY <1>0, <1>6, <2>0
    DEF FinalizeCancelled, EndJob, GoStage, Pool!End, TypeOK, PoolTypes, Tasks, NoTask, queueVars,
        recordVars, otherVars
  <2>2. t \in Owed
    BY <2>0, <2>1 DEF Owed, Ahead, Before
  <2>3. ~Ahead(t)'
    <3>1. AtWorker(t) /\ Executing(w, t) /\ OneOwner(t)
      BY <2>0, <2>1 DEF AtWorker, Executing, OwnerInv, SingleOwner
    <3>2. ~InHand(t) /\ ~InPool(t) /\ \A v \in Workers : v # w => ~Executing(v, t)
      BY <3>1 DEF OneOwner
    <3>3. ~InHand(t)' /\ ~InPool(t)'
      BY <2>1, <3>2 DEF InHand, Carrying, InPool
    <3>4. \A v \in Workers : ~(running'[v] = t /\ stage'[v] \in Before)
      BY <2>1, <3>2 DEF Executing, Before
    <3> QED BY <3>3, <3>4 DEF Ahead
  <2>4. Owed' \subseteq Owed
    <3>1. \A u \in Owed' : u \in Owed
      <4> SUFFICES ASSUME NEW u \in Owed', u \notin Owed PROVE FALSE
        OBVIOUS
      <4>1. PICK c \in Clients : ClientAction(c) /\ GoClient(c, "cancelStats", u)
        BY <1>0, OwedBy
      <4>2. c \in Paying' /\ (c \notin Paying \/ c \notin Paying')
        BY <1>0, <4>1, PayingStep DEF GoClient, Paying, TypeOK, ClientTypes
      <4> QED BY <2>1, <4>2 DEF Paying
    <3> QED BY <3>1
  <2>5. O' <= O - 1
    <3>1. Owed' \subseteq Owed \ {t}
      BY <2>1, <2>3, <2>4 DEF Owed
    <3>2. IsFiniteSet(Owed \ {t}) /\ Cardinality(Owed \ {t}) = O - 1
      BY <1>0, <2>2, FS_RemoveElement
    <3> QED BY <3>1, <3>2, FS_Subset
  <2> QED BY <1>0, <1>2, <1>3, <2>5
<1>7. Excused' >= Excused
  BY <1>4, <1>5
<1>8. Excused \in Int /\ Excused' \in Int
  <2> QED BY <1>0, <1>2
<1> QED BY <1>1, <1>6, <1>7, <1>8

\* While no callback may throw, or no task exists, it was so before the step.
LEMMA ThrowingSettled ==
  ASSUME TypeOK, [Next]_vars, ~MayThrow' \/ nextId' = 1
  PROVE  ~MayThrow \/ nextId = 1
<1>1. nextId \in Nat /\ nextId >= 1
  BY SchedulerAssumption DEF TypeOK, RecordTypes
<1>2. nextId' = nextId \/ nextId' = nextId + 1
  BY RunsStep
<1> QED BY <1>1, <1>2, CallbackSettled DEF MayThrow

\* When a callback throws the step is neither the first nor harmless.
LEMMA ThrowingKnown ==
  ASSUME OwnerInv, NEW w \in Workers, CallbackThrows(w)
  PROVE  ~(~MayThrow' \/ nextId' = 1)
<1>1. stage[w] = "call" /\ running[w] \in Tasks
  BY DEF CallbackThrows, EndJob, GoStage, OwnerInv, TypeOK, PoolTypes
<1>2. Held(running[w])
  BY <1>1 DEF Held, AtWorker, Executing
<1>3. running[w] < nextId /\ running[w] \in Nat /\ running[w] >= 1
  BY <1>1, <1>2 DEF OwnerInv, Fresh, Tasks
<1>4. nextId \in Nat
  BY SchedulerAssumption DEF OwnerInv, TypeOK, RecordTypes
<1> QED BY <1>3, <1>4 DEF CallbackThrows, MayThrow, recordVars, otherVars

\* An execution is begun with a worker that will count it, and counted by that worker,
\* unless the worker finds that its task was cancelled.
LEMMA CountedStep ==
  ASSUME OwnerInv, TypeOK', CancelInv, CountedInv, [Next]_vars
  PROVE  CountedInv'
<1> DEFINE E == Cardinality(Executions)
           U == Cardinality(Uncounted)
           T == Cardinality(ToEnd)
           F == Cardinality(ToFail)
           Settled == ~MayThrow \/ nextId = 1
<1>0. /\ TypeOK /\ IsFiniteSet(Executions) /\ IsFiniteSet(Busy) /\ IsFiniteSet(Paying)
      /\ stats \in [FinalStatus \cup {"SCHEDULED"} -> Nat]
      /\ stage \in [Workers -> Stages]
      /\ outcome \in [Workers -> FinalStatus]
  BY DEF OwnerInv, CountedInv, TypeOK, RecordTypes, PoolTypes
<1>1. /\ E \in Nat /\ U \in Nat /\ T \in Nat /\ F \in Nat
      /\ Counted \in Nat /\ Ended \in Nat /\ stats["FAILED"] \in Nat
      /\ IsFiniteSet(Uncounted) /\ IsFiniteSet(ToEnd) /\ IsFiniteSet(ToFail)
  BY <1>0, CountTypes
<1>2. /\ Counted + U + Excused >= E
      /\ Settled => Counted + U <= E
      /\ Ended + T <= E
      /\ stats["FAILED"] + F <= E
  BY DEF CountedInv
<1>3. /\ Settled' => Settled
      /\ IsFiniteSet(Paying') /\ Excused \in Int /\ Excused' \in Int /\ Excused' >= Excused
  BY <1>0, ThrowingSettled, ExcusedStep
<1>3a. PICK k \in Nat : Excused' = Excused + k
  <2>1. \A x, y \in Int : y >= x => \E i \in Nat : y = x + i
    <3>1. ASSUME NEW x \in Int, NEW y \in Int, y >= x PROVE y - x \in Nat /\ y = x + (y - x)
      BY <3>1
    <3> QED BY <3>1
  <2> QED BY <1>3, <2>1
<1>4. ASSUME IsFiniteSet(Executions'), IsFiniteSet(Busy'),
             Counted' + U' + Excused' >= E',
             Settled' => Counted' + U' <= E',
             Ended' + T' <= E',
             stats'["FAILED"] + F' <= E'
      PROVE  CountedInv'
  BY <1>3, <1>4 DEF CountedInv
<1>5. ASSUME UNCHANGED <<runs, stage, outcome>>,
             \A s \in {"COMPLETED", "FAILED", "TIMEOUT"} : stats'[s] = stats[s]
      PROVE  CountedInv'
  <2>1. /\ UNCHANGED <<Executions, Busy, Uncounted, ToEnd, ToFail>>
        /\ UNCHANGED <<Counted, Ended>> /\ stats'["FAILED"] = stats["FAILED"]
    BY <1>5 DEF Executions, Busy, Uncounted, ToEnd, ToFail, Counted, Ended
  <2>2. E' = E /\ U' = U /\ T' = T /\ F' = F
    BY <2>1
  <2> HIDE DEF E, U, T, F, Settled
  <2> QED BY <1>0, <1>1, <1>2, <1>3, <1>3a, <1>4, <2>1, <2>2
<1>6. ASSUME NEW c \in Clients, ClientAction(c) PROVE CountedInv'
  <2>1. \A s \in {"COMPLETED", "FAILED", "TIMEOUT"} : stats'[s] = stats[s]
    BY <1>0, <1>6
    DEF ClientAction, ClientStep, ScheduleTask, SchedulePush, ScheduleCount, ScheduleNotify,
        CancelActive, CancelQueued, CancelStats, CancelCall, CancelRecord, Count, recordVars,
        FinalStatus
  <2>2. UNCHANGED <<runs, stage, outcome>>
    BY <1>6, ClientFrame DEF workerVars
  <2> QED BY <1>5, <2>1, <2>2
<1>7. ASSUME NEW w \in Workers, WorkerStep(w) PROVE CountedInv'
  <2>0. IsFiniteSet(Busy')
    <3>1. Busy' \subseteq Busy \cup {w}
      BY <1>0, <1>7, OnlyOneWorker
    <3> QED BY <1>0, <3>1, FS_AddElement, FS_Subset
  <2>1. /\ (w \in Uncounted' <=> w \in Uncounted) => U' = U
        /\ w \in Uncounted' /\ w \notin Uncounted => U' = U + 1
        /\ w \in Uncounted /\ w \notin Uncounted' => U' = U - 1
    BY <1>0, <1>1, <1>7, OnlyOneWorker, OneWorker
  <2>2. /\ (w \in ToEnd' <=> w \in ToEnd) => T' = T
        /\ w \in ToEnd' /\ w \notin ToEnd => T' = T + 1
        /\ w \in ToEnd /\ w \notin ToEnd' => T' = T - 1
    BY <1>0, <1>1, <1>7, OnlyOneWorker, OneWorker
  <2>3. /\ (w \in ToFail' <=> w \in ToFail) => F' = F
        /\ w \in ToFail' /\ w \notin ToFail => F' = F + 1
        /\ w \in ToFail /\ w \notin ToFail' => F' = F - 1
    BY <1>0, <1>1, <1>7, OnlyOneWorker, OneWorker
  <2>4. CASE BeginTask(w)
    <3>1. /\ Head(pending) \in Tasks /\ UNCHANGED stats
          /\ runs' = [runs EXCEPT ![Head(pending)] = @ + 1]
          /\ stage[w] = "idle" /\ stage'[w] = "exec"
      BY <1>0, <2>4, RunsStep DEF BeginTask, GoStage, recordVars
    <3>2. /\ w \in Uncounted' /\ w \in ToEnd' /\ w \in ToFail'
          /\ w \notin Uncounted /\ w \notin ToEnd /\ w \notin ToFail
      BY <3>1 DEF Uncounted, ToEnd, ToFail
    <3>3. IsFiniteSet(Executions') /\ E' = E + 1
      <4>1. PICK x : Executions' = Executions \cup {x} /\ x \notin Executions
        BY <1>0, <3>1, OneMoreExecution
      <4> QED BY <1>0, <4>1, FS_AddElement
    <3>4. Counted' = Counted /\ Ended' = Ended /\ stats'["FAILED"] = stats["FAILED"]
      BY <3>1 DEF Counted, Ended
    <3>5. U' = U + 1 /\ T' = T + 1 /\ F' = F + 1
      BY <2>1, <2>2, <2>3, <3>2
    <3> HIDE DEF E, U, T, F, Settled
    <3> QED BY <1>1, <1>2, <1>3, <1>3a, <1>4, <2>0, <3>3, <3>4, <3>5
  <2>5. CASE UpdateStatistics(w)
    <3>1. /\ UNCHANGED <<runs, outcome>> /\ stats' = [stats EXCEPT ![outcome[w]] = @ + 1]
          /\ stage[w] = "stats" /\ stage'[w] = "call"
          /\ outcome[w] \in {"COMPLETED", "FAILED", "TIMEOUT"}
      BY <1>0, <2>5
      DEF UpdateStatistics, GoStage, Count, WorkerFrame, otherVars, FinalStatus, CancelInv
    <3>2. IsFiniteSet(Executions') /\ E' = E
      BY <1>0, <3>1 DEF Executions
    <3>3. Counted' = Counted + 1 /\ U' = U - 1
      <4>1. Counted' = Counted + 1
        BY <1>0, <3>1 DEF Counted, FinalStatus
      <4>2. w \in Uncounted /\ w \notin Uncounted'
        BY <3>1 DEF Uncounted
      <4> QED BY <2>1, <4>1, <4>2
    <3>4. Ended' + T' = Ended + T
      <4>1. Ended' = IF outcome[w] = "FAILED" THEN Ended ELSE Ended + 1
        BY <1>0, <3>1 DEF Ended, FinalStatus
      <4>2. w \notin ToEnd' /\ (w \in ToEnd <=> outcome[w] # "FAILED")
        BY <3>1 DEF ToEnd
      <4> HIDE DEF T
      <4> QED BY <1>1, <2>2, <4>1, <4>2
    <3>5. stats'["FAILED"] + F' = stats["FAILED"] + F
      <4>1. stats'["FAILED"] = IF outcome[w] = "FAILED" THEN stats["FAILED"] + 1 ELSE stats["FAILED"]
        BY <1>0, <3>1 DEF FinalStatus
      <4>2. w \in ToFail /\ (w \in ToFail' <=> outcome[w] # "FAILED")
        BY <3>1 DEF ToFail
      <4> HIDE DEF F
      <4> QED BY <1>1, <2>3, <4>1, <4>2
    <3> HIDE DEF E, U, T, F, Settled
    <3> QED BY <1>1, <1>2, <1>3, <1>3a, <1>4, <2>0, <3>2, <3>3, <3>4, <3>5
  <2>6. ASSUME UNCHANGED <<runs, stats>>,
               w \in Uncounted => w \in Uncounted' \/ Excused' >= Excused + 1,
               Settled' /\ w \in Uncounted' => w \in Uncounted,
               w \in ToEnd' => w \in ToEnd,
               w \in ToFail' => w \in ToFail
        PROVE  CountedInv'
    <3>1. IsFiniteSet(Executions') /\ E' = E
      BY <1>0, <2>6 DEF Executions
    <3>2. Counted' = Counted /\ Ended' = Ended /\ stats'["FAILED"] = stats["FAILED"]
      BY <2>6 DEF Counted, Ended
    <3>3. T' <= T /\ F' <= F
      BY <1>1, <2>2, <2>3, <2>6
    <3>4. U' + Excused' >= U + Excused /\ (Settled' => U' <= U)
      BY <1>1, <1>3, <2>1, <2>6
    <3>5. U' \in Int /\ T' \in Int /\ F' \in Int
      BY <1>1, <2>1, <2>2, <2>3
    <3>6. Counted' + U' + Excused' >= E'
      BY <1>1, <1>2, <1>3, <3>1, <3>2, <3>4, <3>5
    <3> QED BY <1>1, <1>2, <1>3, <1>4, <2>0, <3>1, <3>2, <3>3, <3>4, <3>5, <3>6
  <2>7. CASE FinalizeCancelled(w)
    <3>1. UNCHANGED <<runs, stats>> /\ stage'[w] = "idle"
      BY <1>0, <2>7 DEF FinalizeCancelled, EndJob, GoStage, recordVars, otherVars
    <3>2. w \notin Uncounted' /\ w \notin ToEnd' /\ w \notin ToFail'
      BY <3>1 DEF Uncounted, ToEnd, ToFail
    <3>3. Excused' >= Excused + 1
      BY <1>0, <2>7, ExcusedStep
    <3> QED BY <2>6, <3>1, <3>2, <3>3
  <2>8. CASE CallbackThrows(w)
    <3>1. ~Settled'
      BY <2>8, ThrowingKnown
    <3>2. /\ UNCHANGED <<runs, stats>> /\ stage[w] = "call"
          /\ \/ stage'[w] = "idle"
             \/ stage'[w] = "status" /\ outcome[w] # "FAILED" /\ outcome'[w] = "FAILED"
      BY <1>0, <2>8 DEF CallbackThrows, EndJob, GoStage, recordVars, otherVars
    <3>3. /\ w \notin Uncounted /\ w \notin ToEnd'
          /\ w \in ToFail' => w \in ToFail
      BY <3>2 DEF Uncounted, ToEnd, ToFail
    <3> QED BY <2>6, <3>1, <3>2, <3>3
  <2>9. CASE FinishTask(w) \/ FinalizeCompleted(w) \/ SetOutcome(w)
    <3>1. /\ UNCHANGED <<runs, stats>> /\ stage[w] \in {"exec", "finalize", "status"}
          /\ stage'[w] \in {"finalize", "status", "stats"}
          /\ stage[w] = "status" => stage'[w] = "stats" /\ outcome'[w] = outcome[w]
      BY <1>0, <2>9
      DEF FinishTask, FinalizeCompleted, SetOutcome, GoStage, WorkerFrame, recordVars, otherVars
    <3>2. /\ w \in Uncounted /\ w \in Uncounted' /\ w \in ToFail
          /\ w \in ToEnd' => w \in ToEnd
      BY <3>1 DEF Uncounted, ToEnd, ToFail
    <3> QED BY <2>6, <3>1, <3>2
  <2>10. CASE \/ CallbackReturns(w) \/ RecordStatus(w) \/ EraseTask(w) \/ Reschedule(w)
              \/ ResetPending(w) \/ PushBack(w) \/ NotifyLoop(w) \/ LeavePool(w)
    <3>1. UNCHANGED <<runs, stats>>
      BY <2>10
      DEF CallbackReturns, RecordStatus, EraseTask, Reschedule, ResetPending, PushBack,
          NotifyLoop, LeavePool, WorkerFrame, recordVars, otherVars
    <3>2. /\ UNCHANGED <<stage, outcome>> \/ stage'[w] \notin {"exec", "finalize", "status", "stats", "call"}
          /\ UNCHANGED stage \/ stage[w] \notin {"exec", "finalize", "status", "stats"}
      BY <1>0, <2>10
      DEF CallbackReturns, RecordStatus, EraseTask, Reschedule, ResetPending, PushBack,
          NotifyLoop, LeavePool, EndJob, GoStage, workerVars
    <3>3. /\ w \in Uncounted' <=> w \in Uncounted
          /\ w \in ToEnd' => w \in ToEnd
          /\ w \in ToFail' => w \in ToFail
      BY <3>2 DEF Uncounted, ToEnd, ToFail
    <3> QED BY <2>6, <3>1, <3>3
  <2> QED BY <1>7, <2>4, <2>5, <2>7, <2>8, <2>9, <2>10 DEF WorkerStep
<1>8. CASE \/ LoopStep \/ SpuriousWakeup \/ CtlStep \/ Tick \/ UNCHANGED vars
  <2>1. UNCHANGED <<runs, stats, stage, outcome>>
    BY <1>8, LoopFrames, CtlFrames DEF Tick, vars, workerVars, recordVars, otherVars
  <2> QED BY <1>5, <2>1
<1> QED BY <1>6, <1>7, <1>8, Actors

\* Every execution is counted or excused by a cancellation of its own, and counted once,
\* unless the callback throws; even then it adds at most one failure to each.
THEOREM RunsAreCounted == Spec => []EachRunCounted
<1>1. Init => CountedInv
  <2> SUFFICES ASSUME Init PROVE CountedInv
    OBVIOUS
  <2>1. /\ Executions = {} /\ Busy = {} /\ Uncounted = {} /\ ToEnd = {} /\ ToFail = {}
        /\ Counted = 0 /\ Ended = 0 /\ stats["FAILED"] = 0
    BY DEF Init, Executions, Busy, Uncounted, ToEnd, ToFail, Counted, Ended, FinalStatus
  <2>2. Owed = {} /\ Paying = {} /\ stats["CANCELLED"] = 0
    BY DEF Init, BlankTask, Owed, Paying, FinalStatus
  <2>3. Excused = 0
    BY <2>2, FS_EmptySet DEF Excused
  <2> QED BY <2>1, <2>2, <2>3, FS_EmptySet DEF CountedInv
<1>2. ASSUME TypeOK, CountedInv PROVE EachRunCounted
  <2>1. /\ Cardinality(Executions) \in Nat /\ Cardinality(ToEnd) \in Nat
        /\ Cardinality(ToFail) \in Nat /\ Ended \in Nat /\ stats["FAILED"] \in Nat
    BY <1>2, CountTypes DEF CountedInv
  <2>2. /\ Ended + Cardinality(ToEnd) <= Cardinality(Executions)
        /\ stats["FAILED"] + Cardinality(ToFail) <= Cardinality(Executions)
    BY <1>2 DEF CountedInv
  <2>3. Ended <= Cardinality(Executions) /\ stats["FAILED"] <= Cardinality(Executions)
    BY <2>1, <2>2
  <2>4. Counted + Cardinality(Uncounted) + stats["CANCELLED"] + Cardinality(Paying)
          >= Cardinality(Executions)
    <3>1. /\ Cardinality(Owed) \in Nat /\ Cardinality(Paying) \in Nat
          /\ stats["CANCELLED"] \in Nat /\ Counted \in Nat /\ Cardinality(Uncounted) \in Nat
      BY <1>2, ExcuseTypes, CountTypes DEF CountedInv
    <3>2. Counted + Cardinality(Uncounted) + Excused >= Cardinality(Executions)
      BY <1>2 DEF CountedInv
    <3> QED BY <2>1, <3>1, <3>2 DEF Excused
  <2> QED BY <1>2, <2>3, <2>4 DEF CountedInv, EachRunCounted, Ended
<1>3. TypeOK /\ CountedInv => EachRunCounted
  BY <1>2
<1>4. OwnerInv /\ TypeOK' /\ CancelInv /\ CountedInv /\ [Next]_vars => CountedInv'
  BY CountedStep
<1> QED BY <1>1, <1>3, <1>4, TypeCorrect, Ownership, CancelledHaveLeft, PTL DEF Spec
=============================================================================
