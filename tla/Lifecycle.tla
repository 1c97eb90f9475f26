----------------------------- MODULE Lifecycle -----------------------------
(***************************************************************************)
(* The life of a TaskScheduler object: start(), stop() and the destructor  *)
(* called by any thread, tasks included, down to the std::thread handles   *)
(* that they assign, test and join without a lock.  What the loop and the  *)
(* workers do is in TaskScheduler and ThreadPool; here the loop ends some  *)
(* time after isRunning is FALSE and a worker some time after stopFlag is  *)
(* TRUE (that a wakeup can be lost on the way is shown there).             *)
(***************************************************************************)
EXTENDS Integers

CONSTANTS
  Callers,     \* the threads of the application that use the object
  NumThreads,  \* numThreads of the constructor
  MaxJobs      \* bound on the jobs waiting in the pool

ASSUME LifecycleAssumption ==
  /\ NumThreads \in Nat /\ MaxJobs \in Nat
  /\ Callers \cap (1..NumThreads) = {}

Workers == 1..NumThreads
Threads == Callers \cup Workers

VARIABLES
  isRunning,   \* the atomic flag of TaskScheduler
  handle,      \* schedulerThread: "empty" or "joinable"
  loop,        \* the thread it stands for: "off", "on" or "exited"
  stopFlag,    \* the atomic flag of ThreadPool
  queued,      \* how many jobs wait in the pool
  worker,      \* "idle", "busy" or "exited"
  joined,      \* the workers whose handle is no longer joinable
  call,        \* where each thread is in start, stop or the destructor
  members,     \* "alive", "destroyed" but for threads and pool, or "gone"
  fate,        \* "ok", or what ended the process
  misused      \* history: stop() overlapped another call or came from a task

vars == <<isRunning, handle, loop, stopFlag, queued, worker, joined, call, members,
          fate, misused>>

NoCall == [pc |-> "none", i |-> 0, after |-> "none"]

Init ==
  /\ isRunning = FALSE /\ handle = "empty" /\ loop = "off"
  /\ stopFlag = FALSE /\ queued = 0
  /\ worker = [w \in Workers |-> "idle"] /\ joined = {}
  /\ call = [c \in Threads |-> NoCall]
  /\ members = "alive" /\ fate = "ok" /\ misused = FALSE

poolVars == <<stopFlag, queued, worker, joined>>
stateVars == <<isRunning, handle, loop, poolVars, members>>

At(c, pc) == fate = "ok" /\ call[c].pc = pc
Goto(c, pc) == call' = [call EXCEPT ![c].pc = pc]

\* An application thread may call until the destructor is called, a task while
\* it executes.
Ending == \E c \in Callers : call[c].after \in {"gut", "gone"} \/ call[c].pc \in {"gut", "drop"}
MayCall(c) ==
  /\ At(c, "none") /\ members = "alive"
  /\ IF c \in Workers THEN worker[c] = "busy" ELSE ~Ending

Others(c) == {d \in Threads \ {c} : call[d].pc # "none"}
Starting(d) == call[d].pc = "spawn"

\* The process ends: std::terminate, undefined behaviour, or an exception out
\* of stop().
Die(how) == fate' = how /\ UNCHANGED <<stateVars, call, misused>>

-----------------------------------------------------------------------------
(* start() *)

\* Mutant: the flag is stored, not exchanged.
StartExchangeAlways(c) ==
  /\ MayCall(c)
  /\ isRunning' = TRUE
  /\ misused' = (misused \/ \E d \in Others(c) : ~Starting(d))
  /\ Goto(c, "spawn")
  /\ UNCHANGED <<handle, loop, poolVars, members, fate>>

\* A call that finds the flag set returns and has no effect.
StartExchange(c) ==
  /\ MayCall(c) /\ ~isRunning
  /\ isRunning' = TRUE
  /\ misused' = (misused \/ \E d \in Others(c) : ~Starting(d))
  /\ Goto(c, "spawn")
  /\ UNCHANGED <<handle, loop, poolVars, members, fate>>

\* Assigning to a std::thread that is joinable calls std::terminate.
StartSpawn(c) ==
  /\ At(c, "spawn")
  /\ IF handle = "joinable" THEN Die("terminated")
     ELSE /\ handle' = "joinable" /\ loop' = "on"
          /\ Goto(c, "none")
          /\ UNCHANGED <<isRunning, poolVars, members, fate, misused>>

-----------------------------------------------------------------------------
(* stop(); after says what follows its return *)

EnterStop(c, after) ==
  /\ isRunning' = FALSE
  /\ call' = [call EXCEPT ![c] = [pc |-> "test", i |-> 0, after |-> after]]

Stop(c) ==
  /\ MayCall(c)
  /\ EnterStop(c, "none")
  /\ misused' = (misused \/ c \in Workers \/ Others(c) # {})
  /\ UNCHANGED <<handle, loop, poolVars, members, fate>>

\* Mutant: the scheduler thread is left to itself.
StopTestSkips(c) ==
  /\ At(c, "test")
  /\ Goto(c, "close")
  /\ UNCHANGED <<stateVars, fate, misused>>

StopTest(c) ==
  /\ At(c, "test")
  /\ Goto(c, IF handle = "joinable" THEN "join" ELSE "close")
  /\ UNCHANGED <<stateVars, fate, misused>>

\* join() of a handle that is no longer joinable throws; two threads joining the
\* same thread is undefined.
StopJoin(c) ==
  /\ At(c, "join")
  /\ \/ handle = "empty" /\ Die("threw")
     \/ handle # "empty" /\ (\E d \in Others(c) : At(d, "join")) /\ Die("undefined")
     \/ /\ handle # "empty" /\ loop = "exited"
        /\ handle' = "empty" /\ loop' = "off"
        /\ Goto(c, "close")
        /\ UNCHANGED <<isRunning, poolVars, members, fate, misused>>

\* ThreadPool::stop, which is noexcept: the flag, then the workers in order.
PoolClose(c) ==
  /\ At(c, "close")
  /\ stopFlag' = TRUE
  /\ call' = [call EXCEPT ![c].pc = "poolTest", ![c].i = 1]
  /\ UNCHANGED <<isRunning, handle, loop, queued, worker, joined, members, fate, misused>>

PoolTest(c) ==
  LET i == call[c].i IN
  /\ At(c, "poolTest") /\ i <= NumThreads
  /\ call' = IF i \in joined THEN [call EXCEPT ![c].i = i + 1]
                             ELSE [call EXCEPT ![c].pc = "poolJoin"]
  /\ UNCHANGED <<stateVars, fate, misused>>

\* Mutant: join() does not wait.
PoolJoinDetaches(c) ==
  LET i == call[c].i IN
  /\ At(c, "poolJoin")
  /\ joined' = joined \cup {i}
  /\ call' = [call EXCEPT ![c].pc = "poolTest", ![c].i = i + 1]
  /\ UNCHANGED <<isRunning, handle, loop, stopFlag, queued, worker, members, fate, misused>>

\* A worker that joins itself gets an exception, like one who comes too late.
PoolJoin(c) ==
  LET i == call[c].i IN
  /\ At(c, "poolJoin")
  /\ \/ (i = c \/ i \in joined) /\ Die("terminated")
     \/ (\E d \in Others(c) : At(d, "poolJoin") /\ call[d].i = i) /\ Die("undefined")
     \/ /\ i \notin joined /\ worker[i] = "exited"
        /\ joined' = joined \cup {i}
        /\ call' = [call EXCEPT ![c].pc = "poolTest", ![c].i = i + 1]
        /\ UNCHANGED <<isRunning, handle, loop, stopFlag, queued, worker, members, fate,
                       misused>>

\* Mutant: the front is popped without asking whether there is one.
PoolDiscardPops(c) ==
  /\ At(c, "poolTest") /\ call[c].i > NumThreads
  /\ queued' = queued - 1
  /\ call' = [call EXCEPT ![c] = IF @.after = "gut" THEN [NoCall EXCEPT !.pc = "gut"]
                                                    ELSE NoCall]
  /\ members' = IF call[c].after = "gone" THEN "gone" ELSE members
  /\ UNCHANGED <<isRunning, handle, loop, stopFlag, worker, joined, fate, misused>>

PoolDiscard(c) ==
  /\ At(c, "poolTest") /\ call[c].i > NumThreads
  /\ queued' = 0
  /\ call' = [call EXCEPT ![c] = IF @.after = "gut" THEN [NoCall EXCEPT !.pc = "gut"]
                                                    ELSE NoCall]
  /\ members' = IF call[c].after = "gone" THEN "gone" ELSE members
  /\ UNCHANGED <<isRunning, handle, loop, stopFlag, worker, joined, fate, misused>>

-----------------------------------------------------------------------------
(* ~TaskScheduler(), when no other thread is in a call *)

\* Mutant: the destructor leaves the stopping to the destructors of the members.
DestroyWithoutStop(c) ==
  /\ c \in Callers /\ MayCall(c) /\ Others(c) = {}
  /\ Goto(c, "gut")
  /\ UNCHANGED <<stateVars, fate, misused>>

Destroy(c) ==
  /\ c \in Callers /\ MayCall(c) /\ Others(c) = {}
  /\ \/ isRunning /\ EnterStop(c, "gut")
     \/ ~isRunning /\ Goto(c, "gut") /\ UNCHANGED isRunning
  /\ UNCHANGED <<handle, loop, poolVars, members, fate, misused>>

\* Members are destroyed in reverse order: statistics, registries, callback and
\* queue first, then schedulerThread, then threadPool.
Gut(c) ==
  /\ At(c, "gut")
  /\ members' = "destroyed"
  /\ Goto(c, "drop")
  /\ UNCHANGED <<isRunning, handle, loop, poolVars, fate, misused>>

\* A joinable std::thread must not be destroyed; ~ThreadPool calls its stop().
DropThread(c) ==
  /\ At(c, "drop")
  /\ IF handle = "joinable" THEN Die("terminated")
     ELSE /\ call' = [call EXCEPT ![c].pc = "close", ![c].after = "gone"]
          /\ UNCHANGED <<stateVars, fate, misused>>

CallStep(c) ==
  \/ StartExchange(c) \/ StartSpawn(c)
  \/ Stop(c) \/ StopTest(c) \/ StopJoin(c)
  \/ PoolClose(c) \/ PoolTest(c) \/ PoolJoin(c) \/ PoolDiscard(c)
  \/ Destroy(c) \/ Gut(c) \/ DropThread(c)

-----------------------------------------------------------------------------
(* The scheduler loop and the workers *)

LoopDispatch ==
  /\ fate = "ok" /\ loop = "on" /\ queued < MaxJobs
  /\ queued' = queued + 1
  /\ UNCHANGED <<isRunning, handle, loop, stopFlag, worker, joined, call, members, fate,
                 misused>>

LoopExit ==
  /\ fate = "ok" /\ loop = "on" /\ ~isRunning
  /\ loop' = "exited"
  /\ UNCHANGED <<isRunning, handle, poolVars, call, members, fate, misused>>

GoWorker(w, from, to) ==
  /\ fate = "ok" /\ worker[w] = from
  /\ worker' = [worker EXCEPT ![w] = to]
  /\ UNCHANGED <<isRunning, handle, loop, stopFlag, joined, call, members, fate, misused>>

WorkerTake(w) ==
  GoWorker(w, "idle", "busy") /\ ~stopFlag /\ queued > 0 /\ queued' = queued - 1
WorkerEnd(w) ==
  GoWorker(w, "busy", "idle") /\ call[w].pc = "none" /\ UNCHANGED queued
WorkerExit(w) ==
  GoWorker(w, "idle", "exited") /\ stopFlag /\ UNCHANGED queued

Next ==
  \/ \E c \in Threads : CallStep(c)
  \/ LoopDispatch \/ LoopExit
  \/ \E w \in Workers : WorkerTake(w) \/ WorkerEnd(w) \/ WorkerExit(w)

Spec == Init /\ [][Next]_vars

-----------------------------------------------------------------------------
(* Properties *)

PCs == {"none", "spawn", "test", "join", "close", "poolTest", "poolJoin", "gut", "drop"}

\* The values of flags, handles and counters (start, stop and the destructor).
TypeOK ==
  /\ isRunning \in BOOLEAN /\ stopFlag \in BOOLEAN /\ misused \in BOOLEAN
  /\ handle \in {"empty", "joinable"} /\ loop \in {"off", "on", "exited"}
  /\ queued \in 0..MaxJobs
  /\ worker \in [Workers -> {"idle", "busy", "exited"}] /\ joined \subseteq Workers
  /\ call \in [Threads -> [pc: PCs, i: 0..(NumThreads + 1), after: {"none", "gut", "gone"}]]
  /\ members \in {"alive", "destroyed", "gone"}
  /\ fate \in {"ok", "terminated", "undefined", "threw"}

\* Whatever mixture of start() from several threads and from tasks, stop(), start()
\* again and destruction: the process does not die of a std::thread handle, unless
\* stop() overlapped another call or was called by a task.
SafeUnlessMisused == fate # "ok" => misused

\* What ~TaskScheduler relies on: between calls, isRunning tells whether the
\* scheduler thread has to be joined.
FlagTellsJoinable ==
  ~misused /\ (\A c \in Threads : call[c].pc = "none") =>
    (isRunning <=> handle = "joinable")

\* Loop and tasks use the queue, the registries and the callback: nobody runs any
\* more when these are destroyed, and no worker is left when the pool is.
MembersOutliveThreads ==
  ~misused /\ members # "alive" =>
    /\ loop = "off" /\ queued = 0
    /\ \A w \in Workers : worker[w] # "busy"
    /\ members = "gone" => joined = Workers
=============================================================================
