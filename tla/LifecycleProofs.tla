-------------------------- MODULE LifecycleProofs --------------------------
(***************************************************************************)
(* Why start(), stop() and the destructor are safe with unsynchronized     *)
(* std::thread handles, for every number of callers, workers and jobs, as  *)
(* long as stop() overlaps no other call and is not called by a task.      *)
(***************************************************************************)
EXTENDS Lifecycle, TLAPS

InCall(c) == call[c].pc # "none"

\* Loop and workers have nothing to do and nothing to find.
Quiet == loop = "off" /\ queued = 0 /\ \A w \in Workers : worker[w] # "busy"

\* What holds however the object is used: the types, the index of the loop in
\* ThreadPool::stop, the handle against the thread it stands for, and that join()
\* returns only for a thread that has ended.
BasicInv ==
  /\ TypeOK
  /\ \A c \in Threads : /\ call[c].pc = "poolTest" => call[c].i >= 1
                        /\ call[c].pc = "poolJoin" => call[c].i \in Workers
  /\ handle = "empty" <=> loop = "off"
  /\ \A w \in joined : worker[w] = "exited"

\* Where the one call that is under way has got to.
Progress(c) ==
  LET pc == call[c].pc IN
  /\ pc = "spawn" => isRunning /\ handle = "empty" /\ members = "alive"
  /\ pc \notin {"none", "spawn"} => c \in Callers /\ ~isRunning
  /\ pc \in {"none", "spawn"} => call[c].after = "none"
  /\ pc \in {"test", "join"} => members = "alive" /\ call[c].after # "gone"
  /\ pc = "join" => handle = "joinable"
  /\ pc \in {"close", "poolTest", "poolJoin", "gut", "drop"} => handle = "empty"
  /\ pc \in {"poolTest", "poolJoin"} => \A w \in Workers : w < call[c].i => w \in joined
  /\ pc = "poolJoin" => call[c].i \notin joined
  /\ pc \in {"gut", "drop"} => Quiet /\ call[c].after # "gone"
  /\ pc = "drop" \/ call[c].after = "gone" => members = "destroyed"

\* Unless the object was misused: one call at a time, and between two calls the flag
\* tells whether there is a thread to join and a stopped object is quiet.
Orderly ==
  /\ fate = "ok"
  /\ \A c, d \in Threads : InCall(c) /\ InCall(d) => c = d
  /\ \A c \in Threads : Progress(c)
  /\ (\A c \in Threads : ~InCall(c)) =>
       (isRunning <=> handle = "joinable") /\ (~isRunning => Quiet)
  /\ members # "alive" => ~isRunning /\ handle = "empty" /\ Quiet
  /\ members = "gone" => joined = Workers /\ \A c \in Threads : ~InCall(c)

IInv == BasicInv /\ (~misused => Orderly)

CallRecord == [pc: PCs, i: 0..(NumThreads + 1), after: {"none", "gut", "gone"}]

\* c has got to pc; the other threads are where they were.
Moved(c, pc, i, after) ==
  /\ call' \in [Threads -> CallRecord]
  /\ call'[c].pc = pc /\ call'[c].i = i /\ call'[c].after = after
  /\ \A d \in Threads : d # c => call'[d] = call[d]

-----------------------------------------------------------------------------
(* The records of the callers *)

\* What the assignments of the actions do to the record of the caller.
LEMMA CallMoves ==
  ASSUME TypeOK, NEW c \in Threads
  PROVE  /\ call[c].pc \in PCs /\ call[c].i \in 0..(NumThreads + 1)
         /\ call[c].after \in {"none", "gut", "gone"}
         /\ \A pc \in PCs : Goto(c, pc) => Moved(c, pc, call[c].i, call[c].after)
         /\ \A after \in {"none", "gut"} : EnterStop(c, after) => Moved(c, "test", 0, after)
         /\ PoolClose(c) => Moved(c, "poolTest", 1, call[c].after)
         /\ DropThread(c) /\ handle # "joinable" => Moved(c, "close", call[c].i, "gone")
         /\ PoolTest(c) /\ call[c].i \in joined =>
              Moved(c, "poolTest", call[c].i + 1, call[c].after)
         /\ PoolTest(c) /\ call[c].i \notin joined =>
              Moved(c, "poolJoin", call[c].i, call[c].after)
         /\ PoolDiscard(c) =>
              Moved(c, IF call[c].after = "gut" THEN "gut" ELSE "none", 0, "none")
<1>1. call \in [Threads -> CallRecord]
  BY DEF TypeOK, CallRecord
<1>2. /\ call[c].pc \in PCs /\ call[c].i \in 0..(NumThreads + 1)
      /\ call[c].after \in {"none", "gut", "gone"}
  BY <1>1 DEF CallRecord
<1>3. ASSUME NEW pc \in PCs, Goto(c, pc) PROVE Moved(c, pc, call[c].i, call[c].after)
  <2>1. call' = [call EXCEPT ![c].pc = pc]
    BY <1>3 DEF Goto
  <2>2. call' \in [Threads -> CallRecord]
    BY <1>1, <2>1 DEF CallRecord
  <2> QED BY <1>1, <2>1, <2>2 DEF Moved, CallRecord
<1>4. ASSUME NEW after \in {"none", "gut"}, EnterStop(c, after) PROVE Moved(c, "test", 0, after)
  <2>1. [pc |-> "test", i |-> 0, after |-> after] \in CallRecord
    BY LifecycleAssumption DEF CallRecord, PCs
  <2> QED BY <1>1, <1>4, <2>1 DEF EnterStop, Moved
<1>5. ASSUME PoolClose(c) PROVE Moved(c, "poolTest", 1, call[c].after)
  <2>1. call' = [call EXCEPT ![c].pc = "poolTest", ![c].i = 1]
    BY <1>5 DEF PoolClose
  <2>2. "poolTest" \in PCs /\ 1 \in 0..(NumThreads + 1)
    BY LifecycleAssumption DEF PCs
  <2>3. call' \in [Threads -> CallRecord]
    BY <1>1, <1>2, <2>1, <2>2 DEF CallRecord
  <2> QED BY <1>1, <2>1, <2>3 DEF Moved, CallRecord
<1>6. ASSUME DropThread(c), handle # "joinable" PROVE Moved(c, "close", call[c].i, "gone")
  <2>1. call' = [call EXCEPT ![c].pc = "close", ![c].after = "gone"]
    BY <1>6 DEF DropThread
  <2>2. call' \in [Threads -> CallRecord]
    BY <1>1, <1>2, <2>1, LifecycleAssumption DEF CallRecord, PCs
  <2> QED BY <1>1, <2>1, <2>2 DEF Moved, CallRecord
<1>7. ASSUME PoolTest(c), call[c].i \in joined
      PROVE  Moved(c, "poolTest", call[c].i + 1, call[c].after)
  <2>1. /\ call' = [call EXCEPT ![c].i = call[c].i + 1] /\ call[c].pc = "poolTest"
        /\ call[c].i + 1 \in 0..(NumThreads + 1)
    BY <1>2, <1>7, LifecycleAssumption DEF PoolTest, At
  <2>2. call' \in [Threads -> CallRecord]
    BY <1>1, <1>2, <2>1 DEF CallRecord
  <2> QED BY <1>1, <2>1, <2>2 DEF Moved, CallRecord
<1>8. ASSUME PoolTest(c), call[c].i \notin joined
      PROVE  Moved(c, "poolJoin", call[c].i, call[c].after)
  BY <1>3, <1>8 DEF PoolTest, Goto, PCs
<1>9. ASSUME PoolDiscard(c)
      PROVE  Moved(c, IF call[c].after = "gut" THEN "gut" ELSE "none", 0, "none")
  <2> DEFINE r == [pc |-> IF call[c].after = "gut" THEN "gut" ELSE "none", i |-> 0, after |-> "none"]
  <2>1. r \in CallRecord
    BY LifecycleAssumption DEF CallRecord, PCs
  <2>2. [NoCall EXCEPT !.pc = "gut"] = [pc |-> "gut", i |-> 0, after |-> "none"]
    BY DEF NoCall
  <2>3. call' = [call EXCEPT ![c] = r]
    BY <1>1, <1>9, <2>2 DEF PoolDiscard, NoCall
  <2> QED BY <1>1, <2>1, <2>3 DEF Moved
<1> QED BY <1>2, <1>3, <1>4, <1>5, <1>6, <1>7, <1>8, <1>9

-----------------------------------------------------------------------------
(* What holds however the object is used *)

\* The part of BasicInv about the callers.
Calls ==
  /\ call \in [Threads -> CallRecord]
  /\ \A c \in Threads : /\ call[c].pc = "poolTest" => call[c].i >= 1
                        /\ call[c].pc = "poolJoin" => call[c].i \in Workers

\* The part about the flags, the handles and the threads they stand for.
Handles ==
  /\ isRunning \in BOOLEAN /\ stopFlag \in BOOLEAN /\ misused \in BOOLEAN
  /\ handle \in {"empty", "joinable"} /\ loop \in {"off", "on", "exited"}
  /\ queued \in 0..MaxJobs
  /\ worker \in [Workers -> {"idle", "busy", "exited"}] /\ joined \subseteq Workers
  /\ members \in {"alive", "destroyed", "gone"}
  /\ fate \in {"ok", "terminated", "undefined", "threw"}
  /\ handle = "empty" <=> loop = "off"
  /\ \A w \in joined : worker[w] = "exited"

\* BasicInv consists of the two.
LEMMA BasicParts == BasicInv <=> Calls /\ Handles
  BY DEF BasicInv, TypeOK, Calls, Handles, CallRecord

\* Callers stay within the loop of ThreadPool::stop.
LEMMA CallsStep == BasicInv /\ [Next]_vars => Calls'
<1> SUFFICES ASSUME BasicInv, [Next]_vars PROVE Calls'
  OBVIOUS
<1>0. TypeOK /\ Calls /\ NumThreads \in Nat
  BY BasicParts, LifecycleAssumption DEF BasicInv
<1>1. ASSUME NEW c \in Threads, NEW pc, NEW i, NEW after, Moved(c, pc, i, after),
             pc = "poolTest" => i >= 1, pc = "poolJoin" => i \in Workers
      PROVE  Calls'
  BY <1>0, <1>1 DEF Moved, Calls
<1>2. CASE UNCHANGED call
  BY <1>0, <1>2 DEF Calls
<1>3. ASSUME NEW c \in Threads, CallStep(c) PROVE Calls'
  <2>1. ASSUME NEW pc \in PCs \ {"poolTest", "poolJoin"}, Goto(c, pc) PROVE Calls'
    BY <1>0, <1>1, <2>1, CallMoves
  <2>2. ASSUME NEW after \in {"none", "gut"}, EnterStop(c, after) PROVE Calls'
    BY <1>0, <1>1, <2>2, CallMoves
  <2>3. CASE PoolClose(c)
    BY <1>0, <1>1, <2>3, CallMoves
  <2>4. CASE PoolTest(c)
    <3>1. call[c].i \in Nat /\ call[c].i >= 1 /\ call[c].i <= NumThreads
      <4>1. call[c].i \in 0..(NumThreads + 1)
        BY <1>0, CallMoves
      <4> QED BY <1>0, <2>4, <4>1 DEF PoolTest, At, Calls
    <3>2. call[c].i \in Workers /\ call[c].i + 1 >= 1
      BY <1>0, <3>1 DEF Workers
    <3>3. CASE call[c].i \in joined
      BY <1>0, <1>1, <2>4, <3>2, <3>3, CallMoves
    <3>4. CASE call[c].i \notin joined
      BY <1>0, <1>1, <2>4, <3>2, <3>4, CallMoves
    <3> QED BY <3>3, <3>4
  <2>5. CASE PoolJoin(c)
    <3>1. CASE call' = [call EXCEPT ![c].pc = "poolTest", ![c].i = call[c].i + 1]
      <4>1. /\ call[c].i \in Workers /\ call[c].i + 1 \in 0..(NumThreads + 1)
            /\ call[c].i + 1 >= 1 /\ "poolTest" \in PCs
        BY <1>0, <2>5 DEF PoolJoin, At, Calls, Workers, PCs
      <4>2. call \in [Threads -> CallRecord]
        BY <1>0 DEF Calls
      <4>3. call' \in [Threads -> CallRecord]
        BY <3>1, <4>1, <4>2 DEF CallRecord
      <4>4. Moved(c, "poolTest", call[c].i + 1, call[c].after)
        BY <3>1, <4>2, <4>3 DEF Moved, CallRecord
      <4> QED BY <1>1, <4>1, <4>4
    <3> QED BY <1>2, <2>5, <3>1 DEF PoolJoin, Die
  <2>6. CASE PoolDiscard(c)
    <3>1. Moved(c, IF call[c].after = "gut" THEN "gut" ELSE "none", 0, "none")
      BY <1>0, <2>6, CallMoves
    <3> QED BY <1>1, <3>1
  <2>7. CASE DropThread(c)
    <3>1. CASE handle # "joinable"
      BY <1>0, <1>1, <2>7, <3>1, CallMoves
    <3> QED BY <1>2, <2>7, <3>1 DEF DropThread, Die
  <2> QED
    BY <1>2, <1>3, <2>1, <2>2, <2>3, <2>4, <2>5, <2>6, <2>7
    DEF CallStep, StartExchange, StartSpawn, Stop, StopTest, StopJoin, Destroy, Gut, Die, PCs
<1> QED
  BY <1>2, <1>3
  DEF Next, vars, LoopDispatch, LoopExit, WorkerTake, WorkerEnd, WorkerExit, GoWorker

\* A handle is joinable while it stands for a thread, and a joined worker has ended.
LEMMA HandlesStep == BasicInv /\ [Next]_vars => Handles'
<1> SUFFICES ASSUME BasicInv, [Next]_vars PROVE Handles'
  OBVIOUS
<1>0. Calls /\ Handles /\ MaxJobs \in Nat /\ 0 \in 0..MaxJobs
  BY BasicParts, LifecycleAssumption
<1>1. ASSUME NEW how \in {"terminated", "undefined", "threw"}, Die(how) PROVE Handles'
  BY <1>0, <1>1 DEF Die, stateVars, poolVars, Handles
<1>2. ASSUME NEW c \in Threads, CallStep(c) PROVE Handles'
  <2>1. CASE StartExchange(c) \/ Stop(c)
    BY <1>0, <2>1 DEF StartExchange, Stop, EnterStop, poolVars, Handles
  <2>2. CASE StartSpawn(c)
    BY <1>0, <1>1, <2>2 DEF StartSpawn, poolVars, Handles
  <2>3. CASE StopJoin(c)
    BY <1>0, <1>1, <2>3 DEF StopJoin, poolVars, Handles
  <2>4. CASE PoolJoin(c)
    <3>1. call[c].i \in Workers
      BY <1>0, <2>4 DEF PoolJoin, At, Calls
    <3> QED BY <1>0, <1>1, <2>4, <3>1 DEF PoolJoin, Handles
  <2>5. CASE PoolClose(c) \/ PoolDiscard(c)
    <3>1. CASE PoolClose(c)
      BY <1>0, <3>1 DEF PoolClose, Handles
    <3>2. CASE PoolDiscard(c)
      BY <1>0, <3>2 DEF PoolDiscard, Handles
    <3> QED BY <2>5, <3>1, <3>2
  <2>6. CASE Destroy(c) \/ Gut(c)
    BY <1>0, <2>6 DEF Destroy, Gut, EnterStop, poolVars, Handles
  <2>7. CASE DropThread(c)
    BY <1>0, <1>1, <2>7 DEF DropThread, stateVars, poolVars, Handles
  <2>8. CASE StopTest(c) \/ PoolTest(c)
    BY <1>0, <2>8 DEF StopTest, PoolTest, stateVars, poolVars, Handles
  <2> QED BY <1>2, <2>1, <2>2, <2>3, <2>4, <2>5, <2>6, <2>7, <2>8 DEF CallStep
<1>3. CASE LoopDispatch
  BY <1>0, <1>3 DEF LoopDispatch, Handles
<1>4. CASE LoopExit
  BY <1>0, <1>4 DEF LoopExit, poolVars, Handles
<1>5. ASSUME NEW w \in Workers, WorkerTake(w) \/ WorkerEnd(w) \/ WorkerExit(w) PROVE Handles'
  BY <1>0, <1>5 DEF WorkerTake, WorkerEnd, WorkerExit, GoWorker, Handles
<1>6. CASE UNCHANGED vars
  BY <1>0, <1>6 DEF vars, Handles
<1> QED BY <1>2, <1>3, <1>4, <1>5, <1>6 DEF Next

\* Whatever the callers do, flags, handles and threads fit together.
THEOREM BasicInvariance == Spec => []BasicInv
<1>1. Init => BasicInv
  <2> SUFFICES ASSUME Init PROVE BasicInv
    OBVIOUS
  <2>1. NoCall \in CallRecord
    BY LifecycleAssumption DEF NoCall, CallRecord, PCs
  <2>2. Calls
    BY <2>1 DEF Init, Calls, NoCall
  <2>3. Handles
    <3>1. 0 \in 0..MaxJobs
      BY LifecycleAssumption
    <3> QED BY <3>1 DEF Init, Handles
  <2> QED BY <2>2, <2>3, BasicParts
<1>2. BasicInv' <=> Calls' /\ Handles'
  BY BasicParts, PTL
<1>3. BasicInv /\ [Next]_vars => BasicInv'
  BY <1>2, CallsStep, HandlesStep
<1> QED BY <1>1, <1>3, PTL DEF Spec

\* The values of flags, handles and counters.
THEOREM TypeCorrect == Spec => []TypeOK
  BY BasicInvariance, PTL DEF BasicInv

-----------------------------------------------------------------------------
(* What holds unless the object is misused *)

\* A caller that is alone moves on: what has to be shown of its step.
LEMMA AloneMoves ==
  ASSUME Orderly, NEW c \in Threads, \A d \in Threads : d # c => ~InCall(d),
         NEW pc, NEW i, NEW after, Moved(c, pc, i, after), fate' = "ok", Progress(c)',
         pc = "none" => (isRunning' <=> handle' = "joinable") /\ (~isRunning' => Quiet'),
         members' # "alive" => ~isRunning' /\ handle' = "empty" /\ Quiet',
         members' = "gone" => joined' = Workers /\ pc = "none"
  PROVE  Orderly'
<1>1. \A d \in Threads : d # c => ~InCall(d)' /\ call'[d] = call[d]
  BY DEF Moved, InCall
<1>2. InCall(c)' <=> pc # "none"
  BY DEF Moved, InCall
<1>3. ASSUME NEW d \in Threads, d # c PROVE Progress(d)'
  <2>1. Progress(d) /\ ~InCall(d)
    BY <1>3 DEF Orderly
  <2>2. call'[d].pc = "none" /\ call'[d].after = "none"
    BY <1>1, <1>3, <2>1 DEF Progress, InCall
  <2> QED BY <2>2 DEF Progress
<1>4. \A d \in Threads : Progress(d)'
  BY <1>3
<1>5. \A d, e \in Threads : InCall(d)' /\ InCall(e)' => d = e
  BY <1>1
<1>6. (\A d \in Threads : ~InCall(d)') =>
        (isRunning' <=> handle' = "joinable") /\ (~isRunning' => Quiet')
  BY <1>2
<1>7. members' = "gone" => joined' = Workers /\ \A d \in Threads : ~InCall(d)'
  BY <1>1, <1>2
<1> QED BY <1>4, <1>5, <1>6, <1>7 DEF Orderly

\* Loop and workers never end their rest by themselves.
LEMMA OrderlyThreads ==
  ASSUME BasicInv, Orderly,
         \/ LoopDispatch \/ LoopExit
         \/ \E w \in Workers : WorkerTake(w) \/ WorkerEnd(w) \/ WorkerExit(w)
  PROVE  Orderly'
<1>1. UNCHANGED <<isRunning, handle, joined, call, members, fate>>
  BY DEF LoopDispatch, LoopExit, WorkerTake, WorkerEnd, WorkerExit, GoWorker, poolVars
<1>2. Quiet => Quiet'
  BY DEF LoopDispatch, LoopExit, WorkerTake, WorkerEnd, WorkerExit, GoWorker, poolVars,
         Quiet, BasicInv, TypeOK
<1>3. ASSUME NEW c \in Threads PROVE Progress(c)'
  <2>1. Progress(c)
    BY DEF Orderly
  <2> QED BY <1>1, <1>2, <2>1 DEF Progress
<1> QED BY <1>1, <1>2, <1>3 DEF Orderly, InCall

\* A call that begins finds no other, or it is a misuse.
LEMMA BeginsAlone ==
  ASSUME Orderly, ~misused', NEW c \in Threads, StartExchange(c) \/ Stop(c) \/ Destroy(c)
  PROVE  \A d \in Threads : ~InCall(d)
<1>1. ~InCall(c)
  BY DEF StartExchange, Stop, Destroy, MayCall, At, InCall
<1>2. CASE StartExchange(c)
  <2>1. \A d \in Threads \ {c} : InCall(d) => Starting(d)
    BY <1>2 DEF StartExchange, Others, InCall
  <2>2. \A d \in Threads : ~Starting(d)
    BY <1>2 DEF StartExchange, Starting, Orderly, Progress
  <2> QED BY <1>1, <2>1, <2>2
<1>3. CASE Stop(c) \/ Destroy(c)
  BY <1>1, <1>3 DEF Stop, Destroy, Others, InCall
<1> QED BY <1>2, <1>3

\* The beginning of start(), stop() and the destructor.
LEMMA OrderlyBegins ==
  ASSUME BasicInv, Orderly, ~misused', NEW c \in Threads,
         StartExchange(c) \/ Stop(c) \/ Destroy(c)
  PROVE  Orderly'
<1>0. /\ TypeOK /\ \A d \in Threads : ~InCall(d)
      /\ (isRunning <=> handle = "joinable") /\ (~isRunning => Quiet)
      /\ members = "alive" /\ fate = "ok" /\ call[c].after = "none"
  <2>1. \A d \in Threads : ~InCall(d)
    BY BeginsAlone
  <2>2. call[c].after = "none"
    BY <2>1 DEF Orderly, Progress, InCall
  <2>3. members = "alive" /\ fate = "ok"
    BY DEF StartExchange, Stop, Destroy, MayCall, At
  <2> QED BY <2>1, <2>2, <2>3 DEF BasicInv, Orderly
<1>1. UNCHANGED <<handle, loop, queued, worker, joined, members, fate>>
  BY DEF StartExchange, Stop, Destroy, poolVars
<1>2. Quiet' <=> Quiet
  BY <1>1 DEF Quiet
<1>3. CASE StartExchange(c)
  <2>1. Moved(c, "spawn", call[c].i, "none") /\ isRunning' /\ ~isRunning
    BY <1>0, <1>3, CallMoves DEF StartExchange, PCs
  <2>2. handle' = "empty"
    BY <1>0, <1>1, <2>1 DEF TypeOK
  <2>3. Progress(c)'
    BY <1>0, <1>1, <2>1, <2>2 DEF Progress, Moved
  <2> QED BY <1>0, <1>1, <2>1, <2>3, AloneMoves
<1>4. ASSUME c \in Callers, NEW after \in {"none", "gut"}, EnterStop(c, after) PROVE Orderly'
  <2>1. Moved(c, "test", 0, after) /\ ~isRunning'
    BY <1>0, <1>4, CallMoves DEF EnterStop
  <2>2. Progress(c)'
    BY <1>0, <1>1, <1>4, <2>1 DEF Progress, Moved
  <2> QED BY <1>0, <1>1, <2>1, <2>2, AloneMoves
<1>5. CASE Stop(c)
  <2>1. c \in Callers /\ EnterStop(c, "none")
    BY <1>5 DEF Stop, Threads
  <2> QED BY <1>4, <2>1
<1>6. CASE Destroy(c)
  <2>1. c \in Callers
    BY <1>6 DEF Destroy
  <2>2. CASE EnterStop(c, "gut")
    BY <1>4, <2>1, <2>2
  <2>3. CASE ~isRunning /\ Goto(c, "gut") /\ UNCHANGED isRunning
    <3>1. Moved(c, "gut", call[c].i, "none") /\ Quiet' /\ ~isRunning' /\ handle' = "empty"
      BY <1>0, <1>1, <1>2, <2>3, CallMoves DEF PCs, TypeOK
    <3>2. Progress(c)'
      BY <1>0, <1>1, <2>1, <3>1 DEF Progress, Moved
    <3> QED BY <1>0, <1>1, <3>1, <3>2, AloneMoves
  <2> QED BY <1>6, <2>2, <2>3 DEF Destroy
<1> QED BY <1>3, <1>5, <1>6

\* A call under way is alone, so no join() and no assignment finds a handle in the
\* wrong state, and the call moves on.
LEMMA OrderlyMoves ==
  ASSUME BasicInv, Orderly, ~misused', NEW c \in Threads,
         \/ StartSpawn(c) \/ StopTest(c) \/ StopJoin(c) \/ PoolClose(c) \/ PoolTest(c)
         \/ PoolJoin(c) \/ PoolDiscard(c) \/ Gut(c) \/ DropThread(c)
  PROVE  Orderly'
<1>1. /\ TypeOK /\ Progress(c) /\ fate = "ok" /\ InCall(c)
      /\ \A d \in Threads : d # c => ~InCall(d)
      /\ members # "gone" /\ Others(c) = {}
  <2>1. InCall(c)
    BY DEF StartSpawn, StopTest, StopJoin, PoolClose, PoolTest, PoolJoin, PoolDiscard, Gut,
           DropThread, At, InCall
  <2>2. \A d \in Threads : d # c => ~InCall(d)
    BY <2>1 DEF Orderly
  <2>3. Others(c) = {}
    BY <2>2 DEF Others, InCall
  <2> QED BY <2>1, <2>2, <2>3 DEF BasicInv, Orderly
<1>2. /\ members # "alive" => ~isRunning /\ handle = "empty" /\ Quiet
      /\ handle = "empty" <=> loop = "off"
      /\ \A w \in joined : worker[w] = "exited"
      /\ handle \in {"empty", "joinable"} /\ joined \subseteq Workers
  BY DEF Orderly, BasicInv, TypeOK
<1>3. CASE StartSpawn(c)
  <2>1. /\ isRunning /\ handle = "empty" /\ members = "alive" /\ call[c].after = "none"
    BY <1>1, <1>3 DEF StartSpawn, At, Progress
  <2>2. /\ Goto(c, "none") /\ handle' = "joinable"
        /\ UNCHANGED <<isRunning, joined, members, fate>>
    BY <1>3, <2>1 DEF StartSpawn, poolVars
  <2>3. Moved(c, "none", call[c].i, "none")
    BY <1>1, <2>1, <2>2, CallMoves DEF PCs
  <2>4. Progress(c)'
    BY <2>3 DEF Progress, Moved
  <2> QED BY <1>1, <2>1, <2>2, <2>3, <2>4, AloneMoves
<1>4. CASE StopTest(c)
  <2> DEFINE to == IF handle = "joinable" THEN "join" ELSE "close"
  <2>1. /\ c \in Callers /\ ~isRunning /\ members = "alive" /\ call[c].after # "gone"
        /\ UNCHANGED <<isRunning, handle, loop, queued, worker, joined, members, fate>>
    BY <1>1, <1>4 DEF StopTest, At, Progress, stateVars, poolVars
  <2>2. Moved(c, to, call[c].i, call[c].after)
    BY <1>1, <1>4, CallMoves DEF StopTest, PCs
  <2>3. Progress(c)'
    BY <1>2, <2>1, <2>2 DEF Progress, Moved
  <2> QED BY <1>1, <2>1, <2>2, <2>3, AloneMoves
<1>5. CASE StopJoin(c)
  <2>1. /\ c \in Callers /\ ~isRunning /\ members = "alive" /\ call[c].after # "gone"
        /\ handle = "joinable"
    BY <1>1, <1>5 DEF StopJoin, At, Progress
  <2>2. /\ handle' = "empty" /\ Goto(c, "close") /\ UNCHANGED <<isRunning, members, fate>>
    BY <1>1, <1>5, <2>1 DEF StopJoin
  <2>3. Moved(c, "close", call[c].i, call[c].after)
    BY <1>1, <2>2, CallMoves DEF PCs
  <2>4. Progress(c)'
    BY <2>1, <2>2, <2>3 DEF Progress, Moved
  <2> QED BY <1>1, <2>1, <2>2, <2>3, <2>4, AloneMoves
<1>6. CASE PoolClose(c)
  <2>1. /\ c \in Callers /\ ~isRunning /\ handle = "empty"
        /\ call[c].after = "gone" => members = "destroyed"
        /\ UNCHANGED <<isRunning, handle, loop, queued, worker, joined, members, fate>>
    BY <1>1, <1>6 DEF PoolClose, At, Progress
  <2>2. Moved(c, "poolTest", 1, call[c].after)
    BY <1>1, <1>6, CallMoves
  <2>3. \A w \in Workers : ~(w < 1)
    BY DEF Workers
  <2>4. Progress(c)'
    BY <2>1, <2>2, <2>3 DEF Progress, Moved
  <2>5. Quiet' <=> Quiet
    BY <2>1 DEF Quiet
  <2> QED BY <1>1, <1>2, <2>1, <2>2, <2>4, <2>5, AloneMoves
<1>7. CASE PoolTest(c)
  <2>1. /\ c \in Callers /\ ~isRunning /\ handle = "empty"
        /\ call[c].after = "gone" => members = "destroyed"
        /\ \A w \in Workers : w < call[c].i => w \in joined
        /\ UNCHANGED <<isRunning, handle, loop, queued, worker, joined, members, fate>>
    BY <1>1, <1>7 DEF PoolTest, At, Progress, stateVars, poolVars
  <2>2. Quiet' <=> Quiet
    BY <2>1 DEF Quiet
  <2>3. CASE call[c].i \in joined
    <3>1. Moved(c, "poolTest", call[c].i + 1, call[c].after)
      BY <1>1, <1>7, <2>3, CallMoves
    <3>2. \A w \in Workers : w < call[c].i + 1 => w \in joined
      <4>1. call[c].i \in Int
        BY <1>1, CallMoves
      <4> QED BY <2>1, <2>3, <4>1 DEF Workers
    <3>3. Progress(c)'
      BY <2>1, <3>1, <3>2 DEF Progress, Moved
    <3> QED BY <1>1, <1>2, <2>1, <2>2, <3>1, <3>3, AloneMoves
  <2>4. CASE call[c].i \notin joined
    <3>1. Moved(c, "poolJoin", call[c].i, call[c].after)
      BY <1>1, <1>7, <2>4, CallMoves
    <3>2. Progress(c)'
      BY <2>1, <2>4, <3>1 DEF Progress, Moved
    <3> QED BY <1>1, <1>2, <2>1, <2>2, <3>1, <3>2, AloneMoves
  <2> QED BY <2>3, <2>4
<1>8. CASE PoolJoin(c)
  <2> DEFINE i == call[c].i
  <2>1. /\ c \in Callers /\ ~isRunning /\ handle = "empty" /\ i \in Workers /\ i \notin joined
        /\ call[c].after = "gone" => members = "destroyed"
        /\ \A w \in Workers : w < i => w \in joined
    BY <1>1, <1>8 DEF PoolJoin, At, Progress, BasicInv
  <2>2. i # c
    BY <2>1, LifecycleAssumption DEF Workers
  <2>3. /\ joined' = joined \cup {i}
        /\ call' = [call EXCEPT ![c].pc = "poolTest", ![c].i = i + 1]
        /\ UNCHANGED <<isRunning, handle, loop, queued, worker, members, fate>>
    BY <1>1, <1>8, <2>1, <2>2 DEF PoolJoin
  <2>4. Moved(c, "poolTest", i + 1, call[c].after)
    <3>1. call \in [Threads -> CallRecord] /\ call' \in [Threads -> CallRecord]
      <4>1. i + 1 \in 0..(NumThreads + 1) /\ "poolTest" \in PCs
        BY <2>1, LifecycleAssumption DEF Workers, PCs
      <4>2. call \in [Threads -> CallRecord]
        BY <1>1 DEF TypeOK, CallRecord
      <4> QED BY <2>3, <4>1, <4>2 DEF CallRecord
    <3> QED BY <2>3, <3>1 DEF Moved, CallRecord
  <2>5. \A w \in Workers : w < i + 1 => w \in joined'
    BY <2>1, <2>3 DEF Workers
  <2>6. Quiet' <=> Quiet
    BY <2>3 DEF Quiet
  <2> HIDE DEF i
  <2>7. Progress(c)'
    BY <2>1, <2>3, <2>4, <2>5 DEF Progress, Moved
  <2> QED BY <1>1, <1>2, <2>1, <2>3, <2>4, <2>6, <2>7, AloneMoves
<1>9. CASE PoolDiscard(c)
  <2> DEFINE to == IF call[c].after = "gut" THEN "gut" ELSE "none"
  <2>1. /\ c \in Callers /\ ~isRunning /\ handle = "empty" /\ call[c].i > NumThreads
        /\ \A w \in Workers : w < call[c].i => w \in joined
    BY <1>1, <1>9 DEF PoolDiscard, At, Progress
  <2>2. /\ queued' = 0 /\ members' = (IF call[c].after = "gone" THEN "gone" ELSE members)
        /\ UNCHANGED <<isRunning, handle, loop, worker, joined, fate>>
    BY <1>9 DEF PoolDiscard
  <2>3. Moved(c, to, 0, "none")
    BY <1>1, <1>9, CallMoves
  <2>4. joined = Workers
    <3>1. call[c].i \in Int /\ NumThreads \in Int
      BY <1>1, CallMoves, LifecycleAssumption
    <3>2. \A w \in Workers : w < call[c].i
      BY <2>1, <3>1 DEF Workers
    <3> QED BY <1>2, <2>1, <3>2
  <2>5. Quiet'
    BY <1>2, <2>1, <2>2, <2>4 DEF Quiet
  <2>6. Progress(c)'
    BY <2>1, <2>2, <2>3, <2>5 DEF Progress, Moved
  <2> QED BY <1>1, <2>1, <2>2, <2>3, <2>4, <2>5, <2>6, AloneMoves
<1>10. CASE Gut(c)
  <2>1. c \in Callers /\ ~isRunning /\ handle = "empty" /\ Quiet /\ call[c].after # "gone"
    BY <1>1, <1>10 DEF Gut, At, Progress
  <2>2. /\ members' = "destroyed"
        /\ UNCHANGED <<isRunning, handle, loop, queued, worker, joined, fate>>
    BY <1>10 DEF Gut, poolVars
  <2>3. Moved(c, "drop", call[c].i, call[c].after) /\ Quiet'
    BY <1>1, <1>10, <2>1, <2>2, CallMoves DEF Gut, PCs, Quiet
  <2>4. Progress(c)'
    BY <2>1, <2>2, <2>3 DEF Progress, Moved
  <2> QED BY <1>1, <2>1, <2>2, <2>3, <2>4, AloneMoves
<1>11. CASE DropThread(c)
  <2>1. /\ c \in Callers /\ ~isRunning /\ handle = "empty" /\ members = "destroyed" /\ Quiet
    BY <1>1, <1>11 DEF DropThread, At, Progress
  <2>2. UNCHANGED <<isRunning, handle, loop, queued, worker, joined, members, fate>>
    BY <1>11, <2>1 DEF DropThread, stateVars, poolVars
  <2>3. Moved(c, "close", call[c].i, "gone") /\ Quiet'
    BY <1>1, <1>11, <2>1, <2>2, CallMoves DEF Quiet
  <2>4. Progress(c)'
    BY <2>1, <2>2, <2>3 DEF Progress, Moved
  <2> QED BY <1>1, <2>1, <2>2, <2>3, <2>4, AloneMoves
<1> QED BY <1>3, <1>4, <1>5, <1>6, <1>7, <1>8, <1>9, <1>10, <1>11

-----------------------------------------------------------------------------
(* The theorems *)

\* A misuse is remembered.
LEMMA MisuseRemembered == ASSUME BasicInv, [Next]_vars, misused PROVE misused'
<1>1. ASSUME NEW c \in Threads, CallStep(c) PROVE misused'
  BY <1>1
  DEF CallStep, StartExchange, StartSpawn, Stop, StopTest, StopJoin, PoolClose, PoolTest,
      PoolJoin, PoolDiscard, Destroy, Gut, DropThread, Die
<1> QED
  BY <1>1
  DEF Next, vars, LoopDispatch, LoopExit, WorkerTake, WorkerEnd, WorkerExit, GoWorker

\* The inductive invariant of the object's life holds in every reachable state.
THEOREM Invariance == Spec => []IInv
<1>1. Init => (~misused => Orderly)
  BY DEF Init, Orderly, Progress, InCall, Quiet, NoCall
<1>2. ASSUME BasicInv, ~misused => Orderly, [Next]_vars, ~misused' PROVE Orderly'
  <2>1. Orderly
    BY <1>2, MisuseRemembered
  <2>2. ASSUME NEW c \in Threads, CallStep(c) PROVE Orderly'
    BY <1>2, <2>1, <2>2, OrderlyBegins, OrderlyMoves DEF CallStep
  <2>3. CASE UNCHANGED vars
    BY <2>1, <2>3 DEF vars, Orderly, Progress, InCall, Quiet
  <2> QED BY <1>2, <2>1, <2>2, <2>3, OrderlyThreads DEF Next
<1>3. BasicInv /\ (~misused => Orderly) /\ [Next]_vars => (~misused => Orderly)'
  BY <1>2
<1> QED BY <1>1, <1>3, BasicInvariance, PTL DEF Spec, IInv

\* The process does not die of a std::thread handle, unless stop() overlapped another
\* call or was called by a task.
THEOREM Safe == Spec => []SafeUnlessMisused
<1>1. IInv => SafeUnlessMisused
  BY DEF IInv, Orderly, SafeUnlessMisused
<1> QED BY <1>1, Invariance, PTL

\* Between calls isRunning tells whether there is a thread to join, which is what the
\* destructor relies on.
THEOREM FlagIsRight == Spec => []FlagTellsJoinable
<1>1. IInv => FlagTellsJoinable
  BY DEF IInv, Orderly, InCall, FlagTellsJoinable
<1> QED BY <1>1, Invariance, PTL

\* Nobody runs any more when the members they use are destroyed.
THEOREM MembersLiveOn == Spec => []MembersOutliveThreads
<1>1. IInv => MembersOutliveThreads
  BY DEF IInv, Orderly, Quiet, MembersOutliveThreads
<1> QED BY <1>1, Invariance, PTL
=============================================================================
