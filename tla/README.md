# TaskSchedX in TLA+

TaskSchedX is a C++ library: a scheduler thread takes tasks from a priority
queue when they are due and hands them to a pool of worker threads, while
client threads schedule, cancel and query tasks and a control thread starts and
stops the whole. This directory models the library and the example programs
built on it, checks them with TLC and proves with TLAPS, for every number of
threads and tasks, the safety properties of the library. Paths below
are relative to the repository.

## The system

| Component | State | Operations |
|---|---|---|
| `Task` (`src/Task.cpp`) | start time, priority, repeat interval, timeout, atomic status, id from a global counter | constructor, `execute`, `reschedule`, `setStatus`/`getStatus`, `operator>` |
| `TaskQueue` (`src/TaskQueue.cpp`) | a `std::priority_queue` of tasks; no lock of its own | `push`, `pop`, `isEmpty`, `cancelTask`, `size`, `clear` |
| `ThreadPool` (`src/ThreadPool.cpp`) | workers, FIFO of jobs, mutex, condition variable, atomic stop flag | constructor, `enqueueTask`, `stop`, `workerLoop` |
| `TaskScheduler` (`src/TaskScheduler.cpp`) | `taskQueue` under `queueMutex`, `activeTasks` and `completedTasks` under `activeTasksMutex`, `stats` under `statsMutex`, atomic `isRunning`, the callback (no lock) | `scheduleTask`, `cancelTask`, `getTaskStatus`, `getStatistics`, `start`, `stop`, `setTaskCompletionCallback`, destructor; internally `runSchedulerLoop`, `executeAndFinalizeTask` |
| `Logger` (`src/Logger.cpp`) | level and console flag under a mutex | `setLevel`, `enableConsoleOutput`, `debug` ... `error`, `log` |
| `examples/*` | a scheduler on the stack of `main()` and the counters its tasks share | eleven programs: schedule, cancel, set a callback, start, sleep, stop |

Four kinds of threads meet in the scheduler. A client enters a task in the
registry, pushes it, counts it and notifies, in four critical sections or
steps. The loop waits for a task, pops the head, puts it back and sleeps if it
is not due, and otherwise looks it up in the registry, marks it RUNNING and
enqueues a job. A worker executes the function and then, without a lock over
the whole, checks the status, writes it, counts, calls the user's callback,
records the final status and either erases the task or re-arms it and pushes it
back. `cancelTask` marks the task and erases it from the registry, but leaves
its queue entry for the loop to discard. The status of a task is an atomic
that any of them writes.

What is hard here: three mutexes that are never held together, so every task is
between two structures most of the time; two condition variables, notified
without their mutex; cancellation that races with every other step; a callback
that may throw; `stop()` that races with the waits it wants to end, and with
`start()`, itself and the destructor over unguarded `std::thread` handles. The
hazards are listed, each at its line, in `PROJECT.json`.

What makes each part correct:

* pool: each job begun once, in order; no job waits while every worker sleeps;
  nothing executes after `stop()`; `stop()` returns;
* queue and registry: a task has one owner at a time, none is lost, a cancelled
  one is not revived;
* status and statistics: the status says what happens to the task, each execution is
  counted once, a final status is recorded and stays;
* time: nothing begins early, what is due begins, limits are kept;
* lifecycle: no `std::thread` is assigned or destroyed while joinable or joined
  twice, and nobody runs when the members are destroyed;
* logger: lines are whole, in order, and printed under the current settings;
* examples: each program shows what it says it shows, and ends.

## Modules

| Module | What it is |
|---|---|
| `Task` | status values, records, `NewTask` (constructor), `Greater` (`operator>`), `NextStart` (`reschedule`), `TimedOut` (the test in `runTaskWithTimeout`) |
| `TaskQueue` | the priority queue as a bag (entries per task); `Tops` is the set of entries `top()` may return, since equal tasks are in no particular order |
| `WorkerPool` | what the pool promises: accept, begin in order, end, leave when closed, discard |
| `ThreadPool` | the pool itself, one step per lock, predicate, wait, notify, flag access and join; implements `WorkerPool` |
| `TaskScheduler` | clients, loop, workers and control thread; uses `WorkerPool` through `INSTANCE` |
| `SchedulerProperties` | the properties of the scheduler |
| `MCTaskScheduler` | the task configurations the runs use |
| `ThreadPoolProofs` | theorems about the pool |
| `SchedulerProofs` | the scheduler: types, withdrawn tasks, one owner per task |
| `TaskQueueProofs` | the order of the queue: `operator>` is a strict weak order, a filled queue has a top, the top is the most urgent |
| `SchedulerRunProofs` | stopping, executions of one-shot tasks, start times, keys of queued tasks, pops |
| `SchedulerRegistryProofs` | cancelled tasks, recorded ends, no task lost, reported status |
| `SchedulerCountProofs` | statistics |
| `LifecycleProofs`, `LoggerProofs` | theorems about the lifecycle and the logger |
| `Lifecycle` | `start()`, `stop()` and the destructors called by any thread, tasks included, with the `std::thread` handles and the order in which members are destroyed |
| `LogSink` | what the logger promises: a line is printed at once, under the settings of that moment |
| `Logger` | the logger itself: mutex, level test, time stamp, text, `std::endl`; implements `LogSink` |
| `Examples` | the programs under `examples/`: a script of API calls per `main()`, run on `TaskScheduler` with the durations of the code |

`TaskScheduler` is built on `WorkerPool` and `ThreadPool` is shown, by TLC and
by proof, to implement it; so what holds of the scheduler over the abstract
pool holds, as far as safety goes, over the real one. `Examples` composes the
scheduler with a client program and a clock. `Lifecycle` abstracts from what the
loop and the workers do: the loop dispatches any number of jobs and exits some
time after `isRunning` is false, a worker some time after `stopFlag` is set. The
logger is used by every part and depends on none: `logMutex` is taken last and
nothing is called under it, so it is a module of its own.

### Granularity

One step is one access to shared state: an atomic load or store, or a critical
section. A critical section that no thread can observe half done is one step.
The scheduler loop is the exception: it keeps `queueMutex` across several
steps (`QueueLocked`), because `isRunning`, which `stop()` writes without the
mutex, may change between its predicate and its wait. For the same reason the
workers of `ThreadPool` hold their mutex from `Lock` to `Block`, `ExitOnStop` or
`TakeJob`. Creating a task and entering it in the registry is one step, since
nobody knows the task before.

`wait(lock, pred)` is `while (!pred()) wait(lock)`: predicate with the mutex
held, then an atomic release and sleep, then a wakeup by notification or for no
reason, then the mutex and the predicate again. `wait_until(lock, t, pred)` adds
the timeout; a waiter woken after its deadline has timed out, as in libstdc++.

### Data

A task is the number its id is made from. Time is counted in ticks,
`TicksPerSecond` to a second, because start times are finer than the whole
seconds of `repeatEvery` and `timeout`; both clocks of the code are `now`. What a
task function does is: return or throw, after any time. A callback is absent, or
returns, or may throw. Thread names are left out.

`runs` (scheduler) and `begun` (pool) are history variables. `MaxTasks`,
`MaxTime` and `MaxJobs` bound calls and clock, `MaxPieces` what the logger prints.

### From code to actions

| Code | Actions |
|---|---|
| `scheduleTask` | `ScheduleTask`, `SchedulePush`, `ScheduleCount`, `ScheduleNotify` |
| `cancelTask` | `CancelActive`, `CancelQueued`, `CancelStats`, `CancelCall`, `CancelRecord` |
| `getTaskStatus` | the operator `GetTaskStatus`, used by properties |
| `runSchedulerLoop` | `LoopTop` ... `LoopDispatch`, `SpuriousWakeup` |
| `executeAndFinalizeTask`, `runTaskWithTimeout`, `finalizeCompletedTask` | `BeginTask` ... `NotifyLoop`; the outcomes COMPLETED, FAILED and TIMEOUT share the steps that set, count, report and record (`outcome` says which) |
| `notifyTaskCompletion` | `CallbackReturns`, `CallbackThrows`, `RecordStatus` |
| `start`, `stop`, `setTaskCompletionCallback` | `Start`; `Stop` ... `StopDiscard`; `SetTaskCompletionCallback` |
| `ThreadPool::enqueueTask`, `stop`, `workerLoop` | `EnqueuePush`, `EnqueueNotify`; `StopStore` ... `StopDiscard`; `Lock` ... `FinishJob` |
| `start`, `stop`, `~TaskScheduler`, `~ThreadPool` from any thread | in `Lifecycle`: `StartExchange`, `StartSpawn`; `Stop` ... `PoolDiscard`; `Destroy`, `Gut`, `DropThread` |
| `Logger::setLevel`, `enableConsoleOutput`, `log` | `SetLevel`, `EnableConsoleOutput`; `Log`, `Filter`, `Stamp`, `WriteText`, `WriteEndl`, `Return` |
| an example's `main()` | `MainSchedule` ... `MainAwait`, one per kind of call, then the steps of `TaskScheduler` |

Definitions whose comment starts with "Mutant" are faulty variants of the
action that follows them; each shows that a property notices the fault.

### Time in the examples

The examples tell their tasks apart by seconds, so `Examples` replaces the free
clock by one that jumps to the next deadline (the end of `main`'s sleep, of a task
function or of the loop's timed wait) when no thread can take a step. Steps take
no time and everything that happens at one instant is interleaved in every
order. `now() + 1s` evaluated by two consecutive calls is therefore one start time:
the microseconds between them are neglected. A function
ends after the time it sleeps or computes for, by an exception if it throws.
Spurious wakeups, which `sched`, `sched_live` and `pool` have, are left out here: one
that comes at the instant of `stop()` puts the loop between its predicate and its
wait, where any program can miss the notification and hang (see
`StopReturnsUnlessBlocked`). `CalmProgramsEnd` is therefore about programs whose
loops are not woken for no reason.

A `TaskConfig` made by the default constructor has an uninitialised priority;
`UnsetPriorities` is what it may hold. The passing run gives all of them the same
value; `doc_unset_priority` lets them differ.

With each task a script carries how often it should have run and the statuses it
may have when `main()` ends, read off the comments and the output of the example
("Should not run", "Expected: ..."). Where the schedule allows starvation the
lower bound is 0: in `CustomSchedulingPolicies` and `RepeatableTasks` a task of
higher priority that repeats may be back at the head, not due, each time the
loop looks.

## Runs that pass

| Run | Instance | Checks |
|---|---|---|
| `pool` | 2 workers, 2 producers, 3 jobs, fair | `TypeOK`, `FrontExists`, `NoMissedWork`, `WorkConserving`, `QuietWhenStopped`, `DispatchFIFO`, `ImplementsPool`, `JobsBegin`, `StopReturnsIfAllWoken` |
| `sched` | 2 workers, 2 clients, 1 task delayed, limited, or repeating and limited; time to 2; no callback or one that may throw; restarts | `TypeOK`, `SingleOwner`, `RegistryStatus`, `NoTaskLost`, `OneShotRunsOnce`, `EachRunCounted`, `FinalStatusRecorded`, `QuietWhenStopped`, `PopFindsTask`, `WithdrawnIsFinal`, `NotBeforeStart`, `KeysFixedInQueue` |
| `sched_live` | 1 worker, 1 client, 2 tasks, fair | `TasksBegin`, `DispatchedBegin`, `StopReturnsUnlessBlocked` |
| `lifecycle` | 2 application threads, 2 workers, 2 waiting jobs | `TypeOK`, `SafeUnlessMisused`, `FlagTellsJoinable`, `MembersOutliveThreads` |
| `logger` | 2 threads, 3 lines, time to 2 | `WholeLines`, `StampsInOrder`, `ImplementsSink` |
| `examples` | all eleven programs, up to 11 tasks on up to 4 workers | `Outcomes`, `CalmProgramsEnd`, `NoTaskLost`, `ExecutionOrder` |

Why the bounds are enough for what they are meant to show: a lost wakeup needs
two sleepers or a sleeper and a producer, and three jobs let one be enqueued
while each worker has one; a timeout of one second needs two seconds of clock;
a repeating task is executed a second and a third time within two; a second
cancel needs either a second client or a second call, and calls are not bounded;
hiding a due task behind a head that is not due needs two tasks, which
`sched_live` and the examples have. `PerformanceBenchmark` is cut from 100 tasks on
up to 8 threads to `BenchTasks` = 3 on `BenchThreads` = 2 (tasks still queue for a
worker and the last finalisation races with `stop()`), and `RepeatableTasks` from 15
seconds to `RepeatFor` = 7 (every task has time to repeat). The
other examples have their own numbers. In `lifecycle` two callers and two workers
give every pair of overlapping calls, a worker joining itself or the other. In
`logger`, three lines have two borders between threads. Beyond these
bounds the theorems below take over for every safety property of the pool, the
scheduler, the lifecycle and the logger. Workers and clients are symmetric where no
liveness is checked.

Deadlock is checked in `pool`, `sched`, `sched_live` and `logger`. It does not occur
because `stop()`, or a call of the logger, may always come again; that threads are
not stuck is what the liveness properties say. `lifecycle` ends with the object or
the process, and the examples end with `main()` (`CalmProgramsEnd` says that they do
not end before).

### What the lifecycle run says

`misused` records that `stop()` overlapped another call or was called by a task.
With it, TLC finds every disaster one expects: `join()` of a thread that another
`stop()` has joined, two joins of one thread, a worker joining itself inside a
`noexcept` function, `start()` assigning to a joinable thread (between the moment
`stop()` clears `isRunning` and its `join()`). Without misuse, none happens, whatever the order of starts (from several threads at once, from tasks),
stops, restarts and destruction.

### Fairness

`FairSpec` assumes that a thread that can run does run, that task functions and
callbacks return or throw, and that the clock advances up to its bound. A
thread waiting for `queueMutex` gets it if the mutex is free again and again
(strong fairness of the three steps that lock it, `PushBack`, `SchedulePush`,
`CancelQueued`): the loop could otherwise shut it out by waking spuriously for
ever. Nothing is assumed about calls of the API or about spurious wakeups.

## Runs that show a disagreement

Each states what a comment or document says and finds a behaviour of the code
that does otherwise; the quotations are in `PROJECT.json`.

| Run | Property | What happens |
|---|---|---|
| `pool_stop` | `StopReturns` | `stopFlag` is stored and notified without the mutex, between a worker's predicate and its wait; the worker sleeps for ever and `stop()` joins it for ever |
| `doc_cancel_count` | `CancelledOnce` | the queue entry left by one cancel is cancelled and counted by the next |
| `doc_cancel_final` | `CancelIsFinal` | CANCELLED, reported and recorded, is overwritten by FAILED, TIMEOUT or COMPLETED |
| `doc_status` | `StatusAsDocumented` | `Task.h` says COMPLETED is "completed successfully"; a task that is being cancelled, and never ran, is reported COMPLETED between its removal from the registry and the record of its final status, to the callback in between too, and for ever if the callback throws. With `Targets = {}`, where nobody cancels, the same run finds its other part violated: RUNNING is "currently being executed", but a task is RUNNING from its dispatch on, while it waits in the pool, and stays so if `stop()` discards it there |
| `doc_start_time` | `BeginsOnTime` | the loop looks only at the head by priority and `wait_until` only at `isRunning`: due tasks wait for a head that is not due, even one that was cancelled meanwhile (`StatisticsMonitoring`) |
| `doc_unset_priority` | `Outcomes` | `TaskConfig()` leaves `priority` uninitialised; in `TaskCancellation`, with 0 for the first task and 1 for the others, the entry of the first, cancelled but still queued for 3 s, is the head, and the task to be cancelled during execution at 2 s never begins at 1 s |

Compiled with g++ and run, the programs do what `doc_start_time` shows: the task of
`CustomSchedulingPolicies` that is to "Execute in 3 seconds" begins at 8, and the
repeating task of `StatisticsMonitoring`, due every second from 0.8 s on, runs at 0.8 s and at 5 s,
because the loop waits for the start time of a head that is cancelled meanwhile.

More things the code does and the model shows, without a violated property of
their own:

* `TaskScheduler::stop` has the lost wakeup of the pool too: `isRunning` is stored and
  notified without `queueMutex`, between the loop's predicate and its wait
  (`StopReturnsUnlessBlocked` is what holds). Three examples can meet it, those
  in which the loop is at work when `stop()` is called; `CalmProgramsEnd` is about
  the others.
* The elapsed time is truncated to seconds before a strict comparison, so a limit
  of n seconds is enforced only from n + 1 on (the comment on `runTaskWithTimeout`
  says "exceeds its maximum execution time").
* The heap gives tasks of equal priority and start time in any order (`Tops`);
  `PriorityScheduling` expects the order of scheduling and, compiled with g++, prints
  3-B before 3-A.
* A due task can starve behind a repeating one of higher priority (see above).
* A cancel between the loop's lookup of a task and its dispatch does not keep the
  task from being executed once more (`WithdrawnIsFinal` says what holds).
* After a restart (`start()` after `stop()`) tasks are dispatched to a pool without
  workers and never begin, so `DispatchedBegin` is checked with
  `MayRestart = FALSE`. The safety run allows restarts.

`StopReturnsIfAllWoken` and `StopReturnsUnlessBlocked` are the parts of
`stop()` returning that do hold.

## Proofs

All theorems hold for every number of threads, workers, producers, clients and
tasks, every configuration (start times and intervals that are negative included,
which `TaskConfig` accepts) and every bound. They use the assumptions of the
modules (a positive `TicksPerSecond`, constants of the right types, names of
"nobody" that no thread has) and nothing else. A pool of no threads is included, as
the constructor accepts it; `NoMissedWork` says nothing of that pool. Every invariant and every action property that the runs `pool`, `sched`,
`lifecycle` and `logger` check is stated by a theorem, and so are both refinements.
The inductive invariants they rest on also pass TLC on the constants of those runs.

**The queue** (`TaskQueueProofs`). `std::priority_queue` asks of its comparison that it
be a strict weak order; `GreaterIsOrder` proves it of `operator>`, with ties exactly
between tasks of equal priority and start time (`TiedHaveEqualKeys`). `TopExists`: a
filled queue has a top, however the tasks compare (the order restricted to a finite
set is well founded, so a least element exists). `TopIsMostUrgent`: every other
entry is served after the top or has its priority and start time.

**The pool** (`ThreadPoolProofs`). `TypeOK` is not inductive: `TakeJob` needs a
non-empty queue, which the worker saw under the mutex a step before. `IInv` adds
who holds the mutex (`MutexHeld`), that a worker about to sleep saw the queue
empty (`SleepsOnEmpty`) and one about to take saw it filled (`FrontExists`), that
a filled queue has somebody awake (`NoMissedWork`, which is why `SleepsOnEmpty` is
needed: only a worker going to sleep can break it), that exit, join and return
happen in that order (`StopOrder`), and that the queue holds the jobs
`begun+1..nextJob-1` in order until the pool is stopped (`QueueContiguous`).
`Invariance` proves it; `TypeCorrect`, `FrontIsThere`, `NoWorkMissed`, `StoppedIsQuiet`,
`JobsBeginInOrder` and the refinement `PoolRefinement` follow. In the refinement
the pool's queue, jobs, stop flag and exited workers are the abstract pool's
variables; locking, waiting, waking and joining are stuttering.
`EveryJobIsCovered` is an argument by counting: a push adds a producer that has
yet to notify, a notification turns it into a worker on its way, taking a job uses
one up, and a worker goes to sleep only when the queue is empty. `CountInv` adds
to `WorkConserving` that the producers under way are finitely many.

**The scheduler, ownership** (`SchedulerProofs`). `TypeCorrect` is proved part by
part (registry, queue and loop, pool and workers, clients, the rest) after lemmas
that say what each kind of thread leaves alone. `WithdrawnForEver` is an action
property: no step gives a withdrawn task back to the loop past its lookup, to
the pool or to a worker. `OwnershipIsUnique` uses `OwnerInv`, which adds to
`TypeOK` and `SingleOwner` that tasks not created yet are held by nobody
(`Fresh`); the client that creates one is then its first owner. Each action
either gives a task up (lemma `GivesUp`) or moves it from one owner to the next.
`OwnerInv` is what most of the following rests on: a task that one thread works on
is not changed, or taken further, by another.

**The scheduler, executions** (`SchedulerRunProofs`). `StoppedIsQuiet` needs the
order of the steps of `stop()`: flag, join of the loop, pool, join of the workers
(`StopInv`). With the loop joined nobody fills the pool again before the next `start()`. `OneShots` needs `RunInv`: a task that has run and does not repeat is
not on its way to a worker any more, because the only way back to the queue leads
through the test of `isRepeatable`; with one owner per task the execution under way
is the only one. `NeverEarly` needs `DueInv`: a task past the loop's test is due
and stays due until it begins, since only its worker moves the start time.
`KeysStay` is what the heap needs of its users and cannot check: priority and start
time of a task do not change while it is queued. Only `reschedule` writes one, and by
`OwnerInv` the worker that calls it holds a task that is not in the queue.
`PopsFindTasks`: the loop never takes the top of an empty queue. It tested the queue
some steps earlier and has held `queueMutex` since (`PopInv`); a wakeup by `stop()` leads
to the pop only past another test of `isRunning`. `TopExists` does the rest.

**The scheduler, registry and status** (`SchedulerRegistryProofs`). `CancelInv` says
that a task marked CANCELLED has left the registry and that the second half of
`cancelTask` works on a task that was not there. `EndsAreRecorded` adds that a
worker past the recording has recorded (`RecordInv`) and that records are never
removed. With a callback that throws it still holds as long as nothing was cancelled:
an exception out of a worker's callback comes before the erase, so the task is still
registered, whereas one out of `cancelTask` reaches the caller after the erase and before
the record. `CancelCounted` (who is past the counting has counted) ties that caller to
the statistics. `NothingIsLost` follows a registered task from holder to holder; the step
that could lose one is the loop's discarding of a task it does not find, and the
pool's discarding, which only a closed pool does (`StopInv`). A callback that throws
a second time, out of the `catch`, does leave a task registered that nobody holds; the
theorem says that it is FAILED as long as it is registered: nobody is left to write
its status (`UnheldKeepsStatus`). `StatusIsWhereItIs` is the
theorem with the most to it. `RegistryStatus` is not inductive, because it is silent
about a task between the loop's mark and its worker; `AllFit`, proved by `StatusFits`,
gives the status of a task at every place (RUNNING in the loop's hand after the mark
and in the pool: what the code does, and no property, since `Task.h` means something
else by RUNNING). The status is an atomic that clients, loop and
workers write without a common lock, and each of these writes is right because the
writer owns the task (`OwnerInv`) or removes it from the registry in the same
critical section (`CancelInv`).

**The statistics** (`SchedulerCountProofs`). `RunsAreCounted` counts executions as
pairs of a task and a number and shows that begin, count and skip keep the balance
of `EachRunCounted`. A worker that finds its task CANCELLED skips the count. The
cancellation that made it so is counted once, or its `cancelTask` is about to
(`Paying`), but a worker may rely on it only after it has looked: `Owed` are the
CANCELLED tasks whose worker has yet to look, `Ahead` the workers that may still
count, and `CountedInv` says that the cancellations less those still owed
(`Excused`) cover what the outcomes do not. It also says that there is nothing to
balance before the first task, as long as the callback may still be replaced. A callback that throws makes one execution count
twice, under its outcome and as FAILED. Two more balances bound this: the workers that
may still count a normal end (`ToEnd`) and those that may still count a failure
(`ToFail`) are each within the executions not yet so counted, so neither the normal
ends nor the failures ever exceed the executions.

**The lifecycle** (`LifecycleProofs`). `BasicInv` holds however the object is used:
types, the index of the loop in `ThreadPool::stop`, that a handle stands for a
thread, that joined workers have exited. `IInv` adds that the object is `Orderly`
unless it was misused: at most one call is under way, it has got as far as its
program counter says (`Progress`: which handle is empty, which workers are joined,
which members exist), and between calls the flag tells whether there is a thread
and a stopped object is quiet. `Safe`, `FlagIsRight` and `MembersLiveOn` are read off
it. That the flag is cleared before the join and set before the thread exists is
the reason why the order of the steps has to be part of the invariant.

**The logger** (`LoggerProofs`). `Exclusive`: who is in `log()` holds the mutex, and its
message still passes the filter once it has passed it, as `setLevel` cannot get in
between. `HalfLine`: the console ends in half a line exactly while its writer is
between text and `std::endl`. `Past`: nothing printed is younger than the clock or
than the stamp the holder of the mutex has just read. With these `WholeLines` and
`StampsInOrder` are inductive. `SinkRefinement`: a text is a step of `LogSink`, by
`Exclusive` and `HalfLine`, everything else in `log()` is stuttering.

What the proofs changed in the model. `GetTaskStatus` was a `CASE` with overlapping
guards: a repeatable task that has run is in the registry and in `completedTasks`,
and then TLA+ leaves open which arm counts, while `getTaskStatus` asks the registry first.
TLC takes the first arm, so no run noticed; the proof of `StatusIsWhereItIs` did.
It is an `IF` now. `EachRunCounted` counts a set of `Executions` instead of summing a
function, and the lines of the logger are every other piece of the console (`Texts`)
instead of a `SelectSeq`: the same values, without a recursion the provers cannot
unfold.

### Model-checked only

* Everything under fairness: `JobsBegin`, `StopReturnsIfAllWoken`, `TasksBegin`,
  `DispatchedBegin`, `StopReturnsUnlessBlocked`. The prover has no rule for it.
* The examples: `Outcomes`, `CalmProgramsEnd`, `ExecutionOrder` and, there, `NoTaskLost`.
  They are about eleven fixed programs with fixed numbers, which TLC explores
  completely (two of them with the numbers cut); `Advance` and `CalmProgramsEnd` use
  `ENABLED`, which the prover does not support. `ExecutionOrder` does not hold of the
  scheduler in general: a task scheduled while another waits for a worker is behind
  it, whatever its priority.
* The runs that show a disagreement: a counterexample is found, not proved.

## Not modelled

* Copying and moving a `Task` (the copy has the same id): the library handles
  tasks through `shared_ptr` only. `status_to_string`, `levelToString`,
  `TaskConfig::toString` and thread names, which only format.
* `TaskQueue::size` and `clear`, which the library does not call, and the layout of
  the heap inside `std::priority_queue`.
* The data race on `completionCallback`: it is set before the first task is
  scheduled, as the examples and tests do. Replacing it while workers call it
  is undefined, and a model could only say so.
* A pool of zero threads in the runs. The theorems include it; jobs it accepts stay
  in its queue until `stop()` discards them.
* Output that bypasses the logger: the examples print with `std::cout` directly,
  and those lines may fall between a text and its end of line.
* The processor time and throughput `PerformanceBenchmark` prints, and its
  repetition over workloads and numbers of threads.
* Repeat intervals of zero in the runs: the clock would not bound the
  executions.
* Tests and build files.

## Plan

1. Done: the pool with its refinement, the scheduler, their properties, the
   first theorems.
2. Done: `Lifecycle`, `Logger` with its refinement, `Examples`.
3. Done: the safety properties of the pool, the scheduler, the lifecycle and the
   logger as theorems, and both refinements.
4. Done: what a callback that throws leaves intact (`NoTaskLost`, `EachRunCounted`,
   `FinalStatusRecorded`), the order of the queue and what it relies on, pools without
   threads, as theorems.
5. Left: that the steps of `Examples` are steps of `TaskScheduler`, so that its theorems
   hold of the programs. `Advance` moves the clock by more than `Tick` does and asks
   `ENABLED` whether a thread can run, so it needs a clock of another kind in
   `TaskScheduler`.
