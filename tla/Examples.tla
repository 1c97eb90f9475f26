------------------------------ MODULE Examples ------------------------------
(***************************************************************************)
(* The programs under examples/, run on the scheduler of TaskScheduler.    *)
(* Each main() is a script of the calls it makes; the thread main takes    *)
(* them one after the other while the loop and the workers do what         *)
(* TaskScheduler says.  Printing is left out, and so are the calls that    *)
(* only read (getTaskStatus, getStatistics): a monitoring loop is a sleep. *)
(*                                                                         *)
(* The examples depend on time, so here a step takes none: the clock jumps *)
(* to the next event, when nothing else can happen.  What happens at the   *)
(* same instant is interleaved in every order.  Spurious wakeups are left  *)
(* to the runs of TaskScheduler.                                           *)
(***************************************************************************)
EXTENDS SchedulerProperties, TLC

LOCAL INSTANCE FiniteSetsExt

CONSTANTS
  main,             \* the thread of main(); Clients is {main}
  Examples,         \* the programs a run looks at
  UnsetPriorities,  \* what an uninitialised int priority may hold
  BenchTasks,       \* bound: PerformanceBenchmark schedules 100 tasks
  BenchThreads,     \* bound: on pools of up to 8 threads
  RepeatFor         \* bound: RepeatableTasks sleeps for 15 seconds

VARIABLES example, step, wakeAt   \* the program, its next call, end of its sleep
allVars == <<vars, example, step, wakeAt>>

Seconds(s) == s * TicksPerSecond
Millis(ms) == (ms * TicksPerSecond) \div 1000

-----------------------------------------------------------------------------
(* What a script is made of *)

Unset == -1
AnyEnd == Status

\* TaskConfig's default constructor, which leaves the priority uninitialised;
\* with it how long the function takes, whether it throws, how often it should
\* have run when the program ends and the status it should have.
DefaultConfig(at) ==
  [op |-> "schedule", priority |-> Unset, startTime |-> at, isRepeatable |-> FALSE,
   repeatEvery |-> 10, timeout |-> 60, lasts |-> 0, throws |-> FALSE, ran |-> {1},
   ends |-> {"COMPLETED"}]

Schedule(prio, at) == [DefaultConfig(at) EXCEPT !.priority = prio]
Every(s, ran, cfg) == [cfg EXCEPT !.isRepeatable = TRUE, !.repeatEvery = s,
                                  !.ran = ran, !.ends = AnyEnd]
Lasting(d, cfg) == [cfg EXCEPT !.lasts = d]
Limited(s, cfg) == [cfg EXCEPT !.timeout = s]
Throwing(cfg) == [cfg EXCEPT !.throws = TRUE, !.ends = {"FAILED"}]
Ending(how, cfg) == [cfg EXCEPT !.ends = how]
NeverRunning(cfg) == [cfg EXCEPT !.ran = {0}, !.ends = {"CANCELLED"}]

StartCall == [op |-> "start"]
StopCall == [op |-> "stop"]
Sleep(d) == [op |-> "sleep", d |-> d]
Cancel(t) == [op |-> "cancel", task |-> t]

Program(n, calls) == [threads |-> n, script |-> calls]

-----------------------------------------------------------------------------
(* The programs *)

BasicUsage ==
  Program(3, <<Schedule(1, Seconds(1)), Schedule(2, Seconds(3)),
               Lasting(Millis(1000), Schedule(1, Seconds(2))),
               StartCall, Sleep(Seconds(5)), StopCall>>)

CallbackMechanism ==
  Program(4, <<[op |-> "callback"], Schedule(1, Seconds(1)),
               StartCall, Sleep(Seconds(2)), StopCall>>)

CustomSchedulingPolicies ==
  Program(4, [i \in 1..3 |-> Schedule(i, 0)]
             \o [i \in 1..3 |-> Schedule(5, Seconds(2 * i))]
             \o [i \in 1..3 |-> Schedule(10 - i, Seconds(8))]
             \o <<Every(4, 1..5, Schedule(20, Seconds(3))),
                  Every(6, 0..3, Schedule(25, Seconds(5))),
                  StartCall, Sleep(Seconds(21)), StopCall>>)

ErrorHandling ==
  Program(4, <<Throwing(Schedule(1, Seconds(2))),
               StartCall, Sleep(Seconds(4)), StopCall>>)

\* Benchmark::run; its tasks count themselves and main polls the count.
PerformanceBenchmark ==
  Program(BenchThreads, [i \in 1..BenchTasks |-> Lasting(Millis(10), Schedule(1, 0))]
                        \o <<StartCall, [op |-> "await"], StopCall>>)

PriorityScheduling ==
  Program(1, [i \in 1..4 |-> Lasting(Millis(100), Schedule(<<15, 1, 10, 5>>[i], Seconds(2)))]
             \o <<Schedule(3, Seconds(2)), Schedule(3, Seconds(2)), Schedule(0, 0),
                  StartCall, Sleep(Seconds(5)), StopCall>>)

ProgressUpdates ==
  Program(4, <<Lasting(Millis(2200), Schedule(1, Seconds(1))),
               StartCall, Sleep(Seconds(5)), StopCall>>)

RepeatableTasks ==
  LET Up(n, every) == n..(1 + (RepeatFor - 1) \div every) IN
  Program(4, <<Every(2, Up(1, 2), Schedule(1, Seconds(1))),
               Every(3, Up(0, 3), Schedule(5, Seconds(1))),
               Every(5, Up(0, 5), Schedule(10, Seconds(1))),
               StartCall, Sleep(Seconds(RepeatFor)), StopCall>>)

StatisticsMonitoring ==
  Program(3, <<DefaultConfig(Millis(200)), Throwing(DefaultConfig(Millis(400))),
               Ending({"TIMEOUT"}, Limited(1, Lasting(Seconds(3), DefaultConfig(Millis(600))))),
               Ending({"CANCELLED", "COMPLETED"}, Every(1, 1..5, DefaultConfig(Millis(800)))),
               NeverRunning(DefaultConfig(Seconds(5))),
               StartCall, Sleep(Seconds(2)), Cancel(5), Sleep(Seconds(3)), Cancel(4),
               Sleep(Seconds(1)), StopCall>>)

TaskCancellation ==
  Program(3, <<NeverRunning(DefaultConfig(Seconds(3))), Cancel(1),
               Ending({"CANCELLED"}, Lasting(Millis(3000), DefaultConfig(Seconds(1)))),
               Every(1, 1..6, DefaultConfig(Seconds(1))),
               StartCall, Sleep(Seconds(2)), Cancel(2), Sleep(Seconds(4)), Cancel(3),
               [op |-> "cancelUnknown"], Sleep(Seconds(2)), StopCall>>)

TimeoutHandling ==
  Program(3, <<Limited(3, Lasting(Millis(500), DefaultConfig(0))),
               Ending({"TIMEOUT"}, Limited(2, Lasting(Seconds(4), DefaultConfig(0)))),
               Limited(0, Lasting(Seconds(1), DefaultConfig(0))),
               StartCall, Sleep(Seconds(6)), StopCall>>)

Catalogue ==
  [BasicUsage |-> BasicUsage, CallbackMechanism |-> CallbackMechanism,
   CustomSchedulingPolicies |-> CustomSchedulingPolicies, ErrorHandling |-> ErrorHandling,
   PerformanceBenchmark |-> PerformanceBenchmark, PriorityScheduling |-> PriorityScheduling,
   ProgressUpdates |-> ProgressUpdates, RepeatableTasks |-> RepeatableTasks,
   StatisticsMonitoring |-> StatisticsMonitoring, TaskCancellation |-> TaskCancellation,
   TimeoutHandling |-> TimeoutHandling]

ASSUME ExamplesAssumption ==
  /\ Clients = {main} /\ Examples \subseteq DOMAIN Catalogue
  /\ UnsetPriorities \subseteq Int /\ UnsetPriorities # {}
  /\ BenchTasks \in Nat /\ BenchThreads \in Nat \ {0} /\ RepeatFor \in Nat \ {0}

IsSchedule(call) == call.op = "schedule"
Script == Catalogue[example].script
Job == [e \in Examples |-> SelectSeq(Catalogue[e].script, IsSchedule)]

\* The t-th scheduleTask of the program creates task t.
Plan(t) == Job[example][t]

-----------------------------------------------------------------------------
(* main() *)

\* main is not sleeping or inside another call, and its next call is op.
Ready(op) ==
  /\ step <= Len(Script) /\ Script[step].op = op
  /\ client[main].pc = "idle" /\ ctl = "idle" /\ wakeAt <= now
  /\ step' = step + 1

Busy == {w \in Workers : running[w] # NoTask}

MainSchedule ==
  /\ Ready("schedule")
  /\ \E p \in UnsetPriorities :
       LET plan == Script[step] IN
       ScheduleTask(main, [priority |-> IF plan.priority = Unset THEN p ELSE plan.priority,
                           startTime |-> plan.startTime,
                           isRepeatable |-> plan.isRepeatable,
                           repeatEvery |-> plan.repeatEvery, timeout |-> plan.timeout])
  /\ UNCHANGED wakeAt

MainCancel ==
  /\ Ready("cancel")
  /\ CancelActive(main, Script[step].task)
  /\ UNCHANGED wakeAt

\* cancelTask of an id that was never given out finds nothing in the registry,
\* locks and searches the queue, and returns false.
MainCancelUnknown ==
  /\ Ready("cancelUnknown") /\ ~QueueLocked
  /\ UNCHANGED <<vars, wakeAt>>

MainCallback == Ready("callback") /\ SetTaskCompletionCallback("returns") /\ UNCHANGED wakeAt
MainStart == Ready("start") /\ Start /\ UNCHANGED wakeAt
MainStop == Ready("stop") /\ Stop /\ UNCHANGED wakeAt

MainSleep ==
  /\ Ready("sleep")
  /\ wakeAt' = now + Script[step].d
  /\ UNCHANGED vars

\* The polling loop of Benchmark::run ends when every function has counted.
MainAwait ==
  /\ Ready("await")
  /\ \A t \in DOMAIN Job[example] : runs[t] = 1
  /\ \A w \in Workers : stage[w] # "exec"
  /\ UNCHANGED <<vars, wakeAt>>

MainStep ==
  \/ /\ \/ MainSchedule \/ MainCancel \/ MainCancelUnknown \/ MainCallback
        \/ MainStart \/ MainStop \/ MainSleep \/ MainAwait
     /\ UNCHANGED example
  \/ (ClientStep(main) \/ StopStep) /\ UNCHANGED <<example, step, wakeAt>>

-----------------------------------------------------------------------------
(* The threads of the scheduler, and time *)

\* A pool of the program's size; a function ends when its time has passed, and
\* by an exception when it throws one.
Paced(w) ==
  /\ runs' # runs => Cardinality(Busy) < Catalogue[example].threads
  /\ stage[w] = "exec" /\ stage'[w] # "exec" =>
       /\ now >= begunAt[w] + Plan(running[w]).lasts
       /\ outcome'[w] = "FAILED" <=> Plan(running[w]).throws

\* The loop and the workers; no wakeup is spurious.
SchedulerStep ==
  /\ LoopStep \/ \E w \in Workers : WorkerStep(w) /\ Paced(w)
  /\ UNCHANGED <<example, step, wakeAt>>

ThreadStep == MainStep \/ SchedulerStep

\* The ends of the sleep, of the functions and of the loop's timed wait.
Deadlines ==
  {wakeAt}
    \cup {begunAt[w] + Plan(running[w]).lasts : w \in {v \in Workers : stage[v] = "exec"}}
    \cup {task[hand].startTime : l \in {loop} \cap {"timedWaiting"}}
Upcoming == {d \in Deadlines : d > now}

Advance ==
  /\ ~ENABLED ThreadStep
  /\ Upcoming # {}
  /\ now' = Min(Upcoming)
  /\ UNCHANGED <<queueVars, poolVars, workerVars, recordVars, completionCallback,
                 client, ctl, runs, example, step, wakeAt>>

ExamplesInit ==
  /\ Init
  /\ example \in Examples /\ step = 1 /\ wakeAt = 0

ExamplesNext == ThreadStep \/ Advance

ExamplesSpec == ExamplesInit /\ [][ExamplesNext]_allVars

-----------------------------------------------------------------------------
(* Properties *)

Finished == step > Len(Script) /\ ctl = "idle" /\ client[main].pc = "idle"
Repeating == \E t \in DOMAIN Job[example] : Plan(t).isRepeatable

\* What every example sets out to show: when its main() ends, each task has run
\* as often as it should (the ones that print "should not run" never) and has
\* the status it should, and the statistics printed agree with the statuses; for
\* PerformanceBenchmark, no finalisation is cut off by the stop() that follows.
Outcomes ==
  Finished =>
    /\ stats["SCHEDULED"] = Len(Job[example])
    /\ \A t \in DOMAIN Job[example] : /\ runs[t] \in Plan(t).ran
                                     /\ GetTaskStatus(t) \in Plan(t).ends
    /\ ~Repeating => \A s \in FinalStatus :
         stats[s] = Cardinality({t \in DOMAIN Job[example] : GetTaskStatus(t) = s})

\* "Lower priority numbers indicate higher priority tasks" (PriorityScheduling):
\* no task begins before one with a smaller number that was due no later.
ExecutionOrder ==
  [][\A t, u \in Tasks :
       runs'[t] > runs[t] /\ u \in activeTasks /\ runs[u] = 0 /\ u # t
         => ~(/\ task[u].priority < task[t].priority
              /\ task[u].startTime <= task[t].startTime)]_allVars

\* The programs whose stop() does not come at the instant the loop is at work.
CalmStop == DOMAIN Catalogue \ {"RepeatableTasks", "StatisticsMonitoring",
                                 "PerformanceBenchmark"}

\* These programs end: stop() finds the loop asleep, wakes it and joins it and
\* the workers.  The stop() of the other three may meet the loop between its
\* predicate and its wait, and then hangs.  This is the outcome without spurious
\* wakeups: one at the very instant of stop() can put the loop of any program there.
CalmProgramsEnd ==
  example \in CalmStop /\ ~ENABLED ThreadStep /\ Upcoming = {} => Finished

\* "Tasks will execute according to their schedule." (CustomSchedulingPolicies, where
\* a worker is always free): a task begins at its start time.
BeginsOnTime ==
  [][\A t \in Tasks : runs'[t] > runs[t] => now = task[t].startTime]_allVars

Symmetry == Permutations(Workers)
=============================================================================
