-------------------------------- MODULE Task --------------------------------
(***************************************************************************)
(* The Task class (include/Task.h, src/Task.cpp): the status of a task,    *)
(* the record of its fields, the order the priority queue sorts by, the    *)
(* re-arming of a repeatable task and the timeout test the scheduler       *)
(* applies to it.  A task is named by the number its id is made from.      *)
(*                                                                         *)
(* Time is counted in ticks, TicksPerSecond of them to a second, because   *)
(* start times are finer than the std::chrono::seconds in which            *)
(* repeatEvery and timeout are given.                                      *)
(***************************************************************************)
EXTENDS Integers

CONSTANT TicksPerSecond

ASSUME TicksAssumption == TicksPerSecond \in Nat \ {0}

\* enum class Status, and the four values that end a task or a run of it.
FinalStatus == {"COMPLETED", "FAILED", "CANCELLED", "TIMEOUT"}
Status == {"PENDING", "RUNNING"} \cup FinalStatus

\* What a caller chooses (TaskConfig without the function to run).
Config == [priority: Int, startTime: Int, isRepeatable: BOOLEAN,
           repeatEvery: Int, timeout: Int]

\* The fields of a Task.
TaskRecord == [priority: Int, startTime: Int, isRepeatable: BOOLEAN,
               repeatEvery: Int, timeout: Int, status: Status]

\* Mutant: the status is not initialised.
NewTaskNoStatus(cfg) ==
  [priority |-> cfg.priority, startTime |-> cfg.startTime,
   isRepeatable |-> cfg.isRepeatable, repeatEvery |-> cfg.repeatEvery,
   timeout |-> cfg.timeout, status |-> "UNINITIALISED"]

\* Task::Task: the fields come from the arguments, the status is PENDING.
NewTask(cfg) ==
  [priority |-> cfg.priority, startTime |-> cfg.startTime,
   isRepeatable |-> cfg.isRepeatable, repeatEvery |-> cfg.repeatEvery,
   timeout |-> cfg.timeout, status |-> "PENDING"]

\* Mutant: a larger number is a higher priority.
GreaterReversed(a, b) ==
  IF a.priority # b.priority THEN a.priority < b.priority
                             ELSE a.startTime > b.startTime

\* Task::operator>: a is served after b.
Greater(a, b) ==
  IF a.priority # b.priority THEN a.priority > b.priority
                             ELSE a.startTime > b.startTime

\* Task::reschedule(): the start time one repeat interval from time t.
NextStart(a, t) == t + a.repeatEvery * TicksPerSecond

\* runTaskWithTimeout: a timeout of zero or less means none, and the elapsed
\* time is cut down to whole seconds before it is compared.
TimedOut(a, elapsed) ==
  /\ a.timeout > 0
  /\ elapsed \div TicksPerSecond > a.timeout
=============================================================================
