------------------------------- MODULE Logger -------------------------------
(***************************************************************************)
(* The Logger singleton (src/Logger.cpp): threads set the level and the    *)
(* console flag and log messages, each under logMutex.  A line reaches the *)
(* console in two pieces, the text and the std::endl.  Wording is left     *)
(* out: a message is the thread it comes from, its level and its time      *)
(* stamp.  Output that bypasses the Logger is not modelled.                *)
(***************************************************************************)
EXTENDS Integers, Sequences

CONSTANTS
  Threads,    \* the threads that log or configure the logger
  NoThread,   \* nobody holds the mutex
  MaxPieces,  \* bound: no call of log() begins with more on the console
  MaxTime     \* bound on the system clock

ASSUME LoggerAssumption == MaxPieces \in Nat /\ MaxTime \in Nat /\ NoThread \notin Threads

\* enum class Level in its order, and what debug() ... error() log.
DEBUG == 0
INFO == 1
WARN == 2
ERROR == 3
NONE == 4
Levels == DEBUG..NONE
MessageLevels == {DEBUG, INFO, WARN, ERROR}
Messages == [by: Threads, level: MessageLevels, at: 0..MaxTime]

\* A piece of a thread's output with level NONE, which no message has, is the
\* std::endl.
Endl(t) == [by |-> t, level |-> NONE]

VARIABLES
  currentLevel, consoleOutput,
  logMutex,   \* the thread that holds it, or NoThread
  doing,      \* where each thread is in log()
  level,      \* the level it has called log() with; NONE outside
  stamp,      \* what getCurrentTimestamp() returned to it; 0 outside
  now,        \* the system clock
  console     \* the pieces printed so far

vars == <<currentLevel, consoleOutput, logMutex, doing, level, stamp, now, console>>
settings == <<currentLevel, consoleOutput>>

Init ==
  /\ currentLevel = NONE /\ consoleOutput = FALSE
  /\ logMutex = NoThread
  /\ doing = [t \in Threads |-> "none"] /\ level = [t \in Threads |-> NONE]
  /\ stamp = [t \in Threads |-> 0] /\ now = 0
  /\ console = <<>>

Go(t, from, to) == doing[t] = from /\ doing' = [doing EXCEPT ![t] = to]

\* The lock_guard every method begins with.  A thread that waits for it does
\* nothing else, so a call begins when it gets the mutex.
CanLock(t) == doing[t] = "none" /\ logMutex = NoThread

-----------------------------------------------------------------------------

\* Mutant: setLevel() does not lock.
SetLevelUnlocked(t, l) ==
  /\ doing[t] = "none"
  /\ currentLevel' = l
  /\ UNCHANGED <<consoleOutput, logMutex, doing, level, stamp, now, console>>

SetLevel(t, l) ==
  /\ CanLock(t)
  /\ currentLevel' = l
  /\ UNCHANGED <<consoleOutput, logMutex, doing, level, stamp, now, console>>

EnableConsoleOutput(t, enable) ==
  /\ CanLock(t)
  /\ consoleOutput' = enable
  /\ UNCHANGED <<currentLevel, logMutex, doing, level, stamp, now, console>>

\* Mutant: log() does not lock.
LogUnlocked(t, l) ==
  /\ Len(console) <= MaxPieces
  /\ Go(t, "none", "filter")
  /\ level' = [level EXCEPT ![t] = l]
  /\ UNCHANGED <<settings, logMutex, stamp, now, console>>

\* debug, info, warn and error call log with their level.
Log(t, l) ==
  /\ Len(console) <= MaxPieces
  /\ CanLock(t) /\ logMutex' = t
  /\ Go(t, "none", "filter")
  /\ level' = [level EXCEPT ![t] = l]
  /\ UNCHANGED <<settings, stamp, now, console>>

Filter(t) ==
  /\ Go(t, "filter", IF level[t] < currentLevel THEN "return" ELSE "stamp")
  /\ UNCHANGED <<settings, logMutex, level, stamp, now, console>>

\* getCurrentTimestamp(): the format is of fixed width, year first, so stamps
\* compare like the clock readings they stand for.
Stamp(t) ==
  /\ Go(t, "stamp", "text")
  /\ stamp' = [stamp EXCEPT ![t] = now]
  /\ UNCHANGED <<settings, logMutex, level, now, console>>

WriteText(t) ==
  /\ Go(t, "text", IF consoleOutput THEN "endl" ELSE "return")
  /\ console' = IF consoleOutput
       THEN Append(console, [by |-> t, level |-> level[t], at |-> stamp[t]]) ELSE console
  /\ UNCHANGED <<settings, logMutex, level, stamp, now>>

WriteEndl(t) ==
  /\ Go(t, "endl", "return")
  /\ console' = Append(console, Endl(t))
  /\ UNCHANGED <<settings, logMutex, level, stamp, now>>

Return(t) ==
  /\ Go(t, "return", "none")
  /\ logMutex' = NoThread
  /\ level' = [level EXCEPT ![t] = NONE] /\ stamp' = [stamp EXCEPT ![t] = 0]
  /\ UNCHANGED <<settings, now, console>>

\* The clock is assumed not to be set back.
Tick ==
  /\ now < MaxTime /\ now' = now + 1
  /\ UNCHANGED <<settings, logMutex, doing, level, stamp, console>>

Next ==
  \/ Tick
  \/ \E t \in Threads :
       \/ \E l \in Levels : SetLevel(t, l)
       \/ \E enable \in BOOLEAN : EnableConsoleOutput(t, enable)
       \/ \E l \in MessageLevels : Log(t, l)
       \/ Filter(t) \/ Stamp(t) \/ WriteText(t) \/ WriteEndl(t) \/ Return(t)

Spec == Init /\ [][Next]_vars

-----------------------------------------------------------------------------
(* Properties *)

\* "Log messages from different threads don't interleave" (the comment in log()):
\* the console shows each text followed by the std::endl of the same call, except
\* the one that the holder of the mutex is printing.
WholeLines ==
  \A i \in DOMAIN console :
    IF i % 2 = 0 THEN console[i] = Endl(console[i - 1].by)
    ELSE console[i] \in Messages /\ (i = Len(console) => logMutex = console[i].by)

\* The lines of all threads are printed in the order of their time stamps: log()
\* reads the clock under the mutex.
StampsInOrder ==
  \A i, j \in DOMAIN console :
    i < j /\ {console[i], console[j]} \subseteq Messages => console[i].at <= console[j].at

\* The texts on the console, which are every other piece.
Texts == [k \in 1..((Len(console) + 1) \div 2) |-> console[2 * k - 1]]

Sink == INSTANCE LogSink WITH
  threshold <- currentLevel, enabled <- consoleOutput, lines <- Texts,
  Messages <- Messages, Levels <- Levels

\* Every printed message passed the level and the console flag as they were when it
\* was printed, though log() tests them one after the other: once setLevel(NONE) or
\* enableConsoleOutput(false) has returned, nothing more is printed.
ImplementsSink == Sink!SinkSpec
=============================================================================
