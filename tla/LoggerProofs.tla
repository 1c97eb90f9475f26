---------------------------- MODULE LoggerProofs ----------------------------
(***************************************************************************)
(* The Logger for every number of threads: the mutex keeps lines whole, in *)
(* the order of their time stamps, and within the settings of the moment   *)
(* they are printed.                                                       *)
(***************************************************************************)
EXTENDS Logger, SequenceTheorems, TLAPS

Doings == {"none", "filter", "stamp", "text", "endl", "return"}
Pieces == Messages \cup {Endl(t) : t \in Threads}

TypeOK ==
  /\ currentLevel \in Levels /\ consoleOutput \in BOOLEAN
  /\ logMutex \in Threads \cup {NoThread}
  /\ doing \in [Threads -> Doings] /\ level \in [Threads -> Levels]
  /\ stamp \in [Threads -> 0..MaxTime] /\ now \in 0..MaxTime
  /\ console \in Seq(Pieces)

\* Who is in log() holds the mutex, with a message that passed the filter once it is
\* past it: setLevel() cannot get in between.
Exclusive ==
  \A t \in Threads :
    /\ doing[t] # "none" <=> logMutex = t
    /\ doing[t] # "none" => level[t] \in MessageLevels
    /\ doing[t] \in {"stamp", "text"} => level[t] >= currentLevel

\* Half a line is on the console exactly while its writer is between the two pieces.
HalfLine ==
  /\ Len(console) % 2 = 1 =>
       logMutex \in Threads /\ doing[logMutex] = "endl" /\ console[Len(console)].by = logMutex
  /\ \A t \in Threads : doing[t] = "endl" => Len(console) % 2 = 1

\* Nothing on the console is from the future, nor younger than the stamp that the
\* holder of the mutex has just read.
Past ==
  /\ \A t \in Threads : stamp[t] <= now
  /\ \A i \in DOMAIN console : console[i] \in Messages =>
       /\ console[i].at <= now
       /\ \A t \in Threads : doing[t] = "text" => console[i].at <= stamp[t]

IInv == TypeOK /\ Exclusive /\ HalfLine /\ Past /\ WholeLines /\ StampsInOrder

-----------------------------------------------------------------------------
(* Facts about pieces and sequences of them *)

\* Odd and even.
LEMMA Parity ==
  \A n \in Nat : n % 2 \in {0, 1} /\ ((n + 1) % 2 = 1 <=> n % 2 = 0)
  OBVIOUS

\* A std::endl is not a message.
LEMMA EndlIsNoMessage == ASSUME NEW t PROVE Endl(t) \notin Messages /\ Endl(t).by = t
<1>1. \A m \in Messages : m.level # NONE
  BY DEF Messages, MessageLevels, DEBUG, INFO, WARN, ERROR, NONE
<1>2. Endl(t).level = NONE /\ Endl(t).by = t
  BY DEF Endl
<1> QED BY <1>1, <1>2

\* Printing a piece adds it at the end.
LEMMA Printing ==
  ASSUME TypeOK, NEW p \in Pieces, console' = Append(console, p)
  PROVE  /\ Len(console) \in Nat /\ DOMAIN console = 1..Len(console)
         /\ console' \in Seq(Pieces) /\ Len(console') = Len(console) + 1
         /\ DOMAIN console' = 1..(Len(console) + 1)
         /\ console'[Len(console) + 1] = p
         /\ \A i \in 1..Len(console) : console'[i] = console[i]
  BY DEF TypeOK

-----------------------------------------------------------------------------
(* The inductive steps *)

\* The values of the logger's state.
LEMMA TypeStep == TypeOK /\ Exclusive /\ [Next]_vars => TypeOK'
<1> SUFFICES ASSUME TypeOK, Exclusive, [Next]_vars PROVE TypeOK'
  OBVIOUS
<1>2. MessageLevels \subseteq Levels /\ NONE \in Levels
  BY DEF MessageLevels, Levels, DEBUG, INFO, WARN, ERROR, NONE
<1>3. ASSUME NEW t \in Threads, NEW l \in Levels, SetLevel(t, l) PROVE TypeOK'
  BY <1>3 DEF SetLevel, TypeOK
<1>4. ASSUME NEW t \in Threads, NEW e \in BOOLEAN, EnableConsoleOutput(t, e) PROVE TypeOK'
  BY <1>4 DEF EnableConsoleOutput, TypeOK
<1>5. ASSUME NEW t \in Threads, NEW l \in MessageLevels, Log(t, l) PROVE TypeOK'
  BY <1>2, <1>5 DEF Log, Go, Doings, settings, TypeOK
<1>6. ASSUME NEW t \in Threads, Filter(t) PROVE TypeOK'
  BY <1>6 DEF Filter, Go, Doings, settings, TypeOK
<1>7. ASSUME NEW t \in Threads, Stamp(t) PROVE TypeOK'
  BY <1>7 DEF Stamp, Go, Doings, settings, TypeOK
<1>8. ASSUME NEW t \in Threads, WriteText(t) PROVE TypeOK'
  <2>1. [by |-> t, level |-> level[t], at |-> stamp[t]] \in Pieces
    BY <1>8 DEF WriteText, Go, Exclusive, TypeOK, Pieces, Messages
  <2>2. console' \in Seq(Pieces)
    BY <1>8, <2>1 DEF WriteText, TypeOK
  <2>3. doing' \in [Threads -> Doings]
    BY <1>8 DEF WriteText, Go, Doings, TypeOK
  <2> QED BY <1>8, <2>2, <2>3 DEF WriteText, settings, TypeOK
<1>9. ASSUME NEW t \in Threads, WriteEndl(t) PROVE TypeOK'
  <2>1. Endl(t) \in Pieces
    BY DEF Pieces
  <2>2. console' \in Seq(Pieces)
    BY <1>9, <2>1 DEF WriteEndl, TypeOK
  <2>3. doing' \in [Threads -> Doings]
    BY <1>9 DEF WriteEndl, Go, Doings, TypeOK
  <2> QED BY <1>9, <2>2, <2>3 DEF WriteEndl, settings, TypeOK
<1>10. ASSUME NEW t \in Threads, Return(t) PROVE TypeOK'
  BY <1>2, <1>10, LoggerAssumption DEF Return, Go, Doings, settings, TypeOK
<1>11. CASE Tick
  BY <1>11, LoggerAssumption DEF Tick, settings, TypeOK
<1>12. CASE UNCHANGED vars
  BY <1>12 DEF vars, TypeOK
<1> QED
  BY <1>3, <1>4, <1>5, <1>6, <1>7, <1>8, <1>9, <1>10, <1>11, <1>12 DEF Next

\* The mutex is taken when log() begins and given back when it returns.
LEMMA ExclusiveStep == TypeOK /\ Exclusive /\ [Next]_vars => Exclusive'
<1> SUFFICES ASSUME TypeOK, Exclusive, [Next]_vars PROVE Exclusive'
  OBVIOUS
<1>0. /\ doing \in [Threads -> Doings] /\ level \in [Threads -> Levels]
      /\ currentLevel \in Int /\ \A t \in Threads : level[t] \in Int
      /\ NoThread \notin Threads
  BY LoggerAssumption DEF TypeOK, Levels, DEBUG, NONE
<1>1. ASSUME NEW t \in Threads, NEW l \in Levels, SetLevel(t, l) PROVE Exclusive'
  BY <1>0, <1>1 DEF SetLevel, CanLock, Exclusive
<1>2. ASSUME NEW t \in Threads, NEW e \in BOOLEAN, EnableConsoleOutput(t, e) PROVE Exclusive'
  BY <1>2 DEF EnableConsoleOutput, Exclusive
<1>3. ASSUME NEW t \in Threads, NEW l \in MessageLevels, Log(t, l) PROVE Exclusive'
  BY <1>0, <1>3 DEF Log, CanLock, Go, settings, Exclusive
<1>4. ASSUME NEW t \in Threads, Filter(t) PROVE Exclusive'
  BY <1>0, <1>4 DEF Filter, Go, settings, Exclusive
<1>5. ASSUME NEW t \in Threads, Stamp(t) PROVE Exclusive'
  BY <1>0, <1>5 DEF Stamp, Go, settings, Exclusive
<1>6. ASSUME NEW t \in Threads, WriteText(t) PROVE Exclusive'
  BY <1>0, <1>6 DEF WriteText, Go, settings, Exclusive
<1>7. ASSUME NEW t \in Threads, WriteEndl(t) PROVE Exclusive'
  BY <1>0, <1>7 DEF WriteEndl, Go, settings, Exclusive
<1>8. ASSUME NEW t \in Threads, Return(t) PROVE Exclusive'
  BY <1>0, <1>8 DEF Return, Go, settings, Exclusive
<1>9. CASE Tick \/ UNCHANGED vars
  BY <1>9 DEF Tick, vars, settings, Exclusive
<1> QED BY <1>1, <1>2, <1>3, <1>4, <1>5, <1>6, <1>7, <1>8, <1>9 DEF Next

\* The console while nobody prints: what has to be shown of a step.
LEMMA NotPrinting ==
  ASSUME IInv, TypeOK', UNCHANGED console,
         Len(console) % 2 = 1 => UNCHANGED <<doing, logMutex>>,
         \A t \in Threads : doing'[t] = "endl" => doing[t] = "endl",
         now <= now', \A t \in Threads : stamp'[t] <= now',
         \A t \in Threads : doing'[t] = "text" =>
           (doing[t] = "text" /\ stamp'[t] = stamp[t]) \/ stamp'[t] = now
  PROVE  HalfLine' /\ Past' /\ WholeLines' /\ StampsInOrder'
<1>0. /\ now \in Nat /\ now' \in Nat
      /\ Len(console) \in Nat /\ DOMAIN console = 1..Len(console)
      /\ \A i \in DOMAIN console : console[i] \in Messages => console[i].at \in Nat
  BY LoggerAssumption DEF IInv, TypeOK, Messages
<1>1. HalfLine'
  BY DEF IInv, HalfLine
<1>2. Past'
  BY <1>0 DEF IInv, Past
<1>3. WholeLines'
  <2>1. ASSUME NEW i \in DOMAIN console, i % 2 # 0, i = Len(console)
        PROVE  logMutex' = logMutex
    BY <1>0, <2>1, Parity
  <2> QED BY <2>1 DEF IInv, WholeLines
<1>4. StampsInOrder'
  BY DEF IInv, StampsInOrder
<1> QED BY <1>1, <1>2, <1>3, <1>4

\* The text comes when all lines are whole, with a stamp as late as any before it.
LEMMA TextStep ==
  ASSUME IInv, NEW t \in Threads, WriteText(t), consoleOutput
  PROVE  HalfLine' /\ Past' /\ WholeLines' /\ StampsInOrder'
<1> DEFINE m == [by |-> t, level |-> level[t], at |-> stamp[t]]
           n == Len(console)
<1>0. /\ TypeOK /\ Exclusive /\ HalfLine /\ Past /\ WholeLines /\ StampsInOrder
      /\ doing \in [Threads -> Doings] /\ stamp[t] \in Nat /\ now \in Nat
  BY LoggerAssumption DEF IInv, TypeOK
<1>1. /\ doing[t] = "text" /\ doing' = [doing EXCEPT ![t] = "endl"] /\ logMutex = t
      /\ console' = Append(console, m) /\ UNCHANGED <<logMutex, stamp, now>>
  BY <1>0 DEF WriteText, Go, Exclusive
<1>2. m \in Messages /\ m \in Pieces
  BY <1>0, <1>1 DEF Exclusive, TypeOK, Messages, Pieces
<1>3. /\ n \in Nat /\ DOMAIN console = 1..n /\ Len(console') = n + 1
      /\ DOMAIN console' = 1..(n + 1) /\ console'[n + 1] = m
      /\ \A i \in 1..n : console'[i] = console[i]
  BY <1>0, <1>1, <1>2, Printing
<1>4. n % 2 = 0 /\ (n + 1) % 2 = 1
  BY <1>0, <1>1, <1>3, Parity DEF HalfLine
<1>5. m.by = t /\ m.at = stamp[t]
  OBVIOUS
<1> HIDE DEF m, n
<1>6. HalfLine'
  BY <1>0, <1>1, <1>3, <1>4, <1>5 DEF HalfLine
<1>7. \A i \in 1..n : console[i] \in Messages => /\ console[i].at <= stamp[t]
                                                  /\ console[i].at <= now
  BY <1>0, <1>1, <1>3 DEF Past
<1>8. stamp[t] <= now
  BY <1>0, <1>1 DEF Past
<1>9. Past'
  <2>1. \A u \in Threads : doing'[u] # "text"
    BY <1>0, <1>1 DEF Exclusive
  <2>2. \A u \in Threads : stamp'[u] <= now'
    BY <1>0, <1>1 DEF Past
  <2>3. \A i \in 1..(n + 1) : console'[i] \in Messages => console'[i].at <= now'
    BY <1>1, <1>3, <1>5, <1>7, <1>8
  <2> QED BY <1>3, <2>1, <2>2, <2>3 DEF Past
<1>10. WholeLines'
  <2>1. ASSUME NEW i \in 1..(n + 1), i % 2 = 0 PROVE console'[i] = Endl(console'[i - 1].by)
    <3>1. i \in 1..n /\ i - 1 \in 1..n
      BY <1>3, <1>4, <2>1
    <3> QED BY <1>0, <1>3, <2>1, <3>1 DEF WholeLines
  <2>2. ASSUME NEW i \in 1..(n + 1), i % 2 # 0
        PROVE  console'[i] \in Messages /\ (i = n + 1 => logMutex' = console'[i].by)
    <3>1. CASE i = n + 1
      BY <1>1, <1>2, <1>3, <1>5, <3>1
    <3>2. CASE i # n + 1
      BY <1>0, <1>3, <2>2, <3>2 DEF WholeLines
    <3> QED BY <3>1, <3>2
  <2> QED BY <1>3, <2>1, <2>2 DEF WholeLines
<1>11. StampsInOrder'
  <2>1. ASSUME NEW i \in 1..(n + 1), NEW j \in 1..(n + 1), i < j,
               console'[i] \in Messages, console'[j] \in Messages
        PROVE  console'[i].at <= console'[j].at
    <3>1. i \in 1..n /\ console'[i] = console[i]
      BY <1>3, <2>1
    <3>2. CASE j = n + 1
      BY <1>3, <1>5, <1>7, <2>1, <3>1, <3>2
    <3>3. CASE j # n + 1
      <4>1. j \in 1..n /\ console'[j] = console[j]
        BY <1>3, <2>1, <3>3
      <4> QED BY <1>0, <1>3, <2>1, <3>1, <4>1 DEF StampsInOrder
    <3> QED BY <3>2, <3>3
  <2> QED BY <1>3, <2>1 DEF StampsInOrder
<1> QED BY <1>6, <1>9, <1>10, <1>11

\* The std::endl comes after the text of the same thread.
LEMMA EndlStep ==
  ASSUME IInv, NEW t \in Threads, WriteEndl(t)
  PROVE  HalfLine' /\ Past' /\ WholeLines' /\ StampsInOrder'
<1> DEFINE n == Len(console)
<1>0. /\ TypeOK /\ Exclusive /\ HalfLine /\ Past /\ WholeLines /\ StampsInOrder
      /\ doing \in [Threads -> Doings] /\ Endl(t) \in Pieces /\ Endl(t) \notin Messages
  BY EndlIsNoMessage DEF IInv, TypeOK, Pieces
<1>1. /\ doing[t] = "endl" /\ doing' = [doing EXCEPT ![t] = "return"] /\ logMutex = t
      /\ console' = Append(console, Endl(t)) /\ UNCHANGED <<logMutex, stamp, now>>
  BY <1>0 DEF WriteEndl, Go, Exclusive
<1>2. /\ n \in Nat /\ DOMAIN console = 1..n /\ Len(console') = n + 1
      /\ DOMAIN console' = 1..(n + 1) /\ console'[n + 1] = Endl(t)
      /\ \A i \in 1..n : console'[i] = console[i]
  BY <1>0, <1>1, Printing
<1>3. n % 2 = 1 /\ (n + 1) % 2 = 0 /\ n \in 1..n /\ console[n].by = t
  <2>1. n % 2 = 1 /\ console[n].by = t
    BY <1>0, <1>1 DEF HalfLine
  <2> HIDE DEF n
  <2>2. (n + 1) % 2 = 0 /\ n # 0
    BY <1>2, <2>1
  <2> QED BY <1>2, <2>1, <2>2
<1> HIDE DEF n
<1>4. HalfLine'
  <2>1. \A u \in Threads : doing'[u] # "endl"
    BY <1>0, <1>1 DEF Exclusive
  <2> QED BY <1>2, <1>3, <2>1 DEF HalfLine
<1>5. Past'
  <2>1. \A u \in Threads : doing'[u] # "text"
    BY <1>0, <1>1 DEF Exclusive
  <2>2. \A i \in 1..(n + 1) : console'[i] \in Messages => i \in 1..n /\ console'[i] = console[i]
    BY <1>0, <1>2
  <2> QED BY <1>0, <1>1, <1>2, <2>1, <2>2 DEF Past
<1>6. WholeLines'
  <2>1. ASSUME NEW i \in 1..(n + 1), i % 2 = 0 PROVE console'[i] = Endl(console'[i - 1].by)
    <3>1. CASE i = n + 1
      BY <1>2, <1>3, <3>1
    <3>2. CASE i # n + 1
      <4>1. i \in 1..n /\ i - 1 \in 1..n
        BY <1>2, <2>1, <3>2
      <4> QED BY <1>0, <1>2, <2>1, <4>1 DEF WholeLines
    <3> QED BY <3>1, <3>2
  <2>2. ASSUME NEW i \in 1..(n + 1), i % 2 # 0
        PROVE  console'[i] \in Messages /\ (i = n + 1 => logMutex' = console'[i].by)
    BY <1>0, <1>2, <1>3, <2>2 DEF WholeLines
  <2> QED BY <1>2, <2>1, <2>2 DEF WholeLines
<1>7. StampsInOrder'
  <2>1. \A i \in 1..(n + 1) : console'[i] \in Messages => i \in 1..n /\ console'[i] = console[i]
    BY <1>0, <1>2
  <2> QED BY <1>0, <1>2, <2>1 DEF StampsInOrder
<1> QED BY <1>4, <1>5, <1>6, <1>7

\* Every step keeps the lines whole and in order.
LEMMA ConsoleStep ==
  IInv /\ TypeOK' /\ [Next]_vars => HalfLine' /\ Past' /\ WholeLines' /\ StampsInOrder'
<1> SUFFICES ASSUME IInv, TypeOK', [Next]_vars
             PROVE  HalfLine' /\ Past' /\ WholeLines' /\ StampsInOrder'
  OBVIOUS
<1>0. /\ doing \in [Threads -> Doings] /\ stamp \in [Threads -> Nat] /\ now \in Nat
      /\ \A t \in Threads : stamp[t] \in Nat /\ stamp[t] <= now
      /\ NoThread \notin Threads
  BY LoggerAssumption DEF IInv, TypeOK, Past
<1>1. ASSUME NEW t \in Threads, logMutex = NoThread \/ (doing[t] # "none" /\ doing[t] # "endl")
      PROVE  Len(console) % 2 # 1
  BY <1>0, <1>1 DEF IInv, HalfLine, Exclusive
<1>2. ASSUME NEW t \in Threads, NEW l \in Levels, SetLevel(t, l)
      PROVE  HalfLine' /\ Past' /\ WholeLines' /\ StampsInOrder'
  BY <1>0, <1>2, NotPrinting DEF SetLevel
<1>3. ASSUME NEW t \in Threads, NEW e \in BOOLEAN, EnableConsoleOutput(t, e)
      PROVE  HalfLine' /\ Past' /\ WholeLines' /\ StampsInOrder'
  BY <1>0, <1>3, NotPrinting DEF EnableConsoleOutput
<1>4. ASSUME NEW t \in Threads, NEW l \in MessageLevels, Log(t, l)
      PROVE  HalfLine' /\ Past' /\ WholeLines' /\ StampsInOrder'
  BY <1>0, <1>1, <1>4, NotPrinting DEF Log, CanLock, Go
<1>5. ASSUME NEW t \in Threads, Filter(t)
      PROVE  HalfLine' /\ Past' /\ WholeLines' /\ StampsInOrder'
  BY <1>0, <1>1, <1>5, NotPrinting DEF Filter, Go
<1>6. ASSUME NEW t \in Threads, Stamp(t)
      PROVE  HalfLine' /\ Past' /\ WholeLines' /\ StampsInOrder'
  BY <1>0, <1>1, <1>6, NotPrinting DEF Stamp, Go
<1>7. ASSUME NEW t \in Threads, WriteText(t)
      PROVE  HalfLine' /\ Past' /\ WholeLines' /\ StampsInOrder'
  <2>1. CASE ~consoleOutput
    BY <1>0, <1>1, <1>7, <2>1, NotPrinting DEF WriteText, Go
  <2> QED BY <1>7, <2>1, TextStep
<1>8. ASSUME NEW t \in Threads, Return(t)
      PROVE  HalfLine' /\ Past' /\ WholeLines' /\ StampsInOrder'
  BY <1>0, <1>1, <1>8, NotPrinting DEF Return, Go
<1>9. CASE Tick \/ UNCHANGED vars
  <2>1. UNCHANGED <<console, doing, logMutex, stamp>> /\ now <= now' /\ now' \in Nat
    BY <1>0, <1>9 DEF Tick, vars
  <2>2. \A t \in Threads : stamp'[t] <= now'
    BY <1>0, <2>1
  <2> QED BY <2>1, <2>2, NotPrinting
<1> QED
  BY <1>2, <1>3, <1>4, <1>5, <1>6, <1>7, <1>8, <1>9, EndlStep DEF Next

\* The inductive invariant of the logger holds in every reachable state.
THEOREM Invariance == Spec => []IInv
<1>1. Init => IInv
  <2> SUFFICES ASSUME Init PROVE IInv
    OBVIOUS
  <2>0. /\ NONE \in Levels /\ 0 \in 0..MaxTime /\ "none" \in Doings
        /\ consoleOutput \in BOOLEAN /\ console \in Seq(Pieces)
    <3>1. NONE \in Levels /\ 0 \in 0..MaxTime /\ "none" \in Doings
      BY LoggerAssumption DEF Doings, Levels, DEBUG, NONE
    <3>2. console \in Seq(Pieces)
      BY DEF Init
    <3>3. consoleOutput \in BOOLEAN
      BY DEF Init
    <3> QED BY <3>1, <3>2, <3>3
  <2>1. TypeOK /\ Exclusive
    <3>1. TypeOK
      BY <2>0 DEF Init, TypeOK
    <3>2. Exclusive
      BY LoggerAssumption DEF Init, Exclusive
    <3> QED BY <3>1, <3>2
  <2>2. console = <<>> /\ Len(console) = 0 /\ DOMAIN console = {}
    BY DEF Init
  <2>3. HalfLine /\ Past /\ WholeLines /\ StampsInOrder
    BY <2>2 DEF Init, HalfLine, Past, WholeLines, StampsInOrder
  <2> QED BY <2>1, <2>3 DEF IInv
<1>2. IInv /\ [Next]_vars => IInv'
  BY TypeStep, ExclusiveStep, ConsoleStep DEF IInv
<1> QED BY <1>1, <1>2, PTL DEF Spec

\* Messages of different threads do not interleave on the console.
THEOREM LinesAreWhole == Spec => []WholeLines
  BY Invariance, PTL DEF IInv

\* Lines are printed in the order of their time stamps.
THEOREM StampsAreOrdered == Spec => []StampsInOrder
  BY Invariance, PTL DEF IInv

-----------------------------------------------------------------------------
(* The logger implements the sink *)

\* Half of a number of pieces, rounded up, is the number of texts among them.
LEMMA Halves ==
  ASSUME NEW n \in Nat
  PROVE  /\ (n + 1) \div 2 \in Nat
         /\ n % 2 = 0 => (n + 2) \div 2 = (n + 1) \div 2 + 1 /\ 2 * ((n + 2) \div 2) - 1 = n + 1
         /\ n % 2 = 1 => (n + 2) \div 2 = (n + 1) \div 2
         /\ \A k \in 1..((n + 1) \div 2) : 2 * k - 1 \in 1..n
  OBVIOUS

\* A text is one more line of the sink.
LEMMA TextIsEmitted ==
  ASSUME IInv, NEW t \in Threads, WriteText(t), consoleOutput
  PROVE  \E m \in Messages : m.level >= currentLevel /\ Texts' = Append(Texts, m)
<1> DEFINE m == [by |-> t, level |-> level[t], at |-> stamp[t]]
           n == Len(console)
           h == (n + 1) \div 2
<1>0. TypeOK /\ Exclusive /\ HalfLine /\ doing[t] = "text" /\ console' = Append(console, m)
  BY DEF IInv, WriteText, Go
<1>1. m \in Messages /\ m \in Pieces /\ m.level >= currentLevel /\ logMutex = t
  BY <1>0 DEF Exclusive, TypeOK, Messages, Pieces
<1>2. /\ n \in Nat /\ Len(console') = n + 1 /\ console'[n + 1] = m
      /\ \A i \in 1..n : console'[i] = console[i]
  BY <1>0, <1>1, Printing
<1>3. n % 2 = 0
  BY <1>0, <1>1, <1>2, Parity DEF HalfLine
<1> HIDE DEF m, n
<1>4. /\ h \in Nat /\ (n + 2) \div 2 = h + 1 /\ 2 * (h + 1) - 1 = n + 1
      /\ \A k \in 1..h : 2 * k - 1 \in 1..n
  BY <1>2, <1>3, Halves
<1> HIDE DEF h
<1>5. Texts = [k \in 1..h |-> console[2 * k - 1]]
  BY DEF Texts, h, n
<1>6. Texts' = [k \in 1..(h + 1) |-> console'[2 * k - 1]]
  <2>1. Len(console') + 1 = n + 2
    BY <1>2
  <2> QED BY <1>4, <2>1 DEF Texts
<1>7. Len(Texts) = h
  BY <1>4, <1>5
<1>8. Append(Texts, m) = [k \in 1..(h + 1) |-> IF k = h + 1 THEN m ELSE Texts[k]]
  BY <1>4, <1>5, <1>7
<1>9. \A k \in 1..(h + 1) : console'[2 * k - 1] = IF k = h + 1 THEN m ELSE Texts[k]
  BY <1>2, <1>4, <1>5
<1>10. Texts' = Append(Texts, m)
  BY <1>6, <1>8, <1>9
<1> QED BY <1>1, <1>10

\* A std::endl is no line of its own.
LEMMA EndlIsNotEmitted == ASSUME IInv, NEW t \in Threads, WriteEndl(t) PROVE UNCHANGED Texts
<1> DEFINE n == Len(console)
           h == (n + 1) \div 2
<1>0. /\ TypeOK /\ HalfLine /\ doing[t] = "endl" /\ console' = Append(console, Endl(t))
      /\ Endl(t) \in Pieces
  BY DEF IInv, WriteEndl, Go, Pieces
<1>1. n \in Nat /\ Len(console') = n + 1 /\ \A i \in 1..n : console'[i] = console[i]
  BY <1>0, Printing
<1>2. n % 2 = 1
  BY <1>0 DEF HalfLine
<1> HIDE DEF n
<1>3. (n + 2) \div 2 = h /\ \A k \in 1..h : 2 * k - 1 \in 1..n
  BY <1>1, <1>2, Halves
<1> HIDE DEF h
<1>4. Texts = [k \in 1..h |-> console[2 * k - 1]]
  BY DEF Texts, h, n
<1>5. Texts' = [k \in 1..h |-> console'[2 * k - 1]]
  <2>1. Len(console') + 1 = n + 2
    BY <1>1
  <2> QED BY <1>3, <2>1 DEF Texts
<1> QED BY <1>1, <1>3, <1>4, <1>5

\* Every step of the logger is a step of the sink or changes nothing the sink shows.
LEMMA SinkStep == IInv /\ [Next]_vars => [Sink!SinkNext]_(Sink!sinkVars)
<1> SUFFICES ASSUME IInv, [Next]_vars PROVE [Sink!SinkNext]_(Sink!sinkVars)
  OBVIOUS
<1>1. ASSUME UNCHANGED console PROVE UNCHANGED Texts
  BY <1>1 DEF Texts
<1>2. ASSUME NEW t \in Threads, NEW l \in Levels, SetLevel(t, l) PROVE Sink!SinkNext
  BY <1>1, <1>2 DEF SetLevel, Sink!SinkNext
<1>3. ASSUME NEW t \in Threads, NEW e \in BOOLEAN, EnableConsoleOutput(t, e)
      PROVE  Sink!SinkNext
  BY <1>1, <1>3 DEF EnableConsoleOutput, Sink!SinkNext
<1>4. ASSUME NEW t \in Threads, WriteText(t), consoleOutput PROVE Sink!SinkNext
  BY <1>4, TextIsEmitted DEF WriteText, settings, Sink!SinkNext, Sink!Emit
<1>5. ASSUME NEW t \in Threads, WriteEndl(t) PROVE UNCHANGED Sink!sinkVars
  BY <1>5, EndlIsNotEmitted DEF WriteEndl, settings, Sink!sinkVars
<1>6. ASSUME UNCHANGED <<settings, console>> PROVE UNCHANGED Sink!sinkVars
  BY <1>1, <1>6 DEF settings, Sink!sinkVars
<1>7. ASSUME NEW t \in Threads, WriteText(t), ~consoleOutput
      PROVE  UNCHANGED <<settings, console>>
  BY <1>7 DEF WriteText
<1>8. ASSUME NEW t \in Threads,
             (\E l \in MessageLevels : Log(t, l)) \/ Filter(t) \/ Stamp(t) \/ Return(t)
      PROVE  UNCHANGED <<settings, console>>
  BY <1>8 DEF Log, Filter, Stamp, Return
<1>9. ASSUME Tick \/ UNCHANGED vars PROVE UNCHANGED <<settings, console>>
  BY <1>9 DEF Tick, vars, settings
<1> QED BY <1>2, <1>3, <1>4, <1>5, <1>6, <1>7, <1>8, <1>9 DEF Next

\* What is printed passed the level and the console flag of that very moment, though
\* log() tests the two one after the other: the Logger implements LogSink.
THEOREM SinkRefinement == Spec => ImplementsSink
<1>1. Init => Sink!SinkInit
  <2> SUFFICES ASSUME Init PROVE Sink!SinkInit
    OBVIOUS
  <2>1. currentLevel \in Levels /\ consoleOutput = FALSE
    BY DEF Init, Levels, DEBUG, NONE
  <2>2. Len(console) = 0
    BY DEF Init
  <2>3. Texts = <<>>
    BY <2>2 DEF Texts
  <2> QED BY <2>1, <2>3 DEF Sink!SinkInit
<1> QED BY <1>1, Invariance, SinkStep, PTL DEF Spec, ImplementsSink, Sink!SinkSpec
=============================================================================
