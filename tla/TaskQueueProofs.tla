--------------------------- MODULE TaskQueueProofs ---------------------------
(***************************************************************************)
(* The order of the priority queue, for every number of tasks and all      *)
(* priorities and start times: operator> is an order that a heap can be    *)
(* sorted by, a queue that is not empty has a top, and no entry is more    *)
(* urgent than the top.                                                    *)
(***************************************************************************)
EXTENDS TaskQueue, FiniteSetTheorems, TLAPS

\* Neither of two tasks has to be served before the other.
Tied(a, b) == ~Greater(a, b) /\ ~Greater(b, a)

\* Task::operator> is the strict weak order that std::priority_queue requires of its
\* comparator: irreflexive, asymmetric, transitive, and so is being tied.
THEOREM GreaterIsOrder ==
  ASSUME NEW a \in TaskRecord, NEW b \in TaskRecord, NEW c \in TaskRecord
  PROVE  /\ ~Greater(a, a)
         /\ Greater(a, b) => ~Greater(b, a)
         /\ Greater(a, b) /\ Greater(b, c) => Greater(a, c)
         /\ Tied(a, b) /\ Tied(b, c) => Tied(a, c)
<1>1. ASSUME NEW r \in TaskRecord PROVE r.priority \in Int /\ r.startTime \in Int
  BY <1>1 DEF TaskRecord
<1>2. /\ a.priority \in Int /\ b.priority \in Int /\ c.priority \in Int
      /\ a.startTime \in Int /\ b.startTime \in Int /\ c.startTime \in Int
  BY <1>1
<1> QED BY <1>2 DEF Greater, Tied

\* Tasks are tied exactly when they agree on priority and start time: between any
\* others the order decides.
THEOREM TiedHaveEqualKeys ==
  ASSUME NEW a \in TaskRecord, NEW b \in TaskRecord
  PROVE  Tied(a, b) <=> a.priority = b.priority /\ a.startTime = b.startTime
<1>1. ASSUME NEW r \in TaskRecord PROVE r.priority \in Int /\ r.startTime \in Int
  BY <1>1 DEF TaskRecord
<1>2. /\ a.priority \in Int /\ b.priority \in Int
      /\ a.startTime \in Int /\ b.startTime \in Int
  BY <1>1
<1> QED BY <1>2 DEF Greater, Tied

\* A queue that is not empty has a top, whatever is in it: TaskQueue::pop after
\* isEmpty() has answered false returns a task.
THEOREM TopExists ==
  ASSUME NEW Entries, IsFiniteSet(Entries), NEW q \in [Entries -> Nat],
         NEW record \in [Entries -> TaskRecord], ~IsEmpty(q)
  PROVE  Tops(q, record) # {}
<1> DEFINE In == {t \in Entries : q[t] > 0}
           Before(t) == {u \in In : Greater(record[t], record[u])}
           Sets == {Before(t) : t \in In}
<1>1. In # {} /\ In \subseteq Entries
  BY DEF IsEmpty
<1>2. Sets # {} /\ Sets \subseteq SUBSET Entries
  <2>1. PICK t : t \in In
    BY <1>1
  <2>2. Before(t) \in Sets
    BY <2>1
  <2>3. ASSUME NEW u \in In PROVE Before(u) \in SUBSET Entries
    BY <1>1
  <2> HIDE DEF In, Before
  <2> QED BY <2>2, <2>3
<1>3. IsWellFoundedOn(StrictSubsetOrdering(Entries), SUBSET Entries)
  BY FS_StrictSubsetOrderingWellFounded, FS_FiniteSubsetsOfFinite
<1>4. PICK least \in Sets : \A other \in Sets : <<other, least>> \notin StrictSubsetOrdering(Entries)
  <2> HIDE DEF Sets
  <2> QED BY <1>2, <1>3, WFMin
<1>5. PICK t \in In : least = Before(t)
  BY <1>4
<1>6. ASSUME NEW u \in In, Greater(record[t], record[u]) PROVE FALSE
  <2>1. \A v \in In : record[v] \in TaskRecord
    OBVIOUS
  <2>2. u \in Before(t) /\ u \notin Before(u)
    BY <1>6, <2>1, GreaterIsOrder
  <2>3. Before(u) \subseteq Before(t)
    <3>1. ASSUME NEW v \in In, Greater(record[u], record[v]) PROVE Greater(record[t], record[v])
      BY <1>6, <2>1, <3>1, GreaterIsOrder
    <3> QED BY <3>1
  <2>4. Before(u) \in Sets /\ Before(u) \in SUBSET Entries /\ Before(t) \in SUBSET Entries
    OBVIOUS
  <2> HIDE DEF Before, Sets
  <2>5. Before(u) # Before(t)
    BY <2>2
  <2>6. <<Before(u), Before(t)>> \in StrictSubsetOrdering(Entries)
    BY <2>3, <2>4, <2>5 DEF StrictSubsetOrdering
  <2> QED BY <1>4, <1>5, <2>4, <2>6
<1>7. t \in Tops(q, record)
  BY <1>6 DEF Tops
<1> QED BY <1>7

\* Every entry is a top or served after every top; the tops themselves agree in
\* priority and start time, so which of them is popped makes no difference to the order.
THEOREM TopIsMostUrgent ==
  ASSUME NEW Entries, NEW q \in [Entries -> Nat], NEW record \in [Entries -> TaskRecord],
         NEW t \in Tops(q, record), NEW u \in Entries, q[u] > 0
  PROVE  \/ Greater(record[u], record[t])
         \/ /\ u \in Tops(q, record)
            /\ record[u].priority = record[t].priority
            /\ record[u].startTime = record[t].startTime
<1>0. /\ t \in Entries /\ record[t] \in TaskRecord /\ record[u] \in TaskRecord
      /\ \A v \in Entries : q[v] > 0 => ~Greater(record[t], record[v])
  BY DEF Tops
<1>1. CASE ~Greater(record[u], record[t])
  <2>1. Tied(record[t], record[u])
    BY <1>0, <1>1 DEF Tied
  <2>2. ASSUME NEW v \in Entries, q[v] > 0 PROVE ~Greater(record[u], record[v])
    <3>1. record[v] \in TaskRecord /\ ~Greater(record[t], record[v])
      BY <1>0, <2>2
    <3>2. CASE Greater(record[v], record[t])
      <4>1. Greater(record[u], record[v]) => Greater(record[u], record[t])
        BY <1>0, <3>1, <3>2, GreaterIsOrder
      <4> QED BY <1>1, <4>1
    <3>3. CASE ~Greater(record[v], record[t])
      <4>1. Tied(record[u], record[t]) /\ Tied(record[t], record[v])
        BY <2>1, <3>1, <3>3 DEF Tied
      <4>2. Tied(record[u], record[v])
        BY <1>0, <3>1, <4>1, GreaterIsOrder
      <4> QED BY <4>2 DEF Tied
    <3> QED BY <3>2, <3>3
  <2>3. u \in Tops(q, record)
    BY <2>2 DEF Tops
  <2> QED BY <1>0, <2>1, <2>3, TiedHaveEqualKeys
<1> QED BY <1>1
=============================================================================
