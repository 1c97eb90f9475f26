------------------------------ MODULE TaskQueue ------------------------------
(***************************************************************************)
(* The TaskQueue class (src/TaskQueue.cpp): a std::priority_queue of task  *)
(* pointers.  A queue is a bag, the number of entries for each task; the   *)
(* layout of the heap is left out.  The top is some entry that no other    *)
(* entry is served before; std::priority_queue leaves open which one it is *)
(* among equals, so Tops is the set of the candidates.                     *)
(***************************************************************************)
EXTENDS Task

IsEmpty(q) == \A t \in DOMAIN q : q[t] = 0

\* The entries std::priority_queue::top may return: TaskPriorityCmp compares
\* through operator>, so the top is an entry greater than no other.
Tops(q, task) ==
  {t \in DOMAIN q : /\ q[t] > 0
                    /\ \A u \in DOMAIN q : q[u] > 0 => ~Greater(task[t], task[u])}

\* TaskQueue::push and the removal half of TaskQueue::pop.
Push(q, t) == [q EXCEPT ![t] = @ + 1]
PopTop(q, t) == [q EXCEPT ![t] = @ - 1]

\* TaskQueue::cancelTask drains the heap and puts back every other entry.
RemoveAll(q, t) == [q EXCEPT ![t] = 0]
=============================================================================
