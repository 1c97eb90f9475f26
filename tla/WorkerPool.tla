----------------------------- MODULE WorkerPool -----------------------------
(***************************************************************************)
(* What ThreadPool promises, without its mutex and condition variable: a   *)
(* FIFO of accepted jobs, each begun by at most one worker, none of them   *)
(* begun once the pool is closed.  ThreadPool implements this              *)
(* specification; TaskScheduler is built on it.                            *)
(***************************************************************************)
EXTENDS Sequences

CONSTANTS Workers, Jobs, NoJob

VARIABLES pending,   \* the jobs accepted and not begun, oldest first
          running,   \* the job each worker is executing, or NoJob
          gone,      \* the workers that have left their loop
          closed     \* stop() has been requested

poolVars == <<pending, running, gone, closed>>

PoolInit ==
  /\ pending = <<>>
  /\ running = [w \in Workers |-> NoJob]
  /\ gone = {}
  /\ closed = FALSE

\* enqueueTask(): a closed pool still accepts the job.
Submit(j) ==
  /\ pending' = Append(pending, j)
  /\ UNCHANGED <<running, gone, closed>>

Begin(w) ==
  /\ ~closed /\ w \notin gone /\ running[w] = NoJob /\ pending # <<>>
  /\ running' = [running EXCEPT ![w] = Head(pending)]
  /\ pending' = Tail(pending)
  /\ UNCHANGED <<gone, closed>>

\* The job returned, or threw and the worker caught it.
End(w) ==
  /\ running[w] # NoJob
  /\ running' = [running EXCEPT ![w] = NoJob]
  /\ UNCHANGED <<pending, gone, closed>>

Leave(w) ==
  /\ closed /\ w \notin gone /\ running[w] = NoJob
  /\ gone' = gone \cup {w}
  /\ UNCHANGED <<pending, running, closed>>

Close ==
  /\ closed' = TRUE
  /\ UNCHANGED <<pending, running, gone>>

\* stop() drops what is left once every worker is joined.
Discard ==
  /\ closed /\ gone = Workers
  /\ pending' = <<>>
  /\ UNCHANGED <<running, gone, closed>>

PoolNext ==
  \/ \E j \in Jobs : Submit(j)
  \/ \E w \in Workers : Begin(w) \/ End(w) \/ Leave(w)
  \/ Close
  \/ Discard

PoolSpec == PoolInit /\ [][PoolNext]_poolVars
=============================================================================
