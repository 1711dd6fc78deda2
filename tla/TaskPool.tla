------------------------------ MODULE TaskPool ------------------------------
(***************************************************************************)
(* What the thread pool of lib/pthread_pool.h promises to its client,      *)
(* without threads, locks or pointers: every task handed over is started   *)
(* in the order of submission and at most once, or, once the pool has been *)
(* stopped, discarded without being started; nothing starts after the stop *)
(* and nothing is discarded while a task is still running.                 *)
(***************************************************************************)
EXTENDS Naturals, Sequences

CONSTANT Task       \* the work items a client may submit, each one once

VARIABLES
  pending,          \* submitted and not started, oldest first
  running,          \* started and not finished
  finished,         \* the function given to pool_start has returned for it
  discarded,        \* freed by pool_end without having been started
  stopped           \* pool_end has been called

vars == <<pending, running, finished, discarded, stopped>>

InQueue(t) == \E i \in 1..Len(pending) : pending[i] = t
Submitted(t) == InQueue(t) \/ t \in running \cup finished \cup discarded

Init ==
  /\ pending = <<>>
  /\ running = {}
  /\ finished = {}
  /\ discarded = {}
  /\ stopped = FALSE

\* pool_enqueue
Submit(t) ==
  /\ ~stopped
  /\ ~Submitted(t)
  /\ pending' = Append(pending, t)
  /\ UNCHANGED <<running, finished, discarded, stopped>>

\* A worker takes the oldest task.
Start ==
  /\ ~stopped
  /\ pending # <<>>
  /\ running' = running \cup {Head(pending)}
  /\ pending' = Tail(pending)
  /\ UNCHANGED <<finished, discarded, stopped>>

Finish(t) ==
  /\ t \in running
  /\ running' = running \ {t}
  /\ finished' = finished \cup {t}
  /\ UNCHANGED <<pending, discarded, stopped>>

\* pool_end
Stop ==
  /\ ~stopped
  /\ stopped' = TRUE
  /\ UNCHANGED <<pending, running, finished, discarded>>

\* pool_end frees what is left once the workers are gone.
Discard ==
  /\ stopped
  /\ running = {}
  /\ pending # <<>>
  /\ discarded' = discarded \cup {Head(pending)}
  /\ pending' = Tail(pending)
  /\ UNCHANGED <<running, finished, stopped>>

Next ==
  \/ \E t \in Task : Submit(t) \/ Finish(t)
  \/ Start
  \/ Stop
  \/ Discard

Spec == Init /\ [][Next]_vars
=============================================================================
