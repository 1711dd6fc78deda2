---------------------------- MODULE PthreadPool ----------------------------
(***************************************************************************)
(* lib/pthread_pool.c: a pool of worker threads fed by a linked list of    *)
(* work items under one mutex and ONE condition variable, which workers    *)
(* (waiting for work) and pool_wait callers (waiting for the work to be    *)
(* over) share.                                                            *)
(*                                                                         *)
(* Grain of atomicity.  Every access to the list and to `remaining' before *)
(* the workers are joined is made under q_mtx, so one critical section is  *)
(* one action.  `cancelled' is the exception: pool_end writes it and the   *)
(* workers' outer loop reads it without the lock, so these two accesses    *)
(* are actions of their own.  Inside a critical section `cancelled' is     *)
(* read at its start; a write that lands between two reads of one section  *)
(* has the effect it would have had just before or just after it.          *)
(*                                                                         *)
(* A list cell is named by the task it was allocated for.  Cells are never *)
(* reused, which is sound as long as no pointer to a freed cell is kept:   *)
(* the invariants ListShape and NoLeak say that none is.                   *)
(***************************************************************************)
EXTENDS Naturals, Sequences, FiniteSets

CONSTANTS
  Task,             \* work items, each submitted at most once
  Owned,            \* those submitted with free # 0: the pool frees their arg
  Worker,           \* the threads of pool_start
  Waiter,           \* client threads that call pool_wait
  NULL,             \* the null pointer
  EndWhileWaiting   \* may a client call pool_end while others are in pool_wait?

ASSUME PoolAssumption ==
  /\ Owned \subseteq Task
  /\ NULL \notin Task
  /\ IsFiniteSet(Worker)
  /\ Worker # {}
  /\ Worker \cap Waiter = {}
  /\ EndWhileWaiting \in BOOLEAN

VARIABLES
  q, end,           \* first and last cell of the list
  next,             \* the `next' field of each cell
  remaining,        \* items queued or being worked on
  cancelled,
  cell,             \* heap state of each task's cell
  argFreed,         \* tasks whose arg the pool has freed
  pc,               \* where each worker or waiter is
  cur,              \* a worker's local variable q in thread()
  endPc,            \* where the caller of pool_end is
  fifo,             \* history: the tasks on the list, in list order
  ran               \* history: tasks the pool's function has returned for

struct == <<q, end, next, remaining>>
heap == <<cell, argFreed>>
vars == <<struct, heap, cancelled, pc, cur, endPc, fifo, ran>>

Thread == Worker \cup Waiter
Pointer == Task \cup {NULL}
Label == {"loop", "lock", "wait", "run", "dec", "done", "out"}

TypeOK ==
  /\ q \in Pointer
  /\ end \in Pointer
  /\ next \in [Task -> Pointer]
  /\ remaining \in Nat
  /\ cancelled \in BOOLEAN
  /\ cell \in [Task -> {"none", "live", "freed"}]
  /\ argFreed \subseteq Owned
  /\ pc \in [Thread -> Label]
  /\ cur \in [Worker -> Pointer]
  /\ endPc \in {"out", "broadcast", "join", "drain", "gone"}
  /\ fifo \in Seq(Task)
  /\ ran \subseteq Task

\* pool_start: an empty pool.  A worker that pthread_create has not started
\* yet cannot be told from one that has not taken its first step.
Init ==
  /\ q = NULL
  /\ end = NULL
  /\ next = [t \in Task |-> NULL]
  /\ remaining = 0
  /\ cancelled = FALSE
  /\ cell = [t \in Task |-> "none"]
  /\ argFreed = {}
  /\ pc = [t \in Thread |-> IF t \in Worker THEN "loop" ELSE "out"]
  /\ cur = [w \in Worker |-> NULL]
  /\ endPc = "out"
  /\ fifo = <<>>
  /\ ran = {}

-----------------------------------------------------------------------------
(* The condition variable.  A woken thread contends for the mutex again    *)
(* and re-evaluates its loop condition at "lock".                          *)

Asleep == {t \in Thread : pc[t] = "wait"}

Goto(t, label) == pc' = [pc EXCEPT ![t] = label]

\* (wrong on purpose) no signal is sent
LostSignal == UNCHANGED pc

\* pthread_cond_signal wakes some sleeper, worker or waiter, if there is one.
Signal ==
  \/ \E t \in Asleep : Goto(t, "lock")
  \/ Asleep = {} /\ UNCHANGED pc

Woken(label) == [t \in Thread |-> IF t \in Asleep THEN "lock" ELSE label[t]]

\* pthread_cond_wait may return without a signal.
SpuriousWakeup(t) ==
  /\ t \in Asleep
  /\ Goto(t, "lock")
  /\ UNCHANGED <<struct, heap, cancelled, cur, endPc, fifo, ran>>

-----------------------------------------------------------------------------
(* Wrong on purpose: what plausible mistakes in pthread_pool.c would do.   *)
(* Nothing below uses these; they show that the properties can fail.       *)

\* pool_end wakes one sleeper instead of all
EndSignals ==
  /\ endPc = "broadcast"
  /\ Signal
  /\ endPc' = "join"
  /\ UNCHANGED <<struct, heap, cancelled, cur, fifo, ran>>

\* pool_end does not join the workers
EndNoJoin ==
  /\ endPc = "join"
  /\ endPc' = "drain"
  /\ UNCHANGED <<struct, heap, cancelled, pc, cur, fifo, ran>>

\* a worker counts its task as done when it takes it
TakeCounts(w) ==
  /\ pc[w] = "lock"
  /\ ~cancelled
  /\ q # NULL
  /\ cur' = [cur EXCEPT ![w] = q]
  /\ q' = next[q]
  /\ end' = IF q = end THEN NULL ELSE end
  /\ remaining' = remaining - 1
  /\ Goto(w, "run")
  /\ fifo' = Tail(fifo)
  /\ UNCHANGED <<next, heap, cancelled, endPc, ran>>

\* a worker forgets the argument it was to free
RunLeaks(w) ==
  /\ pc[w] = "run"
  /\ ran' = ran \cup {cur[w]}
  /\ cell' = [cell EXCEPT ![cur[w]] = "freed"]
  /\ cur' = [cur EXCEPT ![w] = NULL]
  /\ Goto(w, "dec")
  /\ UNCHANGED <<struct, argFreed, cancelled, endPc, fifo>>

\* a worker that is done wakes one sleeper, possibly a worker, instead of all
DecrementSignals(w) ==
  /\ pc[w] = "dec"
  /\ remaining' = remaining - 1
  /\ \/ \E t \in Asleep : pc' = [pc EXCEPT ![w] = "loop", ![t] = "lock"]
     \/ Asleep = {} /\ Goto(w, "loop")
  /\ UNCHANGED <<q, end, next, heap, cancelled, cur, endPc, fifo, ran>>

-----------------------------------------------------------------------------
(* The client's calls.                                                     *)

\* pool_enqueue.  The client does not enqueue on a pool it is ending.
Enqueue(t) ==
  /\ endPc = "out"
  /\ cell[t] = "none"
  /\ cell' = [cell EXCEPT ![t] = "live"]
  /\ next' = [n \in Task |-> IF n = t THEN NULL
                             ELSE IF n = end THEN t ELSE next[n]]
  /\ q' = IF q = NULL THEN t ELSE q
  /\ end' = t
  /\ remaining' = remaining + 1
  /\ Signal
  /\ fifo' = Append(fifo, t)
  /\ UNCHANGED <<argFreed, cancelled, cur, endPc, ran>>

\* pool_wait, entry
WaitCall(v) ==
  /\ endPc = "out"
  /\ pc[v] = "out"
  /\ Goto(v, "lock")
  /\ UNCHANGED <<struct, heap, cancelled, cur, endPc, fifo, ran>>

\* pool_wait, one evaluation of its loop condition with the mutex held.  Once
\* pool_end has freed the pool the condition reads freed memory.
WaitCheck(v) ==
  /\ pc[v] = "lock"
  /\ \/ endPc # "gone" /\ Goto(v, IF ~cancelled /\ remaining # 0 THEN "wait" ELSE "out")
     \/ endPc = "gone" /\ \E label \in {"wait", "out"} : Goto(v, label)
  /\ UNCHANGED <<struct, heap, cancelled, cur, endPc, fifo, ran>>

-----------------------------------------------------------------------------
(* pool_end.                                                               *)

EndCall ==
  /\ endPc = "out"
  /\ EndWhileWaiting \/ \A v \in Waiter : pc[v] = "out"
  /\ cancelled' = TRUE
  /\ endPc' = "broadcast"
  /\ UNCHANGED <<struct, heap, pc, cur, fifo, ran>>

EndBroadcast ==
  /\ endPc = "broadcast"
  /\ pc' = Woken(pc)
  /\ endPc' = "join"
  /\ UNCHANGED <<struct, heap, cancelled, cur, fifo, ran>>

EndJoin ==
  /\ endPc = "join"
  /\ \A w \in Worker : pc[w] = "done"
  /\ endPc' = "drain"
  /\ UNCHANGED <<struct, heap, cancelled, pc, cur, fifo, ran>>

\* One round of the clean-up loop; `end' and `remaining' are left stale.
EndDrain ==
  /\ endPc = "drain"
  /\ q # NULL
  /\ q' = next[q]
  /\ argFreed' = argFreed \cup ({q} \cap Owned)
  /\ cell' = [cell EXCEPT ![q] = "freed"]
  /\ fifo' = Tail(fifo)
  /\ UNCHANGED <<end, next, remaining, cancelled, pc, cur, endPc, ran>>

EndFree ==
  /\ endPc = "drain"
  /\ q = NULL
  /\ endPc' = "gone"
  /\ UNCHANGED <<struct, heap, cancelled, pc, cur, fifo, ran>>

-----------------------------------------------------------------------------
(* thread(): the body of a worker.                                         *)

\* The outer loop's test, made without the lock.
Loop(w) ==
  /\ pc[w] = "loop"
  /\ Goto(w, IF cancelled THEN "done" ELSE "lock")
  /\ UNCHANGED <<struct, heap, cancelled, cur, endPc, fifo, ran>>

Sleep(w) ==
  /\ pc[w] = "lock"
  /\ ~cancelled
  /\ q = NULL
  /\ Goto(w, "wait")
  /\ UNCHANGED <<struct, heap, cancelled, cur, endPc, fifo, ran>>

Quit(w) ==
  /\ pc[w] = "lock"
  /\ cancelled
  /\ Goto(w, "done")
  /\ UNCHANGED <<struct, heap, cancelled, cur, endPc, fifo, ran>>

Take(w) ==
  /\ pc[w] = "lock"
  /\ ~cancelled
  /\ q # NULL
  /\ cur' = [cur EXCEPT ![w] = q]
  /\ q' = next[q]
  /\ end' = IF q = end THEN NULL ELSE end
  /\ Goto(w, "run")
  /\ fifo' = Tail(fifo)
  /\ UNCHANGED <<next, remaining, heap, cancelled, endPc, ran>>

\* p->fn(q->arg) returns; the worker frees the arg if it owns it, and the cell.
Run(w) ==
  /\ pc[w] = "run"
  /\ ran' = ran \cup {cur[w]}
  /\ argFreed' = argFreed \cup ({cur[w]} \cap Owned)
  /\ cell' = [cell EXCEPT ![cur[w]] = "freed"]
  /\ cur' = [cur EXCEPT ![w] = NULL]
  /\ Goto(w, "dec")
  /\ UNCHANGED <<struct, cancelled, endPc, fifo>>

Decrement(w) ==
  /\ pc[w] = "dec"
  /\ remaining' = remaining - 1
  /\ pc' = Woken([pc EXCEPT ![w] = "loop"])
  /\ UNCHANGED <<q, end, next, heap, cancelled, cur, endPc, fifo, ran>>

-----------------------------------------------------------------------------
WorkerStep(w) ==
  Loop(w) \/ Sleep(w) \/ Quit(w) \/ Take(w) \/ Run(w) \/ Decrement(w)

EndStep == EndBroadcast \/ EndJoin \/ EndDrain \/ EndFree

Next ==
  \/ \E t \in Task : Enqueue(t)
  \/ \E v \in Waiter : WaitCall(v) \/ WaitCheck(v)
  \/ \E w \in Worker : WorkerStep(w)
  \/ \E t \in Thread : SpuriousWakeup(t)
  \/ EndCall
  \/ EndStep

Spec == Init /\ [][Next]_vars

\* Threads are scheduled, the pool's function terminates and the mutex is
\* granted to whoever keeps asking for it; no client has to call anything and
\* no wakeup is ever spurious by obligation.
Fairness ==
  /\ \A w \in Worker : WF_vars(WorkerStep(w))
  /\ \A v \in Waiter : WF_vars(WaitCheck(v))
  /\ WF_vars(EndStep)

FairSpec == Spec /\ Fairness

-----------------------------------------------------------------------------
(* Safety.                                                                 *)

Intact == endPc \in {"out", "broadcast", "join"}   \* the clean-up has not begun
Busy == {w \in Worker : pc[w] \in {"run", "dec"}}
Held == {cur[w] : w \in {x \in Worker : pc[x] = "run"}}
OnList(t) == \E i \in 1..Len(fifo) : fifo[i] = t

\* The linked list is the queue: it runs from q through `next' over the tasks
\* in the order of their enqueuing, ends in NULL, and `end' is its last cell,
\* whatever the interleaving of pool_enqueue with the workers' removals.
ListShape ==
  /\ q = IF fifo = <<>> THEN NULL ELSE fifo[1]
  /\ \A i \in 1..Len(fifo) :
        next[fifo[i]] = IF i = Len(fifo) THEN NULL ELSE fifo[i + 1]
  /\ Intact => end = IF fifo = <<>> THEN NULL ELSE fifo[Len(fifo)]

\* A cell is allocated exactly while its task is on the list or in the hands of
\* one worker, and an arg the pool owns is freed exactly when its cell is: no
\* leak, no double free, nothing freed while the pool's function may use it.
NoLeak ==
  /\ \A t \in Task : cell[t] = "live" <=> OnList(t) \/ t \in Held
  /\ \A i, j \in 1..Len(fifo) : fifo[i] = fifo[j] => i = j
  /\ \A t \in Held : ~OnList(t)
  /\ \A v, w \in Worker : cur[v] = cur[w] /\ cur[v] # NULL => v = w
  /\ argFreed = {t \in Owned : cell[t] = "freed"}

\* `remaining', what pool_wait looks at, counts the tasks queued and those whose
\* worker has not yet reported back; as it is unsigned it must never go below 0.
Counted == Intact => remaining = Len(fifo) + Cardinality(Busy)

\* pool_enqueue signals one sleeper of a condition variable it shares with
\* pool_wait.  Even when a pool_wait caller swallows the signal, a queued task
\* always has a worker that is awake and will look at the list again.
NoStranded ==
  ~cancelled /\ fifo # <<>> => \E w \in Worker : pc[w] \notin {"wait", "done"}

\* pool_wait, unless cut short by pool_end, returns only when every task
\* enqueued so far has been run (pthread_pool.h: "Wait for all queued tasks to
\* be completed").
WaitMeansDone ==
  [][\A v \in Waiter : pc[v] = "lock" /\ pc'[v] = "out" /\ ~cancelled
                         => \A t \in Task : cell[t] # "none" => t \in ran]_vars

\* The pool does what its header promises: FIFO start, at most one run of each
\* task, no start after pool_end, no clean-up while a task runs.
Abs == INSTANCE TaskPool WITH
         pending <- fifo,
         running <- Held,
         finished <- ran,
         discarded <- {t \in Task : cell[t] = "freed"} \ ran,
         stopped <- cancelled

Implements == Abs!Spec

-----------------------------------------------------------------------------
(* Liveness, under Fairness.                                               *)

\* An enqueued task is run, unless the pool is ended first.
TaskServed == \A t \in Task : cell[t] # "none" ~> (t \in ran \/ cancelled)

\* pool_end returns, with every cell and every owned arg freed: no worker
\* sleeps through the one broadcast.
EndTerminates ==
  (endPc # "out") ~> (endPc = "gone" /\ \A t \in Task : cell[t] # "live")

\* A pool_wait caller gets out again once the clients stop enqueuing, unless
\* pool_end has freed the mutex it is waiting for.
WaiterReturns == \A v \in Waiter : pc[v] = "lock" ~> (pc[v] = "out" \/ endPc = "gone")
=============================================================================
