------------------------- MODULE PthreadPoolProofs -------------------------
(***************************************************************************)
(* Machine-checked proofs about PthreadPool, for any number of tasks,      *)
(* workers and pool_wait callers.                                          *)
(***************************************************************************)
EXTENDS PthreadPool, SequenceTheorems, FiniteSetTheorems, TLAPS

(***************************************************************************)
(* The inductive invariant.                                                *)
(***************************************************************************)

\* Control: which labels a thread can be at, when a worker holds a cell, and
\* how far pool_end can have come.
Control ==
  /\ \A w \in Worker : pc[w] \in {"loop", "lock", "wait", "run", "dec", "done"}
  /\ \A v \in Waiter : pc[v] \in {"out", "lock", "wait"}
  /\ \A w \in Worker : cur[w] # NULL <=> pc[w] = "run"
  /\ cancelled <=> endPc # "out"
  /\ \A w \in Worker : pc[w] = "done" => cancelled
  /\ endPc \in {"drain", "gone"} => \A w \in Worker : pc[w] = "done"

\* The cells no longer allocated are those of the tasks that have run, plus
\* those the clean-up of pool_end has thrown away.
RanCells ==
  /\ \A t \in ran : cell[t] = "freed"
  /\ Intact => \A t \in Task : cell[t] = "freed" => t \in ran

\* While there is something to do, somebody is awake to do it; and a pool_wait
\* caller sleeps only while there is something to do.
Awake == ~cancelled /\ remaining # 0 => \E w \in Worker : pc[w] \notin {"wait", "done"}
WaiterSleeps == ~cancelled => \A v \in Waiter : pc[v] = "wait" => remaining # 0

IInv ==
  /\ TypeOK
  /\ Control
  /\ ListShape
  /\ NoLeak
  /\ RanCells
  /\ Counted
  /\ Awake
  /\ WaiterSleeps

-----------------------------------------------------------------------------
(* Lemmas about the operators the actions are built from.                  *)

\* The workers that are busy are finitely many.
LEMMA BusyFinite ==
  /\ IsFiniteSet(Busy)
  /\ Cardinality(Busy) \in Nat
<1>1. Busy \subseteq Worker
  BY DEF Busy
<1>2. IsFiniteSet(Busy)
  BY <1>1, FS_Subset, PoolAssumption
<1> QED
  BY <1>2, FS_CardinalityType

\* A signal, or a spurious wakeup, moves at most one sleeper to "lock" and
\* touches nobody else.
LEMMA SignalWakes ==
  ASSUME TypeOK, Signal
  PROVE  /\ pc' \in [Thread -> Label]
         /\ \A t \in Thread : pc'[t] # pc[t] => pc[t] = "wait" /\ pc'[t] = "lock"
         /\ \A t \in Thread : pc[t] = "wait" =>
              (\E s \in Thread : pc[s] = "wait" /\ pc'[s] = "lock")
BY DEF TypeOK, Signal, Asleep, Goto, Label

\* Appending to a queue without repetition an element it does not hold.
LEMMA AppendFacts ==
  ASSUME NEW S, NEW s \in Seq(S), NEW e \in S
  PROVE  /\ Append(s, e) \in Seq(S)
         /\ Len(Append(s, e)) = Len(s) + 1
         /\ \A i \in 1..Len(s) : Append(s, e)[i] = s[i]
         /\ Append(s, e)[Len(s) + 1] = e
BY AppendProperties

\* Removing the head of a queue.
LEMMA TailFacts ==
  ASSUME NEW S, NEW s \in Seq(S), s # <<>>
  PROVE  /\ Tail(s) \in Seq(S)
         /\ Len(s) \in Nat \ {0}
         /\ Len(Tail(s)) = Len(s) - 1
         /\ \A i \in 1..Len(s) - 1 : Tail(s)[i] = s[i + 1]
         /\ Head(s) = s[1]
<1>1. Len(s) \in Nat \ {0}
  BY EmptySeq
<1> QED
  BY <1>1, HeadTailProperties

-----------------------------------------------------------------------------
(* The inductive invariant holds initially and every action preserves it.  *)

LEMMA InitIInv == Init => IInv
<1> SUFFICES ASSUME Init PROVE IInv
  OBVIOUS
<1> USE PoolAssumption DEF Init, Thread, Pointer, Label
<1>1. TypeOK /\ Control
  <2>1. <<>> \in Seq(Task)
    BY EmptySeq
  <2>2. TypeOK
    BY <2>1 DEF TypeOK
  <2>3. Control
    BY DEF Control
  <2> QED
    BY <2>2, <2>3
<1>2. Busy = {} /\ Held = {}
  BY DEF Busy, Held
<1>3. ListShape /\ NoLeak /\ RanCells
  BY <1>2 DEF ListShape, NoLeak, RanCells, OnList
<1>4. Counted
  BY <1>2, FS_EmptySet DEF Counted
<1>5. Awake /\ WaiterSleeps
  BY DEF Awake, WaiterSleeps
<1> QED
  BY <1>1, <1>3, <1>4, <1>5 DEF IInv

\* A step that changes only control, and no worker's hold on a task, leaves the
\* list, the cells and the count as they were.
LEMMA Frame ==
  ASSUME IInv,
         UNCHANGED <<struct, heap, cur, fifo, ran>>,
         Intact' => Intact,
         \A w \in Worker : /\ pc'[w] = "run" <=> pc[w] = "run"
                           /\ pc'[w] = "dec" <=> pc[w] = "dec"
  PROVE  ListShape' /\ NoLeak' /\ RanCells' /\ Counted'
<1> USE DEF struct, heap
<1>1. Busy' = Busy /\ Held' = Held
  BY DEF Busy, Held
<1>2. ListShape'
  BY DEF IInv, ListShape
<1>3. NoLeak'
  BY <1>1 DEF IInv, NoLeak, OnList
<1>4. RanCells'
  BY DEF IInv, RanCells
<1>5. Counted'
  BY <1>1 DEF IInv, Counted
<1> QED
  BY <1>2, <1>3, <1>4, <1>5

LEMMA SpuriousIInv ==
  ASSUME IInv, NEW t \in Thread, SpuriousWakeup(t)
  PROVE  IInv'
<1> USE PoolAssumption DEF IInv, SpuriousWakeup, Goto, Asleep, Thread
<1>1. TypeOK' /\ Control'
  BY DEF TypeOK, Control, struct, heap, Label
<1>2. ListShape' /\ NoLeak' /\ RanCells' /\ Counted'
  <2>1. \A w \in Worker : /\ pc'[w] = "run" <=> pc[w] = "run"
                          /\ pc'[w] = "dec" <=> pc[w] = "dec"
    BY DEF TypeOK
  <2> QED
    BY <2>1, Frame DEF Intact
<1>3. Awake' /\ WaiterSleeps'
  BY DEF Awake, WaiterSleeps, TypeOK, struct
<1> QED
  BY <1>1, <1>2, <1>3

LEMMA WaitCallIInv ==
  ASSUME IInv, NEW v \in Waiter, WaitCall(v)
  PROVE  IInv'
<1> USE PoolAssumption DEF IInv, WaitCall, Goto, Thread
<1>1. TypeOK' /\ Control'
  BY DEF TypeOK, Control, struct, heap, Label
<1>2. ListShape' /\ NoLeak' /\ RanCells' /\ Counted'
  <2>1. \A w \in Worker : /\ pc'[w] = "run" <=> pc[w] = "run"
                          /\ pc'[w] = "dec" <=> pc[w] = "dec"
    BY DEF TypeOK
  <2> QED
    BY <2>1, Frame DEF Intact
<1>3. Awake' /\ WaiterSleeps'
  BY DEF Awake, WaiterSleeps, TypeOK, struct
<1> QED
  BY <1>1, <1>2, <1>3

LEMMA WaitCheckIInv ==
  ASSUME IInv, NEW v \in Waiter, WaitCheck(v)
  PROVE  IInv'
<1> USE PoolAssumption DEF IInv, Goto, Thread
<1>0. PICK label \in {"wait", "out"} :
        /\ pc' = [pc EXCEPT ![v] = label]
        /\ label = "wait" /\ ~cancelled => remaining # 0
  BY DEF WaitCheck, Control
<1>1. TypeOK' /\ Control'
  BY <1>0 DEF WaitCheck, TypeOK, Control, struct, heap, Label
<1>2. ListShape' /\ NoLeak' /\ RanCells' /\ Counted'
  <2>1. \A w \in Worker : /\ pc'[w] = "run" <=> pc[w] = "run"
                          /\ pc'[w] = "dec" <=> pc[w] = "dec"
    BY <1>0 DEF TypeOK
  <2> QED
    BY <2>1, Frame DEF WaitCheck, Intact
<1>3. Awake' /\ WaiterSleeps'
  BY <1>0 DEF WaitCheck, Awake, WaiterSleeps, TypeOK, struct
<1> QED
  BY <1>1, <1>2, <1>3

LEMMA LoopIInv ==
  ASSUME IInv, NEW w \in Worker, Loop(w)
  PROVE  IInv'
<1> USE PoolAssumption DEF IInv, Loop, Goto, Thread
<1>1. TypeOK' /\ Control'
  BY DEF TypeOK, Control, struct, heap, Label
<1>2. ListShape' /\ NoLeak' /\ RanCells' /\ Counted'
  <2>1. \A u \in Worker : /\ pc'[u] = "run" <=> pc[u] = "run"
                          /\ pc'[u] = "dec" <=> pc[u] = "dec"
    BY DEF TypeOK
  <2> QED
    BY <2>1, Frame DEF Intact
<1>3. Awake' /\ WaiterSleeps'
  BY DEF Awake, WaiterSleeps, TypeOK, struct
<1> QED
  BY <1>1, <1>2, <1>3

LEMMA QuitIInv ==
  ASSUME IInv, NEW w \in Worker, Quit(w)
  PROVE  IInv'
<1> USE PoolAssumption DEF IInv, Quit, Goto, Thread
<1>1. TypeOK' /\ Control'
  BY DEF TypeOK, Control, struct, heap, Label
<1>2. ListShape' /\ NoLeak' /\ RanCells' /\ Counted'
  <2>1. \A u \in Worker : /\ pc'[u] = "run" <=> pc[u] = "run"
                          /\ pc'[u] = "dec" <=> pc[u] = "dec"
    BY DEF TypeOK
  <2> QED
    BY <2>1, Frame DEF Intact
<1>3. Awake' /\ WaiterSleeps'
  BY DEF Awake, WaiterSleeps, TypeOK, struct
<1> QED
  BY <1>1, <1>2, <1>3

\* A worker goes to sleep on an empty list.  If something remains to be done it
\* is in the hands of another worker, and that one is awake.
LEMMA SleepIInv ==
  ASSUME IInv, NEW w \in Worker, Sleep(w)
  PROVE  IInv'
<1> USE PoolAssumption DEF IInv, Sleep, Goto, Thread
<1>1. TypeOK' /\ Control'
  BY DEF TypeOK, Control, struct, heap, Label
<1>2. ListShape' /\ NoLeak' /\ RanCells' /\ Counted'
  <2>1. \A u \in Worker : /\ pc'[u] = "run" <=> pc[u] = "run"
                          /\ pc'[u] = "dec" <=> pc[u] = "dec"
    BY DEF TypeOK
  <2> QED
    BY <2>1, Frame DEF Intact
<1>3. Awake'
  <2> SUFFICES ASSUME remaining # 0
               PROVE  \E u \in Worker : pc'[u] \notin {"wait", "done"}
    BY DEF Awake, struct
  <2>1. fifo = <<>>
    <3> SUFFICES ASSUME fifo # <<>> PROVE FALSE
      OBVIOUS
    <3>1. fifo[1] \in Task
      BY EmptySeq, ElementOfSeq DEF TypeOK
    <3> QED
      BY <3>1 DEF ListShape
  <2>2. Intact
    BY DEF Control, Intact
  <2>3. Busy # {}
    BY <2>1, <2>2, BusyFinite, FS_EmptySet DEF Counted
  <2>4. PICK u \in Busy : TRUE
    BY <2>3
  <2> QED
    BY <2>4 DEF Busy, TypeOK
<1>4. WaiterSleeps'
  BY DEF WaiterSleeps, TypeOK, struct
<1> QED
  BY <1>1, <1>2, <1>3, <1>4

LEMMA EndCallIInv ==
  ASSUME IInv, EndCall
  PROVE  IInv'
<1> USE PoolAssumption DEF IInv, EndCall, Thread
<1>1. TypeOK' /\ Control'
  BY DEF TypeOK, Control, struct, heap
<1>2. ListShape' /\ NoLeak' /\ RanCells' /\ Counted'
  BY Frame DEF Intact
<1>3. Awake' /\ WaiterSleeps'
  BY DEF Awake, WaiterSleeps
<1> QED
  BY <1>1, <1>2, <1>3

LEMMA EndBroadcastIInv ==
  ASSUME IInv, EndBroadcast
  PROVE  IInv'
<1> USE PoolAssumption DEF IInv, EndBroadcast, Thread, Woken, Asleep
<1>1. TypeOK' /\ Control'
  BY DEF TypeOK, Control, struct, heap, Label
<1>2. ListShape' /\ NoLeak' /\ RanCells' /\ Counted'
  <2>1. \A u \in Worker : /\ pc'[u] = "run" <=> pc[u] = "run"
                          /\ pc'[u] = "dec" <=> pc[u] = "dec"
    OBVIOUS
  <2> QED
    BY <2>1, Frame DEF Intact
<1>3. Awake' /\ WaiterSleeps'
  BY DEF Awake, WaiterSleeps, Control
<1> QED
  BY <1>1, <1>2, <1>3

LEMMA EndJoinIInv ==
  ASSUME IInv, EndJoin
  PROVE  IInv'
<1> USE PoolAssumption DEF IInv, EndJoin, Thread
<1>1. TypeOK' /\ Control'
  BY DEF TypeOK, Control, struct, heap
<1>2. ListShape' /\ NoLeak' /\ RanCells' /\ Counted'
  BY Frame DEF Intact
<1>3. Awake' /\ WaiterSleeps'
  BY DEF Awake, WaiterSleeps, Control
<1> QED
  BY <1>1, <1>2, <1>3

LEMMA EndFreeIInv ==
  ASSUME IInv, EndFree
  PROVE  IInv'
<1> USE PoolAssumption DEF IInv, EndFree, Thread
<1>1. TypeOK' /\ Control'
  BY DEF TypeOK, Control, struct, heap
<1>2. ListShape' /\ NoLeak' /\ RanCells' /\ Counted'
  BY Frame DEF Intact
<1>3. Awake' /\ WaiterSleeps'
  BY DEF Awake, WaiterSleeps, Control
<1> QED
  BY <1>1, <1>2, <1>3

\* pool_enqueue.  The interesting conjunct is Awake: when nothing remained to be
\* done no pool_wait caller was asleep, so that the signal reached a worker.
LEMMA EnqueueIInv ==
  ASSUME IInv, NEW t \in Task, Enqueue(t)
  PROVE  IInv'
<1> USE PoolAssumption DEF IInv, Enqueue, Thread
<1>1. /\ pc' \in [Thread -> Label]
      /\ \A u \in Thread : pc'[u] # pc[u] => pc[u] = "wait" /\ pc'[u] = "lock"
      /\ \A u \in Thread : pc[u] = "wait" =>
           (\E s \in Thread : pc[s] = "wait" /\ pc'[s] = "lock")
  BY SignalWakes
<1>2. /\ fifo' \in Seq(Task)
      /\ Len(fifo) \in Nat
      /\ Len(fifo') = Len(fifo) + 1
      /\ \A i \in 1..Len(fifo) : fifo'[i] = fifo[i] /\ fifo[i] \in Task
      /\ fifo'[Len(fifo) + 1] = t
  BY AppendFacts, LenProperties, ElementOfSeq DEF TypeOK
<1>3. ~OnList(t) /\ t \notin Held
  BY DEF NoLeak
<1>4. Busy' = Busy /\ Held' = Held
  BY <1>1 DEF Busy, Held
<1>5. \A u \in Task : OnList(u)' <=> OnList(u) \/ u = t
  BY <1>2 DEF OnList
<1>6. Intact /\ Intact' /\ ~cancelled /\ ~cancelled'
  BY DEF Intact, Control
<1>7. TypeOK'
  BY <1>1, <1>2 DEF TypeOK, Pointer
<1>8. Control'
  BY <1>1 DEF Control
<1>9. ListShape'
  <2>1. fifo = <<>> <=> Len(fifo) = 0
    BY EmptySeq DEF TypeOK
  <2>2. fifo' # <<>>
    BY <1>2, EmptySeq
  <2>3. q' = fifo'[1]
    <3>1. CASE fifo = <<>>
      BY <3>1, <2>1, <1>2 DEF ListShape
    <3>2. CASE fifo # <<>>
      BY <3>2, <2>1, <1>2 DEF ListShape
    <3> QED
      BY <3>1, <3>2
  <2>4. end' = fifo'[Len(fifo')]
    BY <1>2
  <2>5. ASSUME NEW i \in 1..Len(fifo')
        PROVE  next'[fifo'[i]] = IF i = Len(fifo') THEN NULL ELSE fifo'[i + 1]
    <3>1. CASE i = Len(fifo) + 1
      BY <3>1, <1>2
    <3>2. CASE i = Len(fifo)
      <4>1. fifo # <<>> /\ i \in 1..Len(fifo) /\ fifo'[i] = fifo[i] /\ fifo[i] \in Task
        BY <3>2, <2>1, <1>2, <2>5
      <4>2. end = fifo[i]
        BY <4>1, <3>2, <1>6 DEF ListShape
      <4>3. fifo[i] # t
        BY <4>1, <1>3 DEF OnList
      <4> QED
        BY <4>1, <4>2, <4>3, <3>2, <1>2
    <3>3. CASE i \in 1..Len(fifo) - 1
      <4>1. i \in 1..Len(fifo) /\ i + 1 \in 1..Len(fifo) /\ Len(fifo) \in 1..Len(fifo)
        BY <3>3, <1>2
      <4>2. fifo[i] # t /\ fifo[i] # fifo[Len(fifo)]
        BY <4>1, <3>3, <1>2, <1>3 DEF OnList, NoLeak
      <4>3. end = fifo[Len(fifo)]
        BY <4>1, <2>1, <1>2, <1>6 DEF ListShape
      <4>4. next[fifo[i]] = fifo[i + 1]
        BY <4>1, <3>3, <1>2 DEF ListShape
      <4>5. next'[fifo[i]] = next[fifo[i]]
        BY <4>1, <4>2, <4>3, <1>2
      <4> QED
        BY <4>1, <4>4, <4>5, <3>3, <1>2
    <3> QED
      BY <3>1, <3>2, <3>3, <1>2
  <2> QED
    BY <2>2, <2>3, <2>4, <2>5 DEF ListShape
<1>10. NoLeak'
  <2>1. \A u \in Task : cell'[u] = "live" <=> OnList(u)' \/ u \in Held'
    BY <1>3, <1>4, <1>5 DEF NoLeak, TypeOK
  <2>2. \A i, j \in 1..Len(fifo') : fifo'[i] = fifo'[j] => i = j
    BY <1>2, <1>3 DEF NoLeak, OnList
  <2>3. \A u \in Held' : u \in Task /\ u # t /\ ~OnList(u)
    <3>1. Held \subseteq Task
      BY DEF Held, Control, TypeOK, Pointer
    <3>2. \A u \in Held : ~OnList(u)
      BY DEF NoLeak
    <3> QED
      BY <3>1, <3>2, <1>3, <1>4
  <2>4. \A u \in Held' : ~OnList(u)'
    BY <2>3, <1>5
  <2>5. \A v, w \in Worker : cur'[v] = cur'[w] /\ cur'[v] # NULL => v = w
    BY DEF NoLeak
  <2>6. argFreed' = {u \in Owned : cell'[u] = "freed"}
    BY DEF NoLeak, TypeOK
  <2> QED
    BY <2>1, <2>2, <2>4, <2>5, <2>6 DEF NoLeak
<1>11. RanCells'
  BY <1>6 DEF RanCells, TypeOK
<1>12. Counted'
  BY <1>2, <1>4, <1>6, BusyFinite DEF Counted
<1>13. Awake'
  <2>1. CASE remaining # 0
    BY <2>1, <1>1, <1>6 DEF Awake
  <2>2. CASE remaining = 0
    <3>1. PICK w \in Worker : TRUE
      OBVIOUS
    <3>2. \A v \in Waiter : pc[v] # "wait"
      BY <2>2, <1>6 DEF WaiterSleeps
    <3>3. CASE pc[w] = "wait"
      BY <3>2, <3>3, <1>1 DEF Awake
    <3>4. CASE pc[w] # "wait"
      BY <3>4, <1>1, <1>6 DEF Awake, Control
    <3> QED
      BY <3>3, <3>4
  <2> QED
    BY <2>1, <2>2
<1>14. WaiterSleeps'
  BY DEF WaiterSleeps, TypeOK
<1> QED
  BY <1>7, <1>8, <1>9, <1>10, <1>11, <1>12, <1>13, <1>14

\* What removing the first cell does to the list; shared by the workers and by
\* the clean-up of pool_end.
LEMMA PopFacts ==
  ASSUME IInv, q # NULL
  PROVE  /\ fifo # <<>>
         /\ Len(fifo) \in Nat \ {0}
         /\ q = fifo[1]
         /\ q \in Task
         /\ next[q] = IF Len(fifo) = 1 THEN NULL ELSE fifo[2]
         /\ OnList(q)
         /\ cell[q] = "live"
         /\ q \notin Held
         /\ Tail(fifo) \in Seq(Task)
         /\ Len(Tail(fifo)) = Len(fifo) - 1
         /\ Tail(fifo) = <<>> <=> Len(fifo) = 1
         /\ \A i \in 1..Len(fifo) - 1 : Tail(fifo)[i] = fifo[i + 1]
         /\ \A i \in 1..Len(fifo) : fifo[i] \in Task
         /\ \A i \in 1..Len(fifo) : fifo[i] = q => i = 1
         /\ \A i, j \in 1..Len(fifo) - 1 : Tail(fifo)[i] = Tail(fifo)[j] => i = j
<1> USE DEF IInv
<1>1. fifo # <<>> /\ q = fifo[1]
  BY DEF ListShape
<1>2. /\ Tail(fifo) \in Seq(Task)
      /\ Len(fifo) \in Nat \ {0}
      /\ Len(Tail(fifo)) = Len(fifo) - 1
      /\ \A i \in 1..Len(fifo) - 1 : Tail(fifo)[i] = fifo[i + 1]
  BY <1>1, TailFacts DEF TypeOK
<1>3. \A i \in 1..Len(fifo) : fifo[i] \in Task
  BY ElementOfSeq DEF TypeOK
<1>4. 1 \in 1..Len(fifo)
  BY <1>2
<1>5. next[q] = IF Len(fifo) = 1 THEN NULL ELSE fifo[2]
  <2>1. next[fifo[1]] = IF 1 = Len(fifo) THEN NULL ELSE fifo[1 + 1]
    BY <1>4 DEF ListShape
  <2>2. fifo[1 + 1] = fifo[2]
    OBVIOUS
  <2> QED
    BY <2>1, <2>2, <1>1
<1>6. OnList(q)
  BY <1>1, <1>4 DEF OnList
<1>7. q \in Task /\ cell[q] = "live" /\ q \notin Held
  BY <1>1, <1>3, <1>4, <1>6 DEF NoLeak
<1>8. \A i \in 1..Len(fifo) : fifo[i] = q => i = 1
  BY <1>1, <1>4 DEF NoLeak
<1>9. Tail(fifo) = <<>> <=> Len(fifo) = 1
  <2>1. Tail(fifo) = <<>> <=> Len(Tail(fifo)) = 0
    BY <1>2, EmptySeq, Zenon
  <2> QED
    BY <2>1, <1>2
<1>10. \A i, j \in 1..Len(fifo) - 1 : Tail(fifo)[i] = Tail(fifo)[j] => i = j
  <2> SUFFICES ASSUME NEW i \in 1..Len(fifo) - 1, NEW j \in 1..Len(fifo) - 1,
                      Tail(fifo)[i] = Tail(fifo)[j]
               PROVE  i = j
    OBVIOUS
  <2>1. fifo[i + 1] = fifo[j + 1] /\ i + 1 \in 1..Len(fifo) /\ j + 1 \in 1..Len(fifo)
    BY <1>2
  <2>2. i + 1 = j + 1
    BY <2>1 DEF NoLeak
  <2> QED
    BY <2>2
<1> QED
  BY <1>1, <1>2, <1>3, <1>5, <1>6, <1>7, <1>8, <1>9, <1>10

\* The list after its first cell has been removed.
LEMMA PopShape ==
  ASSUME IInv, q # NULL, q' = next[q], fifo' = Tail(fifo), next' = next
  PROVE  /\ q' = IF fifo' = <<>> THEN NULL ELSE fifo'[1]
         /\ \A i \in 1..Len(fifo') :
              next'[fifo'[i]] = IF i = Len(fifo') THEN NULL ELSE fifo'[i + 1]
         /\ \A u \in Task : OnList(u)' <=> OnList(u) /\ u # q
<1>1. q' = IF fifo' = <<>> THEN NULL ELSE fifo'[1]
  BY PopFacts
<1>2. ASSUME NEW i \in 1..Len(fifo')
      PROVE  next'[fifo'[i]] = IF i = Len(fifo') THEN NULL ELSE fifo'[i + 1]
  <2>1. i \in 1..Len(fifo) - 1 /\ i + 1 \in 1..Len(fifo) /\ Len(fifo) \in Nat
    BY <1>2, PopFacts
  <2>2. next[fifo[i + 1]] = IF i + 1 = Len(fifo) THEN NULL ELSE fifo[i + 2]
    BY <2>1 DEF IInv, ListShape
  <2>3. CASE i + 1 = Len(fifo)
    BY <2>1, <2>2, <2>3, PopFacts
  <2>4. CASE i + 1 # Len(fifo)
    <3>1. i + 1 \in 1..Len(fifo) - 1
      BY <2>1, <2>4
    <3>2. fifo'[i + 1] = fifo[i + 2]
      BY <3>1, PopFacts
    <3> QED
      BY <2>1, <2>2, <2>4, <3>2, PopFacts
  <2> QED
    BY <2>3, <2>4
<1>3. ASSUME NEW u \in Task
      PROVE  OnList(u)' <=> OnList(u) /\ u # q
  <2>1. ASSUME NEW i \in 1..Len(fifo), fifo[i] = u, u # q
        PROVE  \E j \in 1..Len(fifo') : fifo'[j] = u
    <3>1. i - 1 \in 1..Len(fifo) - 1
      BY <2>1, PopFacts
    <3> QED
      BY <3>1, <2>1, PopFacts
  <2>2. ASSUME NEW j \in 1..Len(fifo'), fifo'[j] = u
        PROVE  u # q /\ \E i \in 1..Len(fifo) : fifo[i] = u
    <3>1. j \in 1..Len(fifo) - 1 /\ j + 1 \in 1..Len(fifo) /\ j + 1 # 1
      BY <2>2, PopFacts
    <3> QED
      BY <3>1, <2>2, PopFacts
  <2> QED
    BY <2>1, <2>2 DEF OnList
<1> QED
  BY <1>1, <1>2, <1>3

\* What taking, and running, a task does to the set of tasks in workers' hands.
LEMMA TakeHeld ==
  ASSUME IInv, NEW w \in Worker, Take(w)
  PROVE  Held' = Held \cup {q}
<1> USE DEF IInv, Take, Goto, Thread
<1>1. cur'[w] = q /\ \A u \in Worker : u # w => cur'[u] = cur[u]
  BY DEF TypeOK
<1>2. \A u \in Worker : pc'[u] = "run" <=> u = w \/ pc[u] = "run"
  BY DEF TypeOK
<1> QED
  BY <1>1, <1>2 DEF Held

LEMMA RunHeld ==
  ASSUME IInv, NEW w \in Worker, Run(w)
  PROVE  Held' = Held \ {cur[w]}
<1> USE DEF IInv, Run, Goto, Thread
<1>1. \A u \in Worker : u # w => cur'[u] = cur[u]
  BY DEF TypeOK
<1>2. \A u \in Worker : pc'[u] = "run" <=> u # w /\ pc[u] = "run"
  BY DEF TypeOK
<1>3. \A u \in Worker : u # w /\ pc[u] = "run" => cur[u] # cur[w]
  BY DEF NoLeak, Control
<1> QED
  BY <1>1, <1>2, <1>3 DEF Held

LEMMA TakeIInv ==
  ASSUME IInv, NEW w \in Worker, Take(w)
  PROVE  IInv'
<1> USE PoolAssumption DEF IInv, Take, Goto, Thread
<1>1. q # NULL /\ q \in Task
  BY PopFacts
<1>2. Intact /\ Intact' /\ ~cancelled /\ ~cancelled'
  BY DEF Intact, Control
<1>3. pc'[w] = "run" /\ \A u \in Thread : u # w => pc'[u] = pc[u]
  BY DEF TypeOK
<1>4. Busy' = Busy \cup {w} /\ w \notin Busy
  BY <1>3 DEF Busy
<1>5. Held' = Held \cup {q}
  BY TakeHeld
<1>6. TypeOK'
  BY <1>1, PopFacts DEF TypeOK, Label, Pointer, heap
<1>7. Control'
  BY <1>1, <1>2, <1>3 DEF Control, TypeOK
<1>8. ListShape'
  <2>1. end' = IF fifo' = <<>> THEN NULL ELSE fifo'[Len(fifo')]
    <3>1. end = fifo[Len(fifo)]
      BY <1>2, PopFacts DEF ListShape
    <3>2. CASE Len(fifo) = 1
      BY <3>1, <3>2, PopFacts
    <3>3. CASE Len(fifo) # 1
      <4>1. Len(fifo) \in 1..Len(fifo) /\ Len(fifo) - 1 \in 1..Len(fifo) - 1
        BY <3>3, PopFacts
      <4>2. fifo[Len(fifo)] # q
        BY <4>1, <3>3, PopFacts
      <4>3. fifo'[Len(fifo')] = fifo[Len(fifo)]
        BY <4>1, PopFacts
      <4> QED
        BY <3>1, <3>3, <4>2, <4>3, PopFacts
    <3> QED
      BY <3>2, <3>3
  <2> QED
    BY <2>1, PopShape DEF ListShape
<1>9. NoLeak'
  <2>1. \A u \in Task : OnList(u)' <=> OnList(u) /\ u # q
    BY PopShape
  <2>2. \A u \in Task : cell'[u] = "live" <=> OnList(u)' \/ u \in Held'
    BY <2>1, <1>5, PopFacts DEF NoLeak, heap
  <2>3. \A i, j \in 1..Len(fifo') : fifo'[i] = fifo'[j] => i = j
    BY PopFacts
  <2>4. \A u \in Held' : ~OnList(u)'
    <3>1. Held \subseteq Task
      BY DEF Held, Control, TypeOK, Pointer
    <3> QED
      BY <3>1, <2>1, <1>1, <1>5 DEF NoLeak
  <2>5. \A u, v \in Worker : cur'[u] = cur'[v] /\ cur'[u] # NULL => u = v
    <3>1. \A u \in Worker : cur[u] # q
      BY PopFacts DEF Held, Control
    <3> QED
      BY <3>1 DEF NoLeak, TypeOK
  <2>6. argFreed' = {u \in Owned : cell'[u] = "freed"}
    BY DEF NoLeak, heap
  <2> QED
    BY <2>2, <2>3, <2>4, <2>5, <2>6 DEF NoLeak
<1>10. RanCells'
  BY <1>2 DEF RanCells, heap
<1>11. Counted'
  <2>1. Cardinality(Busy') = Cardinality(Busy) + 1
    BY <1>4, BusyFinite, FS_AddElement
  <2>2. Len(fifo') = Len(fifo) - 1
    BY PopFacts
  <2>3. Cardinality(Busy) \in Nat /\ Len(fifo) \in Nat
    BY BusyFinite, FS_CardinalityType, PopFacts
  <2>4. remaining' = remaining /\ (Intact => remaining = Len(fifo) + Cardinality(Busy))
    BY DEF Counted
  <2>5. Intact' <=> Intact
    BY DEF Intact
  <2> QED
    BY <2>1, <2>2, <2>3, <2>4, <2>5 DEF Counted
<1>12. Awake' /\ WaiterSleeps'
  BY <1>3 DEF Awake, WaiterSleeps
<1> QED
  BY <1>6, <1>7, <1>8, <1>9, <1>10, <1>11, <1>12

LEMMA RunIInv ==
  ASSUME IInv, NEW w \in Worker, Run(w)
  PROVE  IInv'
<1> USE PoolAssumption DEF IInv, Run, Goto, Thread
<1>1. cur[w] \in Task /\ cur[w] \in Held /\ cell[cur[w]] = "live" /\ ~OnList(cur[w])
  BY DEF Control, TypeOK, Pointer, Held, NoLeak
<1>2. pc'[w] = "dec" /\ \A u \in Thread : u # w => pc'[u] = pc[u]
  BY DEF TypeOK
<1>3. Busy' = Busy
  BY <1>2 DEF Busy
<1>4. Held' = Held \ {cur[w]}
  BY RunHeld
<1>5. Intact /\ Intact'
  BY DEF Intact, Control, TypeOK
<1>6. TypeOK'
  BY <1>1 DEF TypeOK, Label, Pointer, struct
<1>7. Control'
  BY <1>2 DEF Control, TypeOK
<1>8. ListShape'
  BY <1>5 DEF ListShape, struct
<1>9. NoLeak'
  <2>1. \A u \in Task : cell'[u] = "live" <=> OnList(u)' \/ u \in Held'
    BY <1>1, <1>4 DEF NoLeak, OnList, TypeOK
  <2>2. \A u \in Held' : ~OnList(u)'
    BY <1>4 DEF NoLeak, OnList
  <2>3. \A u, v \in Worker : cur'[u] = cur'[v] /\ cur'[u] # NULL => u = v
    BY DEF NoLeak, TypeOK
  <2>4. argFreed' = {u \in Owned : cell'[u] = "freed"}
    BY <1>1 DEF NoLeak, TypeOK
  <2> QED
    BY <2>1, <2>2, <2>3, <2>4 DEF NoLeak
<1>10. RanCells'
  BY <1>1, <1>5 DEF RanCells, TypeOK
<1>11. Counted'
  BY <1>3, <1>5 DEF Counted, struct
<1>12. Awake' /\ WaiterSleeps'
  BY <1>2 DEF Awake, WaiterSleeps, struct
<1> QED
  BY <1>6, <1>7, <1>8, <1>9, <1>10, <1>11, <1>12

\* The worker reports back: `remaining' cannot be 0, and the broadcast leaves no
\* sleeper that the new value of `remaining' could concern.
LEMMA DecrementIInv ==
  ASSUME IInv, NEW w \in Worker, Decrement(w)
  PROVE  IInv'
<1> USE PoolAssumption DEF IInv, Decrement, Thread
<1>1. \A u \in Thread : pc'[u] = IF u = w THEN "loop"
                                 ELSE IF pc[u] = "wait" THEN "lock" ELSE pc[u]
  BY DEF Woken, Asleep, TypeOK
<1>2. Busy' = Busy \ {w} /\ w \in Busy
  BY <1>1 DEF Busy
<1>3. Held' = Held
  <2>1. \A u \in Worker : pc'[u] = "run" <=> pc[u] = "run"
    BY <1>1
  <2> QED
    BY <2>1 DEF Held
<1>4. Intact /\ Intact'
  BY DEF Intact, Control, TypeOK
<1>5. remaining' = Len(fifo') + Cardinality(Busy') /\ remaining' \in Nat
  <2>1. Cardinality(Busy') = Cardinality(Busy) - 1 /\ Cardinality(Busy') \in Nat
    <3>1. Cardinality(Busy \ {w}) = Cardinality(Busy) - 1
      BY <1>2, BusyFinite, FS_RemoveElement
    <3>2. Cardinality(Busy \ {w}) \in Nat
      BY BusyFinite, FS_RemoveElement, FS_CardinalityType
    <3> QED
      BY <1>2, <3>1, <3>2
  <2>2. remaining = Len(fifo) + Cardinality(Busy) /\ Len(fifo) \in Nat
    BY <1>4, LenProperties DEF Counted, TypeOK
  <2> QED
    BY <2>1, <2>2, BusyFinite
<1>6. TypeOK'
  <2>1. pc' \in [Thread -> Label]
    BY DEF TypeOK, Woken, Label
  <2> QED
    BY <2>1, <1>5 DEF TypeOK, heap
<1>7. Control'
  BY <1>1 DEF Control
<1>8. ListShape'
  BY <1>4 DEF ListShape
<1>9. NoLeak'
  BY <1>3 DEF NoLeak, OnList, heap
<1>10. RanCells'
  BY <1>4 DEF RanCells, heap
<1>11. Counted'
  BY <1>5 DEF Counted
<1>12. Awake' /\ WaiterSleeps'
  BY <1>1 DEF Awake, WaiterSleeps
<1> QED
  BY <1>6, <1>7, <1>8, <1>9, <1>10, <1>11, <1>12

LEMMA EndDrainIInv ==
  ASSUME IInv, EndDrain
  PROVE  IInv'
<1> USE PoolAssumption DEF IInv, EndDrain, Thread
<1>1. q # NULL /\ q \in Task /\ cell[q] = "live"
  BY PopFacts
<1>2. ~Intact /\ ~Intact' /\ cancelled /\ cancelled'
  BY DEF Intact, Control
<1>3. Held = {} /\ Held' = {}
  BY DEF Held, Control
<1>4. TypeOK'
  BY <1>1, PopFacts DEF TypeOK, Pointer
<1>5. Control'
  BY DEF Control
<1>6. ListShape'
  BY <1>2, PopShape DEF ListShape
<1>7. NoLeak'
  <2>1. \A u \in Task : OnList(u)' <=> OnList(u) /\ u # q
    BY PopShape
  <2>2. \A u \in Task : cell'[u] = "live" <=> OnList(u)' \/ u \in Held'
    BY <2>1, <1>3, PopFacts DEF NoLeak, TypeOK
  <2>3. \A i, j \in 1..Len(fifo') : fifo'[i] = fifo'[j] => i = j
    BY PopFacts
  <2>4. argFreed' = {u \in Owned : cell'[u] = "freed"}
    BY <1>1 DEF NoLeak, TypeOK
  <2> QED
    BY <2>2, <2>3, <2>4, <1>3 DEF NoLeak
<1>8. RanCells'
  BY <1>1, <1>2 DEF RanCells, TypeOK
<1>9. Counted' /\ Awake' /\ WaiterSleeps'
  BY <1>2 DEF Counted, Awake, WaiterSleeps
<1> QED
  BY <1>4, <1>5, <1>6, <1>7, <1>8, <1>9

LEMMA NextIInv == IInv /\ [Next]_vars => IInv'
<1> SUFFICES ASSUME IInv, [Next]_vars PROVE IInv'
  OBVIOUS
<1>1. ASSUME NEW t \in Task, Enqueue(t) PROVE IInv'
  BY <1>1, EnqueueIInv
<1>2. ASSUME NEW v \in Waiter, WaitCall(v) \/ WaitCheck(v) PROVE IInv'
  BY <1>2, WaitCallIInv, WaitCheckIInv
<1>3. ASSUME NEW w \in Worker, WorkerStep(w) PROVE IInv'
  BY <1>3, LoopIInv, SleepIInv, QuitIInv, TakeIInv, RunIInv, DecrementIInv
     DEF WorkerStep
<1>4. ASSUME NEW t \in Thread, SpuriousWakeup(t) PROVE IInv'
  BY <1>4, SpuriousIInv
<1>5. CASE EndCall
  BY <1>5, EndCallIInv
<1>6. CASE EndStep
  BY <1>6, EndBroadcastIInv, EndJoinIInv, EndDrainIInv, EndFreeIInv DEF EndStep
<1>7. CASE UNCHANGED vars
  <2>1. ListShape' /\ NoLeak' /\ RanCells' /\ Counted'
    BY <1>7, Frame DEF vars, Intact
  <2>2. TypeOK' /\ Control' /\ Awake' /\ WaiterSleeps'
    BY <1>7 DEF IInv, vars, struct, heap, TypeOK, Control, Awake, WaiterSleeps
  <2> QED
    BY <2>1, <2>2 DEF IInv
<1> QED
  BY <1>1, <1>2, <1>3, <1>4, <1>5, <1>6, <1>7 DEF Next

-----------------------------------------------------------------------------
(* The theorems.                                                           *)

\* The inductive invariant holds in every reachable state.
THEOREM Invariance == Spec => []IInv
BY InitIInv, NextIInv, PTL DEF Spec

\* Type correctness; in particular the unsigned `remaining' never drops below 0.
THEOREM TypeCorrect == Spec => []TypeOK
<1>1. IInv => TypeOK
  BY DEF IInv
<1> QED
  BY <1>1, Invariance, PTL

\* The linked list is always the queue of the tasks enqueued and not taken.
THEOREM ListCorrect == Spec => []ListShape
<1>1. IInv => ListShape
  BY DEF IInv
<1> QED
  BY <1>1, Invariance, PTL

\* No list cell and no owned argument is leaked, freed twice or freed early.
THEOREM MemorySafe == Spec => []NoLeak
<1>1. IInv => NoLeak
  BY DEF IInv
<1> QED
  BY <1>1, Invariance, PTL

\* `remaining' is exact as long as anybody looks at it.
THEOREM CountExact == Spec => []Counted
<1>1. IInv => Counted
  BY DEF IInv
<1> QED
  BY <1>1, Invariance, PTL

\* No task is stranded by a signal that a pool_wait caller has swallowed.
THEOREM NoLostWakeup == Spec => []NoStranded
<1>1. IInv => NoStranded
  <2> SUFFICES ASSUME IInv, ~cancelled, fifo # <<>>
               PROVE  \E w \in Worker : pc[w] \notin {"wait", "done"}
    BY DEF NoStranded
  <2>1. Intact
    BY DEF IInv, Control, Intact
  <2>2. Len(fifo) \in Nat \ {0}
    BY EmptySeq DEF IInv, TypeOK
  <2>3. remaining # 0
    BY <2>1, <2>2, BusyFinite DEF IInv, Counted
  <2> QED
    BY <2>3 DEF IInv, Awake
<1> QED
  BY <1>1, Invariance, PTL

-----------------------------------------------------------------------------
(* pool_wait.                                                              *)

\* Only pool_wait's own check takes a caller from the mutex out of pool_wait.
LEMMA OnlyCheckReturns ==
  ASSUME IInv, Next, NEW v \in Waiter, pc[v] = "lock", pc'[v] = "out"
  PROVE  WaitCheck(v)
<1> USE PoolAssumption DEF IInv, Thread
<1>1. ~Signal
  <2> SUFFICES ASSUME Signal PROVE FALSE
    OBVIOUS
  <2> QED
    BY SignalWakes
<1>2. ASSUME NEW t \in Thread, NEW label, Goto(t, label) PROVE t = v /\ label = "out"
  BY <1>2 DEF Goto, TypeOK
<1>3. UNCHANGED pc => FALSE
  OBVIOUS
<1>4. ASSUME NEW t \in Task PROVE ~Enqueue(t)
  BY <1>1 DEF Enqueue
<1>5. ASSUME NEW u \in Waiter, WaitCall(u) PROVE FALSE
  BY <1>5, <1>2 DEF WaitCall
<1>6. ASSUME NEW u \in Waiter, WaitCheck(u) PROVE u = v
  BY <1>6, <1>2 DEF WaitCheck
<1>7. ASSUME NEW w \in Worker, WorkerStep(w) PROVE FALSE
  <2>1. w # v
    OBVIOUS
  <2>2. ~Decrement(w)
    BY <2>1 DEF Decrement, Woken, Asleep, TypeOK
  <2> QED
    BY <1>7, <1>2, <2>1, <2>2 DEF WorkerStep, Loop, Sleep, Quit, Take, Run
<1>8. ASSUME NEW t \in Thread, SpuriousWakeup(t) PROVE FALSE
  BY <1>8, <1>2 DEF SpuriousWakeup
<1>9. ~EndCall
  BY <1>3 DEF EndCall
<1>10. ~EndStep
  BY <1>3 DEF EndStep, EndBroadcast, EndJoin, EndDrain, EndFree, Woken, Asleep, TypeOK
<1> QED
  BY <1>4, <1>5, <1>6, <1>7, <1>8, <1>9, <1>10 DEF Next

\* With nothing remaining, every cell ever allocated belongs to a task that ran.
LEMMA NothingRemaining ==
  ASSUME IInv, Intact, remaining = 0, NEW t \in Task, cell[t] # "none"
  PROVE  t \in ran
<1> USE DEF IInv
<1>1. Len(fifo) \in Nat
  BY DEF TypeOK
<1>2. Len(fifo) = 0 /\ Cardinality(Busy) = 0
  BY <1>1, BusyFinite DEF Counted
<1>3. Busy = {}
  BY <1>2, BusyFinite, FS_EmptySet
<1>4. Held = {} /\ ~OnList(t)
  BY <1>2, <1>3 DEF Held, Busy, OnList
<1>5. cell[t] = "freed"
  BY <1>4 DEF NoLeak, TypeOK
<1> QED
  BY <1>5 DEF RanCells

\* pool_wait returns of its own accord only when all that was enqueued has run.
THEOREM WaitCorrect == Spec => WaitMeansDone
<1> DEFINE Returns == \A v \in Waiter : pc[v] = "lock" /\ pc'[v] = "out" /\ ~cancelled
                         => \A t \in Task : cell[t] # "none" => t \in ran
<1>1. IInv /\ [Next]_vars => [Returns]_vars
  <2> SUFFICES ASSUME IInv, Next,
                      NEW v \in Waiter, pc[v] = "lock", pc'[v] = "out", ~cancelled,
                      NEW t \in Task, cell[t] # "none"
               PROVE  t \in ran
    OBVIOUS
  <2>1. WaitCheck(v)
    BY OnlyCheckReturns
  <2>2. Intact /\ endPc # "gone"
    BY DEF Intact, IInv, Control
  <2>3. remaining = 0
    BY <2>1, <2>2 DEF WaitCheck, Goto, IInv, TypeOK, Thread
  <2> QED
    BY <2>2, <2>3, NothingRemaining
<1> QED
  BY <1>1, Invariance, PTL DEF Spec, WaitMeansDone

-----------------------------------------------------------------------------
(* Refinement: the pool implements TaskPool.                               *)

\* A step that leaves the list, the cells and the workers' holds alone is a
\* stutter of the abstract pool.
LEMMA AbsStutter ==
  ASSUME UNCHANGED <<cell, cancelled, cur, fifo, ran>>,
         \A w \in Worker : pc'[w] = "run" <=> pc[w] = "run"
  PROVE  UNCHANGED Abs!vars
<1>1. Held' = Held
  BY DEF Held
<1> QED
  BY <1>1 DEF Abs!vars

LEMMA EnqueueSubmits ==
  ASSUME IInv, NEW t \in Task, Enqueue(t)
  PROVE  Abs!Submit(t)
<1> USE DEF IInv, Enqueue
<1>1. \A w \in Worker : pc'[w] = "run" <=> pc[w] = "run"
  BY SignalWakes DEF Thread
<1>2. Held' = Held
  BY <1>1 DEF Held
<1>3. ~cancelled
  BY DEF Control
<1>4. ~OnList(t) /\ t \notin Held /\ t \notin ran
  BY DEF NoLeak, RanCells
<1>5. ~Abs!Submitted(t)
  BY <1>4 DEF Abs!Submitted, Abs!InQueue, OnList
<1>6. {u \in Task : cell'[u] = "freed"} = {u \in Task : cell[u] = "freed"}
  BY DEF TypeOK
<1> QED
  BY <1>2, <1>3, <1>5, <1>6 DEF Abs!Submit

LEMMA TakeStarts ==
  ASSUME IInv, NEW w \in Worker, Take(w)
  PROVE  Abs!Start
<1>1. fifo # <<>> /\ Head(fifo) = q
  BY PopFacts, TailFacts DEF IInv, TypeOK, Take
<1>2. Held' = Held \cup {q}
  BY TakeHeld
<1> QED
  BY <1>1, <1>2 DEF Abs!Start, Take, heap

LEMMA RunFinishes ==
  ASSUME IInv, NEW w \in Worker, Run(w)
  PROVE  /\ cur[w] \in Task
         /\ Abs!Finish(cur[w])
<1> USE DEF IInv, Run
<1>1. cur[w] \in Task /\ cur[w] \in Held
  BY DEF Control, TypeOK, Pointer, Held
<1>2. Held' = Held \ {cur[w]}
  BY RunHeld
<1>3. ({u \in Task : cell[u] = "freed"} \ ran)' = {u \in Task : cell[u] = "freed"} \ ran
  <2>1. \A u \in Task : u # cur[w] => cell'[u] = cell[u]
    BY DEF TypeOK
  <2>2. cell[cur[w]] # "freed" /\ ran' = ran \cup {cur[w]}
    BY <1>1 DEF NoLeak
  <2>3. \A u \in Task : cell'[u] = "freed" /\ u \notin ran' <=> cell[u] = "freed" /\ u \notin ran
    BY <2>1, <2>2
  <2> QED
    BY <2>3
<1> QED
  BY <1>1, <1>2, <1>3 DEF Abs!Finish

LEMMA EndDrainDiscards ==
  ASSUME IInv, EndDrain
  PROVE  Abs!Discard
<1> USE DEF IInv, EndDrain
<1>1. cancelled /\ Held = {} /\ Held' = {}
  BY DEF Control, Held
<1>2. fifo # <<>> /\ Head(fifo) = q /\ q \in Task /\ cell[q] = "live"
  BY PopFacts, TailFacts DEF TypeOK
<1>3. ({u \in Task : cell[u] = "freed"} \ ran)'
        = ({u \in Task : cell[u] = "freed"} \ ran) \cup {q}
  BY <1>2 DEF RanCells, TypeOK
<1> QED
  BY <1>1, <1>2, <1>3 DEF Abs!Discard

LEMMA StepSimulation == IInv /\ [Next]_vars => [Abs!Next]_(Abs!vars)
<1> SUFFICES ASSUME IInv, [Next]_vars PROVE [Abs!Next]_(Abs!vars)
  OBVIOUS
<1> USE DEF IInv, Thread
<1>1. ASSUME NEW t \in Task, Enqueue(t) PROVE Abs!Next
  BY <1>1, EnqueueSubmits DEF Abs!Next
<1>2. ASSUME NEW v \in Waiter, WaitCall(v) \/ WaitCheck(v) PROVE UNCHANGED Abs!vars
  <2>1. \A w \in Worker : pc'[w] = pc[w]
    BY <1>2, PoolAssumption DEF WaitCall, WaitCheck, Goto, TypeOK
  <2> QED
    BY <1>2, <2>1, AbsStutter DEF WaitCall, WaitCheck, heap
<1>3. ASSUME NEW w \in Worker, WorkerStep(w) PROVE [Abs!Next]_(Abs!vars)
  <2>1. CASE Take(w)
    BY <2>1, TakeStarts DEF Abs!Next
  <2>2. CASE Run(w)
    BY <2>2, RunFinishes DEF Abs!Next
  <2>3. CASE Loop(w) \/ Sleep(w) \/ Quit(w)
    <3>1. \A u \in Worker : pc'[u] = "run" <=> pc[u] = "run"
      BY <2>3 DEF Loop, Sleep, Quit, Goto, TypeOK
    <3> QED
      BY <2>3, <3>1, AbsStutter DEF Loop, Sleep, Quit, heap
  <2>4. CASE Decrement(w)
    <3>1. \A u \in Worker : pc'[u] = "run" <=> pc[u] = "run"
      BY <2>4 DEF Decrement, Woken, Asleep, TypeOK
    <3> QED
      BY <2>4, <3>1, AbsStutter DEF Decrement, heap
  <2> QED
    BY <1>3, <2>1, <2>2, <2>3, <2>4 DEF WorkerStep
<1>4. ASSUME NEW t \in Thread, SpuriousWakeup(t) PROVE UNCHANGED Abs!vars
  <2>1. \A w \in Worker : pc'[w] = "run" <=> pc[w] = "run"
    BY <1>4 DEF SpuriousWakeup, Asleep, Goto, TypeOK
  <2> QED
    BY <1>4, <2>1, AbsStutter DEF SpuriousWakeup, heap
<1>5. CASE EndCall
  <2>1. ~cancelled /\ Held' = Held
    BY <1>5 DEF EndCall, Control, Held
  <2> QED
    BY <1>5, <2>1 DEF EndCall, Abs!Next, Abs!Stop, heap
<1>6. CASE EndDrain
  BY <1>6, EndDrainDiscards DEF Abs!Next
<1>7. CASE EndBroadcast \/ EndJoin \/ EndFree
  <2>1. \A w \in Worker : pc'[w] = "run" <=> pc[w] = "run"
    BY <1>7 DEF EndBroadcast, EndJoin, EndFree, Woken, Asleep, TypeOK
  <2> QED
    BY <1>7, <2>1, AbsStutter DEF EndBroadcast, EndJoin, EndFree, heap
<1>8. CASE UNCHANGED vars
  BY <1>8, AbsStutter DEF vars, heap
<1> QED
  BY <1>1, <1>2, <1>3, <1>4, <1>5, <1>6, <1>7, <1>8 DEF Next, EndStep

\* The pool of threads, locks and pointers implements the pool its header
\* promises: first in first out, at most one run per task, no start after
\* pool_end, no clean-up under a running task.
THEOREM Refinement == Spec => Implements
<1>1. Init => Abs!Init
  <2> SUFFICES ASSUME Init PROVE Abs!Init
    OBVIOUS
  <2>1. Held = {}
    BY PoolAssumption DEF Init, Held, Thread
  <2> QED
    BY <2>1 DEF Init, Abs!Init
<1> QED
  BY <1>1, StepSimulation, Invariance, PTL DEF Spec, Implements, Abs!Spec
=============================================================================
