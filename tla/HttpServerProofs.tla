------------------------- MODULE HttpServerProofs -------------------------
(***************************************************************************)
(* Machine-checked proofs about HttpServer, for any connections, any       *)
(* descriptors and any number of reads: memory faults have the two known   *)
(* causes, buffers are accounted for, and the table and the descriptors    *)
(* agree with the connections.                                             *)
(***************************************************************************)
EXTENDS HttpServer, SequenceTheorems, TLAPS

-----------------------------------------------------------------------------
(* The inductive invariant.  A step that commits a fault is the last one,  *)
(* so what follows the first line is known only as long as there is none.  *)

\* What a list holds; a list that holds nothing twice.
Holds(s, x) == \E i \in 1..Len(s) : s[i] = x
Once(s) == \A i, k \in 1..Len(s) : s[i] = s[k] => i = k

\* http_end frees the base once the loop has ended, and stops the pool last.
Control ==
  /\ base = "freed" <=> mainPc \in {"pool", "gone"}
  /\ base = "freed" => loop = "ended"
  /\ stopped <=> mainPc = "gone"

\* Every dispatch that was made is in exactly one place of the pool, once; it
\* has a buffer, and it has a handler at work as long as it runs.
Dispatches ==
  /\ Once(pending)
  /\ \A j \in Job : /\ Pool!Submitted(j) <=> j[2] <= reads[j[1]]
                    /\ heap[j] = "none" <=> j[2] > reads[j[1]]
                    /\ j \in running <=> pc[j] # "idle"
                    /\ Queued(j) => j \notin running \cup finished \cup discarded
                    /\ j \in running => j \notin finished \cup discarded
                    /\ j \in finished => j \notin discarded

\* How far the main thread has come with a connection, and a handler with
\* taking it down.  A connection leaves the table before its bufferevent goes,
\* which goes before its memory; no second handler gets as far.
Connections ==
  \A c \in Conn :
    /\ fd[c] \in Fd <=> conn[c] # "none"
    /\ conn[c] = "none" => bev[c] = "none"
    /\ bev[c] = "none" => c \notin watched /\ reads[c] = 0 /\ conn[c] # "freed"
    /\ bev[c] = "live" => conn[c] = "live"
    /\ c \in table <=> bev[c] = "live" /\ \A j \in Job : j[1] = c => pc[j] # "bev"
    /\ c \in watched => bev[c] = "live"
    /\ c \in unread => reads[c] < MaxReads
    /\ bev[c] \in {"freed", "gone"} => Attached
    /\ reads[c] > 0 => Attached

\* No two connections are being inserted, and no two handlers are between
\* HASH_DEL and the end of a connection's life.
Exclusive ==
  /\ \A c, d \in Adding : c = d
  /\ \A j, k \in Deleting : j = k
  /\ Adding = {} \/ Deleting = {}
  /\ \A j, k \in running : j[1] = k[1] /\ pc[j] \in {"bev", "conn"} /\ pc[k] \in {"bev", "conn"} => j = k
  /\ \A j \in running : /\ pc[j] = "bev" => bev[j[1]] = "live"
                        /\ pc[j] = "conn" => bev[j[1]] \in {"freed", "gone"} /\ conn[j[1]] = "live"
                        /\ pc[j] \in {"del", "bev", "conn"} => kind[j[1]] = "close"
                        /\ pc[j] = "free" => kind[j[1]] # "unknown"

\* As long as the dispatches of a connection do not overlap, the one at hand is
\* the latest, works on the buffer made for it, and finds its connection there.
Undisturbed ==
  \A j \in Job : j[1] \notin overlapped /\ Outstanding(j) =>
    /\ j[2] = reads[j[1]]
    /\ j \in running => seen[j] = j[2]
    /\ pc[j] \notin {"bev", "conn"} => j[1] \in table

\* Each open descriptor belongs to one connection, whose bufferevent is still to
\* be made, to be freed, or to be finalized.
DescriptorsOwned ==
  LET Owner == {c \in Conn : conn[c] # "none" /\ bev[c] # "gone"} IN
  fault = "none" => /\ open = {fd[c] : c \in Owner}
                    /\ \A c, d \in Owner : fd[c] = fd[d] => c = d

Core ==
  /\ Control /\ Dispatches /\ Connections /\ Exclusive /\ Undisturbed
  /\ BufferAccount /\ TableCurrent /\ DescriptorsOwned

IInv ==
  /\ TypeOK
  /\ OnlyKnownFaults
  /\ fault = "none" => Core

-----------------------------------------------------------------------------
(* Lemmas about dispatches and about the pool's queue.                     *)

\* The two parts of a dispatch.
LEMMA JobParts ==
  /\ \A j \in Job : j[1] \in Conn /\ j[2] \in 1..MaxReads /\ j = <<j[1], j[2]>>
  /\ \A c \in Conn, n \in 1..MaxReads : /\ <<c, n>> \in Job
                                        /\ <<c, n>>[1] = c /\ <<c, n>>[2] = n
BY DEF Job

\* Appending an element the list does not hold.
LEMMA Appended ==
  ASSUME NEW S, NEW s \in Seq(S), NEW e \in S, Once(s), ~Holds(s, e)
  PROVE  /\ Append(s, e) \in Seq(S)
         /\ Once(Append(s, e))
         /\ \A x : Holds(Append(s, e), x) <=> Holds(s, x) \/ x = e
<1> DEFINE t == Append(s, e)
<1>1. /\ t \in Seq(S) /\ Len(t) = Len(s) + 1
      /\ \A i \in 1..Len(s) : t[i] = s[i]
      /\ t[Len(s) + 1] = e
  BY AppendProperties
<1> HIDE DEF t
<1>2. /\ Len(s) \in Nat
      /\ \A i \in 1..Len(t) : i \in 1..Len(s) \/ i = Len(s) + 1
      /\ \A i \in 1..Len(s) : i \in 1..Len(t)
      /\ Len(s) + 1 \in 1..Len(t)
  BY <1>1
<1>3. Once(t)
  BY <1>1, <1>2 DEF Once, Holds
<1>4. \A x : Holds(t, x) <=> Holds(s, x) \/ x = e
  BY <1>1, <1>2 DEF Holds
<1> QED
  BY <1>1, <1>3, <1>4 DEF t

\* Taking the head.
LEMMA Taken ==
  ASSUME NEW S, NEW s \in Seq(S), s # <<>>, Once(s)
  PROVE  /\ Tail(s) \in Seq(S) /\ Once(Tail(s))
         /\ Head(s) \in S /\ Holds(s, Head(s))
         /\ \A x : Holds(Tail(s), x) <=> Holds(s, x) /\ x # Head(s)
<1> DEFINE t == Tail(s)
<1>1. /\ Len(s) \in Nat \ {0}
      /\ t \in Seq(S) /\ Len(t) = Len(s) - 1
      /\ \A i \in 1..Len(t) : t[i] = s[i + 1]
      /\ Head(s) = s[1] /\ Head(s) \in S
  BY EmptySeq, HeadTailProperties
<1> HIDE DEF t
<1>2. /\ 1 \in 1..Len(s)
      /\ \A i \in 1..Len(t) : i + 1 \in 1..Len(s) /\ i + 1 # 1
      /\ \A i \in 1..Len(s) : i = 1 \/ (i - 1 \in 1..Len(t) /\ (i - 1) + 1 = i)
  BY <1>1
<1>3. Once(t)
  BY <1>1, <1>2 DEF Once
<1>4. ASSUME NEW x PROVE Holds(t, x) <=> Holds(s, x) /\ x # Head(s)
  <2>1. ASSUME NEW i \in 1..Len(t), t[i] = x PROVE s[i + 1] = x /\ x # s[1]
    BY <1>1, <1>2, <2>1 DEF Once
  <2>2. ASSUME NEW i \in 1..Len(s), s[i] = x, x # s[1] PROVE t[i - 1] = x
    BY <1>1, <1>2, <2>2
  <2> QED
    BY <1>1, <1>2, <2>1, <2>2 DEF Holds
<1>5. Holds(s, Head(s))
  BY <1>1, <1>2 DEF Holds
<1> QED
  BY <1>1, <1>3, <1>4, <1>5 DEF t

\* A dispatch is handed to the pool.
LEMMA SubmitMoves ==
  ASSUME TypeOK, Dispatches, NEW j \in Job, Pool!Submit(j)
  PROVE  /\ pending' \in Seq(Job) /\ Once(pending')
         /\ \A k \in Job : Queued(k)' <=> Queued(k) \/ k = j
         /\ ~Queued(j) /\ j \notin running \cup finished \cup discarded
<1>1. /\ pending \in Seq(Job) /\ Once(pending)
      /\ \A k : Queued(k) <=> Holds(pending, k)
      /\ \A k : Queued(k)' <=> Holds(pending', k)
  BY DEF TypeOK, Dispatches, Queued, Holds
<1>2. /\ pending' = Append(pending, j)
      /\ ~Holds(pending, j) /\ j \notin running \cup finished \cup discarded
  BY DEF Pool!Submit, Pool!Submitted, Pool!InQueue, Holds
<1> QED
  BY <1>1, <1>2, Appended

\* The oldest dispatch leaves the queue: a worker has it, or pool_end throws it
\* away.
LEMMA HeadMoves ==
  ASSUME TypeOK, Dispatches, Pool!Start \/ Pool!Discard
  PROVE  /\ pending' \in Seq(Job) /\ Once(pending')
         /\ Head(pending) \in Job /\ Queued(Head(pending))
         /\ Head(pending) \notin running \cup finished \cup discarded
         /\ \A k \in Job : Queued(k)' <=> Queued(k) /\ k # Head(pending)
<1>1. /\ pending \in Seq(Job) /\ Once(pending)
      /\ \A k : Queued(k) <=> Holds(pending, k)
      /\ \A k : Queued(k)' <=> Holds(pending', k)
  BY DEF TypeOK, Dispatches, Queued, Holds
<1>2. pending # <<>> /\ pending' = Tail(pending)
  BY DEF Pool!Start, Pool!Discard
<1>3. /\ pending' \in Seq(Job) /\ Once(pending') /\ Head(pending) \in Job
      /\ Holds(pending, Head(pending))
      /\ \A k : Holds(pending', k) <=> Holds(pending, k) /\ k # Head(pending)
  BY <1>1, <1>2, Taken
<1>4. Head(pending) \notin running \cup finished \cup discarded
  BY <1>1, <1>3 DEF Dispatches
<1> QED
  BY <1>1, <1>3, <1>4

-----------------------------------------------------------------------------
(* Every step keeps the types.                                             *)

LEMMA TypesKept ==
  ASSUME IInv, Next
  PROVE  TypeOK'
<1> USE HttpAssumption
<1>1. TypeOK /\ Core /\ fault = "none"
  BY DEF IInv, Next
<1>2. Dispatches /\ Connections
  BY <1>1 DEF Core
<1>3. FreedIf(TRUE) = "memory" /\ FreedIf(FALSE) = "none"
  BY DEF FreedIf
<1> USE <1>1 DEF TypeOK, connVars, inputVars, threadVars, handlerVars, poolVars
<1>4. ASSUME NEW c \in Conn, NEW f \in Fd, Accept(c, f)
      PROVE  TypeOK'
  BY <1>4 DEF Accept
<1>5. ASSUME NEW c \in Conn, NewBev(c) \/ Send(c) \/ Eof(c) \/ Finalize(c)
      PROVE  TypeOK'
  <2>1. NewBev(c) => TypeOK'
    BY DEF NewBev
  <2>2. Send(c) => TypeOK'
    BY DEF Send
  <2>3. Eof(c) => TypeOK'
    BY DEF Eof
  <2>4. Finalize(c) => TypeOK'
    BY DEF Finalize
  <2> QED
    BY <1>5, <2>1, <2>2, <2>3, <2>4
<1>6. ASSUME EndBreak \/ EndBase \/ LoopStart \/ LoopExit
      PROVE  TypeOK'
  BY <1>6 DEF EndBreak, EndBase, LoopStart, LoopExit
<1>7. CASE EndPool
  BY <1>7 DEF EndPool, Pool!Stop
<1>8. ASSUME NEW c \in Conn, ReadCallback(c)
      PROVE  TypeOK'
  <2>1. reads[c] + 1 \in 1..MaxReads /\ reads' = [reads EXCEPT ![c] = reads[c] + 1]
    BY <1>2, <1>8 DEF ReadCallback, Connections
  <2> DEFINE j == <<c, reads[c] + 1>>
  <2>2. j \in Job /\ reads'[c] = reads[c] + 1
    BY <2>1, JobParts
  <2> HIDE DEF j
  <2>3. Pool!Submit(j) /\ heap' = [heap EXCEPT ![j] = "live"]
    BY <1>8, <2>2 DEF ReadCallback, j
  <2>4. pending' \in Seq(Job)
    BY <1>2, <2>2, <2>3, SubmitMoves
  <2>5. UNCHANGED <<running, finished, discarded, stopped>>
    BY <2>3 DEF Pool!Submit
  <2>6. /\ unread' \subseteq Conn /\ overlapped' \subseteq Conn
        /\ fault' \in {"none", "memory", "race"}
        /\ UNCHANGED <<connVars, kind, threadVars, handlerVars>>
    BY <1>3, <1>8 DEF ReadCallback, FreedIf
  <2>7. reads' \in [Conn -> 0..MaxReads] /\ heap' \in [Job -> {"none", "live", "freed"}]
    BY <2>1, <2>2, <2>3
  <2> QED
    BY <2>4, <2>5, <2>6, <2>7
<1>9. ASSUME NEW j \in Job, Begin(j)
      PROVE  TypeOK'
  <2>1. pending' \in Seq(Job) /\ Head(pending) \in Job
    BY <1>2, <1>9, HeadMoves DEF Begin
  <2>2. reads[j[1]] \in 0..MaxReads
    BY JobParts
  <2> QED
    BY <1>3, <1>9, <2>1, <2>2 DEF Begin, Pool!Start
<1>10. ASSUME NEW j \in Job, HandlerStep(j)
       PROVE  TypeOK'
  <2>1. /\ <<pending, running, finished, discarded, stopped>>' = <<pending, running, finished, discarded, stopped>>
           \/ Pool!Finish(j)
        /\ pc' \in [Job -> {"idle", "parse", "free", "del", "bev", "conn"}]
        /\ UNCHANGED <<seen, threadVars>>
    BY <1>10 DEF HandlerStep, Parse, FreeBuffer, Delete, FreeBev, FreeConn, Goto
  <2>2. /\ pending' \in Seq(Job) /\ running' \cup finished' \cup discarded' \subseteq Job
        /\ stopped' \in BOOLEAN
    BY <2>1 DEF Pool!Finish
  <2>3. <<j[1], reads[j[1]]>> \in Job \/ ~FreeBuffer(j)
    BY <1>2, JobParts DEF FreeBuffer, Goto, Dispatches, Pool!Submitted
  <2>4. CASE FreeBuffer(j)
    BY <2>1, <2>2, <2>3, <2>4 DEF FreeBuffer
  <2>5. CASE Parse(j)
    BY <2>1, <2>2, <2>5 DEF Parse, FreedIf
  <2>6. CASE Delete(j)
    BY <2>1, <2>2, <2>6 DEF Delete, FreedIf
  <2>7. CASE FreeBev(j)
    BY <2>1, <2>2, <2>7, JobParts DEF FreeBev, FreedIf
  <2>8. CASE FreeConn(j)
    BY <2>1, <2>2, <2>8, JobParts DEF FreeConn, FreedIf
  <2> QED
    BY <1>10, <2>4, <2>5, <2>6, <2>7, <2>8 DEF HandlerStep
<1>11. CASE PoolDiscard
  BY <1>2, <1>11, HeadMoves DEF PoolDiscard, Pool!Discard
<1> QED
  BY <1>4, <1>5, <1>6, <1>7, <1>8, <1>9, <1>10, <1>11 DEF Next, MainStep

-----------------------------------------------------------------------------
(* Every step keeps the parts of Core, and a step with a memory fault has   *)
(* one of the known causes.                                                *)

LEMMA ControlKept ==
  ASSUME IInv, Next
  PROVE  Control'
<1>1. Control /\ TypeOK
  BY DEF IInv, Core, Next
<1> USE DEF Control, connVars, inputVars, threadVars, handlerVars, poolVars
<1>2. ASSUME NEW j \in Job, Begin(j) \/ HandlerStep(j)
      PROVE  UNCHANGED <<threadVars, stopped>>
  <2>1. HandlerStep(j) => UNCHANGED threadVars /\ (Pool!Finish(j) \/ UNCHANGED poolVars)
    BY DEF HandlerStep, Parse, FreeBuffer, Delete, FreeBev, FreeConn, Goto
  <2>2. Begin(j) => UNCHANGED threadVars /\ Pool!Start
    BY DEF Begin
  <2> QED
    BY <1>2, <2>1, <2>2 DEF Pool!Finish, Pool!Start
<1>3. ASSUME NEW c \in Conn,
             NewBev(c) \/ Send(c) \/ ReadCallback(c) \/ Eof(c) \/ Finalize(c)
             \/ \E f \in Fd : Accept(c, f)
      PROVE  UNCHANGED <<threadVars, stopped>>
  BY <1>3 DEF NewBev, Send, ReadCallback, Eof, Finalize, Accept, Pool!Submit
<1>4. CASE EndBreak \/ EndBase \/ EndPool \/ LoopStart \/ LoopExit
  BY <1>1, <1>4 DEF EndBreak, EndBase, EndPool, LoopStart, LoopExit, Pool!Stop, TypeOK
<1>5. CASE PoolDiscard
  BY <1>1, <1>5 DEF PoolDiscard, Pool!Discard
<1> QED
  BY <1>1, <1>2, <1>3, <1>4, <1>5 DEF Next, MainStep

LEMMA DispatchesKept ==
  ASSUME IInv, Next
  PROVE  Dispatches'
<1>1. TypeOK /\ Dispatches /\ Connections /\ TypeOK'
  BY TypesKept DEF IInv, Core, Next
<1> DEFINE dispatchVars == <<pending, running, finished, discarded, reads, heap, pc>>
<1>2. CASE UNCHANGED dispatchVars
  BY <1>1, <1>2 DEF Dispatches, Pool!Submitted, Pool!InQueue, Queued, Once
<1> USE DEF connVars, inputVars, threadVars, handlerVars, poolVars
<1>3. ASSUME NEW c \in Conn,
             NewBev(c) \/ Send(c) \/ Eof(c) \/ Finalize(c) \/ \E f \in Fd : Accept(c, f)
      PROVE  UNCHANGED dispatchVars
  BY <1>3 DEF NewBev, Send, Eof, Finalize, Accept
<1>4. ASSUME EndBreak \/ EndBase \/ EndPool \/ LoopStart \/ LoopExit
      PROVE  UNCHANGED dispatchVars
  BY <1>4 DEF EndBreak, EndBase, EndPool, LoopStart, LoopExit, Pool!Stop
<1>5. \A k : Pool!Submitted(k) <=> Queued(k) \/ k \in running \cup finished \cup discarded
  BY DEF Pool!Submitted, Pool!InQueue, Queued
<1>6. \A k : Pool!Submitted(k)' <=> Queued(k)' \/ k \in running' \cup finished' \cup discarded'
  BY DEF Pool!Submitted, Pool!InQueue, Queued
<1>7. ASSUME NEW c \in Conn, ReadCallback(c)
      PROVE  Dispatches'
  <2>1. reads[c] + 1 \in 1..MaxReads /\ reads' = [reads EXCEPT ![c] = reads[c] + 1]
    BY <1>1, <1>7 DEF ReadCallback, Connections, TypeOK
  <2> DEFINE j == <<c, reads[c] + 1>>
  <2>2. j \in Job /\ reads'[c] = reads[c] + 1 /\ j[1] = c /\ j[2] = reads[c] + 1
    BY <1>1, <2>1, JobParts DEF TypeOK
  <2>3. \A k \in Job : k[1] \in Conn /\ k[2] \in Nat /\ (k[1] = c /\ k[2] = reads[c] + 1 => k = j)
    BY JobParts
  <2> HIDE DEF j
  <2>4. /\ Pool!Submit(j) /\ heap' = [heap EXCEPT ![j] = "live"]
        /\ UNCHANGED <<running, finished, discarded, pc>>
    BY <1>7, <2>2 DEF ReadCallback, Pool!Submit, j
  <2>5. /\ Once(pending')
        /\ \A k \in Job : Queued(k)' <=> Queued(k) \/ k = j
        /\ ~Queued(j) /\ j \notin running \cup finished \cup discarded
    BY <1>1, <2>2, <2>4, SubmitMoves
  <2>6. \A k \in Job : k[2] <= reads'[k[1]] <=> k[2] <= reads[k[1]] \/ k = j
    BY <1>1, <2>1, <2>2, <2>3 DEF TypeOK
  <2>7. \A k \in Job : heap'[k] = IF k = j THEN "live" ELSE heap[k]
    BY <1>1, <2>2, <2>4 DEF TypeOK
  <2>8. \A k \in Job : k[2] \in Nat /\ reads[k[1]] \in Nat /\ reads'[k[1]] \in Nat
    BY <1>1, <2>3 DEF TypeOK
  <2> QED
    BY <1>1, <1>5, <1>6, <2>2, <2>4, <2>5, <2>6, <2>7, <2>8 DEF Dispatches
<1>8. ASSUME NEW j \in Job, Begin(j)
      PROVE  Dispatches'
  <2>1. /\ j = Head(pending) /\ Pool!Start /\ running' = running \cup {j}
        /\ pc' = [pc EXCEPT ![j] = "parse"] /\ UNCHANGED <<finished, discarded, reads, heap>>
    BY <1>8 DEF Begin, Pool!Start
  <2>2. /\ Once(pending')
        /\ Queued(j) /\ j \notin running \cup finished \cup discarded
        /\ \A k \in Job : Queued(k)' <=> Queued(k) /\ k # j
    BY <1>1, <2>1, HeadMoves
  <2>3. \A k \in Job : pc'[k] = IF k = j THEN "parse" ELSE pc[k]
    BY <1>1, <2>1 DEF TypeOK
  <2> QED
    BY <1>1, <1>5, <1>6, <2>1, <2>2, <2>3 DEF Dispatches
<1>9. ASSUME NEW j \in Job, HandlerStep(j)
      PROVE  Dispatches'
  <2>1. PICK to \in {"idle", "free", "del", "bev", "conn"} :
          /\ j \in running /\ pc' = [pc EXCEPT ![j] = to]
          /\ IF to = "idle" THEN Pool!Finish(j) ELSE UNCHANGED poolVars
    BY <1>9 DEF HandlerStep, Parse, FreeBuffer, Delete, FreeBev, FreeConn, Goto
  <2>2. UNCHANGED <<pending, discarded, reads>>
    BY <1>9, <2>1 DEF HandlerStep, Parse, FreeBuffer, Delete, FreeBev, FreeConn, Pool!Finish
  <2>3. /\ to = "idle" => running' = running \ {j} /\ finished' = finished \cup {j}
        /\ to # "idle" => running' = running /\ finished' = finished
    BY <2>1 DEF Pool!Finish
  <2>4. \A k \in Job : pc'[k] = IF k = j THEN to ELSE pc[k]
    BY <1>1, <2>1 DEF TypeOK
  <2>5. \A k \in Job : heap'[k] = "none" <=> heap[k] = "none"
    <3>1. CASE FreeBuffer(j)
      <4> DEFINE b == <<j[1], reads[j[1]]>>
      <4>1. b \in Job /\ b[1] = j[1] /\ b[2] = reads[j[1]]
        BY <1>1, <1>5, <2>1, JobParts DEF Dispatches, TypeOK
      <4>2. heap[b] # "none"
        BY <1>1, <4>1, JobParts DEF Dispatches
      <4>3. heap' = [heap EXCEPT ![b] = "freed"]
        BY <3>1 DEF FreeBuffer
      <4>4. heap \in [Job -> {"none", "live", "freed"}]
        BY <1>1 DEF TypeOK
      <4> HIDE DEF b
      <4> QED
        BY <4>1, <4>2, <4>3, <4>4
    <3>2. CASE Parse(j) \/ Delete(j) \/ FreeBev(j) \/ FreeConn(j)
      BY <3>2 DEF Parse, Delete, FreeBev, FreeConn
    <3> QED
      BY <1>9, <3>1, <3>2 DEF HandlerStep
  <2>6. \A k : Queued(k)' <=> Queued(k)
    BY <2>2 DEF Queued
  <2>7. Once(pending')
    BY <1>1, <2>2 DEF Dispatches
  <2> QED
    BY <1>1, <1>5, <1>6, <2>1, <2>2, <2>3, <2>4, <2>5, <2>6, <2>7 DEF Dispatches
<1>10. CASE PoolDiscard
  <2>1. /\ Pool!Discard /\ discarded' = discarded \cup {Head(pending)}
        /\ UNCHANGED <<running, finished, reads, heap, pc>>
    BY <1>10 DEF PoolDiscard, Pool!Discard
  <2>2. /\ Once(pending') /\ Head(pending) \in Job
        /\ Queued(Head(pending)) /\ Head(pending) \notin running \cup finished \cup discarded
        /\ \A k \in Job : Queued(k)' <=> Queued(k) /\ k # Head(pending)
    BY <1>1, <2>1, HeadMoves
  <2> QED
    BY <1>1, <1>5, <1>6, <2>1, <2>2 DEF Dispatches
<1> QED
  BY <1>2, <1>3, <1>4, <1>7, <1>8, <1>9, <1>10 DEF Next, MainStep

\* What the steps of a handler do to its label.
LEMMA HandlerGoes ==
  ASSUME IInv, NEW j \in Job, fault = "none", HandlerStep(j)
  PROVE  /\ j \in running /\ pc[j] \in {"parse", "free", "del", "bev", "conn"}
         /\ j[1] \in Conn /\ j[2] \in 1..MaxReads /\ j[2] <= reads[j[1]]
         /\ j[1] \in Conn => reads[j[1]] \in 1..MaxReads
         /\ \A k \in Job : k # j => pc'[k] = pc[k]
         /\ pc'[j] = CASE pc[j] = "parse" -> IF kind[j[1]] = "unknown" THEN "idle" ELSE "free"
                       [] pc[j] = "free" -> IF kind[j[1]] = "close" THEN "del" ELSE "idle"
                       [] pc[j] = "del" -> "bev"
                       [] pc[j] = "bev" -> "conn"
                       [] OTHER -> "idle"
         /\ \/ pc[j] = "parse" /\ Parse(j)
            \/ pc[j] = "free" /\ FreeBuffer(j)
            \/ pc[j] = "del" /\ Delete(j)
            \/ pc[j] = "bev" /\ FreeBev(j)
            \/ pc[j] = "conn" /\ FreeConn(j)
<1>1. TypeOK /\ Dispatches
  BY DEF IInv, Core
<1>2. j \in running
  BY DEF HandlerStep, Parse, FreeBuffer, Delete, FreeBev, FreeConn, Goto
<1>3. j[1] \in Conn /\ j[2] \in 1..MaxReads /\ j[2] <= reads[j[1]]
  BY <1>1, <1>2, JobParts DEF Dispatches, Pool!Submitted
<1>4. reads[j[1]] \in 1..MaxReads
  BY <1>1, <1>3 DEF TypeOK
<1>5. \/ pc[j] = "parse" /\ Parse(j)
      \/ pc[j] = "free" /\ FreeBuffer(j)
      \/ pc[j] = "del" /\ Delete(j)
      \/ pc[j] = "bev" /\ FreeBev(j)
      \/ pc[j] = "conn" /\ FreeConn(j)
  BY DEF HandlerStep, Parse, FreeBuffer, Delete, FreeBev, FreeConn, Goto
<1>6. PICK to : /\ pc' = [pc EXCEPT ![j] = to]
                /\ to = CASE pc[j] = "parse" -> IF kind[j[1]] = "unknown" THEN "idle" ELSE "free"
                          [] pc[j] = "free" -> IF kind[j[1]] = "close" THEN "del" ELSE "idle"
                          [] pc[j] = "del" -> "bev"
                          [] pc[j] = "bev" -> "conn"
                          [] OTHER -> "idle"
  BY <1>5 DEF Parse, FreeBuffer, Delete, FreeBev, FreeConn, Goto
<1> QED
  BY <1>1, <1>2, <1>3, <1>4, <1>5, <1>6 DEF TypeOK

\* A dispatch at a label of its handler was made, so the connection has a
\* bufferevent, and one that is attached.
LEMMA RunningConn ==
  ASSUME IInv, fault = "none", NEW j \in Job, Queued(j) \/ pc[j] # "idle"
  PROVE  /\ j[1] \in Conn /\ reads[j[1]] \in 1..MaxReads
         /\ bev[j[1]] # "none" /\ conn[j[1]] # "none" /\ Attached
<1>1. TypeOK /\ Dispatches /\ Connections
  BY DEF IInv, Core
<1>2. j[1] \in Conn /\ j[2] \in 1..MaxReads /\ j[2] <= reads[j[1]]
  BY <1>1, JobParts DEF Dispatches, Pool!Submitted, Pool!InQueue, Queued
<1>3. reads[j[1]] \in 1..MaxReads /\ reads[j[1]] > 0
  BY <1>1, <1>2 DEF TypeOK
<1> QED
  BY <1>1, <1>2, <1>3 DEF Connections

LEMMA ConnectionsKept ==
  ASSUME IInv, Next, fault' = "none"
  PROVE  Connections'
<1>1. TypeOK /\ Dispatches /\ Connections /\ Exclusive /\ fault = "none"
  BY DEF IInv, Core, Next
<1> DEFINE connectionVars == <<fd, conn, bev, watched, reads, table, unread>>
<1> USE DEF connVars, inputVars, threadVars, handlerVars, poolVars
<1>2. ASSUME UNCHANGED connectionVars,
             \A j \in Job : pc[j] = "bev" <=> pc'[j] = "bev"
      PROVE  Connections'
  BY <1>1, <1>2 DEF Connections
<1>3. ASSUME EndBreak \/ EndBase \/ EndPool \/ LoopStart \/ LoopExit \/ PoolDiscard
      PROVE  Connections'
  <2>1. UNCHANGED <<connectionVars, pc>>
    BY <1>3 DEF EndBreak, EndBase, EndPool, LoopStart, LoopExit, PoolDiscard
  <2> QED
    BY <1>2, <2>1
<1>4. ASSUME NEW c \in Conn, NEW f \in Fd, Accept(c, f)
      PROVE  Connections'
  <2>1. /\ conn[c] = "none" /\ UNCHANGED <<bev, watched, reads, table, unread, pc>>
        /\ conn' = [conn EXCEPT ![c] = "live"] /\ fd' = [fd EXCEPT ![c] = f]
    BY <1>4 DEF Accept
  <2> QED
    BY <1>1, <2>1 DEF Connections, TypeOK
<1>5. ASSUME NEW c \in Conn, NewBev(c)
      PROVE  Connections'
  <2>1. /\ conn[c] = "live" /\ bev[c] = "none"
        /\ bev' = [bev EXCEPT ![c] = "live"] /\ watched' = watched \cup {c}
        /\ table' = table \cup {c} /\ UNCHANGED <<fd, conn, reads, unread, pc>>
    BY <1>5 DEF NewBev, Adding
  <2>2. \A j \in Job : j[1] = c => pc[j] # "bev"
    BY <1>1, <2>1, RunningConn
  <2>3. \A d \in Conn : bev'[d] = IF d = c THEN "live" ELSE bev[d]
    BY <1>1, <2>1 DEF TypeOK
  <2> QED
    BY <1>1, <2>1, <2>2, <2>3 DEF Connections
<1>6. ASSUME NEW c \in Conn, Send(c)
      PROVE  Connections'
  BY <1>1, <1>6 DEF Connections, Send
<1>7. ASSUME NEW c \in Conn, ReadCallback(c)
      PROVE  Connections'
  <2>1. /\ c \in watched \cap unread /\ unread' = unread \ {c} /\ Attached
        /\ reads' = [reads EXCEPT ![c] = @ + 1] /\ UNCHANGED <<fd, conn, bev, watched, table, pc>>
    BY <1>7 DEF ReadCallback
  <2>2. \A d \in Conn : reads'[d] = IF d = c THEN reads[c] + 1 ELSE reads[d]
    BY <1>1, <2>1 DEF TypeOK
  <2> QED
    BY <1>1, <2>1, <2>2 DEF Connections, TypeOK
<1>8. ASSUME NEW c \in Conn, Eof(c)
      PROVE  Connections'
  BY <1>1, <1>8 DEF Connections, Eof
<1>9. ASSUME NEW c \in Conn, Finalize(c)
      PROVE  Connections'
  <2>1. /\ bev[c] = "freed" /\ bev' = [bev EXCEPT ![c] = "gone"]
        /\ UNCHANGED <<fd, conn, watched, reads, table, unread, pc>>
    BY <1>9 DEF Finalize
  <2> QED
    BY <1>1, <2>1 DEF Connections, TypeOK
<1>10. ASSUME NEW j \in Job, Begin(j)
       PROVE  Connections'
  <2>1. UNCHANGED connectionVars /\ pc' = [pc EXCEPT ![j] = "parse"] /\ j = Head(pending) /\ Pool!Start
    BY <1>10 DEF Begin
  <2>2. pc[j] = "idle"
    BY <1>1, <2>1, HeadMoves DEF Dispatches
  <2> QED
    BY <1>1, <1>2, <2>1, <2>2 DEF TypeOK
<1>11. ASSUME NEW j \in Job, HandlerStep(j)
       PROVE  Connections'
  <2> DEFINE c == j[1]
  <2>1. /\ j \in running /\ c \in Conn
        /\ \A k \in Job : k # j => pc'[k] = pc[k]
    BY <1>1, <1>11, HandlerGoes
  <2>2. CASE Parse(j) \/ FreeBuffer(j)
    <3>1. UNCHANGED connectionVars
      BY <2>2 DEF Parse, FreeBuffer
    <3>2. pc[j] # "bev" /\ pc'[j] # "bev"
      BY <1>1, <1>11, <2>2, HandlerGoes DEF Parse, FreeBuffer, Goto
    <3> QED
      BY <1>2, <2>1, <3>1, <3>2
  <2>3. CASE Delete(j)
    <3>1. /\ pc[j] = "del" /\ pc'[j] = "bev" /\ c \in table /\ table' = table \ {c}
          /\ UNCHANGED <<fd, conn, bev, watched, reads, unread>>
      BY <1>1, <2>3 DEF Delete, Goto, FreedIf, TypeOK
    <3> QED
      BY <1>1, <2>1, <3>1 DEF Connections
  <2>4. CASE FreeBev(j)
    <3>1. /\ pc[j] = "bev" /\ pc'[j] = "conn" /\ bev[c] = "live" /\ watched' = watched \ {c}
          /\ bev' = [bev EXCEPT ![c] = "freed"]
          /\ UNCHANGED <<fd, conn, table, reads, unread>>
      BY <1>1, <2>4 DEF FreeBev, Goto, FreedIf, TypeOK
    <3>2. Attached /\ c \notin table
      BY <1>1, <2>1, <3>1, RunningConn DEF Connections
    <3>3. \A d \in Conn : bev'[d] = IF d = c THEN "freed" ELSE bev[d]
      BY <1>1, <2>1, <3>1 DEF TypeOK
    <3>4. \A d \in Conn : d # c => \A k \in Job : k[1] = d => pc'[k] = pc[k]
      BY <2>1
    <3> QED
      BY <1>1, <2>1, <3>1, <3>2, <3>3, <3>4 DEF Connections
  <2>5. CASE FreeConn(j)
    <3>1. /\ pc[j] = "conn" /\ pc'[j] = "idle" /\ conn[c] # "freed"
          /\ conn' = [conn EXCEPT ![c] = "freed"]
          /\ UNCHANGED <<fd, bev, table, watched, reads, unread>>
      BY <1>1, <2>5 DEF FreeConn, Goto, FreedIf, TypeOK
    <3>2. bev[c] \in {"freed", "gone"} /\ conn[c] = "live"
      BY <1>1, <2>1, <3>1 DEF Exclusive
    <3>3. \A d \in Conn : conn'[d] = IF d = c THEN "freed" ELSE conn[d]
      BY <1>1, <2>1, <3>1 DEF TypeOK
    <3>4. \A k \in Job : pc'[k] = "bev" <=> pc[k] = "bev"
      BY <2>1, <3>1
    <3> QED
      BY <1>1, <2>1, <3>1, <3>2, <3>3, <3>4 DEF Connections
  <2> QED
    BY <1>11, <2>2, <2>3, <2>4, <2>5 DEF HandlerStep
<1> QED
  BY <1>3, <1>4, <1>5, <1>6, <1>7, <1>8, <1>9, <1>10, <1>11 DEF Next, MainStep

\* A dispatch that a worker takes was queued, at no label.
LEMMA BeginMoves ==
  ASSUME IInv, fault = "none", NEW j \in Job, Begin(j)
  PROVE  /\ Queued(j) /\ j \notin running \cup finished \cup discarded /\ pc[j] = "idle"
         /\ running' = running \cup {j}
         /\ \A k \in Job : Queued(k)' <=> Queued(k) /\ k # j
         /\ \A k \in Job : pc'[k] = IF k = j THEN "parse" ELSE pc[k]
<1>1. TypeOK /\ Dispatches
  BY DEF IInv, Core
<1>2. j = Head(pending) /\ Pool!Start /\ pc' = [pc EXCEPT ![j] = "parse"]
  BY DEF Begin
<1>3. Queued(j) /\ j \notin running \cup finished \cup discarded
      /\ \A k \in Job : Queued(k)' <=> Queued(k) /\ k # j
  BY <1>1, <1>2, HeadMoves
<1>4. pc[j] = "idle"
  BY <1>1, <1>3 DEF Dispatches
<1>5. \A k \in Job : pc'[k] = IF k = j THEN "parse" ELSE pc[k]
  BY <1>1, <1>2 DEF TypeOK
<1> QED
  BY <1>2, <1>3, <1>4, <1>5 DEF Pool!Start

LEMMA ExclusiveKept ==
  ASSUME IInv, Next, fault' = "none"
  PROVE  Exclusive'
<1>1. TypeOK /\ Dispatches /\ Connections /\ Exclusive /\ fault = "none"
  BY DEF IInv, Core, Next
<1> USE DEF connVars, inputVars, threadVars, handlerVars, poolVars
<1>2. ASSUME UNCHANGED <<running, pc, conn, bev, kind>>
      PROVE  Exclusive'
  BY <1>1, <1>2 DEF Exclusive, Adding, Deleting
<1>3. ASSUME EndBreak \/ EndBase \/ EndPool \/ LoopStart \/ LoopExit \/ PoolDiscard
      PROVE  Exclusive'
  BY <1>2, <1>3 DEF EndBreak, EndBase, EndPool, LoopStart, LoopExit, PoolDiscard, Pool!Stop,
                    Pool!Discard
<1>4. ASSUME NEW c \in Conn, Send(c) \/ ReadCallback(c) \/ Eof(c)
      PROVE  Exclusive'
  BY <1>2, <1>4 DEF Send, ReadCallback, Eof, Pool!Submit
<1>5. ASSUME NEW c \in Conn, NEW f \in Fd, Accept(c, f)
      PROVE  Exclusive'
  <2>1. /\ conn[c] = "none" /\ Adding = {} /\ Deleting = {}
        /\ conn' = [conn EXCEPT ![c] = "live"] /\ UNCHANGED <<running, pc, bev, kind>>
    BY <1>5 DEF Accept
  <2>2. \A d \in Conn : conn'[d] = IF d = c THEN "live" ELSE conn[d]
    BY <1>1, <2>1 DEF TypeOK
  <2>3. \A j \in running : j \in Job /\ j[1] \in Conn /\ pc[j] # "idle" /\ j[1] # c
    BY <1>1, <2>1, RunningConn, JobParts DEF Dispatches, TypeOK
  <2>4. Adding' \subseteq {c} /\ Deleting' = {}
    BY <1>1, <2>1, <2>2 DEF Adding, Deleting
  <2> QED
    BY <1>1, <2>1, <2>2, <2>3, <2>4 DEF Exclusive
<1>6. ASSUME NEW c \in Conn, NewBev(c) \/ Finalize(c)
      PROVE  Exclusive'
  <2>1. UNCHANGED <<running, pc, conn, kind>>
    BY <1>6 DEF NewBev, Finalize
  <2>2. /\ bev[c] \in {"none", "freed"}
        /\ \A d \in Conn : d # c => bev'[d] = bev[d]
        /\ bev[c] = "none" => bev'[c] = "live"
        /\ bev[c] = "freed" => bev'[c] = "gone"
    BY <1>1, <1>6 DEF NewBev, Finalize, Adding, TypeOK
  <2>3. Adding' \subseteq Adding /\ Deleting' = Deleting
    BY <2>1, <2>2 DEF Adding, Deleting
  <2>4. \A j \in running : j \in Job /\ j[1] \in Conn /\ bev[j[1]] # "none"
    BY <1>1, RunningConn, JobParts DEF Dispatches, TypeOK
  <2> QED
    BY <1>1, <2>1, <2>2, <2>3, <2>4 DEF Exclusive
<1>7. ASSUME NEW j \in Job, Begin(j)
      PROVE  Exclusive'
  <2>1. /\ running' = running \cup {j} /\ pc[j] = "idle" /\ UNCHANGED <<conn, bev, kind>>
        /\ \A k \in Job : pc'[k] = IF k = j THEN "parse" ELSE pc[k]
    BY <1>1, <1>7, BeginMoves DEF Begin
  <2>2. Adding' = Adding /\ Deleting' = Deleting /\ running \subseteq Job
    BY <1>1, <2>1 DEF Adding, Deleting, Dispatches, TypeOK
  <2> QED
    BY <1>1, <2>1, <2>2 DEF Exclusive
<1>8. ASSUME NEW j \in Job, HandlerStep(j)
      PROVE  Exclusive'
  <2> DEFINE c == j[1]
  <2>1. /\ j \in running /\ c \in Conn
        /\ \A k \in Job : k # j => pc'[k] = pc[k]
        /\ running' \subseteq running /\ running \subseteq Job /\ UNCHANGED kind
        /\ pc'[j] = CASE pc[j] = "parse" -> IF kind[j[1]] = "unknown" THEN "idle" ELSE "free"
                       [] pc[j] = "free" -> IF kind[j[1]] = "close" THEN "del" ELSE "idle"
                       [] pc[j] = "del" -> "bev"
                       [] pc[j] = "bev" -> "conn"
                       [] OTHER -> "idle"
    <3>1. running' \subseteq running /\ UNCHANGED kind
      BY <1>8 DEF HandlerStep, Parse, FreeBuffer, Delete, FreeBev, FreeConn, Goto, Pool!Finish
    <3> QED
      BY <1>1, <1>8, <3>1, HandlerGoes DEF TypeOK
  <2>2. CASE Parse(j)
    <3>1. UNCHANGED <<conn, bev>> /\ pc[j] = "parse"
      BY <2>2 DEF Parse, Goto
    <3>2. Adding' = Adding /\ Deleting' \subseteq Deleting
      BY <2>1, <3>1 DEF Adding, Deleting
    <3> QED
      BY <1>1, <2>1, <3>1, <3>2 DEF Exclusive
  <2>3. CASE FreeBuffer(j)
    <3>1. UNCHANGED <<conn, bev>> /\ pc[j] = "free"
          /\ (kind[c] = "close" => Adding = {} /\ Deleting = {})
      BY <2>3 DEF FreeBuffer, Goto
    <3>2. Adding' = Adding /\ Deleting' \subseteq Deleting \cup {j}
          /\ (kind[c] # "close" => Deleting' \subseteq Deleting)
      BY <2>1, <3>1 DEF Adding, Deleting
    <3> QED
      BY <1>1, <2>1, <3>1, <3>2 DEF Exclusive
  <2>4. CASE Delete(j)
    <3>1. UNCHANGED <<conn, bev>> /\ pc[j] = "del" /\ c \in table
      BY <1>1, <2>4 DEF Delete, Goto, FreedIf
    <3>2. Adding' = Adding /\ Deleting' \subseteq Deleting
      BY <2>1, <3>1 DEF Adding, Deleting
    <3>3. bev[c] = "live" /\ \A k \in Job : k[1] = c => pc[k] # "bev"
      BY <1>1, <2>1, <3>1 DEF Connections
    <3>4. \A k \in running : k[1] = c => pc[k] \notin {"bev", "conn"}
      BY <1>1, <2>1, <3>3 DEF Exclusive
    <3> QED
      BY <1>1, <2>1, <3>1, <3>2, <3>3, <3>4 DEF Exclusive
  <2>5. CASE FreeBev(j)
    <3>1. /\ UNCHANGED conn /\ pc[j] = "bev" /\ bev[c] = "live"
          /\ \A d \in Conn : bev'[d] = IF d = c THEN "freed" ELSE bev[d]
      BY <1>1, <2>1, <2>5 DEF FreeBev, Goto, FreedIf, TypeOK
    <3>2. Adding' \subseteq Adding /\ Deleting' \subseteq Deleting
      BY <2>1, <3>1 DEF Adding, Deleting
    <3>3. conn[c] = "live" /\ \A k \in running : k # j => k[1] # c \/ pc[k] \notin {"bev", "conn"}
      BY <1>1, <2>1, <3>1 DEF Exclusive, Connections
    <3>4. \A k \in running : k[1] \in Conn
      BY <2>1, JobParts
    <3> QED
      BY <1>1, <2>1, <3>1, <3>2, <3>3, <3>4 DEF Exclusive
  <2>6. CASE FreeConn(j)
    <3>1. /\ UNCHANGED bev /\ pc[j] = "conn"
          /\ \A d \in Conn : conn'[d] = IF d = c THEN "freed" ELSE conn[d]
      BY <1>1, <2>1, <2>6 DEF FreeConn, Goto, FreedIf, TypeOK
    <3>2. Adding' \subseteq Adding /\ Deleting' \subseteq Deleting
      BY <2>1, <3>1 DEF Adding, Deleting
    <3>3. \A k \in running : k # j => k[1] # c \/ pc[k] \notin {"bev", "conn"}
      BY <1>1, <2>1, <3>1 DEF Exclusive
    <3>4. \A k \in running : k[1] \in Conn
      BY <2>1, JobParts
    <3> QED
      BY <1>1, <2>1, <3>1, <3>2, <3>3, <3>4 DEF Exclusive
  <2> QED
    BY <1>8, <2>2, <2>3, <2>4, <2>5, <2>6 DEF HandlerStep
<1> QED
  BY <1>3, <1>4, <1>5, <1>6, <1>7, <1>8 DEF Next, MainStep

LEMMA UndisturbedKept ==
  ASSUME IInv, Next, fault' = "none"
  PROVE  Undisturbed'
<1>1. TypeOK /\ Dispatches /\ Connections /\ Exclusive /\ Undisturbed /\ fault = "none"
  BY DEF IInv, Core, Next
<1> USE DEF connVars, inputVars, threadVars, handlerVars, poolVars
<1>2. ASSUME UNCHANGED <<reads, seen, overlapped, pc>>, table \subseteq table', running' \subseteq running,
             \A j \in Job : Queued(j)' => Queued(j)
      PROVE  Undisturbed'
  BY <1>1, <1>2 DEF Undisturbed, Outstanding
<1>3. ASSUME EndBreak \/ EndBase \/ EndPool \/ LoopStart \/ LoopExit
      PROVE  Undisturbed'
  BY <1>2, <1>3 DEF EndBreak, EndBase, EndPool, LoopStart, LoopExit, Pool!Stop, Queued
<1>4. ASSUME NEW c \in Conn,
             NewBev(c) \/ Send(c) \/ Eof(c) \/ Finalize(c) \/ \E f \in Fd : Accept(c, f)
      PROVE  Undisturbed'
  BY <1>2, <1>4 DEF NewBev, Send, Eof, Finalize, Accept, Queued
<1>5. CASE PoolDiscard
  BY <1>1, <1>2, <1>5, HeadMoves DEF PoolDiscard, Pool!Discard
<1>6. ASSUME NEW c \in Conn, ReadCallback(c)
      PROVE  Undisturbed'
  <2>1. /\ c \in watched /\ reads[c] + 1 \in 1..MaxReads /\ reads' = [reads EXCEPT ![c] = reads[c] + 1]
        /\ overlapped' = overlapped \cup {d \in {c} : \E j \in Job : j[1] = d /\ Outstanding(j)}
        /\ UNCHANGED <<seen, table, pc>>
    <3>1. /\ c \in watched \cap unread /\ reads' = [reads EXCEPT ![c] = reads[c] + 1]
          /\ overlapped' = overlapped \cup {d \in {c} : \E j \in Job : j[1] = d /\ Outstanding(j)}
          /\ UNCHANGED <<seen, table, pc>>
      BY <1>6 DEF ReadCallback
    <3> QED
      BY <1>1, <3>1, HttpAssumption DEF Connections, TypeOK
  <2> DEFINE b == <<c, reads[c] + 1>>
  <2>2. b \in Job /\ reads'[c] = reads[c] + 1 /\ b[1] = c /\ b[2] = reads'[c]
    BY <1>1, <2>1, JobParts DEF TypeOK
  <2> HIDE DEF b
  <2>3. Pool!Submit(b)
    BY <1>6, <2>2 DEF ReadCallback, b
  <2>4. /\ \A k \in Job : Queued(k)' <=> Queued(k) \/ k = b
        /\ b \notin running /\ running' = running
    BY <1>1, <2>2, <2>3, SubmitMoves DEF Pool!Submit
  <2>5. \A k \in Job : k[1] # c => reads'[k[1]] = reads[k[1]]
    BY <1>1, <2>1, JobParts DEF TypeOK
  <2> SUFFICES ASSUME NEW j \in Job, j[1] \notin overlapped', Outstanding(j)'
               PROVE  /\ j[2] = reads'[j[1]]
                      /\ j \in running' => seen'[j] = j[2]
                      /\ pc'[j] \notin {"bev", "conn"} => j[1] \in table'
    BY DEF Undisturbed
  <2>6. CASE j[1] = c
    <3>1. \A k \in Job : k[1] = c => ~Outstanding(k)
      BY <2>1, <2>6
    <3>2. j = b
      BY <2>4, <2>6, <3>1 DEF Outstanding
    <3>3. \A k \in Job : k[1] = c => pc[k] # "bev"
      BY <1>1, <3>1 DEF Dispatches, Outstanding
    <3>4. c \in table
      BY <1>1, <2>1, <3>3 DEF Connections
    <3> QED
      BY <2>1, <2>2, <2>4, <3>2, <3>4
  <2>7. CASE j[1] # c
    <3>1. Outstanding(j) /\ j[1] \notin overlapped
      BY <2>1, <2>2, <2>4, <2>7 DEF Outstanding
    <3> QED
      BY <1>1, <2>1, <2>4, <2>5, <2>7, <3>1 DEF Undisturbed
  <2> QED
    BY <2>6, <2>7
<1>7. ASSUME NEW j \in Job, Begin(j)
      PROVE  Undisturbed'
  <2>1. /\ Queued(j) /\ pc[j] = "idle" /\ running' = running \cup {j}
        /\ \A k \in Job : Queued(k)' <=> Queued(k) /\ k # j
        /\ \A k \in Job : pc'[k] = IF k = j THEN "parse" ELSE pc[k]
        /\ UNCHANGED <<reads, overlapped, table>>
    BY <1>1, <1>7, BeginMoves DEF Begin
  <2>2. \A k \in Job : seen'[k] = IF k = j THEN reads[j[1]] ELSE seen[k]
    BY <1>1, <1>7 DEF Begin, TypeOK
  <2> QED
    BY <1>1, <2>1, <2>2 DEF Undisturbed, Outstanding
<1>8. ASSUME NEW j \in Job, HandlerStep(j)
      PROVE  Undisturbed'
  <2> DEFINE c == j[1]
  <2>1. /\ j \in running /\ c \in Conn
        /\ \A k \in Job : k # j => pc'[k] = pc[k]
        /\ running' \subseteq running /\ UNCHANGED <<pending, reads, seen, overlapped>>
        /\ \A k \in Job : Outstanding(k)' => Outstanding(k)
    <3>1. running' \subseteq running /\ UNCHANGED <<pending, reads, seen, overlapped>>
      BY <1>8 DEF HandlerStep, Parse, FreeBuffer, Delete, FreeBev, FreeConn, Goto, Pool!Finish
    <3> QED
      BY <1>1, <1>8, <3>1, HandlerGoes DEF Outstanding, Queued
  <2>2. CASE ~Delete(j)
    <3>1. UNCHANGED table /\ pc[j] # "del"
      BY <1>1, <1>8, <2>2, HandlerGoes DEF HandlerStep, Parse, FreeBuffer, FreeBev, FreeConn
    <3>2. pc[j] \in {"bev", "conn"} => pc'[j] \in {"conn", "idle"}
      BY <1>1, <1>8, HandlerGoes
    <3>3. pc[j] = "conn" => running' = running \ {j} /\ ~Queued(j)'
      <4>1. pc[j] = "conn" => Pool!Finish(j)
        BY <1>1, <1>8, HandlerGoes DEF FreeConn, Goto
      <4>2. ~Queued(j)
        BY <1>1, <2>1 DEF Dispatches
      <4> QED
        BY <2>1, <4>1, <4>2 DEF Pool!Finish, Queued
    <3>4. pc[j] = "bev" => pc'[j] = "conn"
      BY <1>1, <1>8, HandlerGoes
    <3>5. ~Outstanding(j)' \/ pc'[j] \in {"bev", "conn"} \/ pc[j] \notin {"bev", "conn"}
      BY <3>2, <3>3, <3>4 DEF Outstanding
    <3> QED
      BY <1>1, <2>1, <3>1, <3>5 DEF Undisturbed
  <2>3. CASE Delete(j)
    <3>1. table' = table \ {c} /\ pc'[j] = "bev"
      BY <1>1, <2>3 DEF Delete, Goto, TypeOK
    <3>2. \A k \in Job : k[1] = c /\ c \notin overlapped /\ Outstanding(k) => k = j
      <4>1. c \notin overlapped => j[2] = reads[c]
        BY <1>1, <2>1 DEF Undisturbed, Outstanding, Dispatches, TypeOK
      <4> QED
        BY <1>1, <2>1, <4>1, JobParts DEF Undisturbed, TypeOK
    <3>3. j \in Job /\ \A k \in Job : k[1] # c => (k[1] \in table' <=> k[1] \in table)
      BY <1>1, <2>1, <3>1 DEF TypeOK
    <3> QED
      BY <1>1, <2>1, <3>1, <3>2, <3>3 DEF Undisturbed
  <2> QED
    BY <2>2, <2>3
<1> QED
  BY <1>3, <1>4, <1>5, <1>6, <1>7, <1>8 DEF Next, MainStep

LEMMA BufferAccountKept ==
  ASSUME IInv, Next, fault' = "none"
  PROVE  BufferAccount'
<1>1. /\ TypeOK /\ Dispatches /\ Connections /\ Exclusive /\ Undisturbed /\ fault = "none"
      /\ BufferAccount
  BY DEF IInv, Core, Next
<1> USE DEF connVars, inputVars, threadVars, handlerVars, poolVars
<1> DEFINE Kept(j) == \/ Queued(j) \/ j \in discarded
                      \/ j \in running /\ pc[j] \in {"parse", "free"}
                      \/ j \in finished /\ kind[j[1]] = "unknown"
<1>2. \A j \in Job : j[1] \notin overlapped => (heap[j] = "live" <=> Kept(j))
  BY <1>1 DEF BufferAccount
<1>3. ASSUME \A j \in Job : j[1] \notin overlapped' =>
               j[1] \notin overlapped /\ (heap'[j] = "live" <=> heap[j] = "live") /\ (Kept(j)' <=> Kept(j))
      PROVE  BufferAccount'
  BY <1>2, <1>3 DEF BufferAccount
<1>4. ASSUME UNCHANGED <<heap, overlapped, kind, pending, discarded, running, finished, pc>>
      PROVE  BufferAccount'
  BY <1>3, <1>4 DEF Queued
<1>5. ASSUME EndBreak \/ EndBase \/ EndPool \/ LoopStart \/ LoopExit
      PROVE  BufferAccount'
  BY <1>4, <1>5 DEF EndBreak, EndBase, EndPool, LoopStart, LoopExit, Pool!Stop
<1>6. ASSUME NEW c \in Conn,
             NewBev(c) \/ Send(c) \/ Eof(c) \/ Finalize(c) \/ \E f \in Fd : Accept(c, f)
      PROVE  BufferAccount'
  BY <1>4, <1>6 DEF NewBev, Send, Eof, Finalize, Accept
<1>7. CASE PoolDiscard
  <2>1. /\ UNCHANGED <<heap, overlapped, kind, running, finished, pc>>
        /\ discarded' = discarded \cup {Head(pending)} /\ Queued(Head(pending))
        /\ \A k \in Job : Queued(k)' <=> Queued(k) /\ k # Head(pending)
    BY <1>1, <1>7, HeadMoves DEF PoolDiscard, Pool!Discard
  <2> QED
    BY <1>3, <2>1
<1>8. ASSUME NEW c \in Conn, ReadCallback(c)
      PROVE  BufferAccount'
  <2>1. /\ c \in watched \cap unread /\ reads' = [reads EXCEPT ![c] = reads[c] + 1]
        /\ UNCHANGED <<kind, running, finished, discarded, pc>>
        /\ overlapped' = overlapped \cup {d \in {c} : \E j \in Job : j[1] = d /\ Outstanding(j)}
    BY <1>8 DEF ReadCallback, Pool!Submit
  <2> DEFINE b == <<c, reads[c] + 1>>
  <2>2. b \in Job /\ reads'[c] = reads[c] + 1
    <3>1. reads[c] + 1 \in 1..MaxReads
      BY <1>1, <2>1, HttpAssumption DEF TypeOK, Connections
    <3> QED
      BY <1>1, <2>1, <3>1, JobParts DEF TypeOK
  <2> HIDE DEF b
  <2>3. Pool!Submit(b) /\ heap' = [heap EXCEPT ![b] = "live"]
    BY <1>8, <2>2 DEF ReadCallback, b
  <2>4. /\ \A k \in Job : Queued(k)' <=> Queued(k) \/ k = b
        /\ \A k \in Job : heap'[k] = IF k = b THEN "live" ELSE heap[k]
    BY <1>1, <2>2, <2>3, SubmitMoves DEF TypeOK
  <2> QED
    BY <1>1, <1>2, <2>1, <2>4 DEF BufferAccount
<1>9. ASSUME NEW j \in Job, Begin(j)
      PROVE  BufferAccount'
  <2>1. /\ Queued(j) /\ pc[j] = "idle" /\ running' = running \cup {j}
        /\ j \notin running \cup finished \cup discarded
        /\ \A k \in Job : Queued(k)' <=> Queued(k) /\ k # j
        /\ \A k \in Job : pc'[k] = IF k = j THEN "parse" ELSE pc[k]
        /\ UNCHANGED <<heap, overlapped, kind, finished, discarded>>
    BY <1>1, <1>9, BeginMoves DEF Begin, Pool!Start
  <2> QED
    BY <1>3, <2>1
<1>10. ASSUME NEW j \in Job, HandlerStep(j)
       PROVE  BufferAccount'
  <2> DEFINE c == j[1]
  <2>1. /\ j \in running /\ c \in Conn /\ pc[j] \in {"parse", "free", "del", "bev", "conn"}
        /\ \A k \in Job : k # j => pc'[k] = pc[k]
        /\ pc'[j] = CASE pc[j] = "parse" -> IF kind[j[1]] = "unknown" THEN "idle" ELSE "free"
                       [] pc[j] = "free" -> IF kind[j[1]] = "close" THEN "del" ELSE "idle"
                       [] pc[j] = "del" -> "bev"
                       [] pc[j] = "bev" -> "conn"
                       [] OTHER -> "idle"
        /\ FreeBuffer(j) <=> pc[j] = "free"
    BY <1>1, <1>10, HandlerGoes DEF FreeBuffer, Goto
  <2>2. UNCHANGED <<overlapped, kind, reads, pending, discarded>>
    BY <1>10 DEF HandlerStep, Parse, FreeBuffer, Delete, FreeBev, FreeConn, Goto, Pool!Finish
  <2>3. /\ pc'[j] = "idle" => running' = running \ {j} /\ finished' = finished \cup {j}
        /\ pc'[j] # "idle" => running' = running /\ finished' = finished
    <3>1. PICK to : /\ pc' = [pc EXCEPT ![j] = to]
                    /\ IF to = "idle" THEN Pool!Finish(j) ELSE UNCHANGED poolVars
      BY <1>10 DEF HandlerStep, Parse, FreeBuffer, Delete, FreeBev, FreeConn, Goto
    <3>2. pc'[j] = to
      BY <1>1, <3>1 DEF TypeOK
    <3> QED
      BY <3>1, <3>2 DEF Pool!Finish
  <2>4. \A k \in Job : Queued(k)' <=> Queued(k)
    BY <2>2 DEF Queued
  <2>5. CASE FreeBuffer(j)
    <3> DEFINE b == <<c, reads[c]>>
    <3>1. heap' = [heap EXCEPT ![b] = "freed"]
      BY <2>5 DEF FreeBuffer
    <3>2. b \in Job /\ b[1] = c /\ (c \notin overlapped => b = j)
      <4>1. reads[c] \in 1..MaxReads
        BY <1>1, <1>10, HandlerGoes
      <4>2. c \notin overlapped => j[2] = reads[c]
        BY <1>1, <2>1 DEF Undisturbed, Outstanding, TypeOK
      <4> QED
        BY <1>1, <2>1, <4>1, <4>2, JobParts DEF TypeOK
    <3>3. \A k \in Job : heap'[k] = IF k = b THEN "freed" ELSE heap[k]
      BY <1>1, <3>1 DEF TypeOK
    <3>4. ~Kept(j)'
      <4>1. pc[j] = "free" /\ kind[c] # "unknown"
        BY <1>1, <2>1, <2>5 DEF Exclusive
      <4>2. pc'[j] \in {"idle", "del"} /\ j \notin discarded /\ ~Queued(j)
        BY <1>1, <2>1, <4>1 DEF Dispatches, TypeOK
      <4> QED
        BY <2>1, <2>2, <2>3, <2>4, <4>1, <4>2
    <3>5. ASSUME NEW k \in Job, k[1] \notin overlapped
          PROVE  heap'[k] = "live" <=> Kept(k)'
      <4>1. CASE k = j
        BY <3>2, <3>3, <3>4, <3>5, <4>1
      <4>2. CASE k # j
        <5>1. k # b
          BY <3>2, <3>5, <4>2
        <5>2. Kept(k)' <=> Kept(k)
          BY <2>1, <2>2, <2>3, <2>4, <4>2
        <5> QED
          BY <1>2, <3>3, <3>5, <5>1, <5>2
      <4> QED
        BY <4>1, <4>2
    <3> QED
      BY <2>2, <3>5 DEF BufferAccount
  <2>6. CASE ~FreeBuffer(j)
    <3>1. UNCHANGED heap
      BY <1>10, <2>6 DEF HandlerStep, Parse, Delete, FreeBev, FreeConn
    <3>2. Kept(j)' <=> Kept(j)
      <4>1. j \in Job /\ ~Queued(j) /\ j \notin finished \cup discarded
        BY <1>1, <2>1 DEF Dispatches, TypeOK
      <4>2. pc[j] \in {"del", "bev", "conn"} => kind[c] = "close"
        BY <1>1, <2>1 DEF Exclusive
      <4> QED
        BY <2>1, <2>2, <2>3, <2>4, <2>6, <4>1, <4>2
    <3>3. \A k \in Job : k # j => (Kept(k)' <=> Kept(k))
      BY <2>1, <2>2, <2>3, <2>4
    <3> QED
      BY <1>3, <2>2, <3>1, <3>2, <3>3
  <2> QED
    BY <2>5, <2>6
<1> QED
  BY <1>5, <1>6, <1>7, <1>8, <1>9, <1>10 DEF Next, MainStep

LEMMA DescriptorsKept ==
  ASSUME IInv, Next, fault' = "none"
  PROVE  DescriptorsOwned'
<1>1. TypeOK /\ Connections /\ fault = "none" /\ DescriptorsOwned
  BY DEF IInv, Core, Next
<1> USE DEF connVars, inputVars, threadVars, handlerVars, poolVars
<1> DEFINE Owner == {c \in Conn : conn[c] # "none" /\ bev[c] # "gone"}
<1>2. /\ open = {fd[c] : c \in Owner}
      /\ \A c, d \in Owner : fd[c] = fd[d] => c = d
  BY <1>1 DEF DescriptorsOwned
<1>3. ASSUME open' = {fd'[c] : c \in Owner'},
             \A c, d \in Owner' : fd'[c] = fd'[d] => c = d
      PROVE  DescriptorsOwned'
  BY <1>3 DEF DescriptorsOwned
<1>4. ASSUME UNCHANGED <<open, fd>>, Owner' = Owner
      PROVE  DescriptorsOwned'
  <2> HIDE DEF Owner
  <2> QED
    BY <1>2, <1>3, <1>4
<1>5. ASSUME EndBreak \/ EndBase \/ EndPool \/ LoopStart \/ LoopExit \/ PoolDiscard
      PROVE  DescriptorsOwned'
  BY <1>4, <1>5 DEF EndBreak, EndBase, EndPool, LoopStart, LoopExit, PoolDiscard
<1>6. ASSUME NEW c \in Conn, Send(c) \/ ReadCallback(c) \/ Eof(c)
      PROVE  DescriptorsOwned'
  BY <1>4, <1>6 DEF Send, ReadCallback, Eof
<1>7. ASSUME NEW j \in Job, Begin(j)
      PROVE  DescriptorsOwned'
  BY <1>4, <1>7 DEF Begin
<1>8. ASSUME NEW c \in Conn, NEW f \in Fd, Accept(c, f)
      PROVE  DescriptorsOwned'
  <2>1. /\ conn[c] = "none" /\ f \notin open /\ open' = open \cup {f} /\ UNCHANGED bev
        /\ \A d \in Conn : conn'[d] = IF d = c THEN "live" ELSE conn[d]
        /\ \A d \in Conn : fd'[d] = IF d = c THEN f ELSE fd[d]
    BY <1>1, <1>8 DEF Accept, TypeOK
  <2>2. Owner' = Owner \cup {c} /\ c \notin Owner
    BY <1>1, <2>1 DEF Connections
  <2>3. /\ \A d \in Owner : fd'[d] = fd[d] /\ fd[d] \in open
        /\ fd'[c] = f
    BY <1>2, <2>1, <2>2
  <2> HIDE DEF Owner
  <2>4. \A d, e \in Owner' : fd'[d] = fd'[e] => d = e
    BY <1>2, <2>1, <2>2, <2>3
  <2>5. open' = {fd'[d] : d \in Owner'}
    BY <1>2, <2>1, <2>2, <2>3
  <2> QED
    BY <1>3, <2>4, <2>5
<1>9. ASSUME NEW c \in Conn, NewBev(c)
      PROVE  DescriptorsOwned'
  <2>1. /\ bev[c] = "none" /\ UNCHANGED <<open, fd, conn>>
        /\ \A d \in Conn : bev'[d] = IF d = c THEN "live" ELSE bev[d]
    BY <1>1, <1>9 DEF NewBev, Adding, TypeOK
  <2> QED
    BY <1>4, <2>1
<1>10. ASSUME NEW c \in Conn, Finalize(c)
       PROVE  DescriptorsOwned'
  <2>1. /\ bev[c] = "freed" /\ UNCHANGED <<fd, conn>>
        /\ \A d \in Conn : bev'[d] = IF d = c THEN "gone" ELSE bev[d]
        /\ open' = open \ {fd[c]} /\ conn[c] # "none"
    BY <1>1, <1>10 DEF Finalize, Connections, TypeOK
  <2>2. Owner' = Owner \ {c} /\ c \in Owner
    BY <2>1
  <2> HIDE DEF Owner
  <2>3. \A d, e \in Owner' : fd'[d] = fd'[e] => d = e
    BY <1>2, <2>1, <2>2
  <2>4. open' = {fd'[d] : d \in Owner'}
    BY <1>2, <2>1, <2>2
  <2> QED
    BY <1>3, <2>3, <2>4
<1>11. ASSUME NEW j \in Job, HandlerStep(j)
       PROVE  DescriptorsOwned'
  <2> DEFINE c == j[1]
  <2>1. c \in Conn /\ conn[c] # "none"
    BY <1>1, <1>11, HandlerGoes, RunningConn
  <2>2. CASE Parse(j) \/ FreeBuffer(j) \/ Delete(j)
    BY <1>4, <2>2 DEF Parse, FreeBuffer, Delete
  <2>3. CASE FreeBev(j)
    <3>1. /\ bev[c] = "live" /\ UNCHANGED <<open, fd, conn>>
          /\ \A d \in Conn : bev'[d] = IF d = c THEN "freed" ELSE bev[d]
      BY <1>1, <2>1, <2>3 DEF FreeBev, FreedIf, TypeOK
    <3> QED
      BY <1>4, <2>1, <3>1
  <2>4. CASE FreeConn(j)
    <3>1. /\ UNCHANGED <<open, fd, bev>>
          /\ \A d \in Conn : conn'[d] = IF d = c THEN "freed" ELSE conn[d]
      BY <1>1, <2>1, <2>4 DEF FreeConn, TypeOK
    <3> QED
      BY <1>4, <2>1, <3>1
  <2> QED
    BY <1>11, <2>2, <2>3, <2>4 DEF HandlerStep
<1> QED
  BY <1>5, <1>6, <1>7, <1>8, <1>9, <1>10, <1>11 DEF Next, MainStep

\* Only a handler meets memory that is gone: its connection has had another
\* dispatch meanwhile, or http_end has freed the base.
LEMMA FaultsKnown ==
  ASSUME IInv, Next
  PROVE  OnlyKnownFaults'
<1>1. TypeOK /\ Core /\ fault = "none"
  BY DEF IInv, Next
<1>2. Dispatches /\ Connections /\ Exclusive /\ Undisturbed /\ BufferAccount
  BY <1>1 DEF Core
<1> USE DEF connVars, inputVars, threadVars, handlerVars, poolVars
<1>3. ASSUME fault' # "memory" PROVE OnlyKnownFaults'
  BY <1>3 DEF OnlyKnownFaults
<1>4. ASSUME NEW c \in Conn,
             NewBev(c) \/ Send(c) \/ Eof(c) \/ Finalize(c) \/ \E f \in Fd : Accept(c, f)
      PROVE  fault' # "memory"
  BY <1>1, <1>4 DEF NewBev, Send, Eof, Finalize, Accept
<1>5. ASSUME EndBreak \/ EndBase \/ EndPool \/ LoopStart \/ LoopExit \/ PoolDiscard
      PROVE  fault' # "memory"
  BY <1>1, <1>5 DEF EndBreak, EndBase, EndPool, LoopStart, LoopExit, PoolDiscard
<1>6. ASSUME NEW c \in Conn, ReadCallback(c)
      PROVE  fault' # "memory"
  <2>1. conn[c] # "freed"
    BY <1>2, <1>6 DEF ReadCallback, Connections
  <2> QED
    BY <1>6, <2>1 DEF ReadCallback, FreedIf
<1>7. ASSUME NEW j \in Job, Outstanding(j), j[1] \notin overlapped, pc[j] \notin {"bev", "conn"}
      PROVE  conn[j[1]] = "live" /\ bev[j[1]] = "live"
  BY <1>2, <1>7, JobParts DEF Undisturbed, Connections
<1>8. ASSUME NEW j \in Job, Begin(j), fault' = "memory"
      PROVE  overlapped' # {}
  <2>1. Queued(j) /\ pc[j] = "idle"
    BY <1>1, <1>8, BeginMoves
  <2>2. conn[j[1]] = "freed" /\ UNCHANGED overlapped
    BY <1>8 DEF Begin, FreedIf
  <2> QED
    BY <1>7, <2>1, <2>2 DEF Outstanding
<1>9. ASSUME NEW j \in Job, HandlerStep(j), fault' = "memory"
      PROVE  overlapped' # {} \/ base' = "freed"
  <2> DEFINE c == j[1]
  <2>1. UNCHANGED <<overlapped, base>>
    BY <1>9 DEF HandlerStep, Parse, FreeBuffer, Delete, FreeBev, FreeConn, Goto
  <2>2. j \in running /\ c \in Conn /\ Outstanding(j)
    BY <1>1, <1>9, HandlerGoes DEF Outstanding
  <2> SUFFICES ASSUME c \notin overlapped, base # "freed"
               PROVE  FALSE
    BY <2>1
  <2>3. j = <<c, reads[c]>> /\ seen[j] = reads[c]
    BY <1>2, <2>2, JobParts DEF Undisturbed
  <2>4. pc[j] \in {"parse", "free"} => heap[j] = "live"
    BY <1>1, <1>2, <2>2 DEF BufferAccount
  <2>5. pc[j] \notin {"bev", "conn"} => conn[c] = "live" /\ c \in table
    BY <1>2, <1>7, <2>2 DEF Undisturbed
  <2>6. /\ pc[j] = "bev" => bev[c] = "live" /\ conn[c] = "live"
        /\ pc[j] = "conn" => conn[c] = "live"
    BY <1>2, <2>2 DEF Exclusive, Connections
  <2>7. CASE Parse(j)
    BY <1>9, <2>3, <2>4, <2>7 DEF Parse, Goto, FreedIf
  <2>8. CASE FreeBuffer(j)
    BY <1>9, <2>3, <2>4, <2>5, <2>8 DEF FreeBuffer, Goto
  <2>9. CASE Delete(j)
    BY <1>9, <2>5, <2>9 DEF Delete, Goto, FreedIf
  <2>10. CASE FreeBev(j)
    BY <1>9, <2>6, <2>10 DEF FreeBev, Goto, FreedIf
  <2>11. CASE FreeConn(j)
    BY <1>9, <2>6, <2>11 DEF FreeConn, Goto, FreedIf
  <2> QED
    BY <1>9, <2>7, <2>8, <2>9, <2>10, <2>11 DEF HandlerStep
<1> QED
  BY <1>3, <1>4, <1>5, <1>6, <1>8, <1>9 DEF Next, MainStep, OnlyKnownFaults

-----------------------------------------------------------------------------
(* The invariant, and what follows from it.                                *)

LEMMA InitIInv == Init => IInv
<1> SUFFICES ASSUME Init PROVE IInv
  OBVIOUS
<1> USE HttpAssumption, JobParts DEF Init, Pool!Init
<1>1. \A j : ~Queued(j) /\ ~Pool!Submitted(j) /\ ~Outstanding(j)
  BY DEF Queued, Pool!Submitted, Pool!InQueue, Outstanding
<1>2. TypeOK
  <2>1. <<>> \in Seq(Job)
    OBVIOUS
  <2>2. fd \in [Conn -> Fd \cup {NoFd}] /\ reads \in [Conn -> 0..MaxReads] /\ seen \in [Job -> 0..MaxReads]
    OBVIOUS
  <2> QED
    BY <2>1, <2>2 DEF TypeOK
<1>3. Control /\ OnlyKnownFaults
  BY DEF Control, OnlyKnownFaults
<1>4. Dispatches
  <2>1. Once(pending)
    BY DEF Once
  <2>2. \A j \in Job : ~(j[2] <= reads[j[1]]) /\ j[2] > reads[j[1]]
    OBVIOUS
  <2> QED
    BY <1>1, <2>1, <2>2 DEF Dispatches
<1>5. Connections
  BY DEF Connections
<1>6. Exclusive
  BY DEF Exclusive, Adding, Deleting
<1>7. Undisturbed /\ BufferAccount
  BY <1>1 DEF Undisturbed, BufferAccount
<1>8. TableCurrent /\ DescriptorsOwned
  BY DEF TableCurrent, DescriptorsOwned
<1> QED
  BY <1>2, <1>3, <1>4, <1>5, <1>6, <1>7, <1>8 DEF IInv, Core

LEMMA NextIInv == IInv /\ [Next]_vars => IInv'
<1> SUFFICES ASSUME IInv, [Next]_vars PROVE IInv'
  OBVIOUS
<1>1. CASE Next
  <2>1. TypeOK' /\ OnlyKnownFaults' /\ Control' /\ Dispatches'
    BY <1>1, TypesKept, FaultsKnown, ControlKept, DispatchesKept
  <2>2. ASSUME fault' = "none"
        PROVE  Connections' /\ Exclusive' /\ Undisturbed' /\ BufferAccount' /\ DescriptorsOwned'
    BY <1>1, <2>2, ConnectionsKept, ExclusiveKept, UndisturbedKept, BufferAccountKept,
       DescriptorsKept
  \* A connection in the table has its bufferevent, and so owns its descriptor.
  <2>3. TypeOK' /\ Connections' /\ DescriptorsOwned' => TableCurrent'
    BY DEF TypeOK, Connections, DescriptorsOwned, TableCurrent
  <2> QED
    BY <2>1, <2>2, <2>3 DEF IInv, Core
<1>2. CASE UNCHANGED vars
  BY <1>2 DEF vars, connVars, inputVars, threadVars, handlerVars, poolVars, IInv, Core, TypeOK,
     OnlyKnownFaults, Control, Dispatches, Connections, Exclusive, Undisturbed, BufferAccount,
     TableCurrent, DescriptorsOwned, Adding, Deleting, Outstanding, Queued, Once, Pool!Submitted,
     Pool!InQueue
<1> QED
  BY <1>1, <1>2

\* The inductive invariant holds in every reachable state.
THEOREM Invariance == Spec => []IInv
BY InitIInv, NextIInv, PTL DEF Spec

\* Every variable stays within its type; in particular no read callback comes
\* after the last one that Send allows for.
THEOREM TypeCorrect == Spec => []TypeOK
BY Invariance, PTL DEF IInv

\* Freed memory is used, or freed twice, only after a connection was dispatched
\* again while an earlier dispatch of it was not over, or after http_end has
\* freed the event base under a handler (_handle_connection, http_end).
THEOREM FaultsHaveTwoCauses == Spec => []OnlyKnownFaults
BY Invariance, PTL DEF IInv

\* As long as its dispatches do not overlap, a connection's handlers free the
\* buffers made for them, and no other (_http_read, _handle_connection).
THEOREM BuffersAccounted == Spec => []BufferAccount
<1>1. IInv => BufferAccount
  BY DEF IInv, Core, BufferAccount
<1> QED
  BY <1>1, Invariance, PTL

\* The hash table has only live connections, each under a descriptor of its own
\* that is open, although the kernel hands out closed descriptors again.
THEOREM TableAgrees == Spec => []TableCurrent
<1>1. IInv => TableCurrent
  BY DEF IInv, Core, TableCurrent
<1> QED
  BY <1>1, Invariance, PTL

\* Every open descriptor is in just one place: with the main thread, in the
\* table, with one handler or with libevent (http_handle_connection, HASH_DEL
\* and bufferevent_free in _handle_connection).
THEOREM DescriptorHeldOnce == Spec => []DescriptorsHeld
<1>1. IInv => DescriptorsHeld
  <2> SUFFICES ASSUME IInv, fault = "none"
               PROVE  DescriptorsHeld
    BY DEF DescriptorsHeld
  <2> DEFINE Held == Adding \cup table \cup Leaving \cup Closing
             Owner == {c \in Conn : conn[c] # "none" /\ bev[c] # "gone"}
  <2>1. TypeOK /\ Dispatches /\ Connections /\ Exclusive /\ DescriptorsOwned
    BY DEF IInv, Core
  <2>2. /\ running \subseteq Job
        /\ \A c \in Conn : bev[c] \in {"none", "live", "freed", "gone"}
        /\ \A c \in Conn : conn[c] \in {"none", "live", "freed"}
    BY <2>1 DEF TypeOK
  <2>3. \A j \in Job : j \in Takers <=> pc[j] = "bev"
    BY <2>1 DEF Takers, Dispatches
  \* How far a connection's bufferevent has come says who has the descriptor.
  <2>4. \A c \in Conn : /\ c \in Adding <=> bev[c] = "none" /\ conn[c] # "none"
                        /\ c \in table <=> bev[c] = "live" /\ c \notin Leaving
                        /\ c \in Closing <=> bev[c] = "freed"
    <3>1. \A c \in Conn : c \in Leaving <=> \E j \in Job : j[1] = c /\ pc[j] = "bev"
      BY <2>2, <2>3 DEF Leaving, Takers
    <3> QED
      BY <2>1, <2>2, <3>1 DEF Connections, Adding, Closing
  <2>5. \A j \in Takers : j[1] \in Conn /\ bev[j[1]] = "live"
    BY <2>1, <2>2, JobParts DEF Exclusive, Takers
  <2>6. Held = Owner
    <3>1. \A c \in Leaving : c \in Conn /\ bev[c] = "live"
      BY <2>5 DEF Leaving
    <3>2. Held \subseteq Conn
      BY <2>1, <3>1 DEF Adding, Closing, TypeOK
    <3>3. \A c \in Conn : bev[c] # "none" => conn[c] # "none"
      BY <2>1 DEF Connections
    <3> QED
      BY <2>2, <2>4, <3>1, <3>2, <3>3
  <2>7. /\ Adding \cap table = {} /\ Leaving \cap (Adding \cup table) = {}
        /\ Closing \cap (Adding \cup table \cup Leaving) = {}
    <3>1. \A c \in Leaving : c \in Conn /\ bev[c] = "live"
      BY <2>5 DEF Leaving
    <3>2. Adding \subseteq Conn /\ table \subseteq Conn /\ Closing \subseteq Conn
      BY <2>1 DEF Adding, Closing, TypeOK
    <3> QED
      BY <2>4, <3>1, <3>2
  <2>8. \A j, k \in Takers : j[1] = k[1] => j = k
    BY <2>1 DEF Exclusive, Takers
  <2>9. open = {fd[c] : c \in Owner} /\ \A c, d \in Owner : fd[c] = fd[d] => c = d
    BY <2>1 DEF DescriptorsOwned
  <2>10. open = {fd[c] : c \in Held} /\ \A c, d \in Held : fd[c] = fd[d] => c = d
    <3> HIDE DEF Held, Owner
    <3> QED
      BY <2>6, <2>9
  <2> QED
    BY <2>7, <2>8, <2>10 DEF DescriptorsHeld
<1> QED
  BY <1>1, Invariance, PTL

\* The pool takes whatever the read callback hands over: as long as the loop
\* runs, http_end has not stopped the pool, and no dispatch is made twice.
DispatchAccepted ==
  \A c \in Conn : fault = "none" /\ loop = "running" /\ c \in watched \cap unread =>
    ~stopped /\ reads[c] < MaxReads /\ ~Pool!Submitted(<<c, reads[c] + 1>>)

THEOREM PoolNeverRefuses == Spec => []DispatchAccepted
<1>1. IInv => DispatchAccepted
  <2> SUFFICES ASSUME IInv, NEW c \in Conn, fault = "none", loop = "running", c \in watched \cap unread
               PROVE  ~stopped /\ reads[c] < MaxReads /\ ~Pool!Submitted(<<c, reads[c] + 1>>)
    BY DEF DispatchAccepted
  <2>1. TypeOK /\ Control /\ Dispatches /\ Connections
    BY DEF IInv, Core
  <2>2. ~stopped
    BY <2>1 DEF Control
  <2>3. reads[c] \in Nat /\ reads[c] + 1 \in 1..MaxReads /\ reads[c] < MaxReads
    BY <2>1, HttpAssumption DEF Connections, TypeOK
  <2>4. ~Pool!Submitted(<<c, reads[c] + 1>>)
    BY <2>1, <2>3, JobParts DEF Dispatches
  <2> QED
    BY <2>2, <2>3, <2>4
<1> QED
  BY <1>1, Invariance, PTL

\* free(conn) comes last, and once: the table and the event base have let go of
\* the connection before (HASH_DEL and bufferevent_free in _handle_connection).
FreedLast ==
  [][\A c \in Conn : conn[c] # "freed" /\ conn'[c] = "freed" =>
       conn[c] = "live" /\ c \notin table \cup watched /\ bev[c] \in {"freed", "gone"}]_vars

THEOREM ConnectionFreedLast == Spec => FreedLast
<1> DEFINE Last == \A c \in Conn : conn[c] # "freed" /\ conn'[c] = "freed" =>
                     conn[c] = "live" /\ c \notin table \cup watched /\ bev[c] \in {"freed", "gone"}
<1>1. ASSUME IInv, Next PROVE Last
  <2>1. TypeOK /\ Connections /\ Exclusive /\ fault = "none"
    BY <1>1 DEF IInv, Core, Next
  <2> USE DEF connVars
  <2>2. ASSUME UNCHANGED conn PROVE Last
    BY <2>2
  <2>3. ASSUME NEW c \in Conn, NEW f \in Fd, Accept(c, f)
        PROVE  Last
    BY <2>1, <2>3 DEF Accept, TypeOK
  <2>4. ASSUME NEW c \in Conn, NewBev(c) \/ Send(c) \/ ReadCallback(c) \/ Eof(c) \/ Finalize(c)
        PROVE  Last
    BY <2>2, <2>4 DEF NewBev, Send, ReadCallback, Eof, Finalize
  <2>5. ASSUME EndBreak \/ EndBase \/ EndPool \/ LoopStart \/ LoopExit \/ PoolDiscard
        PROVE  Last
    BY <2>2, <2>5 DEF EndBreak, EndBase, EndPool, LoopStart, LoopExit, PoolDiscard
  <2>6. ASSUME NEW j \in Job, Begin(j) \/ Parse(j) \/ FreeBuffer(j) \/ Delete(j) \/ FreeBev(j)
        PROVE  Last
    BY <2>2, <2>6 DEF Begin, Parse, FreeBuffer, Delete, FreeBev
  <2>7. ASSUME NEW j \in Job, FreeConn(j)
        PROVE  Last
    <3>1. j \in running /\ pc[j] = "conn" /\ j[1] \in Conn /\ conn' = [conn EXCEPT ![j[1]] = "freed"]
      BY <2>7, JobParts DEF FreeConn, Goto
    <3>2. conn[j[1]] = "live" /\ bev[j[1]] \in {"freed", "gone"} /\ j[1] \notin table \cup watched
      BY <2>1, <3>1 DEF Exclusive, Connections
    <3> QED
      BY <2>1, <3>1, <3>2 DEF TypeOK
  <2> QED
    BY <1>1, <2>3, <2>4, <2>5, <2>6, <2>7 DEF Next, MainStep, HandlerStep
<1>2. IInv /\ [Next]_vars => [Last]_vars
  BY <1>1
<1> QED
  BY <1>2, Invariance, PTL DEF Spec, FreedLast
=============================================================================
