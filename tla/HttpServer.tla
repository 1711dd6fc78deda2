----------------------------- MODULE HttpServer -----------------------------
(***************************************************************************)
(* src/http.c with do_accept of src/server.c: the life of a connection     *)
(* between three parties that share HttpConnection objects without a lock. *)
(* The main thread accepts a descriptor, adds a connection to the hash     *)
(* table `connections' and makes a bufferevent for it; the http thread     *)
(* runs the event loop, whose read callback copies the input and hands the *)
(* connection to the pool; a worker of the pool (TaskPool) parses the      *)
(* copy, frees it and, for "Connection: close", takes the connection down. *)
(*                                                                         *)
(* Three places do not fit together as they are written.  do_accept calls  *)
(* handle_connection, which no file declares; it is read as                *)
(* http_handle_connection.  That function creates the bufferevent with     *)
(* descriptor -1: Attached = FALSE is the program as it is written, in     *)
(* which no data ever reaches the callback, and Attached = TRUE the one    *)
(* the callback and the handler were written for.  And _http_read, which   *)
(* is installed as a data callback and so called with (bev, ctx), is       *)
(* declared with (bev, events, ptr), where ptr is whatever happens to be   *)
(* in the place of a third argument; it is read as declared with two, so   *)
(* that ptr is the connection.  With Attached = FALSE it is never called.  *)
(*                                                                         *)
(* Use of freed memory and a data race on the hash table have no defined   *)
(* outcome: a step that commits one records it in `fault', and there the   *)
(* behaviour ends.                                                         *)
(***************************************************************************)
EXTENDS Naturals, Sequences, FiniteSets

CONSTANTS
  Conn,             \* HttpConnection objects, each allocated at most once
  Fd,               \* descriptors accept may return
  FdSetSize,        \* FD_SETSIZE
  MaxReads,         \* bound: read callbacks per connection
  MaxInput,         \* bound: read callbacks of all connections
  Attached,         \* does the bufferevent watch the accepted descriptor,
                    \* and its read callback get the connection?
  NoFd

ASSUME HttpAssumption ==
  /\ Fd \subseteq Nat
  /\ FdSetSize \in Nat
  /\ MaxReads \in Nat \ {0}
  /\ MaxInput \in Nat
  /\ Attached \in BOOLEAN
  /\ NoFd \notin Fd

\* What the first request on a connection asks for.  The callback never drains
\* the input, so each copy begins with it and it is what every handler parses.
Kind == {"unknown", "keep", "close"}

\* The k-th dispatch of connection c to the pool, and the buffer made for it.
Job == Conn \X (1..MaxReads)

VARIABLES
  open,             \* open descriptors
  fd, conn,         \* per connection: descriptor, heap state of the object
  table,            \* the connections in the hash table
  bev,              \* per connection: its bufferevent
  watched,          \* connections whose read event is registered in the base
  kind, unread,     \* the first request; connections with new input
  reads,            \* per connection: read callbacks; the last made _buffer
  heap,             \* per job: the state of the buffer made for it
  overlapped,       \* connections dispatched again before a dispatch was over
  mainPc,           \* how far the main thread is in http_end
  loop, base,       \* the http thread and its event base
  pc, seen,         \* per job: the handler, and its copy of request._buffer
  pending, running, finished, discarded, stopped,  \* the pool
  fault

Pool == INSTANCE TaskPool WITH Task <- Job

connVars == <<open, fd, conn, table, bev, watched>>
inputVars == <<kind, unread, reads, heap, overlapped>>
threadVars == <<mainPc, loop, base>>
handlerVars == <<pc, seen>>
poolVars == <<pending, running, finished, discarded, stopped>>
vars == <<connVars, inputVars, threadVars, handlerVars, poolVars, fault>>

Queued(j) == \E i \in 1..Len(pending) : pending[i] = j
Outstanding(j) == Queued(j) \/ j \in running

TypeOK ==
  /\ open \subseteq Fd
  /\ fd \in [Conn -> Fd \cup {NoFd}]
  /\ conn \in [Conn -> {"none", "live", "freed"}]
  /\ table \subseteq Conn
  /\ bev \in [Conn -> {"none", "live", "freed", "gone"}]
  /\ watched \subseteq Conn
  /\ kind \in [Conn -> Kind]
  /\ unread \subseteq Conn
  /\ reads \in [Conn -> 0..MaxReads]
  /\ heap \in [Job -> {"none", "live", "freed"}]
  /\ overlapped \subseteq Conn
  /\ mainPc \in {"accept", "join", "pool", "gone"}
  /\ loop \in {"idle", "running", "ended"}
  /\ base \in {"live", "break", "freed"}
  /\ pc \in [Job -> {"idle", "parse", "free", "del", "bev", "conn"}]
  /\ seen \in [Job -> 0..MaxReads]
  /\ pending \in Seq(Job)
  /\ running \cup finished \cup discarded \subseteq Job
  /\ stopped \in BOOLEAN
  /\ fault \in {"none", "memory", "race"}

\* http_start has made the base, the pool and the http thread; nobody has
\* connected.
Init ==
  /\ open = {}
  /\ fd = [c \in Conn |-> NoFd]
  /\ conn = [c \in Conn |-> "none"]
  /\ table = {}
  /\ bev = [c \in Conn |-> "none"]
  /\ watched = {}
  /\ kind \in [Conn -> Kind]
  /\ unread = {}
  /\ reads = [c \in Conn |-> 0]
  /\ heap = [j \in Job |-> "none"]
  /\ overlapped = {}
  /\ mainPc = "accept"
  /\ loop = "idle"
  /\ base = "live"
  /\ pc = [j \in Job |-> "idle"]
  /\ seen = [j \in Job |-> 0]
  /\ Pool!Init
  /\ fault = "none"

FreedIf(used) == IF used THEN "memory" ELSE "none"

-----------------------------------------------------------------------------
(* The main thread: do_accept and http_handle_connection.                  *)

\* The connection the main thread is inserting in the table, if any.
Adding == {c \in Conn : conn[c] = "live" /\ bev[c] = "none"}
Deleting == {j \in running : pc[j] = "del"}

\* accept returns the lowest free descriptor f (one that is too large is closed
\* again, which changes nothing); the connection is allocated, and HASH_ADD_INT
\* begins.  Whoever enters the table while another thread is in it races.
Accept(c, f) ==
  /\ mainPc = "accept"
  /\ Adding = {}
  /\ conn[c] = "none"
  /\ f \notin open /\ \A g \in Fd \ open : f <= g
  /\ f <= FdSetSize
  /\ open' = open \cup {f}
  /\ conn' = [conn EXCEPT ![c] = "live"]
  /\ fd' = [fd EXCEPT ![c] = f]
  /\ fault' = IF Deleting # {} THEN "race" ELSE "none"
  /\ UNCHANGED <<table, bev, watched, inputVars, threadVars, handlerVars, poolVars>>

\* HASH_ADD_INT is over; the bufferevent is created, set up and enabled.
NewBev(c) ==
  /\ c \in Adding
  /\ table' = table \cup {c}
  /\ bev' = [bev EXCEPT ![c] = "live"]
  /\ watched' = watched \cup {c}
  /\ UNCHANGED <<open, fd, conn, inputVars, threadVars, handlerVars, poolVars, fault>>

\* http_end: event_base_loopbreak
EndBreak ==
  /\ mainPc = "accept"
  /\ Adding = {}
  /\ base' = "break"
  /\ mainPc' = "join"
  /\ UNCHANGED <<connVars, inputVars, loop, handlerVars, poolVars, fault>>

\* http_end: pthread_join, event_base_free
EndBase ==
  /\ mainPc = "join"
  /\ loop = "ended"
  /\ base' = "freed"
  /\ mainPc' = "pool"
  /\ UNCHANGED <<connVars, inputVars, loop, handlerVars, poolVars, fault>>

\* http_end: pool_end
EndPool ==
  /\ mainPc = "pool"
  /\ Pool!Stop
  /\ mainPc' = "gone"
  /\ UNCHANGED <<connVars, inputVars, loop, base, handlerVars, fault>>

-----------------------------------------------------------------------------
(* The client, and libevent on the http thread.                            *)

\* The input that was handed to the callback, or will be
Inputs == {j \in Job : j[2] <= reads[j[1]]} \cup {<<c, 0>> : c \in unread}

\* A piece of input reaches the socket, in any case a first whole request.
Send(c) ==
  /\ c \in watched \ unread
  /\ reads[c] < MaxReads
  /\ Cardinality(Inputs) < MaxInput
  /\ unread' = unread \cup {c}
  /\ UNCHANGED <<connVars, kind, reads, heap, overlapped, threadVars, handlerVars,
                 poolVars, fault>>

\* event_base_dispatch forgets an earlier loopbreak, and returns at once when no
\* event is registered in the base.
LoopStart ==
  /\ loop = "idle"
  /\ loop' = IF watched = {} THEN "ended" ELSE "running"
  /\ base' = "live"
  /\ UNCHANGED <<connVars, inputVars, mainPc, handlerVars, poolVars, fault>>

LoopExit ==
  /\ loop = "running"
  /\ \/ base = "break"
     \/ watched = {} /\ \A c \in Conn : bev[c] # "freed"
  /\ loop' = "ended"
  /\ UNCHANGED <<connVars, inputVars, mainPc, base, handlerVars, poolVars, fault>>

\* (wrong on purpose) the callback returns when there IS input
ReadReturns(c) ==
  /\ loop = "running" /\ Attached /\ c \in watched \cap unread
  /\ UNCHANGED vars

\* (wrong on purpose) the buffer that is replaced is freed, although the handler
\* may have done so
ReadFreesOld(c) ==
  LET old == <<c, reads[c]>>
      new == <<c, reads[c] + 1>>
  IN  /\ loop = "running" /\ Attached /\ c \in watched \cap unread
      /\ unread' = unread \ {c}
      /\ reads' = [reads EXCEPT ![c] = @ + 1]
      /\ heap' = [j \in Job |-> IF j = new THEN "live" ELSE IF j = old THEN "freed" ELSE heap[j]]
      /\ Pool!Submit(new)
      /\ overlapped' = overlapped \cup {d \in {c} : \E j \in Job : j[1] = d /\ Outstanding(j)}
      /\ fault' = FreedIf(conn[c] = "freed" \/ (old \in Job /\ heap[old] = "freed"))
      /\ UNCHANGED <<connVars, kind, threadVars, handlerVars>>

\* _http_read, with ptr = conn: a new buffer takes the place of the old one, which is not freed.
ReadCallback(c) ==
  /\ loop = "running"
  /\ Attached
  /\ c \in watched \cap unread
  /\ unread' = unread \ {c}
  /\ reads' = [reads EXCEPT ![c] = @ + 1]
  /\ heap' = [heap EXCEPT ![<<c, reads'[c]>>] = "live"]
  /\ Pool!Submit(<<c, reads'[c]>>)
  /\ overlapped' = overlapped \cup {d \in {c} : \E j \in Job : j[1] = d /\ Outstanding(j)}
  /\ fault' = FreedIf(conn[c] = "freed")
  /\ UNCHANGED <<connVars, kind, threadVars, handlerVars>>

\* The peer has closed: libevent stops reading and calls _http_event, which does
\* nothing.
Eof(c) ==
  /\ loop = "running"
  /\ Attached
  /\ c \in watched \ unread
  /\ watched' = watched \ {c}
  /\ UNCHANGED <<open, fd, conn, table, bev, inputVars, threadVars, handlerVars,
                 poolVars, fault>>

\* libevent finalizes a freed bufferevent and closes its descriptor.
Finalize(c) ==
  /\ bev[c] = "freed"
  /\ bev' = [bev EXCEPT ![c] = "gone"]
  /\ open' = IF Attached THEN open \ {fd[c]} ELSE open
  /\ UNCHANGED <<fd, conn, table, watched, inputVars, threadVars, handlerVars,
                 poolVars, fault>>

-----------------------------------------------------------------------------
(* _handle_connection, on a worker of the pool.                            *)

\* A worker takes the next dispatch j and copies conn->request.
Begin(j) ==
  /\ pending # <<>> /\ j = Head(pending)
  /\ Pool!Start
  /\ pc' = [pc EXCEPT ![j] = "parse"]
  /\ seen' = [seen EXCEPT ![j] = reads[j[1]]]
  /\ fault' = FreedIf(conn[j[1]] = "freed")
  /\ UNCHANGED <<connVars, inputVars, threadVars>>

\* The handler goes on from one label to the next, or returns to the pool.
Goto(j, from, to) ==
  /\ j \in running
  /\ pc[j] = from
  /\ pc' = [pc EXCEPT ![j] = to]
  /\ IF to = "idle" THEN Pool!Finish(j) ELSE UNCHANGED poolVars
  /\ UNCHANGED <<seen, threadVars>>

-----------------------------------------------------------------------------
(* Wrong on purpose: mistakes that the properties below would show.        *)

\* the search for the method never leaves an unknown one
ParseStuck(j) ==
  /\ Goto(j, "parse", IF kind[j[1]] = "unknown" THEN "parse" ELSE "free")
  /\ fault' = FreedIf(heap[<<j[1], seen[j]>>] = "freed")
  /\ UNCHANGED <<connVars, inputVars>>

\* the buffer is freed with the connection only
FreeBufferOnClose(j) ==
  LET c == j[1]
      buffer == <<c, reads[c]>>
  IN  /\ Goto(j, "free", IF kind[c] = "close" THEN "del" ELSE "idle")
      /\ heap' = IF kind[c] = "close" THEN [heap EXCEPT ![buffer] = "freed"] ELSE heap
      /\ fault' = FreedIf(conn[c] = "freed" \/ heap[buffer] = "freed")
      /\ UNCHANGED <<connVars, kind, unread, reads, overlapped>>

\* `closing' is never set
FreeBufferKeeps(j) ==
  LET buffer == <<j[1], reads[j[1]]>>
  IN  /\ Goto(j, "free", "idle")
      /\ heap' = [heap EXCEPT ![buffer] = "freed"]
      /\ fault' = FreedIf(conn[j[1]] = "freed" \/ heap[buffer] = "freed")
      /\ UNCHANGED <<connVars, kind, unread, reads, overlapped>>

\* no HASH_DEL
DeleteNothing(j) ==
  /\ Goto(j, "del", "bev")
  /\ UNCHANGED <<connVars, inputVars, fault>>

\* free(conn) right after HASH_DEL, before bufferevent_free(conn->bev)
DeleteFrees(j) ==
  /\ Goto(j, "del", "bev")
  /\ table' = table \ {j[1]}
  /\ conn' = [conn EXCEPT ![j[1]] = "freed"]
  /\ fault' = FreedIf(conn[j[1]] = "freed" \/ j[1] \notin table)
  /\ UNCHANGED <<open, fd, bev, watched, inputVars>>

\* bufferevent_free(conn->bev) is forgotten
FreeBevNothing(j) ==
  /\ Goto(j, "bev", "conn")
  /\ UNCHANGED <<connVars, inputVars, fault>>

-----------------------------------------------------------------------------
(* The handler, continued.                                                 *)

\* The method is looked up and the headers are read, in the copied buffer; an
\* unknown method returns at once and keeps the buffer.
Parse(j) ==
  /\ Goto(j, "parse", IF kind[j[1]] = "unknown" THEN "idle" ELSE "free")
  /\ fault' = FreedIf(heap[<<j[1], seen[j]>>] = "freed")
  /\ UNCHANGED <<connVars, inputVars>>

\* free(conn->request._buffer), the one of the latest read callback
FreeBuffer(j) ==
  LET c == j[1]
      buffer == <<c, reads[c]>>
  IN  /\ Goto(j, "free", IF kind[c] = "close" THEN "del" ELSE "idle")
      /\ heap' = [heap EXCEPT ![buffer] = "freed"]
      /\ fault' = IF conn[c] = "freed" \/ heap[buffer] = "freed" THEN "memory"
                  ELSE IF kind[c] = "close" /\ Adding \cup Deleting # {} THEN "race"
                  ELSE "none"
      /\ UNCHANGED <<connVars, kind, unread, reads, overlapped>>

\* HASH_DEL is over.
Delete(j) ==
  /\ Goto(j, "del", "bev")
  /\ table' = table \ {j[1]}
  /\ fault' = FreedIf(conn[j[1]] = "freed" \/ j[1] \notin table)
  /\ UNCHANGED <<open, fd, conn, bev, watched, inputVars>>

\* bufferevent_free looks into the base.
FreeBev(j) ==
  /\ Goto(j, "bev", "conn")
  /\ bev' = [bev EXCEPT ![j[1]] = "freed"]
  /\ watched' = watched \ {j[1]}
  /\ fault' = FreedIf(conn[j[1]] = "freed" \/ bev[j[1]] # "live" \/ base = "freed")
  /\ UNCHANGED <<open, fd, conn, table, inputVars>>

FreeConn(j) ==
  /\ Goto(j, "conn", "idle")
  /\ conn' = [conn EXCEPT ![j[1]] = "freed"]
  /\ fault' = FreedIf(conn[j[1]] = "freed")
  /\ UNCHANGED <<open, fd, table, bev, watched, inputVars>>

PoolDiscard ==
  /\ Pool!Discard
  /\ UNCHANGED <<connVars, inputVars, threadVars, handlerVars, fault>>

-----------------------------------------------------------------------------
MainStep == EndBase \/ EndPool \/ \E c \in Conn : NewBev(c)

HandlerStep(j) == Parse(j) \/ FreeBuffer(j) \/ Delete(j) \/ FreeBev(j) \/ FreeConn(j)

Next ==
  /\ fault = "none"
  /\ \/ \E c \in Conn, f \in Fd : Accept(c, f)
     \/ EndBreak
     \/ MainStep
     \/ LoopStart
     \/ LoopExit
     \/ \E c \in Conn : Send(c) \/ ReadCallback(c) \/ Eof(c) \/ Finalize(c)
     \/ \E j \in Job : Begin(j) \/ HandlerStep(j)
     \/ PoolDiscard

Spec == Init /\ [][Next]_vars

\* Threads are scheduled, a running loop serves its events, and the pool starts
\* what it is given (PthreadPool shows that it does).  Nobody has to connect,
\* to send anything or to call http_end.
Fairness ==
  /\ WF_vars(fault = "none" /\ MainStep)
  /\ WF_vars(fault = "none" /\ LoopStart)
  /\ WF_vars(fault = "none" /\ LoopExit)
  /\ \A c \in Conn : WF_vars(fault = "none" /\ ReadCallback(c))
  /\ \A c \in Conn : WF_vars(fault = "none" /\ loop = "running" /\ Finalize(c))
  /\ \A j \in Job : WF_vars(fault = "none" /\ Begin(j))
  /\ \A j \in Job : WF_vars(fault = "none" /\ HandlerStep(j))

FairSpec == Spec /\ Fairness

-----------------------------------------------------------------------------
(* Safety.                                                                 *)

\* Freed memory is used, or freed again, only after a connection was handed to
\* the pool while an earlier dispatch of it was still queued or running, or
\* when http_end has freed the event base under a handler.
OnlyKnownFaults == fault = "memory" => overlapped # {} \/ base = "freed"

\* As long as dispatches of a connection do not overlap, a handler frees the
\* very buffer that was made for it; an unknown method keeps its buffer for
\* good, and pool_end the buffers of the dispatches it discards.
BufferAccount ==
  fault = "none" => \A j \in Job : j[1] \notin overlapped =>
    (heap[j] = "live" <=>
      \/ Queued(j) \/ j \in discarded
      \/ j \in running /\ pc[j] \in {"parse", "free"}
      \/ j \in finished /\ kind[j[1]] = "unknown")

\* The table is keyed by descriptor, and the kernel reuses a descriptor as soon
\* as it has been closed for a worker; still every key is the descriptor of an
\* open connection and no two entries have the same.
TableCurrent ==
  fault = "none" => /\ \A c \in table : conn[c] = "live" /\ fd[c] \in open
                    /\ \A c, d \in table : fd[c] = fd[d] => c = d

\* The handlers between HASH_DEL and bufferevent_free, the connections that they
\* alone still know, and those whose bufferevent libevent has to finalize
Takers == {j \in running : pc[j] = "bev"}
Leaving == {j[1] : j \in Takers}
Closing == {c \in Conn : bev[c] = "freed"}

\* At every moment of a connection's life its descriptor is in just one place: with
\* the main thread, until the connection is in the table, then in the table, with
\* the one handler that has taken it out, and with libevent.  No descriptor is
\* open that is in none of them, none that is in one of them was closed or is
\* another connection's, and so none is closed twice.  This is not to say that
\* each will be closed: when the peer closes, _http_event does nothing, and
\* unless a handler is about to close it the connection is in the table for good.
DescriptorsHeld ==
  LET Held == Adding \cup table \cup Leaving \cup Closing
  IN  fault = "none" =>
        /\ open = {fd[c] : c \in Held}
        /\ \A c, d \in Held : fd[c] = fd[d] => c = d
        /\ Adding \cap table = {} /\ Leaving \cap (Adding \cup table) = {}
        /\ Closing \cap (Adding \cup table \cup Leaving) = {}
        /\ \A j, k \in Takers : j[1] = k[1] => j = k

-----------------------------------------------------------------------------
(* Liveness, under Fairness.                                               *)

Over == fault # "none" \/ loop = "ended"

\* Input that reaches a connection while the loop runs, or before it has started,
\* is handed to the pool: the loop does not end under a registered connection
\* unless http_end is called.  Input that arrives after the loop has ended, for
\* want of a registered event, is lost.
InputTaken ==
  \A c \in Conn :
    (c \in unread \cap watched /\ loop # "ended")
      ~> (c \notin unread \cap watched \/ mainPc # "accept" \/ fault # "none")

\* What is handed to the pool is handled, unless http_end stops the pool.
Handled ==
  \A j \in Job : Outstanding(j) ~> (j \in finished \/ stopped \/ fault # "none")

\* "Connection: close" is honoured: the connection leaves the table, its memory
\* is freed and its descriptor closed.
Closed ==
  \A c \in Conn :
    (reads[c] > 0 /\ kind[c] = "close")
      ~> (Over \/ stopped \/ (c \notin table /\ conn[c] = "freed" /\ bev[c] = "gone"))

-----------------------------------------------------------------------------
(* What plan.txt says, of the program as it is written.                    *)

\* "Dispatch events to worker threads in the pthread_pool.": input is handed to
\* the pool as long as the loop runs and http_end has not been called.
EventsDispatched ==
  \A c \in Conn : c \in unread ~> (reads[c] > 0 \/ Over \/ mainPc # "accept")

=============================================================================
