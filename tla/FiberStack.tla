----------------------------- MODULE FiberStack -----------------------------
(***************************************************************************)
(* What fibers promise a program that does not use transfer(): the fibers  *)
(* that are running or waiting for one they called form one stack.  A call *)
(* pushes a fiber, yielding or finishing pops it, and an error takes down  *)
(* the top of the stack as far as the nearest fiber that was run by try(), *)
(* or the whole stack.                                                     *)
(***************************************************************************)
EXTENDS Naturals, Sequences

CONSTANT Fiber

VARIABLES
  stack,            \* <<fiber, run by try()?>>, the running one last
  unborn,           \* not created yet
  ready,            \* created or suspended by a yield: may be called
  over,             \* has no code to run: finished, or set up by the host
  aborted           \* ended by an error

vars == <<stack, unborn, ready, over, aborted>>

Init ==
  /\ stack = <<>>
  /\ unborn = Fiber
  /\ ready = {}
  /\ over = {}
  /\ aborted = {}

Below(n) == SubSeq(stack, 1, n)
Top == stack[Len(stack)][1]

\* The host prepares a fiber for its calls.
Reserve(f) ==
  /\ stack = <<>>
  /\ f \in unborn
  /\ unborn' = unborn \ {f}
  /\ over' = over \cup {f}
  /\ UNCHANGED <<stack, ready, aborted>>

\* The host runs a module in a new fiber, or calls a method in an old one.
Enter(f) ==
  /\ stack = <<>>
  /\ f \in unborn \cup over
  /\ stack' = << <<f, FALSE>> >>
  /\ unborn' = unborn \ {f}
  /\ over' = over \ {f}
  /\ UNCHANGED <<ready, aborted>>

Create(f) ==
  /\ stack # <<>>
  /\ f \in unborn
  /\ unborn' = unborn \ {f}
  /\ ready' = ready \cup {f}
  /\ UNCHANGED <<stack, over, aborted>>

Call(f, try) ==
  /\ stack # <<>>
  /\ f \in ready
  /\ stack' = Append(stack, <<f, try>>)
  /\ ready' = ready \ {f}
  /\ UNCHANGED <<unborn, over, aborted>>

Yield ==
  /\ stack # <<>>
  /\ stack' = Below(Len(stack) - 1)
  /\ ready' = ready \cup {Top}
  /\ UNCHANGED <<unborn, over, aborted>>

Finish ==
  /\ stack # <<>>
  /\ stack' = Below(Len(stack) - 1)
  /\ over' = over \cup {Top}
  /\ UNCHANGED <<unborn, ready, aborted>>

\* The nearest try() is at n; the fiber it ran and those above are aborted.
Fail ==
  /\ stack # <<>>
  /\ \E n \in 1..Len(stack) :
       /\ \A i \in (n + 1)..Len(stack) : ~stack[i][2]
       /\ n = 1 \/ stack[n][2]
       /\ stack' = Below(n - 1)
       /\ aborted' = aborted \cup {stack[i][1] : i \in n..Len(stack)}
  /\ UNCHANGED <<unborn, ready, over>>

\* Fiber.suspend(): control goes back to the host, and no call reaches the
\* fibers of this stack again.
Suspend ==
  /\ stack # <<>>
  /\ stack' = <<>>
  /\ UNCHANGED <<unborn, ready, over, aborted>>

Next ==
  \/ \E f \in Fiber : Reserve(f) \/ Enter(f) \/ Create(f)
  \/ \E f \in Fiber, try \in BOOLEAN : Call(f, try)
  \/ Yield
  \/ Finish
  \/ Fail
  \/ Suspend

Spec == Init /\ [][Next]_vars
=============================================================================
