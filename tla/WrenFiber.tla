----------------------------- MODULE WrenFiber -----------------------------
(***************************************************************************)
(* Fibers of the Wren VM: how control moves between them (the fiber        *)
(* primitives of lib/wren_core.c), how it is lost to an error              *)
(* (runtimeError in lib/wren_vm.c), and how the host starts and ends a run *)
(* of the interpreter.                                                     *)
(*                                                                         *)
(* One action is one primitive or opcode together with what runInterpreter *)
(* does after it.  Call frames inside a fiber, its stack and the values    *)
(* passed are left out; of its frames only whether there are any is kept.  *)
(* A switch to a fiber without frames makes LOAD_FRAME read frames[-1]:    *)
(* that has no defined outcome, `fault' records it and the behaviour ends. *)
(* Not modelled: a foreign method that enters the interpreter again.       *)
(***************************************************************************)
EXTENDS Naturals, FiniteSets

CONSTANTS
  Fiber,            \* ObjFibers, each allocated at most once
  NULL

ASSUME FiberAssumption == IsFiniteSet(Fiber) /\ NULL \notin Fiber

VARIABLES
  fiber,            \* vm->fiber
  frames,           \* per fiber: unallocated, numFrames > 0, numFrames = 0
  caller, state,    \* per fiber: the fields of ObjFiber
  error,            \* the fibers whose error is not null
  running,          \* is the host inside runInterpreter?
  entry,            \* the host function that entered it last
  api,              \* vm->apiStack # NULL
  raised,           \* RUNTIME_ERROR is about to be executed for vm->fiber
  fault,            \* the interpreter has lost its way
  transferred       \* history: a transfer has been made

fiberVars == <<frames, caller, state>>
hostVars == <<running, entry, api>>
vars == <<fiber, fiberVars, error, hostVars, raised, fault, transferred>>

TypeOK ==
  /\ fiber \in Fiber \cup {NULL}
  /\ frames \in [Fiber -> {"none", "some", "zero"}]
  /\ caller \in [Fiber -> Fiber \cup {NULL}]
  /\ state \in [Fiber -> {"TRY", "ROOT", "OTHER"}]
  /\ error \subseteq Fiber
  /\ running \in BOOLEAN
  /\ entry \in {"wrenInterpret", "wrenCall"}
  /\ api \in BOOLEAN
  /\ raised \in BOOLEAN
  /\ fault \in {"none", "frame", "null"}
  /\ transferred \in BOOLEAN

\* wrenNewVM, before it runs the core library with wrenInterpret
Init ==
  /\ fiber = NULL
  /\ frames = [f \in Fiber |-> "none"]
  /\ caller = [f \in Fiber |-> NULL]
  /\ state = [f \in Fiber |-> "OTHER"]
  /\ error = {}
  /\ running = FALSE
  /\ entry = "wrenInterpret"
  /\ api = FALSE
  /\ raised = FALSE
  /\ fault = "none"
  /\ transferred = FALSE

-----------------------------------------------------------------------------
(* The host.                                                               *)

\* runInterpreter is entered with fiber f.
Run(f, function) ==
  /\ fiber' = f
  /\ frames' = [frames EXCEPT ![f] = "some"]
  /\ state' = [state EXCEPT ![f] = "ROOT"]
  /\ running' = TRUE
  /\ entry' = function
  /\ api' = FALSE

\* wrenInterpret, in a new fiber f; the source has been compiled.
Interpret(f) ==
  /\ ~running
  /\ frames[f] = "none"
  /\ Run(f, "wrenInterpret")
  /\ UNCHANGED <<caller, error, raised, fault, transferred>>

\* wrenEnsureSlots, when no fiber is accessible
EnsureSlots(f) ==
  /\ ~running
  /\ ~api
  /\ frames[f] = "none"
  /\ fiber' = f
  /\ frames' = [frames EXCEPT ![f] = "zero"]
  /\ api' = TRUE
  /\ UNCHANGED <<caller, state, error, running, entry, raised, fault, transferred>>

\* wrenCall
HostCall ==
  /\ ~running
  /\ api
  /\ Run(fiber, "wrenCall")
  /\ UNCHANGED <<caller, error, raised, fault, transferred>>

-----------------------------------------------------------------------------
(* The interpreter goes on with vm->fiber.                                 *)

\* runInterpreter returns, leaving vm->fiber as f.
Leave(f) ==
  /\ running' = FALSE
  /\ fiber' = f
  /\ api' = (entry = "wrenCall" /\ f # NULL)

\* LOAD_FRAME for fiber f
LoadFrame(f) ==
  /\ fiber' = f
  /\ fault' = IF f = NULL THEN "null" ELSE IF frames'[f] = "zero" THEN "frame" ELSE fault
  /\ UNCHANGED <<running, api>>

\* What follows a primitive that returns false and has left vm->fiber as f.
Resume(f) ==
  IF f = NULL THEN Leave(NULL) /\ UNCHANGED <<raised, fault>>
  ELSE IF f \in error'
  THEN fiber' = f /\ raised' = TRUE /\ UNCHANGED <<running, api, fault>>
  ELSE LoadFrame(f) /\ UNCHANGED raised

-----------------------------------------------------------------------------
(* Errors.                                                                 *)

\* The fibers runtimeError visits: w[0] is the running one, w[i + 1] the caller of
\* w[i], none twice.
Walk(w, n) ==
  /\ w[0] = fiber
  /\ \A i \in 0..n - 1 : w[i + 1] = caller[w[i]]
  /\ \A i, j \in 0..n : w[i] = w[j] => i = j

\* (wrong on purpose) the search for a try() starts at the caller
StopsAbove(w, n) ==
  /\ \A i \in 1..n - 1 : state[w[i]] # "TRY"
  /\ (n > 0 /\ state[w[n]] = "TRY") \/ caller[w[n]] \in {NULL} \cup {w[i] : i \in 0..n}

\* It stops at the first fiber that was run by try(), or after the last one; that
\* is also a fiber whose caller it has already visited, and thereby unhooked.
StopsAt(w, n) ==
  /\ \A i \in 0..n - 1 : state[w[i]] # "TRY"
  /\ state[w[n]] = "TRY" \/ caller[w[n]] \in {NULL} \cup {w[i] : i \in 0..n}

RuntimeError ==
  /\ raised
  /\ \E n \in 0..Cardinality(Fiber) - 1 : \E w \in [0..n -> Fiber] :
       LET visited == {w[i] : i \in 0..n}
           caught == state[w[n]] = "TRY"
           unhooked == IF caught THEN visited \ {w[n]} ELSE visited
       IN  /\ Walk(w, n)
           /\ StopsAt(w, n)
           /\ error' = error \cup visited
           /\ caller' = [f \in Fiber |-> IF f \in unhooked THEN NULL ELSE caller[f]]
           /\ UNCHANGED frames
           /\ IF caught THEN LoadFrame(caller[w[n]]) ELSE Leave(NULL) /\ UNCHANGED fault
  /\ raised' = FALSE
  /\ UNCHANGED <<state, entry, transferred>>

\* Any error of the running code, and Fiber.abort(); with isNull, which is
\* Fiber.abort(null), it takes an earlier error back.
Abort(isNull) ==
  /\ error' = IF isNull THEN error \ {fiber} ELSE error \cup {fiber}
  /\ raised' = ~isNull
  /\ UNCHANGED <<fiber, fiberVars, hostVars, fault, transferred>>

\* A call of a foreign method, and some opcodes, look at the error of the running
\* fiber even when they have not set it.
ForeignCall ==
  /\ raised' = (fiber \in error)
  /\ UNCHANGED <<fiber, fiberVars, error, hostVars, fault, transferred>>

-----------------------------------------------------------------------------
(* The primitives of the running fiber.                                    *)

\* fiber_new
New(f) ==
  /\ frames[f] = "none"
  /\ frames' = [frames EXCEPT ![f] = "some"]
  /\ UNCHANGED <<fiber, caller, state, error, hostVars, raised, fault, transferred>>

\* runFiber: can f be called?
Callable(f) == f \notin error /\ caller[f] = NULL /\ state[f] # "ROOT"

\* (wrong on purpose) an aborted fiber can be run again, a finished one
RefusedUnlessAborted(f, isCall) ==
  \/ isCall /\ ~Callable(f) /\ f \notin error
  \/ frames[f] = "zero"
RefusedUnlessFinished(f, isCall) == f \in error \/ (isCall /\ ~Callable(f))

\* runFiber: is it an error to call f, or to transfer to it?
Refused(f, isCall) ==
  \/ f \in error
  \/ isCall /\ ~Callable(f)
  \/ frames[f] = "zero"

\* runFiber: the caller is remembered before the frames are looked at.
Hook(f, isCall) ==
  caller' = IF isCall /\ Callable(f) THEN [caller EXCEPT ![f] = fiber] ELSE caller

\* call() and try(), and transfer(), with or without a value
Switch(f, isCall, newState) ==
  /\ frames[f] # "none"
  /\ Hook(f, isCall)
  /\ UNCHANGED frames
  /\ IF Refused(f, isCall)
     THEN /\ error' = error \cup {fiber}
          /\ Resume(fiber)
          /\ UNCHANGED state
     ELSE /\ state' = [state EXCEPT ![f] = newState]
          /\ UNCHANGED error
          /\ Resume(f)
  /\ UNCHANGED entry

Call(f) == Switch(f, TRUE, state[f]) /\ UNCHANGED transferred
Try(f) == Switch(f, TRUE, "TRY") /\ UNCHANGED transferred
Transfer(f) == Switch(f, FALSE, state[f]) /\ transferred' = TRUE

\* The error goes to the fiber that is current after runFiber, which, when f
\* was refused, is the one that made the call; transferError(null) clears it.
TransferError(f, isNull) ==
  LET target == IF Refused(f, FALSE) THEN fiber ELSE f IN
  /\ frames[f] # "none"
  /\ error' = IF isNull THEN error \ {target} ELSE error \cup {target}
  /\ UNCHANGED fiberVars
  /\ Resume(target)
  /\ transferred' = TRUE
  /\ UNCHANGED <<state, entry>>

\* yield(), with or without a value
Yield ==
  /\ caller' = [caller EXCEPT ![fiber] = NULL]
  /\ state' = [state EXCEPT ![fiber] = "OTHER"]
  /\ UNCHANGED <<frames, error>>
  /\ Resume(caller[fiber])
  /\ UNCHANGED <<entry, transferred>>

\* (wrong on purpose) wrenCall finds the API stack of the suspended fiber
SuspendKeepsFiber ==
  /\ running' = FALSE
  /\ api' = (entry = "wrenCall")
  /\ UNCHANGED <<fiber, fiberVars, error, raised, entry, fault, transferred>>

Suspend ==
  /\ Leave(NULL)
  /\ UNCHANGED <<fiberVars, error, raised, entry, fault, transferred>>

\* CODE_RETURN from the last frame
Return ==
  /\ frames' = [frames EXCEPT ![fiber] = "zero"]
  /\ caller' = [caller EXCEPT ![fiber] = NULL]
  /\ IF caller[fiber] = NULL THEN Leave(fiber) /\ UNCHANGED fault ELSE LoadFrame(caller[fiber])
  /\ UNCHANGED <<state, error, raised, entry, transferred>>

-----------------------------------------------------------------------------
HostStep == HostCall \/ \E f \in Fiber : Interpret(f) \/ EnsureSlots(f)

Primitive ==
  \/ \E f \in Fiber : New(f) \/ Call(f) \/ Try(f) \/ Transfer(f)
  \/ \E f \in Fiber, isNull \in BOOLEAN : TransferError(f, isNull)
  \/ \E isNull \in BOOLEAN : Abort(isNull)
  \/ ForeignCall
  \/ Yield
  \/ Suspend
  \/ Return

Next ==
  /\ fault = "none"
  /\ \/ HostStep
     \/ RuntimeError
     \/ running /\ ~raised /\ Primitive

Spec == Init /\ [][Next]_vars

-----------------------------------------------------------------------------
(* Properties.                                                             *)

\* A fiber the host has entered has no caller: when it returns, runInterpreter
\* does, and no error walks past it into a fiber of another run.
RootUncalled == \A f \in Fiber : state[f] = "ROOT" => caller[f] = NULL

\* A fiber that can still raise an error and is marked as run by try() has the
\* caller that runtimeError hands the error to without looking.
TryHasCaller ==
  \A f \in Fiber : state[f] = "TRY" /\ frames[f] = "some" => caller[f] # NULL

\* What wrenCall asserts: whenever the API stack is there, it is the stack of a
\* fiber with no frames, and one that nobody waits to be returned to from.
ApiReady ==
  fault = "none" =>
  /\ api => ~running /\ fiber # NULL /\ frames[fiber] = "zero" /\ caller[fiber] = NULL
  /\ running => fiber # NULL
  /\ raised => running

\* Without transfer() and transferError(), no switch ever reaches a fiber that
\* has no frames, and none that has been aborted runs again.
OnlyTransferStrays == fault # "none" => transferred
AbortedIsOver ==
  [][\A f \in Fiber : f \in error /\ f \in error' /\ ~raised' /\ running' /\ fiber' = f
       => transferred']_vars

\* Without transfers the caller pointers are one stack.  Up[n] is the fiber n
\* callers above the running one, NULL beyond the last.
Up[n \in 0..Cardinality(Fiber)] ==
  IF n = 0 THEN fiber ELSE IF Up[n - 1] = NULL THEN NULL ELSE caller[Up[n - 1]]

Depth == Cardinality({n \in 0..Cardinality(Fiber) - 1 : running /\ Up[n] # NULL})
chain == [i \in 1..Depth |-> Up[Depth - i]]

stack == [i \in 1..Depth |-> <<chain[i], state[chain[i]] = "TRY">>]
unborn == {f \in Fiber : frames[f] = "none"}
ready == {f \in Fiber : frames[f] = "some" /\ state[f] # "ROOT" /\ caller[f] = NULL
                       /\ f \notin error /\ ~(running /\ fiber = f)}
over == {f \in Fiber : frames[f] = "zero"}
aborted == IF raised THEN error \ {fiber} ELSE error

Abs == INSTANCE FiberStack

\* Calls, yields, returns and errors move the control as FiberStack says, until
\* the first transfer.
CallsNest == Abs!Init /\ [][transferred' \/ Abs!Next]_(Abs!vars)

-----------------------------------------------------------------------------
(* What a comment says and the code does not do.                           *)

\* "You can't call a called fiber, but you can transfer directly to it [...]
\* This way, after resuming a suspended fiber, it will run and then return to
\* the fiber that called it and so on.": there is a fiber to return to.
ReturnsToCaller == fault # "frame"
=============================================================================
