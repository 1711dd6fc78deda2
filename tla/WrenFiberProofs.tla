-------------------------- MODULE WrenFiberProofs --------------------------
(***************************************************************************)
(* The invariants of WrenFiber, and that it implements FiberStack until    *)
(* the first transfer, proved for every set of fibers.                     *)
(***************************************************************************)
EXTENDS WrenFiber, NatLemmas, FiniteSetTheorems, SequenceTheorems, TLAPS

\* What has not been allocated is blank, and nothing points to it.
Unborn ==
  \A f \in Fiber :
    /\ frames[f] = "none" => /\ caller[f] = NULL /\ state[f] = "OTHER"
                             /\ f \notin error /\ fiber # f
    /\ caller[f] # NULL => frames[caller[f]] # "none"

\* Called, and not come back to the caller by a yield, a return or an error.
Called(f) ==
  /\ caller[f] # NULL
  /\ frames[f] = "some"
  /\ f \notin error \/ (raised /\ fiber = f)

\* f is on the stack of some run: somebody waits for it, or it is the bottom.
Placed(f) == frames[f] = "some" /\ (caller[f] # NULL \/ state[f] = "ROOT")

\* As long as nobody has made a transfer the callers of called fibers are waiting
\* in turn, each one for a single fiber, and nobody waits for a fiber that runs.
Nested ==
  ~transferred =>
    /\ fault = "none"
    /\ \A f \in Fiber : Called(f) => Placed(caller[f]) /\ caller[f] \notin error
    /\ \A f, g \in Fiber : Called(f) /\ Called(g) /\ caller[f] = caller[g] => f = g
    /\ running => /\ Placed(fiber)
                  /\ fiber \in error <=> raised
                  /\ \A f \in Fiber : Called(f) => caller[f] # fiber
    /\ api => fiber \notin error

IInv ==
  /\ TypeOK
  /\ Unborn
  /\ RootUncalled
  /\ TryHasCaller
  /\ ApiReady
  /\ Nested

-----------------------------------------------------------------------------
(* The invariant holds initially, and every step preserves it.             *)

LEMMA InitIInv == Init => IInv
BY FiberAssumption DEF Init, IInv, TypeOK, Unborn, RootUncalled, TryHasCaller, ApiReady, Nested, Called, Placed

LEMMA InterpretIInv ==
  ASSUME IInv, fault = "none", NEW f \in Fiber, Interpret(f)
  PROVE  IInv'
<1> USE FiberAssumption DEF IInv, Interpret, Run
<1>1. TypeOK' /\ Unborn' /\ RootUncalled' /\ TryHasCaller' /\ ApiReady'
  BY DEF TypeOK, Unborn, RootUncalled, TryHasCaller, ApiReady
<1>2. Nested'
  BY DEF TypeOK, Unborn, ApiReady, Nested, Called, Placed
<1> QED
  BY <1>1, <1>2

LEMMA EnsureSlotsIInv ==
  ASSUME IInv, fault = "none", NEW f \in Fiber, EnsureSlots(f)
  PROVE  IInv'
<1> USE FiberAssumption DEF IInv, EnsureSlots
<1>1. TypeOK' /\ Unborn' /\ RootUncalled' /\ TryHasCaller' /\ ApiReady'
  BY DEF TypeOK, Unborn, RootUncalled, TryHasCaller, ApiReady
<1>2. Nested'
  BY DEF TypeOK, Unborn, Nested, Called, Placed
<1> QED
  BY <1>1, <1>2

LEMMA HostCallIInv ==
  ASSUME IInv, fault = "none", HostCall
  PROVE  IInv'
<1> USE FiberAssumption DEF IInv, HostCall, Run
<1>1. TypeOK' /\ Unborn' /\ RootUncalled' /\ TryHasCaller' /\ ApiReady'
  BY DEF TypeOK, Unborn, RootUncalled, TryHasCaller, ApiReady
<1>2. Nested'
  BY DEF TypeOK, ApiReady, Nested, Called, Placed
<1> QED
  BY <1>1, <1>2

LEMMA AbortIInv ==
  ASSUME IInv, fault = "none", running, ~raised, NEW isNull \in BOOLEAN, Abort(isNull)
  PROVE  IInv'
<1> USE FiberAssumption DEF IInv, Abort, fiberVars, hostVars
<1>1. fiber \in Fiber /\ ~api
  BY DEF ApiReady, TypeOK
<1>2. TypeOK' /\ Unborn' /\ RootUncalled' /\ TryHasCaller' /\ ApiReady'
  <2>1. TypeOK'
    BY <1>1 DEF TypeOK
  <2>2. Unborn'
    BY <1>1 DEF Unborn
  <2> QED
    BY <2>1, <2>2 DEF RootUncalled, TryHasCaller, ApiReady
<1>3. Nested'
  <2>1. CASE isNull
    BY <1>1, <2>1 DEF TypeOK, Nested, Called, Placed
  <2>2. CASE ~isNull
    <3> SUFFICES ASSUME ~transferred
                 PROVE  Nested'
      BY DEF Nested
    <3>1. raised' = TRUE /\ error' = error \cup {fiber} /\ fiber \notin error
      BY <2>2 DEF Nested
    <3>2. \A f \in Fiber : Called(f)' <=> Called(f)
      BY <3>1 DEF Called
    <3>3. \A f \in Fiber : Called(f) => caller[f] \in Fiber /\ Placed(caller[f])'
      BY <3>1 DEF Called, Placed, Nested, TypeOK
    <3>4. Placed(fiber)'
      BY DEF Placed, Nested
    <3> QED
      BY <1>1, <3>1, <3>2, <3>3, <3>4 DEF Nested
  <2> QED
    BY <2>1, <2>2
<1> QED
  BY <1>2, <1>3

LEMMA ForeignCallIInv ==
  ASSUME IInv, fault = "none", running, ~raised, ForeignCall
  PROVE  IInv'
<1> USE FiberAssumption DEF IInv, ForeignCall, fiberVars, hostVars
<1>1. TypeOK' /\ Unborn' /\ RootUncalled' /\ TryHasCaller' /\ ApiReady'
  BY DEF TypeOK, Unborn, RootUncalled, TryHasCaller, ApiReady
<1>2. Nested'
  BY DEF TypeOK, ApiReady, Nested, Called, Placed
<1> QED
  BY <1>1, <1>2

LEMMA NewIInv ==
  ASSUME IInv, fault = "none", running, ~raised, NEW f \in Fiber, New(f)
  PROVE  IInv'
<1> USE FiberAssumption DEF IInv, New, hostVars
<1>1. TypeOK' /\ Unborn' /\ RootUncalled' /\ TryHasCaller' /\ ApiReady'
  BY DEF TypeOK, Unborn, RootUncalled, TryHasCaller, ApiReady
<1>2. Nested'
  BY DEF TypeOK, Unborn, ApiReady, Nested, Called, Placed
<1> QED
  BY <1>1, <1>2

\* call(), try() and transfer(), when runFiber reports an error
LEMMA RefusedIInv ==
  ASSUME IInv, fault = "none", running, ~raised,
         NEW f \in Fiber, NEW isCall \in BOOLEAN, NEW newState,
         Switch(f, isCall, newState), Refused(f, isCall),
         transferred' \in BOOLEAN, ~transferred' => ~transferred
  PROVE  IInv'
<1> USE FiberAssumption DEF IInv
<1>1. fiber \in Fiber /\ ~api
  BY DEF ApiReady, TypeOK
<1>2. /\ error' = error \cup {fiber}
      /\ fiber' = fiber /\ raised' = TRUE
      /\ UNCHANGED <<frames, state, running, entry, api, fault>>
  BY <1>1 DEF Switch, Resume
<1>3. /\ caller' \in [Fiber -> Fiber \cup {NULL}]
      /\ \A g \in Fiber : caller'[g] # caller[g] =>
           caller[g] = NULL /\ caller'[g] = fiber /\ frames[g] = "zero" /\ state[g] # "ROOT"
  BY <1>1 DEF Switch, Hook, Refused, Callable, TypeOK
<1>4. TypeOK' /\ RootUncalled' /\ TryHasCaller' /\ ApiReady'
  BY <1>1, <1>2, <1>3 DEF TypeOK, RootUncalled, TryHasCaller, ApiReady
<1>5. Unborn'
  BY <1>1, <1>2, <1>3 DEF Unborn, TypeOK
<1>6. Nested'
  <2> SUFFICES ASSUME ~transferred
               PROVE  Nested'
    BY DEF Nested
  <2>1. fiber \notin error
    BY DEF Nested
  <2>2. \A g \in Fiber : Called(g)' <=> Called(g)
    BY <1>2, <1>3, <2>1 DEF Called
  <2>3. \A g \in Fiber : Called(g) => caller'[g] = caller[g] /\ caller[g] \in Fiber
    BY <1>3 DEF Called, TypeOK
  <2>4. \A g \in Fiber : Placed(g) => Placed(g)'
    BY <1>2, <1>3 DEF Placed
  <2> QED
    BY <1>1, <1>2, <2>1, <2>2, <2>3, <2>4 DEF Nested
<1> QED
  BY <1>4, <1>5, <1>6

\* call(), try() and transfer(), when control goes to f
LEMMA AcceptedIInv ==
  ASSUME IInv, fault = "none", running, ~raised,
         NEW f \in Fiber, NEW isCall \in BOOLEAN, NEW newState \in {state[f], "TRY"},
         newState = "TRY" => isCall \/ state[f] = "TRY",
         Switch(f, isCall, newState), ~Refused(f, isCall),
         transferred' \in BOOLEAN, ~transferred' => ~transferred /\ isCall
  PROVE  IInv'
<1> USE FiberAssumption DEF IInv
<1>1. fiber \in Fiber /\ ~api
  BY DEF ApiReady, TypeOK
<1>2. f \notin error /\ frames[f] = "some" /\ (isCall => caller[f] = NULL /\ state[f] # "ROOT")
  BY DEF Switch, Refused, Callable, TypeOK
<1>3. /\ fiber' = f
      /\ UNCHANGED <<frames, error, raised, running, entry, api, fault>>
  BY <1>1, <1>2 DEF Switch, Resume, LoadFrame
<1>4. /\ state' = [state EXCEPT ![f] = newState]
      /\ caller' = IF isCall THEN [caller EXCEPT ![f] = fiber] ELSE caller
  BY <1>2 DEF Switch, Hook, Callable
<1>5. TypeOK' /\ RootUncalled' /\ TryHasCaller' /\ ApiReady'
  BY <1>1, <1>2, <1>3, <1>4 DEF TypeOK, RootUncalled, TryHasCaller, ApiReady
<1>6. Unborn'
  BY <1>1, <1>2, <1>3, <1>4 DEF Unborn, TypeOK
<1>7. Nested'
  <2> SUFFICES ASSUME ~transferred, isCall
               PROVE  Nested'
    BY DEF Nested
  <2>1. f # fiber /\ fiber \notin error /\ Placed(fiber)
    BY <1>2 DEF Nested, Placed
  <2>2. /\ \A g \in Fiber : Called(g)' <=> Called(g) \/ g = f
        /\ \A g \in Fiber : g # f => caller'[g] = caller[g]
        /\ caller'[f] = fiber
    BY <1>1, <1>2, <1>3, <1>4, <2>1 DEF Called, TypeOK
  <2>3. \A g \in Fiber : Placed(g) \/ g = f => Placed(g)'
    BY <1>1, <1>2, <1>3, <1>4 DEF Placed, TypeOK
  <2>4. \A g \in Fiber : Called(g) => caller[g] \in Fiber \ {f}
    BY <1>2 DEF Nested, Placed, Called, TypeOK
  <2> QED
    BY <1>1, <1>2, <1>3, <2>1, <2>2, <2>3, <2>4 DEF Nested
<1> QED
  BY <1>5, <1>6, <1>7

LEMMA TransferErrorIInv ==
  ASSUME IInv, fault = "none", running, ~raised,
         NEW f \in Fiber, NEW isNull \in BOOLEAN, TransferError(f, isNull)
  PROVE  IInv'
<1> USE FiberAssumption DEF IInv
<1> DEFINE target == IF Refused(f, FALSE) THEN fiber ELSE f
<1>1. fiber \in Fiber /\ ~api
  BY DEF ApiReady, TypeOK
<1>2. target \in Fiber /\ frames[target] # "none"
  BY <1>1 DEF TransferError, Unborn
<1>3. /\ error' \in {error \ {target}, error \cup {target}}
      /\ fiber' = target
      /\ raised' \in BOOLEAN /\ fault' \in {"none", "frame"} /\ transferred' = TRUE
      /\ UNCHANGED <<frames, caller, state, running, entry, api>>
  <2>1. /\ error' \in {error \ {target}, error \cup {target}}
        /\ UNCHANGED <<frames, caller, state, entry>>
        /\ transferred' = TRUE
        /\ Resume(target)
    BY DEF TransferError, fiberVars
  <2> HIDE DEF target
  <2>2. target # NULL
    BY <1>2
  <2>3. /\ fiber' = target
        /\ raised' \in BOOLEAN /\ fault' \in {"none", "frame"}
        /\ UNCHANGED <<running, api>>
    BY <2>1, <2>2 DEF Resume, LoadFrame, TypeOK
  <2> QED
    BY <2>1, <2>3
<1> HIDE DEF target
<1>4. TypeOK' /\ RootUncalled' /\ TryHasCaller' /\ ApiReady'
  BY <1>1, <1>2, <1>3 DEF TypeOK, RootUncalled, TryHasCaller, ApiReady
<1>5. Unborn'
  BY <1>2, <1>3 DEF Unborn
<1>6. Nested'
  BY <1>3 DEF Nested
<1> QED
  BY <1>4, <1>5, <1>6

LEMMA SuspendIInv ==
  ASSUME IInv, fault = "none", running, ~raised, Suspend
  PROVE  IInv'
<1> USE FiberAssumption DEF IInv, Suspend, Leave, fiberVars
<1>1. TypeOK' /\ Unborn' /\ RootUncalled' /\ TryHasCaller' /\ ApiReady'
  BY DEF TypeOK, Unborn, RootUncalled, TryHasCaller, ApiReady
<1>2. Nested'
  BY DEF TypeOK, Nested, Called, Placed
<1> QED
  BY <1>1, <1>2

\* While nobody has made a transfer, whoever the running fiber was called by is
\* there to go on, and is waiting for nobody else.
LEMMA CallerWaits ==
  ASSUME IInv, running, ~transferred, caller[fiber] # NULL, ~raised
  PROVE  /\ fiber \notin error
         /\ caller[fiber] \in Fiber \ {fiber}
         /\ caller[fiber] \notin error
         /\ Placed(caller[fiber])
         /\ \A g \in Fiber \ {fiber} : Called(g) => caller[g] # caller[fiber]
<1> USE FiberAssumption DEF IInv, Nested
<1>1. fiber \in Fiber /\ caller[fiber] \in Fiber
  BY DEF ApiReady, TypeOK
<1>2. Called(fiber) /\ fiber \notin error
  BY <1>1 DEF Called, Placed
<1> QED
  BY <1>1, <1>2

LEMMA YieldIInv ==
  ASSUME IInv, fault = "none", running, ~raised, Yield
  PROVE  IInv'
<1> USE FiberAssumption DEF IInv
<1>1. fiber \in Fiber /\ ~api /\ caller[fiber] \in Fiber \cup {NULL}
  BY DEF ApiReady, TypeOK
<1>2. /\ caller' = [caller EXCEPT ![fiber] = NULL]
      /\ state' = [state EXCEPT ![fiber] = "OTHER"]
      /\ UNCHANGED <<frames, error, entry, transferred>>
  BY DEF Yield
<1>3. CASE caller[fiber] = NULL
  <2>1. fiber' = NULL /\ running' = FALSE /\ api' = FALSE /\ UNCHANGED <<raised, fault>>
    BY <1>3 DEF Yield, Resume, Leave
  <2>2. TypeOK' /\ Unborn' /\ RootUncalled' /\ TryHasCaller' /\ ApiReady'
    <3>1. TypeOK'
      BY <1>1, <1>2, <2>1 DEF TypeOK
    <3>2. Unborn'
      BY <1>1, <1>2, <2>1 DEF Unborn, TypeOK
    <3>3. RootUncalled' /\ TryHasCaller'
      BY <1>1, <1>2 DEF RootUncalled, TryHasCaller, TypeOK
    <3>4. ApiReady'
      BY <1>1, <1>2, <2>1 DEF ApiReady, TypeOK
    <3> QED
      BY <3>1, <3>2, <3>3, <3>4
  <2>3. Nested'
    BY <1>1, <1>2, <1>3, <2>1 DEF TypeOK, Nested, Called, Placed
  <2> QED
    BY <2>2, <2>3
<1>4. CASE caller[fiber] # NULL
  <2>0. Resume(caller[fiber])
    BY DEF Yield
  <2>1. /\ fiber' = caller[fiber]
        /\ raised' \in BOOLEAN /\ fault' \in {"none", "frame"}
        /\ caller[fiber] \notin error =>
             /\ raised' = FALSE
             /\ frames[caller[fiber]] = "some" => fault' = "none"
        /\ UNCHANGED <<running, api>>
    <3>1. CASE caller[fiber] \in error
      BY <1>2, <1>4, <2>0, <3>1 DEF Resume
    <3>2. CASE caller[fiber] \notin error
      <4>1. LoadFrame(caller[fiber]) /\ UNCHANGED raised
        BY <1>2, <1>4, <2>0, <3>2 DEF Resume
      <4> QED
        BY <1>2, <1>4, <3>2, <4>1 DEF LoadFrame, TypeOK
    <3> QED
      BY <3>1, <3>2
  <2>2. TypeOK' /\ Unborn' /\ RootUncalled' /\ TryHasCaller' /\ ApiReady'
    BY <1>1, <1>2, <1>4, <2>1 DEF TypeOK, Unborn, RootUncalled, TryHasCaller, ApiReady
  <2>3. Nested'
    <3> SUFFICES ASSUME ~transferred
                 PROVE  Nested'
      BY <1>2 DEF Nested
    <3>1. /\ fiber \notin error
          /\ caller[fiber] \in Fiber \ {fiber}
          /\ caller[fiber] \notin error
          /\ Placed(caller[fiber])
          /\ \A g \in Fiber \ {fiber} : Called(g) => caller[g] # caller[fiber]
      BY <1>4, CallerWaits
    <3>2. fault' = "none" /\ raised' = FALSE
      BY <2>1, <3>1 DEF Placed
    <3>3. \A g \in Fiber : /\ Called(g)' <=> Called(g) /\ g # fiber
                           /\ g # fiber => caller'[g] = caller[g]
      BY <1>1, <1>2, <3>2, <3>1 DEF Called, TypeOK
    <3>4. \A g \in Fiber \ {fiber} : Placed(g)' <=> Placed(g)
      BY <1>1, <1>2 DEF Placed, TypeOK
    <3>5. \A g \in Fiber : Called(g) => caller[g] \in Fiber \ {fiber}
      BY DEF Called, Nested, TypeOK
    <3> QED
      BY <1>1, <1>2, <2>1, <3>1, <3>2, <3>3, <3>4, <3>5 DEF Nested
  <2> QED
    BY <2>2, <2>3
<1> QED
  BY <1>3, <1>4

LEMMA ReturnIInv ==
  ASSUME IInv, fault = "none", running, ~raised, Return
  PROVE  IInv'
<1> USE FiberAssumption DEF IInv
<1>1. fiber \in Fiber /\ ~api /\ caller[fiber] \in Fiber \cup {NULL}
  BY DEF ApiReady, TypeOK
<1>2. /\ caller' = [caller EXCEPT ![fiber] = NULL]
      /\ frames' = [frames EXCEPT ![fiber] = "zero"]
      /\ UNCHANGED <<state, error, raised, entry, transferred>>
  BY DEF Return
<1>3. CASE caller[fiber] = NULL
  <2>1. fiber' = fiber /\ running' = FALSE /\ api' \in BOOLEAN /\ UNCHANGED fault
    BY <1>1, <1>3 DEF Return, Leave
  <2>2. TypeOK' /\ Unborn' /\ RootUncalled' /\ TryHasCaller' /\ ApiReady'
    <3>1. TypeOK'
      BY <1>1, <1>2, <2>1 DEF TypeOK
    <3>2. Unborn'
      BY <1>1, <1>2, <2>1 DEF Unborn, TypeOK
    <3>3. RootUncalled' /\ TryHasCaller'
      BY <1>1, <1>2 DEF RootUncalled, TryHasCaller, TypeOK
    <3>4. ApiReady'
      BY <1>1, <1>2, <2>1 DEF ApiReady, TypeOK
    <3> QED
      BY <3>1, <3>2, <3>3, <3>4
  <2>3. Nested'
    BY <1>1, <1>2, <1>3, <2>1 DEF TypeOK, Nested, Called, Placed
  <2> QED
    BY <2>2, <2>3
<1>4. CASE caller[fiber] # NULL
  <2>1. /\ fiber' = caller[fiber]
        /\ fault' = IF frames'[caller[fiber]] = "zero" THEN "frame" ELSE "none"
        /\ UNCHANGED <<running, api>>
    BY <1>2, <1>4 DEF Return, LoadFrame
  <2>2. TypeOK' /\ Unborn' /\ RootUncalled' /\ TryHasCaller' /\ ApiReady'
    BY <1>1, <1>2, <1>4, <2>1 DEF TypeOK, Unborn, RootUncalled, TryHasCaller, ApiReady
  <2>3. Nested'
    <3> SUFFICES ASSUME ~transferred
                 PROVE  Nested'
      BY <1>2 DEF Nested
    <3>1. /\ fiber \notin error
          /\ caller[fiber] \in Fiber \ {fiber}
          /\ caller[fiber] \notin error
          /\ Placed(caller[fiber])
          /\ \A g \in Fiber \ {fiber} : Called(g) => caller[g] # caller[fiber]
      BY <1>4, CallerWaits
    <3>2. fault' = "none"
      BY <1>1, <1>2, <2>1, <3>1 DEF Placed, TypeOK
    <3>3. \A g \in Fiber : /\ Called(g)' <=> Called(g) /\ g # fiber
                           /\ g # fiber => caller'[g] = caller[g]
      BY <1>1, <1>2, <3>1 DEF Called, TypeOK
    <3>4. \A g \in Fiber \ {fiber} : Placed(g)' <=> Placed(g)
      BY <1>1, <1>2 DEF Placed, TypeOK
    <3>5. \A g \in Fiber : Called(g) => caller[g] \in Fiber \ {fiber}
      BY DEF Called, Nested, TypeOK
    <3> QED
      BY <1>1, <1>2, <2>1, <3>1, <3>2, <3>3, <3>4, <3>5 DEF Nested
  <2> QED
    BY <2>2, <2>3
<1> QED
  BY <1>3, <1>4

\* Every fiber that runtimeError leaves behind had been called and waits.
LEMMA WalkCalled ==
  ASSUME IInv, fault = "none", raised, ~transferred,
         NEW n \in Nat, NEW w \in [0..n -> Fiber], Walk(w, n)
  PROVE  \A i \in 0..n - 1 : Called(w[i])
<1> USE FiberAssumption DEF IInv
<1> DEFINE Bad == {i \in 0..n - 1 : ~Called(w[i])}
<1> SUFFICES ASSUME Bad # {}
             PROVE  FALSE
  OBVIOUS
<1>1. Bad \subseteq Nat
  OBVIOUS
<1>2. PICK x \in Bad : \A y \in Bad : x <= y
  BY <1>1, LeastNatural
<1>3. x \in 0..n - 1 /\ w[x] \in Fiber /\ caller[w[x]] # NULL
  BY DEF Walk
<1>4. CASE x = 0
  BY <1>3, <1>4 DEF Walk, Called, ApiReady, Nested, Placed
<1>5. CASE x # 0
  <2>1. x - 1 \in 0..n - 1 /\ x - 1 \notin Bad
    BY <1>2, <1>3, <1>5
  <2>2. Called(w[x - 1]) /\ w[x - 1] \in Fiber /\ caller[w[x - 1]] = w[x]
    BY <1>3, <2>1 DEF Walk
  <2>3. Placed(w[x]) /\ w[x] \notin error
    BY <2>2 DEF Nested
  <2> QED
    BY <1>3, <2>3 DEF Called, Placed
<1> QED
  BY <1>4, <1>5

LEMMA RuntimeErrorIInv ==
  ASSUME IInv, fault = "none", RuntimeError
  PROVE  IInv'
<1> USE FiberAssumption DEF IInv
<1>1. fiber \in Fiber /\ running /\ ~api
  BY DEF ApiReady, TypeOK, RuntimeError
<1>2. Cardinality(Fiber) \in Nat
  BY FS_CardinalityType
<1> DEFINE visited(w, n) == {w[i] : i \in 0..n}
<1> DEFINE unhooked(w, n) ==
      IF state[w[n]] = "TRY" THEN visited(w, n) \ {w[n]} ELSE visited(w, n)
<1>3. PICK n \in 0..Cardinality(Fiber) - 1 : \E w \in [0..n -> Fiber] :
        /\ Walk(w, n)
        /\ StopsAt(w, n)
        /\ error' = error \cup visited(w, n)
        /\ caller' = [f \in Fiber |-> IF f \in unhooked(w, n) THEN NULL ELSE caller[f]]
        /\ IF state[w[n]] = "TRY" THEN LoadFrame(caller[w[n]])
                                  ELSE Leave(NULL) /\ UNCHANGED fault
  BY DEF RuntimeError
<1>4. PICK w \in [0..n -> Fiber] :
        /\ Walk(w, n)
        /\ StopsAt(w, n)
        /\ error' = error \cup visited(w, n)
        /\ caller' = [f \in Fiber |-> IF f \in unhooked(w, n) THEN NULL ELSE caller[f]]
        /\ IF state[w[n]] = "TRY" THEN LoadFrame(caller[w[n]])
                                  ELSE Leave(NULL) /\ UNCHANGED fault
  BY <1>3
<1> DEFINE V == visited(w, n)
<1> DEFINE U == unhooked(w, n)
<1>5. n \in Nat /\ w[n] \in Fiber /\ V \subseteq Fiber /\ fiber \in V /\ w[n] \in V
  BY <1>2, <1>4 DEF Walk
<1>6. \A f \in U : f \in V /\ state[f] # "TRY"
  BY <1>2, <1>4, <1>5 DEF StopsAt
<1>7. \A f \in V : f \in U \/ (f = w[n] /\ state[f] = "TRY")
  OBVIOUS
<1>8. /\ error' = error \cup V
      /\ caller' = [f \in Fiber |-> IF f \in U THEN NULL ELSE caller[f]]
      /\ raised' = FALSE
      /\ UNCHANGED <<frames, state, entry, transferred>>
  BY <1>4 DEF RuntimeError
<1>81. \A g \in V : frames[g] # "none"
  <2> SUFFICES ASSUME NEW i \in 0..n
               PROVE  frames[w[i]] # "none"
    OBVIOUS
  <2>1. CASE i = 0
    BY <1>1, <1>4, <2>1 DEF Walk, Unborn
  <2>2. CASE i # 0
    <3>1. i - 1 \in 0..n - 1 /\ i - 1 \in 0..n /\ i - 1 + 1 = i
      BY <1>5, <2>2
    <3>2. caller[w[i - 1]] = w[i] /\ w[i] \in Fiber /\ w[i - 1] \in Fiber
      BY <1>4, <3>1 DEF Walk
    <3> QED
      BY <3>2 DEF Unborn
  <2> QED
    BY <2>1, <2>2
<1>9. RootUncalled' /\ TryHasCaller'
  BY <1>5, <1>6, <1>8 DEF TypeOK, RootUncalled, TryHasCaller
<1>10. ~transferred =>
         \A g \in Fiber : Called(g)' =>
           /\ Called(g) /\ g \notin V /\ caller'[g] = caller[g]
           /\ caller[g] \in Fiber /\ caller[g] \notin V
  <2> SUFFICES ASSUME ~transferred, NEW g \in Fiber, Called(g)'
               PROVE  /\ Called(g) /\ g \notin V /\ caller'[g] = caller[g]
                      /\ caller[g] \in Fiber /\ caller[g] \notin V
    OBVIOUS
  <2>1. Called(g) /\ g \notin V /\ caller'[g] = caller[g] /\ caller[g] \in Fiber
    BY <1>6, <1>8 DEF Called, TypeOK
  <2>2. ASSUME NEW i \in 0..n, caller[g] = w[i]
        PROVE  FALSE
    <3>1. CASE i = 0
      BY <1>1, <1>4, <2>1, <2>2, <3>1 DEF Walk, Nested
    <3>2. CASE i # 0
      <4>1. i - 1 \in 0..n - 1 /\ w[i - 1] \in V
        BY <1>5, <3>2
      <4>2. Called(w[i - 1])
        BY <1>4, <1>5, <4>1, WalkCalled DEF RuntimeError
      <4>3. caller[w[i - 1]] = w[i - 1 + 1] /\ w[i - 1] \in Fiber /\ i - 1 + 1 = i
        BY <1>4, <1>5, <4>1 DEF Walk
      <4> QED
        BY <2>1, <2>2, <4>1, <4>2, <4>3 DEF Nested
    <3> QED
      BY <3>1, <3>2
  <2> QED
    BY <2>1, <2>2
<1>11. CASE state[w[n]] # "TRY"
  <2>1. fiber' = NULL /\ running' = FALSE /\ api' = FALSE /\ fault' = fault
    BY <1>4, <1>11 DEF Leave
  <2> HIDE DEF U, V
  <2>2. TypeOK' /\ ApiReady'
    BY <1>5, <1>6, <1>8, <2>1 DEF TypeOK, ApiReady
  <2>3. Unborn'
    BY <1>5, <1>6, <1>8, <1>81, <2>1 DEF Unborn, TypeOK
  <2>4. Nested'
    <3> SUFFICES ASSUME ~transferred
                 PROVE  Nested'
      BY <1>8 DEF Nested
    <3>1. \A g \in Fiber : Placed(g) /\ g \notin V => Placed(g)' /\ (g \notin error => g \notin error')
      BY <1>6, <1>8 DEF Placed, TypeOK
    <3> QED
      BY <1>8, <1>10, <2>1, <3>1 DEF Nested
  <2> QED
    BY <1>9, <2>2, <2>3, <2>4
<1>12. CASE state[w[n]] = "TRY"
  <2> DEFINE r == caller[w[n]]
  <2>1. LoadFrame(r)
    BY <1>4, <1>12
  <2>2. /\ r \in Fiber \cup {NULL}
        /\ r # NULL => frames[r] # "none"
    BY <1>5 DEF TypeOK, Unborn
  <2> HIDE DEF U, V
  <2>3. /\ fiber' = r /\ fault' \in {"none", "frame", "null"}
        /\ fault' = "none" => r # NULL
        /\ r # NULL /\ frames[r] = "some" => fault' = "none"
        /\ UNCHANGED <<running, api>>
    BY <1>8, <2>1 DEF LoadFrame
  <2> HIDE DEF r
  <2>4. TypeOK' /\ ApiReady'
    BY <1>1, <1>5, <1>6, <1>8, <2>2, <2>3 DEF TypeOK, ApiReady
  <2>5. Unborn'
    BY <1>5, <1>6, <1>8, <1>81, <2>2, <2>3 DEF Unborn, TypeOK
  <2>6. Nested'
    <3> SUFFICES ASSUME ~transferred
                 PROVE  Nested'
      BY <1>8 DEF Nested
    <3>1. Placed(w[n]) /\ (w[n] \notin error \/ w[n] = fiber)
      <4>1. CASE n = 0
        BY <1>1, <1>4, <4>1 DEF Walk, Nested
      <4>2. CASE n # 0
        <5>1. n - 1 \in 0..n - 1 /\ n - 1 \in 0..n /\ n - 1 + 1 = n
          BY <1>5, <4>2
        <5>2. Called(w[n - 1])
          BY <1>4, <1>5, <5>1, WalkCalled DEF RuntimeError
        <5>3. caller[w[n - 1]] = w[n] /\ w[n - 1] \in Fiber
          BY <1>4, <5>1 DEF Walk
        <5> QED
          BY <5>2, <5>3 DEF Nested
      <4> QED
        BY <4>1, <4>2
    <3>2. r # NULL /\ Called(w[n])
      BY <1>5, <1>12, <3>1 DEF Placed, Called, r, RuntimeError
    <3>3. r \in Fiber /\ Placed(r) /\ r \notin error
      BY <1>5, <2>2, <3>2 DEF Nested, r
    <3>4. r \notin V
      <4> SUFFICES ASSUME NEW i \in 0..n, r = w[i]
                   PROVE  FALSE
        BY DEF V
      <4>1. CASE i = 0
        BY <1>1, <1>4, <1>5, <3>2, <4>1 DEF Walk, Nested, r
      <4>2. CASE i # 0
        <5>1. i - 1 \in 0..n - 1 /\ i - 1 \in 0..n /\ i - 1 + 1 = i
          BY <1>5, <4>2
        <5>2. Called(w[i - 1])
          BY <1>4, <1>5, <5>1, WalkCalled DEF RuntimeError
        <5>3. caller[w[i - 1]] = w[i] /\ w[i - 1] \in Fiber
          BY <1>4, <5>1 DEF Walk
        <5>4. w[i - 1] = w[n]
          BY <1>5, <3>2, <5>2, <5>3 DEF Nested, r
        <5> QED
          BY <1>4, <1>5, <5>1, <5>4 DEF Walk
      <4> QED
        BY <4>1, <4>2
    <3>5. \A g \in Fiber : Placed(g) /\ g \notin V => Placed(g)' /\ (g \notin error => g \notin error')
      BY <1>6, <1>8 DEF Placed, TypeOK
    <3>6. fault' = "none"
      BY <2>3, <3>2, <3>3 DEF Placed
    <3>7. \A g \in Fiber : Called(g)' => caller[g] # r
      BY <1>5, <1>10, <3>2 DEF Nested, r
    <3> QED
      BY <1>1, <1>8, <1>10, <2>3, <3>2, <3>3, <3>4, <3>5, <3>6, <3>7 DEF Nested
  <2> QED
    BY <1>9, <2>4, <2>5, <2>6
<1> QED
  BY <1>11, <1>12

\* One step of the program, whichever it is, preserves the invariant.
LEMMA StepIInv ==
  ASSUME IInv, [Next]_vars
  PROVE  IInv'
<1>1. CASE UNCHANGED vars
  BY <1>1 DEF vars, fiberVars, hostVars, IInv, TypeOK, Unborn, RootUncalled, TryHasCaller,
              ApiReady, Nested, Called, Placed
<1>2. CASE fault = "none" /\ HostStep
  BY <1>2, InterpretIInv, EnsureSlotsIInv, HostCallIInv DEF HostStep
<1>3. CASE fault = "none" /\ RuntimeError
  BY <1>3, RuntimeErrorIInv
<1>4. CASE fault = "none" /\ running /\ ~raised /\ Primitive
  <2> USE <1>4
  <2>1. ASSUME NEW f \in Fiber, New(f)
        PROVE  IInv'
    BY <2>1, NewIInv
  <2>2. ASSUME NEW f \in Fiber, Call(f)
        PROVE  IInv'
    <3>1. Switch(f, TRUE, state[f]) /\ transferred' = transferred /\ transferred \in BOOLEAN
      BY <2>2 DEF Call, IInv, TypeOK
    <3>2. CASE Refused(f, TRUE)
      BY <3>1, <3>2, RefusedIInv
    <3>3. CASE ~Refused(f, TRUE)
      BY <3>1, <3>3, AcceptedIInv
    <3> QED
      BY <3>2, <3>3
  <2>3. ASSUME NEW f \in Fiber, Try(f)
        PROVE  IInv'
    <3>1. Switch(f, TRUE, "TRY") /\ transferred' = transferred /\ transferred \in BOOLEAN
      BY <2>3 DEF Try, IInv, TypeOK
    <3>2. CASE Refused(f, TRUE)
      BY <3>1, <3>2, RefusedIInv
    <3>3. CASE ~Refused(f, TRUE)
      BY <3>1, <3>3, AcceptedIInv
    <3> QED
      BY <3>2, <3>3
  <2>4. ASSUME NEW f \in Fiber, Transfer(f)
        PROVE  IInv'
    <3>1. Switch(f, FALSE, state[f]) /\ transferred' = TRUE
      BY <2>4 DEF Transfer
    <3>2. CASE Refused(f, FALSE)
      BY <3>1, <3>2, RefusedIInv
    <3>3. CASE ~Refused(f, FALSE)
      BY <3>1, <3>3, AcceptedIInv
    <3> QED
      BY <3>2, <3>3
  <2>5. ASSUME NEW f \in Fiber, NEW isNull \in BOOLEAN, TransferError(f, isNull)
        PROVE  IInv'
    BY <2>5, TransferErrorIInv
  <2>6. ASSUME NEW isNull \in BOOLEAN, Abort(isNull)
        PROVE  IInv'
    BY <2>6, AbortIInv
  <2>7. CASE ForeignCall
    BY <2>7, ForeignCallIInv
  <2>8. CASE Yield
    BY <2>8, YieldIInv
  <2>9. CASE Suspend
    BY <2>9, SuspendIInv
  <2>10. CASE Return
    BY <2>10, ReturnIInv
  <2> QED
    BY <2>1, <2>2, <2>3, <2>4, <2>5, <2>6, <2>7, <2>8, <2>9, <2>10 DEF Primitive
<1> QED
  BY <1>1, <1>2, <1>3, <1>4 DEF Next

-----------------------------------------------------------------------------
(* The theorems.                                                           *)

\* The inductive invariant of the fiber primitives, of runtimeError and of the
\* host's entry points holds in every reachable state.
THEOREM Invariance == Spec => []IInv
BY InitIInv, StepIInv, PTL DEF Spec

\* The fields of every fiber and of the VM keep to their types.
THEOREM TypeCorrect == Spec => []TypeOK
<1>1. IInv => TypeOK
  BY DEF IInv
<1> QED
  BY <1>1, Invariance, PTL

\* A fiber the host has entered (state FIBER_ROOT) never gets a caller: runFiber
\* refuses it, and nothing else writes a caller.
THEOREM RootStaysUncalled == Spec => []RootUncalled
<1>1. IInv => RootUncalled
  BY DEF IInv
<1> QED
  BY <1>1, Invariance, PTL

\* runtimeError finds a caller to hand the error to, whenever the fiber marked as
\* run by try() has code left to run.
THEOREM TryCaught == Spec => []TryHasCaller
<1>1. IInv => TryHasCaller
  BY DEF IInv
<1> QED
  BY <1>1, Invariance, PTL

\* wrenCall always finds the API stack of a fiber that has no frames, has no
\* caller, and is not being run.
THEOREM ApiStackReady == Spec => []ApiReady
<1>1. IInv => ApiReady
  BY DEF IInv
<1> QED
  BY <1>1, Invariance, PTL

\* In a program that uses neither transfer() nor transferError(), call, try,
\* yield, return and the unwinding of errors never reach a fiber without frames,
\* nor a caller that is not there.
THEOREM NeverStrays == Spec => []OnlyTransferStrays
<1>1. IInv => OnlyTransferStrays
  BY DEF IInv, TypeOK, Nested, OnlyTransferStrays
<1> QED
  BY <1>1, Invariance, PTL

\* In such a program no fiber runs again once it has been aborted by an error.
THEOREM AbortedStaysOver == Spec => AbortedIsOver
<1> DEFINE Over ==
      \A f \in Fiber : f \in error /\ f \in error' /\ ~raised' /\ running' /\ fiber' = f
        => transferred'
<1>1. IInv /\ IInv' => Over
  BY DEF IInv, TypeOK, Nested, Over
<1>2. IInv /\ IInv' => [Over]_vars
  BY <1>1
<1> QED
  BY <1>2, Invariance, PTL DEF AbortedIsOver

-----------------------------------------------------------------------------
(* The refinement of FiberStack.  The fibers from the one the host has     *)
(* entered to the running one are the only sequence that ends with         *)
(* vm->fiber and in which each fiber is the caller of the next (IsChain).  *)
(* So it is enough to name that sequence after every step.                 *)

\* c is the running fiber and those that wait for it, the running one last.
IsChain(c) ==
  /\ c \in Seq(Fiber)
  /\ running <=> Len(c) > 0
  /\ Len(c) > 0 => c[Len(c)] = fiber /\ caller[c[1]] = NULL
  /\ \A i \in 1..Len(c) - 1 : c[i] = caller[c[i + 1]]

\* What the fibers of the chain have in common
Waiting(c) ==
  /\ \A i \in 1..Len(c) : Placed(c[i])
  /\ \A i \in 1..Len(c) - 1 : c[i] \notin error /\ c[i] # fiber
  /\ \A i, j \in 1..Len(c) : c[i] = c[j] => i = j

-----------------------------------------------------------------------------
(* There is such a sequence, and it is the one of the refinement mapping.  *)

\* Up goes from caller to caller.
LEMMA UpIsFunction ==
  ASSUME TypeOK
  PROVE  /\ Up \in [0..Cardinality(Fiber) -> Fiber \cup {NULL}]
         /\ Up[0] = fiber
         /\ \A i \in 1..Cardinality(Fiber) :
              Up[i] = IF Up[i - 1] = NULL THEN NULL ELSE caller[Up[i - 1]]
<1> DEFINE C == Cardinality(Fiber)
           T == Fiber \cup {NULL}
           next(x) == IF x = NULL THEN NULL ELSE caller[x]
           step == [i \in 1..C |-> [x \in T |-> next(x)]]
           Is(f) == f = [n \in 0..C |-> IF n = 0 THEN fiber ELSE next(f[n - 1])]
           up == CHOOSE f : Is(f)
<1>1. C \in Nat
  BY FiberAssumption, FS_CardinalityType
<1>2. fiber \in T /\ \A x \in T : next(x) \in T
  BY DEF TypeOK
<1>3. PICK f \in [0..C -> T] : Recursion(f, C, fiber, step)
  <2>1. step \in [1..C -> [T -> T]]
    <3> HIDE DEF T, C, next
    <3> QED
      BY <1>2
  <2> HIDE DEF T, C, step
  <2> QED
    BY <1>1, <1>2, <2>1, RecursionExists
<1>4. f[0] = fiber /\ \A i \in 1..C : f[i] = next(f[i - 1])
  <2>1. f[0] = fiber
    BY <1>3 DEF Recursion
  <2> SUFFICES ASSUME NEW i \in 1..C PROVE f[i] = next(f[i - 1])
    BY <2>1
  <2>2. f[i - 1] \in T
    BY <1>1, <1>3
  <2>3. f[i] = step[i][f[i - 1]]
    BY <1>3 DEF Recursion
  <2> HIDE DEF T, C, next
  <2> QED
    BY <2>2, <2>3
<1>5. Is(f)
  <2> HIDE DEF T, C, next
  <2> QED
    BY <1>1, <1>3, <1>4
<1>6. Is(up)
  <2> HIDE DEF Is
  <2> QED
    BY <1>5
<1>7. Up = up
  BY DEF Up
<1> HIDE DEF up
<1>8. up[0] = fiber /\ \A i \in 1..C : up[i] = next(up[i - 1])
  <2> HIDE DEF C, next
  <2> QED
    BY <1>1, <1>6
<1>9. up \in [0..C -> T]
  <2> DEFINE S == {i \in 0..C : up[i] \in T}
  <2> HIDE DEF C, T, next
  <2>1. 0 \in S
    BY <1>1, <1>2, <1>8
  <2>2. ASSUME NEW i \in 0..C, i < C, i \in S PROVE i + 1 \in S
    <3>1. up[i + 1] = next(up[i]) /\ i + 1 \in 0..C
      BY <1>1, <1>8, <2>2
    <3> QED
      BY <1>2, <2>2, <3>1
  <2> HIDE DEF S
  <2>3. 0..C \subseteq S
    BY <1>1, <2>1, <2>2, IntervalInduction
  <2>4. \A i \in 0..C : up[i] \in T
    BY <2>3 DEF S
  <2> QED
    BY <1>6, <2>4
<1> QED
  BY <1>7, <1>8, <1>9

\* A fiber on the way up is waiting, and so is its caller.
LEMMA UpWaits ==
  ASSUME IInv, running, ~transferred
  PROVE  \A n \in 0..Cardinality(Fiber) :
           Up[n] # NULL => /\ Up[n] \in Fiber /\ Placed(Up[n])
                           /\ n > 0 => Up[n] \notin error /\ Called(Up[n - 1])
                           /\ caller[Up[n]] # NULL => Called(Up[n])
<1> DEFINE C == Cardinality(Fiber)
           Good(n) == Up[n] # NULL => /\ Up[n] \in Fiber /\ Placed(Up[n])
                                      /\ n > 0 => Up[n] \notin error /\ Called(Up[n - 1])
                                      /\ caller[Up[n]] # NULL => Called(Up[n])
           S == {n \in 0..C : Good(n)}
<1>1. C \in Nat
  BY FiberAssumption, FS_CardinalityType
<1>2. /\ Up \in [0..C -> Fiber \cup {NULL}] /\ Up[0] = fiber
      /\ \A i \in 1..C : Up[i] = IF Up[i - 1] = NULL THEN NULL ELSE caller[Up[i - 1]]
  BY UpIsFunction DEF IInv
<1> HIDE DEF C
<1>3. 0 \in S
  BY <1>1, <1>2 DEF IInv, Nested, Placed, Called
<1>4. ASSUME NEW i \in 0..C, i < C, i \in S PROVE i + 1 \in S
  <2>1. i + 1 \in 1..C /\ (i + 1) - 1 = i
    BY <1>1, <1>4
  <2>2. SUFFICES ASSUME Up[i + 1] # NULL PROVE Good(i + 1)
    BY <2>1
  <2>3. Up[i] # NULL /\ Up[i + 1] = caller[Up[i]] /\ Up[i] \in Fiber
    BY <1>2, <2>1, <2>2
  <2>4. Called(Up[i])
    BY <1>4, <2>2, <2>3
  <2>5. Placed(Up[i + 1]) /\ Up[i + 1] \notin error
    BY <2>3, <2>4 DEF IInv, Nested
  <2>6. Up[i + 1] \in Fiber
    BY <1>2, <2>1, <2>2
  <2> QED
    BY <2>1, <2>4, <2>5, <2>6 DEF Placed, Called
<1> HIDE DEF S
<1>5. 0..C \subseteq S
  BY <1>1, <1>3, <1>4, IntervalInduction
<1> QED
  BY <1>5 DEF S, C

\* No fiber is met twice.
LEMMA UpDistinct ==
  ASSUME IInv, running, ~transferred
  PROVE  \A i, j \in 0..Cardinality(Fiber) : i < j /\ Up[j] # NULL => Up[i] # Up[j]
<1> DEFINE C == Cardinality(Fiber)
           Good(i) == \A j \in 0..C : i < j /\ Up[j] # NULL => Up[i] # Up[j]
           S == {i \in 0..C : Good(i)}
<1>1. C \in Nat
  BY FiberAssumption, FS_CardinalityType
<1>2. /\ Up \in [0..C -> Fiber \cup {NULL}] /\ Up[0] = fiber
      /\ \A i \in 1..C : Up[i] = IF Up[i - 1] = NULL THEN NULL ELSE caller[Up[i - 1]]
  BY UpIsFunction DEF IInv
<1>w. \A n \in 0..C : n > 0 /\ Up[n] # NULL => Called(Up[n - 1])
  BY UpWaits
<1> HIDE DEF C
<1>3. ASSUME NEW j \in 1..C, Up[j] # NULL
      PROVE  Up[j - 1] \in Fiber /\ Called(Up[j - 1]) /\ caller[Up[j - 1]] = Up[j]
  <2>1. j \in 0..C /\ j > 0 /\ j - 1 \in 0..C
    BY <1>1
  <2>2. Up[j - 1] # NULL /\ Up[j] = caller[Up[j - 1]]
    BY <1>2, <1>3
  <2> QED
    BY <1>2, <1>3, <1>w, <2>1, <2>2
<1>4. 0 \in S
  <2>1. ASSUME NEW j \in 0..C, 0 < j, Up[j] # NULL PROVE fiber # Up[j]
    <3>1. j \in 1..C
      BY <1>1, <2>1
    <3> QED
      BY <1>3, <2>1, <3>1 DEF IInv, Nested
  <2> QED
    BY <1>1, <1>2, <2>1
<1>5. ASSUME NEW i \in 0..C, i < C, i \in S PROVE i + 1 \in S
  <2>1. i + 1 \in 1..C /\ (i + 1) - 1 = i
    BY <1>1, <1>5
  <2>2. SUFFICES ASSUME NEW j \in 0..C, i + 1 < j, Up[j] # NULL, Up[i + 1] = Up[j] PROVE FALSE
    BY <2>1
  <2>3. j \in 1..C /\ j - 1 \in 0..C /\ i < j - 1
    BY <1>1, <2>2
  <2>4. /\ Up[j - 1] \in Fiber /\ Called(Up[j - 1]) /\ caller[Up[j - 1]] = Up[j]
        /\ Up[i] \in Fiber /\ Called(Up[i]) /\ caller[Up[i]] = Up[j]
    BY <1>3, <2>1, <2>2, <2>3
  <2>5. Up[i] = Up[j - 1]
    BY <2>4 DEF IInv, Nested
  <2> QED
    BY <1>5, <2>3, <2>4, <2>5, FiberAssumption
<1> HIDE DEF S
<1>6. 0..C \subseteq S
  BY <1>1, <1>4, <1>5, IntervalInduction
<1> QED
  BY <1>6 DEF S, C

\* The way up ends, as there are no more fibers to meet.
LEMMA UpEnds ==
  ASSUME IInv, running, ~transferred
  PROVE  \E d \in 1..Cardinality(Fiber) :
           Up[d] = NULL /\ \A n \in 0..Cardinality(Fiber) : Up[n] # NULL <=> n < d
<1> DEFINE C == Cardinality(Fiber)
           S == {n \in 0..C : Up[n] = NULL}
<1>1. C \in Nat /\ IsFiniteSet(Fiber)
  BY FiberAssumption, FS_CardinalityType
<1>2. /\ Up \in [0..C -> Fiber \cup {NULL}] /\ Up[0] = fiber
      /\ \A i \in 1..C : Up[i] = IF Up[i - 1] = NULL THEN NULL ELSE caller[Up[i - 1]]
  BY UpIsFunction DEF IInv
<1>3. S # {}
  <2> SUFFICES ASSUME S = {} PROVE FALSE
    OBVIOUS
  <2>1. Up \in [0..C -> Fiber]
    BY <1>2
  <2>2. IsFiniteSet(0..C) /\ Cardinality(0..C) = C + 1
    BY <1>1, FS_Interval
  <2>3. PICK x, y \in 0..C : x # y /\ Up[x] = Up[y]
    <3> HIDE DEF S
    <3> QED
      BY <1>1, <2>1, <2>2, FS_PigeonHole
  <2>4. Up[x] # NULL
    BY <2>1, FiberAssumption
  <2>5. \A i, j \in 0..C : i < j /\ Up[j] # NULL => Up[i] # Up[j]
    BY UpDistinct
  <2> HIDE DEF S, C
  <2> QED
    BY <1>1, <2>3, <2>4, <2>5
<1> HIDE DEF C
<1>4. PICK d \in S : \A n \in S : d <= n
  <2>1. S \in SUBSET Nat
    BY <1>1
  <2> HIDE DEF S
  <2> QED
    BY <1>3, <2>1, LeastNatural
<1>5. d \in 0..C /\ Up[d] = NULL
  OBVIOUS
<1>6. d # 0
  BY <1>2, <1>5, FiberAssumption DEF IInv, Nested, Placed, ApiReady
<1>7. ASSUME NEW n \in 0..C, n < d PROVE Up[n] # NULL
  BY <1>1, <1>4, <1>5, <1>7
<1>8. ASSUME NEW n \in 0..C, n >= d PROVE Up[n] = NULL
  <2> DEFINE T == {k \in 0..C : k >= d => Up[k] = NULL}
  <2>1. 0 \in T
    BY <1>1, <1>5, <1>6
  <2>2. ASSUME NEW k \in 0..C, k < C, k \in T PROVE k + 1 \in T
    <3>1. k + 1 \in 1..C /\ (k + 1) - 1 = k
      BY <1>1, <2>2
    <3>2. Up[k + 1] = IF Up[k] = NULL THEN NULL ELSE caller[Up[k]]
      BY <1>2, <3>1
    <3> QED
      BY <1>1, <1>5, <2>2, <3>1, <3>2
  <2> HIDE DEF T
  <2>3. 0..C \subseteq T
    BY <1>1, <2>1, <2>2, IntervalInduction
  <2> QED
    BY <1>8, <2>3 DEF T
<1> HIDE DEF S
<1> QED
  BY <1>1, <1>5, <1>6, <1>7, <1>8 DEF C

LEMMA DepthIsLength ==
  ASSUME NEW d \in 1..Cardinality(Fiber), running,
         \A n \in 0..Cardinality(Fiber) : Up[n] # NULL <=> n < d
  PROVE  Depth = d
<1>1. Cardinality(Fiber) \in Nat
  BY FiberAssumption, FS_CardinalityType
<1>2. {n \in 0..Cardinality(Fiber) - 1 : running /\ Up[n] # NULL} = 0..d - 1
  BY <1>1
<1>3. Cardinality(0..d - 1) = d
  BY <1>1, FS_Interval
<1> QED
  BY <1>2, <1>3 DEF Depth

LEMMA ChainOfRunning ==
  ASSUME IInv, running, ~transferred
  PROVE  IsChain(chain) /\ Waiting(chain)
<1> DEFINE C == Cardinality(Fiber)
<1>1. C \in Nat
  BY FiberAssumption, FS_CardinalityType
<1>2. PICK d \in 1..C : Up[d] = NULL /\ \A n \in 0..C : Up[n] # NULL <=> n < d
  BY UpEnds
<1>3. chain = [i \in 1..d |-> Up[d - i]]
  BY <1>2, DepthIsLength DEF chain
<1>4. /\ Up \in [0..C -> Fiber \cup {NULL}] /\ Up[0] = fiber
      /\ \A i \in 1..C : Up[i] = IF Up[i - 1] = NULL THEN NULL ELSE caller[Up[i - 1]]
  BY UpIsFunction DEF IInv
<1>5. /\ \A n \in 0..C : Up[n] # NULL => Placed(Up[n])
      /\ \A n \in 0..C : Up[n] # NULL /\ n > 0 => Up[n] \notin error
      /\ \A i, j \in 0..C : i < j /\ Up[j] # NULL => Up[i] # Up[j]
  BY UpWaits, UpDistinct
<1> HIDE DEF C
<1>6. \A i \in 1..d : d - i \in 0..C /\ d - i < d /\ Up[d - i] \in Fiber
  BY <1>1, <1>2, <1>4
<1>7. chain \in Seq(Fiber) /\ Len(chain) = d /\ \A i \in 1..d : chain[i] = Up[d - i]
  <2>1. d \in Nat
    BY <1>1
  <2>2. chain \in [1..d -> Fiber]
    BY <1>3, <1>6
  <2> QED
    BY <1>3, <2>1, <2>2
<1>8. IsChain(chain)
  <2>1. chain[d] = fiber
    BY <1>1, <1>4, <1>7
  <2>2. caller[chain[1]] = NULL
    <3>1. d \in 1..C /\ d - 1 \in 0..C /\ 1 \in 1..d
      BY <1>1
    <3>2. Up[d] = caller[Up[d - 1]]
      BY <1>2, <1>4, <3>1
    <3> QED
      BY <1>2, <1>7, <3>1, <3>2
  <2>3. ASSUME NEW i \in 1..d - 1 PROVE chain[i] = caller[chain[i + 1]]
    <3>1. d - i \in 1..C /\ (d - i) - 1 = d - (i + 1) /\ i \in 1..d /\ i + 1 \in 1..d
      BY <1>1
    <3>2. Up[d - i] = caller[Up[d - (i + 1)]]
      BY <1>2, <1>4, <3>1
    <3> QED
      BY <1>7, <3>1, <3>2
  <2>4. d > 0 /\ d \in Nat
    BY <1>1
  <2> QED
    BY <1>7, <2>1, <2>2, <2>3, <2>4 DEF IsChain
<1>9. Waiting(chain)
  <2>1. ASSUME NEW i \in 1..d PROVE Placed(chain[i])
    <3>1. d - i \in 0..C /\ Up[d - i] # NULL /\ chain[i] = Up[d - i]
      BY <1>2, <1>6, <1>7, <2>1
    <3> QED
      BY <1>5, <3>1
  <2>2. ASSUME NEW i \in 1..d - 1 PROVE chain[i] \notin error /\ chain[i] # fiber
    <3>1. i \in 1..d /\ d - i > 0 /\ d - i \in 0..C /\ 0 \in 0..C /\ d - i < d
      BY <1>1
    <3>2. Up[d - i] # NULL
      BY <1>2, <3>1
    <3>3. Up[d - i] \notin error
      BY <1>5, <3>1, <3>2
    <3>4. Up[0] # Up[d - i]
      BY <1>5, <3>1, <3>2
    <3> QED
      BY <1>4, <1>7, <3>1, <3>3, <3>4
  <2>3. ASSUME NEW i \in 1..d, NEW j \in 1..d, chain[i] = chain[j] PROVE i = j
    <3>1. /\ d - i \in 0..C /\ d - j \in 0..C /\ Up[d - i] # NULL /\ Up[d - j] # NULL
          /\ Up[d - i] = Up[d - j]
      BY <1>2, <1>6, <1>7, <2>3
    <3>2. ~(d - i < d - j) /\ ~(d - j < d - i)
      BY <1>5, <3>1
    <3> QED
      BY <3>1, <3>2
  <2> QED
    BY <1>7, <2>1, <2>2, <2>3 DEF Waiting
<1> QED
  BY <1>8, <1>9

LEMMA ChainOfHost ==
  ASSUME ~running
  PROVE  chain = <<>> /\ IsChain(chain) /\ Waiting(chain)
<1>1. Depth = 0
  <2>1. {n \in 0..Cardinality(Fiber) - 1 : running /\ Up[n] # NULL} = {}
    OBVIOUS
  <2> QED
    BY <2>1, FS_EmptySet DEF Depth
<1>2. chain = <<>>
  BY <1>1 DEF chain
<1> QED
  BY <1>2 DEF IsChain, Waiting

\* There are not two of them.
LEMMA ChainIsUnique ==
  ASSUME TypeOK, NEW c, NEW e, IsChain(c), IsChain(e)
  PROVE  c = e
<1> DEFINE m == Len(c)
           k == Len(e)
           S == {j \in 0..m : j < m /\ j < k => c[m - j] = e[k - j]}
<1>1. /\ c \in Seq(Fiber) /\ e \in Seq(Fiber) /\ m \in Nat /\ k \in Nat
      /\ m > 0 <=> k > 0
      /\ \A i \in 1..m : c[i] \in Fiber
      /\ \A i \in 1..k : e[i] \in Fiber
  BY LenProperties, ElementOfSeq DEF IsChain
<1>2. /\ m > 0 => c[m] = fiber /\ e[k] = fiber /\ caller[c[1]] = NULL /\ caller[e[1]] = NULL
      /\ \A i \in 1..m - 1 : c[i] = caller[c[i + 1]]
      /\ \A i \in 1..k - 1 : e[i] = caller[e[i + 1]]
  BY <1>1 DEF IsChain
<1> HIDE DEF m, k
<1>3. 0 \in S
  BY <1>1, <1>2
<1>4. ASSUME NEW j \in 0..m, j < m, j \in S PROVE j + 1 \in S
  <2> SUFFICES ASSUME j + 1 < m, j + 1 < k PROVE c[m - (j + 1)] = e[k - (j + 1)]
    BY <1>1, <1>4
  <2>1. c[m - j] = e[k - j]
    BY <1>1, <1>4
  <2>2. /\ m - (j + 1) \in 1..m - 1 /\ k - (j + 1) \in 1..k - 1
        /\ m - (j + 1) + 1 = m - j /\ k - (j + 1) + 1 = k - j
    BY <1>1, <1>4
  <2> QED
    BY <1>2, <2>1, <2>2
<1> HIDE DEF S
<1>5. 0..m \subseteq S
  BY <1>1, <1>3, <1>4, IntervalInduction
<1>6. \A j \in 0..m : j < m /\ j < k => c[m - j] = e[k - j]
  BY <1>5 DEF S
<1>7. ~(m < k)
  <2> SUFFICES ASSUME m < k PROVE FALSE
    OBVIOUS
  <2>1. m > 0
    BY <1>1
  <2>2. c[1] = e[k - (m - 1)]
    <3>1. m - 1 \in 0..m /\ m - 1 < m /\ m - 1 < k /\ m - (m - 1) = 1
      BY <1>1, <2>1
    <3> QED
      BY <1>6, <3>1
  <2>3. k - m \in 1..k - 1 /\ k - m + 1 = k - (m - 1) /\ k - m \in 1..k
    BY <1>1, <2>1
  <2>4. e[k - m] = NULL
    BY <1>2, <2>1, <2>2, <2>3
  <2> QED
    BY <1>1, <2>3, <2>4, FiberAssumption
<1>8. ~(k < m)
  <2> SUFFICES ASSUME k < m PROVE FALSE
    OBVIOUS
  <2>1. k > 0 /\ m > 0
    BY <1>1
  <2>2. e[1] = c[m - (k - 1)]
    <3>1. k - 1 \in 0..m /\ k - 1 < m /\ k - 1 < k /\ k - (k - 1) = 1
      BY <1>1, <2>1
    <3> QED
      BY <1>6, <3>1
  <2>3. m - k \in 1..m - 1 /\ m - k + 1 = m - (k - 1) /\ m - k \in 1..m
    BY <1>1, <2>1
  <2>4. c[m - k] = NULL
    BY <1>2, <2>1, <2>2, <2>3
  <2> QED
    BY <1>1, <2>3, <2>4, FiberAssumption
<1>9. m = k
  BY <1>1, <1>7, <1>8
<1>10. ASSUME NEW i \in 1..m PROVE c[i] = e[i]
  <2>1. m - i \in 0..m /\ m - i < m /\ m - (m - i) = i
    BY <1>1
  <2> QED
    BY <1>6, <1>9, <2>1
<1> QED
  BY <1>1, <1>9, <1>10, SeqEqual DEF m, k

-----------------------------------------------------------------------------
(* The stack of FiberStack                                                 *)

\* Being marked as run by try() is all that the stack keeps of a fiber.
SameMark(f) == state'[f] = "TRY" <=> state[f] = "TRY"

LEMMA SameTruth ==
  ASSUME NEW x, NEW y, x = "TRY" <=> y = "TRY"
  PROVE  (x = "TRY") = (y = "TRY")
<1>1. CASE x = "TRY"
  BY <1>1
<1>2. CASE x # "TRY"
  BY <1>2
<1> QED
  BY <1>1, <1>2

StackOfChain ==
  /\ stack \in Seq(Fiber \X BOOLEAN)
  /\ Len(stack) = Len(chain)
  /\ \A i \in 1..Len(chain) : stack[i] = <<chain[i], state[chain[i]] = "TRY">>

Linked ==
  /\ IsChain(chain) /\ Waiting(chain)
  /\ \A c : IsChain(c) => c = chain
  /\ StackOfChain

LEMMA ChainsAreLinked == IInv => (~transferred => Linked)
<1> SUFFICES ASSUME IInv, ~transferred PROVE Linked
  OBVIOUS
<1>1. IsChain(chain) /\ Waiting(chain) /\ \A c : IsChain(c) => c = chain
  BY ChainOfRunning, ChainOfHost, ChainIsUnique DEF IInv
<1>2. Depth \in Nat
  <2>1. IsFiniteSet(0..Cardinality(Fiber) - 1)
    BY FiberAssumption, FS_CardinalityType, FS_Interval
  <2> QED
    BY <2>1, FS_Subset, FS_CardinalityType DEF Depth
<1>3. chain \in Seq(Fiber) /\ DOMAIN chain = 1..Depth
  BY <1>1 DEF IsChain, chain
<1>4. Len(chain) = Depth
  BY <1>2, <1>3, LenProperties
<1>5. \A i \in 1..Depth : chain[i] \in Fiber
  BY <1>3, <1>4, ElementOfSeq
<1>6. stack \in [1..Depth -> Fiber \X BOOLEAN] /\ stack \in Seq(Fiber \X BOOLEAN)
  <2>1. \A i \in 1..Depth : <<chain[i], state[chain[i]] = "TRY">> \in Fiber \X BOOLEAN
    BY <1>5
  <2>2. stack \in [1..Depth -> Fiber \X BOOLEAN]
    BY <2>1, Zenon DEF stack
  <2> QED
    BY <1>2, <2>2
<1>7. Len(stack) = Depth
  BY <1>2, <1>6, LenProperties
<1> QED
  BY <1>1, <1>4, <1>6, <1>7 DEF Linked, StackOfChain, stack

LEMMA StillLinked ==
  ASSUME IInv, IInv', ~transferred, ~transferred'
  PROVE  Linked /\ Linked'
<1>1. IInv' => (~transferred => Linked)'
  BY ChainsAreLinked, PTL
<1> QED
  BY <1>1, ChainsAreLinked

\* Popping the running fiber, or several, or none
LEMMA Popped ==
  ASSUME Linked, Linked', NEW k \in 0..Len(chain),
         running' <=> k > 0, k > 0 => fiber' = chain[k],
         \A i \in 1..k : caller'[chain[i]] = caller[chain[i]],
         \A i \in 1..k : SameMark(chain[i])
  PROVE  stack' = SubSeq(stack, 1, k)
<1> DEFINE t == SubSeq(chain, 1, k)
           u == SubSeq(stack, 1, k)
<1>1. /\ chain \in Seq(Fiber) /\ Len(chain) \in Nat /\ \A i \in 1..Len(chain) : chain[i] \in Fiber
      /\ Len(chain) > 0 => caller[chain[1]] = NULL
      /\ \A i \in 1..Len(chain) - 1 : chain[i] = caller[chain[i + 1]]
  BY LenProperties, ElementOfSeq DEF Linked, IsChain
<1>2. t \in Seq(Fiber) /\ Len(t) = k /\ \A i \in 1..k : t[i] = chain[i]
  <2>1. k \in Nat /\ \A i \in 1..k : chain[i] \in Fiber
    BY <1>1
  <2> QED
    BY <2>1, SubSeqProperties
<1>3. chain' = t
  <2> HIDE DEF t
  <2>1. t \in Seq(Fiber) /\ (running' <=> Len(t) > 0)
    BY <1>2
  <2>2. Len(t) > 0 => t[Len(t)] = fiber' /\ caller'[t[1]] = NULL
    BY <1>1, <1>2
  <2>3. ASSUME NEW i \in 1..Len(t) - 1 PROVE t[i] = caller'[t[i + 1]]
    <3>1. i \in 1..k /\ i + 1 \in 1..k /\ i \in 1..Len(chain) - 1
      BY <1>1, <1>2, <2>3
    <3> QED
      BY <1>1, <1>2, <3>1
  <2> SUFFICES ASSUME NEW c, c = t PROVE chain' = c
    OBVIOUS
  <2>4. IsChain(c)'
    BY <2>1, <2>2, <2>3 DEF IsChain
  <2> QED
    BY <2>4 DEF Linked
<1>4. u \in Seq(Fiber \X BOOLEAN) /\ Len(u) = k /\ \A i \in 1..k : u[i] = stack[i]
  <2>1. k \in Nat /\ \A i \in 1..k : stack[i] \in Fiber \X BOOLEAN
    BY <1>1, ElementOfSeq DEF Linked, StackOfChain
  <2> QED
    BY <2>1, SubSeqProperties
<1> HIDE DEF t, u
<1>5. stack' \in Seq(Fiber \X BOOLEAN) /\ Len(stack') = k
  BY <1>2, <1>3 DEF Linked, StackOfChain
<1>6. ASSUME NEW i \in 1..k PROVE stack'[i] = u[i]
  <2>1. i \in 1..Len(chain) /\ chain'[i] = chain[i]
    BY <1>1, <1>2, <1>3
  <2>2. stack[i] = <<chain[i], state[chain[i]] = "TRY">>
    BY <2>1 DEF Linked, StackOfChain
  <2>3. stack'[i] = <<chain[i], state'[chain[i]] = "TRY">>
    BY <1>2, <1>3, <2>1 DEF Linked, StackOfChain
  <2>4. (state'[chain[i]] = "TRY") = (state[chain[i]] = "TRY")
    BY SameTruth DEF SameMark
  <2> QED
    BY <1>4, <2>2, <2>3, <2>4, Zenon
<1>7. stack' = u
  BY <1>4, <1>5, <1>6, SeqEqual
<1> QED
  BY <1>7 DEF u

LEMMA Unmoved ==
  ASSUME Linked, Linked', running' = running, running => fiber' = fiber,
         \A i \in 1..Len(chain) : caller'[chain[i]] = caller[chain[i]],
         \A i \in 1..Len(chain) : SameMark(chain[i])
  PROVE  stack' = stack
<1>1. /\ Len(chain) \in Nat /\ (running <=> Len(chain) > 0)
      /\ Len(chain) > 0 => chain[Len(chain)] = fiber
      /\ Len(stack) = Len(chain) /\ stack \in Seq(Fiber \X BOOLEAN)
  BY LenProperties DEF Linked, IsChain, StackOfChain
<1>2. stack' = SubSeq(stack, 1, Len(stack))
  BY <1>1, Popped
<1> QED
  BY <1>1, <1>2, SubSeqFull

\* Pushing a fiber that is not waiting
LEMMA Pushed ==
  ASSUME Linked, Linked', NEW f \in Fiber, NEW try \in BOOLEAN,
         running', fiber' = f, caller'[f] = IF running THEN fiber ELSE NULL,
         state'[f] = "TRY" <=> try,
         \A i \in 1..Len(chain) : caller'[chain[i]] = caller[chain[i]],
         \A i \in 1..Len(chain) : SameMark(chain[i])
  PROVE  stack' = Append(stack, <<f, try>>)
<1> DEFINE n == Len(chain)
           t == Append(chain, f)
           u == Append(stack, <<f, try>>)
<1>1. /\ chain \in Seq(Fiber) /\ n \in Nat /\ \A i \in 1..n : chain[i] \in Fiber
      /\ running <=> n > 0
      /\ n > 0 => chain[n] = fiber /\ caller[chain[1]] = NULL
      /\ \A i \in 1..n - 1 : chain[i] = caller[chain[i + 1]]
  BY LenProperties, ElementOfSeq DEF Linked, IsChain
<1>2. t \in Seq(Fiber) /\ Len(t) = n + 1 /\ t[n + 1] = f /\ \A i \in 1..n : t[i] = chain[i]
  BY <1>1, AppendProperties
<1> HIDE DEF t
<1>3. chain' = t
  <2>1. Len(t) > 0 /\ t[Len(t)] = fiber' /\ t \in Seq(Fiber)
    BY <1>1, <1>2
  <2>2. caller'[t[1]] = NULL
    <3>1. CASE n = 0
      BY <1>1, <1>2, <3>1
    <3>2. CASE n > 0
      BY <1>1, <1>2, <3>2
    <3> QED
      BY <1>1, <3>1, <3>2
  <2>3. ASSUME NEW i \in 1..Len(t) - 1 PROVE t[i] = caller'[t[i + 1]]
    <3>1. CASE i = n
      BY <1>1, <1>2, <2>3, <3>1
    <3>2. CASE i # n
      <4>1. i \in 1..n - 1 /\ i + 1 \in 1..n /\ i \in 1..n
        BY <1>1, <1>2, <2>3, <3>2
      <4> QED
        BY <1>1, <1>2, <4>1
    <3> QED
      BY <3>1, <3>2
  <2> SUFFICES ASSUME NEW c, c = t PROVE chain' = c
    OBVIOUS
  <2>4. IsChain(c)'
    BY <2>1, <2>2, <2>3 DEF IsChain
  <2> QED
    BY <2>4 DEF Linked
<1>4. /\ stack \in Seq(Fiber \X BOOLEAN) /\ Len(stack) = n /\ <<f, try>> \in Fiber \X BOOLEAN
      /\ \A i \in 1..n : stack[i] = <<chain[i], state[chain[i]] = "TRY">>
  BY DEF Linked, StackOfChain
<1>5. /\ u \in Seq(Fiber \X BOOLEAN) /\ Len(u) = n + 1 /\ u[n + 1] = <<f, try>>
      /\ \A i \in 1..n : u[i] = stack[i]
  BY <1>4, AppendProperties
<1> HIDE DEF u
<1>6. /\ stack' \in Seq(Fiber \X BOOLEAN) /\ Len(stack') = n + 1
      /\ \A i \in 1..n + 1 : stack'[i] = <<t[i], state'[t[i]] = "TRY">>
  BY <1>2, <1>3 DEF Linked, StackOfChain
<1>7. ASSUME NEW i \in 1..n + 1 PROVE stack'[i] = u[i]
  <2>1. CASE i = n + 1
    <3>1. stack'[n + 1] = <<f, state'[f] = "TRY">>
      BY <1>2, <1>6, <2>1
    <3>2. (state'[f] = "TRY") = try
      OBVIOUS
    <3> QED
      BY <1>5, <2>1, <3>1, <3>2, Zenon
  <2>2. CASE i # n + 1
    <3>1. i \in 1..n
      BY <1>1, <2>2
    <3>2. stack'[i] = <<chain[i], state'[chain[i]] = "TRY">>
      BY <1>2, <1>6, <3>1
    <3>3. (state'[chain[i]] = "TRY") = (state[chain[i]] = "TRY")
      BY <1>1, <3>1, SameTruth DEF SameMark
    <3>4. u[i] = <<chain[i], state[chain[i]] = "TRY">>
      BY <1>4, <1>5, <3>1
    <3> QED
      BY <3>2, <3>3, <3>4, Zenon
  <2> QED
    BY <2>1, <2>2
<1>8. Len(stack') = Len(u)
  BY <1>5, <1>6
<1>9. stack' = u
  BY <1>5, <1>6, <1>7, <1>8, SeqEqual
<1> QED
  BY <1>9 DEF u

\* Where the host is, and where the program is
LEMMA StackOfHost ==
  ASSUME Linked, ~running
  PROVE  stack = <<>> /\ Len(chain) = 0
<1>1. Len(chain) = 0
  BY LenProperties DEF Linked, IsChain
<1> QED
  BY <1>1, EmptySeq DEF Linked, StackOfChain

LEMMA StackOfProgram ==
  ASSUME Linked, running, fiber \in Fiber
  PROVE  /\ stack # <<>> /\ Len(stack) \in Nat \ {0} /\ Len(chain) = Len(stack)
         /\ stack[Len(stack)][1] = fiber /\ chain[Len(stack)] = fiber
         /\ Placed(fiber)
         /\ \A i \in 1..Len(stack) - 1 :
              /\ i \in 1..Len(stack) /\ chain[i] # fiber
              /\ chain[i] = caller[chain[i + 1]] /\ chain[i] \notin error
         /\ caller[chain[1]] = NULL
         /\ \A i \in 1..Len(stack) : chain[i] \in Fiber /\ Placed(chain[i])
<1>1. /\ Len(chain) \in Nat \ {0} /\ Len(stack) = Len(chain)
      /\ chain[Len(chain)] = fiber /\ caller[chain[1]] = NULL
      /\ \A i \in 1..Len(chain) : chain[i] \in Fiber
      /\ \A i \in 1..Len(chain) - 1 : chain[i] = caller[chain[i + 1]]
  BY LenProperties, ElementOfSeq DEF Linked, IsChain, StackOfChain
<1>2. stack[Len(stack)] = <<chain[Len(stack)], state[chain[Len(stack)]] = "TRY">>
  BY <1>1 DEF Linked, StackOfChain
<1>3. stack # <<>>
  BY <1>1, EmptySeq
<1> QED
  BY <1>1, <1>2, <1>3 DEF Linked, Waiting

-----------------------------------------------------------------------------
(* The steps of the host                                                   *)

LEMMA InterpretEnters ==
  ASSUME IInv, IInv', fault = "none", ~transferred, NEW f \in Fiber, Interpret(f)
  PROVE  Abs!Enter(f)
<1> USE FiberAssumption
<1>1. /\ ~running /\ frames[f] = "none" /\ fiber' = f /\ running'
      /\ frames' = [frames EXCEPT ![f] = "some"] /\ state' = [state EXCEPT ![f] = "ROOT"]
      /\ UNCHANGED <<caller, error, raised, transferred>>
  BY DEF Interpret, Run
<1>2. Linked /\ Linked'
  BY <1>1, StillLinked
<1>3. caller[f] = NULL /\ f \notin error /\ ~raised /\ ~raised' /\ TypeOK
  BY <1>1 DEF IInv, Unborn, ApiReady
<1>4. stack = <<>> /\ Len(chain) = 0
  BY <1>1, <1>2, StackOfHost
<1>5. stack' = Append(stack, <<f, FALSE>>)
  <2>1. caller'[f] = (IF running THEN fiber ELSE NULL) /\ (state'[f] = "TRY" <=> FALSE)
    BY <1>1, <1>3 DEF TypeOK
  <2>2. \A i \in 1..Len(chain) : caller'[chain[i]] = caller[chain[i]] /\ SameMark(chain[i])
    BY <1>4
  <2> QED
    BY <1>1, <1>2, <2>1, <2>2, Pushed
<1>6. stack' = << <<f, FALSE>> >>
  BY <1>4, <1>5
<1>7. unborn' = unborn \ {f} /\ over' = over \ {f} /\ f \in unborn
  BY <1>1, <1>3 DEF unborn, over, TypeOK
<1>8. ready' = ready
  BY <1>1, <1>3 DEF ready, TypeOK
<1>9. aborted' = aborted
  BY <1>1, <1>3 DEF aborted
<1> QED
  BY <1>4, <1>6, <1>7, <1>8, <1>9 DEF Abs!Enter

LEMMA EnsureSlotsReserves ==
  ASSUME IInv, IInv', fault = "none", ~transferred, NEW f \in Fiber, EnsureSlots(f)
  PROVE  Abs!Reserve(f)
<1> USE FiberAssumption
<1>1. /\ ~running /\ running' = running /\ frames[f] = "none" /\ fiber' = f
      /\ frames' = [frames EXCEPT ![f] = "zero"]
      /\ UNCHANGED <<caller, state, error, raised, transferred>>
  BY DEF EnsureSlots
<1>2. Linked /\ Linked'
  BY <1>1, StillLinked
<1>3. ~raised /\ ~raised' /\ TypeOK
  BY <1>1 DEF IInv, ApiReady
<1>4. stack = <<>> /\ stack' = stack
  <2>1. stack = <<>> /\ Len(chain) = 0
    BY <1>1, <1>2, StackOfHost
  <2>2. \A i \in 1..Len(chain) : caller'[chain[i]] = caller[chain[i]] /\ SameMark(chain[i])
    BY <2>1
  <2> QED
    BY <1>1, <1>2, <2>1, <2>2, Unmoved
<1>5. unborn' = unborn \ {f} /\ over' = over \cup {f} /\ f \in unborn
  BY <1>1, <1>3 DEF unborn, over, TypeOK
<1>6. ready' = ready /\ aborted' = aborted
  BY <1>1, <1>3 DEF ready, aborted, TypeOK
<1> QED
  BY <1>4, <1>5, <1>6 DEF Abs!Reserve

LEMMA HostCallEnters ==
  ASSUME IInv, IInv', fault = "none", ~transferred, HostCall
  PROVE  fiber \in Fiber /\ Abs!Enter(fiber)
<1> USE FiberAssumption
<1>1. /\ ~running /\ api /\ fiber' = fiber /\ running'
      /\ frames' = [frames EXCEPT ![fiber] = "some"] /\ state' = [state EXCEPT ![fiber] = "ROOT"]
      /\ UNCHANGED <<caller, error, raised, transferred>>
  BY DEF HostCall, Run
<1>2. Linked /\ Linked'
  BY <1>1, StillLinked
<1>3. /\ fiber \in Fiber /\ frames[fiber] = "zero" /\ caller[fiber] = NULL
      /\ ~raised /\ ~raised' /\ TypeOK
  BY <1>1 DEF IInv, ApiReady, TypeOK
<1>4. stack = <<>> /\ Len(chain) = 0
  BY <1>1, <1>2, StackOfHost
<1>5. stack' = Append(stack, <<fiber, FALSE>>)
  <2>1. caller'[fiber] = (IF running THEN fiber ELSE NULL) /\ (state'[fiber] = "TRY" <=> FALSE)
    BY <1>1, <1>3 DEF TypeOK
  <2>2. \A i \in 1..Len(chain) : caller'[chain[i]] = caller[chain[i]] /\ SameMark(chain[i])
    BY <1>4
  <2> QED
    BY <1>1, <1>2, <1>3, <2>1, <2>2, Pushed
<1>6. stack' = << <<fiber, FALSE>> >>
  BY <1>4, <1>5
<1>7. unborn' = unborn \ {fiber} /\ over' = over \ {fiber} /\ fiber \in over
  BY <1>1, <1>3 DEF unborn, over, TypeOK
<1>8. ready' = ready
  BY <1>1, <1>3 DEF ready, TypeOK
<1>9. aborted' = aborted
  BY <1>1, <1>3 DEF aborted
<1> QED
  BY <1>3, <1>4, <1>6, <1>7, <1>8, <1>9 DEF Abs!Enter

-----------------------------------------------------------------------------
(* The steps of the program                                                *)

LEMMA NewCreates ==
  ASSUME IInv, IInv', fault = "none", ~transferred, running, ~raised, NEW f \in Fiber, New(f)
  PROVE  Abs!Create(f)
<1> USE FiberAssumption
<1>1. /\ frames[f] = "none" /\ frames' = [frames EXCEPT ![f] = "some"]
      /\ UNCHANGED <<fiber, caller, state, error, running, raised, transferred>>
  BY DEF New, hostVars
<1>2. Linked /\ Linked'
  BY <1>1, StillLinked
<1>3. /\ fiber \in Fiber /\ TypeOK
      /\ fiber # f /\ caller[f] = NULL /\ state[f] = "OTHER" /\ f \notin error
  BY <1>1 DEF IInv, Unborn, ApiReady, TypeOK
<1>4. stack # <<>>
  BY <1>2, <1>3, StackOfProgram
<1>5. stack' = stack
  <2>1. \A i \in 1..Len(chain) : caller'[chain[i]] = caller[chain[i]] /\ SameMark(chain[i])
    BY <1>1 DEF SameMark
  <2> QED
    BY <1>1, <1>2, <2>1, Unmoved
<1>6. unborn' = unborn \ {f} /\ f \in unborn /\ over' = over
  BY <1>1, <1>3 DEF unborn, over, TypeOK
<1>7. ready' = ready \cup {f}
  BY <1>1, <1>3 DEF ready, TypeOK
<1>8. aborted' = aborted
  BY <1>1 DEF aborted
<1> QED
  BY <1>4, <1>5, <1>6, <1>7, <1>8 DEF Abs!Create

\* A call that is refused gives the running fiber an error.
LEMMA RefusedStutters ==
  ASSUME IInv, IInv', fault = "none", ~transferred, ~transferred', running, ~raised,
         NEW f \in Fiber, NEW newState, Switch(f, TRUE, newState), Refused(f, TRUE)
  PROVE  UNCHANGED Abs!vars
<1> USE FiberAssumption
<1>1. fiber \in Fiber /\ TypeOK /\ fiber \notin error /\ fiber # NULL
  BY DEF IInv, ApiReady, TypeOK, Nested
<1>2. /\ UNCHANGED <<frames, state>> /\ error' = error \cup {fiber}
      /\ fiber' = fiber /\ raised' /\ running' = running
      /\ Hook(f, TRUE)
  BY <1>1 DEF Switch, Resume
<1>3. Linked /\ Linked'
  BY StillLinked
<1>4. \A x \in Fiber : caller'[x] = caller[x] \/ (x = f /\ frames[f] # "some")
  BY <1>1, <1>2 DEF Hook, Refused, Callable, TypeOK
<1>5. stack' = stack
  <2>1. \A i \in 1..Len(chain) : chain[i] \in Fiber /\ Placed(chain[i])
    BY <1>1, <1>3, StackOfProgram
  <2>2. \A i \in 1..Len(chain) : caller'[chain[i]] = caller[chain[i]] /\ SameMark(chain[i])
    BY <1>2, <1>4, <2>1 DEF SameMark, Placed
  <2> QED
    BY <1>2, <1>3, <2>2, Unmoved
<1>6. unborn' = unborn /\ over' = over
  BY <1>2 DEF unborn, over
<1>7. ready' = ready
  BY <1>2, <1>4 DEF ready
<1>8. aborted' = aborted
  BY <1>1, <1>2 DEF aborted
<1> QED
  BY <1>5, <1>6, <1>7, <1>8 DEF Abs!vars

LEMMA AcceptedCalls ==
  ASSUME IInv, IInv', fault = "none", ~transferred, ~transferred', running, ~raised,
         NEW f \in Fiber, NEW newState, newState = state[f] \/ newState = "TRY",
         Switch(f, TRUE, newState), ~Refused(f, TRUE)
  PROVE  \E try \in BOOLEAN : Abs!Call(f, try)
<1> USE FiberAssumption
<1>1. fiber \in Fiber /\ TypeOK /\ fiber \notin error
  BY DEF IInv, ApiReady, TypeOK, Nested
<1>2. f \notin error /\ caller[f] = NULL /\ state[f] # "ROOT" /\ frames[f] = "some" /\ f # NULL
  BY <1>1 DEF Refused, Callable, Switch, TypeOK
<1>3. /\ UNCHANGED <<frames, error, raised, running>>
      /\ state' = [state EXCEPT ![f] = newState]
      /\ caller' = [caller EXCEPT ![f] = fiber] /\ fiber' = f
  BY <1>2 DEF Switch, Hook, Refused, Callable, Resume, LoadFrame
<1>4. Linked /\ Linked'
  BY StillLinked
<1>5. /\ stack # <<>> /\ Placed(fiber)
      /\ \A i \in 1..Len(chain) : chain[i] \in Fiber /\ Placed(chain[i])
  BY <1>1, <1>4, StackOfProgram
<1>6. f # fiber /\ \A i \in 1..Len(chain) : chain[i] # f
  BY <1>2, <1>5 DEF Placed
<1>7. f \in ready
  BY <1>2, <1>6 DEF ready
<1> DEFINE try == newState = "TRY"
<1>8. stack' = Append(stack, <<f, try>>)
  <2>1. caller'[f] = (IF running THEN fiber ELSE NULL) /\ (state'[f] = "TRY" <=> try)
    BY <1>1, <1>3 DEF TypeOK
  <2>2. \A i \in 1..Len(chain) : caller'[chain[i]] = caller[chain[i]] /\ SameMark(chain[i])
    BY <1>1, <1>3, <1>5, <1>6 DEF SameMark, TypeOK
  <2>3. try \in BOOLEAN /\ running'
    BY <1>3
  <2> HIDE DEF try
  <2> QED
    BY <1>3, <1>4, <2>1, <2>2, <2>3, Pushed
<1>9. unborn' = unborn /\ over' = over /\ aborted' = aborted
  BY <1>3, IInv' DEF unborn, over, aborted, IInv, ApiReady
<1>10. ready' = ready \ {f}
  BY <1>1, <1>3, <1>5 DEF ready, Placed, TypeOK
<1>11. try \in BOOLEAN
  OBVIOUS
<1> HIDE DEF try
<1> QED
  BY <1>5, <1>7, <1>8, <1>9, <1>10, <1>11 DEF Abs!Call

LEMMA AbortStutters ==
  ASSUME IInv, IInv', fault = "none", ~transferred, running, ~raised,
         (\E isNull \in BOOLEAN : Abort(isNull)) \/ ForeignCall
  PROVE  UNCHANGED Abs!vars
<1> USE FiberAssumption
<1>1. fiber \in Fiber /\ TypeOK /\ fiber \notin error
  BY DEF IInv, ApiReady, TypeOK, Nested
<1>2. /\ UNCHANGED <<fiber, frames, caller, state, running, transferred>>
      /\ \/ error' = error /\ ~raised'
         \/ error' = error \cup {fiber} /\ raised'
  BY <1>1 DEF Abort, ForeignCall, fiberVars, hostVars
<1>3. Linked /\ Linked'
  BY <1>2, StillLinked
<1>4. stack' = stack
  <2>1. \A i \in 1..Len(chain) : caller'[chain[i]] = caller[chain[i]] /\ SameMark(chain[i])
    BY <1>2 DEF SameMark
  <2> QED
    BY <1>2, <1>3, <2>1, Unmoved
<1>5. unborn' = unborn /\ over' = over
  BY <1>2 DEF unborn, over
<1>6. ready' = ready
  BY <1>2 DEF ready
<1>7. aborted' = aborted
  BY <1>1, <1>2 DEF aborted
<1> QED
  BY <1>4, <1>5, <1>6, <1>7 DEF Abs!vars

\* Control goes from the running fiber to its caller, or to the host.
LEMMA YieldPops ==
  ASSUME IInv, IInv', fault = "none", ~transferred, running, ~raised, Yield
  PROVE  Abs!Yield
<1> USE FiberAssumption
<1> DEFINE n == Len(stack)
<1>1. fiber \in Fiber /\ TypeOK /\ fiber \notin error
  BY DEF IInv, ApiReady, TypeOK, Nested
<1>2. /\ UNCHANGED <<frames, error, transferred>>
      /\ caller' = [caller EXCEPT ![fiber] = NULL] /\ state' = [state EXCEPT ![fiber] = "OTHER"]
      /\ Resume(caller[fiber])
  BY DEF Yield
<1>3. Linked /\ Linked'
  BY <1>2, StillLinked
<1>4. /\ stack # <<>> /\ n \in Nat \ {0} /\ Len(chain) = n
      /\ stack[n][1] = fiber /\ chain[n] = fiber /\ Placed(fiber) /\ caller[chain[1]] = NULL
      /\ \A i \in 1..n - 1 : /\ i \in 1..n /\ chain[i] # fiber
                             /\ chain[i] = caller[chain[i + 1]] /\ chain[i] \notin error
      /\ \A i \in 1..n : chain[i] \in Fiber /\ Placed(chain[i])
  BY <1>1, <1>3, StackOfProgram
<1> HIDE DEF n
<1>5. caller[fiber] = IF n = 1 THEN NULL ELSE chain[n - 1]
  <2>1. n # 1 => n - 1 \in 1..n - 1 /\ (n - 1) + 1 = n
    BY <1>4
  <2> QED
    BY <1>4, <2>1
<1>6. /\ running' <=> n > 1
      /\ n > 1 => fiber' = chain[n - 1]
      /\ raised' = raised
  <2>1. CASE n = 1
    BY <1>2, <1>4, <1>5, <2>1 DEF Resume, Leave
  <2>2. CASE n # 1
    <3>1. n - 1 \in 1..n - 1 /\ chain[n - 1] \in Fiber /\ chain[n - 1] \notin error
      BY <1>4, <2>2
    <3>2. caller[fiber] = chain[n - 1] /\ caller[fiber] # NULL /\ caller[fiber] \notin error'
      BY <1>2, <1>5, <2>2, <3>1
    <3>3. running' = running /\ fiber' = caller[fiber] /\ raised' = raised
      BY <1>2, <3>2 DEF Resume, LoadFrame
    <3> QED
      BY <1>4, <2>2, <3>2, <3>3
  <2> QED
    BY <2>1, <2>2
<1>7. stack' = SubSeq(stack, 1, n - 1)
  <2>1. n - 1 \in 0..Len(chain) /\ (running' <=> n - 1 > 0)
    BY <1>4, <1>6
  <2>2. \A i \in 1..n - 1 : caller'[chain[i]] = caller[chain[i]] /\ SameMark(chain[i])
    BY <1>1, <1>2, <1>4 DEF SameMark, TypeOK
  <2>3. n - 1 > 0 => fiber' = chain[n - 1]
    BY <1>4, <1>6
  <2> QED
    BY <1>3, <2>1, <2>2, <2>3, Popped
<1>8. unborn' = unborn /\ over' = over /\ aborted' = aborted
  BY <1>2, <1>6 DEF unborn, over, aborted
<1>9. ready' = ready \cup {fiber}
  <2>1. \A x \in Fiber : running' /\ fiber' = x => x # fiber /\ Placed(x)
    <3>1. n > 1 => n - 1 \in 1..n - 1 /\ n - 1 \in 1..n
      BY <1>4
    <3> QED
      BY <1>4, <1>6, <3>1
  <2>2. fiber \in ready'
    BY <1>1, <1>2, <1>4, <2>1 DEF ready, Placed, TypeOK
  <2>3. ASSUME NEW x \in Fiber, x # fiber PROVE x \in ready' <=> x \in ready
    BY <1>1, <1>2, <2>1, <2>3 DEF ready, Placed, TypeOK
  <2>4. ready \subseteq Fiber /\ ready' \subseteq Fiber
    BY DEF ready
  <2> QED
    BY <1>1, <2>2, <2>3, <2>4
<1> QED
  BY <1>4, <1>7, <1>8, <1>9 DEF Abs!Yield, Abs!Below, Abs!Top, n

LEMMA SuspendSuspends ==
  ASSUME IInv, IInv', fault = "none", ~transferred, running, ~raised, Suspend
  PROVE  Abs!Suspend
<1> USE FiberAssumption
<1>1. fiber \in Fiber /\ TypeOK
  BY DEF IInv, ApiReady, TypeOK
<1>2. /\ UNCHANGED <<frames, caller, state, error, raised, transferred>> /\ ~running'
  BY DEF Suspend, Leave, fiberVars
<1>3. Linked /\ Linked'
  BY <1>2, StillLinked
<1>4. stack # <<>> /\ Placed(fiber) /\ Len(chain) \in Nat
  BY <1>1, <1>3, StackOfProgram
<1>5. stack' = <<>>
  <2>1. 0 \in 0..Len(chain) /\ (running' <=> 0 > 0)
    BY <1>2, <1>4
  <2>2. \A i \in 1..0 : caller'[chain[i]] = caller[chain[i]] /\ SameMark(chain[i])
    OBVIOUS
  <2>3. stack' = SubSeq(stack, 1, 0)
    BY <1>3, <2>1, <2>2, Popped
  <2> QED
    BY <2>3, SubSeqEmpty
<1>6. unborn' = unborn /\ over' = over /\ aborted' = aborted
  BY <1>2, IInv' DEF unborn, over, aborted, IInv, ApiReady
<1>7. ready' = ready
  BY <1>1, <1>2, <1>4 DEF ready, Placed
<1> QED
  BY <1>4, <1>5, <1>6, <1>7 DEF Abs!Suspend

LEMMA ReturnFinishes ==
  ASSUME IInv, IInv', fault = "none", ~transferred, running, ~raised, Return
  PROVE  Abs!Finish
<1> USE FiberAssumption
<1> DEFINE n == Len(stack)
<1>1. fiber \in Fiber /\ TypeOK /\ fiber \notin error
  BY DEF IInv, ApiReady, TypeOK, Nested
<1>2. /\ UNCHANGED <<state, error, raised, transferred>>
      /\ caller' = [caller EXCEPT ![fiber] = NULL] /\ frames' = [frames EXCEPT ![fiber] = "zero"]
      /\ IF caller[fiber] = NULL THEN Leave(fiber) ELSE LoadFrame(caller[fiber])
  BY DEF Return
<1>3. Linked /\ Linked'
  BY <1>2, StillLinked
<1>4. /\ stack # <<>> /\ n \in Nat \ {0} /\ Len(chain) = n
      /\ stack[n][1] = fiber /\ chain[n] = fiber /\ Placed(fiber) /\ caller[chain[1]] = NULL
      /\ \A i \in 1..n - 1 : /\ i \in 1..n /\ chain[i] # fiber
                             /\ chain[i] = caller[chain[i + 1]] /\ chain[i] \notin error
      /\ \A i \in 1..n : chain[i] \in Fiber /\ Placed(chain[i])
  BY <1>1, <1>3, StackOfProgram
<1> HIDE DEF n
<1>5. caller[fiber] = IF n = 1 THEN NULL ELSE chain[n - 1]
  <2>1. n # 1 => n - 1 \in 1..n - 1 /\ (n - 1) + 1 = n
    BY <1>4
  <2> QED
    BY <1>4, <2>1
<1>6. /\ running' <=> n > 1
      /\ n > 1 => fiber' = chain[n - 1]
  <2>1. CASE n = 1
    BY <1>2, <1>4, <1>5, <2>1 DEF Leave
  <2>2. CASE n # 1
    <3>1. n - 1 \in 1..n - 1 /\ chain[n - 1] \in Fiber
      BY <1>4, <2>2
    <3>2. caller[fiber] = chain[n - 1] /\ caller[fiber] # NULL
      BY <1>2, <1>5, <2>2, <3>1
    <3>3. running' = running /\ fiber' = caller[fiber]
      BY <1>2, <3>2 DEF LoadFrame
    <3> QED
      BY <1>4, <2>2, <3>2, <3>3
  <2> QED
    BY <2>1, <2>2
<1>7. stack' = SubSeq(stack, 1, n - 1)
  <2>1. n - 1 \in 0..Len(chain) /\ (running' <=> n - 1 > 0)
    BY <1>4, <1>6
  <2>2. \A i \in 1..n - 1 : caller'[chain[i]] = caller[chain[i]] /\ SameMark(chain[i])
    BY <1>1, <1>2, <1>4 DEF SameMark, TypeOK
  <2>3. n - 1 > 0 => fiber' = chain[n - 1]
    BY <1>4, <1>6
  <2> QED
    BY <1>3, <2>1, <2>2, <2>3, Popped
<1>8. unborn' = unborn /\ over' = over \cup {fiber}
  BY <1>1, <1>2, <1>4 DEF unborn, over, Placed, TypeOK
<1>9. ready' = ready
  <2>1. \A x \in Fiber : running' /\ fiber' = x => Placed(x) /\ x # fiber
    <3>1. n > 1 => n - 1 \in 1..n - 1 /\ n - 1 \in 1..n
      BY <1>4
    <3> QED
      BY <1>4, <1>6, <3>1
  <2>2. ASSUME NEW x \in Fiber, x # fiber PROVE x \in ready' <=> x \in ready
    BY <1>1, <1>2, <2>1, <2>2 DEF ready, Placed, TypeOK
  <2>3. fiber \notin ready' /\ fiber \notin ready
    BY <1>1, <1>2 DEF ready, TypeOK
  <2>4. ready \subseteq Fiber /\ ready' \subseteq Fiber
    BY DEF ready
  <2> QED
    BY <2>2, <2>3, <2>4
<1>10. aborted' = aborted
  BY <1>2, IInv' DEF aborted, IInv, ApiReady
<1> QED
  BY <1>4, <1>7, <1>8, <1>9, <1>10 DEF Abs!Finish, Abs!Below, Abs!Top, n

\* runtimeError goes down the stack from its top.
LEMMA WalkIsDown ==
  ASSUME Linked, running, fiber \in Fiber,
         NEW n \in Nat, NEW w \in [0..n -> Fiber], Walk(w, n)
  PROVE  \A i \in 0..n : i < Len(chain) /\ w[i] = chain[Len(chain) - i]
<1> DEFINE m == Len(chain)
           S == {i \in 0..n : i < m /\ w[i] = chain[m - i]}
<1>1. /\ m \in Nat \ {0} /\ chain[m] = fiber /\ caller[chain[1]] = NULL
      /\ \A i \in 1..m - 1 : chain[i] = caller[chain[i + 1]]
  BY LenProperties DEF Linked, IsChain
<1>2. w[0] = fiber /\ \A i \in 0..n - 1 : w[i + 1] = caller[w[i]]
  BY DEF Walk
<1> HIDE DEF m
<1>3. 0 \in S
  BY <1>1, <1>2
<1>4. ASSUME NEW i \in 0..n, i < n, i \in S PROVE i + 1 \in S
  <2>1. i \in 0..n - 1 /\ i + 1 \in 0..n /\ w[i + 1] \in Fiber /\ w[i + 1] # NULL
    BY <1>4, FiberAssumption
  <2>2. w[i + 1] = caller[chain[m - i]] /\ i < m
    BY <1>2, <1>4, <2>1
  <2>3. m - i # 1
    BY <1>1, <2>1, <2>2
  <2>4. m - (i + 1) \in 1..m - 1 /\ m - (i + 1) + 1 = m - i /\ i + 1 < m
    BY <1>1, <2>1, <2>2, <2>3
  <2> QED
    BY <1>1, <2>1, <2>2, <2>4
<1> HIDE DEF S
<1>5. 0..n \subseteq S
  BY <1>3, <1>4, IntervalInduction
<1> QED
  BY <1>5 DEF S, m

LEMMA RuntimeErrorFails ==
  ASSUME IInv, IInv', fault = "none", ~transferred, RuntimeError
  PROVE  Abs!Fail
<1> USE FiberAssumption
<1> DEFINE m == Len(stack)
<1>1. fiber \in Fiber /\ TypeOK /\ raised /\ running /\ Cardinality(Fiber) \in Nat
  BY FS_CardinalityType DEF IInv, ApiReady, TypeOK, RuntimeError
<1>2. Linked /\ Linked'
  BY StillLinked DEF RuntimeError
<1>3. /\ stack # <<>> /\ m \in Nat \ {0} /\ Len(chain) = m
      /\ caller[chain[1]] = NULL
      /\ \A i \in 1..m - 1 : chain[i] = caller[chain[i + 1]]
      /\ \A i \in 1..m : chain[i] \in Fiber /\ Placed(chain[i])
  BY <1>1, <1>2, StackOfProgram
<1>4. \A i, j \in 1..m : chain[i] = chain[j] => i = j
  BY <1>2, <1>3 DEF Linked, Waiting
<1>5. \A i \in 1..m : stack[i][1] = chain[i] /\ (stack[i][2] <=> state[chain[i]] = "TRY")
  <2>1. \A i \in 1..m : stack[i] = <<chain[i], state[chain[i]] = "TRY">>
    BY <1>2, <1>3 DEF Linked, StackOfChain
  <2> SUFFICES ASSUME NEW i \in 1..m
               PROVE  stack[i][1] = chain[i] /\ (stack[i][2] <=> state[chain[i]] = "TRY")
    OBVIOUS
  <2> DEFINE mark == state[chain[i]] = "TRY"
  <2>2. stack[i] = <<chain[i], mark>> /\ mark \in BOOLEAN
    BY <2>1
  <2> HIDE DEF mark
  <2>3. stack[i][1] = chain[i] /\ (stack[i][2] <=> mark)
    BY <2>2
  <2> QED
    BY <2>3 DEF mark
<1>a. PICK n \in 0..Cardinality(Fiber) - 1 : \E w \in [0..n -> Fiber] :
        LET visited == {w[i] : i \in 0..n}
            caught == state[w[n]] = "TRY"
            unhooked == IF caught THEN visited \ {w[n]} ELSE visited
        IN  /\ Walk(w, n)
            /\ StopsAt(w, n)
            /\ error' = error \cup visited
            /\ caller' = [f \in Fiber |-> IF f \in unhooked THEN NULL ELSE caller[f]]
            /\ UNCHANGED frames
            /\ IF caught THEN LoadFrame(caller[w[n]]) ELSE Leave(NULL) /\ UNCHANGED fault
  BY DEF RuntimeError
<1>6. PICK w \in [0..n -> Fiber] :
        LET visited == {w[i] : i \in 0..n}
            caught == state[w[n]] = "TRY"
            unhooked == IF caught THEN visited \ {w[n]} ELSE visited
        IN  /\ Walk(w, n)
            /\ StopsAt(w, n)
            /\ error' = error \cup visited
            /\ caller' = [f \in Fiber |-> IF f \in unhooked THEN NULL ELSE caller[f]]
            /\ UNCHANGED frames
            /\ IF caught THEN LoadFrame(caller[w[n]]) ELSE Leave(NULL) /\ UNCHANGED fault
  BY <1>a
<1> HIDE DEF m
<1> DEFINE visited == {w[i] : i \in 0..n}
           caught == state[w[n]] = "TRY"
           k == m - n
<1>7. n \in Nat /\ \A i \in 0..n : i < m /\ w[i] = chain[m - i]
  BY <1>1, <1>2, <1>3, <1>6, WalkIsDown
<1>8. /\ k \in 1..m /\ w[n] = chain[k]
      /\ \A i \in k..m : m - i \in 0..n /\ w[m - i] = chain[i]
      /\ \A i \in 0..n : m - i \in k..m
  <2>1. k \in 1..m
    BY <1>3, <1>7
  <2>2. w[n] = chain[k]
    BY <1>7
  <2>3. \A i \in k..m : m - i \in 0..n /\ m - (m - i) = i
    BY <1>3, <1>7, <2>1
  <2>4. \A i \in k..m : w[m - i] = chain[i]
    BY <1>7, <2>3
  <2>5. \A i \in 0..n : m - i \in k..m
    BY <1>3, <1>7
  <2> QED
    BY <2>1, <2>2, <2>3, <2>4, <2>5
<1>k. k \in 1..m /\ m \in Nat /\ k \in Nat
  BY <1>3, <1>8
<1>9. visited = {chain[i] : i \in k..m}
  <2>1. \A i \in 0..n : m - i \in k..m /\ w[i] = chain[m - i]
    BY <1>7, <1>8
  <2>2. \A i \in k..m : m - i \in 0..n /\ w[m - i] = chain[i]
    BY <1>8
  <2> HIDE DEF k
  <2>3. visited \subseteq {chain[i] : i \in k..m}
    BY <2>1
  <2>4. {chain[i] : i \in k..m} \subseteq visited
    BY <2>2
  <2> QED
    BY <2>3, <2>4
<1>10. fiber \in visited /\ visited \subseteq Fiber
  BY <1>6, <1>7 DEF Walk
<1> HIDE DEF k, visited
<1>11. \A i \in 1..m : i < k => chain[i] \notin visited
  <2>1. \A j \in k..m : j \in 1..m /\ ~(j < k)
    BY <1>k
  <2>2. ASSUME NEW i \in 1..m, i < k, chain[i] \in visited PROVE FALSE
    <3>1. PICK j \in k..m : chain[i] = chain[j]
      BY <1>9, <2>2
    <3> QED
      BY <1>4, <2>1, <2>2, <3>1
  <2> QED
    BY <2>2
<1>12. k > 1 => k - 1 \in 1..m - 1 /\ k - 1 \in 1..m /\ chain[k - 1] = caller[chain[k]]
  BY <1>3, <1>8
<1>13. caught <=> k > 1
  <2>1. ASSUME caught PROVE k > 1
    <3>1. chain[k] \in Fiber /\ Placed(chain[k]) /\ state[chain[k]] = "TRY"
      BY <1>3, <1>8, <2>1
    <3>2. caller[chain[k]] # NULL
      BY <3>1 DEF IInv, TryHasCaller, Placed
    <3> QED
      BY <1>3, <1>8, <3>2
  <2>2. ASSUME ~caught, k > 1 PROVE FALSE
    <3>1. caller[w[n]] \in {NULL} \cup visited
      BY <1>6, <2>2 DEF StopsAt, visited
    <3>2. chain[k - 1] \in Fiber /\ chain[k - 1] \notin visited /\ caller[w[n]] = chain[k - 1]
      BY <1>3, <1>8, <1>11, <1>12, <2>2
    <3> QED
      BY <3>1, <3>2
  <2> QED
    BY <1>3, <1>8, <2>1, <2>2
<1>14. /\ error' = error \cup visited /\ UNCHANGED <<frames, state>> /\ ~raised'
       /\ running' <=> k > 1
       /\ k > 1 => fiber' = chain[k - 1]
       /\ \A x \in Fiber : x \notin visited => caller'[x] = caller[x]
  <2>1. error' = error \cup visited /\ UNCHANGED <<frames, state>> /\ ~raised'
    BY <1>6 DEF visited, RuntimeError
  <2>2. caught => LoadFrame(caller[w[n]])
    BY <1>6
  <2>3. ~caught => Leave(NULL)
    BY <1>6
  <2>4. \A x \in Fiber : x \notin visited => caller'[x] = caller[x]
    BY <1>6 DEF visited
  <2> HIDE DEF caught
  <2>5. running' <=> k > 1
    BY <1>1, <1>13, <2>2, <2>3 DEF LoadFrame, Leave
  <2>6. k > 1 => fiber' = chain[k - 1]
    BY <1>8, <1>12, <1>13, <2>2 DEF LoadFrame
  <2> QED
    BY <2>1, <2>4, <2>5, <2>6
<1>15. stack' = SubSeq(stack, 1, k - 1)
  <2>1. k - 1 \in 0..Len(chain) /\ (running' <=> k - 1 > 0)
    BY <1>3, <1>k, <1>14
  <2>2. \A i \in 1..k - 1 : i \in 1..m /\ i < k
    BY <1>k
  <2>3. \A i \in 1..k - 1 : caller'[chain[i]] = caller[chain[i]] /\ SameMark(chain[i])
    BY <1>3, <1>11, <1>14, <2>2 DEF SameMark
  <2>4. k - 1 > 0 => fiber' = chain[k - 1]
    BY <1>3, <1>8, <1>14
  <2> QED
    BY <1>2, <2>1, <2>3, <2>4, Popped
<1>16. \A i \in (k + 1)..m : ~stack[i][2]
  <2> SUFFICES ASSUME NEW i \in (k + 1)..m PROVE ~stack[i][2]
    OBVIOUS
  <2>1. i \in 1..m /\ i \in k..m /\ m - i \in 0..n - 1
    BY <1>3, <1>7, <1>8 DEF k
  <2>2. state[w[m - i]] # "TRY" /\ w[m - i] = chain[i]
    BY <1>6, <1>8, <2>1 DEF StopsAt
  <2> QED
    BY <1>5, <2>1, <2>2
<1>17. k = 1 \/ stack[k][2]
  <2>1. k # 1 => state[chain[k]] = "TRY"
    BY <1>8, <1>13, <1>k
  <2> HIDE DEF caught
  <2> QED
    BY <1>5, <1>k, <2>1
<1>18. aborted' = aborted \cup {stack[i][1] : i \in k..m}
  <2>1. {stack[i][1] : i \in k..m} = visited
    <3>1. \A i \in k..m : i \in 1..m
      BY <1>3, <1>8
    <3> QED
      BY <1>5, <1>9, <3>1
  <2>2. aborted = error \ {fiber} /\ aborted' = error \cup visited
    BY <1>1, <1>14 DEF aborted
  <2> QED
    BY <1>10, <2>1, <2>2
<1>19. unborn' = unborn /\ over' = over
  BY <1>14 DEF unborn, over
<1>20. ready' = ready
  <2>1. \A x \in visited : x \notin ready /\ x \notin ready'
    <3>1. \A i \in k..m : i \in 1..m
      BY <1>3, <1>8
    <3>2. \A x \in visited : Placed(x) /\ x \in error'
      BY <1>3, <1>9, <1>14, <3>1
    <3> QED
      BY <3>2 DEF ready, Placed
  <2>2. \A x \in Fiber : running' /\ fiber' = x => Placed(x)
    BY <1>3, <1>12, <1>14
  <2>3. ASSUME NEW x \in Fiber, x \notin visited PROVE x \in ready' <=> x \in ready
    BY <1>10, <1>14, <2>2, <2>3 DEF ready, Placed
  <2>4. ready \subseteq Fiber /\ ready' \subseteq Fiber
    BY DEF ready
  <2> QED
    BY <2>1, <2>3, <2>4
<1>21. k \in 1..Len(stack)
  BY <1>8 DEF m
<1> HIDE DEF caught
<1> QED
  BY <1>3, <1>15, <1>16, <1>17, <1>18, <1>19, <1>20, <1>21 DEF Abs!Fail, Abs!Below, m

-----------------------------------------------------------------------------
(* The refinement                                                          *)

LEMMA InitRefines == Init => Abs!Init
<1> SUFFICES ASSUME Init PROVE Abs!Init
  OBVIOUS
<1>1. IInv
  BY InitIInv
<1>2. Linked /\ ~running
  BY <1>1, ChainsAreLinked DEF Init
<1>3. stack = <<>>
  BY <1>2, StackOfHost
<1>4. unborn = Fiber /\ ready = {} /\ over = {} /\ aborted = {}
  BY DEF Init, unborn, ready, over, aborted
<1> QED
  BY <1>3, <1>4 DEF Abs!Init

LEMMA NextRefines ==
  ASSUME IInv, IInv', [Next]_vars
  PROVE  [transferred' \/ Abs!Next]_(Abs!vars)
<1> SUFFICES ASSUME ~transferred' PROVE Abs!Next \/ UNCHANGED Abs!vars
  OBVIOUS
<1>1. CASE UNCHANGED vars
  <2>1. /\ UNCHANGED <<fiber, frames, caller, state, error, running, raised>>
    BY <1>1 DEF vars, fiberVars, hostVars
  <2>2. Up' = Up
    BY <2>1 DEF Up
  <2>3. stack' = stack
    BY <2>1, <2>2 DEF stack, chain, Depth
  <2> QED
    BY <2>1, <2>3 DEF Abs!vars, unborn, ready, over, aborted
<1>2. CASE Next
  <2>f. fault = "none"
    BY <1>2 DEF Next
  <2>t. ~transferred
    <3>1. transferred' = transferred \/ transferred'
      BY <1>2 DEF Next, HostStep, Interpret, EnsureSlots, HostCall, RuntimeError, Primitive, New,
         Call, Try, Transfer, TransferError, Abort, ForeignCall, Yield, Suspend, Return
    <3> QED
      BY <3>1
  <2>1. ASSUME NEW f \in Fiber, Interpret(f) PROVE Abs!Next
    BY <2>1, <2>f, <2>t, InterpretEnters DEF Abs!Next
  <2>2. ASSUME NEW f \in Fiber, EnsureSlots(f) PROVE Abs!Next
    BY <2>2, <2>f, <2>t, EnsureSlotsReserves DEF Abs!Next
  <2>3. CASE HostCall
    BY <2>3, <2>f, <2>t, HostCallEnters DEF Abs!Next
  <2>4. CASE RuntimeError
    BY <2>4, <2>f, <2>t, RuntimeErrorFails DEF Abs!Next
  <2>5. ASSUME running, ~raised, Primitive PROVE Abs!Next \/ UNCHANGED Abs!vars
    <3>1. ASSUME NEW f \in Fiber, New(f) PROVE Abs!Next
      BY <2>5, <3>1, <2>f, <2>t, NewCreates DEF Abs!Next
    <3>2. ASSUME NEW f \in Fiber, NEW newState, newState = state[f] \/ newState = "TRY",
                 Switch(f, TRUE, newState)
          PROVE  Abs!Next \/ UNCHANGED Abs!vars
      <4>1. CASE Refused(f, TRUE)
        BY <2>5, <3>2, <4>1, <2>f, <2>t, RefusedStutters
      <4>2. CASE ~Refused(f, TRUE)
        <5>1. \E try \in BOOLEAN : Abs!Call(f, try)
          BY <2>5, <3>2, <4>2, <2>f, <2>t, AcceptedCalls
        <5> QED
          BY <5>1 DEF Abs!Next
      <4> QED
        BY <4>1, <4>2
    <3>3. ASSUME NEW f \in Fiber, Call(f) \/ Try(f) PROVE Abs!Next \/ UNCHANGED Abs!vars
      BY <3>2, <3>3 DEF Call, Try
    <3>4. ASSUME NEW f \in Fiber, Transfer(f) PROVE FALSE
      BY <3>4 DEF Transfer
    <3>5. ASSUME NEW f \in Fiber, NEW isNull \in BOOLEAN, TransferError(f, isNull) PROVE FALSE
      BY <3>5 DEF TransferError
    <3>6. CASE (\E isNull \in BOOLEAN : Abort(isNull)) \/ ForeignCall
      BY <2>5, <3>6, <2>f, <2>t, AbortStutters
    <3>7. CASE Yield
      BY <2>5, <3>7, <2>f, <2>t, YieldPops DEF Abs!Next
    <3>8. CASE Suspend
      BY <2>5, <3>8, <2>f, <2>t, SuspendSuspends DEF Abs!Next
    <3>9. CASE Return
      BY <2>5, <3>9, <2>f, <2>t, ReturnFinishes DEF Abs!Next
    <3> QED
      BY <2>5, <3>1, <3>3, <3>4, <3>5, <3>6, <3>7, <3>8, <3>9 DEF Primitive
  <2> QED
    BY <1>2, <2>1, <2>2, <2>3, <2>4, <2>5 DEF Next, HostStep
<1> QED
  BY <1>1, <1>2

\* Until its first transfer, a program's calls, yields, returns and errors move
\* the control as a stack of fibers does, for any number of fibers (runFiber,
\* the fiber primitives, runtimeError, and the ends of runInterpreter).
THEOREM FibersNest == Spec => CallsNest
<1>1. Init => Abs!Init
  BY InitRefines
<1>2. IInv /\ IInv' /\ [Next]_vars => [transferred' \/ Abs!Next]_(Abs!vars)
  BY NextRefines
<1> QED
  BY <1>1, <1>2, Invariance, PTL DEF Spec, CallsNest
=============================================================================
