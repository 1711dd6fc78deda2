------------------------------- MODULE WrenGC -------------------------------
(***************************************************************************)
(* The garbage collector of the Wren VM (wrenReallocate,                   *)
(* wrenCollectGarbage and wrenFreeVM in lib/wren_vm.c, wrenGrayObj,        *)
(* wrenBlackenObjects and wrenFreeObj in lib/wren_value.c), with the C     *)
(* functions of WrenNatives as the mutator.                                *)
(*                                                                         *)
(* A function runs step by step.  Any step that allocates may first run a  *)
(* whole collection: grow the grey set from the roots, blacken, sweep.     *)
(* Memory that has been freed is never looked at: a pointer to it becomes  *)
(* Dead, and a step that uses one ends the behaviour with fault.           *)
(***************************************************************************)
EXTENDS WrenNatives, FiniteSets, Integers

CONSTANTS
  Obj,            \* the addresses of objects
  Null, Dead,     \* no object; an object that has been freed
  Boot,           \* what the host does first
  Calls,          \* what may be called after that
  MaxCalls,       \* how often
  MaxCollections  \* how many collections start at an allocation

\* The length of vm->tempRoots
WREN_MAX_TEMP_ROOTS == 8

ASSUME Constants == /\ IsFiniteSet(Obj)
                    /\ Null \notin Obj /\ Dead \notin Obj /\ Null # Dead
                    /\ Boot \in Seq(Step)
                    /\ Calls \subseteq Seq(Step)
                    /\ MaxCalls \in Nat /\ MaxCollections \in Nat

VARIABLES
  type,           \* Obj.type
  ptr,            \* the pointers of each object, with the fields they are in
  kept,           \* the list vm->first up to where a sweep is
  rest,           \* and from there on
  dark,           \* Obj.isDark
  gray,           \* vm->gray
  phase,          \* run, mark, sweep; free, gone: wrenFreeVM
  collected,      \* the step at hand has had its collection
  collections,    \* how many an allocation has started
  regs,           \* the pointers the C code and the VM hold
  rooted,         \* those that are roots
  tempRoots,      \* vm->tempRoots
  code,           \* what is left of the function that runs
  calls,          \* how many there were
  fault           \* freed memory has been used

heap == <<type, ptr>>
list == <<kept, rest>>
marks == <<dark, gray>>
mutator == <<regs, rooted, tempRoots, code, calls>>
collector == <<phase, collected, collections>>
vars == <<heap, list, marks, collector, mutator, fault>>

Elements(s) == {s[i] : i \in DOMAIN s}
Allocated == Elements(kept) \cup Elements(rest)

\* What the blacken function of its type grays of an object
Marked(o) == {p[2] : p \in {q \in ptr[o] : q[1] \in blackenObject[type[o]]}}

RootObjects == ({regs[r] : r \in rooted} \cup Elements(tempRoots)) \ {Null}

Init ==
  /\ type = [o \in Obj |-> "string"] /\ ptr = [o \in Obj |-> {}]
  /\ kept = <<>> /\ rest = <<>> /\ dark = {} /\ gray = {}
  /\ phase = "run" /\ collected = FALSE /\ collections = 0
  /\ regs = [r \in Reg |-> Null] /\ rooted = Roots /\ tempRoots = <<>>
  /\ code = Boot /\ calls = 0 /\ fault = FALSE

-----------------------------------------------------------------------------
(* The collector *)

\* wrenReallocate: an allocation may start a collection; System.gc() does.
\* The roots are grayed.
wrenCollectGarbage ==
  /\ phase = "run" /\ ~fault /\ code # <<>> /\ ~collected
  /\ Head(code).op \in {"new", "grow", "gc"}
  /\ \/ Head(code).op = "gc" /\ collections' = collections
     \/ collections < MaxCollections /\ collections' = collections + 1
  /\ phase' = "mark"
  /\ dark' = RootObjects /\ gray' = RootObjects
  /\ UNCHANGED <<heap, list, collected, mutator, fault>>

\* A mutant: what is reached is marked and not visited.
BlackenOnce ==
  /\ phase = "mark" /\ gray # {}
  /\ LET o == CHOOSE x \in gray : TRUE
     IN dark' = dark \cup Marked(o) /\ gray' = gray \ {o}
  /\ UNCHANGED <<heap, list, collector, mutator, fault>>

\* wrenBlackenObjects takes a gray object; wrenGrayObj adds those it reaches
\* for the first time.
wrenBlackenObjects ==
  /\ phase = "mark" /\ gray # {}
  /\ LET o == CHOOSE x \in gray : TRUE
         found == Marked(o) \ dark
     IN /\ dark' = dark \cup found
        /\ gray' = (gray \ {o}) \cup found
  /\ UNCHANGED <<heap, list, collector, mutator, fault>>

MarkEnds ==
  /\ phase = "mark" /\ gray = {}
  /\ phase' = "sweep"
  /\ UNCHANGED <<heap, list, marks, collected, collections, mutator, fault>>

\* A mutant: the mark stays.
KeepMarked ==
  /\ phase = "sweep" /\ rest # <<>> /\ Head(rest) \in dark
  /\ kept' = Append(kept, Head(rest)) /\ rest' = Tail(rest)
  /\ UNCHANGED <<heap, marks, collector, mutator, fault>>

\* The sweep goes over a dark object, and unmarks it.
SweepKeep ==
  /\ phase = "sweep" /\ rest # <<>> /\ Head(rest) \in dark
  /\ dark' = dark \ {Head(rest)}
  /\ kept' = Append(kept, Head(rest)) /\ rest' = Tail(rest)
  /\ UNCHANGED <<heap, gray, collector, mutator, fault>>

\* What was a pointer to o
Dangling(v, o) == IF v = o THEN Dead ELSE v

\* The finalizer of a foreign object is looked up in its class.
wrenFinalizeForeign(o) == type[o] = "foreign" /\ <<"classObj", Dead>> \in ptr[o]

wrenFreeObj(o) ==
  /\ fault' = wrenFinalizeForeign(o)
  /\ ptr' = [x \in Obj |-> IF x = o THEN {} ELSE {<<p[1], Dangling(p[2], o)>> : p \in ptr[x]}]
  /\ regs' = [r \in Reg |-> Dangling(regs[r], o)]

SweepFree ==
  /\ phase = "sweep" /\ ~fault /\ rest # <<>> /\ Head(rest) \notin dark
  /\ wrenFreeObj(Head(rest))
  /\ rest' = Tail(rest)
  /\ UNCHANGED <<type, kept, marks, collector, rooted, tempRoots, code, calls>>

SweepEnds ==
  /\ phase = "sweep" /\ ~fault /\ rest = <<>>
  /\ kept' = <<>> /\ rest' = kept
  /\ phase' = "run" /\ collected' = TRUE
  /\ UNCHANGED <<heap, marks, collections, mutator, fault>>

-----------------------------------------------------------------------------
(* The steps of a function *)

\* The registers whose objects a step looks at or hands on
Used(s) == CASE s.op \in {"push", "use"} -> {s.r}
             [] s.op \in {"link", "unlink", "erase"} -> {s.r, s.s}
             [] s.op \in {"copy", "pick", "get"} -> {s.s}
             [] s.op = "root" -> Group(s.r)
             [] OTHER -> {}

UsesDead == \E r \in Used(Head(code)) : regs[r] = Dead

\* The step at hand is one of these operations, and the function goes on.
Advance(ops) ==
  /\ phase = "run" /\ ~fault /\ code # <<>> /\ Head(code).op \in ops
  /\ code' = Tail(code) /\ collected' = FALSE
  /\ UNCHANGED <<kept, marks, phase, collections, calls>>

Step1(ops) == Advance(ops) /\ fault' = UsesDead

\* ALLOCATE and initObj: the object is the first of the list.
AllocateObj ==
  /\ Step1({"new"})
  /\ Obj \ Allocated # {}
  /\ LET s == Head(code)
         o == CHOOSE x \in Obj : x \notin Allocated
     IN /\ type' = [type EXCEPT ![o] = s.t]
        /\ ptr' = [ptr EXCEPT ![o] = {}]
        /\ rest' = <<o>> \o rest
        /\ regs' = [regs EXCEPT ![s.r] = o]
  /\ UNCHANGED <<rooted, tempRoots>>

\* An allocation that makes no object
Allocate == Step1({"grow"}) /\ UNCHANGED <<heap, rest, regs, rooted, tempRoots>>

\* System.gc() is over.
system_gc_returns ==
  collected /\ Step1({"gc"}) /\ UNCHANGED <<heap, rest, regs, rooted, tempRoots>>

wrenPushRoot ==
  /\ Step1({"push"})
  /\ tempRoots' = Append(tempRoots, regs[Head(code).r])
  /\ UNCHANGED <<heap, rest, regs, rooted>>

wrenPopRoot ==
  /\ Step1({"pop"})
  /\ tempRoots # <<>>
  /\ tempRoots' = SubSeq(tempRoots, 1, Len(tempRoots) - 1)
  /\ UNCHANGED <<heap, rest, regs, rooted>>

Assign ==
  /\ Step1({"copy", "clear"})
  /\ LET s == Head(code)
     IN regs' = [regs EXCEPT ![s.r] = IF s.op = "copy" THEN regs[s.s] ELSE Null]
  /\ UNCHANGED <<heap, rest, rooted, tempRoots>>

\* A field of an object is written.
Store ==
  /\ Step1({"link", "unlink", "erase"})
  /\ LET s == Head(code)
         o == regs[s.r]
         p == <<s.f, regs[s.s]>>
     IN ptr' = IF o \notin Obj \/ (s.op # "erase" /\ p[2] \notin Obj) THEN ptr
               ELSE [ptr EXCEPT ![o] = CASE s.op = "link" -> @ \cup {p}
                                         [] s.op = "unlink" -> @ \ {p}
                                         [] OTHER -> {q \in @ : q[1] # s.f}]
  /\ UNCHANGED <<type, rest, regs, rooted, tempRoots>>

\* What a field of an object may yield: a pointer to freed memory has any type.
Found(s) == LET o == regs[s.s]
            IN IF o \notin Obj THEN {}
               ELSE {p[2] : p \in {q \in ptr[o] : q[1] = s.f /\
                      (q[2] = Dead \/ s.t = "any" \/ type[q[2]] = s.t)}}

Yielded(s) == IF s.op = "get" /\ Found(s) = {} THEN {Null} ELSE Found(s)

\* It may be copied, but not made a root.
Load ==
  /\ Advance({"pick", "get"})
  /\ \E v \in Yielded(Head(code)) :
       /\ regs' = [regs EXCEPT ![Head(code).r] = v]
       /\ fault' = (UsesDead \/ (v = Dead /\ Head(code).r \in rooted))
  /\ UNCHANGED <<heap, rest, rooted, tempRoots>>

\* There is none: the function returns.
LoadNone ==
  /\ phase = "run" /\ ~fault /\ code # <<>> /\ Head(code).op = "pick"
  /\ Found(Head(code)) = {}
  /\ fault' = (regs[Head(code).s] = Dead)
  /\ code' = <<>>
  /\ UNCHANGED <<heap, list, marks, collector, regs, rooted, tempRoots, calls>>

Read == Step1({"use"}) /\ UNCHANGED <<heap, rest, regs, rooted, tempRoots>>

\* vm->compiler and compiler->enclosingClass change.
SetCompiler ==
  /\ Step1({"root", "unroot"})
  /\ LET s == Head(code)
     IN rooted' = IF s.op = "root" THEN rooted \cup Group(s.r) ELSE rooted \ Group(s.r)
  /\ UNCHANGED <<heap, rest, regs, tempRoots>>

-----------------------------------------------------------------------------
(* The host and the interpreter *)

\* The next function: what the last one had in its variables is gone.
Call ==
  /\ phase = "run" /\ ~fault /\ code = <<>> /\ calls < MaxCalls
  /\ code' \in Calls
  /\ calls' = calls + 1
  /\ regs' = [r \in Reg |-> IF r \in Roots \cup Fixed THEN regs[r] ELSE Null]
  /\ UNCHANGED <<heap, list, marks, collector, rooted, tempRoots, fault>>

\* wrenFreeVM frees the whole list, in its order.
wrenFreeVM ==
  /\ phase = "run" /\ ~fault /\ code = <<>> /\ calls = MaxCalls
  /\ phase' = "free"
  /\ UNCHANGED <<heap, list, marks, collected, collections, mutator, fault>>

FreeNext ==
  /\ phase = "free" /\ ~fault /\ rest # <<>>
  /\ wrenFreeObj(Head(rest))
  /\ rest' = Tail(rest)
  /\ UNCHANGED <<type, kept, marks, collector, rooted, tempRoots, code, calls>>

Next == \/ wrenCollectGarbage \/ wrenBlackenObjects \/ MarkEnds
        \/ SweepKeep \/ SweepFree \/ SweepEnds
        \/ AllocateObj \/ Allocate \/ system_gc_returns \/ wrenPushRoot \/ wrenPopRoot
        \/ Assign \/ Store \/ Load \/ LoadNone \/ Read \/ SetCompiler
        \/ Call \/ wrenFreeVM \/ FreeNext

Spec == Init /\ [][Next]_vars

-----------------------------------------------------------------------------
(* Correctness *)

TypeOK ==
  /\ type \in [Obj -> Type]
  /\ ptr \in [Obj -> SUBSET (Field \X (Obj \cup {Dead}))]
  /\ kept \in Seq(Obj) /\ rest \in Seq(Obj)
  /\ dark \subseteq Obj /\ gray \subseteq Obj
  /\ phase \in {"run", "mark", "sweep", "free"}
  /\ collected \in BOOLEAN /\ fault \in BOOLEAN
  /\ regs \in [Reg -> Obj \cup {Null, Dead}]
  /\ rooted \subseteq Reg
  /\ tempRoots \in Seq(Obj \cup {Null, Dead})
  /\ code \in Seq(Step)
  /\ calls \in 0..MaxCalls /\ collections \in 0..MaxCollections

\* What this collection leaves, as far as it is known
Stay == IF phase = "sweep" THEN Elements(kept) \cup dark ELSE Allocated

\* A collection frees nothing that the roots reach: the roots, and whatever a
\* blacken function follows from an object that stays, are objects that stay.
\* (wrenCollectGarbage; every object the program can get at is among them.)
NothingLost ==
  ~fault /\ phase # "free" =>
    /\ Stay \subseteq Allocated
    /\ RootObjects \subseteq Stay
    /\ \A o \in Stay : Marked(o) \subseteq Stay

\* The parts of the invariant that makes it so.  No object is twice in the list.
Distinct ==
  /\ \A i, j \in DOMAIN rest : rest[i] = rest[j] => i = j
  /\ \A i, j \in DOMAIN kept : kept[i] = kept[j] => i = j
  /\ Elements(kept) \cap Elements(rest) = {}
  /\ phase # "sweep" => kept = <<>>

\* Where a pointer may lead
Live == Allocated \cup {Dead}
Pointers ==
  /\ \A r \in Reg : regs[r] \in Live \cup {Null}
  /\ \A o \in Obj : \A p \in ptr[o] : p[2] \in Live

\* While marking, what a black object goes on to is gray or black; while
\* sweeping, the marks left are ahead.
Marking ==
  /\ phase = "run" => dark = {} /\ gray = {}
  /\ phase = "mark" =>
       /\ RootObjects \subseteq dark /\ dark \subseteq Allocated
       /\ gray \subseteq dark
       /\ \A o \in dark \ gray : Marked(o) \subseteq dark
  /\ phase = "sweep" => dark \subseteq Elements(rest) /\ gray = {}

IInv ==
  /\ TypeOK
  /\ phase = "mark" => ~fault
  /\ ~fault /\ phase # "free" => NothingLost /\ Distinct /\ Pointers /\ Marking

\* What the roots reach through the fields the collector follows
Reached == LET Reach[n \in 0..Cardinality(Obj)] ==
                 IF n = 0 THEN RootObjects
                 ELSE LET S == Reach[n - 1] IN S \cup UNION {Marked(o) : o \in S}
           IN Reach[Cardinality(Obj)]

\* A collection leaves nothing else: right after it the list vm->first has
\* exactly the reachable objects, each of them once and unmarked.
NoGarbageLeft ==
  phase = "run" /\ collected =>
    /\ Allocated = Reached
    /\ Len(rest) = Cardinality(Allocated)
    /\ dark = {}

\* The invariant that makes it so: what is found, what then stays and what is
\* left is reached, up to the end of the step that the collection is part of.
Collecting == phase \in {"mark", "sweep"} \/ (phase = "run" /\ collected)

Seen == IF phase = "mark" THEN dark ELSE Stay

OnlyReached ==
  Collecting =>
    /\ code # <<>> /\ Head(code).op \in {"new", "grow", "gc"}
    /\ phase = "run" => ~fault
    /\ ~fault => Seen \subseteq Reached

\* No C function of the VM uses an object that a collection freed under its
\* hands, no finalizer looks for the methods of a class that is gone, and no
\* freed object becomes a root.
NoDangling == ~fault

\* Each function gives back the temporary roots it took and leaves no compiler
\* behind, whichever way it returns; there is room for all of them.
RootsReturned ==
  /\ code = <<>> => tempRoots = <<>> /\ rooted = Roots
  /\ Len(tempRoots) <= WREN_MAX_TEMP_ROOTS
=============================================================================
