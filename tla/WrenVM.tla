------------------------------- MODULE WrenVM -------------------------------
(***************************************************************************)
(* The interpreter loop of lib/wren_vm.c, one fiber, running what the      *)
(* compiler (WrenCompiler) makes of a program: locals, upvalues, calls,    *)
(* classes and their methods, and imports.  Fibers are WrenFiber's.        *)
(*                                                                         *)
(* Host.flip and the foreign methods of a program stand for what the host  *)
(* decides: they answer true or false, at most MaxFlips times, then false. *)
(***************************************************************************)
EXTENDS WrenCompiler

CONSTANTS
  Programs,       \* sequence of [main, src, invalid]: src are the lines of each module,
                  \* invalid the modules that break a rule of the language
  Chosen,         \* the programs to run, as indices
  MaxFlips

ASSUME VMAssumption == MaxFlips \in Nat /\ Chosen \subseteq DOMAIN Programs

\* What a program is compiled to: its modules share one sequence of functions.
Linked(L, m, P) ==
  [fns |-> P.fns,
   ok |-> L.ok @@ (m :> ~P.hasError),
   entry |-> L.entry @@ (m :> Len(P.fns)),
   names |-> L.names @@ (m :> [i \in DOMAIN P.variables |-> P.variables[i].name])]

Compiled(p) ==
  FoldLeft(LAMBDA L, m : Linked(L, m, wrenCompile(L.fns, m, p.src[m])),
           [fns |-> <<>>, ok |-> <<>>, entry |-> <<>>, names |-> <<>>], SetToSeq(DOMAIN p.src))

VARIABLES
  prog, Program, choices, out, status,        \* the program, the host and the result
  stack, base, capacity, frames, open,        \* the fiber; base names its stack array
  heap, modules, lastModule, bound            \* objects, variables, code patched by classes

host == <<prog, Program, choices, out, status>>
fiber == <<stack, base, capacity, frames, open>>
global == <<heap, modules, lastModule, bound>>
vars == <<host, fiber, global>>

Frame == Last(frames)
FnOf(f) == Program.fns[heap[f.closure].fn]
Instruction == FnOf(Frame).code[Frame.ip]
Constant(i) == FnOf(Frame).constants[i]
Running(op) == status = "running" /\ Instruction.op = op

Local(slot) == stack[Frame.start + slot]
Peek == Last(stack)
Pop(n) == SubSeq(stack, 1, Len(stack) - n)
Step(n) == frames' = [frames EXCEPT ![Len(frames)].ip = @ + n]

\* An instruction that changes nothing but the stack.
Push(s) == /\ stack' = s
           /\ Step(1)
           /\ UNCHANGED <<host, base, capacity, open, global>>
Abort == status' = "error" /\ UNCHANGED <<prog, Program, choices, out, fiber, global>>

wrenPowerOf2Ceil(n) == 2 ^ (CHOOSE k \in 0..n : 2 ^ k >= n /\ (k > 0 => 2 ^ (k - 1) < n))

\* A module's variables before it runs: those of the core module, and nulls.
FreshModule(m) ==
  [i \in DOMAIN Program.names[m] |->
     IF i <= Len(CoreVariables) THEN CORE(CoreVariables[i]) ELSE NULL]

Init ==
  /\ prog \in Chosen
  /\ Program = Compiled(Programs[prog])
  /\ choices = <<>> /\ out = <<>>
  /\ status = IF Program.ok[Programs[prog].main] THEN "running" ELSE "rejected"
  /\ LET fn == Program.entry[Programs[prog].main]
     IN IF status = "running"
        THEN /\ heap = <<[k |-> "closure", fn |-> fn, upvalues |-> <<>>]>>
             /\ stack = <<OBJ(1)>>
             /\ capacity = wrenPowerOf2Ceil(Program.fns[fn].maxSlots + 1)
             /\ frames = <<[closure |-> 1, ip |-> 1, start |-> 1, base |-> 0,
                             limit |-> Program.fns[fn].maxSlots + 1]>>
        ELSE heap = <<>> /\ stack = <<>> /\ capacity = 0 /\ frames = <<>>
  /\ base = 0
  /\ open = <<>>
  /\ modules = Programs[prog].main :> FreshModule(Programs[prog].main)
  /\ lastModule = ""
  /\ bound = [i \in DOMAIN Program.fns |-> [shift |-> 0, super |-> 0]]

-----------------------------------------------------------------------------
(* Constants, variables and jumps *)

LoadConstant ==
  \/ Running("CONSTANT") /\ Push(Append(stack, Constant(Instruction.a)))
  \/ Running("NULL") /\ Push(Append(stack, NULL))
  \/ Running("TRUE") /\ Push(Append(stack, BOOL(TRUE)))
  \/ Running("FALSE") /\ Push(Append(stack, BOOL(FALSE)))

PopOp == Running("POP") /\ Push(Pop(1))
LoadLocal == Running("LOAD_LOCAL") /\ Push(Append(stack, Local(Instruction.a)))
StoreLocal == Running("STORE_LOCAL") /\ Push([stack EXCEPT ![Frame.start + Instruction.a] = Peek])

Upvalue == heap[Frame.closure].upvalues[Instruction.a]
LoadUpvalue ==
  /\ Running("LOAD_UPVALUE")
  /\ Push(Append(stack, IF heap[Upvalue].slot # 0 THEN stack[heap[Upvalue].slot]
                        ELSE heap[Upvalue].closed))
StoreUpvalue ==
  /\ Running("STORE_UPVALUE")
  /\ Step(1)
  /\ IF heap[Upvalue].slot # 0
     THEN stack' = [stack EXCEPT ![heap[Upvalue].slot] = Peek] /\ UNCHANGED heap
     ELSE heap' = [heap EXCEPT ![Upvalue].closed = Peek] /\ UNCHANGED stack
  /\ UNCHANGED <<host, base, capacity, open, modules, lastModule, bound>>

Module == FnOf(Frame).module
LoadModuleVar ==
  Running("LOAD_MODULE_VAR") /\ Push(Append(stack, modules[Module][Instruction.a]))
StoreModuleVar ==
  /\ Running("STORE_MODULE_VAR")
  /\ modules' = [modules EXCEPT ![Module][Instruction.a] = Peek]
  /\ Step(1)
  /\ UNCHANGED <<host, stack, base, capacity, open, heap, lastModule, bound>>

\* The field an instruction reaches: bindMethod has shifted its byte.
FieldIndex == (Instruction.a + bound[heap[Frame.closure].fn].shift) % 256
InBounds(v) == v.t = "obj" /\ heap[v.v].k = "instance" /\ FieldIndex < Len(heap[v.v].fields)
Undefined == status' = "undefined" /\ UNCHANGED <<prog, Program, choices, out, fiber, global>>

LoadField ==
  \E this \in BOOLEAN :
    LET receiver == IF this THEN Local(0) ELSE Peek
    IN /\ Running(IF this THEN "LOAD_FIELD_THIS" ELSE "LOAD_FIELD")
       /\ IF InBounds(receiver)
          THEN Push(Append(IF this THEN stack ELSE Pop(1), heap[receiver.v].fields[FieldIndex + 1]))
          ELSE Undefined
StoreField ==
  \E this \in BOOLEAN :
    LET receiver == IF this THEN Local(0) ELSE Peek
        rest == IF this THEN stack ELSE Pop(1)
    IN /\ Running(IF this THEN "STORE_FIELD_THIS" ELSE "STORE_FIELD")
       /\ IF InBounds(receiver)
          THEN /\ heap' = [heap EXCEPT ![receiver.v].fields[FieldIndex + 1] = Last(rest)]
               /\ stack' = rest
               /\ Step(1)
               /\ UNCHANGED <<host, base, capacity, open, modules, lastModule, bound>>
          ELSE Undefined

Jump ==
  /\ \/ Running("JUMP") /\ Step(1 + Instruction.a)
     \/ Running("LOOP") /\ Step(1 - Instruction.a)
  /\ UNCHANGED <<host, stack, base, capacity, open, global>>

\* JUMP_IF takes the condition; AND and OR keep it when they jump.
Branch ==
  /\ status = "running" /\ Instruction.op \in {"JUMP_IF", "AND", "OR"}
  /\ LET jumps == wrenIsFalsyValue(Peek) = (Instruction.op # "OR")
     IN /\ Step(IF jumps THEN 1 + Instruction.a ELSE 1)
        /\ stack' = IF jumps /\ Instruction.op # "JUMP_IF" THEN stack ELSE Pop(1)
  /\ UNCHANGED <<host, base, capacity, open, global>>
-----------------------------------------------------------------------------
(* Upvalues: open lists those that still point into the stack, from the    *)
(* top down.                                                               *)

FindOpen(slot) == {u \in {open[i] : i \in DOMAIN open} : heap[u].slot = slot}

LinkSorted(h, opens, u) ==
  SelectSeq(opens, LAMBDA v : h[v].slot > h[u].slot) \o <<u>>
    \o SelectSeq(opens, LAMBDA v : h[v].slot < h[u].slot)

\* The closure of function fn, and upvalues for the locals it captures.
Closure ==
  LET captures == Instruction.b
      New == {Frame.start + c.index : c \in {x \in Range(captures) : x.isLocal}}
      fresh == SetToSortSeq({s \in New : FindOpen(s) = {}}, <)
      closure == Len(heap) + 1
      h == heap \o <<[k |-> "closure", fn |-> Constant(Instruction.a).v, upvalues |-> <<>>]>>
                \o [i \in DOMAIN fresh |-> [k |-> "upvalue", slot |-> fresh[i], base |-> base,
                                            closed |-> NULL]]
      opens == FoldLeft(LAMBDA l, i : LinkSorted(h, l, closure + i), open, [i \in DOMAIN fresh |-> i])
      At(slot) == CHOOSE u \in Range(opens) : h[u].slot = slot
      taken == [i \in DOMAIN captures |->
                  IF captures[i].isLocal THEN At(Frame.start + captures[i].index)
                  ELSE heap[Frame.closure].upvalues[captures[i].index]]
  IN /\ Running("CLOSURE")
     /\ heap' = [h EXCEPT ![closure].upvalues = taken]
     /\ open' = opens
     /\ stack' = Append(stack, OBJ(closure))
     /\ Step(1)
     /\ UNCHANGED <<host, base, capacity, modules, lastModule, bound>>

Closes(u, last) == heap[u].slot >= last

\* The upvalues of the slots from last on take their values with them.
closeUpvalues(last) ==
  /\ heap' = [i \in DOMAIN heap |->
                IF i \in Range(open) /\ Closes(i, last)
                THEN [heap[i] EXCEPT !.closed = stack[heap[i].slot], !.slot = 0] ELSE heap[i]]
  /\ open' = SelectSeq(open, LAMBDA u : ~Closes(u, last))

CloseUpvalue ==
  /\ Running("CLOSE_UPVALUE")
  /\ closeUpvalues(Len(stack))
  /\ stack' = Pop(1)
  /\ Step(1)
  /\ UNCHANGED <<host, base, capacity, modules, lastModule, bound>>

\* The result takes the place of the receiver; the last frame ends the program.
Return ==
  /\ Running("RETURN")
  /\ closeUpvalues(Frame.start)
  /\ IF Len(frames) = 1
     THEN /\ status' = "done"
          /\ stack' = <<Peek>>
          /\ frames' = <<>>
     ELSE /\ stack' = Append(SubSeq(stack, 1, Frame.start - 1), Peek)
          /\ frames' = Front(frames)
          /\ UNCHANGED status
  /\ UNCHANGED <<prog, Program, choices, out, base, capacity, modules, lastModule, bound>>

-----------------------------------------------------------------------------
(* Calls *)

Args(n) == SubSeq(stack, Len(stack) - n + 1, Len(stack))

\* (wrong on purpose) only what the function adds is asked for
NeededAlone(fn) == fn.maxSlots

\* What wrenCallFunction makes sure the stack has room for.
Needed(fn) == Len(stack) + fn.maxSlots

\* (wrong on purpose) the open upvalues still point into the old array
MovedFramesOnly(h, opens, b) == h

\* wrenEnsureStack: a stack that grows is another array, and everything that
\* points into it is moved.
Moved(h, opens, b) == [i \in DOMAIN h |-> IF i \in Range(opens) THEN [h[i] EXCEPT !.base = b] ELSE h[i]]

\* A frame for the closure, whose receiver and arguments are the top n slots
\* of the stack after push; h is the heap.
CallClosure(closure, n, s, h) ==
  LET fn == Program.fns[h[closure].fn]
      needed == Needed(fn) + Len(s) - Len(stack)
      grows == capacity < needed
      b == IF grows THEN base + 1 ELSE base
      below == [i \in DOMAIN frames |->
                  [frames[i] EXCEPT !.base = IF grows THEN b ELSE @,
                                    !.ip = IF i = Len(frames) THEN @ + 1 ELSE @]]
  IN /\ base' = b
     /\ capacity' = IF grows THEN wrenPowerOf2Ceil(needed) ELSE capacity
     /\ heap' = IF grows THEN Moved(h, open, b) ELSE h
     /\ stack' = s
     /\ frames' = Append(below, [closure |-> closure, ip |-> 1, start |-> Len(s) - n + 1, base |-> b,
                                 limit |-> needed])
     /\ UNCHANGED <<host, open, bound>>

IsCall == status = "running" /\ Instruction.op \in {"CALL", "SUPER"}
NumArgs == Instruction.a + 1
Symbol == IF Instruction.op = "SUPER" THEN Instruction.b.symbol ELSE Instruction.b
Receiver == stack[Len(stack) - Instruction.a]
IsObject(kind) == Receiver.t = "obj" /\ heap[Receiver.v].k = kind

\* The methods of the class of the receiver, or of the superclass that
\* bindMethod has put into the constant of a super call; 0 is class Object.
Methods ==
  LET super == bound[heap[Frame.closure].fn].super
  IN CASE Instruction.op = "SUPER" -> IF super > 0 THEN heap[super].methods ELSE <<>>
       [] Instruction.op = "CALL" /\ IsObject("class") -> heap[Receiver.v].statics
       [] Instruction.op = "CALL" /\ (IsObject("instance") \/ IsObject("foreign")) ->
            heap[heap[Receiver.v].cls].methods
       [] OTHER -> <<>>

Defined == Symbol \in DOMAIN Methods
IsFunctionCall == IsObject("closure") /\ Instruction.op = "CALL" /\ Symbol[1] = "call"
Returned(v) == Push(Append(Pop(NumArgs), v))
CoreCall(n, symbol) == Receiver = CORE(n) /\ Symbol = symbol /\ ~Defined

CallPrimitive ==
  /\ IsCall /\ ~Defined /\ ~IsFunctionCall
  /\ LET r == Primitive(Receiver, Symbol, Tail(Args(NumArgs)))
     IN \/ /\ Symbol \in Primitives(Receiver)
           /\ IF r.ok THEN Returned(r.val) ELSE Abort
        \/ /\ CoreCall("Fn", <<"new", "method", 1>>)
           /\ IF Peek.t = "obj" /\ heap[Peek.v].k = "closure" THEN Returned(Peek) ELSE Abort

PrintValue ==
  /\ IsCall /\ CoreCall("System", <<"print", "method", 1>>)
  /\ out' = Append(out, Peek)
  /\ stack' = Append(Pop(NumArgs), Peek)
  /\ Step(1)
  /\ UNCHANGED <<prog, Program, choices, status, base, capacity, open, global>>

CallForeign ==
  /\ IsCall
  /\ \/ CoreCall("Host", <<"flip", "getter", 0>>)
     \/ Defined /\ Methods[Symbol] = 0
  /\ \E answer \in BOOLEAN :
       /\ IF Len(choices) < MaxFlips THEN choices' = Append(choices, answer)
          ELSE ~answer /\ UNCHANGED choices
       /\ stack' = Append(Pop(NumArgs), BOOL(answer))
  /\ Step(1)
  /\ UNCHANGED <<prog, Program, out, status, base, capacity, open, global>>

\* METHOD_FUNCTION_CALL: more arguments than parameters are let pass.
CallFn ==
  /\ IsCall /\ IsFunctionCall
  /\ IF Instruction.a >= Program.fns[heap[Receiver.v].fn].arity
     THEN CallClosure(Receiver.v, NumArgs, stack, heap) /\ UNCHANGED <<modules, lastModule>>
     ELSE Abort

CallMethod ==
  /\ IsCall /\ Defined /\ Methods[Symbol] # 0
  /\ CallClosure(Methods[Symbol], NumArgs, stack, heap)
  /\ UNCHANGED <<modules, lastModule>>

MethodNotFound ==
  /\ IsCall /\ ~Defined /\ ~IsFunctionCall
  /\ Symbol \notin Primitives(Receiver)
  /\ ~CoreCall("Fn", <<"new", "method", 1>>) /\ ~CoreCall("System", <<"print", "method", 1>>)
  /\ ~CoreCall("Host", <<"flip", "getter", 0>>)
  /\ Abort

-----------------------------------------------------------------------------
(* Classes *)

\* createClass, with validateSuperclass: the methods of the superclass are
\* copied, and its fields come first.
ClassOp ==
  /\ status = "running" /\ Instruction.op \in {"CLASS", "FOREIGN_CLASS"}
  /\ LET isForeign == Instruction.op = "FOREIGN_CLASS"
         inherits == Peek.t = "obj" /\ heap[Peek.v].k = "class"
         super == IF inherits THEN heap[Peek.v] ELSE [numFields |-> 0, methods |-> <<>>, isForeign |-> FALSE]
         valid == /\ inherits \/ Peek = CORE("Object")
                  /\ ~super.isForeign
                  /\ isForeign => super.numFields = 0
                  /\ super.numFields + Instruction.a <= MAX_FIELDS
     IN IF valid
        THEN /\ heap' = Append(heap, [k |-> "class", super |-> IF inherits THEN Peek.v ELSE 0,
                                      isForeign |-> isForeign,
                                      numFields |-> super.numFields + Instruction.a,
                                      methods |-> super.methods, statics |-> <<>>])
             /\ stack' = Append(Pop(2), OBJ(Len(heap) + 1))
             /\ Step(1)
             /\ UNCHANGED <<host, base, capacity, open, modules, lastModule, bound>>
        ELSE Abort

\* The functions wrenBindMethodCode patches: the method's, and those it has
\* closures of.
RECURSIVE Nested(_)
Nested(f) ==
  {f} \cup UNION {LET i == Program.fns[f].code[n]
                  IN IF i.op = "CLOSURE" THEN Nested(Program.fns[f].constants[i.a].v) ELSE {}
                  : n \in DOMAIN Program.fns[f].code}

Patched(b, f, shift, super) ==
  [g \in DOMAIN b |-> IF g \in Nested(f)
                      THEN [shift |-> (b[g].shift + shift) % 256, super |-> super] ELSE b[g]]

\* bindMethod: a foreign method is 0.  The superclass of a metaclass is Class.
Method ==
  /\ status = "running" /\ Instruction.op \in {"METHOD_INSTANCE", "METHOD_STATIC"}
  /\ LET static == Instruction.op = "METHOD_STATIC"
         cls == heap[Peek.v]
         value == stack[Len(stack) - 1]
         closure == IF value.t = "obj" THEN value.v ELSE 0
         shift == IF static \/ cls.super = 0 THEN 0 ELSE heap[cls.super].numFields
     IN /\ heap' = IF static
                   THEN [heap EXCEPT ![Peek.v].statics = (Instruction.b :> closure) @@ @]
                   ELSE [heap EXCEPT ![Peek.v].methods = (Instruction.b :> closure) @@ @]
        /\ bound' = IF closure = 0 THEN bound
                    ELSE Patched(bound, heap[closure].fn, shift, IF static THEN 0 ELSE cls.super)
        /\ stack' = Pop(2)
  /\ Step(1)
  /\ UNCHANGED <<host, base, capacity, open, modules, lastModule>>

\* The class in the first slot is replaced by an instance of it.
Construct ==
  /\ status = "running" /\ Instruction.op \in {"CONSTRUCT", "FOREIGN_CONSTRUCT"}
  /\ LET cls == Local(0).v
         object == IF Instruction.op = "CONSTRUCT"
                   THEN [k |-> "instance", cls |-> cls,
                         fields |-> [i \in 1..heap[cls].numFields |-> NULL]]
                   ELSE [k |-> "foreign", cls |-> cls]
     IN /\ heap' = Append(heap, object)
        /\ stack' = [stack EXCEPT ![Frame.start] = OBJ(Len(heap) + 1)]
  /\ Step(1)
  /\ UNCHANGED <<host, base, capacity, open, modules, lastModule, bound>>

-----------------------------------------------------------------------------
(* Modules *)

\* A module that is loaded is remembered; one that is not is compiled and
\* called.  It is entered in the table before it is compiled.
ImportModule ==
  /\ Running("IMPORT_MODULE")
  /\ LET m == Constant(Instruction.a).s
         loaded == m \in DOMAIN modules
         h == Append(heap, [k |-> "closure", fn |-> Program.entry[m], upvalues |-> <<>>])
         s == Append(stack, OBJ(Len(h)))
     IN CASE loaded ->
               /\ lastModule' = m
               /\ stack' = Append(stack, [t |-> "module", v |-> 0])
               /\ Step(1)
               /\ UNCHANGED <<host, base, capacity, open, heap, modules, bound>>
          [] ~loaded /\ m \in DOMAIN Program.ok ->
               /\ modules' = modules @@ (m :> FreshModule(m))
               /\ UNCHANGED lastModule
               /\ IF Program.ok[m] THEN CallClosure(Len(h), 1, s, h)
                  ELSE /\ status' = "error"
                       /\ UNCHANGED <<prog, Program, choices, out, fiber, heap, bound>>
          [] OTHER -> Abort

EndModule ==
  /\ Running("END_MODULE")
  /\ lastModule' = Module
  /\ stack' = Append(stack, NULL)
  /\ Step(1)
  /\ UNCHANGED <<host, base, capacity, open, heap, modules, bound>>

ImportVariable ==
  /\ Running("IMPORT_VARIABLE")
  /\ LET found == {i \in DOMAIN modules[lastModule] :
                     Program.names[lastModule][i] = Constant(Instruction.a).s}
     IN IF found = {} THEN Abort ELSE Push(Append(stack, modules[lastModule][Min(found)]))

-----------------------------------------------------------------------------
\* A program that has ended; any other that stops is a deadlock.
Ended == status # "running" /\ UNCHANGED vars

Next ==
  \/ LoadConstant \/ PopOp \/ LoadLocal \/ StoreLocal \/ LoadUpvalue \/ StoreUpvalue
  \/ LoadModuleVar \/ StoreModuleVar \/ LoadField \/ StoreField \/ Jump \/ Branch
  \/ Closure \/ CloseUpvalue \/ Return
  \/ CallPrimitive \/ PrintValue \/ CallForeign \/ CallFn \/ CallMethod \/ MethodNotFound
  \/ ClassOp \/ Method \/ Construct
  \/ ImportModule \/ EndModule \/ ImportVariable \/ Ended

Spec == Init /\ [][Next]_vars

-----------------------------------------------------------------------------
(* Properties *)

Reference == INSTANCE WrenMeaning

\* A program that has ended has printed what it means, and it has ended with
\* an error only if that is what it means: over shadowed and captured variables,
\* loops left from nested blocks, inherited fields and methods, and imports.
MeansTheSame ==
  status \in {"done", "error"} =>
    Reference!Meaning(Restrict(Programs[prog].src, DOMAIN Programs[prog].src \ Programs[prog].invalid),
                      Programs[prog].main, choices) =
      [out |-> out, error |-> status = "error"]

\* The compiler rejects just the programs that break a rule of the language
\* (error() in wren_compiler.c).
RejectsInvalid ==
  /\ \A m \in DOMAIN Program.ok : Program.ok[m] = (m \notin Programs[prog].invalid)
  /\ (status = "rejected") = (Programs[prog].main \in Programs[prog].invalid)

\* The stack stays within its array, and while a function runs, within what
\* the compiler's count of its slots made the call ask for (limit).
StackFits ==
  /\ Len(stack) <= capacity
  /\ \A i \in DOMAIN frames :
       (IF i = Len(frames) THEN Len(stack) ELSE frames[i + 1].start) <= frames[i].limit

\* No upvalue refers to a slot that is gone: the open ones are in the list,
\* from the top of the stack down, one for a slot; and after the stack has
\* moved, whatever points into it points into the new array.
UpvaluesLive ==
  /\ \A i \in DOMAIN open : heap[open[i]].slot \in 1..Len(stack)
  /\ \A i, j \in DOMAIN open : i < j => heap[open[i]].slot > heap[open[j]].slot
  /\ \A i \in DOMAIN heap : heap[i].k = "upvalue" /\ heap[i].slot # 0 => i \in Range(open)
  /\ \A i \in DOMAIN open : heap[open[i]].base = base
  /\ \A i \in DOMAIN frames : frames[i].base = base

\* An instruction reaches a field the instance has (the assertions ``Out of
\* bounds field'' and ``Receiver should be instance'').
FieldsInBounds == status # "undefined"
=============================================================================
