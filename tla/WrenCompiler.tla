---------------------------- MODULE WrenCompiler ----------------------------
(***************************************************************************)
(* The single-pass compiler of lib/wren_compiler.c, from syntax trees      *)
(* (WrenSyntax) to bytecode: name resolution, upvalues, the bookkeeping of *)
(* stack slots, jumps and their patching, loops, classes and imports.      *)
(*                                                                         *)
(* An operator of the name of a C function takes the parser P before it    *)
(* and gives the parser after it.  An instruction is a record; its         *)
(* arguments are not cut into bytes, and jumps count instructions.         *)
(* CODE_LOAD_LOCAL_0 to _8 are LOAD_LOCAL, CODE_CALL_n is CALL with n.     *)
(***************************************************************************)
EXTENDS WrenPrimitives, FiniteSetsExt, SequencesExt

CONSTANTS
  CoreVariables,     \* sequence of the variables every module starts with
  LocalNames,        \* the names that begin with a lower case letter
  StaticNames,       \* the names that begin with an underscore
  MAX_LOCALS, MAX_FIELDS, MAX_CONSTANTS

-----------------------------------------------------------------------------
(* The state of a compilation.  P.cs are the compilers of the functions    *)
(* that enclose one another, the innermost last; P.fns the functions that  *)
(* are finished.                                                           *)

Ins(op, a, b) == [op |-> op, a |-> a, b |-> b]
NoClass == [open |-> FALSE]
STR(s) == [t |-> "str", v |-> 0, s |-> s]
FN(i) == [t |-> "fn", v |-> i]

Here(P) == Len(P.cs)
Cur(P) == P.cs[Here(P)]
Code(P) == Cur(P).code
Error(P) == [P EXCEPT !.hasError = TRUE]

initCompiler(P, isMethod) ==
  [P EXCEPT !.cs = Append(@,
    [code |-> <<>>, constants |-> <<>>, arity |-> 0, maxSlots |-> 1,
     locals |-> <<[name |-> IF isMethod THEN "this" ELSE "", depth |-> -1, isUpvalue |-> FALSE]>>,
     upvalues |-> <<>>, scopeDepth |-> IF @ = <<>> THEN -1 ELSE 0, numSlots |-> 1,
     loop |-> <<>>, enclosingClass |-> NoClass, isInitializer |-> FALSE])]

stackEffects(i) ==
  CASE i.op \in {"CONSTANT", "NULL", "FALSE", "TRUE", "LOAD_LOCAL", "LOAD_UPVALUE",
                 "LOAD_MODULE_VAR", "LOAD_FIELD_THIS", "CLOSURE", "END_MODULE",
                 "IMPORT_MODULE", "IMPORT_VARIABLE"} -> 1
    [] i.op \in {"POP", "JUMP_IF", "AND", "OR", "CLOSE_UPVALUE", "STORE_FIELD", "CLASS",
                 "FOREIGN_CLASS"} -> -1
    [] i.op \in {"CALL", "SUPER"} -> -i.a
    [] i.op \in {"METHOD_INSTANCE", "METHOD_STATIC"} -> -2
    [] OTHER -> 0

\* To the function of the l-th compiler; emitByte leaves the slots alone.
emitByte(P, l, i) == [P EXCEPT !.cs[l].code = Append(@, i)]
emitAt(P, l, i) ==
  LET slots == P.cs[l].numSlots + stackEffects(i)
  IN [emitByte(P, l, i) EXCEPT !.cs[l].numSlots = slots,
                               !.cs[l].maxSlots = IF slots > @ THEN slots ELSE @]
emit(P, op, a, b) == emitAt(P, Here(P), Ins(op, a, b))
emitOp(P, op) == emit(P, op, 0, 0)

\* the parser, and the index of the constant
addConstant(P, v) ==
  LET pool == Cur(P).constants
      found == {i \in DOMAIN pool : pool[i] = v}
  IN CASE P.hasError -> [P |-> P, index |-> 0]
       [] ~P.hasError /\ found # {} -> [P |-> P, index |-> Min(found)]
       [] ~P.hasError /\ found = {} /\ Len(pool) < MAX_CONSTANTS ->
            [P |-> [P EXCEPT !.cs[Here(P)].constants = Append(@, v)], index |-> Len(pool) + 1]
       [] OTHER -> [P |-> Error(P), index |-> Len(pool)]

emitConstant(P, op, v, b) ==
  LET c == addConstant(P, v) IN emit(c.P, op, c.index, b)

-----------------------------------------------------------------------------
(* Variables and scopes *)

addLocal(P, l, n) ==
  [P EXCEPT !.cs[l].locals =
     Append(@, [name |-> n, depth |-> P.cs[l].scopeDepth, isUpvalue |-> FALSE])]

\* A slot, an upvalue or a module variable; the latter are numbered from 1.
VariableAt(scope, i) == [scope |-> scope, index |-> i]

ModuleVariables(P, n) == {i \in DOMAIN P.variables : P.variables[i].name = n}

\* wrenDefineVariable and wrenDeclareVariable
defineModuleVariable(P, n) ==
  LET found == ModuleVariables(P, n)
      i == Min(found)
  IN IF found = {}
     THEN [P EXCEPT !.variables = Append(@, [name |-> n, defined |-> TRUE])]
     ELSE IF P.variables[i].defined \/ n \in LocalNames
     THEN Error([P EXCEPT !.variables[i].defined = TRUE])
     ELSE [P EXCEPT !.variables[i].defined = TRUE]

\* (wrong on purpose) a name of an outer scope cannot be declared again
TakenOutside(c, n) == {i \in DOMAIN c.locals : c.locals[i].name = n}

\* The variables of that name in the scope itself.
Taken(c, n) == {i \in DOMAIN c.locals : c.locals[i].name = n /\ c.locals[i].depth >= c.scopeDepth}

declareVariable(P, l, n) ==
  LET c == P.cs[l]
      taken == Taken(c, n)
  IN CASE c.scopeDepth = -1 -> defineModuleVariable(P, n)
       [] c.scopeDepth # -1 /\ taken # {} -> Error(P)
       [] c.scopeDepth # -1 /\ taken = {} /\ Len(c.locals) = MAX_LOCALS -> Error(P)
       [] OTHER -> addLocal(P, l, n)

defineVariable(P, l, n) ==
  IF P.cs[l].scopeDepth >= 0 \/ ModuleVariables(P, n) = {} THEN P
  ELSE emitAt(emitAt(P, l, Ins("STORE_MODULE_VAR", Min(ModuleVariables(P, n)), 0)),
              l, Ins("POP", 0, 0))

pushScope(P) == [P EXCEPT !.cs[Here(P)].scopeDepth = @ + 1]

\* The locals at a depth or deeper are at the end of the list.
LocalsFrom(c, depth) == {i \in DOMAIN c.locals : c.locals[i].depth >= depth}

discardLocals(P, depth) ==
  LET c == Cur(P)
      last == Len(c.locals)
  IN FoldLeft(LAMBDA Q, n :
                emitByte(Q, Here(Q), Ins(IF c.locals[last + 1 - n].isUpvalue
                                         THEN "CLOSE_UPVALUE" ELSE "POP", 0, 0)),
              P, [n \in 1..Cardinality(LocalsFrom(c, depth)) |-> n])

popScope(P) ==
  LET popped == Cardinality(LocalsFrom(Cur(P), Cur(P).scopeDepth))
  IN [discardLocals(P, Cur(P).scopeDepth) EXCEPT
        !.cs[Here(P)].locals = SubSeq(@, 1, Len(@) - popped),
        !.cs[Here(P)].numSlots = @ - popped,
        !.cs[Here(P)].scopeDepth = @ - 1]

\* The slot of the innermost local with the name, or -1.
resolveLocal(c, n) == Max({i \in DOMAIN c.locals : c.locals[i].name = n} \cup {0}) - 1

addUpvalue(P, l, isLocal, index) ==
  LET u == [isLocal |-> isLocal, index |-> index]
      found == {i \in DOMAIN P.cs[l].upvalues : P.cs[l].upvalues[i] = u}
  IN IF found # {} THEN [P |-> P, index |-> Min(found)]
     ELSE [P |-> [P EXCEPT !.cs[l].upvalues = Append(@, u)],
           index |-> Len(P.cs[l].upvalues) + 1]

\* The parser, and the index of the upvalue or -1.
RECURSIVE findUpvalue(_, _, _)
findUpvalue(P, l, n) ==
  IF l = 1 \/ (n \notin StaticNames /\ P.cs[l - 1].enclosingClass.open)
  THEN [P |-> P, index |-> -1]
  ELSE LET slot == resolveLocal(P.cs[l - 1], n)
           outer == findUpvalue(P, l - 1, n)
       IN IF slot # -1
          THEN addUpvalue([P EXCEPT !.cs[l - 1].locals[slot + 1].isUpvalue = TRUE], l, TRUE, slot)
          ELSE IF outer.index = -1 THEN outer
          ELSE addUpvalue(outer.P, l, FALSE, outer.index)

resolveNonmodule(P, n) ==
  LET slot == resolveLocal(Cur(P), n)
      up == findUpvalue(P, Here(P), n)
  IN IF slot # -1 THEN [P |-> P, var |-> VariableAt("LOCAL", slot)]
     ELSE [P |-> up.P, var |-> VariableAt("UPVALUE", up.index)]

\* name: a module variable is implicitly declared by its first use.
resolveModule(P, n) ==
  LET found == ModuleVariables(P, n)
  IN IF found # {} THEN [P |-> P, var |-> VariableAt("MODULE_VAR", Min(found))]
     ELSE [P |-> [P EXCEPT !.variables = Append(@, [name |-> n, defined |-> FALSE])],
           var |-> VariableAt("MODULE_VAR", Len(P.variables) + 1)]

loadVariable(P, var) == emit(P, "LOAD_" \o var.scope, var.index, 0)
storeVariable(P, var) == emit(P, "STORE_" \o var.scope, var.index, 0)
loadThis(P) == LET r == resolveNonmodule(P, "this") IN loadVariable(r.P, r.var)
loadCoreVariable(P, n) == loadVariable(P, VariableAt("MODULE_VAR", Min(ModuleVariables(P, n))))
callMethod(P, n, type, numArgs) == emit(P, "CALL", numArgs, <<n, type, numArgs>>)

\* The compiler whose class is the nearest around the code, or 0.
ClassLevel(P) == Max({l \in DOMAIN P.cs : P.cs[l].enclosingClass.open} \cup {0})

-----------------------------------------------------------------------------
(* Functions *)

endCompiler(P) ==
  LET c == Cur(emitOp(P, "END"))
      fn == [code |-> c.code, constants |-> c.constants, arity |-> c.arity,
             maxSlots |-> c.maxSlots, numUpvalues |-> Len(c.upvalues), module |-> P.module]
      Q == [P EXCEPT !.cs = Front(@), !.fns = Append(@, fn)]
  IN IF P.hasError THEN [P EXCEPT !.cs = Front(@)]
     ELSE IF Len(P.cs) = 1 THEN Q
     ELSE emitConstant(Q, "CLOSURE", FN(Len(Q.fns)), c.upvalues)

\* The jump at a place goes to the end of the code so far.
patchJump(P, at) == [P EXCEPT !.cs[Here(P)].code[at].a = Len(Code(P)) - at]

finishParameterList(P, params) ==
  LET l == Here(P)
  IN [FoldLeft(LAMBDA Q, n : declareVariable(Q, l, n), P, params) EXCEPT !.cs[l].arity = Len(params)]

\* definition, statement or expression: which one, the tree tells.
RECURSIVE compile(_, _)

compileAll(P, ts) == FoldLeft(compile, P, ts)
finishBlock(P, body) ==
  IF body.k = "expression" THEN compile(P, body.e) ELSE compileAll(P, body.ss)

\* After the body: an initializer returns the instance.
finish(P, isExpression) ==
  emitOp(CASE Cur(P).isInitializer ->
                emit(IF isExpression THEN emitOp(P, "POP") ELSE P, "LOAD_LOCAL", 0, 0)
           [] ~Cur(P).isInitializer /\ ~isExpression -> emitOp(P, "NULL")
           [] OTHER -> P,
         "RETURN")
finishBody(P, body) == finish(finishBlock(P, body), body.k = "expression")

-----------------------------------------------------------------------------
(* Expressions *)

\* The block argument is one more argument.
blockArgument(P, block) ==
  IF block.k = "none" THEN P
  ELSE endCompiler(finishBody(finishParameterList(initCompiler(P, FALSE), block.params), block.body))

callSignature(P, op, n, type, arity) ==
  IF op = "SUPER"
  THEN LET c == addConstant(P, NULL)
       IN emit(c.P, op, arity, [symbol |-> <<n, type, arity>>, constant |-> c.index])
  ELSE emit(P, op, arity, <<n, type, arity>>)

\* The receiver is on the stack: the arguments, the block, and the call.
namedCall(P, op, e, n) ==
  LET arity == Len(e.es) + (IF e.block.k = "none" THEN 0 ELSE 1)
  IN callSignature(blockArgument(compileAll(P, e.es), e.block), op, n, e.type, arity)

\* (wrong on purpose) the field is looked up as if the class were the innermost function's
FieldThisAlways(P) == ClassLevel(P) # 0

\* Directly inside a method of the class.
InMethod(P) == ClassLevel(P) # 0 /\ ClassLevel(P) = Here(P) - 1

\* A field gets the next number when the class first names it.
field(P, e) ==
  LET l == ClassLevel(P)
      fields == P.cs[l].enclosingClass.fields
      known == IF e.n \in Range(fields) THEN fields ELSE Append(fields, e.n)
      index == CHOOSE i \in 0..Len(known) - 1 : known[i + 1] = e.n
      Q == [P EXCEPT !.cs[l].enclosingClass.fields = known]
      Access(R, op) == IF InMethod(R) THEN emit(R, op \o "_THIS", index, 0)
                       ELSE emit(loadThis(R), op, index, 0)
  IN IF \/ l = 0
        \/ P.cs[l].enclosingClass.isForeign
        \/ P.cs[l].enclosingClass.inStatic
        \/ Len(known) > MAX_FIELDS
     THEN Error(P)
     ELSE IF e.e.k = "none" THEN Access(Q, "LOAD_FIELD") ELSE Access(compile(Q, e.e), "STORE_FIELD")

bareName(P, var, e) ==
  IF e.k = "none" THEN loadVariable(P, var) ELSE storeVariable(compile(P, e), var)

staticField(P, e) ==
  LET l == ClassLevel(P)
      Q == IF resolveLocal(P.cs[l], e.n) # -1 THEN P
           ELSE defineVariable(emitAt(declareVariable(P, l, e.n), l, Ins("NULL", 0, 0)), l, e.n)
      r == resolveNonmodule(Q, e.n)
  IN IF l = 0 THEN Error(P) ELSE bareName(r.P, r.var, e.e)

\* A name, read (e = none) or assigned: a variable, else a call on this, else
\* a variable of the module.
name(P, n, e) ==
  LET r == resolveNonmodule(P, n)
      m == resolveModule(P, n)
  IN IF r.var.index # -1 THEN bareName(r.P, r.var, e)
     ELSE IF n \in LocalNames /\ ClassLevel(P) # 0
     THEN IF e.k = "none" THEN callSignature(loadThis(P), "CALL", n, "getter", 0)
          ELSE callSignature(compile(loadThis(P), e), "CALL", n, "setter", 1)
     ELSE bareName(m.P, m.var, e)

\* A name with arguments, where the name is no variable.
selfCall(P, e) ==
  IF resolveNonmodule(P, e.n).var.index = -1 /\ e.n \in LocalNames /\ ClassLevel(P) # 0
  THEN namedCall(loadThis(P), "CALL", e, e.n)
  ELSE Error(P)

element(P, e) == callMethod(compile(P, e), "addCore_", "method", 1)
list(P, es) ==
  FoldLeft(element, callMethod(loadCoreVariable(P, "List"), "new", "method", 0), es)

\* super.n(...), or super(...) for the method around it
super_(P, e) ==
  LET l == ClassLevel(P)
      sig == P.cs[l].enclosingClass.signature
      initializer == e.n = "" /\ sig.type = "initializer"
  IN IF l = 0 \/ (initializer /\ e.type # "method") THEN Error(P)
     ELSE namedCall(loadThis(P), "SUPER",
                    [e EXCEPT !.type = IF initializer THEN "initializer" ELSE @],
                    IF e.n = "" THEN sig.n ELSE e.n)

\* The tree, which the instruction before it jumps over.
over(P, t) == patchJump(compile(P, t), Len(Code(P)))

shortCircuit(P, op, a, b) == over(emitOp(compile(P, a), op), b)

\* After JUMP_IF: a, a jump over b, to which JUMP_IF goes, and b.
branch(P, a, b) == over(patchJump(emitOp(compile(P, a), "JUMP"), Len(Code(P))), b)

expression(P, e) ==
  CASE e.k = "literal" -> emitConstant(P, "CONSTANT", NUM(e.v), 0)
    [] e.k = "boolean" -> emitOp(P, IF e.b THEN "TRUE" ELSE "FALSE")
    [] e.k = "null" -> emitOp(P, "NULL")
    [] e.k = "name" -> name(P, e.n, [k |-> "none"])
    [] e.k = "assign" -> name(P, e.n, e.e)
    [] e.k = "field" -> field(P, e)
    [] e.k = "staticField" -> staticField(P, e)
    [] e.k = "this" -> IF ClassLevel(P) = 0 THEN Error(P) ELSE loadThis(P)
    [] e.k = "call" -> namedCall(compile(P, e.o), "CALL", e, e.n)
    [] e.k = "self" -> selfCall(P, e)
    [] e.k = "super" -> super_(P, e)
    [] e.k = "and" -> shortCircuit(P, "AND", e.a, e.b)
    [] e.k = "or" -> shortCircuit(P, "OR", e.a, e.b)
    [] e.k = "list" -> list(P, e.es)
    [] e.k = "conditional" -> branch(emitOp(compile(P, e.c), "JUMP_IF"), e.a, e.b)

-----------------------------------------------------------------------------
(* Statements *)

Loop(P) == Last(Cur(P).loop)

startLoop(P) ==
  [P EXCEPT !.cs[Here(P)].loop =
     Append(@, [start |-> Len(Code(P)), exitJump |-> 0, body |-> 0,
                scopeDepth |-> Cur(P).scopeDepth])]

testExitLoop(P) ==
  [emitOp(P, "JUMP_IF") EXCEPT !.cs[Here(P)].loop[Len(Cur(P).loop)].exitJump = Len(Code(P)) + 1]

loopBody(P, s) ==
  compile([P EXCEPT !.cs[Here(P)].loop[Len(Cur(P).loop)].body = Len(Code(P))], s)

\* A jump back to the start of the loop around the code.
emitLoop(P) == emit(P, "LOOP", Len(Code(P)) + 1 - Loop(P).start, 0)

\* (wrong on purpose) break jumps to the instruction that loops
EndLoopEarly(P) ==
  LET Q == patchJump(emitLoop(P), Loop(P).exitJump)
      Patched == [i \in DOMAIN Code(Q) |->
                    IF i > Loop(P).body /\ Code(Q)[i].op = "END"
                    THEN Ins("JUMP", Len(Code(Q)) - i - 1, 0) ELSE Code(Q)[i]]
  IN [Q EXCEPT !.cs[Here(P)].code = Patched, !.cs[Here(P)].loop = Front(@)]

\* The placeholders of break become jumps to the end.
endLoop(P) ==
  LET Q == patchJump(emitLoop(P), Loop(P).exitJump)
      Patched == [i \in DOMAIN Code(Q) |->
                    IF i > Loop(P).body /\ Code(Q)[i].op = "END"
                    THEN Ins("JUMP", Len(Code(Q)) - i, 0) ELSE Code(Q)[i]]
  IN [Q EXCEPT !.cs[Here(P)].code = Patched, !.cs[Here(P)].loop = Front(@)]

whileStatement(P, s) == endLoop(loopBody(testExitLoop(compile(startLoop(P), s.c)), s.s))

\* The sequence and the iterator are locals with names no program has.
HideLocal(P, n) == addLocal(P, Here(P), n)

forLoop(P, s) ==
  LET seqSlot == Len(Cur(P).locals) - 2
      iterSlot == Len(Cur(P).locals) - 1
      Iterator(Q, n) == callMethod(emit(emit(Q, "LOAD_LOCAL", seqSlot, 0), "LOAD_LOCAL", iterSlot, 0),
                                   n, "method", 1)
      Q == testExitLoop(emit(Iterator(startLoop(P), "iterate"), "STORE_LOCAL", iterSlot, 0))
      R == HideLocal(pushScope(Iterator(Q, "iteratorValue")), s.n)
  IN IF Len(Cur(P).locals) > MAX_LOCALS THEN Error(P)
     ELSE popScope(endLoop(popScope(loopBody(R, s.s))))

forStatement(P, s) ==
  forLoop(HideLocal(emitOp(HideLocal(compile(pushScope(P), s.e), "seq "), "NULL"), "iter "), s)

ifStatement(P, s) ==
  LET Q == emitOp(compile(P, s.c), "JUMP_IF")
  IN IF s.b.k = "none" THEN over(Q, s.a) ELSE branch(Q, s.a, s.b)

\* The locals of the loop's body are discarded, and stay declared.
leaveLoop(P) == discardLocals(P, Loop(P).scopeDepth + 1)

returnStatement(P, e) ==
  CASE e.k = "none" ->
         emitOp(IF Cur(P).isInitializer THEN emit(P, "LOAD_LOCAL", 0, 0) ELSE emitOp(P, "NULL"),
                "RETURN")
    [] e.k # "none" ->
         emitOp(compile(IF Cur(P).isInitializer THEN Error(P) ELSE P, e), "RETURN")

block(P, body) ==
  popScope(IF body.k = "expression" THEN emitOp(finishBlock(pushScope(P), body), "POP")
           ELSE finishBlock(pushScope(P), body))

statement(P, s) ==
  CASE s.k \in {"break", "continue"} /\ Cur(P).loop = <<>> -> Error(P)
    [] s.k = "break" /\ Cur(P).loop # <<>> -> emitOp(leaveLoop(P), "END")
    [] s.k = "continue" /\ Cur(P).loop # <<>> -> emitLoop(leaveLoop(P))
    [] s.k = "for" -> forStatement(P, s)
    [] s.k = "while" -> whileStatement(P, s)
    [] s.k = "if" -> ifStatement(P, s)
    [] s.k = "return" -> returnStatement(P, s.e)
    [] s.k = "block" -> block(P, s.body)
    [] s.k = "expression" -> emitOp(compile(P, s.e), "POP")
    [] OTHER -> expression(P, s)

-----------------------------------------------------------------------------
(* Definitions *)

variableDefinition(P, d) ==
  LET Q == compile(P, IF d.e.k = "none" THEN [k |-> "null"] ELSE d.e)
  IN defineVariable(declareVariable(Q, Here(P), d.n), Here(P), d.n)

defineMethod(P, var, isStatic, symbol) ==
  emit(loadVariable(P, var), IF isStatic THEN "METHOD_STATIC" ELSE "METHOD_INSTANCE", 0, symbol)

\* Two methods with one signature are an error, static ones apart.
declareMethod(P, m, symbol) ==
  LET l == Here(P)
      declared == <<m.isStatic, symbol>>
  IN IF declared \in P.cs[l].enclosingClass.methods THEN Error(P)
     ELSE [P EXCEPT !.cs[l].enclosingClass.methods = @ \cup {declared}]

\* The static method that allocates an instance and calls the initializer.
createConstructor(P, symbol) ==
  LET op == IF Cur(P).enclosingClass.isForeign THEN "FOREIGN_CONSTRUCT" ELSE "CONSTRUCT"
      Q == emitOp(initCompiler(P, TRUE), op)
  IN endCompiler(emitOp(emit(Q, "CALL", symbol[3], symbol), "RETURN"))

\* A foreign method is its signature, and its compiler goes without code.
methodBody(P, m) ==
  IF m.isForeign
  THEN emitConstant([P EXCEPT !.cs = Front(@)], "CONSTANT",
                    [t |-> "sig", v |-> 0, sig |-> <<m.n, m.type, Len(m.params)>>], 0)
  ELSE endCompiler(finishBody([P EXCEPT !.cs[Here(P)].isInitializer = m.type = "initializer"], m.body))

method(P, m) ==
  LET var == Cur(P).enclosingClass.var
      symbol == <<m.n, m.type, Len(m.params)>>
      isInitializer == m.type = "initializer"
      A == [declareMethod(P, m, symbol) EXCEPT
              !.cs[Here(P)].enclosingClass.inStatic = m.isStatic,
              !.cs[Here(P)].enclosingClass.signature = [n |-> m.n, type |-> m.type]]
      B == finishParameterList(initCompiler(IF isInitializer /\ m.isStatic THEN Error(A) ELSE A, TRUE),
                               m.params)
      C == defineMethod(methodBody(B, m), var, m.isStatic, symbol)
  IN IF isInitializer
     THEN defineMethod(createConstructor(C, symbol), var, TRUE, <<m.n, "method", symbol[3]>>)
     ELSE C

\* The methods, between an instruction whose operand is the number of fields
\* and the end of the class.
endClass(P, at) ==
  popScope([P EXCEPT !.cs[Here(P)].code[at].a = Len(Cur(P).enclosingClass.fields),
                     !.cs[Here(P)].enclosingClass = NoClass])

classBody(P, d) ==
  LET l == Here(P)
      var == IF Cur(P).scopeDepth = -1 THEN VariableAt("MODULE_VAR", Min(ModuleVariables(P, d.n)))
             ELSE VariableAt("LOCAL", Len(Cur(P).locals) - 1)
      Q == emitOp(P, IF d.isForeign THEN "FOREIGN_CLASS" ELSE "CLASS")
      R == [pushScope(defineVariable(Q, l, d.n)) EXCEPT
              !.cs[l].enclosingClass =
                 [open |-> TRUE, var |-> var, isForeign |-> d.isForeign, fields |-> <<>>, methods |-> {},
                  inStatic |-> FALSE, signature |-> [n |-> "", type |-> ""]]]
  IN endClass(FoldLeft(method, R, d.methods), Len(Code(Q)))

classDefinition(P, d) ==
  LET Q == emitConstant(declareVariable(P, Here(P), d.n), "CONSTANT", STR(d.n), 0)
  IN classBody(IF d.sup.k = "none" THEN loadCoreVariable(Q, "Object") ELSE compile(Q, d.sup), d)

importVariable(P, there, here) ==
  LET c == addConstant(P, STR(there))
      Q == declareVariable(c.P, Here(P), here)
  IN defineVariable(emit(Q, "IMPORT_VARIABLE", c.index, 0), Here(P), here)

import(P, d) ==
  FoldLeft(LAMBDA Q, n : importVariable(Q, n[1], n[2]),
           emitOp(emitConstant(P, "IMPORT_MODULE", STR(d.m), 0), "POP"), d.names)

definition(P, d) ==
  CASE d.k = "class" -> classDefinition(P, d)
    [] d.k = "var" -> variableDefinition(P, d)
    [] d.k = "import" -> import(P, d)
    [] OTHER -> statement(P, d)

\* Nothing that is compiled after an error counts.
compile(P, t) == IF P.hasError THEN P ELSE definition(P, t)

\* The end of a module: a variable that was used must have been defined.
endModule(P) ==
  endCompiler(IF \A i \in DOMAIN P.variables : P.variables[i].defined THEN P ELSE Error(P))

\* A module of the given lines, after the functions fns of others: its
\* function is the last one.
wrenCompile(fns, m, lines) ==
  LET P == initCompiler([cs |-> <<>>, fns |-> fns, hasError |-> FALSE, module |-> m,
                         variables |-> [i \in DOMAIN CoreVariables |->
                                          [name |-> CoreVariables[i], defined |-> TRUE]]], FALSE)
  IN endModule(emitOp(emitOp(compileAll(P, lines), "END_MODULE"), "RETURN"))

=============================================================================
