---------------------------- MODULE WrenMeaning ----------------------------
(***************************************************************************)
(* What a Wren program means, as docs and tests of the language have it:   *)
(* an evaluator of syntax trees with lexical environments, cells for       *)
(* variables and objects with named fields.  It knows neither bytecode nor *)
(* stack slots nor upvalues; WrenVM compares what the bytecode does with   *)
(* it.                                                                     *)
(*                                                                         *)
(* S is the state: cells, objects, modules, output, the answers the host   *)
(* still gives, the value of the last expression, how the last statement   *)
(* ended (ctl) and the variables it declared (decl).  An environment has   *)
(* the names in scope with their cells, `this', the class and method       *)
(* around, the module, and whether the code is at the module's top level.  *)
(***************************************************************************)
EXTENDS WrenPrimitives, FiniteSetsExt, SequencesExt

CONSTANTS LocalNames, CoreVariables

Go(S, F(_)) == IF S.ctl = "normal" THEN F(S) ELSE S
Give(S, v) == [S EXCEPT !.val = v]
Fail(S) == [S EXCEPT !.ctl = "error"]

\* The position of the innermost variable of that name, or 0.
Scope(env, n) == Max({i \in DOMAIN env.names : env.names[i][1] = n} \cup {0})
Bind(S, n, v) == [S EXCEPT !.cells = Append(@, v), !.decl = <<<<n, Len(S.cells) + 1>>>>]
Within(env, decl) == [env EXCEPT !.names = @ \o decl, !.top = FALSE]

\* The class that has a method for the symbol, going up from c; 0 if none.
RECURSIVE Owner(_, _, _)
Owner(S, c, symbol) ==
  IF c = 0 \/ symbol \in DOMAIN S.objs[c].methods THEN c ELSE Owner(S, S.objs[c].sup, symbol)

\* The variables a module declares at its top level.
Declared(lines) ==
  UNION {CASE lines[i].k \in {"var", "class"} -> {lines[i].n}
           [] lines[i].k = "import" -> {lines[i].names[j][2] : j \in DOMAIN lines[i].names}
           [] OTHER -> {} : i \in DOMAIN lines}

\* The state after an expression, a statement or a definition; it is the
\* same state if something has ended the execution of what is around it.
RECURSIVE Run(_, _, _)

\* The values of es, in order, in S.args.
EvalAll(S, env, es) ==
  FoldLeft(LAMBDA T, e : LET U == Run(T, env, e) IN [U EXCEPT !.args = Append(T.args, U.val)],
           [S EXCEPT !.args = <<>>], es)

NewObject(S, o) == [S EXCEPT !.objs = Append(@, o), !.val = OBJ(Len(S.objs) + 1)]

\* The arguments of a call, a block argument as the last.
Arguments(S, env, e) ==
  LET T == EvalAll(S, env, e.es)
      U == NewObject(T, [k |-> "fn", params |-> e.block.params, body |-> e.block.body, env |-> env])
  IN IF T.ctl # "normal" \/ e.block.k = "none" THEN T
     ELSE [U EXCEPT !.args = Append(@, U.val)]

\* A body with its parameters bound; it returns from where it was called.
Body(S, env, code, args) ==
  LET bound == FoldLeft(LAMBDA T, i : [Bind(T, code.params[i], args[i]) EXCEPT
                                         !.decl = Append(T.decl, <<code.params[i], Len(T.cells) + 1>>)],
                        [S EXCEPT !.decl = <<>>], [i \in DOMAIN code.params |-> i])
      inner == Within(env, bound.decl)
      T == IF code.body.k = "expression" THEN Run(bound, inner, code.body.e)
           ELSE Go(Run(bound, inner, code.body), LAMBDA U : Give(U, NULL))
  IN IF T.ctl = "error" THEN T
     ELSE [T EXCEPT !.ctl = "normal", !.val = IF inner.init THEN inner.self ELSE @]

\* A foreign method asks the host.
Answer(S) ==
  IF S.ch = <<>> THEN Give(S, BOOL(FALSE))
  ELSE [S EXCEPT !.ch = Tail(@), !.val = BOOL(Head(S.ch))]

Invoke(S, c, m, self, args) ==
  IF m.isForeign THEN Answer(S)
  ELSE Body(S, [names |-> <<>>, self |-> self, cls |-> c, sig |-> m, mod |-> S.objs[c].mod,
              init |-> m.type = "initializer", top |-> FALSE], m, args)

\* The host, the output and functions; else a primitive.
Core(S, v, symbol, args) ==
  CASE v = CORE("System") /\ symbol = <<"print", "method", 1>> ->
         [S EXCEPT !.out = Append(@, args[1]), !.val = args[1]]
    [] v = CORE("Host") /\ symbol = <<"flip", "getter", 0>> ->
         Answer(S)
    [] v = CORE("Fn") /\ symbol = <<"new", "method", 1>> ->
         IF args[1].t = "obj" /\ S.objs[args[1].v].k = "fn" THEN Give(S, args[1]) ELSE Fail(S)
    [] symbol \in Primitives(v) ->
         LET r == Primitive(v, symbol, args) IN IF r.ok THEN Give(S, r.val) ELSE Fail(S)
    [] OTHER -> Fail(S)

\* A class takes its static methods, and its constructors by the name of the
\* initializer; an instance the methods of its class.
Dispatch(S, v, symbol, args) ==
  LET o == S.objs[v.v]
      init == <<symbol[1], "initializer", symbol[3]>>
      owner == Owner(S, o.cls, symbol)
      instance == NewObject(S, [k |-> "instance", cls |-> v.v, fields |-> <<>>])
  IN CASE v.t # "obj" \/ symbol[1] = "!" -> Core(S, v, symbol, args)
       [] v.t = "obj" /\ o.k = "fn" /\ symbol[1] # "!" ->
            IF symbol[1] = "call" /\ Len(args) >= Len(o.params) THEN Body(S, [o.env EXCEPT !.init = FALSE], o, args)
            ELSE Fail(S)
       [] v.t = "obj" /\ o.k = "class" /\ symbol[1] # "!" ->
            CASE symbol \in DOMAIN o.statics ->
                   Invoke(S, v.v, o.statics[symbol], v, args)
              [] symbol \notin DOMAIN o.statics /\ symbol[2] = "method" /\ init \in DOMAIN o.methods ->
                   Invoke(instance, v.v, o.methods[init], instance.val, args)
              [] OTHER -> Fail(S)
       [] v.t = "obj" /\ o.k = "instance" /\ symbol[1] # "!" ->
            IF owner = 0 THEN Fail(S) ELSE Invoke(S, owner, S.objs[owner].methods[symbol], v, args)
-----------------------------------------------------------------------------
(* Variables and expressions *)

Override(f, x, v) == [y \in DOMAIN f \cup {x} |-> IF y = x THEN v ELSE f[y]]
ModuleVariable(S, m, n) ==
  IF n \in DOMAIN S.mods[m] THEN S.mods[m][n]
  ELSE IF n \in Range(CoreVariables) THEN CORE(n) ELSE NULL
SetModuleVariable(S, m, n, v) == [S EXCEPT !.mods[m] = Override(@, n, v), !.val = v]
OnThis(env, n) == Scope(env, n) = 0 /\ n \in LocalNames /\ env.cls # 0

Read(S, env, n) ==
  CASE Scope(env, n) # 0 -> Give(S, S.cells[env.names[Scope(env, n)][2]])
    [] OnThis(env, n) -> Dispatch(S, env.self, <<n, "getter", 0>>, <<>>)
    [] OTHER -> Give(S, ModuleVariable(S, env.mod, n))

Write(S, env, n) ==
  CASE Scope(env, n) # 0 -> [S EXCEPT !.cells[env.names[Scope(env, n)][2]] = S.val]
    [] OnThis(env, n) -> Dispatch(S, env.self, <<n, "setter", 1>>, <<S.val>>)
    [] OTHER -> SetModuleVariable(S, env.mod, n, S.val)

\* The field x of object i, read or (e) assigned; one never assigned is null.
FieldOf(S, env, i, x, e) ==
  IF e.k = "none"
  THEN Give(S, IF x \in DOMAIN S.objs[i].fields THEN S.objs[i].fields[x] ELSE NULL)
  ELSE Go(Run(S, env, e), LAMBDA T : [T EXCEPT !.objs[i].fields = Override(@, x, T.val)])

SuperCall(S, env, e) ==
  LET n == IF e.n = "" THEN env.sig.n ELSE e.n
      type == IF e.n = "" /\ env.sig.type = "initializer" THEN "initializer" ELSE e.type
  IN Go(Arguments(S, env, e), LAMBDA T :
        LET owner == Owner(T, T.objs[env.cls].sup, <<n, type, Len(T.args)>>)
        IN IF owner = 0 THEN Fail(T)
           ELSE Invoke(T, owner, T.objs[owner].methods[<<n, type, Len(T.args)>>], env.self, T.args))

Eval(S, env, e) ==
  CASE e.k = "literal" -> Give(S, NUM(e.v))
    [] e.k = "boolean" -> Give(S, BOOL(e.b))
    [] e.k = "null" -> Give(S, NULL)
    [] e.k = "this" -> Give(S, env.self)
    [] e.k = "name" -> Read(S, env, e.n)
    [] e.k = "assign" -> Go(Run(S, env, e.e), LAMBDA T : Write(T, env, e.n))
    [] e.k = "field" -> FieldOf(S, env, env.self.v, <<env.cls, e.n>>, e.e)
    [] e.k = "staticField" -> FieldOf(S, env, env.cls, <<0, e.n>>, e.e)
    [] e.k = "call" ->
         Go(Run(S, env, e.o), LAMBDA T :
            Go(Arguments(T, env, e), LAMBDA U :
               Dispatch(U, T.val, <<e.n, e.type, Len(U.args)>>, U.args)))
    [] e.k = "self" ->
         Go(Arguments(S, env, e), LAMBDA U :
            Dispatch(U, env.self, <<e.n, e.type, Len(U.args)>>, U.args))
    [] e.k = "super" -> SuperCall(S, env, e)
    [] e.k = "and" ->
         Go(Run(S, env, e.a), LAMBDA T : IF wrenIsFalsyValue(T.val) THEN T ELSE Run(T, env, e.b))
    [] e.k = "or" ->
         Go(Run(S, env, e.a), LAMBDA T : IF wrenIsFalsyValue(T.val) THEN Run(T, env, e.b) ELSE T)
    [] e.k = "conditional" ->
         Go(Run(S, env, e.c), LAMBDA T : Run(T, env, IF wrenIsFalsyValue(T.val) THEN e.b ELSE e.a))
    [] e.k = "list" -> Go(EvalAll(S, env, e.es), LAMBDA T : Give(T, LIST(T.args)))

-----------------------------------------------------------------------------
(* Statements *)

Define(S, env, n, v) ==
  IF env.top THEN [SetModuleVariable(S, env.mod, n, v) EXCEPT !.decl = <<>>] ELSE Bind(S, n, v)

\* Statements one after another, each in the scope of the declarations before.
Sequence(S, env, ss) ==
  IF ss = <<>> THEN S
  ELSE Go(Run([S EXCEPT !.decl = <<>>], env, Head(ss)), LAMBDA T :
          Run(T, [env EXCEPT !.names = @ \o T.decl], [k |-> "lines", ss |-> Tail(ss)]))

\* A loop ends normally when its body breaks, and goes on when it continues.
After(S, F(_)) ==
  CASE S.ctl = "break" -> [S EXCEPT !.ctl = "normal"]
    [] S.ctl \in {"normal", "continue"} -> F([S EXCEPT !.ctl = "normal"])
    [] OTHER -> S

Repeat(S, env, s) ==
  Go(Run(S, env, s.c), LAMBDA T :
     IF wrenIsFalsyValue(T.val) THEN T
     ELSE After(Run(T, Within(env, <<>>), s.s), LAMBDA U : Run(U, env, s)))

\* The iterator protocol; every iteration has a variable of its own.
NextIteration(S, env, s) ==
  Go(Dispatch(S, s.seq, <<"iterate", "method", 1>>, <<s.iter>>), LAMBDA T :
     IF wrenIsFalsyValue(T.val) THEN T
     ELSE Go(Dispatch(T, s.seq, <<"iteratorValue", "method", 1>>, <<T.val>>), LAMBDA U :
             LET V == Bind(U, s.n, U.val)
             IN After(Run(V, Within(env, V.decl), s.s),
                      LAMBDA W : Run(W, env, [s EXCEPT !.iter = T.val]))))

Table(d, isStatic) ==
  LET ms == SelectSeq(d.methods, LAMBDA m : m.isStatic = isStatic)
      Symbol(m) == <<m.n, m.type, Len(m.params)>>
  IN [x \in {Symbol(ms[i]) : i \in DOMAIN ms} |->
        ms[CHOOSE i \in DOMAIN ms : Symbol(ms[i]) = x]]

\* Only a class that is not foreign and not built in can be inherited from.
ClassOf(S, env, d, sup) ==
  LET o == S.objs[sup.v]
      T == NewObject(S, [k |-> "class", sup |-> IF sup.t = "obj" THEN sup.v ELSE 0, mod |-> env.mod,
                         methods |-> Table(d, FALSE), statics |-> Table(d, TRUE),
                         fields |-> <<>>, isForeign |-> d.isForeign])
  IN IF sup = CORE("Object") \/ (sup.t = "obj" /\ o.k = "class" /\ ~o.isForeign)
     THEN Define(T, env, d.n, T.val) ELSE Fail(S)

ImportNames(S, env, d) ==
  LET known == Declared(S.src[d.m]) \cup Range(CoreVariables)
      One(T, n) == Go(T, LAMBDA U :
                     IF n[1] \notin known THEN Fail(U)
                     ELSE LET V == Define(U, env, n[2], ModuleVariable(U, d.m, n[1]))
                          IN [V EXCEPT !.decl = U.decl \o @])
  IN FoldLeft(One, [S EXCEPT !.decl = <<>>], d.names)

Loaded(S, m) == [S EXCEPT !.mods = Override(@, m, <<>>)]
Top(m) == [names |-> <<>>, self |-> NULL, cls |-> 0, sig |-> NULL, mod |-> m, init |-> FALSE, top |-> TRUE]

\* A module is run when it is first imported.
Returned(S) == IF S.ctl = "return" THEN [S EXCEPT !.ctl = "normal"] ELSE S
RunModule(S, m) == Returned(Run(Loaded(S, m), Top(m), [k |-> "lines", ss |-> S.src[m]]))

ImportModule(S, env, d) ==
  CASE d.m \in DOMAIN S.mods -> ImportNames(S, env, d)
    [] d.m \notin DOMAIN S.mods /\ d.m \in DOMAIN S.src ->
         Go(RunModule(S, d.m), LAMBDA T : ImportNames(T, env, d))
    [] OTHER -> Fail(S)

Exec(S, env, s) ==
  CASE s.k = "expression" -> [Run(S, env, s.e) EXCEPT !.decl = <<>>]
    [] s.k = "var" ->
         Go(IF s.e.k = "none" THEN Give(S, NULL) ELSE Run(S, env, s.e),
            LAMBDA T : Define(T, env, s.n, T.val))
    [] s.k = "if" ->
         Go(Run(S, env, s.c), LAMBDA T :
            LET U == [T EXCEPT !.decl = <<>>]
            IN IF ~wrenIsFalsyValue(T.val) THEN Run(U, Within(env, <<>>), s.a)
               ELSE IF s.b.k = "none" THEN U ELSE Run(U, Within(env, <<>>), s.b))
    [] s.k = "while" -> [Repeat(S, env, s) EXCEPT !.decl = <<>>]
    [] s.k = "for" ->
         Go(Run(S, env, s.e), LAMBDA T :
            Run(T, env, [k |-> "iteration", n |-> s.n, s |-> s.s, seq |-> T.val, iter |-> NULL]))
    [] s.k = "iteration" -> [NextIteration(S, env, s) EXCEPT !.decl = <<>>]
    [] s.k = "lines" -> Sequence(S, env, s.ss)
    [] s.k \in {"break", "continue"} -> [S EXCEPT !.ctl = s.k]
    [] s.k = "return" ->
         Go(IF s.e.k = "none" THEN Give(S, NULL) ELSE Run(S, env, s.e),
            LAMBDA T : [T EXCEPT !.ctl = "return"])
    [] s.k = "block" -> [Run(S, Within(env, <<>>), s.body) EXCEPT !.decl = <<>>]
    [] s.k = "class" ->
         Go(IF s.sup.k = "none" THEN Give(S, CORE("Object")) ELSE Run(S, env, s.sup),
            LAMBDA T : ClassOf(T, env, s, T.val))
    [] s.k = "import" -> ImportModule(S, env, s)
    [] OTHER -> Eval(S, env, s)

Run(S, env, t) == IF S.ctl = "normal" THEN Exec(S, env, t) ELSE S

\* What the program prints when the host answers as given, and whether it
\* runs to its end.
Result(S) == [out |-> S.out, error |-> S.ctl = "error"]
Meaning(src, main, choices) ==
  Result(RunModule([cells |-> <<>>, objs |-> <<>>, mods |-> <<>>, out |-> <<>>, ch |-> choices,
                    val |-> NULL, args |-> <<>>, decl |-> <<>>, ctl |-> "normal", src |-> src], main))
=============================================================================
