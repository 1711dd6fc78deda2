---------------------------- MODULE WrenPrograms ----------------------------
(* The programs that TLC compiles and runs: families of small programs,    *)
(* and single ones for the shapes a family does not reach.                 *)
EXTENDS WrenSyntax, SequencesExt, TLC

\* A sequence of all combinations.
Pairs(A, B, F(_, _)) == FlattenSeq([i \in DOMAIN A |-> [j \in DOMAIN B |-> F(A[i], B[j])]])

\* src are the lines of each module; those in invalid break a rule.
Modules(src, invalid) == [main |-> "main", src |-> src, invalid |-> invalid]
Script(lines) == Modules("main" :> lines, {})
Invalid(lines) == Modules("main" :> lines, {"main"})

Flip == Get(Name("Host"), "flip")
Show(e) == Do(Call(Name("System"), "print", <<e>>))
x == Name("x")
y == Name("y")
Inc(n) == Assign(n, Op(Name(n), "+", Lit(1)))
CallFn(f, es) == Call(f, "call", es)

-----------------------------------------------------------------------------
(* Loops left from nested blocks, with a variable of the body captured.    *)

Exits == <<Break, Continue, Return(None), Return(x), Do(Inc("x"))>>
Captures == <<Do(Null), Do(Assign("f", Fn(<<>>, Expr(Inc("z")))))>>

\* var f; var r = Fn.new { while (flip) { var z = 1; capture; if (flip) { var y = 2; exit }; print(z) } }
LoopBody(exit, capture) ==
  Block(<<Var("z", Lit(1)), capture, If(Flip, Block(<<Var("y", Lit(2)), exit>>), None),
          Do(Inc("z")), Show(Name("z"))>>)
Loops(loop(_)) ==
  Pairs(Exits, Captures, LAMBDA exit, capture :
    Script(<<Var("f", Null),
             Var("r", Fn(<<"x">>, Lines(<<Var("w", Lit(7)), loop(LoopBody(exit, capture)),
                                         Show(Name("w")), Return(Name("w"))>>))),
             Show(CallFn(Name("r"), <<Lit(5)>>)),
             If(Name("f"), Show(CallFn(Name("f"), <<>>)), None),
             If(Name("f"), Show(CallFn(Name("f"), <<>>)), None)>>))

WhileLoops == Loops(LAMBDA body : While(Flip, body))
ForLoops == Loops(LAMBDA body : For("v", List(<<Lit(1), Lit(2)>>), body))
NestedLoops ==
  Loops(LAMBDA body : For("v", List(<<Lit(1), Lit(2)>>),
                          Block(<<Var("u", Lit(3)), While(Flip, body), Show(Name("v"))>>)))

-----------------------------------------------------------------------------
(* Closures: where variables are declared, captured, changed and read.     *)

\* Two closures share a variable; it outlives its scope.
Shared(a, b) ==
  Script(<<Var("g", Null), Var("s", Null),
           Block(<<Var("x", Lit(1)), Var("y", Lit(10)),
                   Do(Assign("g", Fn(<<>>, Expr(a)))), Do(Assign("s", Fn(<<>>, Expr(b)))),
                   Do(CallFn(Name("s"), <<>>)), Show(x), Show(y)>>),
           Show(CallFn(Name("s"), <<>>)), Show(CallFn(Name("g"), <<>>)),
           Show(CallFn(Name("s"), <<>>)), Show(CallFn(Name("g"), <<>>))>>)
Uses == <<x, y, Inc("x"), Inc("y"), Assign("x", y), Op(x, "-", y),
          CallFn(Fn(<<>>, Expr(Inc("y"))), <<>>), CallFn(Fn(<<"x">>, Expr(Op(x, "+", y))), <<Lit(4)>>)>>
SharedVariables == Pairs(Uses, Uses, Shared)

\* Counters made by one function, nested three deep.
Counter ==
  Script(<<Var("make", Fn(<<"x">>, Lines(<<Var("y", Lit(0)),
             Return(Fn(<<"z">>, Lines(<<Do(Assign("y", Op(y, "+", Name("z")))),
                    Return(Fn(<<>>, Expr(Op(Inc("x"), "+", Assign("y", Op(y, "+", x))))))>>)))>>))),
           Var("a", CallFn(Name("make"), <<Lit(1)>>)), Var("b", CallFn(Name("make"), <<Lit(5)>>)),
           Var("c", CallFn(Name("a"), <<Lit(1)>>)), Var("d", CallFn(Name("a"), <<Lit(2)>>)),
           Show(CallFn(Name("c"), <<>>)), Show(CallFn(Name("d"), <<>>)),
           Show(CallFn(CallFn(Name("b"), <<Lit(3)>>), <<>>)), Show(CallFn(Name("c"), <<>>))>>)

\* Every iteration of a for has its own variable; a while shares what is outside.
Iterations ==
  Script(<<Var("fs", List(<<>>)), Var("a", Null), Var("b", Null),
           For("v", List(<<Lit(1), Lit(2), Lit(3)>>),
               Block(<<If(Name("a"), If(Name("b"), Continue, Do(Assign("b", Fn(<<>>, Expr(Inc("v")))))),
                          Do(Assign("a", Fn(<<>>, Expr(Name("v"))))))>>)),
           Show(CallFn(Name("a"), <<>>)), Show(CallFn(Name("b"), <<>>)), Show(CallFn(Name("b"), <<>>))>>)

\* A recursion deep enough to move the stack below open upvalues.
Deep ==
  Script(<<Var("F", Null),
           Block(<<Var("x", Lit(0)), Var("y", Lit(0)),
             Do(Assign("F", Fn(<<"n">>, Lines(<<Var("h", Fn(<<>>, Expr(Assign("x", Op(x, "+", Name("n")))))),
                  If(Op(Lit(0), "<", Name("n")), Do(CallFn(Name("F"), <<Op(Name("n"), "-", Lit(1))>>)), None),
                  Do(Inc("n")), Do(CallFn(Name("h"), <<>>)), Do(Inc("y"))>>)))),
             Do(CallFn(Name("F"), <<Lit(4)>>)), Show(x), Show(y)>>)>>)

\* Expressions that leave temporaries below others, and jump over some.
Operators == <<And(Flip, Lit(1)), Or(Flip, Lit(2)), If3(Flip, Bool(FALSE), Lit(4)),
               If3(And(Flip, Flip), Op(x, "+", Lit(1)), If3(Flip, Inc("x"), Lit(9))),
               At(List(<<x, Lit(6), If3(Flip, x, Lit(8))>>), <<Lit(-1)>>), Get(Flip, "!")>>
Expressions ==
  Pairs(Operators, Operators, LAMBDA a, b :
    Script(<<Block(<<Var("x", Lit(5)),
                     Show(Get(List(<<a, Or(b, a), And(a, b)>>), "count")),
                     Show(CallFn(Fn(<<"x", "y">>, Expr(If3(x, y, Null))), <<a, b>>)),
                     Show(x)>>)>>))

Statements == <<Var("x", None), Var("x", Lit(1)), Do(Inc("x")), Show(x), Block(<<Var("x", x), Show(Inc("x"))>>),
                If(Flip, Do(Inc("x")), Block(<<Var("x", Null), Show(x)>>))>>
Scopes ==
  Pairs(Statements, Statements, LAMBDA s, t :
    LET body == <<Var("x", Lit(20)), Block(<<s, Block(<<t, Show(x)>>), Show(x)>>), Show(x)>>
    IN IF s.k = "var" /\ s.e.k = "none" THEN Script(<<Do(CallFn(Fn(<<>>, Lines(body)), <<>>))>>)
       ELSE Script(<<Block(body)>>))

-----------------------------------------------------------------------------
(* Classes: fields and methods that are inherited, overridden and called   *)
(* through super, from closures, and on the class itself.                  *)

Getter(n, e) == Method(n, "getter", <<>>, Expr(e))
Setter(n, p, e) == Method(n, "setter", <<p>>, Expr(e))
Def(n, ps, e) == Method(n, "method", ps, Expr(e))
Closed(e) == CallFn(Fn(<<>>, Expr(e)), <<>>)
IncField(f) == SetField(f, Op(Field(f), "+", Lit(1)))
Invoke(n) == Call(Name("b"), n, <<>>)

BaseClass ==
  Class("A", None,
    <<Construct("new", <<"v">>, Lines(<<Do(SetField("_x", Name("v"))), If(Flip, Return(None), None),
                                        Do(IncField("_x"))>>)),
      Getter("x", Field("_x")), Setter("x", "v", SetField("_x", Name("v"))),
      Def("m", <<>>, IncField("_x")), Def("k", <<"v">>, Op(Name("x"), "+", Name("v"))),
      StaticMethod("made", "getter", <<>>, Expr(SetStatic("__n", If3(Static("__n"), Op(Static("__n"), "+", Lit(1)), Lit(1))))),
      StaticMethod("make", "method", <<"v">>, Expr(Call(This, "new", <<Name("v")>>)))>>)

MethodBodies ==
  <<Op(Super("x", "getter", <<>>), "+", Field("_y")),
    Closed(IncField("_y")),
    Assign("x", Op(Field("_y"), "+", Lit(4))),
    Self("k", <<Lit(5)>>),
    Super("", "method", <<>>),
    Closed(Super("k", "method", <<Closed(Field("_y"))>>)),
    And(Put(This, "x", Null), Name("x")),
    If3(Get(Name("x"), "!"), Field("_z"), Op(Field("_y"), "-", Name("x")))>>

Inherits(one, two) ==
  Script(<<BaseClass,
           Class("B", Name("A"),
             <<Construct("new", <<"v", "w">>, Lines(<<Do(Super("", "method", <<Name("v")>>)),
                                                     Do(SetField("_y", Name("w")))>>)),
               Def("m", <<>>, one), Def("k", <<"v">>, Op(Super("k", "method", <<Name("v")>>), "+", Lit(100))),
               Def("h", <<>>, IF two = MethodBodies[5] THEN Super("m", "method", <<>>) ELSE two)>>),
           Var("b", Call(Name("B"), "new", <<Lit(10), Lit(20)>>)),
           Show(Invoke("m")), Show(Invoke("h")), Show(Get(Name("b"), "x")),
           Do(Put(Name("b"), "x", Lit(30))), Show(Invoke("m")), Show(Invoke("h")),
           Show(Get(Call(Name("A"), "make", <<Lit(7)>>), "x"))>>)
Inheritance == Pairs(MethodBodies, MethodBodies, Inherits)

\* A class in a block, with a static variable, and one that extends it there.
LocalClasses ==
  Script(<<Block(<<Var("v", Lit(3)), BaseClass,
                   Class("B", Name("A"), <<Getter("y", Closed(SetField("_y", Name("x")))),
                                           StaticMethod("id", "getter", <<>>, Expr(This))>>),
                   Show(Get(Name("A"), "made")), Show(Get(Name("A"), "made")),
                   Show(Get(Call(Name("A"), "new", <<Name("v")>>), "x")),
                   If(Flip, Show(Get(Get(Name("B"), "id"), "made")), Show(Name("v")))>>)>>)

\* A class the host implements, alone and as a class that cannot be extended.
ForeignClasses(line) ==
  Script(<<ForeignClass("H", <<ForeignMethod("ask", "getter", <<>>), Construct("new", <<>>, Lines(<<Do(Null)>>)),
                               Def("n", <<"v">>, If3(Get(Name("H"), "ask"), Name("v"), Get(This, "o"))),
                               Getter("o", Lit(8))>>),
           Show(Call(Call(Name("H"), "new", <<>>), "n", <<Lit(1)>>)), line, Show(Lit(2))>>)
Foreigners == <<ForeignClasses(Show(Get(Name("H"), "ask"))), ForeignClasses(Class("J", Name("H"), <<>>))>>

-----------------------------------------------------------------------------
(* Errors when the program runs.                                           *)

Failing ==
  <<Get(Lit(1), "foo"), Op(Lit(1), "+", Bool(TRUE)), Call(Name("Fn"), "new", <<Lit(1)>>),
    CallFn(Fn(<<"x", "y">>, Expr(x)), <<Lit(1)>>), Get(Null, "foo"), At(List(<<Lit(1)>>), <<Lit(1)>>),
    At(List(<<Lit(1)>>), <<Lit(-2)>>), Call(Name("Undeclared"), "new", <<>>), Get(Fn(<<>>, Expr(Null)), "foo"),
    Call(List(<<>>), "iterate", <<Bool(TRUE)>>)>>
Failures ==
  [i \in DOMAIN Failing |->
     Script(<<Show(Lit(1)), If(Flip, Show(Failing[i]), None), Show(Lit(2))>>
            \o IF Failing[i].o = Name("Undeclared") THEN <<Var("Undeclared", Lit(3))>> ELSE <<>>)]
BadClasses ==
  <<Script(<<Class("A", Lit(1), <<>>), Show(Lit(1))>>), Script(<<Class("A", Name("Fn"), <<>>), Show(Lit(1))>>),
    Script(<<BaseClass, Class("B", Name("A"), <<Def("m", <<>>, Super("nothing", "method", <<>>))>>),
             Show(Call(Call(Name("B"), "new", <<Lit(1)>>), "m", <<>>))>>),
    Script(<<Class("A", None, <<Def("m", <<>>, Super("m", "method", <<>>)), Construct("new", <<>>, Lines(<<>>))>>),
             Do(Call(Call(Name("A"), "new", <<>>), "m", <<>>))>>)>>

-----------------------------------------------------------------------------
(* Modules that import one another.                                        *)

Reads(m, n) == <<Import(m, <<<<n, n>>>>), Show(Name(n))>>
Imports ==
  <<Modules(("main" :> <<Import("m", <<<<"a", "b">>, <<"f", "f">>>>), Show(Name("b")), Do(CallFn(Name("f"), <<>>)),
                         Import("n", <<<<"a", "a">>>>), Show(Name("a")), Do(CallFn(Name("f"), <<>>))>>)
            @@ ("m" :> <<Var("a", Lit(1)), Var("f", Fn(<<>>, Expr(Call(Name("System"), "print", <<Inc("a")>>))))>>)
            @@ ("n" :> <<Import("m", <<<<"a", "a">>>>), Do(Inc("a")), Import("main", <<<<"b", "c">>>>),
                         Show(Name("c"))>>), {}),
    Modules(("main" :> Reads("m", "a") \o <<Block(Reads("n", "d"))>>)
            @@ ("m" :> <<Import("n", <<<<"d", "a">>>>)>>) @@ ("n" :> <<Import("m", <<>>), Var("d", Lit(4))>>), {}),
    Modules(("main" :> Reads("m", "zz")) @@ ("m" :> <<Var("a", Lit(1))>>), {}),
    Modules("main" :> <<If(Flip, Block(Reads("missing", "a")), None)>>, {}),
    Modules(("main" :> <<Show(Lit(1))>> \o Reads("m", "a")) @@ ("m" :> <<Var("a", Lit(1)), Break>>), {"m"})>>

-----------------------------------------------------------------------------
(* Programs that break a rule.                                             *)

InClass(sup, methods) == <<BaseClass, Class("B", sup, methods)>>
Many(n) == [i \in 1..n |-> Var(<<"a", "b", "c", "d", "f", "g", "h", "n", "r", "s", "u", "v", "w">>[i], Null)]
InvalidSources ==
  <<<<Break>>, <<Continue>>, <<Var("x", Null), Var("x", Null)>>,
    <<Block(<<Var("x", Null), If(Flip, Block(<<Var("x", Null)>>), None), Var("x", Null)>>)>>,
    <<Show(x)>>, <<Show(Name("Nowhere"))>>, <<Show(This)>>, <<Show(Field("_x"))>>, <<Show(Static("__n"))>>,
    <<Show(Super("x", "getter", <<>>))>>, <<Show(Closed(Field("_x")))>>, <<Block(Many(12))>>,
    <<Do(Fn(<<"x", "x">>, Expr(x)))>>, <<Show(Self("m", <<>>))>>, <<While(Flip, Do(Fn(<<>>, Lines(<<Break>>))))>>,
    <<Show(x), Var("x", Null)>>, <<Import("main", <<<<"x", "x">>, <<"y", "x">>>>)>>>>
  \o <<InClass(Name("A"), <<Def("m", <<>>, Lit(1)), Def("m", <<>>, Lit(2))>>),
       InClass(None, <<StaticMethod("m", "getter", <<>>, Expr(Field("_x")))>>),
       InClass(None, <<Construct("new", <<>>, Lines(<<Return(Lit(1))>>))>>),
       InClass(None, <<[Construct("new", <<>>, Lines(<<>>)) EXCEPT !.isStatic = TRUE]>>),
       InClass(None, <<Construct("new", <<>>, Lines(<<Do(Super("", "getter", <<>>))>>))>>),
       InClass(None, <<Def("m", <<>>, List(<<Field("_x"), Field("_y"), Field("_z"), Field("_w")>>))>>),
       <<ForeignClass("H", <<Getter("x", Field("_x"))>>)>>, <<Show(List([i \in 1..25 |-> Lit(i)]))>>>>
Invalids == [i \in DOMAIN InvalidSources |-> Invalid(InvalidSources[i])]

\* A class whose definition is executed twice, below one with a field.
Rebound ==
  Script(<<Var("f", Fn(<<>>, Lines(<<BaseClass,
             Class("B", Name("A"), <<Construct("make", <<>>, Lines(<<Do(SetField("_y", Lit(1)))>>)),
                                     Getter("y", Field("_y"))>>),
             Return(Get(Call(Name("B"), "make", <<>>), "y"))>>))),
           Show(CallFn(Name("f"), <<>>)), Show(CallFn(Name("f"), <<>>))>>)

\* Near the rules above, but within them.
Valids ==
  <<Script(<<Block(<<Var("x", Lit(1)), If(Flip, Block(<<Var("x", Lit(2)), Show(x)>>), None), Show(x)>>)>>),
    Script(<<Block(Many(11))>>),
    Script(<<Var("G", Fn(<<>>, Expr(Name("Later")))), Var("Later", Lit(6)), Show(CallFn(Name("G"), <<>>))>>),
    Script(<<Class("A", None, <<Getter("m", Field("_x")), StaticMethod("m", "getter", <<>>, Expr(Lit(1))),
                                Def("m", <<>>, Lit(2)), Setter("m", "v", Name("v"))>>), Show(Get(Name("A"), "m"))>>),
    Script(<<While(Flip, Block(<<Var("f", Fn(<<>>, Lines(<<While(Flip, Break), Return(Lit(1))>>))),
                                 If(CallFn(Name("f"), <<>>), Break, None)>>)), Show(Lit(1))>>)>>
=============================================================================
