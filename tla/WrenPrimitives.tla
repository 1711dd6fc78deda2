--------------------------- MODULE WrenPrimitives ---------------------------
(***************************************************************************)
(* Values, and the primitives of lib/wren_core.c that the programs of      *)
(* WrenPrograms call.  Both the interpreter and the reference meaning use  *)
(* them.  Lists are values here: programs build and read them only.        *)
(***************************************************************************)
EXTENDS Integers, Sequences

NUM(v) == [t |-> "num", v |-> v]
BOOL(b) == [t |-> "bool", v |-> IF b THEN 1 ELSE 0]
NULL == [t |-> "null", v |-> 0]
OBJ(i) == [t |-> "obj", v |-> i]                 \* an object of the heap
CORE(n) == [t |-> "core", v |-> 0, n |-> n]      \* a class of the core module
LIST(e) == [t |-> "list", v |-> 0, e |-> e]

wrenIsFalsyValue(v) == v \in {NULL, BOOL(FALSE)}

\* What a primitive returns, and the error that aborts the fiber.
Returns(v) == [ok |-> TRUE, val |-> v]
Fails == [ok |-> FALSE, val |-> NULL]

NumPrimitive(a, op, args) ==
  IF op = "==" THEN Returns(BOOL(args[1] = NUM(a)))
  ELSE IF args[1].t # "num" THEN Fails
  ELSE CASE op = "+" -> Returns(NUM(a + args[1].v))
         [] op = "-" -> Returns(NUM(a - args[1].v))
         [] op = "<" -> Returns(BOOL(a < args[1].v))

\* list_iterate: the index after the iterator, false at the end.
Iterate(elements, iter) ==
  IF iter = NULL THEN IF elements = <<>> THEN BOOL(FALSE) ELSE NUM(0)
  ELSE IF iter.v < 0 \/ iter.v >= Len(elements) - 1 THEN BOOL(FALSE)
  ELSE NUM(iter.v + 1)

\* list_iteratorValue and list_subscript: negative indices count from the end.
Element(elements, index) ==
  LET i == IF index.v < 0 THEN Len(elements) + index.v ELSE index.v
  IN IF index.t = "num" /\ i \in 0..Len(elements) - 1 THEN Returns(elements[i + 1]) ELSE Fails

ListPrimitive(elements, n, args) ==
  CASE n = "iterate" -> IF args[1].t \in {"null", "num"} THEN Returns(Iterate(elements, args[1]))
                        ELSE Fails
    [] n \in {"iteratorValue", ""} -> Element(elements, args[1])
    [] n = "addCore_" -> Returns(LIST(Append(elements, args[1])))
    [] n = "count" -> Returns(NUM(Len(elements)))

\* The symbols of the primitives on a value.
Primitives(v) ==
  {<<"!", "getter", 0>>} \cup
  CASE v.t = "num" -> {<<n, "method", 1>> : n \in {"+", "-", "<", "=="}}
    [] v.t = "list" -> {<<n, "method", 1>> : n \in {"iterate", "iteratorValue", "addCore_"}}
                       \cup {<<"", "subscript", 1>>, <<"count", "getter", 0>>}
    [] v = CORE("List") -> {<<"new", "method", 0>>}
    [] OTHER -> {}

Primitive(v, symbol, args) ==
  CASE symbol[1] = "!" -> Returns(BOOL(wrenIsFalsyValue(v)))
    [] v.t = "num" /\ symbol[1] # "!" -> NumPrimitive(v.v, symbol[1], args)
    [] v.t = "list" /\ symbol[1] # "!" -> ListPrimitive(v.e, symbol[1], args)
    [] v.t = "core" /\ symbol[1] # "!" -> Returns(LIST(<<>>))
=============================================================================
