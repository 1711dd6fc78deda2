----------------------------- MODULE WrenSyntax -----------------------------
(***************************************************************************)
(* Syntax trees of Wren programs, as they stand between the token stream   *)
(* the compiler reads (lib/wren_compiler.c) and what a program means.  A   *)
(* tree is a record whose field k names the grammar function that parses   *)
(* it.  The compiler and the reference meaning are both defined over these *)
(* trees, and nothing else is shared by them.                              *)
(***************************************************************************)
EXTENDS Integers, Sequences

None == [k |-> "none"]

-----------------------------------------------------------------------------
(* Expressions *)

Lit(v) == [k |-> "literal", v |-> v]
Bool(b) == [k |-> "boolean", b |-> b]
Null == [k |-> "null"]
Name(n) == [k |-> "name", n |-> n]
Assign(n, e) == [k |-> "assign", n |-> n, e |-> e]
Field(n) == [k |-> "field", n |-> n, e |-> None]
SetField(n, e) == [k |-> "field", n |-> n, e |-> e]
Static(n) == [k |-> "staticField", n |-> n, e |-> None]
SetStatic(n, e) == [k |-> "staticField", n |-> n, e |-> e]
This == [k |-> "this"]
And(a, b) == [k |-> "and", a |-> a, b |-> b]
Or(a, b) == [k |-> "or", a |-> a, b |-> b]
If3(c, a, b) == [k |-> "conditional", c |-> c, a |-> a, b |-> b]
List(es) == [k |-> "list", es |-> es]

\* A name that a method is called or declared by: its name and type, as in
\* Signature; arguments and parameters give the arity.
Sig(n, type, arity) == <<n, type, arity>>

\* o.n, o.n(es), o.n = e, o n e (an operator) and o[es]
Send(o, n, type, es, block) ==
  [k |-> "call", o |-> o, n |-> n, type |-> type, es |-> es, block |-> block]
Get(o, n) == Send(o, n, "getter", <<>>, None)
Call(o, n, es) == Send(o, n, "method", es, None)
Put(o, n, e) == Send(o, n, "setter", <<e>>, None)
Op(a, n, b) == Send(a, n, "method", <<b>>, None)
At(o, es) == Send(o, "", "subscript", es, None)
\* n(es) without a receiver; super.n(es), and super(es) where n = ""
Self(n, es) == [k |-> "self", n |-> n, type |-> "method", es |-> es, block |-> None]
Super(n, type, es) == [k |-> "super", n |-> n, type |-> type, es |-> es, block |-> None]

\* Bodies: { e } and { lines }
Expr(e) == [k |-> "expression", e |-> e]
Lines(ss) == [k |-> "lines", ss |-> ss]
\* Fn.new {|params| body}
Fn(params, body) ==
  Send(Name("Fn"), "new", "method", <<>>, [k |-> "block", params |-> params, body |-> body])

-----------------------------------------------------------------------------
(* Statements and definitions *)

Do(e) == [k |-> "expression", e |-> e]
Var(n, e) == [k |-> "var", n |-> n, e |-> e]
If(c, a, b) == [k |-> "if", c |-> c, a |-> a, b |-> b]
While(c, s) == [k |-> "while", c |-> c, s |-> s]
For(n, e, s) == [k |-> "for", n |-> n, e |-> e, s |-> s]
Break == [k |-> "break"]
Continue == [k |-> "continue"]
Return(e) == [k |-> "return", e |-> e]
Block(ss) == [k |-> "block", body |-> Lines(ss)]
Import(m, names) == [k |-> "import", m |-> m, names |-> names]
\* names are <<name there, name here>>

Class(n, sup, methods) ==
  [k |-> "class", n |-> n, sup |-> sup, methods |-> methods, isForeign |-> FALSE]
ForeignClass(n, methods) ==
  [k |-> "class", n |-> n, sup |-> None, methods |-> methods, isForeign |-> TRUE]
Method(n, type, params, body) ==
  [n |-> n, type |-> type, params |-> params, body |-> body,
   isStatic |-> FALSE, isForeign |-> FALSE]
StaticMethod(n, type, params, body) == [Method(n, type, params, body) EXCEPT !.isStatic = TRUE]
ForeignMethod(n, type, params) ==
  [Method(n, type, params, None) EXCEPT !.isStatic = TRUE, !.isForeign = TRUE]
Construct(n, params, body) == Method(n, "initializer", params, body)
=============================================================================
