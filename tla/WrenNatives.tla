---------------------------- MODULE WrenNatives ----------------------------
(***************************************************************************)
(* What the C functions of the Wren VM do to the heap (lib/wren_value.c,   *)
(* wren_vm.c, wren_core.c, wren_compiler.c, wren_utils.c,                  *)
(* wren_opt_meta.c), one definition per function, for the collector of     *)
(* WrenGC.                                                                 *)
(*                                                                         *)
(* A function is the sequence of the steps that matter to a collector that *)
(* may run at every allocation: allocate, push and pop a temporary root,   *)
(* store and load a pointer.  A local variable that points to an object is *)
(* a register, named as in the code; so are the pointers in WrenVM, Parser *)
(* and Compiler.  Values that are no objects do not occur.                 *)
(***************************************************************************)
EXTENDS Sequences

-----------------------------------------------------------------------------
(* Types, fields and what the collector follows *)

\* The fields each blacken function goes on to, for its type of object.
blackenClass == {"classObj", "superclass", "methods", "name", "attributes"}
blackenClosure == {"fn", "upvalues"}
blackenFiber == {"frames", "stack", "openUpvalues", "caller", "error"}
blackenFn == {"constants"}
blackenForeign == {}
blackenInstance == {"classObj", "fields"}
blackenList == {"elements"}
blackenMap == {"entries"}
blackenModule == {"variables", "variableNames", "name"}
blackenUpvalue == {"closed"}
\* WrenVM.methodNames is part of the VM, here an object that is always a root
wrenBlackenSymbolTable == {"data"}

blackenObject ==
  [class |-> blackenClass, closure |-> blackenClosure, fiber |-> blackenFiber,
   fn |-> blackenFn, foreign |-> blackenForeign, instance |-> blackenInstance,
   list |-> blackenList, map |-> blackenMap, module |-> blackenModule,
   range |-> {}, string |-> {}, upvalue |-> blackenUpvalue,
   symbols |-> wrenBlackenSymbolTable]
Type == DOMAIN blackenObject

\* Pointers no blacken function follows: the class of a foreign object, the
\* module of a function, the stack an open upvalue points into.
Field == UNION {blackenObject[t] : t \in Type} \cup {"module", "value"}

-----------------------------------------------------------------------------
(* Registers *)

\* Roots of every collection
Roots == {"modules", "methodNames", "fiber", "handle"}
\* Other fields of WrenVM
Fixed == {"core", "Class"}
\* Roots while a compiler is at work: wrenMarkCompiler
Parser == {"previous", "current", "next"}
Compiler == {"fn", "constants", "attributes"}
InnerCompiler == {"innerFn", "innerConstants", "innerAttributes"}
EnclosingClass == {"classAttributes", "methodAttributes"}

Local == {"-", "name", "text", "symbol", "module", "closure", "newFiber", "class", "meta",
          "metaName", "superclass", "list", "map", "key", "value", "object", "element",
          "from", "to", "instance", "foreign", "upvalue", "owner", "error", "group",
          "groupMap", "items", "methodAttr", "frame"}

Reg == Roots \cup Fixed \cup Parser \cup Compiler \cup InnerCompiler \cup EnclosingClass \cup Local

Op == {"new", "grow", "gc", "push", "pop", "copy", "clear", "link", "unlink", "erase", "pick",
       "get", "use", "root", "unroot"}
Step == {s \in [op : Op, r : Reg, f : Field, s : Reg, t : Type \cup {"any"}] :
           s.op = "new" => s.t \in Type}

The(op, r, f, s, t) == [op |-> op, r |-> r, f |-> f, s |-> s, t |-> t]
\* r = a new object of type t; an allocation that makes no object
New(r, t) == The("new", r, "name", "-", t)
Grow == The("grow", "-", "name", "-", "any")
Gc == The("gc", "-", "name", "-", "any")
\* wrenPushRoot(r), wrenPopRoot()
Push(r) == The("push", r, "name", "-", "any")
Pop == The("pop", "-", "name", "-", "any")
\* r = s; r = NULL
Copy(r, s) == The("copy", r, "name", s, "any")
Clear(r) == The("clear", r, "name", "-", "any")
\* Field f of r gets, or loses, s; it loses everything.
Link(r, f, s) == The("link", r, f, s, "any")
Unlink(r, f, s) == The("unlink", r, f, s, "any")
Erase(r, f) == The("erase", r, f, "-", "any")
\* r = something of type t that field f of s has; when it has none the
\* function returns (a key that is missing, an argument of a wrong type).
Pick(r, s, f, t) == The("pick", r, f, s, t)
\* r = the same, or NULL when there is none; the function goes on.
Get(r, s, f, t) == The("get", r, f, s, t)
\* What r points to is read.
Use(r) == The("use", r, "name", "-", "any")
\* vm->compiler, or compiler->enclosingClass, makes these registers roots.
Root(r) == The("root", r, "name", "-", "any")
Unroot(r) == The("unroot", r, "name", "-", "any")

\* The registers a compiler, the one inside it or a class makes roots of
Group(r) == CASE r = "fn" -> Parser \cup Compiler
              [] r = "innerFn" -> InnerCompiler
              [] OTHER -> EnclosingClass

\* An argument in a stack slot, a result put in one, a slot given up.
Arg(r, t) == Pick(r, "fiber", "stack", t)
Result(r) == Link("fiber", "stack", r)
Discard(r) == Unlink("fiber", "stack", r)

-----------------------------------------------------------------------------
(* lib/wren_value.c, lib/wren_utils.c *)

wrenNewSingleClass(c, name) == <<New(c, "class"), Link(c, "name", name), Push(c), Pop>>

wrenBindMethod(c) == <<Use(c), Grow>>

wrenBindSuperclass(subclass, superclass) ==
  <<Link(subclass, "superclass", superclass), Use(superclass)>> \o wrenBindMethod(subclass)
  \o <<Use(superclass)>>

\* The arguments are read before and after the result is allocated.
wrenStringFormat(r, a, b) == <<Use(a), Use(b), New(r, "string"), Use(a), Use(b)>>

wrenNewClass(c, superclass, name) ==
  wrenStringFormat("metaName", name, name)
  \o <<Push("metaName")>> \o wrenNewSingleClass("meta", "metaName")
  \o <<Link("meta", "classObj", "Class"), Pop, Push("meta")>>
  \o wrenBindSuperclass("meta", "Class")
  \o wrenNewSingleClass(c, name) \o <<Push(c), Link(c, "classObj", "meta")>>
  \o wrenBindSuperclass(c, superclass) \o <<Pop, Pop>>

wrenNewClosure(r, fn) == <<New(r, "closure"), Link(r, "fn", fn)>>

wrenNewFiber(r, closure) ==
  <<Grow, Use(closure), Grow, New(r, "fiber"), Link(r, "frames", closure), Link(r, "stack", closure)>>

wrenNewFunction(r, module) == <<Grow, New(r, "fn"), Link(r, "module", module)>>

wrenListInsert(list, value) == <<Push(value), Grow, Pop, Link(list, "elements", value)>>

\* A mutant: the value is in no container while the elements may be moved.
RemoveAtUnrooted(list, removed) ==
  <<Pick(removed, list, "elements", "any"), Unlink(list, "elements", removed), Grow>>

wrenListRemoveAt(list, removed) ==
  <<Pick(removed, list, "elements", "any"), Push(removed), Unlink(list, "elements", removed),
    Grow, Pop>>

wrenMapSet(map, key, value) ==
  <<Grow, Link(map, "entries", key), Link(map, "entries", value)>>

wrenMapClear(map) == <<Erase(map, "entries")>>

wrenMapRemoveKey(map, key, value) ==
  <<Pick(value, map, "entries", "any"), Unlink(map, "entries", key), Unlink(map, "entries", value),
    Push(value), Grow, Pop>>

wrenNewModule(r, name) == <<New(r, "module"), Push(r), Link(r, "name", name), Pop>>

wrenSymbolTableAdd(table, f) ==
  <<New("symbol", "string"), Push("symbol"), Grow, Link(table, f, "symbol"), Pop>>

-----------------------------------------------------------------------------
(* lib/wren_vm.c: modules, the compiler's entry points, classes *)

wrenDefineVariable(module, value) ==
  <<Push(value)>> \o wrenSymbolTableAdd(module, "variableNames")
  \o <<Grow, Link(module, "variables", value), Pop>>

\* The module of that name is new, or was loaded before.
EnterModule(new) ==
  IF new
    THEN wrenNewModule("module", "name")
         \o <<Push("module")>> \o wrenMapSet("modules", "name", "module") \o <<Pop>>
         \o wrenDefineVariable("module", "Class")
    ELSE <<Get("module", "modules", "entries", "module")>>

\* compile is what the compiler does; it leaves fn, or NULL after an error.
compileInModule(new, compile, compiled) ==
  EnterModule(new) \o compile
  \o (IF compiled THEN <<Push("fn")>> \o wrenNewClosure("closure", "fn") \o <<Pop>>
                  ELSE <<Clear("closure")>>)

\* A mutant: it returns at once after a compile error.
CompileSourceReturns(new, compile, compiled) ==
  <<New("name", "string"), Push("name")>> \o compileInModule(new, compile, compiled)
  \o (IF compiled THEN <<Pop>> ELSE <<>>)

wrenCompileSource(new, compile, compiled) ==
  <<New("name", "string"), Push("name")>> \o compileInModule(new, compile, compiled) \o <<Pop>>

wrenInterpret(new, compile, compiled) ==
  wrenCompileSource(new, compile, compiled)
  \o (IF compiled
        THEN <<Push("closure")>> \o wrenNewFiber("newFiber", "closure")
             \o <<Pop, Copy("fiber", "newFiber")>>
        ELSE <<>>)

\* resolveModule makes the name; outcome says what came of loading it.
importModule(outcome, compile) ==
  <<Use("fiber"), New("name", "string")>>
  \o CASE outcome = "loaded before" ->
            <<Pick("module", "modules", "entries", "module"), Result("module")>>
       [] outcome = "not found" ->
            <<Push("name")>> \o wrenStringFormat("error", "name", "name")
            \o <<Link("fiber", "error", "error"), Pop>>
       [] outcome = "not compiled" ->
            <<Push("name")>> \o compileInModule(TRUE, compile, FALSE)
            \o wrenStringFormat("error", "name", "name")
            \o <<Link("fiber", "error", "error"), Pop>>
       [] OTHER ->
            <<Push("name")>> \o compileInModule(TRUE, compile, TRUE) \o <<Pop, Result("closure")>>

getModuleVariable ==
  <<Use("fiber"), Pick("module", "modules", "entries", "module"),
    Pick("value", "module", "variables", "any"), Result("value")>>

\* The superclass leaves the stack before the class is made.
createClass ==
  <<Arg("name", "string"), Arg("superclass", "class"), Discard("superclass")>>
  \o wrenNewClass("class", "superclass", "name")
  \o <<Discard("name"), Result("class")>>

\* createClass, when validateSuperclass has an error that names the superclass
validateSuperclass ==
  <<Arg("name", "string"), Arg("superclass", "class"), Discard("superclass"),
    Pick("text", "superclass", "name", "string")>>
  \o wrenStringFormat("error", "name", "text") \o <<Link("fiber", "error", "error")>>

bindForeignClass ==
  <<Arg("class", "class")>> \o wrenSymbolTableAdd("methodNames", "data") \o wrenBindMethod("class")

bindMethod ==
  <<Arg("class", "class"), Arg("closure", "closure")>> \o wrenBindMethod("class")
  \o <<Link("class", "methods", "closure"), Discard("class"), Discard("closure")>>

endClass ==
  <<Arg("class", "class"), Arg("value", "any"), Discard("class"), Discard("value"),
    Link("class", "attributes", "value")>>

-----------------------------------------------------------------------------
(* lib/wren_vm.c: fibers, closures, upvalues, objects, handles *)

wrenNewInstance ==
  <<Arg("class", "class"), New("instance", "instance"), Link("instance", "classObj", "class"),
    Discard("class"), Result("instance")>>

wrenSetSlotNewForeign ==
  <<Arg("class", "class"), New("foreign", "foreign"), Link("foreign", "classObj", "class"),
    Result("foreign")>>

\* Calling a method finds the class of its receiver.
callForeignMethod ==
  <<Arg("foreign", "foreign"), Pick("class", "foreign", "classObj", "any"), Use("class")>>

captureUpvalue ==
  <<Use("fiber"), New("upvalue", "upvalue"), Link("upvalue", "value", "fiber"),
    Link("fiber", "openUpvalues", "upvalue")>>

CLOSURE ==
  <<Arg("frame", "closure"), Pick("fn", "frame", "fn", "fn")>>
  \o wrenNewClosure("closure", "fn") \o <<Result("closure")>>
  \o captureUpvalue \o <<Link("closure", "upvalues", "upvalue")>>

closeUpvalues ==
  <<Pick("upvalue", "fiber", "openUpvalues", "upvalue"), Arg("value", "any"),
    Link("upvalue", "closed", "value"), Unlink("upvalue", "value", "fiber"),
    Unlink("fiber", "openUpvalues", "upvalue"), Discard("value")>>

\* CODE_LOAD_UPVALUE: through an open upvalue, into the stack of its fiber
loadOpenUpvalue ==
  <<Arg("closure", "closure"), Pick("upvalue", "closure", "upvalues", "upvalue"),
    Pick("owner", "upvalue", "value", "any"), Use("owner")>>

loadClosedUpvalue ==
  <<Arg("closure", "closure"), Pick("upvalue", "closure", "upvalues", "upvalue"),
    Pick("value", "upvalue", "closed", "any"), Result("value")>>

wrenEnsureSlots == wrenNewFiber("newFiber", "-") \o <<Copy("fiber", "newFiber")>>

wrenMakeHandle(value) == <<Push(value), Grow, Pop, Copy("handle", value)>>

wrenGetSlotHandle == <<Arg("value", "any")>> \o wrenMakeHandle("value")
wrenSetSlotHandle == <<Use("fiber"), Use("handle"), Result("handle")>>
wrenReleaseHandle == <<Clear("handle")>>

wrenMakeCallHandle ==
  wrenSymbolTableAdd("methodNames", "data") \o wrenNewFunction("fn", "-") \o wrenMakeHandle("fn")
  \o wrenNewClosure("closure", "fn") \o <<Copy("handle", "closure"), Use("fn"), Grow, Use("fn")>>

\* An error that nothing catches
runtimeError == <<Use("fiber"), Clear("fiber")>>

-----------------------------------------------------------------------------
(* lib/wren_core.c, lib/wren_opt_meta.c *)

defineClass(c) ==
  <<New("name", "string"), Push("name")>> \o wrenNewSingleClass(c, "name")
  \o wrenDefineVariable("core", c) \o <<Pop>>

\* One class stands for all that the core module defines.
wrenInitializeCore ==
  wrenNewModule("core", "-") \o <<Push("core")>> \o wrenMapSet("modules", "-", "core") \o <<Pop>>
  \o defineClass("Class") \o <<Link("Class", "classObj", "Class")>>

wrenNewVM == <<New("methodNames", "symbols"), New("modules", "map")>> \o wrenInitializeCore

fiber_new ==
  <<Arg("closure", "closure")>> \o wrenNewFiber("newFiber", "closure") \o <<Result("newFiber")>>
fiber_call ==
  <<Arg("newFiber", "fiber"), Link("newFiber", "caller", "fiber"), Copy("fiber", "newFiber")>>
fiber_transfer == <<Arg("newFiber", "fiber"), Copy("fiber", "newFiber")>>

list_new == <<New("list", "list"), Result("list")>>
list_add == <<Arg("list", "list"), Arg("value", "any"), Grow, Link("list", "elements", "value")>>
list_insert == <<Arg("list", "list"), Arg("value", "any")>> \o wrenListInsert("list", "value")
list_removeAt == <<Arg("list", "list")>> \o wrenListRemoveAt("list", "value") \o <<Result("value")>>
list_iteratorValue ==
  <<Arg("list", "list"), Pick("value", "list", "elements", "any"), Result("value")>>

map_new == <<New("map", "map"), Result("map")>>
map_subscriptSetter ==
  <<Arg("map", "map"), Arg("key", "string"), Arg("value", "any")>>
  \o wrenMapSet("map", "key", "value")
map_remove ==
  <<Arg("map", "map"), Arg("key", "string")>> \o wrenMapRemoveKey("map", "key", "value")
  \o <<Result("value")>>
map_clear == <<Arg("map", "map")>> \o wrenMapClear("map")

range_toString ==
  <<Use("fiber"), New("from", "string"), Push("from"), New("to", "string"), Push("to")>>
  \o wrenStringFormat("text", "from", "to") \o <<Pop, Pop, Result("text")>>

object_toString ==
  <<Arg("class", "class"), Pick("name", "class", "name", "string")>>
  \o wrenStringFormat("text", "name", "name") \o <<Result("text")>>

system_gc == <<Gc>>

\* A slot is given up: POP, a return, wrenSetSlotNull
pop == <<Arg("value", "any"), Discard("value")>>

metaGetModuleVariables ==
  <<Use("fiber"), Pick("module", "modules", "entries", "module"), Grow, New("list", "list"),
    Result("list"), Pick("name", "module", "variableNames", "string"),
    Link("list", "elements", "name")>>

-----------------------------------------------------------------------------
(* lib/wren_compiler.c *)

\* The next token has a string for its value (a name, a keyword, a string), or
\* keeps the value of the token before it.
nextToken(named) ==
  <<Copy("previous", "current"), Copy("current", "next")>>
  \o (IF named THEN <<Grow, New("next", "string")>> ELSE <<>>)

initCompiler(fn, constants, attributes) ==
  <<Clear(fn), Clear(constants), Clear(attributes), Root(fn), New(attributes, "map")>>
  \o wrenNewFunction(fn, "module")

\* The first constant of a function also makes the map of its constants.
addConstant(fn, constants, constant, first) ==
  <<Push(constant), Grow, Link(fn, "constants", constant), Pop>>
  \o (IF first THEN <<New(constants, "map")>> ELSE <<>>)
  \o wrenMapSet(constants, constant, "-")

\* The outermost compiler; one in another compiler, whose constant it becomes
endCompiler == <<Grow, Unroot("fn")>>
endInner(first) == <<Grow>> \o addConstant("fn", "constants", "innerFn", first) \o <<Unroot("innerFn")>>

\* A string literal; a function
Literal == nextToken(TRUE) \o addConstant("fn", "constants", "previous", TRUE)
Function ==
  initCompiler("innerFn", "innerConstants", "innerAttributes") \o nextToken(TRUE)
  \o addConstant("innerFn", "innerConstants", "previous", TRUE) \o endInner(TRUE)

\* #!group(key = value), or #!key = value: the group and the key are kept in C
\* variables only, while the tokens that follow are read.
matchAttribute(grouped) ==
  nextToken(TRUE) \o nextToken(FALSE) \o nextToken(TRUE)
  \o (IF grouped
        THEN <<Copy("group", "previous")>> \o nextToken(FALSE) \o nextToken(TRUE)
             \o <<Copy("key", "previous")>> \o nextToken(FALSE) \o nextToken(FALSE)
        ELSE <<Clear("group"), Copy("key", "previous")>> \o nextToken(FALSE) \o nextToken(TRUE))
  \o <<Copy("value", "previous")>>

\* A group that is new gets a map, a key that is new a list.
addToAttributeGroup ==
  <<Push("group"), Push("key"), Push("value"), New("groupMap", "map")>>
  \o wrenMapSet("attributes", "group", "groupMap")
  \o <<New("items", "list")>> \o wrenMapSet("groupMap", "key", "items")
  \o <<Grow, Link("items", "elements", "value"), Pop, Pop, Pop>>

\* Attributes in a group; there may be none.
copyAttributes(into) ==
  <<Get("group", "attributes", "entries", "string"), Get("groupMap", "attributes", "entries", "map")>>
  \o wrenMapSet(into, "group", "groupMap") \o wrenMapClear("attributes")

copyMethodAttributes ==
  <<New("methodAttr", "map"), Push("methodAttr")>> \o copyAttributes("methodAttr")
  \o <<New("methodAttributes", "map"), New("key", "string")>>
  \o wrenMapSet("methodAttributes", "key", "methodAttr") \o <<Pop>>

\* A class with attributes of its own, or with a method that has some
classDefinition(ofMethod) ==
  <<New("name", "string")>> \o addConstant("fn", "constants", "name", TRUE)
  \o <<Clear("methodAttributes"), Clear("classAttributes")>>
  \o (IF ofMethod THEN <<Root("classAttributes")>> \o copyMethodAttributes
                  ELSE <<New("classAttributes", "map")>> \o copyAttributes("classAttributes")
                       \o <<Root("classAttributes")>>)
  \o <<Unroot("classAttributes")>>

\* The first token is read before vm->compiler is set.
wrenCompile(named, body) ==
  <<Clear("previous"), Clear("current"), Clear("next")>>
  \o nextToken(named) \o nextToken(TRUE)
  \o initCompiler("fn", "constants", "attributes") \o body \o endCompiler
=============================================================================
