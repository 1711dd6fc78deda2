------------------------------ MODULE MCWrenGC ------------------------------
(* The instances of WrenGC that TLC checks.                                *)
EXTENDS WrenGC

MCObj == 1..40

\* A string literal; a class at the top level of a module, which goes on to hold it
text == <<Use("fiber"), New("text", "string"), Result("text")>>
topLevelClass ==
  createClass \o <<Pick("module", "modules", "entries", "module"), Link("module", "variables", "class")>>

\* Sources whose first token has no value
Source(body) == wrenCompile(FALSE, body)

\* A program runs, with a function, a list, a map that has an entry, and a class
\* on the stack of its fiber.
MCBoot ==
  wrenNewVM \o wrenInterpret(TRUE, Source(Function), TRUE)
  \o list_new \o text \o map_new \o map_subscriptSetter \o getModuleVariable

Modules == {importModule(o, Source(Literal)) :
              o \in {"loaded before", "not found", "not compiled", "loaded"}}
           \cup {wrenInterpret(FALSE, Source(Literal), TRUE), wrenInterpret(TRUE, Source(<<>>), FALSE),
                 metaGetModuleVariables}
Classes == {topLevelClass \o bindMethod, topLevelClass \o wrenNewInstance, list_new \o endClass,
            bindForeignClass, object_toString,
            wrenSetSlotNewForeign \o callForeignMethod \o pop \o system_gc}
Data == {text \o list_add \o pop \o list_removeAt, list_insert \o list_iteratorValue,
         text \o map_subscriptSetter \o pop \o map_remove, map_clear \o system_gc,
         range_toString}
Host == {wrenGetSlotHandle \o pop \o system_gc \o wrenSetSlotHandle \o wrenReleaseHandle,
         runtimeError \o wrenEnsureSlots \o wrenMakeCallHandle}
Fibers == {CLOSURE \o closeUpvalues \o system_gc \o loadClosedUpvalue,
           fiber_new \o fiber_call, fiber_new \o fiber_transfer \o system_gc}

\* Functions that let go of an object they go on to use: the string of the first
\* token, a superclass and the name of one, attributes read, put into their maps
\* and copied, a class that only a foreign object has, a fiber whose stack an
\* open upvalue points into.
MCUnsafe ==
  {wrenInterpret(TRUE, wrenCompile(TRUE, Literal), TRUE),
   createClass \o text \o createClass,
   text \o createClass \o text \o validateSuperclass,
   createClass \o wrenSetSlotNewForeign \o pop \o system_gc \o callForeignMethod,
   CLOSURE \o fiber_new \o fiber_transfer \o system_gc \o loadOpenUpvalue}
  \cup {wrenInterpret(TRUE, Source(Attributes), TRUE) : Attributes \in
          {matchAttribute(grouped) \o addToAttributeGroup : grouped \in BOOLEAN}
          \cup {matchAttribute(TRUE) \o addToAttributeGroup \o classDefinition(m) : m \in BOOLEAN}}

MCCalls == Modules \cup Classes \cup Data \cup Host \cup Fibers
=============================================================================
