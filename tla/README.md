# A specification of the Wrensong HTTP server

This directory specifies the program in TLA+: a small HTTP server
(`src/server.c`, `src/http.c`) that runs on a thread pool
(`lib/pthread_pool.c`), reads an INI file (`lib/tconfig.c`) and embeds the Wren
virtual machine (`lib/wren_*.c`). Paths below are relative to the repository.

The models are read from the code. Where the code and its comments or
headers disagree, the model does what the code does, and a run whose property
is the sentence of the header shows the difference.

## 1. The system

| Component | State it keeps | Operations | Hard because | Correct when |
|---|---|---|---|---|
| Thread pool, `lib/pthread_pool.c` | linked list of work cells, `remaining`, `cancelled`, one mutex, one condition variable, the threads | `pool_start`, `pool_enqueue`, `pool_wait`, `pool_end`, the worker loop | workers and `pool_wait` callers sleep on one condition variable; `cancelled` is written without the lock; cells and arguments change owner | the list is a queue, nothing leaks or is freed twice, no wake-up is lost, `pool_wait` means done, `pool_end` ends |
| Connections, `src/http.c`, `do_accept` | `HttpConnection` objects, the hash table by descriptor, bufferevents, request buffers, the event base | accept, read and event callbacks, the handler, `http_start`, `http_end` | three kinds of threads share a connection with no lock; descriptors are reused at once | every request buffer is freed once, the table names open descriptors, each open one is in one place where it can still be found, `close` closes |
| Configuration, `lib/tconfig.c` | a parser with a growing buffer and a few flags; sections and entries | `ini_table_read_from_file`, `_ini_read` with callbacks, create, look up, write | one state machine over characters whose flags outlive lines | the table is what the lines say; writing and reading is the identity; edits are independent |
| Server, `src/server.c` | listening sockets, events, configuration | `main`, `read_config`, `do_update`, `cleanup_and_exit` | order of shutdown | threads are joined before exit |
| `src/bstring.c` | buffer, length, capacity | init, append, free | integer widths | length < capacity, terminated |
| Wren fibers, `lib/wren_core.c`, `lib/wren_vm.c` | per fiber: frames, `caller`, `state`, `error`; `vm->fiber`, `vm->apiStack` | `Fiber.new/call/try/transfer/transferError/yield/suspend/abort`, `runtimeError`, `CODE_RETURN`, `wrenInterpret`, `wrenCall`, `wrenEnsureSlots` | three ways to run a fiber with different rules, errors that unwind across fibers, the host in between | without `transfer` the callers are a stack; an error stops at the nearest `try`; an aborted fiber never runs; the host finds its API stack |
| Wren collector and handles, `lib/wren_vm.c`, `lib/wren_value.c` | object list, marks, grey stack, temporary roots, handles, the compiler's chain | `wrenReallocate`, `wrenCollectGarbage`, the blacken functions, `wrenFreeObj`, `wrenPushRoot`, `wrenMakeHandle`, `wrenFreeVM` | every allocation may collect, in the middle of any C function | a collection frees nothing reachable and keeps nothing else; no function uses an object it has let go of; temporary roots are given back |
| Wren maps, `lib/wren_value.c`, `lib/wren_core.c` | entries, capacity, count; the iterators of loops | set, get, remove, clear, iterate | tombstones; two thresholds on rounded percentages; loops over maps that change | a map is a partial function; the table always has room; loops see each key that stays, once |
| Wren lists, strings, ranges, buffers | arrays with capacities | insert, remove, find, resize, iterate | indices and widths | they implement sequences |
| Wren interpreter: frames, stacks, upvalues, `lib/wren_vm.c` | value stack, frames, open upvalues, module variables | the opcodes: load, store, jump, call, return, capture, close | the stack moves; closures share variables | a program prints what it means; upvalues and frames point into the stack there is |
| Wren compiler, `lib/wren_compiler.c` | scopes, locals, upvalues, loops, class information, slot counts, bytecode | one function per construct of the grammar | one pass: every jump, slot and field number is written before the rest is known | bytecode means what the source means; invalid programs are rejected; the slot count is enough |
| Wren modules, classes, core library | module table, symbol and method tables | import, create, inherit, bind | failure half way; code patched in place | a failed import or class ends the program, not the VM |
| `lib/uthash.h`, `src/old.c`, `lib/wren_debug.c`, `*.inc` | | | | third party, not compiled, printing, generated |

How they interact. `main` registers the listening socket with libevent and
calls `http_start`, which makes a second event base, a pool and a thread for
the base. `do_accept` (main thread) hands a descriptor to
`http_handle_connection`; the read callback (http thread) calls `pool_enqueue`
with the connection; a worker runs `_handle_connection`. The configuration is
read once, before any thread exists. Nothing in the server calls the VM yet:
the Wren sources are embedded for the web applications of the README, and the
VM is specified by itself, with the host as part of its environment. Inside the
VM the compiler writes functions that the interpreter runs; the interpreter
calls primitives that may switch fibers or change a map; and all of them
allocate, whereby the collector may run under their hands. Each of these four is
a model of its own, with the others as its environment.

## 2. Modules

| Module | Models | Extends / uses |
|---|---|---|
| `TaskPool` | what a pool promises: a FIFO of tasks, each started once, none after the stop, clean-up when nothing runs | |
| `PthreadPool` | `lib/pthread_pool.c`, one action per critical section | implements `TaskPool` |
| `PthreadPoolProofs` | the inductive invariant and theorems of `PthreadPool` | `PthreadPool` |
| `HttpServer` | `src/http.c` and `do_accept` | `INSTANCE TaskPool` as its pool |
| `HttpServerProofs` | the inductive invariant and theorems of `HttpServer` | `HttpServer` |
| `TConfig` | the reader, the table and its operations as operators | |
| `ConfigFile` | a file read line by line, then edited; its inductive invariant | `TConfig` |
| `ConfigFileProofs` | the theorems of `ConfigFile` about the buffer and about edits, with lemmas about the operators of `TConfig` | `ConfigFile`, `NatLemmas` |
| `ConfigMeaningProofs` | the proofs that the reader understands a well-formed file, and what is written is read back | `ConfigFileProofs` |
| `FiberStack` | what fibers promise without `transfer`: one stack | |
| `WrenFiber` | the fiber primitives, `runtimeError`, entry and exit of the interpreter | implements `FiberStack` until the first transfer |
| `WrenFiberProofs` | the inductive invariant and theorems of `WrenFiber`, and the proof that it implements `FiberStack` | `WrenFiber`, `NatLemmas` |
| `Dictionary` | what a map promises: a partial function from keys to values | |
| `WrenMap` | `ObjMap`, the primitives of `Map`, and a loop over one | implements `Dictionary` |
| `WrenMapProofs` | the inductive invariant and theorems of `WrenMap` | `WrenMap`, `NatLemmas` |
| `WrenSyntax` | syntax trees, the result of the lexer and the parser | |
| `WrenPrimitives` | values and the primitives that programs call | |
| `WrenCompiler` | `lib/wren_compiler.c` from syntax tree to bytecode | `WrenPrimitives` |
| `WrenMeaning` | what a program means: an evaluator of syntax trees | `WrenPrimitives` |
| `WrenVM` | the opcodes of `runInterpreter` in one fiber, classes and imports | runs what `WrenCompiler` makes; compared with `INSTANCE WrenMeaning` |
| `WrenPrograms` | the families of programs that are run | `WrenSyntax` |
| `WrenNatives` | what some 60 C functions of the VM do to the heap, step by step | |
| `WrenGC` | the collector, with `WrenNatives` as mutator | `WrenNatives` |
| `WrenGCProofs` | the inductive invariant and theorems of `WrenGC` | `WrenGC`, `NatLemmas` |
| `NatLemmas` | least elements, induction and recursion over an interval, division with remainder | |
| `MCPthreadPool`, `MCHttpServer`, `MCConfigFile`, `MCWrenFiber`, `MCWrenMap`, `MCWrenVM`, `MCWrenGC` | symmetry sets and the values of the constants | |

Definitions introduced by a comment *(wrong on purpose)* or *A mutant* are used by no specification. Each is a plausible
slip in the function it stands next to, and putting it in that function's place violates the
property `PROJECT.json` pairs it with.

### Thread pool

`q`, `end`, `next`, `remaining` and `cancelled` are the fields of `struct pool`;
`cell` and `argFreed` are the state of the heap; `pc` says where each thread is
and `cur` is a worker's local `q`. A cell is named after its task. A critical
section is one action, since everything in it is protected by `q_mtx`:
`Enqueue`, `WaitCall`/`WaitCheck` (the loop of `pool_wait`), `Loop` (the
unlocked test of `cancelled`), `Sleep`/`Quit`/`Take`, `Run`, `Decrement`, and
`EndCall` (the unlocked write), `EndBroadcast`, `EndJoin`, `EndDrain`,
`EndFree`. `SpuriousWakeup` is what POSIX allows. A woken thread goes back to
`lock` and tests its condition again. `EndWhileWaiting` says whether a client
may end the pool while another one waits for it; nothing forbids it.

Left out: failing allocations and `pthread_create`; zero threads, with which
the size of the pool is one `pthread_t` short (`pthread_pool.c:30`).

### Connections

Three threads interleave: the main thread (`Accept`, `NewBev`, `EndBreak`,
`EndBase`, `EndPool`), the http thread (`LoopStart`, `LoopExit`,
`ReadCallback`, `Eof`, `Finalize`) and the handlers, one label per statement that
touches shared memory (`Begin`, `Parse`, `FreeBuffer`, `Delete`, `FreeBev`,
`FreeConn`). The pool is the module `TaskPool`, which `PthreadPool` is proved
to implement.

Use of freed memory and two threads inside the hash table have no defined
outcome. The step that commits one sets `fault`, and the behaviour ends there;
what is claimed about the rest is claimed up to that point.

How unclear places are read:

- `do_accept` calls `handle_connection`, which does not exist; it is read as
  `http_handle_connection`.
- `bufferevent_socket_new(base, -1, ...)` creates a bufferevent for no socket.
  `Attached = FALSE` is that program, `Attached = TRUE` the one in which the
  accepted descriptor is passed, for which the callbacks and the handler were
  written. The properties of the handler are checked for the second.
- `_http_read` is declared with three parameters, `(bev, short events, ptr)`
  (`http.c:94`), and installed as a data callback (`http.c:124`), which libevent
  calls with two, the bufferevent and the context. As written `ptr` is not the
  connection, but what the third argument's register happens to hold. It is read as
  declared with two, with `ptr` the context `conn` that `bufferevent_setcb` was
  given; so what holds with `Attached = TRUE` holds of a program with all three
  places repaired. With `Attached = FALSE` the callback is never called, and
  `http_detached` does not depend on this.
- `_http_read` copies with `evbuffer_copyout` and does not drain: every
  dispatch of a connection parses the first request again, hence `kind` is per
  connection.
- libevent is external: `bufferevent_free` closes the descriptor later, in the
  loop (`Finalize`); `event_base_dispatch` forgets an earlier `loopbreak` and
  returns when no event is registered.
- `_http_event` is empty: when the peer closes, libevent stops reading (`Eof`) and
  the connection stays in the table with its descriptor open, for good unless a
  handler is about to close it. `DescriptorsHeld` counts it as held by the table.
  It says where each open descriptor is, not that each will be closed; `Closed`
  says that for `Connection: close` only.
- Malformed requests other than an unknown method are not modelled.

### Configuration

`Consume(p, c)` is one round of the loop of `_ini_read`, with the fields of `p`
for its local variables (`state`, `position`, `spaces`, the buffer with its
chunk, the current section). `Feed` repeats it over some characters, and `Read` is
`Feed` over a file, from `ParserInit`. The table is a
sequence of sections with sequences of entries, as in the code, so repeated
names are kept and `SectionFind`/`EntryFind` return the first. `Chunk` stands
for the 128 bytes by which the buffer grows. A
write past its end sets `overflow` and ends the behaviour.

`_ini_error` ends the process unless `ini_set_error_exit(false)` was called;
the model goes on and counts the errors. `server.c` calls `tconfig_new`,
`tconfig_read_file` and `tconfig_free`, which the library does not have; its
functions are taken under their own names.

### Fibers

`frames`, `caller`, `state` and `error` are the fields of each `ObjFiber`,
frames being reduced to unallocated, some, zero. `raised` says that
`RUNTIME_ERROR` comes next. `Resume` is what `runInterpreter` does after a
primitive that returned false: stop if there is no fiber, raise if the current
one has an error, else `LOAD_FRAME`. On a fiber without frames `LOAD_FRAME`
reads `frames[-1]`, which ends the behaviour with `fault = "frame"`; a missing
caller in `runtimeError` ends it with `fault = "null"`.

`Switch` is `runFiber` with the order of its statements kept: the caller is
written before the fiber is found to be finished. `RuntimeError` is the whole
loop over callers, as a path `w` of distinct fibers (`Walk`) and the place where it
stops (`StopsAt`); the loop clears the callers it passes, so it cannot go round
a cycle twice.

Left out: call frames, instruction pointers (by which `runFiber` tells a first start, `wren_core.c:120`), values and stack pointers (and with them the extra slot
that `Fiber.yield(v)` leaves behind in a fiber without a caller), and a foreign method that calls `wrenInterpret`.

### Maps

`entries`, `capacity` and `count` are the fields of `ObjMap`, and `result` is
what the last primitive returned. `FindEntry` states where the probe loop of
`findEntry` stops, as a minimum over the steps of the probe; `Resize` folds
`InsertEntry` over the entries in their order. The hash functions are not
modelled: `hash` gives each key any of a few values, and keeps it. One `for`
loop goes over the map (`Iterate`, with `cursor` its iterator) while the other
actions, which are its body, change the map. `stayed` and `visited` are history
variables: which keys the loop owes, and which of them it has given. When the
entries move to a table of another size the loop owes nothing more, but keeps
its iterator, as the code does; setting a key that is there already moves them
too when the table is at its limit.

Left out: `uint32_t` (`capacity * 75` wraps round from 2^26 entries on),
invalid keys, iterators given by hand, `wrenGetMapNext`.

### Compiler and interpreter

`WrenSyntax` has a constructor for each construct of the grammar; a program is
a sequence of such trees for each of its modules. `WrenCompiler` has one
operator per function of `wren_compiler.c` that emits code, under its name,
from the parser `P` before to the parser after: `P.cs` is the chain of
`Compiler` structs (`locals`, `upvalues`, `scopeDepth`, `numSlots`, `loop`,
`enclosingClass`), `P.fns` the finished functions. An instruction is a record,
so jump distances count instructions and not bytes; `emitAt` keeps `numSlots`
and `maxSlots` with the stack effects of `wren_opcodes.h`. `declareVariable`,
`addConstant` and `field` reject as the code does, with limits given by
constants.

`WrenVM` has one action per opcode or group of opcodes that differ in an
operand only. `stack`, `frames`, `open` (the list of open upvalues) and
`capacity` are the fields of the fiber. The array of the stack has a name,
`base`, which changes when `wrenEnsureStack` moves it; frames and open
upvalues remember the array they point into, so that one that was not
relocated is seen. `bound` is what `wrenBindMethodCode` has added to
the operands of each function. An access past the fields of an instance has no
outcome and ends the run as `undefined`. `Host.flip` and foreign methods answer true or false freely, up to
`MaxFlips` times, and end every loop after that.

`WrenMeaning` is the reference. It evaluates syntax trees with environments
that map names to cells, and objects whose fields have names and classes; there
are no slots, upvalues, field numbers or jumps in it. The two sides share syntax
trees and primitives, and nothing else. `MeansTheSame` compares the output and
the way a program ends, for the answers the host gave in that behaviour.

### Collector

`WrenNatives` writes a C function as the sequence of the steps that matter to a
collector: `New` and `Grow` allocate, `Push` and `Pop` are `wrenPushRoot` and
`wrenPopRoot`, `Link` and `Unlink` write a field, `Pick` and `Get` read one (when nothing is there, a function returns at a `Pick`), `Copy` and
`Clear` assign to a variable, `Use` reads through one. The order is the code's. Local variables are registers named as in
the code, and so are the pointers in `WrenVM`, `Parser` and `Compiler`; `Root`
and `Unroot` say when a compiler's are roots, which is what `vm->compiler` and
`enclosingClass` decide. `blackenObject` says for each type which fields its blacken
function follows.

In `WrenGC` a function runs step by step. Before a step that allocates, a whole
collection may run (`wrenCollectGarbage`, `wrenBlackenObjects`, `MarkEnds`,
`SweepKeep`/`SweepFree`, `SweepEnds`); the order in which gray objects are
taken makes no difference to what is marked, so one order is enough. A pointer
to an object that is freed becomes `Dead`; a step that uses one, or makes one a
root, and a finalizer that looks for its class in one, set `fault`. Which function runs is chosen from `Calls`.

The thresholds are left out: any allocation may collect, which is what the code
does under `WREN_DEBUG_GC_STRESS` and a superset of what it does otherwise.

## 3. What the runs show

Each run finishes in about a minute or less. Deadlock is not checked where a system may stop: all tasks are served,
the file is read, the interpreter has left, the VM is freed, or a fault ends the behaviour. It is
checked in `wren_programs`, where only a program that has ended may stop.

| Run | Shows | Bounds, and why they are enough |
|---|---|---|
| `pool` | the inductive invariant (type, list shape, memory, the count), no leak, no stranded task, `pool_wait` means done, refinement of `TaskPool`; tasks are served, `pool_end` terminates, waiters return | 3 tasks (a list with first, middle and last cell), one owned, 3 workers, 1 waiter that may swallow a signal, `pool_end` at any moment, also under the waiter |
| `http` | the inductive invariant; memory errors only after overlapping dispatches or in `http_end`; buffers accounted for; table and descriptors agree, and each open descriptor is in one place; input is dispatched, and the loop does not end under a registered connection unless `http_end` is called; dispatches are handled, `close` closes | 2 connections and 2 descriptors, so that a descriptor is reused under a handler that still runs and both are taken at once; 2 reads in all (`MaxInput`), which may be of one connection, so that its dispatches overlap, or of both, so that their handlers meet at the table. The five invariants are proved for every number of connections, descriptors and reads, so that the bounds matter for the three liveness properties only; these have been checked with 3 reads in all too (400,000 states) |
| `http_detached` (violated) | as written, input never reaches the pool (`http.c:123`; `plan.txt:3`) | 1 connection |
| `config_table` | the inductive invariant; the table is what the lines say, write and read is the identity, edits are independent, and the buffer is overrun only by comments and runs of spaces (in which a carriage return or an opening bracket counts for nothing) | up to 3 lines (a section, and two pairs or sections that may repeat each other) of 15 kinds, well-formed, malformed or longer than `Chunk = 8`, two of them with a carriage return; 2 edits over 2 names, keys and values |
| `config_comment` (violated) | the line after a comment is swallowed (`tconfig.c:261`; `tconfig.h:50`) | 3 kinds of lines |
| `fiber_calls` | all fiber invariants; refinement of `FiberStack` until the first transfer | 4 fibers (a root, a `try`, a call above it, and one more to go wrong with), up to renaming; nothing else is bounded |
| `fiber_transfer` (violated) | a fiber reached by `transfer` can call itself and return to itself finished (`wren_core.c:101` against the comment at 97-100) | 3 fibers |
| `map_table` | the inductive invariant; the table keeps room and its count, the map is a partial function, and a loop is given each key that stays, once | 3 keys with every choice of hashes in {0, 3, 7}: equal, congruent for some capacities only, or at the end of a table so that probes wrap round; with `MIN_CAPACITY = 2` (16 in the code) 3 keys take the table to 2, 4 and 8 entries and back; 2 values tell an old value from a new one; nothing else is bounded |
| `wren_programs` | programs print what they mean and end as they should; just the invalid ones are rejected; the stack stays within its array and within the compiler's count; upvalues point to live slots, after the stack has moved too; fields are within the instance | some 280 programs: every way out of a loop with and without a captured variable, in `while`, `for` and nested loops; every pair of uses of two variables two closures share; pairs of method bodies over two classes of an inheritance; operators, scopes, imports, failures, invalid programs; each under every sequence of up to 4 answers of the host (`MaxFlips`). Limits are 12 locals, 3 fields and 24 constants in place of 256, 255 and 65536 |
| `wren_rebind` (violated) | a class definition with inherited fields that is executed twice shifts the field numbers of its methods twice (`wren_compiler.c:3858`; the assertion at `wren_vm.c:947`) | 1 program |
| `gc_heap` | no function uses a freed object, none leaves a temporary root or a compiler behind, there is room for the temporary roots, a collection frees nothing reachable and leaves nothing else | the start-up of the VM and of a module, then one of 23 sequences of C functions (`MaxCalls = 1`), with up to 2 collections at any of their allocations (`MaxCollections`), so that an object that survives one can be lost in the next, and those of `System.gc()`; 40 addresses are more than any sequence needs |
| `gc_dangling` (violated) | nine sequences that do use a freed object, the shortest being a closure that reads an open upvalue of a fiber that is gone (`wren_value.c:1181`) | 1 collection |

The sequences of `gc_dangling`, each of which violates `NoDangling` by itself:

- the value of the first token of a source is allocated before `vm->compiler`
  is set, and the second token's allocation may free it (`wren_compiler.c:3790`);
- `matchAttribute` keeps the group and the key of an attribute in C variables
  while it reads on (`wren_compiler.c:3357`), with and without a group;
- `addToAttributeGroup` and `classDefinition` fill maps of attributes that
  nothing points to yet (`wren_compiler.c:3964`, `:3568`, `:4129`), for a class
  and for a method;
- `createClass` pops the superclass before it allocates the class
  (`wren_vm.c:638`), and so does the error that names the superclass;
- a foreign object does not keep its class (`wren_value.c:1102`), which its
  finalizer and every call of its methods look into;
- an open upvalue does not keep the fiber whose stack it points into
  (`wren_value.c:1181`).

Other disagreements met while modelling, for which there is no run of their
own:

- with an empty event base the http thread returns from `event_base_dispatch`
  before the first connection and whenever the last one is gone (`http.c:131`;
  `plan.txt:2` has it wait for events);
- `_http_read` does not have the parameters of a bufferevent data callback
  (`http.c:94`, `http.c:124`; see Connections above), and `do_accept` calls a
  function that is not declared (`server.c:48`);
- with callbacks the configuration reader calls `create` with an empty name
  before each pair (`tconfig.c:83`; `tconfig.h:51`), and a last line without a
  newline is dropped (`tconfig.c:214`);
- `pool_wait` returns with tasks left when the pool is being ended
  (`pthread_pool.h:29`);
- a space before a `;` in a value moves behind it (`tconfig.h:169`); the second
  of two entries with one key can never be looked up; integers are converted
  without a check (`tconfig.c:489`), although `tconfig.h` says that a failure is
  reported;
- ranges that are equal because `-0 == 0` hash differently
  (`wren_value.c:416`); `wrenGetMapNext` looks one entry past the end of the
  table before it stops (`wren_vm.c:1986`);
- a function called with more arguments than it declares keeps them on the
  stack below its locals, which were numbered without them (`wren_vm.c:814`);
- a module that returns early does not reach `END_MODULE`, and the importing
  module looks its variables up in the wrong one (`wren_vm.c:1332`);
- a function may capture more variables than `upvalues` has room for
  (`wren_compiler.c:1551`).

The programs of `wren_programs` do none of the last three.

Fairness. `PthreadPool` assumes weak fairness of each worker's steps, of a
`pool_wait` caller's and of `pool_end`'s: the threads are scheduled and the mutex is handed on; a signal chooses its sleeper freely, so no fairness of the condition
variable is used. The clients need not do anything. `HttpServer`
assumes that threads are scheduled, that a running loop serves events that are
registered, and that the pool starts and runs what it is given, which
`PthreadPool` shows it does. Nobody has to connect, to send, or to call
`http_end`. The other modules are sequential, and all their properties are safety. `WaiterReturns` ends with the pool: once `pool_end` has freed it, a `pool_wait` caller waits for a mutex that is gone.

## 4. What is proved

The theorems hold for every value of the constants. They assume what the
modules assume of their constants and nothing else: `PoolAssumption`,
`HttpAssumption`, `TConfigAssumption` and `ConfigFileAssumption`,
`FiberAssumption`, `MapAssumption` (of numbers: a load limit below 100 percent, a
factor of 2 or more, and a smallest table with room for one entry below the
limit; the code has 75, 2 and 16), and `Constants` of `WrenGC`. Each inductive
invariant but the one of `WrenGC` is also an invariant of a run.

`PthreadPoolProofs`. The invariant `IInv` is the conjunction of the type
invariant, `ListShape`, `NoLeak` and `Counted` with four facts that make it
inductive: `Control` (which label goes with which local state, and that all
workers are done once `pool_end` drains), `RanCells` (a cell is gone exactly
when its task has run), `Awake` (while the count is not zero some worker is
neither asleep nor done) and `WaiterSleeps` (a `pool_wait` caller sleeps only
while the count is not zero). The last two are the argument against the lost
wake-up: a waiter can swallow a signal only while a worker is awake anyway.
Every action preserves `IInv`; `TypeCorrect`, `ListCorrect`, `MemorySafe`,
`CountExact` and `NoLostWakeup` are its consequences, `WaitCorrect` is an
action property that follows from it, and `Refinement` maps each step to a
step of `TaskPool` or to a stutter.

`HttpServerProofs`. `OnlyKnownFaults`, `BufferAccount`, `TableCurrent` and
`DescriptorsHeld` are invariants of any number of connections, descriptors and reads.
What makes them inductive is known only as long as no fault has been committed,
and that is how `IInv` is built: `fault = "none" => Core`. `Dispatches` says
that each dispatch is in one place of the pool and has its buffer;
`Connections` how far a connection has been set up or taken down: it leaves the
table before its bufferevent goes, and that goes before its memory;
`Exclusive` that one thread at a time is inside the table and that no two
handlers take the same connection down; `DescriptorsOwned` that the open descriptors
are those of the connections not yet finalized, one each; `Undisturbed`, the heart of it, that the
dispatch of a connection whose dispatches never overlapped is the latest, works
on the buffer made for it and finds its connection in the table. A handler
can then meet freed memory only if its connection is in `overlapped` or the base
is gone. `DescriptorHeldOnce` follows: how far a connection has come
(`Connections`) says where its descriptor is, and `Exclusive` that two handlers do not
both have it. `ConnectionFreedLast` is an action property, and `PoolNeverRefuses`
says that the pool, which is an instance of `TaskPool`, is never handed what it
does not take: the guard of its `Submit` takes nothing away from the read callback.

`ConfigFileProofs`. `IInv` relates the state of the reader to the line it is in. Its
first half, `Buffered`, is about the buffer and proved by itself (`BufferInvariance`).
`Terminated` says that the one NUL of the buffer lies just before the value, so
that the key and the value, read as C strings, are what was written;
`RestOfLine` that what is left to read is the end of the last line; `Within`
that the buffer holds no more than its size and that at most one space is
pending, the last character that counts. The last is why one test of the size
per round is enough although a round may write a space and a character. It
fails after a comment (which leaves `skipping`) and after two spaces, which is
`Explained`. An earlier form of `OverflowExplained` named two spaces
next to each other; the attempt to prove it showed that it was false, since a
carriage return or an opening bracket between them leaves the count of pending
spaces as it is (`SpaceRun`), and a line with that is in the run now.
`EditsIndependent` is proved through lemmas about the operators of the table:
`First` finds the first of a name, `CreateEntry` replaces one entry or adds one
behind the others, and what was found under other names is found as before.
It holds for tables with sections and keys that repeat, as the reader makes them.

`ConfigMeaningProofs`. `KeepsMeaning` and `RoundTrips` are about whole files of any
length. The second half of `IInv`, `Follows`, says what the reader knows in the
middle of a well-formed file: the table has what the lines before this one say
(`Waits`), the buffer holds what `Trim` leaves of the part of the key, the value or the name read so far,
and `spaces` counts the spaces that part ends with (`Holds`, `Pending`); in a
pair the buffer has the trimmed key and a NUL before that (`InPair`), and in a header the part begins behind the bracket
(`InHeader`). `TrimSpace` and `TrimSolid` are behind all of it: one more
character takes `Trim` and `Pending` to just what `Space` and `Ordinary` make of the buffer and of
`spaces`. `HeaderStep`, `PairStep`, `LineStep` and `ReturnStep` go through one
round of the loop in each kind of line, `LineEnds` through its newline, and
`Invariance` puts them together. The attempt to prove it showed that `MeaningKept` was too
strong as first stated: in `b=a \r;` the carriage return stands between the
space and the semicolon and does not keep the reader from moving one behind the other.
The reference is therefore applied to the `Text` of a line, what is left of it without carriage returns, and a line
of that form is in the run now.

For `RoundTrips` the same steps are taken along a string instead of a behaviour.
`FeedConcat` and `Flattened` take a text apart where `Write` put it together;
`Ready` is the state between two lines. `HeaderWritten` and `EntryWritten` say
that the reader is ready again after a header or an entry that `Write` has made,
with one more section or entry in its table, and `SectionWritten` and `TableRead`
are inductions over entries and sections. The theorem is about every table of
simple names, keys and values, also those with sections and keys that repeat, no
matter what lines and edits have made it.

`WrenFiberProofs`. `IInv` adds to the properties `Unborn` (an unallocated fiber
is blank and nobody points to it) and `Nested`: before the first transfer each
called fiber has a caller that is itself on a stack and has no error, no two
share a caller, the running fiber is nobody's caller, and it has an error only
while that is being raised. `Called` is the
subtle notion: a refused call leaves a `caller` behind in a finished fiber, and
that pointer must not count. That `runtimeError` meets only called fibers on
its way is an induction along the path; it is done with `LeastNatural` of
`NatLemmas`, the first place where the claim fails. From `IInv` follow
`RootStaysUncalled`, `TryCaught` and `ApiStackReady`, which hold with transfers,
and `NeverStrays` and `AbortedStaysOver`, about programs without.

In the same module `FibersNest`: until the first transfer, `WrenFiber` implements
`FiberStack`. The mapping follows the callers from the running fiber up, with a
recursive function; that this is a function at all, that the way up ends at a
fiber without a caller and meets none twice, is `UpIsFunction`, `UpEnds` and
`UpDistinct`. `ChainIsUnique` then replaces it by what it means: the chain is the
only sequence that ends with the running fiber and in which each fiber is the
caller of the next. So for each action it is enough to name the chain after it:
it is the one before (`Unmoved`), or has one fiber more (`Pushed`) or fewer
(`Popped`), and `runtimeError` cuts it at the nearest `try`.

`WrenMapProofs`. A table is searchable when the probe for each key in it arrives
at its entry (`Placed`): no empty entry comes before it on the way. Tombstones
exist to keep this, and `Search` shows that a probe of a table with room stops,
and where. `IInv` adds `RoomLeft`, that the capacity is zero or at least the
smallest, and `LoopKeeps`: each key the loop owes is in the table, before the
iterator exactly if it was given. `LoadLeavesRoom`, `Growth` and `Shrinking` are
the arithmetic of the two thresholds with their rounding: after either the table
still has an entry that holds no key. `Resize` folds `InsertEntry` over the old
table; `Resizing` is an induction over its loop, by `IntervalInduction`. From these follow
`RoomIsLeft`, `KeysAreFound`, `MapIsDictionary` (the refinement of
`Dictionary`: the contents are a partial function, and each primitive changes and
answers what its name says), `LoopIsComplete` and `LoopIsOnce`.

`WrenGCProofs`. `IInv` is the type invariant with `NothingLost`, `Distinct` (no
object is twice in the list), `Pointers` (a pointer leads to an allocated object
or is known to be dead) and `Marking`: while marking, what a black object goes
on to is gray or black; while sweeping, the marks that are left lie ahead. The
step that matters is `MarkEnds`: with no gray object left the marked ones are
closed under `Marked` and contain the roots, so that the sweep, which frees
the others, keeps `NothingLost`. The mutator's steps keep it because a pointer
they write leads to an allocated object, or the step is a fault. `NoGarbage` is
the other half: `OnlyReached` says that what is marked, then what the sweep
lets stay, and last what is in the list was reachable, for `Reached` is the least set
that has the roots and is closed under `Marked`, found in at most as many steps as there are
objects. The theorems hold for any number of objects and any
functions, not just those of `WrenNatives`: `CollectorSafe`, `NoWildPointer`,
`SweepComplete`, `NoGarbage`. The temporary roots are proved in two parts. `RootsGivenBack`: when
each function is `Disciplined` by itself (its `push` and `pop` steps match, never more than
eight are open, what `root` adds `unroot` takes away, and a `pick`, which may return early, comes only
where nothing is held), then `RootsReturned` holds in every run, whatever collections
and early returns happen; `Held` says that the rest of the function at hand leads
from the roots there are to none. `NativesGiveBack`: the functions of `WrenNatives` that are
called by themselves are disciplined, each on all its paths (a module that is found, missing, does not
compile or does), and so is one after another, which is what the calls of `gc_heap` are; for the entry
points of the compiler it holds whatever they compile (`Body`: a literal, a function,
attributes, a class, and one after another). The lemmas under it (`LeadsOn`, `LeadsFlat`, `LeadsRooted`,
`LeadsTwice`) say what each helper does at any depth at which there is room for
its own temporary roots. TLC has checked `IInv` and `OnlyReached` on the instance of
`gc_heap` (885,000 states); as that makes the run six times as long, they are not in
its configuration.

Only model-checked:

- liveness (`pool`, `http`), since the prover has neither fairness nor `ENABLED`;
- `NoDangling` of `WrenGC`: that no C function uses a freed object depends on what each has in
  its registers at each allocation, and is false of some (`gc_dangling`);
- everything about `WrenVM`: the compiler and the reference are `RECURSIVE` over
  syntax trees, which puts the module out of the prover's reach.

Induction over numbers is no obstacle where the thing defined is a function:
`NatLemmas` states it of a set of numbers (`IntervalInduction`,
`RecursionExists`, `RecursionUnique`) in place of a predicate, and a sequence is a function of
numbers: so `ConfigMeaningProofs` can reason about `Feed`, `Text`, `MeaningOf` and
`FlattenSeq`. Induction over trees takes a predicate as parameter, which the backends
cannot instantiate.

## 5. What is not modelled, and the plan

Done, in the order of importance for the program: the pool, the connections on
top of it, the configuration, the fibers, the maps, the compiler and the
interpreter, the collector. To come, in the same form (constants with
assumptions, one action per operation, invariants in named parts, no
`RECURSIVE` operator where proofs are wanted):

1. Proofs: what is left is listed at the end of section 4.
2. `WrenPrograms` with maps, subscripts, string interpolation and attributes.
3. Subscripts, ranges and UTF-8 against reference definitions, and
   `src/bstring.c` with integers of their width.
4. Server start-up and shutdown, around `HttpServer`. `cleanup_and_exit` leaves
   the process before `http_end` is reached (`server.c:157`), so that threads
   are never joined.
5. The slot API over several fibers: the stack of the API fiber when
   `wrenEnsureStack` moves it, a foreign method that enters the interpreter
   again.

Not planned: the lexer, number formatting and parsing, error messages, the
debug printer, the random generator's arithmetic, the vendored hash table, and
`src/old.c`, which nothing compiles.
