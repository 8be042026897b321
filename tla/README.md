# litesrpent in TLA+

litesrpent is a Common Lisp in C: a reader, a tree-walking evaluator, a
bytecode compiler with a virtual machine and a small JIT, CLOS, conditions, a
mark-and-sweep collector, and bindings to the system. This directory models the
parts whose correctness depends on *sequences* of events: what is on the escape
list after which jumps, what the collector frees after which mutations, what a
table holds after which insertions and removals.

## The system

| part | state it keeps | operations | what makes it correct | modules |
|---|---|---|---|---|
| non-local control (`lseval.c` 320-700 and 978-1073, `ls_error`, `%handler-case`, drivers in `main.c`) | `L->esc_top`, a list of `ls_escape_t` threaded through C stack frames | establish and leave block, catch, tagbody, prog, do loops, unwind-protect, handler-case, top level; return-from, return, throw, go, ls_error | the list is exactly the live bodies; errors run cleanups; exits are innermost; a frame that is gone is never used | Control |
| memory (`lsgc.c`, allocator in `lscore.c`) | `all_objects`, mark bits, gray stack, root slots | allocate, push/pop root, mark, trace, sweep | what is reachable survives, what is not is freed, marks are clean between collections | Gc, HeapContract |
| hash tables (`lscore.c` 234-475, `maphash`) | robin-hood array, count, capacity | get, put, remove, grow, walk | a table is a finite map; probes end; a walk sees every key | HashTable, MapContract |
| CLOS (`lsclos.c`) | class table, precedence lists, method lists, `cnm_stack` | defclass, C3 merge, dispatch, call-next-method | a precedence list contradicts none it is made from; methods run in their order; the context stack belongs to the running calls | Classes, Generics |
| bindings (`lsenv.c`, `lseval.c`) | lexical frames, symbol cells, the `mv` register | let, setq, defvar, values, multiple-value-bind | a form gives what it means in Common Lisp, whatever came before | Forms, Evaluator, Meaning, Session |
| compiler and VM (`lsvm.c`) | code, operand stack, call frames, upvalues | compile, call, return, jump | the code does what the evaluator does; the stack balances, jumps land inside | Forms, Compiler, Vm, Shapes, VmCorrect |
| JIT (`lsjit.c`) | code arena, call counters | compile, run | falls back when the arena is full | only its entry, in Vm |
| packages (`lscore.c` 478-547) | internal and external tables, use lists | intern, export | a name keeps its symbol | Packages |
| reader, printer, REPL (`lsreader.c`, `lsprinter.c`, `main.c`) | buffer position; accumulated lines | read, print, accumulate | a form is handed on exactly when complete; reading ends; what is printed reads back | Reader, Repl, Printer |
| conditions (`lsclos.c` 680-1270) | handler stack, restart stack | signal, handler-bind, restart-case | stacks are restored on every way out | none: no program reaches them |
| builtins (`lsbuiltins.c`), `core.lisp` | - | library functions and macros | each by itself | the few in Forms |
| FFI, GUI, GL, Vulkan, AOT, ELF | platform handles, images | system calls | outside | none |

How they interact: every C function may call `ls_error`, which longjmps to the
top of the escape list and thereby skips whatever its callers meant to do
afterwards (pop a GC root, pop a handler, decrement the call-next-method depth,
restore a value). The evaluator, the VM and the library all allocate, and the
collector runs between REPL lines (`main.c` 605) or wherever a program calls
`(gc)`. Handlers are found through both the escape list and the handler stack.
Packages, class slots and the user's tables share one hash table. There are no
threads: the interleavings are between Lisp code, callbacks and jumps.

`PROJECT.json` lists every component, the hazards with their lines, and which
property covers which.

## Modules

### Control - the escape list

| model | code |
|---|---|
| `frames`, `sp` | the C activations that own an `ls_escape_t`, oldest first. Activations without one are left out: a longjmp removes them without effect |
| `frames[i].next`, `esc_top` | the pointers, as positions on the stack; `Dead` once the activation pointed to is gone |
| `phase` | `body` (frame linked), `cleanup` / `unwinding` (cleanup forms of unwind-protect after a normal end / after a jump), `handling` (handler function of handler-case) |
| `raise` | `ls_error`, or the re-throw at the end of an unwind-protect, has started: `Land` is its longjmp |
| `Enter*`, `Leave*`, `Reraise` | establishing a construct; its `setjmp == 0` branch to the end |
| `LandTop`, `LandExit`, `LandProtect`, `LandHandler`, `ResumeTagbody`, `TagNotFound` | the `setjmp != 0` branch of each construct |
| `ReturnFrom`, `ReturnNil`, `Throw`, `Go`, `Error` | the walk over the list and what it does on a hit, on no hit, and when it runs into a frame that is gone |

The program is arbitrary: at every moment the running code may do anything its
form allows. `prog` owns two escape frames. Values are left out, types of
conditions too, because the `%handler-case` installed last
(`lsbuiltins.c` 1597) ignores them. The escape frame of the driver (REPL or
`ls_eval_string`) is always at the bottom. Reading, writing or jumping to a
dead frame is undefined behaviour: `status` becomes `undefined` and stays.

`MCControl.cfg` checks all of it with five activations and one name of each
kind. The invariants relate neighbouring frames, and the worst situation that
they speak of (REPL, tagbody, a construct skipped by `go`, another established
afterwards, and an error) needs five.

* `ChainSound`: the list is exactly the live bodies, innermost first, after any
  history. The exception is a tagbody resumed by a `go` that skipped frames:
  `eval_tagbody` never resets `L->esc_top`.
* `FaultNeedsSkippingGo`: only that exception leads to the use of a dead frame.
* `TopLevelHeals`, `ErrorFindsFrame`, `ErrorRunsCleanups`, `NoReentry`,
  `ExitsInnermost`: see the comments beside them.
* `RaiseLands` (liveness): an error ends somewhere, although landing sites
  raise errors themselves. Fairness is `WF(Land)`: between `ls_error` and the
  code after `setjmp` there is only straight-line C.

Two runs record where the code and its own comments part ways. In
`control_cleanup` a `throw`, `return-from`, `return` or `go` passes an
unwind-protect without running its cleanup (comment `lseval.c` 385). In
`control_handler` an error inside a `block`, loop or `catch` is swallowed there
and the handler of the enclosing handler-case does not run (comment
`lsbuiltins.c` 1599).

### Gc and HeapContract - the collector

| model | code |
|---|---|
| `kind` | `free`, `traced` (kinds `trace_object` has a case for) or `opaque` (environments, prototypes, restarts, arrays: its `default:` branch) |
| `refs` | references stored in the object at an address |
| `roots` | what the fields of `ls_state_t` visited by `mark_roots` hold: globals, `mv`, handler and escape lists |
| `root_slots`, `root_count` | the C locals registered with `ls_gc_push_root`; `Gone` when a longjmp has cut off the activation they belong to |
| `locals` | C locals nobody registered |
| `marked`, `gray`, `unswept` | mark bits, gray stack (popped in any order), the rest of `all_objects` in `sweep` |
| `exposed` | history: a sweep freed something a C local or an opaque survivor still referred to |

The mutator allocates (also at an address freed before), loads, stores, assigns
roots, pushes and pops, and may be cut off by an error while slots are pushed.
A collection may start at any of its steps: that is `(gc)`, and it covers the
REPL's threshold test, `gc.disabled` being a special case of not starting.
Nothing in the code sets `LS_GC_PINNED`, so it is left out.

* `MarkInvariant`: the tri-colour invariant, clear marks between collections,
  survivors closed under tracing during sweep.
* `NoDangling`, `FaultNeedsGap`: live memory is lost through exactly three
  gaps: an unregistered C local, an object `trace_object` does not look into,
  a root slot that a longjmp left behind.
* `MeetsContract`: `Gc` implements `HeapContract`, in which a collection is one
  step that frees exactly what is not reachable from the roots along traced
  references. The refinement mapping takes as allocated what the current sweep
  will keep.
* `CollectionEnds` (liveness), under `WF(Collecting)`: `ls_gc_collect` is one C
  call and nothing else runs until it returns.

`MCGc.cfg` uses three addresses, with symmetry: a chain, a cycle, a shared
object and reuse of an address all fit. `MCGcEnds.cfg` checks liveness without
symmetry on two addresses and up to two root slots. `MCGcClosure.cfg` shows the
gap of the environments: what only a closure's bindings hold is freed while
reachable, against the header of `lsgc.c` ("marks each reachable heap object").

CHECK_DEADLOCK is off in the runs of these two modules because undefined
behaviour ends a run.

### HashTable and MapContract - the robin-hood table

One step is one turn of a loop in the C code, so the array is seen after every
write to it.

| model | code |
|---|---|
| `entries`, `cap`, `count` | the fields of `ls_hashtable_t`; an entry with hash 0 is an empty slot |
| `pc`, `call`, `key`, `val` | which call runs and where in it: probing (`find`), `hash_insert_raw` for `ls_hash_put` (`place`) or for `hash_grow` (`move`), the loop of `hash_grow` (`rehash`), the backward shift (`shift`) |
| `idx`, `dist`, `carried` | the locals `idx`, `dist` and `e` |
| `old`, `moved` | the former array and the loop counter of `hash_grow` |
| `walk`, `seen`, `repeated`, `disturbed` | `i` of `bi_maphash`, and what its callback was given; whether the callback changed slots |
| `last` | history: the call that took effect last and what it returns |

`Get`, `Put` and `Remove` start a call, `Step` runs it, `Walk` is `maphash`,
whose callback is whatever call comes between two turns. Hash and equality are
constants: a key stands for all keys equal to it under the table's test, and
`Hash` is any function, so that all keys may collide. What makes equal keys hash
alike is a matter of `ls_hash_value` and `ls_value_equal`; for vectors under
EQUAL and for 0.0 and -0.0 they do not, and such keys are outside this model.
Growth leaves an empty slot only from eleven slots up (`count * 10 > cap * 9`,
assumption `CapAssumption`); `ls_hash_new` starts at 16.

* `ProbeInvariant`: after every write, each entry's `dist` is its distance from
  home and everything on the way is used by entries at least as far from home;
  this is what lets a lookup stop at a nearer entry.
* `SlotLeft`: `count` is exact and an empty slot is left, which is all that ends
  the probe loops.
* `IsMap`: the table implements `MapContract`, a finite map that calls change
  one at a time. The mapping (`Pairs`) collects what is in the slots, in the
  part of the former array not yet moved, and in the entry being carried; the
  copy in the hole of a backward shift does not count.
* `CallsReturn` (liveness), under `WF(Step)`: a call is C code that runs until
  it returns.
* `WalkComplete`: a walk calls its function once on every key unless the
  callback adds or removes a key or makes the table grow. Two things a user may
  not expect and the code does: a put of a key already present grows a loaded
  table, which moves everything under the walk; and removing the key at hand
  shifts the next entry into the slot just passed.

`MCHashTable.cfg`: thirteen keys settle in sixteen slots, in a fixed order, and
three more come and go. The guests collide at the last slot, so probes wrap
round, displace settled entries and shift them back; with fifteen keys the next
put grows the table to 32 slots, where the hashes part. Both a hash of 0 and the
load limit occur. `MCHashWalk.cfg` has two guests, one value and walks starting
from any such table.

### Forms, Compiler, Vm, Shapes, VmCorrect - bytecode

| model | code |
|---|---|
| forms (`Forms`) | the program text after macro expansion: a head, variables and subforms |
| `Compile` and what it calls (`Compiler`) | `compile_form` and its cases in `lsvm.c`: locals, upvalues, constants, `emit_jump` and `patch_jump`, tail position |
| `Eval`, `Apply` (`Evaluator`) | `ls_eval`, `ls_apply` and the `eval_*` functions, over environments as `lsenv.c` keeps them |
| `frames` | activations of `ls_vm_run`, a C call for each Lisp call, each with its operand array, `sp` and `pc` |
| one action per instruction, calls by what is called | the `switch` of `ls_vm_run` |
| `Fault` | the checks of the loop that raise an error |
| `fns[i].calls`, `fns[i].jit` | `call_count`, `jit_entry` of a function |

Each of the 2767 programs of `MCVm.cfg` defines a function, gives a variable a
value and runs a form: every special form and call in every place of another,
operands at the edges of their width, recursive functions, loops that exchange
their parameters, closures, and more operands than the stack holds (36 305
states). Code offsets have their own width; `ArgRange = 128` is the smallest in
which all of these programs fit and an immediate can still be too large;
`StackSize = 14` lets ordinary forms pass and the longest call fail;
`JitThreshold = 3` is reached by a recursion, `MaxFrames = 7` by the deepest.

* `Agrees`: in the fragment `Faithful`, compiled code gives the value, and leaves
  the variables, that the evaluator gives. The fragment is what the compiler gets
  right. Outside are: `let` and `let*` (every compiled one dies, their slots are
  counted out before the stores are emitted); `if` without an else (gives NIL even
  when its test is true); `cond` without a final T clause, or with a clause that is
  a test only; `setq` without variables; `&rest`; a closure over a variable that
  changes, or over one that is not the first parameter (upvalues are positional
  and by value); a closure whose index among the prototypes is not its constant's;
  `setq` of a constant, which `OP_STORE_GLOBAL` refuses and `eval_setq` carries out.
* `JumpsInside`: jumps of any code land inside it.
* `Balanced`, `LoopsFlat`. `Shapes` reads off the code of a function, without
  running it, how many operands it has above its locals at each instruction and
  which of them were loaded by name. Code for which this comes out the same along
  every way to an instruction is `Disciplined`. An activation of disciplined code
  keeps its operands above its locals, whatever it calls and whatever calls it, and
  returns with one; if besides it calls by name only, and no compiled function
  outside tail position (`Flat`), it never waits for an activation of itself. That
  the compiler's code is so is part of `Agrees` (`Compiled`): disciplined for all
  forms of the fragment, and flat for the definitions in `Loops`.
* `Ends` (liveness) under `WF(Next)`: `ls_vm_run` is C code that nothing interrupts.

Code that the JIT has made is entered with another calling convention
(`lsjit.c`): the model lets anything come of it, and `Agrees` says nothing of
it. The VM's operand stack is not among the collector's roots; that gap is not
in these modules.

### Classes and Generics - CLOS

| model | code |
|---|---|
| `classes`, `value` | `ls_class_t` objects and the table of names. A redefinition makes a new object and leaves subclasses with the old one |
| `merge` | the locals of `c3_linearize` while it runs: what is left of each list, and the result; `MergeTurn` is one turn of its loop |
| `generics`, `methods` | generic functions with their method lists, newest first |
| `calls` | the C stack: activations of `ls_dispatch_generic`, of a method, and of forms that catch an exit |
| `cnm_stack` | the static array of contexts up to `cnm_depth`; `live` until the dispatch that owns its arrays is gone |
| `cut` | history: an exit has jumped out of a running method |

The program is arbitrary within a budget: any definitions and calls, at the top
level or in the body of a method. `MCGenerics.cfg` has four names of classes, up
to interchange, one or two superclasses each, one generic of two parameters, and
two contexts instead of `CNM_STACK_MAX`'s 64, so that leaks fill the stack. A
class costs 3, any other operation 2, and there are 14 to spend: four classes and
a call, the least that makes two precedence lists disagree, or seven definitions,
calls and exits (646 855 states). Methods specialize on two parameters, or on the
first only. The program is free to stop, so no fairness is stated and
CHECK_DEADLOCK is off.

* `Linearized`: C3 gives each ancestor once, in an order that contradicts no list
  it was made from; slots are the union. `RefusesOnlyCycles`: the error of
  `c3_linearize` is raised only where no order would do.
* `OverridesFirst`: the methods a call runs, and their order, where the methods are
  `Congruent`: all with one number of specializers, no more than there are
  arguments. `bi_defmethod` does not ask for that, and without it the order is
  wrong: the comparison takes a method for equal to one whose specializers go on
  where its own end, so equality is not transitive, and with methods on (a a), (a)
  and (a T), defined in this order, a call finds the last before the first. The
  run has such calls; the property says nothing of them.
* `ContextsSound`: `cnm_depth` is not restored by a longjmp. The property says
  how far the damage goes: the running calls still have their contexts, and only
  an exit out of a running method leaves others behind or lets one be read whose
  arrays are gone.
* `ChainDescends`: call-next-method goes down its own call's chain.

Modelled as it is, against Common Lisp: an around method whose call-next-method
has passed the last around method ends the call; before, primary and after
methods do not run. `ls_init_clos` registers these functions under lower-case
names while `eval_defclass` and its like look up `%DEFCLASS` (`lseval.c` 1115):
the macros always fail, and the functions are reached through
`(funcall (intern "%defclass") ...)` or the C API.

### Packages, Reader, Repl, Printer - from lines to forms

A text is a sequence of characters and words; a word stands for any run of
letters. `stack` in `Reader` is the C stack, one frame for each open list, quote,
vector or test. A step is a call of `read_expr` or a turn of `read_list`. `Repl`
has what is typed (`script`), the line buffer (`text` while `stage` is `more`) and
the form being evaluated; an evaluation may succeed, fail, and may export or intern
symbols. `Printer` follows what is shown and types it back.

`MCPrinter.cfg`: every line of up to four of eleven characters, of up to five
brackets and quotes, quoted forms of up to five, pairs of lines left open, lines
that fill the buffer (`Cap = 22` for 16384 characters), and pairs of lines about packages
(318 401 states). Four elements of a list are kept (`MaxItems`), the longest
that such a line has. Deadlock is not checked: the user stops typing.

* `ScannersAgree`: the REPL decides by its own count of parentheses
  (`main.c` 525) what to hand to the reader. For plain text the two agree: no
  complete line ends too early, and no form read is unbalanced. Not plain are bars and a
  `#\` inside a token, which they do take differently.
* `ReadsBack`: what is printed reads as the same form, if the names in it do. The
  printer writes neither packages nor bars.
* `NameStep`: a name keeps its symbol. The exception, an uninterned symbol that
  is exported, takes the name over in `bi_export`.
* `ReadEnds` (liveness) under `WF(Read)`, the reader being C code that runs until
  it returns: a form is read, or fails. At a bar inside a list the reader gets
  empty tokens for ever (`lsreader.c` 239).

Left out: numbers, back quotes, commas, and the letters after `#` but those of
vectors, tests, `#'`, `#\` and `#:`; a name after `#:` is taken to fit into the
buffer of 256 bytes (`lsreader.c` 354).

Other behaviour the models show, which no comment of the repository contradicts: a
comment after a form prints another NIL; a bar ends a line or a file silently; a
line that does not fit is dropped; a backslash at the end of a line is taken as
a continuation even inside a string; a qualified name makes the package if there is none;
symbols interned in COMMON-LISP after the start, as `gensym` does, are not seen from CL-USER.

### Session and Meaning - what forms mean

`Session` types forms one by one into `Evaluator`, whose frames, cells and
multiple-value register stay, also after an error. `Meaning` evaluates the same
forms by the rules of Common Lisp: variables are cells, scopes are static,
specials dynamic, functions have names of their own, a form has a list of values.
It shares no state with the evaluator. `Agrees` compares what is printed, errors
included, for 48 048 sessions of three forms: a declaration and a function that
delivers several values, assigns a special, makes a closure or redefines
itself; a binding form around another around what gives values; and a look at all
variables. It ends at the first form that comes upon one of the divergences below,
which `Meaning` detects (`apart`):

* a let or a parameter over a special variable is lexical: `ls_dyn_push` has no
  caller;
* multiple-value-bind of a form whose value does not come straight from a native
  that delivers several: `ls_apply` sets the count to 1 and leaves the first value
  stale (`lseval.c` 1341);
* a local function lives among the variables, and a global one of its name has
  precedence;
* a closure made by an init of `let*` sees what the same `let*` binds later;
* arguments beyond the parameters are ignored.

A session has a fixed length and nothing is concurrent: no fairness, and no
deadlock check.

## Proofs

All theorems hold for every value of the constants, under the named
assumptions of the modules, and are checked by TLAPS.

`ControlProofs`. None of the invariants is inductive alone. A landing site sets
`L->esc_top` to `esc.next` of its own frame, so the soundness of the head needs
that of every `next`; what `next` must be depends on which activations are past
their body, which is `Shape` (only unwind-protect and handler-case run code
with their frame unlinked, a prog sits on its block, the bottom frame is the
driver's). `IInv == TypeOK /\ Shape /\ ChainSound /\ FaultNeedsSkippingGo`. Two
lemmas carry the argument: returning to the caller of an activation, and
unlinking one that goes on, each preserve `IInv`. Every action is one of the
two, an `Enter`, a `ResumeTagbody` or a fault. The safety and step properties
follow from `IInv`. `ExitsInnermost` also needs what the walk along the list has
seen: as long as the head is sound a walk that gets past a running activation has
met it (`WalkMeets`, by induction on its length with `Induction`), so the first match
is the innermost one.

`GcProofs`. The safety invariants are inductive together; the refinement needs
one more, `Precise`: while marking, everything marked is reachable in the sense
of the contract. At the start of the sweep the gray set is empty, so the
tri-colour invariant makes the marked set closed over the roots, hence a
superset of what is reachable, and `Precise` is the other inclusion: the sweep
frees exactly the complement.

`HashTableProofs`. That the array indices stay in range and the probe loops end
needs an empty slot (`SlotLeft`), which needs the exact count and how full the
table may be in each loop (`Load`: at most half of the new array while it grows,
under the limit when an insertion starts). That each entry is found needs, for
the entry still in hand, that its way so far is paved (`Carrying`), and for the
hole of a shift that it is used (`Hole`); that the hole can be closed is the
lemma `PastHole`. That a lookup which stops early has missed nothing
(`AbsentIsAbsent`) follows from `ProbeInvariant` and what it has passed
(`Searching`). `Unique`, no key in two places, makes the mapping to the abstract
map a function. `IInv` is the conjunction of these with the arguments of the
running call (`Arguments`), the former array (`Former`), the provenance of entries
(`AllProper`) and what a walk has seen (`Walked`). `ImplementsMap` then has one
lemma per action: five actions take effect on the map, the others leave `Pairs`
alone.

`Induction` has what the proofs about recursive functions rest on. The library's
induction theorems take an operator, which the provers cannot instantiate; that
`<` is well-founded it states of sets, and from that follow a least and a
greatest element, induction over a set of numbers, that a function defined
by recursion over `0..n` exists and satisfies its definition, and so one whose
every call is of less measure than the call that makes it (`LoopExists`).

`VmProofs`. `TypeOK` is where a C program would read or write outside an array:
it says that `sp` of every activation stays inside its operand stack, that a value
refers to a closure, prototype or cons that exists, and that symbols have cells.
It is nearly inductive. What it lacks is the activation that waits for a call: it
is given a value when the call returns, without the check at the head of the
loop, so it must have room already (`Suspended`). There is one lemma per
instruction. `StackBounded` is for any code whatever that has the shape
`WellFormed`, not for what the compiler emits; `NeverOff` assumes of the code
that its jumps land (`Verified`, which `JumpsInside` checks of every program the
run compiles) and concludes that no activation's counter ever leaves it, so
that the machine's own check of the counter never fails.

`OperandsBalanced` and `LoopsStayFlat` are for any program too, and speak of those of
its functions that are disciplined; others may run among them. That `sp` is never
below the locals is far from inductive: it takes the exact number of operands at
each instruction. `Shaped` (`AlwaysShaped`) says that an activation has as many as
its code says, one fewer while it waits for a call, and that an operand loaded by
name holds what the cell of that name holds, unless the cell is unbound. It is kept
because `Shape` is a fixed point: what an instruction leaves (`Settled`) is covered
by what is known at each place it goes on to (`SettlesDown`); one lemma per kind of
instruction shows `Settled`. A program that stores into a function cell would break
it; no instruction and none of the modelled natives does. For `LoopsStayFlat` the callee of a flat
function is an operand loaded by name (`CalleeLoaded`), so the call does not go through
FUNCALL (`CalledDirectly`) and is of a native, or a tail call of another function
(`CallsAnother`), since of itself it would have been `CallSelf`. That the compiler's
code is disciplined is not proved, as `Compiler` is recursive over forms.

`GenericsProofs`. `ContextsSound` speaks of live contexts and open dispatches;
an induction needs who owns what: an open dispatch runs a method just above it
(`OpenRuns`), a live context belongs to a dispatch still on the stack (`Owned`),
each open dispatch has one (`EachOpenHasOne`), in order (`InOrder`), and until
an exit cuts something off there are no others (`OnlyOpen`). `Room` is what keeps
the unchecked push inside the array: a dispatch tests for room at its start and
pushes only after its before methods have run; what these push they pop again, or
an exit has happened. Each action is one of: user code pushes a frame, frames
above a height go, a dispatch opens, or closes; `AsMany` then counts contexts.
`GenericsTyped` joins it with type correctness (`TInv`), since what a context
or an activation holds stays in range only while the tables it points into grow.

`OverridesAreFirst` needs three things that no state of a call shows: that the
list of a class has no class twice and keeps, after each class in it, all of that
class's own list in its order (`Monotone`, kept by the C3 merge); that no two
methods of a generic agree in qualifier and specializers (`MethodsOK`); and that
each plan of congruent methods was sorted, and what runs follows its plan (`PlansOK`).
A generic that has methods of two lengths keeps them, since a new method replaces
only one with its own specializers: methods that are congruent now were so when
the call chose among them (`Stays`). `Ranked` shows that
the comparison the code sorts by is a strict order on such methods in which
being incomparable is transitive, so that an insertion sort by it leaves no later
method more specific than an earlier one (`Sortedly`). Two overriding methods differ
in some argument, and at the first such argument the more specific one's class
comes earlier in the list of the argument's class by `Monotone`.

`ChainsDescend` says where call-next-method has got to. `Follow` gives every
open dispatch a witness: the methods run for it, each at a later place of its
chain than the one before, and the `current` of its context is the last of them.
As long as nothing was cut off, the top context is that of the innermost open
dispatch (by `ContextsSound`), so `CallNextMethod` takes the successor in the right
chain.

`ClassesProofs`. `Progress` relates the lists C3 has left to those it started
from: what is gone from a list is in the result, what is left is not, and the
result respects the order of every list. A turn keeps it (`MergeTurns`); when
nothing is left it gives an order (`MergeDone`); when no head can be taken every
head is preceded by another class that is left, which makes the lists cyclic
(`MergeStuck`). This is for hierarchies of any size. `ClassesAreLinearized` adds the
slots (`SlotsOnce`): `AddSlot` keeps a list without repetition and adds what it is
given, and an induction along the two loops of `compute_effective_slots` gives
the union of the direct slots; a class that is defined later changes neither.

`ReplProofs`, for any files, any lines that `repl_read_line` can return (shorter
than the buffer: `LinesAssumption`) and any size of the buffer. `Sound` says that
a symbol with a package is what its name denotes there, unless an uninterned symbol
has taken the name over, and that no two symbols of a package share a name. The
steps of the whole REPL come down to four changes (`Changes`): none, an `Intern` in
a package made if need be, an uninterned symbol, an `Export`; each preserves `Sound`
and the names.

* `ReplTypeCorrect`: `Typed` is `Sound`, that the tables of the packages name symbols
  that exist, and what the reader and the REPL keep of their own variables. It is
  about where scanning stops: `Skip`, `StringEnd`, `CommentEnd` and `Scan` are
  functions that call themselves further on in the text, which exist
  because each call gets nearer its end (`LoopExists` of `Induction`, a descent
  along a measure, is the lemma behind all of them).
* `ReplScannersAgree`: the inductive invariant is `Typed /\ InStep`. `Passes(t, i, j, d)`
  says that the REPL's scan of any prefix of `t` that contains them gets from place i
  to place j outside of strings, d parentheses deeper; `Level(stack, c)`, that c of
  the open constructs are parentheses. While a form is read, the scan from the
  start of the text, and the one from the start of the form, have both passed to the
  reader's place with the depth of its stack (`Followed`). A lemma for each construct
  of `read_expr`, each turn of `read_list` and each return carries that on; `Plain`
  is needed where a token contains `#\` or a bar. At the end of the text a depth other
  than 0 is a list that the REPL had counted too (`OpenList`), a string without an end is
  one where the REPL's scan ends in a string (`OpenString`), and the part of the text
  that a form took is balanced by itself (`PassesPart`).

Only model-checked: the liveness properties (`RaiseLands`, `CollectionEnds`,
`CallsReturn`, `Ends`, `ReadEnds`), out of the prover's reach; `Agrees` of `vm`,
`ReadsBack` of `repl` and what `session` checks, where compiler, printer and
evaluators are RECURSIVE operators over forms.

## Plan

Done: Control, Gc, HashTable (modelled, refined, proved); Classes, Generics
(modelled, all properties proved); Packages, Reader, Repl, Printer (modelled,
all safety properties proved but `ReadsBack`); Vm on any code, and on disciplined
code (proved), with Compiler against Evaluator, and Session against Meaning
(model-checked).

Left, in order of worth: that the compiler's jumps land and its code is disciplined,
for every form, which needs `Compiler` without RECURSIVE operators; the collector together with the
VM's unscanned operand stack; keys that are equal and hash differently in `HashTable`; `setf`, `case`, `do` and macros in
`Evaluator`; numbers, back quote and feature expressions in `Reader`.

## Not modelled

* Conditions and restarts of `lsclos.c`: registered under lower-case names only,
  which no program's symbol has. The natives that programs do use are those of
  `lsbuiltins.c` 1597-1699; their handler-case is in `Control`, the others keep no
  stack.
* The pure builtins and `core.lisp`: some hundred functions and macros of data,
  without history, each testable by itself. `progv` (`core.lisp` 2340) is among them.
* Instruction encoding and the arena of the JIT; FFI, GUI, OpenGL, Vulkan, AOT and
  ELF: system calls and byte layout.
* `litesrpent.c`, half of the lines of the repository, is the generated
  amalgamation of the other files.
