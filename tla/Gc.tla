--------------------------------- MODULE Gc ---------------------------------
(***************************************************************************)
(* The mark-and-sweep collector and the memory it works on.                *)
(*                                                                         *)
(* Objects live at addresses that malloc hands out again after a free.     *)
(* The interpreter is an arbitrary mutator: it allocates, loads and stores *)
(* references, keeps some in C locals the collector does not scan, some in *)
(* the interpreter's root fields, and some in C locals registered with     *)
(* ls_gc_push_root.  ls_gc_collect is stop-the-world and is called between *)
(* two lines of the REPL or, by (gc), in the middle of an evaluation.      *)
(*                                                                         *)
(* trace_object follows the references of most kinds of object and has no  *)
(* case for a few (environment frames, prototypes, restarts, arrays): an   *)
(* object is "traced" or "opaque".  Touching a freed address, or a root    *)
(* slot whose C activation is gone, is undefined behaviour.                *)
(***************************************************************************)
EXTENDS Integers, FiniteSets

CONSTANTS
  Obj,         \* addresses
  Gone,        \* a root slot whose C activation a longjmp has cut off
  MaxFields,   \* bound: references held by one object
  MaxLocals,   \* bound: references held by C locals not registered
  MaxSlots     \* bound: root slots registered at once

ASSUME GoneAssumption == Gone \notin Obj
ASSUME FieldsAssumption == MaxFields \in Nat
ASSUME LocalsAssumption == MaxLocals \in Nat
ASSUME SlotsAssumption == MaxSlots \in Nat

VARIABLES
  kind,        \* header tag at each address: "free", "traced" or "opaque"
  refs,        \* the references stored at each address
  roots,       \* what the fields of ls_state_t that mark_roots visits hold
  root_count,  \* g_root_count
  root_slots,  \* g_root_slots: what each registered C local holds
  locals,      \* what C locals not registered hold
  phase,       \* "mutator", "marking" or "sweeping"
  marked,      \* addresses with LS_GC_MARK set
  gray,        \* the gray stack (popped in any order)
  unswept,     \* the part of all_objects sweep has yet to visit
  exposed,     \* history: sweep freed something still in use
  status       \* "running", or "undefined" once freed memory was touched

heap == <<kind, refs>>
held == <<roots, root_count, root_slots, locals>>
work == <<marked, gray, unswept>>
vars == <<heap, held, phase, work, exposed, status>>

Allocated == {o \in Obj : kind[o] # "free"}

SlotValues == {root_slots[i] : i \in 1..root_count}

(* What mark_roots pushes.                                                 *)
Anchors == roots \cup SlotValues

(* What the running C code can name without touching the heap.             *)
Held == (roots \cup locals \cup SlotValues) \ {Gone}

Fields == {S \in SUBSET Obj : Cardinality(S) <= MaxFields}

(* One more C local holds o.                                               *)
Keep(o) ==
  /\ locals' = locals \cup {o}
  /\ Cardinality(locals') <= MaxLocals

Mutating == status = "running" /\ phase = "mutator"

Fault ==
  /\ status' = "undefined"
  /\ UNCHANGED <<heap, held, phase, work, exposed>>

-----------------------------------------------------------------------------
(* The mutator.                                                            *)

Allocate(o, k, fields) ==
  /\ Mutating
  /\ kind[o] = "free"
  /\ fields \subseteq Held
  /\ kind' = [kind EXCEPT ![o] = k]
  /\ refs' = [refs EXCEPT ![o] = fields]
  /\ Keep(o)
  /\ UNCHANGED <<roots, root_count, root_slots, phase, work, exposed, status>>

(* Read a reference out of an object that is at hand.                      *)
Load(o, p) ==
  /\ Mutating
  /\ o \in Held
  /\ \/ kind[o] = "free" /\ Fault
     \/ /\ kind[o] # "free"
        /\ p \in refs[o]
        /\ Keep(p)
        /\ UNCHANGED <<heap, roots, root_count, root_slots, phase, work,
                       exposed, status>>

Store(o, fields) ==
  /\ Mutating
  /\ o \in Held
  /\ kind[o] # "free"
  /\ fields \subseteq refs[o] \cup Held
  /\ refs' = [refs EXCEPT ![o] = fields]
  /\ UNCHANGED <<kind, held, phase, work, exposed, status>>

(* A C local goes out of scope or is overwritten.                          *)
Drop(o) ==
  /\ Mutating
  /\ o \in locals
  /\ locals' = locals \ {o}
  /\ UNCHANGED <<heap, roots, root_count, root_slots, phase, work,
                 exposed, status>>

(* A global, a multiple value, a handler or a pending escape value is set. *)
SetRoot(o) ==
  /\ Mutating
  /\ o \in Held \ roots
  /\ roots' = roots \cup {o}
  /\ UNCHANGED <<heap, root_count, root_slots, locals, phase, work,
                 exposed, status>>

ClearRoot(o) ==
  /\ Mutating
  /\ o \in roots
  /\ roots' = roots \ {o}
  /\ UNCHANGED <<heap, root_count, root_slots, locals, phase, work,
                 exposed, status>>

(* ls_gc_push_root(L, &local), the local holding o.                        *)
PushRoot(o) ==
  /\ Mutating
  /\ o \in Held
  /\ root_count < MaxSlots
  /\ root_count' = root_count + 1
  /\ root_slots' = [i \in 1..(root_count + 1) |->
                      IF i > root_count THEN o ELSE root_slots[i]]
  /\ UNCHANGED <<heap, roots, locals, phase, work, exposed, status>>

(* The registered local is assigned.                                       *)
Assign(i, o) ==
  /\ Mutating
  /\ o \in Held
  /\ root_slots[i] # Gone
  /\ root_slots' = [root_slots EXCEPT ![i] = o]
  /\ UNCHANGED <<heap, roots, root_count, locals, phase, work,
                 exposed, status>>

(* Slip: pop without looking whether anything is pushed.                   *)
PopRootUnguarded ==
  /\ Mutating
  /\ root_count' = root_count - 1
  /\ root_slots' = [i \in 1..(root_count - 1) |-> root_slots[i]]
  /\ UNCHANGED <<heap, roots, locals, phase, work, exposed, status>>

(* Every pop is by the activation that pushed, which is therefore live.    *)
PopRoot ==
  /\ Mutating
  /\ root_count > 0
  /\ root_slots[root_count] # Gone
  /\ root_count' = root_count - 1
  /\ root_slots' = [i \in 1..(root_count - 1) |-> root_slots[i]]
  /\ UNCHANGED <<heap, roots, locals, phase, work, exposed, status>>

(* An error longjmps out of activations that pushed the slots above n.     *)
(* Nobody pops them.                                                       *)
Unwind(n) ==
  /\ Mutating
  /\ root_slots' = [i \in 1..root_count |-> IF i > n THEN Gone
                                                     ELSE root_slots[i]]
  /\ UNCHANGED <<heap, roots, root_count, locals, phase, work,
                 exposed, status>>

-----------------------------------------------------------------------------
(* The collector.                                                          *)

(* Slip: the C locals registered with ls_gc_push_root are not visited.     *)
MarkRootsOnly ==
  /\ Mutating
  /\ IF Anchors \subseteq Allocated
     THEN /\ phase' = "marking"
          /\ marked' = marked \cup roots
          /\ gray' = roots \ marked
          /\ UNCHANGED <<heap, held, unswept, exposed, status>>
     ELSE Fault

(* ls_gc_collect up to the first trace: gray_count = 0 and mark_roots.     *)
Collect ==
  /\ Mutating
  /\ IF Anchors \subseteq Allocated
     THEN /\ phase' = "marking"
          /\ marked' = marked \cup Anchors
          /\ gray' = Anchors \ marked
          /\ UNCHANGED <<heap, held, unswept, exposed, status>>
     ELSE Fault

(* The references trace_object follows out of o.                           *)
Traced(o) == IF kind[o] = "traced" THEN refs[o] ELSE {}

(* Slip: push every reference, marked already or not.                      *)
TraceAgain(o) ==
  /\ status = "running" /\ phase = "marking"
  /\ o \in gray
  /\ IF Traced(o) \subseteq Allocated
     THEN /\ marked' = marked \cup Traced(o)
          /\ gray' = (gray \ {o}) \cup Traced(o)
          /\ UNCHANGED <<heap, held, phase, unswept, exposed, status>>
     ELSE Fault

(* Pop an object, push those of its references that have no mark.          *)
Trace(o) ==
  /\ status = "running" /\ phase = "marking"
  /\ o \in gray
  /\ IF Traced(o) \subseteq Allocated
     THEN /\ marked' = marked \cup Traced(o)
          /\ gray' = (gray \ {o}) \cup (Traced(o) \ marked)
          /\ UNCHANGED <<heap, held, phase, unswept, exposed, status>>
     ELSE Fault

(* Slip: start to sweep when one object is still on the gray stack.        *)
StartSweepEarly ==
  /\ status = "running" /\ phase = "marking"
  /\ Cardinality(gray) <= 1
  /\ phase' = "sweeping"
  /\ unswept' = Allocated
  /\ gray' = {}
  /\ UNCHANGED <<heap, held, marked, exposed, status>>

StartSweep ==
  /\ status = "running" /\ phase = "marking"
  /\ gray = {}
  /\ phase' = "sweeping"
  /\ unswept' = Allocated
  /\ UNCHANGED <<heap, held, marked, gray, exposed, status>>

(* The objects this collection keeps (outside of sweep, all there are).    *)
Survivors == Allocated \ (unswept \ marked)

(* Still in use: by C code, or by a survivor trace_object does not look    *)
(* into.                                                                   *)
InUse(o) == o \in locals \/ \E p \in Survivors : kind[p] = "opaque" /\ o \in refs[p]

(* Slip: keep the mark of an object that is kept.                          *)
SweepDirty(o) ==
  /\ status = "running" /\ phase = "sweeping"
  /\ o \in unswept
  /\ unswept' = unswept \ {o}
  /\ IF o \in marked
     THEN UNCHANGED <<marked, heap, exposed>>
     ELSE /\ kind' = [kind EXCEPT ![o] = "free"]
          /\ refs' = [refs EXCEPT ![o] = {}]
          /\ exposed' = (exposed \/ InUse(o))
          /\ UNCHANGED marked
  /\ UNCHANGED <<held, phase, gray, status>>

(* One turn of sweep's loop.                                               *)
Sweep(o) ==
  /\ status = "running" /\ phase = "sweeping"
  /\ o \in unswept
  /\ unswept' = unswept \ {o}
  /\ IF o \in marked
     THEN /\ marked' = marked \ {o}
          /\ UNCHANGED <<heap, exposed>>
     ELSE /\ kind' = [kind EXCEPT ![o] = "free"]
          /\ refs' = [refs EXCEPT ![o] = {}]
          /\ exposed' = (exposed \/ InUse(o))
          /\ UNCHANGED marked
  /\ UNCHANGED <<held, phase, gray, status>>

(* ls_gc_collect returns.                                                  *)
EndSweep ==
  /\ status = "running" /\ phase = "sweeping"
  /\ unswept = {}
  /\ phase' = "mutator"
  /\ UNCHANGED <<heap, held, work, exposed, status>>

-----------------------------------------------------------------------------
Init ==
  /\ kind = [o \in Obj |-> "free"]
  /\ refs = [o \in Obj |-> {}]
  /\ roots = {}
  /\ root_count = 0
  /\ root_slots = [i \in 1..0 |-> Gone]
  /\ locals = {}
  /\ phase = "mutator"
  /\ marked = {}
  /\ gray = {}
  /\ unswept = {}
  /\ exposed = FALSE
  /\ status = "running"

Mutator ==
  \/ \E o \in Obj, k \in {"traced", "opaque"}, fields \in Fields :
       Allocate(o, k, fields)
  \/ \E o, p \in Obj : Load(o, p)
  \/ \E o \in Obj, fields \in Fields : Store(o, fields)
  \/ \E o \in Obj : Drop(o) \/ SetRoot(o) \/ ClearRoot(o) \/ PushRoot(o)
  \/ \E i \in 1..root_count, o \in Obj : Assign(i, o)
  \/ PopRoot
  \/ \E n \in 0..(root_count - 1) : Unwind(n)

Collecting ==
  \/ \E o \in Obj : Trace(o) \/ Sweep(o)
  \/ StartSweep
  \/ EndSweep

Next == Mutator \/ Collect \/ Collecting

Spec == Init /\ [][Next]_vars

(* ls_gc_collect is one C call: once begun it is all that runs.            *)
FairSpec == Spec /\ WF_vars(Collecting)
-----------------------------------------------------------------------------
(* Properties.                                                             *)

TypeOK ==
  /\ kind \in [Obj -> {"free", "traced", "opaque"}]
  /\ refs \in [Obj -> SUBSET Obj]
  /\ roots \subseteq Obj
  /\ root_count \in 0..MaxSlots
  /\ root_slots \in [1..root_count -> Obj \cup {Gone}]
  /\ locals \subseteq Obj
  /\ phase \in {"mutator", "marking", "sweeping"}
  /\ marked \subseteq Obj
  /\ gray \subseteq Obj
  /\ unswept \subseteq Obj
  /\ exposed \in BOOLEAN
  /\ status \in {"running", "undefined"}

(* The marks: all clear whenever the mutator runs, so that the next        *)
(* collection starts from a white heap; while marking, on allocated        *)
(* objects only, the gray ones among them, and no black object refers to a *)
(* white one; while sweeping, on objects not yet swept only, and no        *)
(* survivor is referred to by trace but lost.                              *)
MarkInvariant ==
  /\ gray \subseteq marked
  /\ marked \subseteq Allocated
  /\ phase = "mutator" => marked = {} /\ unswept = {}
  /\ phase = "marking" =>
       /\ unswept = {}
       /\ Anchors \subseteq marked
       /\ \A o \in marked \ gray : Traced(o) \subseteq marked
  /\ phase = "sweeping" =>
       /\ gray = {}
       /\ marked \subseteq unswept
       /\ unswept \subseteq Allocated
       /\ Anchors \subseteq Survivors
       /\ \A o \in Survivors : Traced(o) \subseteq Survivors

(* No reference the mutator can get at dangles, however collections,       *)
(* errors and reuse of addresses interleave, unless some collection freed  *)
(* an object that an unregistered C local or an object trace_object does   *)
(* not look into still referred to: those are the only two gaps.           *)
NoDangling ==
  ~exposed =>
    /\ Held \subseteq Allocated
    /\ \A o \in Survivors : refs[o] \subseteq Allocated

(* Freed memory is never touched except through those two gaps or a root   *)
(* slot left behind by a longjmp out of the function that pushed it.       *)
FaultNeedsGap == status = "undefined" => exposed \/ Gone \in SlotValues

(* The collector implements the contract: seen from outside, a collection  *)
(* frees in one step, when it begins to sweep, exactly the objects not     *)
(* reachable along traced references from the roots, and nothing is ever   *)
(* freed otherwise.                                                        *)
Contract == INSTANCE HeapContract WITH
  alloc   <- Survivors,
  edges   <- [o \in Obj |-> IF o \in Survivors THEN Traced(o) ELSE {}],
  anchors <- Anchors \ {Gone}

MeetsContract == Contract!Spec

(* A collection ends, also on cyclic structures.                           *)
CollectionEnds == phase # "mutator" ~> (phase = "mutator" \/ status = "undefined")

(* What the header of lsgc.c says: the collector marks each reachable heap *)
(* object, and frees only what is not marked.                              *)
FullyReachable ==
  {o \in Obj : \A S \in SUBSET Obj :
     roots \subseteq S /\ (\A p \in S \cap Allocated : refs[p] \subseteq S) => o \in S}

ReachableKept ==
  [][\A o \in FullyReachable : kind[o] # "free" => kind'[o] # "free"]_vars
=============================================================================
