---------------------------- MODULE HeapContract ----------------------------
(***************************************************************************)
(* What the collector promises the rest of the system, with no marks, no   *)
(* gray stack and no sweep: between collections the heap only grows, and a *)
(* collection frees, in one step, exactly the objects that cannot be       *)
(* reached from the anchors.                                               *)
(***************************************************************************)
CONSTANT Obj     \* addresses of heap objects

VARIABLES
  alloc,         \* the addresses that hold an object
  edges,         \* the references the collector follows out of each address
  anchors        \* the addresses held by roots

cvars == <<alloc, edges, anchors>>

Closed(S) == \A o \in S : edges[o] \subseteq S

Reachable == {o \in Obj : \A S \in SUBSET Obj :
                             anchors \subseteq S /\ Closed(S) => o \in S}

Init ==
  /\ alloc = {}
  /\ edges = [o \in Obj |-> {}]
  /\ anchors = {}

Mutate ==
  /\ alloc \subseteq alloc'
  /\ alloc' \subseteq Obj
  /\ edges' \in [Obj -> SUBSET Obj]
  /\ anchors' \subseteq Obj
  /\ \A o \in Obj \ alloc' : edges'[o] = {}

Collect ==
  /\ alloc' = alloc \cap Reachable
  /\ edges' = [o \in Obj |-> IF o \in alloc' THEN edges[o] ELSE {}]
  /\ UNCHANGED anchors

Next == Mutate \/ Collect

Spec == Init /\ [][Next]_cvars
=============================================================================
