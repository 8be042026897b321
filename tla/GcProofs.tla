------------------------------ MODULE GcProofs ------------------------------
(***************************************************************************)
(* The collector of Gc is correct for any number of addresses, fields,     *)
(* locals and root slots: its marks are sound, it meets HeapContract, and  *)
(* freed memory is touched only through the gaps FaultNeedsGap names.      *)
(***************************************************************************)
EXTENDS Gc, TLAPS

(* Marking never goes beyond what the contract calls reachable.            *)
Precise == phase = "marking" => marked \subseteq Contract!Reachable

IInv == TypeOK /\ MarkInvariant /\ NoDangling /\ FaultNeedsGap /\ Precise

LEMMA FieldsType == Fields \subseteq SUBSET Obj
BY DEF Fields

(* What the C code holds is an address.                                    *)
LEMMA HeldType ==
  ASSUME TypeOK
  PROVE  /\ Held \subseteq Obj
         /\ SlotValues \subseteq Obj \cup {Gone}
         /\ Anchors \subseteq Obj \cup {Gone}
         /\ Survivors \subseteq Allocated
         /\ Allocated \subseteq Obj
BY DEF TypeOK, Held, SlotValues, Anchors, Survivors, Allocated

(* The type invariant is inductive on its own.                             *)
LEMMA TypeStep == TypeOK /\ [Next]_vars => TypeOK'
<1> SUFFICES ASSUME TypeOK, [Next]_vars
             PROVE  TypeOK'
  OBVIOUS
<1> USE DEF TypeOK, heap, held, work
<1>1. Held \subseteq Obj /\ Fields \subseteq SUBSET Obj
  BY HeldType, FieldsType
<1>2. root_count \in Nat /\ MaxSlots \in Nat
  BY SlotsAssumption
<1>3. CASE Fault
  BY <1>3 DEF Fault
<1>4. ASSUME NEW o \in Obj, NEW k \in {"traced", "opaque"}, NEW fields \in Fields,
             Allocate(o, k, fields)
      PROVE  TypeOK'
  BY <1>1, <1>4 DEF Allocate, Keep
<1>5. ASSUME NEW o \in Obj, NEW p \in Obj, Load(o, p)
      PROVE  TypeOK'
  BY <1>3, <1>5 DEF Load, Keep
<1>6. ASSUME NEW o \in Obj, NEW fields \in Fields, Store(o, fields)
      PROVE  TypeOK'
  BY <1>1, <1>6 DEF Store
<1>7. ASSUME NEW o \in Obj, Drop(o) \/ SetRoot(o) \/ ClearRoot(o)
      PROVE  TypeOK'
  BY <1>7 DEF Drop, SetRoot, ClearRoot
<1>8. ASSUME NEW o \in Obj, PushRoot(o)
      PROVE  TypeOK'
  BY <1>2, <1>8 DEF PushRoot
<1>9. ASSUME NEW i \in 1..root_count, NEW o \in Obj, Assign(i, o)
      PROVE  TypeOK'
  BY <1>9 DEF Assign
<1>10. CASE PopRoot
  BY <1>2, <1>10 DEF PopRoot
<1>11. ASSUME NEW n \in 0..(root_count - 1), Unwind(n)
       PROVE  TypeOK'
  BY <1>11 DEF Unwind
<1>12. CASE Collect
  <2>1. CASE Anchors \subseteq Allocated
    BY <1>12, <2>1 DEF Collect, Allocated
  <2>2. QED
    BY <1>3, <1>12, <2>1 DEF Collect
<1>13. ASSUME NEW o \in Obj, Trace(o)
       PROVE  TypeOK'
  BY <1>3, <1>13 DEF Trace, Traced
<1>14. ASSUME NEW o \in Obj, Sweep(o)
       PROVE  TypeOK'
  <2>1. InUse(o) \in BOOLEAN
    BY DEF InUse
  <2>2. exposed' \in BOOLEAN
    BY <1>14, <2>1 DEF Sweep
  <2>3. kind' \in [Obj -> {"free", "traced", "opaque"}] /\ refs' \in [Obj -> SUBSET Obj]
    BY <1>14 DEF Sweep
  <2>4. QED
    BY <1>14, <2>2, <2>3 DEF Sweep
<1>15. CASE StartSweep
  BY <1>15 DEF StartSweep, Allocated
<1>16. CASE EndSweep
  BY <1>16 DEF EndSweep
<1>17. CASE UNCHANGED vars
  BY <1>17 DEF vars
<1>18. QED
  BY <1>4, <1>5, <1>6, <1>7, <1>8, <1>9, <1>10, <1>11, <1>12, <1>13, <1>14, <1>15,
     <1>16, <1>17 DEF Next, Mutator, Collecting

(* A step that only moves references between places that hold them.        *)
LEMMA HoldStep ==
  ASSUME IInv, Mutating, TypeOK',
         Held' \subseteq Held \cup UNION {refs[o] : o \in Held \cap Allocated},
         UNCHANGED <<heap, phase, work, exposed, status>>
  PROVE  IInv'
<1> USE DEF IInv, Mutating, heap, work
<1>1. Survivors = Allocated /\ Survivors' = Allocated'  /\ Allocated' = Allocated
  BY DEF MarkInvariant, Survivors, Allocated
<1>2. MarkInvariant'
  BY <1>1 DEF MarkInvariant
<1>3. NoDangling'
  BY <1>1 DEF NoDangling
<1>4. FaultNeedsGap' /\ Precise'
  BY DEF FaultNeedsGap, Precise
<1>5. QED
  BY <1>2, <1>3, <1>4

(* A fault leaves everything but status alone.                             *)
LEMMA FaultStep ==
  ASSUME IInv, Fault, exposed \/ Gone \in SlotValues
  PROVE  IInv'
<1> USE DEF Fault, IInv, heap, held, work
<1>1. TypeOK'
  BY DEF TypeOK
<1>2. MarkInvariant' /\ NoDangling'
  BY DEF MarkInvariant, NoDangling, Survivors, Allocated, Anchors, SlotValues, Held, Traced
<1>3. FaultNeedsGap'
  BY DEF FaultNeedsGap, SlotValues
<1>4. Precise'
  BY DEF Precise, Contract!Reachable, Contract!Closed, Survivors, Allocated, Traced,
         Anchors, SlotValues
<1>5. QED
  BY <1>1, <1>2, <1>3, <1>4

(* The mutator cannot make a reference to freed memory of its own.         *)
LEMMA MutatorStep == IInv /\ Mutator => IInv'
<1> SUFFICES ASSUME IInv, Mutator
             PROVE  IInv'
  OBVIOUS
<1> USE DEF IInv
<1>1. TypeOK'
  BY TypeStep DEF Next
<1>2. Held \subseteq Obj /\ Fields \subseteq SUBSET Obj /\ Allocated \subseteq Obj
  BY HeldType, FieldsType
<1>3. root_count \in Nat
  BY DEF TypeOK
<1>4. ASSUME NEW o \in Obj, NEW k \in {"traced", "opaque"}, NEW fields \in Fields,
             Allocate(o, k, fields)
      PROVE  IInv'
  <2> USE <1>4 DEF Allocate, Mutating, Keep, work
  <2>1. /\ kind' = [kind EXCEPT ![o] = k]
        /\ refs' = [refs EXCEPT ![o] = fields]
        /\ kind \in [Obj -> {"free", "traced", "opaque"}]
        /\ refs \in [Obj -> SUBSET Obj]
    BY DEF TypeOK
  <2>2. Allocated' = Allocated \cup {o}
    BY <2>1 DEF Allocated
  <2>3. Survivors = Allocated /\ Survivors' = Allocated'
    BY DEF MarkInvariant, Survivors
  <2>4. Held' = Held \cup {o}
    <3>1. o # Gone
      BY GoneAssumption
    <3>2. QED
      BY <3>1 DEF Held, SlotValues
  <2>5. MarkInvariant'
    BY <2>2 DEF MarkInvariant
  <2>6. NoDangling'
    BY <2>1, <2>2, <2>3, <2>4 DEF NoDangling
  <2>7. FaultNeedsGap' /\ Precise'
    BY DEF FaultNeedsGap, Precise
  <2>8. QED
    BY <1>1, <2>5, <2>6, <2>7
<1>5. ASSUME NEW o \in Obj, NEW p \in Obj, Load(o, p)
      PROVE  IInv'
  <2>1. CASE kind[o] = "free" /\ Fault
    BY <1>5, <2>1, FaultStep DEF Load, NoDangling, Allocated
  <2>2. CASE kind[o] # "free"
    <3>1. Held' \subseteq Held \cup {p}
      BY <1>5, <2>2 DEF Load, Keep, Held, SlotValues
    <3>2. p \in UNION {refs[q] : q \in Held \cap Allocated}
      BY <1>5, <2>2 DEF Load, Allocated
    <3>3. Mutating /\ UNCHANGED <<heap, phase, work, exposed, status>>
      BY <1>5, <2>2 DEF Load, heap, work
    <3>4. QED
      BY <1>1, <3>1, <3>2, <3>3, HoldStep
  <2>3. QED
    BY <1>5, <2>1, <2>2 DEF Load
<1>6. ASSUME NEW o \in Obj, NEW fields \in Fields, Store(o, fields)
      PROVE  IInv'
  <2> USE <1>6 DEF Store, Mutating, held, work
  <2>1. /\ refs' = [refs EXCEPT ![o] = fields]
        /\ refs \in [Obj -> SUBSET Obj]
    BY DEF TypeOK
  <2>2. Allocated' = Allocated
    BY DEF Allocated
  <2>3. Survivors = Allocated /\ Survivors' = Allocated'
    BY DEF MarkInvariant, Survivors
  <2>4. Held' = Held
    BY DEF Held, SlotValues
  <2>5. MarkInvariant'
    BY <2>2 DEF MarkInvariant
  <2>6. o \in Allocated
    BY DEF Allocated
  <2>7. NoDangling'
    BY <2>1, <2>2, <2>3, <2>4, <2>6 DEF NoDangling
  <2>8. FaultNeedsGap' /\ Precise'
    BY DEF FaultNeedsGap, Precise
  <2>9. QED
    BY <1>1, <2>5, <2>7, <2>8
<1>7. ASSUME NEW o \in Obj, Drop(o) \/ SetRoot(o) \/ ClearRoot(o)
      PROVE  IInv'
  <2>1. Held' \subseteq Held
    BY <1>7 DEF Drop, SetRoot, ClearRoot, Held, SlotValues
  <2>2. Mutating /\ UNCHANGED <<heap, phase, work, exposed, status>>
    BY <1>7 DEF Drop, SetRoot, ClearRoot, heap, work
  <2>3. QED
    BY <1>1, <2>1, <2>2, HoldStep
<1>8. ASSUME NEW o \in Obj, PushRoot(o)
      PROVE  IInv'
  <2>1. SlotValues' \subseteq SlotValues \cup {o}
    BY <1>3, <1>8 DEF PushRoot, SlotValues, TypeOK
  <2>2. Held' \subseteq Held
    BY <1>8, <2>1 DEF PushRoot, Held
  <2>3. Mutating /\ UNCHANGED <<heap, phase, work, exposed, status>>
    BY <1>8 DEF PushRoot, heap, work
  <2>4. QED
    BY <1>1, <2>2, <2>3, HoldStep
<1>9. ASSUME NEW i \in 1..root_count, NEW o \in Obj, Assign(i, o)
      PROVE  IInv'
  <2>1. SlotValues' \subseteq SlotValues \cup {o}
    BY <1>9 DEF Assign, SlotValues, TypeOK
  <2>2. Held' \subseteq Held
    BY <1>9, <2>1 DEF Assign, Held
  <2>3. Mutating /\ UNCHANGED <<heap, phase, work, exposed, status>>
    BY <1>9 DEF Assign, heap, work
  <2>4. QED
    BY <1>1, <2>2, <2>3, HoldStep
<1>10. CASE PopRoot
  <2>1. SlotValues' \subseteq SlotValues
    BY <1>3, <1>10 DEF PopRoot, SlotValues, TypeOK
  <2>2. Held' \subseteq Held
    BY <1>10, <2>1 DEF PopRoot, Held
  <2>3. Mutating /\ UNCHANGED <<heap, phase, work, exposed, status>>
    BY <1>10 DEF PopRoot, heap, work
  <2>4. QED
    BY <1>1, <2>2, <2>3, HoldStep
<1>11. ASSUME NEW n \in 0..(root_count - 1), Unwind(n)
       PROVE  IInv'
  <2>1. SlotValues' \subseteq SlotValues \cup {Gone}
    BY <1>11 DEF Unwind, SlotValues, TypeOK
  <2>2. Held' \subseteq Held
    BY <1>11, <2>1 DEF Unwind, Held
  <2>3. Mutating /\ UNCHANGED <<heap, phase, work, exposed, status>>
    BY <1>11 DEF Unwind, heap, work
  <2>4. QED
    BY <1>1, <2>2, <2>3, HoldStep
<1>12. QED
  BY <1>4, <1>5, <1>6, <1>7, <1>8, <1>9, <1>10, <1>11 DEF Mutator

(* Marking stays within what is reachable, and faults only through a gap.  *)
LEMMA CollectStep == IInv /\ Collect => IInv'
<1> SUFFICES ASSUME IInv, Collect
             PROVE  IInv'
  OBVIOUS
<1> USE DEF IInv
<1>1. TypeOK'
  BY TypeStep DEF Next
<1>2. CASE ~(Anchors \subseteq Allocated)
  <2>1. exposed \/ Gone \in SlotValues
    BY <1>2, GoneAssumption DEF NoDangling, Held, Anchors, TypeOK
  <2>2. QED
    BY <1>2, <2>1, FaultStep DEF Collect
<1>3. CASE Anchors \subseteq Allocated
  <2> USE <1>3 DEF Collect, Mutating, heap, held
  <2>1. /\ Allocated' = Allocated
        /\ Survivors = Allocated
        /\ Survivors' = Allocated
        /\ Anchors' = Anchors
        /\ Held' = Held
    BY DEF Allocated, Survivors, Anchors, SlotValues, Held, MarkInvariant
  <2>2. marked = {} /\ marked' = Anchors /\ gray' = Anchors
    BY DEF MarkInvariant
  <2>3. MarkInvariant'
    BY <2>1, <2>2 DEF MarkInvariant
  <2>4. NoDangling'
    BY <2>1 DEF NoDangling
  <2>5. FaultNeedsGap'
    BY DEF FaultNeedsGap, SlotValues
  <2>6. Gone \notin Anchors
    BY GoneAssumption, HeldType
  <2>7. Precise'
    <3>1. (Anchors \ {Gone})' \subseteq Contract!Reachable'
      BY <2>1, HeldType DEF Contract!Reachable
    <3>2. QED
      BY <2>1, <2>2, <2>6, <3>1 DEF Precise
  <2>8. QED
    BY <1>1, <2>3, <2>4, <2>5, <2>7
<1>4. QED
  BY <1>2, <1>3

(* The contract's edges of an allocated object are those trace follows.    *)
LEMMA TraceStep == ASSUME IInv, NEW o \in Obj, Trace(o) PROVE IInv'
<1> USE DEF IInv
<1>1. TypeOK'
  BY TypeStep DEF Next, Collecting
<1>2. /\ Survivors = Allocated
      /\ o \in Allocated
      /\ Traced(o) \subseteq refs[o]
  BY DEF Trace, MarkInvariant, Survivors, Allocated, Traced
<1>3. CASE ~(Traced(o) \subseteq Allocated)
  <2>1. exposed
    BY <1>2, <1>3 DEF NoDangling
  <2>2. QED
    BY <1>3, <2>1, FaultStep DEF Trace
<1>4. CASE Traced(o) \subseteq Allocated
  <2> USE <1>4 DEF Trace, heap, held
  <2>1. /\ Allocated' = Allocated
        /\ Survivors' = Allocated
        /\ Anchors' = Anchors
        /\ Held' = Held
        /\ \A q \in Obj : Traced(q)' = Traced(q)
    BY DEF Allocated, Survivors, Anchors, SlotValues, Held, Traced, MarkInvariant
  <2>2. MarkInvariant'
    <3>1. \A q \in (marked \ gray) \cup {o} : Traced(q) \subseteq marked'
      BY DEF MarkInvariant
    <3>2. marked' \ gray' \subseteq (marked \ gray) \cup {o}
      OBVIOUS
    <3>3. marked' \subseteq Allocated /\ gray' \subseteq marked'
      BY DEF MarkInvariant
    <3>4. QED
      BY <2>1, <3>1, <3>2, <3>3 DEF MarkInvariant, TypeOK
  <2>3. NoDangling'
    BY <1>2, <2>1 DEF NoDangling
  <2>4. FaultNeedsGap'
    BY DEF FaultNeedsGap, SlotValues
  <2>5. Contract!Reachable' = Contract!Reachable
    BY <1>2, <2>1, HeldType DEF Contract!Reachable, Contract!Closed
  <2>6. o \in Contract!Reachable
    BY DEF Precise, MarkInvariant
  <2>7. Traced(o) \subseteq Contract!Reachable
    BY <1>2, <2>6, HeldType DEF Contract!Reachable, Contract!Closed
  <2>8. Precise'
    BY <2>5, <2>7 DEF Precise
  <2>9. QED
    BY <1>1, <2>2, <2>3, <2>4, <2>8
<1>5. QED
  BY <1>3, <1>4

(* When the gray stack is empty the marks are closed: sweeping may begin.  *)
LEMMA StartSweepStep == IInv /\ StartSweep => IInv'
<1> SUFFICES ASSUME IInv, StartSweep
             PROVE  IInv'
  OBVIOUS
<1> USE DEF IInv, StartSweep, heap, held
<1>1. TypeOK'
  BY TypeStep DEF Next, Collecting
<1>2. /\ Allocated' = Allocated
      /\ Survivors = Allocated
      /\ Survivors' = marked
      /\ Anchors' = Anchors
      /\ Held' = Held
      /\ \A q \in Obj : Traced(q)' = Traced(q)
  BY DEF Allocated, Survivors, Anchors, SlotValues, Held, Traced, MarkInvariant
<1>3. MarkInvariant'
  BY <1>2 DEF MarkInvariant, TypeOK
<1>4. NoDangling'
  BY <1>2 DEF NoDangling, MarkInvariant
<1>5. FaultNeedsGap' /\ Precise'
  BY DEF FaultNeedsGap, SlotValues, Precise
<1>6. QED
  BY <1>1, <1>3, <1>4, <1>5

(* Sweeping one object does not change what survives.                      *)
LEMMA SurvivorsStay ==
  ASSUME IInv, NEW o \in Obj, Sweep(o)
  PROVE  /\ Survivors' = Survivors
         /\ \A q \in Survivors : kind'[q] = kind[q] /\ refs'[q] = refs[q]
         /\ Allocated' = IF o \in marked THEN Allocated ELSE Allocated \ {o}
<1> USE DEF IInv, Sweep, heap
<1>1. CASE o \in marked
  BY <1>1 DEF Survivors, Allocated
<1>2. CASE o \notin marked
  <2>1. /\ kind' = [kind EXCEPT ![o] = "free"]
        /\ refs' = [refs EXCEPT ![o] = {}]
        /\ kind \in [Obj -> {"free", "traced", "opaque"}]
        /\ refs \in [Obj -> SUBSET Obj]
    BY <1>2 DEF TypeOK
  <2>2. Allocated' = Allocated \ {o}
    BY <2>1 DEF Allocated
  <2>3. o \notin Survivors /\ Survivors \subseteq Obj
    BY <1>2 DEF Survivors, Allocated
  <2>4. QED
    BY <1>2, <2>1, <2>2, <2>3 DEF Survivors
<1>3. QED
  BY <1>1, <1>2

LEMMA SweepStep == ASSUME IInv, NEW o \in Obj, Sweep(o) PROVE IInv'
<1> USE DEF IInv, Sweep, held
<1>1. TypeOK'
  BY TypeStep DEF Next, Collecting
<1>2. /\ Anchors' = Anchors
      /\ SlotValues' = SlotValues
      /\ Held' = Held
  BY DEF Anchors, SlotValues, Held
<1>3. \A q \in Survivors : Traced(q)' = Traced(q)
  BY SurvivorsStay DEF Traced
<1>4. MarkInvariant'
  BY <1>2, <1>3, SurvivorsStay DEF MarkInvariant, heap
<1>5. NoDangling'
  <2>1. CASE o \in marked
    BY <1>2, <2>1, SurvivorsStay DEF NoDangling
  <2>2. CASE o \notin marked
    <3> SUFFICES ASSUME ~exposed'
                 PROVE  /\ Held \subseteq Allocated \ {o}
                        /\ \A q \in Survivors : refs[q] \subseteq Allocated \ {o}
      BY <1>2, <2>2, SurvivorsStay DEF NoDangling
    <3>1. ~exposed /\ ~InUse(o)
      BY <2>2 DEF InUse, TypeOK
    <3>2. o \notin Survivors
      BY <2>2 DEF Survivors
    <3>3. o \notin Held
      BY <3>1, <3>2 DEF InUse, MarkInvariant, Held, Anchors
    <3>4. ASSUME NEW q \in Survivors
          PROVE  o \notin refs[q]
      <4>1. kind[q] \in {"traced", "opaque"}
        BY DEF Survivors, Allocated, TypeOK
      <4>2. CASE kind[q] = "opaque"
        BY <3>1, <4>2 DEF InUse
      <4>3. CASE kind[q] = "traced"
        BY <3>2, <4>3 DEF MarkInvariant, Traced
      <4>4. QED
        BY <4>1, <4>2, <4>3
    <3>5. QED
      BY <3>1, <3>3, <3>4 DEF NoDangling
  <2>3. QED
    BY <2>1, <2>2
<1>6. FaultNeedsGap' /\ Precise'
  BY DEF FaultNeedsGap, Precise
<1>7. QED
  BY <1>1, <1>4, <1>5, <1>6

LEMMA EndSweepStep == IInv /\ EndSweep => IInv'
<1> SUFFICES ASSUME IInv, EndSweep
             PROVE  IInv'
  OBVIOUS
<1> USE DEF IInv, EndSweep, heap, held, work
<1>1. TypeOK'
  BY TypeStep DEF Next, Collecting
<1>2. Allocated' = Allocated /\ Survivors' = Survivors /\ Held' = Held
  BY DEF Allocated, Survivors, Held, SlotValues
<1>3. MarkInvariant'
  BY <1>2 DEF MarkInvariant
<1>4. NoDangling' /\ FaultNeedsGap' /\ Precise'
  BY <1>2 DEF NoDangling, FaultNeedsGap, SlotValues, Precise
<1>5. QED
  BY <1>1, <1>3, <1>4

-----------------------------------------------------------------------------
(* The inductive invariant.                                                *)
THEOREM Invariance == Spec => []IInv
<1>1. Init => IInv
  <2> SUFFICES ASSUME Init
               PROVE  IInv
    OBVIOUS
  <2>1. TypeOK
    <3>1. root_count \in 0..MaxSlots /\ root_slots \in [1..root_count -> Obj \cup {Gone}]
      BY SlotsAssumption DEF Init
    <3>2. kind \in [Obj -> {"free", "traced", "opaque"}] /\ refs \in [Obj -> SUBSET Obj]
      BY DEF Init
    <3>3. QED
      BY <3>1, <3>2 DEF Init, TypeOK
  <2>2. Allocated = {} /\ Survivors = {} /\ Held = {}
    BY DEF Init, Allocated, Survivors, Held, SlotValues
  <2>3. QED
    BY <2>1, <2>2 DEF Init, IInv, MarkInvariant, NoDangling, FaultNeedsGap, Precise
<1>2. IInv /\ [Next]_vars => IInv'
  <2> SUFFICES ASSUME IInv, [Next]_vars
               PROVE  IInv'
    OBVIOUS
  <2>1. CASE UNCHANGED vars
    <3> USE <2>1 DEF vars, heap, held, work
    <3>1. TypeOK' /\ MarkInvariant' /\ NoDangling' /\ FaultNeedsGap'
      BY DEF IInv, TypeOK, MarkInvariant, NoDangling, FaultNeedsGap, Allocated,
             Survivors, Anchors, Held, SlotValues, Traced
    <3>2. /\ Anchors' = Anchors
          /\ Survivors' = Survivors
          /\ \A o \in Obj : Traced(o)' = Traced(o)
      BY DEF Survivors, Allocated, Traced, Anchors, SlotValues
    <3>3. Contract!Reachable' = Contract!Reachable
      BY <3>2 DEF Contract!Reachable, Contract!Closed
    <3>4. QED
      BY <3>1, <3>3 DEF IInv, Precise
  <2>2. CASE Next
    BY <2>2, MutatorStep, CollectStep, TraceStep, StartSweepStep, SweepStep,
       EndSweepStep DEF Next, Collecting
  <2>3. QED
    BY <2>1, <2>2
<1>3. QED
  BY <1>1, <1>2, PTL DEF Spec

(* The type invariant.                                                     *)
THEOREM TypeCorrect == Spec => []TypeOK
BY Invariance, PTL DEF IInv

(* The marks are sound at every moment of a collection.                    *)
THEOREM MarksSound == Spec => []MarkInvariant
BY Invariance, PTL DEF IInv

(* No reference dangles unless a collection freed something only a C local *)
(* or an untraced object referred to.                                      *)
THEOREM NothingDangles == Spec => []NoDangling
BY Invariance, PTL DEF IInv

(* Freed memory is touched only through a gap.                             *)
THEOREM NoFaultWithoutGap == Spec => []FaultNeedsGap
BY Invariance, PTL DEF IInv

-----------------------------------------------------------------------------
(* A collection implements the contract's one step: when sweeping begins,  *)
(* what is marked is what is reachable.                                    *)
LEMMA MarkedIsReachable ==
  ASSUME IInv, StartSweep
  PROVE  marked = Survivors \cap Contract!Reachable
<1> USE DEF IInv, StartSweep
<1>1. Survivors = Allocated /\ marked \subseteq Allocated /\ marked \subseteq Obj
  BY DEF MarkInvariant, Survivors, TypeOK
<1>2. marked \subseteq Contract!Reachable
  BY DEF Precise
<1>3. Anchors \ {Gone} \subseteq marked
  BY DEF MarkInvariant
<1>4. \A q \in marked : Traced(q) \subseteq marked
  BY DEF MarkInvariant
<1>5. Contract!Reachable \subseteq marked
  BY <1>1, <1>3, <1>4 DEF Contract!Reachable, Contract!Closed
<1>6. QED
  BY <1>1, <1>2, <1>5

(* Any step of the contract that only adds objects.                        *)
LEMMA MutateStep ==
  ASSUME TypeOK', Survivors \subseteq Survivors'
  PROVE  Contract!Mutate
<1>1. Survivors' \subseteq Obj
  BY DEF Survivors, Allocated
<1>2. (Anchors \ {Gone})' \subseteq Obj
  BY DEF Anchors, SlotValues, TypeOK
<1>3. \A o \in Obj : Traced(o)' \in SUBSET Obj
  BY DEF Traced, TypeOK
<1>4. QED
  BY <1>1, <1>2, <1>3 DEF Contract!Mutate

(* The collector implements HeapContract.                                  *)
THEOREM ImplementsContract == Spec => MeetsContract
<1>1. Init => Contract!Init
  BY DEF Init, Contract!Init, Survivors, Allocated, Anchors, SlotValues
<1>2. IInv /\ IInv' /\ [Next]_vars => [Contract!Next]_(Contract!cvars)
  <2> SUFFICES ASSUME IInv, IInv', [Next]_vars
               PROVE  [Contract!Next]_(Contract!cvars)
    OBVIOUS
  <2> USE DEF heap, held, work
  <2>1. CASE Survivors \subseteq Survivors'
    BY <2>1, MutateStep DEF IInv, Contract!Next
  <2>2. CASE StartSweep
    <3>1. Survivors' = marked
      BY <2>2 DEF IInv, StartSweep, MarkInvariant, Survivors, Allocated
    <3>2. Survivors' = Survivors \cap Contract!Reachable
      BY <2>2, <3>1, MarkedIsReachable
    <3>3. Anchors' = Anchors /\ \A o \in Obj : Traced(o)' = Traced(o)
      BY <2>2 DEF StartSweep, Anchors, SlotValues, Traced
    <3>4. Contract!Collect
      BY <3>2, <3>3 DEF Contract!Collect
    <3>5. QED
      BY <3>4 DEF Contract!Next
  <2>3. CASE \E o \in Obj : Sweep(o)
    BY <2>1, <2>3, SurvivorsStay
  <2>4. CASE Fault \/ UNCHANGED vars
    BY <2>1, <2>4 DEF Fault, vars, Survivors, Allocated
  <2>5. CASE Mutator
    <3>1. Survivors = Allocated /\ (Survivors = Allocated)'
      <4>1. phase = "mutator" /\ phase' = "mutator"
        BY <2>5 DEF Mutator, Mutating, Allocate, Load, Store, Drop, SetRoot, ClearRoot,
                    PushRoot, Assign, PopRoot, Unwind, Fault
      <4>2. QED
        BY <4>1 DEF IInv, MarkInvariant, Survivors
    <3>2. \A o \in Obj : kind[o] # "free" => kind'[o] # "free"
      <4>1. ASSUME NEW o \in Obj, NEW k \in {"traced", "opaque"}, NEW fields,
                   Allocate(o, k, fields)
            PROVE  \A q \in Obj : kind[q] # "free" => kind'[q] # "free"
        BY <4>1 DEF Allocate, IInv, TypeOK
      <4>2. QED
        BY <2>5, <4>1 DEF Mutator, Load, Store, Drop, SetRoot, ClearRoot,
                          PushRoot, Assign, PopRoot, Unwind, Fault
    <3>3. QED
      BY <2>1, <3>1, <3>2 DEF Allocated
  <2>6. CASE Collect \/ (\E o \in Obj : Trace(o)) \/ EndSweep
    <3>1. unswept = {} /\ unswept' = {} /\ kind' = kind
      BY <2>6 DEF IInv, MarkInvariant, Collect, Mutating, Trace, EndSweep, Fault
    <3>2. QED
      BY <2>1, <3>1 DEF Survivors, Allocated
  <2>7. QED
    BY <2>2, <2>3, <2>4, <2>5, <2>6 DEF Next, Collecting
<1>3. QED
  BY <1>1, <1>2, Invariance, PTL DEF Spec, MeetsContract, Contract!Spec
=============================================================================
