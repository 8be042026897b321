--------------------------- MODULE ControlProofs ----------------------------
(***************************************************************************)
(* The escape list of Control is sound in every reachable state, for any   *)
(* names, tags, labels and any depth of the C stack.                       *)
(*                                                                         *)
(* The invariants do not follow from each other one by one: a landing site *)
(* pops "its next", so the type of L->esc_top rests on the soundness of    *)
(* every next field, and that rests on which activations may be past their *)
(* body (Shape).  They are proved together, as IInv.                       *)
(***************************************************************************)
EXTENDS Control, Induction

Shape ==
  /\ \A i \in Live :
       /\ frames[i].phase = "body" \/ frames[i].form \in {"protect", "handler"}
       /\ frames[i].skipped => frames[i].form \in {"tagbody", "prog"}
       /\ frames[i].form = "prog" => i > 1 /\ frames[i - 1].form = "block"
  /\ sp > 0 => frames[1].form = "toplevel"

IInv == TypeOK /\ Shape /\ ChainSound /\ FaultNeedsSkippingGo

(* A pointer L->esc_top may hold when n activations are left.              *)
Fits(p, n) == Innermost(p, n) \/ (p = Dead /\ SkippedBelow(n))

(* Returning to the caller of i leaves a sound list when what L->esc_top   *)
(* is set to fits the activations below i.                                 *)
LEMMA ReturnSound ==
  ASSUME IInv, status = "running", NEW i \in Live, NEW p, Fits(p, i - 1),
         Return(i, p), raise' \in {"none", "error", "reraise"},
         UNCHANGED status
  PROVE  IInv'
<1> USE DEF IInv, Live
<1>1. sp \in Nat /\ i \in 1..sp /\ i - 1 \in Nat
  BY DEF TypeOK
<1>2. /\ frames' = [j \in 1..(i - 1) |-> frames[j]]
      /\ sp' = i - 1
      /\ esc_top' = p
  BY DEF Return, Cut
<1>3. TypeOK'
  BY <1>1, <1>2, DepthAssumption DEF TypeOK, Fits, Innermost, Pointers, Null, Dead
<1>4. Shape'
  BY <1>1, <1>2 DEF Shape
<1>5. ChainSound'
  BY <1>1, <1>2 DEF ChainSound, Fits, Innermost, SkippedBelow, Linked, Null, Dead
<1>6. FaultNeedsSkippingGo'
  BY DEF FaultNeedsSkippingGo
<1>7. QED
  BY <1>3, <1>4, <1>5, <1>6

(* Unlinking the frame of an activation that goes on running other code.   *)
LEMMA UnlinkSound ==
  ASSUME IInv, status = "running", NEW i \in Live, NEW phase \in Phases \ {"body"},
         frames[i].form \in {"protect", "handler"},
         Unlink(i, phase), raise' \in {"none", "error", "reraise"},
         UNCHANGED status
  PROVE  IInv'
<1> USE DEF IInv, Live
<1>1. sp \in Nat /\ i \in 1..sp /\ i - 1 \in Nat
  BY DEF TypeOK
<1>2. /\ frames' = [j \in 1..i |-> IF j = i THEN [frames[i] EXCEPT !.phase = phase]
                                           ELSE frames[j]]
      /\ sp' = i
      /\ esc_top' = frames[i].next
  BY <1>1 DEF Unlink, Cut
<1>3. frames[i] \in Frame
  BY DEF TypeOK
<1>4. /\ frames'[i] \in Frame
      /\ frames'[i].phase = phase
      /\ frames'[i].form = frames[i].form
      /\ frames'[i].next = frames[i].next
      /\ frames'[i].skipped = frames[i].skipped
      /\ \A j \in 1..(i - 1) : frames'[j] = frames[j]
  <2>1. frames'[i] = [frames[i] EXCEPT !.phase = phase]
    BY <1>1, <1>2
  <2>2. \A j \in 1..(i - 1) : frames'[j] = frames[j]
    BY <1>1, <1>2
  <2>3. phase \in Phases
    OBVIOUS
  <2>4. [frames[i] EXCEPT !.phase = phase] \in Frame
    BY <1>3, <2>3 DEF Frame
  <2>5. /\ [frames[i] EXCEPT !.phase = phase].phase = phase
        /\ [frames[i] EXCEPT !.phase = phase].form = frames[i].form
        /\ [frames[i] EXCEPT !.phase = phase].next = frames[i].next
        /\ [frames[i] EXCEPT !.phase = phase].skipped = frames[i].skipped
    BY <1>3 DEF Frame
  <2>6. QED
    BY <2>1, <2>2, <2>4, <2>5
<1>5. Fits(frames[i].next, i - 1)
  BY <1>1 DEF ChainSound, Fits
<1>6. TypeOK'
  <2>1. frames' \in [1..i -> Frame]
    BY <1>1, <1>2, <1>3, <1>4 DEF TypeOK
  <2>2. esc_top' \in Pointers'
    BY <1>1, <1>2, <1>5 DEF Fits, Innermost, Pointers, Null, Dead
  <2>3. QED
    BY <1>1, <1>2, <2>1, <2>2, DepthAssumption DEF TypeOK
<1>7. Shape'
  BY <1>1, <1>2, <1>4 DEF Shape, Phases
<1>8. ChainSound'
  <2>1. ~Linked(i)'
    BY <1>4 DEF Linked, Phases
  <2>2. Innermost(esc_top, sp)' \/ (esc_top = Dead /\ SkippedBelow(sp))'
    <3>1. CASE Innermost(frames[i].next, i - 1)
      BY <1>1, <1>2, <1>4, <2>1, <3>1 DEF Innermost, Linked
    <3>2. CASE frames[i].next = Dead /\ SkippedBelow(i - 1)
      BY <1>1, <1>2, <1>4, <3>2 DEF SkippedBelow
    <3>3. QED
      BY <1>5, <3>1, <3>2 DEF Fits
  <2>3. ASSUME NEW j \in 1..i
        PROVE  Innermost(frames[j].next, j - 1)'
                 \/ (frames[j].next = Dead /\ SkippedBelow(j - 1))'
    <3>1. frames'[j].next = frames[j].next /\ j \in Live /\ j - 1 \in 0..(i - 1)
      BY <1>1, <1>4
    <3>2. \A k \in 1..(j - 1) : frames'[k] = frames[k]
      BY <1>1, <1>4
    <3>3. QED
      BY <3>1, <3>2 DEF ChainSound, Innermost, SkippedBelow, Linked
  <2>4. QED
    BY <1>2, <2>2, <2>3 DEF ChainSound
<1>9. FaultNeedsSkippingGo'
  BY DEF FaultNeedsSkippingGo
<1>10. QED
  BY <1>6, <1>7, <1>8, <1>9

(* A tagbody resumed: L->esc_top is its own frame, or history records that *)
(* the jump came from under other frames.                                  *)
LEMMA ResumeSound ==
  ASSUME IInv, status = "running", NEW i \in Live,
         NEW kind \in Kinds, NEW tag \in Tags,
         ResumeTagbody(i, kind, tag), UNCHANGED status
  PROVE  IInv'
<1> USE DEF IInv, Live
<1>1. sp \in Nat /\ i \in 1..sp /\ i - 1 \in Nat
  BY DEF TypeOK
<1>2. frames[i] \in Frame /\ frames[i].form \in {"tagbody", "prog"}
  BY DEF TypeOK, ResumeTagbody
<1>3. Linked(i)
  BY <1>2 DEF Shape, Linked
<1>4. /\ sp' = i
      /\ esc_top' = Deref(esc_top, i)
      /\ raise' = "none"
      /\ frames' = [j \in 1..i |->
           IF j = i THEN [frames[i] EXCEPT !.kind = kind, !.tag = tag,
                            !.skipped = IF esc_top = i THEN @ ELSE TRUE]
                    ELSE frames[j]]
  BY <1>1 DEF ResumeTagbody, Cut
<1>5. /\ frames'[i] \in Frame
      /\ frames'[i].phase = "body"
      /\ frames'[i].form = frames[i].form
      /\ frames'[i].next = frames[i].next
      /\ frames'[i].skipped = IF esc_top = i THEN frames[i].skipped ELSE TRUE
      /\ \A j \in 1..(i - 1) : frames'[j] = frames[j]
  <2> DEFINE new == [frames[i] EXCEPT !.kind = kind, !.tag = tag,
                       !.skipped = IF esc_top = i THEN @ ELSE TRUE]
  <2>1. frames'[i] = new /\ \A j \in 1..(i - 1) : frames'[j] = frames[j]
    BY <1>1, <1>4
  <2>2. /\ new \in Frame
        /\ new.phase = frames[i].phase
        /\ new.form = frames[i].form
        /\ new.next = frames[i].next
        /\ new.skipped = IF esc_top = i THEN frames[i].skipped ELSE TRUE
    <3>1. CASE esc_top = i
      BY <1>2, <3>1 DEF Frame
    <3>2. CASE esc_top # i
      BY <1>2, <3>2 DEF Frame
    <3>3. QED
      BY <3>1, <3>2
  <2>3. QED
    BY <1>3, <2>1, <2>2 DEF Linked
<1>6. esc_top = i \/ esc_top = Dead \/ esc_top \in (i + 1)..sp
  BY <1>1, <1>3 DEF ChainSound, Innermost, Null, Dead
<1>7. esc_top' = i \/ (esc_top' = Dead /\ frames'[i].skipped)
  BY <1>1, <1>4, <1>5, <1>6 DEF Deref, Dead
<1>8. TypeOK'
  <2>1. frames' \in [1..i -> Frame]
    BY <1>1, <1>4, <1>5 DEF TypeOK
  <2>2. QED
    BY <1>1, <1>4, <1>7, <2>1, DepthAssumption DEF TypeOK, Pointers
<1>9. Shape'
  BY <1>1, <1>2, <1>4, <1>5 DEF Shape
<1>10. ChainSound'
  <2>1. Innermost(esc_top, sp)' \/ (esc_top = Dead /\ SkippedBelow(sp))'
    BY <1>1, <1>4, <1>5, <1>7 DEF Innermost, SkippedBelow, Linked
  <2>2. ASSUME NEW j \in 1..i
        PROVE  Innermost(frames[j].next, j - 1)'
                 \/ (frames[j].next = Dead /\ SkippedBelow(j - 1))'
    <3>1. frames'[j].next = frames[j].next /\ j \in Live /\ j - 1 \in 0..(i - 1)
      BY <1>1, <1>5
    <3>2. \A k \in 1..(j - 1) : frames'[k] = frames[k]
      BY <1>1, <1>5
    <3>3. QED
      BY <3>1, <3>2 DEF ChainSound, Innermost, SkippedBelow, Linked
  <2>3. QED
    BY <1>4, <2>1, <2>2 DEF ChainSound
<1>11. FaultNeedsSkippingGo'
  BY DEF FaultNeedsSkippingGo
<1>12. QED
  BY <1>8, <1>9, <1>10, <1>11

(* A new activation: its next field is what fitted L->esc_top.             *)
LEMMA EnterSound ==
  ASSUME IInv, NEW form \in Forms \ {"prog"}, NEW kind \in Kinds,
         NEW tag \in Tags, NEW labels \in SUBSET Labels,
         Enter(form, kind, tag, labels), sp > 0 \/ form = "toplevel"
  PROVE  IInv'
<1> USE DEF IInv, Live
<1> DEFINE new == Escape(form, kind, tag, labels)
<1>1. sp \in Nat /\ sp + 1 \in Nat /\ sp + 1 <= MaxDepth /\ MaxDepth \in Nat
  BY DepthAssumption DEF TypeOK, Enter
<1>2. /\ frames' = [j \in 1..(sp + 1) |-> IF j = sp + 1 THEN new ELSE frames[j]]
      /\ sp' = sp + 1
      /\ esc_top' = sp + 1
      /\ raise' = raise
      /\ status' = status
      /\ status = "running"
  BY DEF Enter, Running
<1>3. /\ new \in Frame
      /\ new.phase = "body"
      /\ new.form = form
      /\ new.next = esc_top
      /\ new.skipped = FALSE
  <2>1. esc_top \in Int
    BY <1>1 DEF TypeOK, Pointers, Dead, Null
  <2>2. QED
    BY <2>1 DEF Escape, Frame, Phases
<1>4. frames'[sp + 1] = new /\ \A j \in 1..sp : frames'[j] = frames[j]
  BY <1>1, <1>2
<1>5. TypeOK'
  <2>1. frames' \in [1..(sp + 1) -> Frame]
    BY <1>1, <1>2, <1>3 DEF TypeOK
  <2>2. QED
    BY <1>1, <1>2, <2>1 DEF TypeOK, Pointers
<1>6. Shape'
  BY <1>1, <1>2, <1>3, <1>4 DEF Shape
<1>7. ChainSound'
  <2>1. Innermost(esc_top, sp)'
    BY <1>1, <1>2, <1>3, <1>4 DEF Innermost, Linked
  <2>2. ASSUME NEW j \in 1..(sp + 1)
        PROVE  Innermost(frames[j].next, j - 1)'
                 \/ (frames[j].next = Dead /\ SkippedBelow(j - 1))'
    <3>1. \A k \in 1..(j - 1) : frames'[k] = frames[k]
      BY <1>1, <1>4
    <3>2. CASE j \in 1..sp
      BY <1>1, <1>4, <3>1, <3>2
         DEF ChainSound, Innermost, SkippedBelow, Linked
    <3>3. CASE j = sp + 1
      BY <1>1, <1>3, <1>4, <3>1, <3>3
         DEF ChainSound, Innermost, SkippedBelow, Linked
    <3>4. QED
      BY <1>1, <3>2, <3>3
  <2>3. QED
    BY <1>2, <2>1, <2>2 DEF ChainSound
<1>8. FaultNeedsSkippingGo'
  BY <1>2 DEF FaultNeedsSkippingGo
<1>9. QED
  BY <1>5, <1>6, <1>7, <1>8

(* prog pushes two frames in one go.                                       *)
LEMMA EnterProgSound ==
  ASSUME IInv, NEW labels \in SUBSET Labels, EnterProg(labels)
  PROVE  IInv'
<1> USE DEF IInv, Live
<1> DEFINE blk == Escape("block", "block", Nil, {})
           tesc == [Escape("prog", "tagbody", Nil, labels) EXCEPT !.next = sp + 1]
<1>1. sp \in Nat /\ sp + 1 \in Nat /\ sp + 2 <= MaxDepth /\ MaxDepth \in Nat
  BY DepthAssumption DEF TypeOK, EnterProg
<1>2. /\ frames' = [j \in 1..(sp + 2) |->
           CASE j = sp + 1 -> blk [] j = sp + 2 -> tesc [] OTHER -> frames[j]]
      /\ sp' = sp + 2
      /\ esc_top' = sp + 2
      /\ raise' = raise
      /\ status' = status
      /\ status = "running"
      /\ sp > 0
  BY DEF EnterProg, Established, Running
<1>3. /\ blk \in Frame
      /\ blk.phase = "body"
      /\ blk.form = "block"
      /\ blk.next = esc_top
      /\ blk.skipped = FALSE
      /\ tesc \in Frame
      /\ tesc.phase = "body"
      /\ tesc.form = "prog"
      /\ tesc.next = sp + 1
      /\ tesc.skipped = FALSE
  <2>1. esc_top \in Int /\ sp + 1 \in Int
    BY <1>1 DEF TypeOK, Pointers, Dead, Null
  <2>2. QED
    BY <2>1 DEF Escape, Frame, Phases, Forms, Kinds, Tags
<1>4. /\ frames'[sp + 1] = blk
      /\ frames'[sp + 2] = tesc
      /\ \A j \in 1..sp : frames'[j] = frames[j]
  BY <1>1, <1>2
<1>5. TypeOK'
  <2>1. frames' \in [1..(sp + 2) -> Frame]
    BY <1>1, <1>2, <1>3 DEF TypeOK
  <2>2. QED
    BY <1>1, <1>2, <2>1 DEF TypeOK, Pointers
<1>6. Shape'
  BY <1>1, <1>2, <1>3, <1>4 DEF Shape
<1>7. ChainSound'
  <2>1. Innermost(esc_top, sp)'
    BY <1>1, <1>2, <1>3, <1>4 DEF Innermost, Linked
  <2>2. ASSUME NEW j \in 1..(sp + 2)
        PROVE  Innermost(frames[j].next, j - 1)'
                 \/ (frames[j].next = Dead /\ SkippedBelow(j - 1))'
    <3>1. CASE j = sp + 2
      <4>1. frames'[j].next = sp + 1 /\ frames'[sp + 1].phase = "body"
        BY <1>3, <1>4, <3>1
      <4>2. j - 1 = sp + 1 /\ sp + 1 \in 1..(sp + 1)
        BY <1>1, <3>1
      <4>3. QED
        BY <1>1, <4>1, <4>2 DEF Innermost, Linked
    <3>2. CASE j = sp + 1
      BY <1>1, <1>3, <1>4, <3>2
         DEF ChainSound, Innermost, SkippedBelow, Linked
    <3>3. CASE j \in 1..sp
      BY <1>1, <1>4, <3>3 DEF ChainSound, Innermost, SkippedBelow, Linked
    <3>4. QED
      BY <1>1, <3>1, <3>2, <3>3
  <2>3. QED
    BY <1>2, <2>1, <2>2 DEF ChainSound
<1>8. FaultNeedsSkippingGo'
  BY <1>2 DEF FaultNeedsSkippingGo
<1>9. QED
  BY <1>5, <1>6, <1>7, <1>8

(* What every activation's next field is worth.                            *)
LEMMA NextFits ==
  ASSUME IInv, NEW i \in Live
  PROVE  Fits(frames[i].next, i - 1) /\ frames[i] \in Frame
BY DEF IInv, ChainSound, Fits, TypeOK, Live

(* A tagbody without the tag: one frame of a tagbody, two of a prog.       *)
LEMMA BaseLive ==
  ASSUME IInv, NEW i \in Live
  PROVE  Base(i) \in Live
BY DEF IInv, Shape, TypeOK, Live, Base

LEMMA TagNotFoundSound ==
  ASSUME IInv, status = "running", NEW i \in Live, NEW tag,
         TagNotFound(i, tag), UNCHANGED status
  PROVE  IInv'
<1>1. Base(i) \in Live /\ Fits(frames[Base(i)].next, Base(i) - 1)
  BY BaseLive, NextFits
<1>2. QED
  BY <1>1, ReturnSound DEF TagNotFound

(* Every landing site keeps the list sound.                                *)
LEMMA LandAtSound ==
  ASSUME IInv, status = "running", NEW i \in Live, LandAt(i), UNCHANGED status
  PROVE  IInv'
<1>1. Fits(frames[i].next, i - 1) /\ frames[i] \in Frame
  BY NextFits
<1>2. CASE LandTop(i)
  BY <1>1, <1>2, ReturnSound DEF LandTop
<1>3. CASE LandExit(i)
  BY <1>1, <1>3, ReturnSound DEF LandExit
<1>4. CASE LandProtect(i)
  BY <1>4, UnlinkSound DEF LandProtect, Phases
<1>5. CASE LandHandler(i)
  BY <1>5, UnlinkSound DEF LandHandler, Phases
<1>6. CASE ResumeTagbody(i, RaisedKind(i), frames[i].tag)
  <2>1. RaisedKind(i) \in Kinds /\ frames[i].tag \in Tags
    BY <1>1 DEF RaisedKind, Kinds, Frame
  <2>2. QED
    BY <1>6, <2>1, ResumeSound
<1>7. CASE TagNotFound(i, frames[i].tag)
  BY <1>7, TagNotFoundSound
<1>8. QED
  BY <1>2, <1>3, <1>4, <1>5, <1>6, <1>7 DEF LandAt

(* Reading a dead frame changes only the status.                           *)
LEMMA FaultSound ==
  ASSUME IInv, Fault, SkippedBelow(sp)
  PROVE  IInv'
BY DEF IInv, Fault, TypeOK, Shape, ChainSound, FaultNeedsSkippingGo, Frame, Pointers,
       Live, Innermost, Linked, SkippedBelow

LEMMA CallErrorSound ==
  ASSUME IInv, CallError
  PROVE  IInv'
BY DEF IInv, CallError, TypeOK, Shape, ChainSound, FaultNeedsSkippingGo, Frame,
       Pointers, Live, Innermost, Linked, SkippedBelow

(* A walk that runs into a dead frame started, or went on, in one.         *)
LEMMA NoHitSound ==
  ASSUME IInv, NEW hits, NoHit(hits)
  PROVE  IInv'
<1>1. CASE RunsIntoDead
  <2>1. SkippedBelow(sp)
    <3>1. CASE esc_top = Dead
      BY <3>1 DEF IInv, ChainSound, Innermost, TypeOK, Null, Dead
    <3>2. CASE \E i \in Chain : frames[i].next = Dead
      <4>1. PICK i \in Live : frames[i].next = Dead
        BY <3>2 DEF Chain
      <4>2. SkippedBelow(i - 1)
        BY <4>1, NextFits DEF Fits, Innermost, Null, Dead, IInv, TypeOK, Live
      <4>3. QED
        BY <4>1, <4>2 DEF SkippedBelow, IInv, TypeOK, Live
    <3>3. QED
      BY <1>1, <3>1, <3>2 DEF RunsIntoDead
  <2>2. QED
    BY <1>1, <2>1, FaultSound DEF NoHit
<1>2. CASE ~RunsIntoDead
  BY <1>2, CallErrorSound DEF NoHit
<1>3. QED
  BY <1>1, <1>2

LEMMA ExitSound ==
  ASSUME IInv, Established, NEW hits \in SUBSET Live, Exit(hits)
  PROVE  IInv'
<1>1. CASE \E i \in FirstOf(hits) : LandExit(i) /\ UNCHANGED status
  BY <1>1, LandAtSound DEF FirstOf, LandAt, Established, Running
<1>2. CASE NoHit(hits)
  BY <1>2, NoHitSound
<1>3. QED
  BY <1>1, <1>2 DEF Exit

-----------------------------------------------------------------------------
LEMMA InitSound == Init => IInv
BY DepthAssumption DEF Init, IInv, TypeOK, Shape, ChainSound, FaultNeedsSkippingGo,
   Innermost, Live, Pointers, Null

LEMMA EstablishSound ==
  ASSUME IInv, Establish
  PROVE  IInv'
<1> USE EnterSound DEF Established, Forms, Kinds, Tags
<1>1. CASE EnterToplevel
  BY <1>1 DEF EnterToplevel
<1>2. CASE \E name \in Names : EnterBlock(name)
  BY <1>2 DEF EnterBlock
<1>3. CASE EnterLoop
  BY <1>3 DEF EnterLoop
<1>4. CASE \E tag \in CatchTags : EnterCatch(tag)
  BY <1>4 DEF EnterCatch
<1>5. CASE \E labels \in SUBSET Labels : EnterTagbody(labels)
  BY <1>5 DEF EnterTagbody
<1>6. CASE \E labels \in SUBSET Labels : EnterProg(labels)
  BY <1>6, EnterProgSound
<1>7. CASE EnterUnwindProtect
  BY <1>7 DEF EnterUnwindProtect
<1>8. CASE EnterHandlerCase
  BY <1>8 DEF EnterHandlerCase
<1>9. QED
  BY <1>1, <1>2, <1>3, <1>4, <1>5, <1>6, <1>7, <1>8 DEF Establish

(* An activation past its body has no linked frame, so L->esc_top already  *)
(* fits what is below it.                                                  *)
LEMMA PastBodyFits ==
  ASSUME IInv, sp > 0, frames[sp].phase # "body"
  PROVE  Fits(esc_top, sp - 1)
<1>1. sp \in Live /\ sp \in Nat /\ ~frames[sp].skipped
  BY DEF IInv, Shape, TypeOK, Live
<1>2. CASE Innermost(esc_top, sp)
  BY <1>1, <1>2 DEF Fits, Innermost, Linked, Live
<1>3. CASE esc_top = Dead /\ SkippedBelow(sp)
  BY <1>1, <1>3 DEF Fits, SkippedBelow, Live
<1>4. QED
  BY <1>2, <1>3 DEF IInv, ChainSound

LEMMA LeaveSound ==
  ASSUME IInv, Leave
  PROVE  IInv'
<1>1. sp \in Live /\ sp > 0 /\ status = "running" /\ raise = "none"
  BY DEF IInv, TypeOK, Live, Leave, LeaveBody, LeaveProtected, LeaveCleanup, Reraise,
         LeaveHandler, Established, Running
<1>2. CASE LeaveBody
  <2>1. Base(sp) \in Live /\ Fits(frames[Base(sp)].next, Base(sp) - 1)
    BY <1>1, BaseLive, NextFits
  <2>2. QED
    BY <1>1, <1>2, <2>1, ReturnSound DEF LeaveBody
<1>3. CASE LeaveProtected
  BY <1>1, <1>3, UnlinkSound DEF LeaveProtected, Phases
<1>4. CASE LeaveCleanup
  BY <1>1, <1>4, PastBodyFits, ReturnSound DEF LeaveCleanup
<1>5. CASE Reraise
  BY <1>1, <1>5, PastBodyFits, ReturnSound DEF Reraise
<1>6. CASE LeaveHandler
  BY <1>1, <1>6, PastBodyFits, ReturnSound DEF LeaveHandler
<1>7. QED
  BY <1>2, <1>3, <1>4, <1>5, <1>6 DEF Leave

LEMMA TransferSound ==
  ASSUME IInv, Transfer
  PROVE  IInv'
<1>1. CASE \E name \in Names : ReturnFrom(name)
  BY <1>1, ExitSound DEF ReturnFrom, Matches, Chain
<1>2. CASE ReturnNil
  BY <1>2, ExitSound DEF ReturnNil, Matches, Chain
<1>3. CASE \E tag \in CatchTags : Throw(tag)
  BY <1>3, ExitSound DEF Throw, Matches, Chain
<1>4. ASSUME NEW label \in Labels, Go(label)
      PROVE  IInv'
  <2>1. CASE NoHit(Enclosing)
    BY <2>1, NoHitSound
  <2>2. ASSUME NEW i \in FirstOf(Enclosing), UNCHANGED status,
               ResumeTagbody(i, "tagbody", label) \/ TagNotFound(i, label)
        PROVE  IInv'
    <3>1. i \in Live /\ status = "running" /\ label \in Tags /\ "tagbody" \in Kinds
      BY <1>4, <2>2 DEF Go, Established, Running, FirstOf, Enclosing, Chain, Tags, Kinds
    <3>2. CASE ResumeTagbody(i, "tagbody", label)
      BY <2>2, <3>1, <3>2, ResumeSound
    <3>3. CASE TagNotFound(i, label)
      BY <2>2, <3>1, <3>3, TagNotFoundSound
    <3>4. QED
      BY <2>2, <3>2, <3>3
  <2>3. QED
    BY <1>4, <2>1, <2>2 DEF Go
<1>5. CASE Error
  BY <1>5, CallErrorSound DEF Error
<1>6. QED
  BY <1>1, <1>2, <1>3, <1>4, <1>5 DEF Transfer

LEMMA LandSound ==
  ASSUME IInv, Land
  PROVE  IInv'
<1>1. CASE esc_top \in Live /\ LandAt(esc_top) /\ UNCHANGED status
  BY <1>1, LandAtSound DEF Land
<1>2. CASE esc_top = Dead /\ Fault
  BY <1>2, FaultSound DEF IInv, ChainSound, Innermost, TypeOK, Null, Dead
<1>3. CASE esc_top = Null /\ raise' = "none" /\ UNCHANGED <<frames, sp, esc_top, status>>
  BY <1>3 DEF IInv, TypeOK, Shape, ChainSound, FaultNeedsSkippingGo, Pointers, Live,
              Innermost, Linked, SkippedBelow
<1>4. QED
  BY <1>1, <1>2, <1>3 DEF Land

LEMMA StutterSound ==
  ASSUME IInv, UNCHANGED vars
  PROVE  IInv'
BY DEF vars, IInv, TypeOK, Shape, ChainSound, FaultNeedsSkippingGo, Pointers, Live,
       Innermost, Linked, SkippedBelow

(* Every reachable state satisfies the inductive invariant.                *)
THEOREM Invariance == Spec => []IInv
<1>1. IInv /\ [Next]_vars => IInv'
  BY EstablishSound, LeaveSound, TransferSound, LandSound, StutterSound DEF Next
<1>2. QED
  BY <1>1, InitSound, PTL DEF Spec

(* The variables keep their types; in particular L->esc_top never holds a  *)
(* pointer that is neither NULL, nor a live frame, nor one that died.      *)
THEOREM TypeCorrect == Spec => []TypeOK
<1>1. IInv => TypeOK
  BY DEF IInv
<1>2. QED
  BY <1>1, Invariance, PTL

(* The escape list is the linked live activations, innermost first, unless *)
(* a go has resumed a live tagbody from under nested frames.               *)
THEOREM ChainSoundness == Spec => []ChainSound
<1>1. IInv => ChainSound
  BY DEF IInv
<1>2. QED
  BY <1>1, Invariance, PTL

(* No dead escape frame is used without such a go.                         *)
THEOREM NoFaultWithoutSkip == Spec => []FaultNeedsSkippingGo
<1>1. IInv => FaultNeedsSkippingGo
  BY DEF IInv
<1>2. QED
  BY <1>1, Invariance, PTL

(* The top level always gets an empty list back.                           *)
THEOREM TopLevelRecovers == Spec => []TopLevelHeals
<1>1. IInv => TopLevelHeals
  BY DEF IInv, TopLevelHeals, ChainSound, Innermost, SkippedBelow
<1>2. QED
  BY <1>1, Invariance, PTL

(* In running Lisp code ls_error never returns to its caller.              *)
THEOREM ErrorNeverReturns == Spec => []ErrorFindsFrame
<1>1. IInv => ErrorFindsFrame
  <2> SUFFICES ASSUME IInv, esc_top = Null, sp # 0
               PROVE  FALSE
    BY DEF ErrorFindsFrame
  <2>1. 1 \in Live /\ sp > 0 /\ sp \in Nat
    BY DEF IInv, TypeOK, Live
  <2>2. Linked(1)
    BY <2>1 DEF IInv, Shape, Linked
  <2>3. QED
    BY <2>1, <2>2 DEF IInv, ChainSound, Innermost, Live, Null, Dead
<1>2. QED
  BY <1>1, Invariance, PTL

-----------------------------------------------------------------------------
(* Where a raise lands.                                                    *)
LEMMA LandsInnermost ==
  ASSUME IInv, Land, NEW i \in Live, frames[i].form = "protect", Linked(i)
  PROVE  i <= sp'
<1>1. sp \in Nat /\ i \in 1..sp
  BY DEF IInv, TypeOK, Live
<1>2. CASE esc_top \in Live /\ LandAt(esc_top)
  <2>1. esc_top \in 1..sp /\ i <= esc_top
    BY <1>1, <1>2 DEF IInv, ChainSound, Innermost, Live, Null, Dead
  <2>2. esc_top \in Int /\ Base(esc_top) \in Int
    BY <1>1, <2>1 DEF Base
  <2>3. sp' \in {esc_top, esc_top - 1, Base(esc_top) - 1}
    <3>1. CASE LandTop(esc_top) \/ LandExit(esc_top)
      BY <3>1 DEF LandTop, LandExit, Return
    <3>2. CASE LandProtect(esc_top) \/ LandHandler(esc_top)
      BY <3>2 DEF LandProtect, LandHandler, Unlink
    <3>3. CASE \E kind, tag : ResumeTagbody(esc_top, kind, tag) \/ TagNotFound(esc_top, tag)
      BY <3>3 DEF ResumeTagbody, TagNotFound, Return
    <3>4. QED
      BY <1>2, <3>1, <3>2, <3>3 DEF LandAt
  <2>4. CASE frames[esc_top].form = "protect"
    BY <1>2, <2>1, <2>4 DEF LandAt, LandTop, LandExit, LandProtect, LandHandler,
                            ResumeTagbody, TagNotFound, Unlink
  <2>5. CASE frames[esc_top].form = "prog"
    <3>1. frames[esc_top - 1].form = "block" /\ esc_top > 1
      BY <2>1, <2>5 DEF IInv, Shape, Live
    <3>2. i # esc_top /\ i # esc_top - 1
      BY <2>5, <3>1
    <3>3. sp' \in Int /\ sp' >= esc_top - 2
      BY <1>1, <2>1, <2>3, <2>2, <2>5 DEF Base
    <3>4. QED
      BY <1>1, <2>1, <2>2, <3>1, <3>2, <3>3
  <2>6. CASE frames[esc_top].form \notin {"protect", "prog"}
    <3>1. i # esc_top
      BY <2>6
    <3>2. sp' \in Int /\ sp' >= esc_top - 1
      BY <1>1, <2>1, <2>3, <2>2, <2>6 DEF Base
    <3>3. QED
      BY <1>1, <2>1, <2>2, <3>1, <3>2
  <2>7. QED
    BY <2>4, <2>5, <2>6
<1>3. CASE ~(esc_top \in Live /\ LandAt(esc_top))
  BY <1>1, <1>3 DEF Land, Fault
<1>4. QED
  BY <1>2, <1>3

(* No error and no re-raise skips the cleanup forms of an unwind-protect.  *)
THEOREM ErrorsRunCleanups == Spec => ErrorRunsCleanups
<1>1. IInv /\ [Next]_vars => [RaiseKeepsProtected]_vars
  <2> SUFFICES ASSUME IInv, Next, raise # "none"
               PROVE  \A i \in Live : frames[i].form = "protect" /\ Linked(i) => i <= sp'
    BY DEF RaiseKeepsProtected, KeepsProtected
  <2>1. Land
    BY DEF Next, Establish, EnterToplevel, EnterBlock, EnterLoop, EnterCatch,
           EnterTagbody, EnterProg, EnterUnwindProtect, EnterHandlerCase, Enter,
           Leave, LeaveBody, LeaveProtected, LeaveCleanup, Reraise, LeaveHandler,
           Transfer, ReturnFrom, ReturnNil, Throw, Go, Error, Established, Running
  <2>2. QED
    BY <2>1, LandsInnermost
<1>2. QED
  BY <1>1, Invariance, PTL DEF ErrorRunsCleanups, Spec

(* What each kind of step does to an activation that is past its body.     *)
Kept(i) == i <= sp' => frames'[i] = frames[i]

LEMMA ReturnKeeps ==
  ASSUME IInv, NEW k \in Live, NEW p, Return(k, p), NEW i \in Live
  PROVE  Kept(i)
BY DEF Return, Cut, Kept, IInv, TypeOK, Live

LEMMA UnlinkKeeps ==
  ASSUME IInv, NEW k \in Live, Linked(k), NEW phase, Unlink(k, phase),
         NEW i \in Live, ~Linked(i)
  PROVE  Kept(i)
BY DEF Unlink, Cut, Kept, IInv, TypeOK, Live

LEMMA ResumeKeeps ==
  ASSUME IInv, NEW k \in Live, NEW kind, NEW tag, ResumeTagbody(k, kind, tag),
         NEW i \in Live, ~Linked(i)
  PROVE  Kept(i)
<1>1. i # k
  BY DEF ResumeTagbody, IInv, Shape, Linked
<1>2. QED
  BY <1>1 DEF ResumeTagbody, Cut, Kept, IInv, TypeOK, Live

LEMMA LandAtKeeps ==
  ASSUME IInv, NEW k \in Live, Linked(k), LandAt(k), NEW i \in Live, ~Linked(i)
  PROVE  Kept(i)
<1>1. Base(k) \in Live
  BY BaseLive
<1>2. QED
  BY <1>1, ReturnKeeps, UnlinkKeeps, ResumeKeeps
     DEF LandAt, LandTop, LandExit, LandProtect, LandHandler, TagNotFound

LEMMA EnterKeeps ==
  ASSUME IInv, Establish, NEW i \in Live
  PROVE  Kept(i)
<1>1. sp \in Nat /\ i \in 1..sp
  BY DEF IInv, TypeOK, Live
<1>2. ASSUME NEW form, NEW kind, NEW tag, NEW labels, Enter(form, kind, tag, labels)
      PROVE  Kept(i)
  BY <1>1, <1>2 DEF Enter, Kept
<1>3. ASSUME NEW labels \in SUBSET Labels, EnterProg(labels)
      PROVE  Kept(i)
  BY <1>1, <1>3 DEF EnterProg, Kept
<1>4. QED
  BY <1>2, <1>3 DEF Establish, EnterToplevel, EnterBlock, EnterLoop, EnterCatch,
                    EnterTagbody, EnterUnwindProtect, EnterHandlerCase

(* A cleanup or a handler function is never entered a second time.         *)
THEOREM EnteredOnce == Spec => NoReentry
<1>1. IInv /\ [Next]_vars => [KeepsPastBody]_vars
  <2> SUFFICES ASSUME IInv, Next, NEW i \in Live, ~Linked(i)
               PROVE  Kept(i)
    BY DEF Kept, KeepsPastBody
  <2>1. CASE Establish
    BY <2>1, EnterKeeps
  <2>2. CASE Leave
    <3>1. sp \in Live /\ Base(sp) \in Live
      BY <2>2, BaseLive DEF IInv, TypeOK, Live, Leave, LeaveBody, LeaveProtected,
                            LeaveCleanup, Reraise, LeaveHandler, Established
    <3>2. QED
      BY <2>2, <3>1, ReturnKeeps, UnlinkKeeps
         DEF Leave, LeaveBody, LeaveProtected, LeaveCleanup, Reraise, LeaveHandler, Linked
  <2>3. CASE Transfer
    <3>1. ASSUME NEW hits, NoHit(hits)
          PROVE  Kept(i)
      BY <3>1 DEF NoHit, Fault, CallError, Kept
    <3>2. ASSUME NEW hits \in SUBSET Live, Exit(hits)
          PROVE  Kept(i)
      BY <3>1, <3>2, ReturnKeeps DEF Exit, FirstOf, LandExit
    <3>3. ASSUME NEW label \in Labels, Go(label)
          PROVE  Kept(i)
      <4>1. ASSUME NEW k \in FirstOf(Enclosing),
                   ResumeTagbody(k, "tagbody", label) \/ TagNotFound(k, label)
            PROVE  Kept(i)
        <5>1. k \in Live /\ Base(k) \in Live
          BY <4>1, BaseLive DEF FirstOf, Enclosing, Chain
        <5>2. QED
          BY <4>1, <5>1, ResumeKeeps, ReturnKeeps DEF TagNotFound
      <4>2. QED
        BY <3>1, <3>3, <4>1 DEF Go
    <3>4. QED
      BY <2>3, <3>1, <3>2, <3>3
         DEF Transfer, ReturnFrom, ReturnNil, Throw, Error, CallError, Matches, Chain, Kept
  <2>4. CASE Land
    <3>1. CASE esc_top \in Live /\ LandAt(esc_top)
      <4>1. Linked(esc_top)
        BY <3>1 DEF IInv, ChainSound, Innermost, TypeOK, Live, Null, Dead
      <4>2. QED
        BY <3>1, <4>1, LandAtKeeps
    <3>2. CASE ~(esc_top \in Live /\ LandAt(esc_top))
      BY <2>4, <3>2 DEF Land, Fault, Kept
    <3>3. QED
      BY <3>1, <3>2
  <2>5. QED
    BY <2>1, <2>2, <2>3, <2>4 DEF Next
<1>2. QED
  BY <1>1, Invariance, PTL DEF NoReentry, Spec

-----------------------------------------------------------------------------
(* Where a walk along the list leads.                                      *)
Step(p) == IF p \in Live THEN frames[p].next ELSE p

LEMMA WalkIs ==
  ASSUME TypeOK
  PROVE  Walk[0] = esc_top /\ \A k \in Nat : Walk[k + 1] = Step(Walk[k])
<1>1. /\ esc_top \in Int /\ Live \subseteq Int
      /\ \A p \in Int : Step(p) \in Int
  BY DEF TypeOK, Live, Pointers, Null, Dead, Frame, Step
<1> DEFINE m == [k \in Nat |-> k]
           next == [k \in Nat |-> k - 1]
           res == [k \in Nat |-> esc_top]
           g == [k \in Nat |-> [p \in Int |-> Step(p)]]
<1>2. /\ m \in [Nat -> Nat] /\ \A k \in Nat : m[k] = k
      /\ \A k \in Nat : next[k] = k - 1 /\ res[k] = esc_top
      /\ \A k \in Nat : \A p \in Int : g[k][p] = Step(p)
  OBVIOUS
<1> HIDE DEF m, next, res, g
<1>3. PICK Z : Z = Int
  OBVIOUS
<1>4. Descends(Nat, Z, m, {0}, next, res, g)
  <2>1. \A k \in Nat : k \in {0} => res[k] \in Z
    BY <1>1, <1>2, <1>3
  <2>2. \A k \in Nat : k \notin {0} =>
          next[k] \in Nat /\ m[next[k]] < m[k] /\ \A v \in Z : g[k][v] \in Z
    BY <1>1, <1>2, <1>3
  <2>3. QED
    BY <1>2, <2>1, <2>2 DEF Descends
<1>5. PICK f : f \in Solutions(Nat, Z, {0}, next, res, g)
  <2>1. 0 \in Z
    BY <1>3
  <2>2. Solutions(Nat, Z, {0}, next, res, g) # {}
    BY <1>4, <2>1, SolutionExists
  <2>3. QED
    BY <2>2
<1>6. f \in [Nat -> Int] /\ \A k \in Nat : f[k] = IF k = 0 THEN esc_top ELSE Step(f[k - 1])
  <2>1. f \in [Nat -> Int] /\ \A k \in Nat : f[k] = Unfolded({0}, next, res, g, f, k)
    BY <1>3, <1>5 DEF Solutions
  <2>2. ASSUME NEW k \in Nat PROVE f[k] = IF k = 0 THEN esc_top ELSE Step(f[k - 1])
    <3>1. CASE k = 0
      BY <1>2, <2>1, <3>1 DEF Unfolded
    <3>2. CASE k # 0
      <4>1. k - 1 \in Nat /\ f[k - 1] \in Int
        BY <2>1, <3>2
      <4>2. f[k] = g[k][f[k - 1]]
        BY <1>2, <2>1, <3>2 DEF Unfolded
      <4>3. QED
        BY <1>2, <3>2, <4>1, <4>2
    <3>3. QED
      BY <3>1, <3>2
  <2>3. QED
    BY <2>1, <2>2
<1>7. f = [k \in Nat |-> IF k = 0 THEN esc_top
                         ELSE IF f[k - 1] \in Live THEN frames[f[k - 1]].next ELSE f[k - 1]]
  BY <1>6 DEF Step
<1>8. Walk = [k \in Nat |-> IF k = 0 THEN esc_top
                            ELSE IF Walk[k - 1] \in Live THEN frames[Walk[k - 1]].next ELSE Walk[k - 1]]
  BY <1>7 DEF Walk
<1>9. ASSUME NEW k \in Nat PROVE Walk[k + 1] = Step(Walk[k])
  <2>1. k + 1 \in Nat /\ k + 1 # 0 /\ (k + 1) - 1 = k
    OBVIOUS
  <2>2. QED
    BY <1>8, <2>1 DEF Step
<1>10. QED
  BY <1>8, <1>9

(* A walk that comes to an activation further out has met each one on the  *)
(* way that is running its body.                                           *)
LEMMA WalkMeets ==
  ASSUME IInv, NEW j \in Live, Linked(j), NEW n \in Nat, Walk[n] \in Live, Walk[n] < j
  PROVE  \E k \in 0..n : Walk[k] = j
<1>1. sp \in Nat /\ j \in 1..sp /\ Dead \notin Live /\ Null \notin Live
  BY DEF IInv, TypeOK, Live, Dead, Null
<1>2. Walk[0] = esc_top /\ \A k \in Nat : Walk[k + 1] = Step(Walk[k])
  BY WalkIs DEF IInv
<1> DEFINE Met(k) == \E l \in 0..k : Walk[l] = j
           S == {k \in Nat : Met(k) \/ Walk[k] = Dead \/ (Walk[k] \in Live /\ Walk[k] > j)}
<1>3. 0 \in S
  <2>1. CASE esc_top = Dead
    BY <1>2, <2>1
  <2>2. CASE esc_top # Dead
    <3>1. Innermost(esc_top, sp)
      BY <2>2 DEF IInv, ChainSound
    <3>2. esc_top \in Live /\ esc_top >= j
      BY <1>1, <3>1 DEF Innermost, Live
    <3>3. esc_top = j \/ esc_top > j
      BY <1>1, <3>2 DEF Live
    <3>4. QED
      BY <1>2, <3>2, <3>3
  <2>3. QED
    BY <2>1, <2>2
<1>4. ASSUME NEW k \in Nat, k \in S PROVE k + 1 \in S
  <2>0. k + 1 \in Nat /\ k \in 0..k+1 /\ k + 1 \in 0..k+1 /\ 0..k \subseteq 0..k+1
    OBVIOUS
  <2>1. CASE Met(k)
    BY <2>0, <2>1
  <2>2. CASE Walk[k] = Dead
    BY <1>1, <1>2, <2>0, <2>2 DEF Step
  <2>3. CASE Walk[k] \in Live /\ Walk[k] > j
    <3>1. PICK p : p = Walk[k]
      OBVIOUS
    <3>2. p \in 1..sp /\ p > j /\ Walk[k + 1] = frames[p].next
      BY <1>2, <2>3, <3>1 DEF Step, Live
    <3>3. PICK q : q = frames[p].next
      OBVIOUS
    <3>4. Innermost(q, p - 1) \/ q = Dead
      BY <3>2, <3>3 DEF IInv, ChainSound, Live
    <3>5. CASE q = Dead
      BY <2>0, <3>2, <3>3, <3>5
    <3>6. CASE Innermost(q, p - 1)
      <4>1. q \in 1..p-1 /\ q >= j
        BY <1>1, <3>2, <3>6 DEF Innermost
      <4>2. q \in Live /\ (q = j \/ q > j)
        BY <1>1, <3>2, <4>1 DEF Live
      <4>3. QED
        BY <2>0, <3>2, <3>3, <4>2
    <3>7. QED
      BY <3>4, <3>5, <3>6
  <2>4. QED
    BY <1>4, <2>1, <2>2, <2>3
<1>5. Nat \subseteq S
  <2> HIDE DEF S
  <2>1. QED
    BY <1>3, <1>4, SetInduction
<1>6. n \in S
  BY <1>5
<1>7. ~(Walk[n] > j) /\ Walk[n] # Dead
  BY <1>1 DEF Live
<1>8. QED
  BY <1>6, <1>7

LEMMA LeavesInnermost ==
  ASSUME IInv, NEW kind, NEW tag, Exit(Matches(kind, tag)), Established
  PROVE  Leaves(kind, tag)
<1>1. SUFFICES ASSUME raise' = "none", status' = "running",
                      NEW j \in (sp' + 2)..sp, Linked(j), frames[j].kind = kind, frames[j].tag = tag
               PROVE  FALSE
  BY DEF Leaves
<1>2. sp \in Nat
  BY DEF IInv, TypeOK
<1>3. PICK i \in FirstOf(Matches(kind, tag)) : LandExit(i)
  BY <1>1 DEF Exit, NoHit, Fault, CallError
<1>4. i \in Live /\ i \in Chain /\ sp' = i - 1 /\ \A l \in Matches(kind, tag) : l <= i
  BY <1>3 DEF FirstOf, Matches, Chain, LandExit, Return
<1>5. i \in 1..sp /\ j \in i+1..sp /\ j \in Live /\ i < j
  BY <1>1, <1>2, <1>4 DEF Live
<1>6. PICK n \in 0..MaxDepth : i = Walk[n]
  BY <1>4 DEF Chain
<1>7. PICK k \in 0..n : Walk[k] = j
  BY <1>1, <1>4, <1>5, <1>6, DepthAssumption, WalkMeets
<1>8. j \in Chain
  BY <1>5, <1>6, <1>7, DepthAssumption DEF Chain
<1>9. j \in Matches(kind, tag)
  BY <1>1, <1>8 DEF Matches
<1>10. QED
  BY <1>2, <1>4, <1>5, <1>9

(* return-from, return and throw leave by the innermost construct of that  *)
(* kind and tag that is running its body, however deep the stack and       *)
(* whatever happened before (the walks of eval_return_from, eval_return    *)
(* and eval_throw).                                                        *)
THEOREM ExitsAreInnermost == Spec => ExitsInnermost
<1>1. IInv => /\ \A name \in Names : ReturnFrom(name) => Leaves("block", name)
              /\ ReturnNil => Leaves("block", Nil)
              /\ \A tag \in CatchTags : Throw(tag) => Leaves("catch", tag)
  BY LeavesInnermost DEF ReturnFrom, ReturnNil, Throw
<1>2. QED
  BY <1>1, Invariance, PTL DEF ExitsInnermost
=============================================================================
