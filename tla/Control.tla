------------------------------ MODULE Control -------------------------------
(***************************************************************************)
(* Non-local control flow of the tree-walking evaluator.                   *)
(*                                                                         *)
(* block, catch, tagbody, prog, the do loops, unwind-protect, handler-case *)
(* and the top-level drivers each keep an ls_escape_t in their own C stack *)
(* frame and link it on L->esc_top.  return-from, return, throw, go and    *)
(* ls_error walk or take that list and longjmp.  A longjmp cuts the C      *)
(* stack; it does not touch the list: every landing site repairs           *)
(* L->esc_top itself, or fails to.                                         *)
(*                                                                         *)
(* The model keeps the C stack (only the activations that own an escape    *)
(* frame) and the list threaded through it, with real pointer values: a    *)
(* pointer to an activation that longjmp has cut off is Dead, and using it *)
(* is undefined behaviour, after which nothing is promised.  The program   *)
(* being run is arbitrary: at every moment the running form may establish  *)
(* any construct, return normally, or attempt any transfer.                *)
(***************************************************************************)
EXTENDS Integers

CONSTANTS
  Names,      \* names of named blocks
  CatchTags,  \* values catch and throw are given, compared with EQL
  Labels,     \* tags go is given and tagbodies contain
  Nil,        \* the Lisp value NIL
  MaxDepth    \* bound: activations on the C stack at once

ASSUME DepthAssumption == MaxDepth \in Nat \ {0}
ASSUME NilAssumption == Nil \notin Names \cup CatchTags \cup Labels

VARIABLES
  frames,     \* the live activations, oldest first
  sp,         \* how many there are
  esc_top,    \* L->esc_top
  raise,      \* a longjmp to esc_top under way: "none", "error" or "reraise"
  status      \* "running", or "undefined" once a dead frame was used

vars == <<frames, sp, esc_top, raise, status>>

Null == 0     \* the end of the list
Dead == -1    \* a pointer to an escape frame whose activation is gone

Forms == {"toplevel", "block", "catch", "tagbody", "prog", "protect", "handler"}

(* ls_escape_t.kind: 0, 1, 2, 3 and 99                                     *)
Kinds == {"block", "catch", "condition", "tagbody", "sentinel"}

(* What an activation is doing: its body, with its frame linked; the       *)
(* cleanup forms after a normal exit; the cleanup forms after a longjmp;   *)
(* the handler function of a handler-case that caught.                     *)
Phases == {"body", "cleanup", "unwinding", "handling"}

Tags == Names \cup CatchTags \cup Labels \cup {Nil}

Frame == [form : Forms, kind : Kinds, tag : Tags, labels : SUBSET Labels,
          phase : Phases, next : Int, skipped : BOOLEAN]

Live == 1..sp

Running == status = "running" /\ raise = "none"

-----------------------------------------------------------------------------
(* The C stack.                                                            *)

(* The first n activations, all a longjmp into the n-th leaves.            *)
Cut(n) == [i \in 1..n |-> frames[i]]

(* Slip: the pointer is used as it is, dead or not.                        *)
DerefRaw(p, n) == p

(* What a pointer is worth once only n activations are left.               *)
Deref(p, n) == IF p \in 0..n THEN p ELSE Dead

(* memset, kind, tag, next = L->esc_top, L->esc_top = &e, setjmp = 0.  The *)
(* labels of a tagbody are in its body, not in the escape frame; skipped   *)
(* is history: a go resumed this tagbody from under nested escape frames.  *)
Escape(form, kind, tag, labels) ==
  [form |-> form, kind |-> kind, tag |-> tag, labels |-> labels,
   phase |-> "body", next |-> esc_top, skipped |-> FALSE]

Enter(form, kind, tag, labels) ==
  /\ Running
  /\ sp < MaxDepth
  /\ frames' = [i \in 1..(sp + 1) |->
                  IF i = sp + 1 THEN Escape(form, kind, tag, labels)
                                ELSE frames[i]]
  /\ sp' = sp + 1
  /\ esc_top' = sp + 1
  /\ UNCHANGED <<raise, status>>

(* The activation i returns to its caller and L->esc_top becomes p.        *)
Return(i, p) ==
  /\ frames' = Cut(i - 1)
  /\ sp' = i - 1
  /\ esc_top' = p

(* Slip: the whole list is dropped, not just the frame that was reached.   *)
UnlinkAll(i, phase) ==
  /\ frames' = [Cut(i) EXCEPT ![i].phase = phase]
  /\ sp' = i
  /\ esc_top' = Null

(* L->esc_top = e.next, then more of activation i's own code runs.         *)
Unlink(i, phase) ==
  /\ frames' = [Cut(i) EXCEPT ![i].phase = phase]
  /\ sp' = i
  /\ esc_top' = frames[i].next

(* prog owns two escape frames: its block, then its tagbody, at i.         *)
Base(i) == IF frames[i].form = "prog" THEN i - 1 ELSE i

-----------------------------------------------------------------------------
(* Establishing a construct.                                               *)

Established == sp > 0 /\ Running

EnterToplevel == Enter("toplevel", "sentinel", Nil, {})

EnterBlock(name) ==
  Established /\ Enter("block", "block", name, {})

(* do, do*, dotimes and dolist run in a block named NIL.                   *)
EnterLoop == Established /\ Enter("block", "block", Nil, {})

EnterCatch(tag) == Established /\ Enter("catch", "catch", tag, {})

EnterTagbody(labels) ==
  Established /\ Enter("tagbody", "tagbody", Nil, labels)

EnterProg(labels) ==
  /\ Established
  /\ sp + 1 < MaxDepth
  /\ frames' = [i \in 1..(sp + 2) |->
       CASE i = sp + 1 -> Escape("block", "block", Nil, {})
         [] i = sp + 2 -> [Escape("prog", "tagbody", Nil, labels)
                             EXCEPT !.next = sp + 1]
         [] OTHER      -> frames[i]]
  /\ sp' = sp + 2
  /\ esc_top' = sp + 2
  /\ UNCHANGED <<raise, status>>

EnterUnwindProtect == Established /\ Enter("protect", "sentinel", Nil, {})

(* %handler-case, and %handler-bind which unwinds in the same way.         *)
EnterHandlerCase == Established /\ Enter("handler", "condition", Nil, {})

-----------------------------------------------------------------------------
(* Leaving it normally.                                                    *)

LeaveBody ==
  /\ Established
  /\ frames[sp].phase = "body"
  /\ frames[sp].form # "protect"
  /\ Return(Base(sp), frames[Base(sp)].next)
  /\ UNCHANGED <<raise, status>>

(* Slip: unlink the frame of unwind-protect only after its cleanup forms.  *)
LeaveProtectedLate ==
  /\ Established
  /\ frames[sp].phase = "body"
  /\ frames[sp].form = "protect"
  /\ frames' = [frames EXCEPT ![sp].phase = "cleanup"]
  /\ UNCHANGED <<sp, esc_top, raise, status>>

LeaveProtected ==
  /\ Established
  /\ frames[sp].phase = "body"
  /\ frames[sp].form = "protect"
  /\ Unlink(sp, "cleanup")
  /\ UNCHANGED <<raise, status>>

LeaveCleanup ==
  /\ Established
  /\ frames[sp].phase = "cleanup"
  /\ Return(sp, esc_top)
  /\ UNCHANGED <<raise, status>>

(* After a longjmp the cleanup ends by jumping to the next escape frame.   *)
Reraise ==
  /\ Established
  /\ frames[sp].phase = "unwinding"
  /\ Return(sp, esc_top)
  /\ raise' = "reraise"
  /\ UNCHANGED status

LeaveHandler ==
  /\ Established
  /\ frames[sp].phase = "handling"
  /\ Return(sp, esc_top)
  /\ UNCHANGED <<raise, status>>

-----------------------------------------------------------------------------
(* Landing: what the code after setjmp does when it returns non-zero.      *)

(* Slip: the top-level catcher returns without unlinking its frame.        *)
LandTopLinked(i) ==
  /\ frames[i].form = "toplevel"
  /\ Return(i, Deref(i, i - 1))
  /\ raise' = "none"

LandTop(i) ==
  /\ frames[i].form = "toplevel"
  /\ Return(i, frames[i].next)
  /\ raise' = "none"

(* Slip: a block reached by longjmp returns without unlinking its frame.   *)
LandExitLinked(i) ==
  /\ frames[i].form \in {"block", "catch"}
  /\ Return(i, Deref(esc_top, i - 1))
  /\ raise' = "none"

LandExit(i) ==
  /\ frames[i].form \in {"block", "catch"}
  /\ Return(i, frames[i].next)
  /\ raise' = "none"

LandProtect(i) ==
  /\ frames[i].form = "protect"
  /\ Unlink(i, "unwinding")
  /\ raise' = "none"

LandHandler(i) ==
  /\ frames[i].form = "handler"
  /\ Unlink(i, "handling")
  /\ raise' = "none"

(* esc.tag is among the tags of the body: continue after it.  L->esc_top   *)
(* is left as the jump found it.                                           *)
ResumeTagbody(i, kind, tag) ==
  /\ frames[i].form \in {"tagbody", "prog"}
  /\ tag \in frames[i].labels
  /\ frames' = [Cut(i) EXCEPT ![i].kind = kind, ![i].tag = tag,
                              ![i].skipped = IF esc_top = i THEN @ ELSE TRUE]
  /\ sp' = i
  /\ esc_top' = Deref(esc_top, i)
  /\ raise' = "none"

(* Slip: report the missing tag with the tagbody's own frame still linked. *)
TagNotFoundLinked(i, tag) ==
  /\ frames[i].form \in {"tagbody", "prog"}
  /\ tag \notin frames[i].labels
  /\ raise' = "error"
  /\ frames' = Cut(i)
  /\ sp' = i
  /\ esc_top' = i

(* It is not: leave the construct and call ls_error.                       *)
TagNotFound(i, tag) ==
  /\ frames[i].form \in {"tagbody", "prog"}
  /\ tag \notin frames[i].labels
  /\ Return(Base(i), frames[Base(i)].next)
  /\ raise' = "error"

(* ls_error sets kind = 2 in the frame it jumps to; the re-raise of        *)
(* unwind-protect leaves the frame as it is.                               *)
RaisedKind(i) == IF raise = "error" THEN "condition" ELSE frames[i].kind

LandAt(i) ==
  \/ LandTop(i)
  \/ LandExit(i)
  \/ LandProtect(i)
  \/ LandHandler(i)
  \/ ResumeTagbody(i, RaisedKind(i), frames[i].tag)
  \/ TagNotFound(i, frames[i].tag)

Fault ==
  /\ status' = "undefined"
  /\ UNCHANGED <<frames, sp, esc_top, raise>>

(* Slip: jump to the outermost frame, as the comment in ls_error has it.   *)
LandOutermost ==
  /\ status = "running"
  /\ raise # "none"
  /\ IF sp > 0 THEN LandAt(1) /\ UNCHANGED status
               ELSE raise' = "none" /\ UNCHANGED <<frames, sp, esc_top, status>>

(* The rest of ls_error (and of the re-raise): jump to *L->esc_top.        *)
Land ==
  /\ status = "running"
  /\ raise # "none"
  /\ \/ esc_top \in Live /\ LandAt(esc_top) /\ UNCHANGED status
     \/ esc_top = Dead /\ Fault
     \/ /\ esc_top = Null
        /\ raise' = "none"
        /\ UNCHANGED <<frames, sp, esc_top, status>>

-----------------------------------------------------------------------------
(* Transfers.                                                              *)

Pointers == {Dead, Null} \cup Live

(* The k-th pointer met when walking the list from L->esc_top.             *)
Walk[k \in Nat] ==
  IF k = 0 THEN esc_top
  ELSE LET p == Walk[k - 1] IN IF p \in Live THEN frames[p].next ELSE p

Chain == {Walk[k] : k \in 0..MaxDepth} \cap Live

RunsIntoDead == esc_top = Dead \/ \E i \in Chain : frames[i].next = Dead

Matches(kind, tag) ==
  {i \in Chain : frames[i].kind = kind /\ frames[i].tag = tag}

Enclosing == {i \in Chain : frames[i].kind = "tagbody"}

(* Slip: keep looking after a hit, and take the outermost one.             *)
LastOf(hits) == {i \in hits : \A j \in hits : i <= j}

(* The walk stops at its first hit: next pointers lead outwards.           *)
FirstOf(hits) == {i \in hits : \A j \in hits : j <= i}

(* ls_error: everything up to the longjmp.                                 *)
CallError ==
  /\ raise' = "error"
  /\ UNCHANGED <<frames, sp, esc_top, status>>

(* No hit: the walk ends at Null, and an error, or in a dead frame.        *)
NoHit(hits) ==
  /\ hits = {}
  /\ IF RunsIntoDead THEN Fault ELSE CallError

Exit(hits) ==
  \/ \E i \in FirstOf(hits) : LandExit(i) /\ UNCHANGED status
  \/ NoHit(hits)

ReturnFrom(name) == Established /\ Exit(Matches("block", name))

(* The loop of return-from only looks at symbol tags, so NIL blocks are    *)
(* reached by return alone.                                                *)
ReturnNil == Established /\ Exit(Matches("block", Nil))

Throw(tag) == Established /\ Exit(Matches("catch", tag))

(* go takes the innermost tagbody, whether or not it has the tag.          *)
Go(label) ==
  /\ Established
  /\ \/ \E i \in FirstOf(Enclosing) :
          /\ \/ ResumeTagbody(i, "tagbody", label)
             \/ TagNotFound(i, label)
          /\ UNCHANGED status
     \/ NoHit(Enclosing)

(* Any error: in running Lisp code, or in the host before a line is read   *)
(* (a file that cannot be opened), where no escape frame exists.           *)
Error == Running /\ CallError

-----------------------------------------------------------------------------
Init ==
  /\ frames = [i \in 1..0 |-> Nil]
  /\ sp = 0
  /\ esc_top = Null
  /\ raise = "none"
  /\ status = "running"

Establish ==
  \/ EnterToplevel
  \/ \E name \in Names : EnterBlock(name)
  \/ EnterLoop
  \/ \E tag \in CatchTags : EnterCatch(tag)
  \/ \E labels \in SUBSET Labels : EnterTagbody(labels) \/ EnterProg(labels)
  \/ EnterUnwindProtect
  \/ EnterHandlerCase

Leave == LeaveBody \/ LeaveProtected \/ LeaveCleanup \/ Reraise \/ LeaveHandler

Transfer ==
  \/ \E name \in Names : ReturnFrom(name)
  \/ ReturnNil
  \/ \E tag \in CatchTags : Throw(tag)
  \/ \E label \in Labels : Go(label)
  \/ Error

Next == Establish \/ Leave \/ Transfer \/ Land

Spec == Init /\ [][Next]_vars

(* ls_error and the landing code are straight-line C: once a jump is under *)
(* way nothing else can run before it lands.                               *)
FairSpec == Spec /\ WF_vars(Land)
-----------------------------------------------------------------------------
(* Properties.                                                             *)

Linked(i) == frames[i].phase = "body"

(* p is the innermost linked frame among the first n activations.          *)
Innermost(p, n) ==
  \/ p \in 1..n /\ Linked(p) /\ \A j \in (p + 1)..n : ~Linked(j)
  \/ p = Null /\ \A j \in 1..n : ~Linked(j)

SkippedBelow(n) == \E i \in 1..n : frames[i].skipped

TypeOK ==
  /\ sp \in 0..MaxDepth
  /\ frames \in [1..sp -> Frame]
  /\ esc_top \in Pointers
  /\ raise \in {"none", "error", "reraise"}
  /\ status \in {"running", "undefined"}

(* The list hanging from L->esc_top is exactly the live activations that   *)
(* are still running their body, innermost first: no longjmp, normal exit, *)
(* cleanup or handler leaves it too long or too short.  The one exception  *)
(* the code has is a tagbody resumed by a go from under nested escape      *)
(* frames (eval_tagbody does not reset L->esc_top): as long as such a      *)
(* tagbody is live, the list may start or go on in a dead frame.           *)
ChainSound ==
  /\ \/ Innermost(esc_top, sp)
     \/ esc_top = Dead /\ SkippedBelow(sp)
  /\ \A i \in Live :
       \/ Innermost(frames[i].next, i - 1)
       \/ frames[i].next = Dead /\ SkippedBelow(i - 1)

(* A dead escape frame is never read, written or jumped to unless such a   *)
(* tagbody is live: every other mix of exits, errors, cleanups and nested  *)
(* loads is free of it.                                                    *)
FaultNeedsSkippingGo == status = "undefined" => SkippedBelow(sp)

(* When the last activation is gone (the REPL waits for a line, a host     *)
(* call has returned) the list is empty, whatever a line did to it.        *)
TopLevelHeals == sp = 0 => esc_top = Null

(* ls_error and the re-raise find a frame to jump to whenever Lisp code is *)
(* running: ls_error returns to its caller only in the idle host.          *)
ErrorFindsFrame == raise # "none" /\ esc_top = Null => sp = 0

(* An error passes no unwind-protect whose protected form is running       *)
(* without starting its cleanup forms.                                     *)
KeepsProtected ==
  \A i \in Live : frames[i].form = "protect" /\ Linked(i) => i <= sp'

RaiseKeepsProtected == raise # "none" => KeepsProtected

ErrorRunsCleanups == [][RaiseKeepsProtected]_vars

(* Cleanup forms and handler functions are entered once: whatever happens  *)
(* inside them, no jump comes back to the activation that runs them.       *)
KeepsPastBody ==
  \A i \in Live : ~Linked(i) /\ i <= sp' => frames'[i] = frames[i]

NoReentry == [][KeepsPastBody]_vars

(* return-from, return and throw leave by the innermost matching construct *)
(* still running its body, also when the list above it was repaired by an  *)
(* earlier jump.                                                           *)
Leaves(kind, tag) ==
  raise' = "none" /\ status' = "running" =>
    \A j \in (sp' + 2)..sp :
      ~(Linked(j) /\ frames[j].kind = kind /\ frames[j].tag = tag)

ExitsInnermost ==
  [][/\ \A name \in Names : ReturnFrom(name) => Leaves("block", name)
     /\ ReturnNil => Leaves("block", Nil)
     /\ \A tag \in CatchTags : Throw(tag) => Leaves("catch", tag)]_vars

(* A jump once begun arrives: the errors a landing site itself raises      *)
(* (a tagbody that does not have the tag) cannot chase each other forever. *)
RaiseLands == raise # "none" ~> (raise = "none" \/ status = "undefined")

(* What the comment of eval_unwind_protect says: if the protected form     *)
(* exits non-locally, the cleanup forms still run.  Not so for throw,      *)
(* return-from, return and go.                                             *)
CleanupAlwaysRuns == [][KeepsProtected]_vars

(* What the comment of %handler-case says: if the body thunk errors, the   *)
(* error is caught and the handler function is called.  An error that      *)
(* lands while a handler-case is running its body must reach a handler, or *)
(* a cleanup or a nested load's own catcher on the way.                    *)
HandlerCatchesErrors ==
  [][raise = "error" /\ raise' = "none" =>
       ~ \E i \in Live :
           /\ frames[i].form = "handler" /\ Linked(i)
           /\ \A j \in (i + 1)..sp : frames[j].form # "toplevel"
           /\ i <= sp' /\ frames'[i] = frames[i]
           /\ frames'[sp'].phase # "unwinding"]_vars
=============================================================================
