--------------------------- MODULE GenericsProofs ---------------------------
(***************************************************************************)
(* The stack of call-next-method contexts of Generics is sound for every   *)
(* program: any classes, methods and argument lists, calls as deep and     *)
(* exits as many as there may be, and any size of the stack.               *)
(***************************************************************************)
EXTENDS ClassesProofs, FiniteSetTheorems

(* What a dispatch has in its fields beyond this plays no part.            *)
FramesOK ==
  /\ IsSeq(calls)
  /\ \A i \in DOMAIN calls :
       /\ calls[i].kind \in {"dispatch", "method", "catch"}
       /\ calls[i].kind = "method" => i > 1
       /\ calls[i].kind = "dispatch" =>
            {"kind", "main", "next", "open"} \subseteq DOMAIN calls[i] /\ calls[i].next \in Nat

ContextsOK ==
  /\ IsSeq(cnm_stack)
  /\ \A k \in DOMAIN cnm_stack :
       /\ {"frame", "live", "current"} \subseteq DOMAIN cnm_stack[k]
       /\ cnm_stack[k].frame \in Nat
       /\ cnm_stack[k].live \in BOOLEAN

(* The dispatch has come to the method that gets a context.                *)
Pushed(d) == calls[d].main \in 0..calls[d].next-1

(* An open dispatch runs a method, until that method returns to it.        *)
OpenRuns == \A i \in Opens : i + 1 \in DOMAIN calls /\ calls[i + 1].kind = "method"

(* A context that is not stale belongs to a dispatch still on the C stack. *)
Owned ==
  \A k \in LiveContexts :
    LET d == cnm_stack[k].frame
    IN  d \in DOMAIN calls /\ calls[d].kind = "dispatch" /\ Pushed(d)

EachOpenHasOne == \A i \in Opens : \E k \in LiveContexts : cnm_stack[k].frame = i

InOrder == \A i, j \in LiveContexts : i < j => cnm_stack[i].frame < cnm_stack[j].frame

(* Before an exit has cut anything off, no context is left over, and       *)
OnlyOpen ==
  ~cut => /\ ~broken
          /\ \A k \in DOMAIN cnm_stack : k \in LiveContexts /\ cnm_stack[k].frame \in Opens

(* a dispatch still finds the room that it checked for.                    *)
Room ==
  ~cut => \A d \in DOMAIN calls : calls[d].kind = "dispatch" /\ ~Pushed(d) =>
            /\ 1 <= CNM_STACK_MAX
            /\ \A k \in DOMAIN cnm_stack : cnm_stack[k].frame < d => k < CNM_STACK_MAX

IInv ==
  /\ FramesOK /\ ContextsOK /\ OpenRuns /\ Owned /\ EachOpenHasOne /\ InOrder /\ OnlyOpen /\ Room

-----------------------------------------------------------------------------
LEMMA LandingRange ==
  ASSUME FramesOK
  PROVE  /\ Landing \in 0..Len(calls)
         /\ Landing < Len(calls) \/ calls = <<>>
         /\ Landing > 0 => Landing + 1 \in DOMAIN calls /\ calls[Landing + 1].kind = "catch"
<1>1. Len(calls) \in Nat /\ DOMAIN calls = 1..Len(calls) /\ (calls = <<>> <=> Len(calls) = 0)
  BY Shape DEF FramesOK
<1>2. CASE CatchAt = {}
  BY <1>1, <1>2 DEF Landing
<1>3. CASE CatchAt # {}
  <2> DEFINE c == CHOOSE i \in CatchAt : \A j \in CatchAt : j <= i
  <2>1. CatchAt \subseteq 1..Len(calls)
    BY <1>1 DEF CatchAt
  <2>2. \E i \in CatchAt : \A j \in CatchAt : j <= i
    <3>1. CatchAt \subseteq Nat /\ \A y \in CatchAt : y <= Len(calls)
      BY <1>1, <2>1
    <3>2. QED
      BY <1>1, <1>3, <3>1, Greatest
  <2>3. c \in CatchAt
    BY <2>2
  <2>4. Landing = c - 1
    BY <1>3 DEF Landing
  <2>5. c \in 1..Len(calls) /\ calls[c].kind = "catch"
    BY <1>1, <2>3 DEF CatchAt
  <2> HIDE DEF c
  <2>6. QED
    BY <1>1, <2>4, <2>5
<1>4. QED
  BY <1>2, <1>3

-----------------------------------------------------------------------------
(* What each step does to frames and contexts.                             *)

(* The invariant as facts for the provers.                                 *)
LEMMA Facts ==
  ASSUME IInv
  PROVE  /\ Len(calls) \in Nat /\ DOMAIN calls = 1..Len(calls) /\ (calls = <<>> <=> Len(calls) = 0)
         /\ Len(cnm_stack) \in Nat /\ DOMAIN cnm_stack = 1..Len(cnm_stack)
         /\ (cnm_stack = <<>> <=> Len(cnm_stack) = 0)
         /\ Opens \subseteq 1..Len(calls)
         /\ LiveContexts \subseteq 1..Len(cnm_stack)
BY Shape DEF IInv, FramesOK, ContextsOK, Opens, LiveContexts

LEMMA Initially == Init => IInv
<1> SUFFICES ASSUME Init PROVE IInv
  OBVIOUS
<1>1. calls = <<>> /\ cnm_stack = <<>> /\ broken = FALSE
  BY DEF Init
<1>2. IsSeq(<<>>)
  BY DEF IsSeq
<1>3. QED
  BY <1>1, <1>2 DEF IInv, FramesOK, ContextsOK, OpenRuns, Owned, EachOpenHasOne, InOrder, OnlyOpen,
     Room, Opens, LiveContexts

LEMMA SameStep ==
  ASSUME IInv, UNCHANGED <<calls, cnm_stack, cut, broken>>
  PROVE  IInv'
BY DEF IInv, FramesOK, ContextsOK, OpenRuns, Owned, EachOpenHasOne, InOrder, OnlyOpen,
     Room, Opens, Open, LiveContexts, Pushed

LEMMA OverrunsStep ==
  ASSUME IInv, ProceedOverruns
  PROVE  IInv'
<1>1. Len(calls) \in Nat /\ DOMAIN calls = 1..Len(calls) /\ calls # <<>>
  BY Facts DEF ProceedOverruns, Code
<1>2. calls[Len(calls)].kind = "dispatch" /\ ~Pushed(Len(calls))
  BY <1>1 DEF ProceedOverruns, Code, Top, Pushed, IInv, FramesOK
<1>3. CASE ~cut
  <2>1. \A k \in DOMAIN cnm_stack : cnm_stack[k].frame \in Opens
    BY <1>3 DEF IInv, OnlyOpen
  <2>2. \A i \in Opens : i < Len(calls)
    BY <1>1, Facts DEF IInv, OpenRuns
  <2>3. 1 <= CNM_STACK_MAX /\ \A k \in DOMAIN cnm_stack : k < CNM_STACK_MAX
    BY <1>1, <1>2, <1>3, <2>1, <2>2 DEF IInv, Room
  <2>4. Len(cnm_stack) < CNM_STACK_MAX
    BY <2>3, Facts, BoundsAssumption
  <2>5. QED
    BY <2>4, Facts, BoundsAssumption DEF ProceedOverruns
<1>4. CASE cut
  BY <1>4 DEF ProceedOverruns, IInv, FramesOK, ContextsOK, OpenRuns, Owned, EachOpenHasOne, InOrder, OnlyOpen,
     Room, Opens, Open, LiveContexts, Pushed
<1>5. QED
  BY <1>3, <1>4

(* A frame is pushed by user code; a context keeps its frame and life.     *)
LEMMA PushStep ==
  ASSUME IInv, User, NEW frame, Push(frame),
         frame.kind \in {"dispatch", "method", "catch"},
         frame.kind = "method" => calls # <<>>,
         frame.kind = "dispatch" =>
           /\ {"kind", "main", "next", "open"} \subseteq DOMAIN frame
           /\ frame.next \in Nat /\ frame.open = FALSE
           /\ Len(cnm_stack) < CNM_STACK_MAX,
         UNCHANGED <<cut, broken>>,
         ContextsOK', DOMAIN cnm_stack' = DOMAIN cnm_stack, LiveContexts' = LiveContexts,
         \A k \in DOMAIN cnm_stack : cnm_stack'[k].frame = cnm_stack[k].frame
  PROVE  IInv'
<1> DEFINE n == Len(calls)
<1>1. /\ n \in Nat /\ DOMAIN calls = 1..n
      /\ Len(cnm_stack) \in Nat /\ DOMAIN cnm_stack = 1..Len(cnm_stack)
  BY Facts
<1>2. /\ IsSeq(calls') /\ Len(calls') = n + 1 /\ calls'[n + 1] = frame
      /\ \A i \in 1..n : calls'[i] = calls[i]
  BY Appended DEF Push, IInv, FramesOK
<1>3. DOMAIN calls' = 1..n+1
  BY <1>1, <1>2, Shape
<1>4. Opens' = Opens
  BY <1>1, <1>2, <1>3 DEF Opens, Open
<1>6. n \notin Opens
  BY <1>1, Facts DEF IInv, OpenRuns
<1>7. \A d \in 1..n : Pushed(d)' <=> Pushed(d)
  BY <1>2 DEF Pushed
<1>8. FramesOK'
  BY <1>1, <1>2, <1>3, Facts DEF IInv, FramesOK
<1>10. OpenRuns'
  BY <1>1, <1>2, <1>3, <1>4, <1>6, Facts DEF IInv, OpenRuns
<1>11. Owned'
  BY <1>1, <1>2, <1>3, <1>7, Facts DEF IInv, Owned
<1>12. EachOpenHasOne'
  BY <1>1, <1>4, Facts DEF IInv, EachOpenHasOne
<1>13. InOrder'
  BY <1>1, Facts DEF IInv, InOrder
<1>14. OnlyOpen'
  BY <1>3, <1>4 DEF IInv, OnlyOpen
<1>15. Room'
  <2> SUFFICES ASSUME ~cut, NEW d \in 1..n+1, calls'[d].kind = "dispatch", ~Pushed(d)'
               PROVE  /\ 1 <= CNM_STACK_MAX
                      /\ \A k \in DOMAIN cnm_stack : cnm_stack[k].frame < d => k < CNM_STACK_MAX
    BY <1>3 DEF Room
  <2>1. CASE d \in 1..n
    BY <1>1, <1>2, <1>7, <2>1 DEF IInv, Room
  <2>2. CASE d = n + 1
    BY <1>1, <1>2, <2>2, BoundsAssumption
  <2>3. QED
    BY <1>1, <2>1, <2>2
<1>16. QED
  BY <1>8, <1>10, <1>11, <1>12, <1>13, <1>14, <1>15 DEF IInv

(* Contexts after the frames above height are gone.                        *)
LEMMA Outliving ==
  ASSUME IInv, NEW h \in Nat, cnm_stack' = Outlive(h)
  PROVE  /\ ContextsOK' /\ DOMAIN cnm_stack' = DOMAIN cnm_stack
         /\ LiveContexts' = {k \in LiveContexts : cnm_stack[k].frame <= h}
         /\ \A k \in DOMAIN cnm_stack : cnm_stack'[k].frame = cnm_stack[k].frame
<1>1. Len(cnm_stack) \in Nat /\ DOMAIN cnm_stack = 1..Len(cnm_stack)
  BY Facts
<1> DEFINE S == {[cnm_stack[k] EXCEPT !.live = @ /\ cnm_stack[k].frame <= h] : k \in DOMAIN cnm_stack}
<1>2. cnm_stack' \in [1..Len(cnm_stack) -> S]
  BY <1>1 DEF Outlive
<1>3. cnm_stack' \in Seq(S)
  BY <1>1, <1>2
<1>4. \A k \in DOMAIN cnm_stack :
        /\ {"frame", "live", "current"} \subseteq DOMAIN cnm_stack'[k]
        /\ cnm_stack'[k].frame = cnm_stack[k].frame
        /\ cnm_stack'[k].live \in BOOLEAN
        /\ cnm_stack'[k].live <=> cnm_stack[k].live /\ cnm_stack[k].frame <= h
  BY DEF Outlive, IInv, ContextsOK
<1>5. DOMAIN cnm_stack' = DOMAIN cnm_stack
  BY <1>1, <1>2
<1>6. ContextsOK'
  BY <1>3, <1>4, <1>5 DEF IInv, ContextsOK, IsSeq
<1>7. LiveContexts' = {k \in LiveContexts : cnm_stack[k].frame <= h}
  BY <1>4, <1>5 DEF LiveContexts
<1>8. QED
  BY <1>4, <1>5, <1>6, <1>7

(* The frames above h are gone, and with them their contexts.  The frame   *)
(* above h is none that a dispatch runs.                                   *)
LEMMA CutStep ==
  ASSUME IInv, NEW h \in 0..Len(calls),
         h \notin Opens,
         calls' = SubSeq(calls, 1, h),
         ContextsOK', DOMAIN cnm_stack' = DOMAIN cnm_stack,
         LiveContexts' = {k \in LiveContexts : cnm_stack[k].frame <= h},
         \A k \in DOMAIN cnm_stack : cnm_stack'[k].frame = cnm_stack[k].frame,
         cut' <=> (cut \/ \E i \in Opens : i > h),
         UNCHANGED broken
  PROVE  IInv'
<1>1. /\ Len(calls) \in Nat /\ DOMAIN calls = 1..Len(calls) /\ h \in Nat
      /\ Len(cnm_stack) \in Nat /\ DOMAIN cnm_stack = 1..Len(cnm_stack)
  BY Facts
<1>2. /\ IsSeq(calls') /\ Len(calls') = h
      /\ \A i \in 1..h : calls'[i] = calls[i]
  BY Prefixed DEF IInv, FramesOK
<1>3. DOMAIN calls' = 1..h
  BY <1>1, <1>2, Shape
<1>4. Opens' = {i \in Opens : i < h}
  BY <1>1, <1>2, <1>3 DEF Opens, Open
<1>7. \A d \in 1..h : Pushed(d)' <=> Pushed(d)
  BY <1>2 DEF Pushed
<1>8. FramesOK'
  BY <1>1, <1>2, <1>3 DEF IInv, FramesOK
<1>10. OpenRuns'
  BY <1>1, <1>2, <1>3, <1>4, Facts DEF IInv, OpenRuns
<1>11. Owned'
  <2> SUFFICES ASSUME NEW k \in LiveContexts, NEW d, d = cnm_stack[k].frame, d <= h
               PROVE  d \in 1..h /\ calls'[d].kind = "dispatch" /\ Pushed(d)'
    BY <1>3, Facts DEF Owned
  <2>1. d \in 1..h /\ calls[d].kind = "dispatch" /\ Pushed(d)
    BY <1>1 DEF IInv, Owned
  <2>2. QED
    BY <1>2, <1>7, <2>1
<1>12. EachOpenHasOne'
  BY <1>1, <1>4, Facts DEF IInv, EachOpenHasOne
<1>13. InOrder'
  BY <1>1, Facts DEF IInv, InOrder
<1>14. OnlyOpen'
  <2> SUFFICES ASSUME ~cut'
               PROVE  /\ ~broken'
                      /\ \A k \in DOMAIN cnm_stack : k \in LiveContexts' /\ cnm_stack[k].frame \in Opens'
    BY <1>3 DEF OnlyOpen
  <2>1. \A i \in Opens : i < h
    BY <1>1, Facts
  <2>2. QED
    <3>1. ~cut /\ \A i \in Opens : i < h
      BY <1>1, <2>1, Facts
    <3>2. broken' = broken /\ ~broken
      BY <3>1 DEF IInv, OnlyOpen
    <3>3. \A k \in DOMAIN cnm_stack : k \in LiveContexts /\ cnm_stack[k].frame \in Opens
      BY <3>1 DEF IInv, OnlyOpen
    <3>4. Opens' = Opens
      BY <1>4, <3>1
    <3>5. QED
      BY <1>1, <3>1, <3>2, <3>3, <3>4, Facts
<1>15. Room'
  <2> SUFFICES ASSUME ~cut', NEW d \in 1..h, calls[d].kind = "dispatch", ~Pushed(d)
               PROVE  /\ 1 <= CNM_STACK_MAX
                      /\ \A k \in DOMAIN cnm_stack : cnm_stack[k].frame < d => k < CNM_STACK_MAX
    BY <1>2, <1>3, <1>7 DEF Room
  <2>1. ~cut /\ d \in DOMAIN calls
    BY <1>1
  <2>2. QED
    BY <2>1 DEF IInv, Room
<1>16. QED
  BY <1>8, <1>10, <1>11, <1>12, <1>13, <1>14, <1>15 DEF IInv

LEMMA ExitStep ==
  ASSUME IInv, Exit, UNCHANGED broken
  PROVE  IInv'
<1>1. /\ Landing \in 0..Len(calls)
      /\ Landing > 0 => Landing + 1 \in DOMAIN calls /\ calls[Landing + 1].kind = "catch"
  BY LandingRange DEF IInv
<1>2. Landing \notin Opens
  BY <1>1, Facts DEF IInv, OpenRuns
<1>3. Landing \in Nat
  BY <1>1, Facts
<1>4. calls' = SubSeq(calls, 1, Landing) /\ cnm_stack' = Outlive(Landing)
  BY DEF Exit
<1>5. cut' <=> (cut \/ \E i \in Opens : i > Landing)
  BY DEF Exit
<1>6. QED
  BY <1>1, <1>2, <1>3, <1>4, <1>5, CutStep, Outliving

LEMMA ProceedStep ==
  ASSUME IInv, Proceed
  PROVE  IInv'
<1> SUFFICES ASSUME NEW n, n = Len(calls)
             PROVE  IInv'
  OBVIOUS
<1> DEFINE b == Body(Top.run[Top.next], Top.args)
           c == [calls EXCEPT ![n] = Started(@)]
<1>1. /\ n \in Nat /\ DOMAIN calls = 1..n /\ n \in 1..n
      /\ Len(cnm_stack) \in Nat /\ DOMAIN cnm_stack = 1..Len(cnm_stack)
  BY Facts DEF Proceed, Code
<1>2. /\ calls[n].kind = "dispatch" /\ calls[n].next \in Nat
      /\ {"kind", "main", "next", "open"} \subseteq DOMAIN calls[n]
  BY <1>1 DEF Proceed, Code, Top, IInv, FramesOK
<1>3. b.kind = "method"
  BY DEF Body
<1>4. c = [calls EXCEPT ![n] = Started(calls[n])]
  OBVIOUS
<1>5. /\ Started(calls[n]).kind = "dispatch"
      /\ Started(calls[n]).next = calls[n].next + 1
      /\ Started(calls[n]).main = calls[n].main
      /\ DOMAIN Started(calls[n]) = DOMAIN calls[n]
  BY <1>2 DEF Started
<1>20. Started(calls[n]).open <=> calls[n].next = calls[n].main
  BY <1>2 DEF Started
<1>6. /\ IsSeq(c) /\ Len(c) = n /\ c[n] = Started(calls[n])
      /\ \A i \in 1..n-1 : c[i] = calls[i]
  <2> DEFINE e == Started(calls[n])
  <2> HIDE DEF e
  <2>1. PICK S : calls \in Seq(S)
    BY DEF IInv, FramesOK, IsSeq
  <2>2. calls \in Seq(S \cup {e})
    BY <2>1
  <2>3. c = [calls EXCEPT ![n] = e]
    BY <1>4 DEF e
  <2>4. c \in Seq(S \cup {e}) /\ Len(c) = n /\ c[n] = e /\ \A i \in 1..n-1 : c[i] = calls[i]
    BY <1>1, <2>2, <2>3
  <2>5. QED
    BY <2>4 DEF IsSeq, e
<1>7. calls' = Append(c, b)
  BY DEF Proceed
<1> HIDE DEF b, c
<1>8. /\ IsSeq(calls') /\ Len(calls') = n + 1 /\ DOMAIN calls' = 1..n+1
      /\ calls'[n + 1] = b /\ calls'[n] = Started(calls[n])
      /\ \A i \in 1..n-1 : calls'[i] = calls[i]
  BY <1>1, <1>6, <1>7, Appended, Shape
<1>9. n \notin Opens
  BY <1>1, Facts DEF IInv, OpenRuns
<1>10. \A d \in 1..n-1 : Pushed(d)' <=> Pushed(d)
  BY <1>1, <1>8 DEF Pushed
<1>11. Pushed(n)' <=> Pushed(n) \/ calls[n].next = calls[n].main
  BY <1>2, <1>5, <1>8 DEF Pushed
<1>16. \A i \in 1..n-1 : Open(i)' <=> Open(i)
  BY <1>1, <1>8 DEF Open
<1>17. Open(n)' <=> calls[n].next = calls[n].main
  BY <1>5, <1>20, <1>8 DEF Open
<1>18. ~Open(n + 1)'
  BY <1>3, <1>8 DEF Open
<1>19. 1..n+1 = 1..n-1 \cup {n, n + 1}
  BY <1>1
<1>12. FramesOK'
  <2> SUFFICES ASSUME NEW i \in 1..n+1
               PROVE  /\ calls'[i].kind \in {"dispatch", "method", "catch"}
                      /\ calls'[i].kind = "method" => i > 1
                      /\ calls'[i].kind = "dispatch" =>
                           /\ {"kind", "main", "next", "open"} \subseteq DOMAIN calls'[i]
                           /\ calls'[i].next \in Nat
    BY <1>8 DEF FramesOK
  <2>1. CASE i \in 1..n-1
    BY <1>1, <1>8, <2>1 DEF IInv, FramesOK
  <2>2. CASE i = n
    BY <1>2, <1>5, <1>8, <2>2
  <2>3. CASE i = n + 1
    BY <1>1, <1>3, <1>8, <2>3
  <2>4. QED
    BY <1>1, <2>1, <2>2, <2>3
<1>13. CASE calls[n].next = calls[n].main
  <2> DEFINE x == Context(calls[n])
  <2>1. cnm_stack' = Append(cnm_stack, x)
    BY <1>13 DEF Proceed, Top
  <2>2. x.frame = n /\ x.live = TRUE /\ x.live \in BOOLEAN /\ {"frame", "live", "current"} \subseteq DOMAIN x
    BY DEF Context
  <2> HIDE DEF x
  <2>3. /\ IsSeq(cnm_stack') /\ Len(cnm_stack') = Len(cnm_stack) + 1
        /\ DOMAIN cnm_stack' = 1..Len(cnm_stack)+1
        /\ cnm_stack'[Len(cnm_stack) + 1] = x
        /\ \A k \in 1..Len(cnm_stack) : cnm_stack'[k] = cnm_stack[k]
    BY <1>1, <2>1, Appended, Shape DEF IInv, ContextsOK
  <2>4. Opens' = Opens \cup {n}
    BY <1>1, <1>8, <1>9, <1>13, <1>16, <1>17, <1>18, <1>19 DEF Opens
  <2>5. LiveContexts' = LiveContexts \cup {Len(cnm_stack) + 1}
    BY <1>1, <2>2, <2>3 DEF LiveContexts
  <2>6. ~Pushed(n)
    BY <1>2, <1>13 DEF Pushed
  <2>7. \A k \in LiveContexts : cnm_stack[k].frame \in 1..n-1
    BY <1>1, <2>6 DEF IInv, Owned
  <2>8. ContextsOK'
    <3>1. \A k \in 1..Len(cnm_stack) :
            /\ {"frame", "live", "current"} \subseteq DOMAIN cnm_stack'[k]
            /\ cnm_stack'[k].frame \in Nat /\ cnm_stack'[k].live \in BOOLEAN
      BY <1>1, <2>3 DEF IInv, ContextsOK
    <3>2. n \in Nat
      BY <1>1
    <3>3. QED
      BY <1>1, <2>2, <2>3, <3>1, <3>2 DEF ContextsOK
  <2>9. OpenRuns'
    BY <1>1, <1>2, <1>3, <1>5, <1>8, <1>9, <2>4, Facts DEF IInv, OpenRuns
  <2>10. Owned'
    <3> SUFFICES ASSUME NEW k \in LiveContexts', NEW d, d = cnm_stack'[k].frame
                 PROVE  d \in 1..n /\ calls'[d].kind = "dispatch" /\ Pushed(d)'
      BY <1>1, <1>8 DEF Owned
    <3>1. CASE k = Len(cnm_stack) + 1
      BY <1>1, <1>2, <1>5, <1>8, <1>11, <1>13, <2>2, <2>3, <3>1
    <3>2. CASE k \in LiveContexts
      BY <1>1, <1>8, <1>10, <2>3, <2>7, <3>2, Facts DEF IInv, Owned
    <3>3. QED
      BY <2>5, <3>1, <3>2
  <2>11. EachOpenHasOne'
    BY <1>1, <2>2, <2>3, <2>4, <2>5, Facts DEF IInv, EachOpenHasOne
  <2>12. InOrder'
    BY <1>1, <2>2, <2>3, <2>5, <2>7, Facts DEF IInv, InOrder
  <2>13. OnlyOpen'
    BY <1>1, <2>2, <2>3, <2>4, <2>5 DEF IInv, OnlyOpen, Proceed
  <2>14. Room'
    <3> SUFFICES ASSUME ~cut, NEW d \in 1..n+1, calls'[d].kind = "dispatch", ~Pushed(d)',
                        NEW k \in 1..Len(cnm_stack)+1
                 PROVE  1 <= CNM_STACK_MAX /\ (cnm_stack'[k].frame < d => k < CNM_STACK_MAX)
      BY <1>8, <2>3 DEF Room, Proceed
    <3>1. d \in 1..n-1 /\ ~Pushed(d) /\ calls[d].kind = "dispatch"
      BY <1>1, <1>3, <1>8, <1>10, <1>11, <1>13
    <3>2. 1 <= CNM_STACK_MAX /\ (k \in 1..Len(cnm_stack) /\ cnm_stack[k].frame < d => k < CNM_STACK_MAX)
      BY <1>1, <3>1 DEF IInv, Room
    <3>3. k = Len(cnm_stack) + 1 => ~(cnm_stack'[k].frame < d)
      BY <1>1, <2>2, <2>3, <3>1
    <3>4. QED
      BY <1>1, <2>3, <3>2, <3>3
  <2>15. QED
    BY <1>12, <2>8, <2>9, <2>10, <2>11, <2>12, <2>13, <2>14 DEF IInv
<1>14. CASE calls[n].next # calls[n].main
  <2>1. cnm_stack' = cnm_stack /\ cut' = cut /\ broken' = broken
    BY <1>14 DEF Proceed, Top
  <2>2. Opens' = Opens
    BY <1>1, <1>8, <1>9, <1>14, <1>16, <1>17, <1>18, <1>19 DEF Opens
  <2>3. LiveContexts' = LiveContexts
    BY <2>1 DEF LiveContexts
  <2>4. \A d \in 1..n : Pushed(d)' <=> Pushed(d)
    BY <1>1, <1>10, <1>11, <1>14
  <2>5. ContextsOK' /\ EachOpenHasOne' /\ InOrder' /\ OnlyOpen'
    BY <2>1, <2>2, <2>3 DEF IInv, ContextsOK, EachOpenHasOne, InOrder, OnlyOpen
  <2>6. OpenRuns'
    BY <1>1, <1>2, <1>3, <1>5, <1>8, <1>9, <2>2, Facts DEF IInv, OpenRuns
  <2>7. Owned'
    BY <1>1, <1>2, <1>5, <1>8, <2>1, <2>3, <2>4, Facts DEF IInv, Owned
  <2>8. Room'
    <3> SUFFICES ASSUME ~cut, NEW d \in 1..n+1, calls'[d].kind = "dispatch", ~Pushed(d)'
                 PROVE  /\ 1 <= CNM_STACK_MAX
                        /\ \A k \in DOMAIN cnm_stack : cnm_stack[k].frame < d => k < CNM_STACK_MAX
      BY <1>8, <2>1 DEF Room
    <3>1. d \in 1..n /\ ~Pushed(d) /\ calls[d].kind = "dispatch"
      BY <1>1, <1>2, <1>3, <1>8, <2>4
    <3>2. QED
      BY <1>1, <3>1 DEF IInv, Room
  <2>9. QED
    BY <1>12, <2>5, <2>6, <2>7, <2>8 DEF IInv
<1>15. QED
  BY <1>13, <1>14

(* User code returns to user code, or to a dispatch that is not open.      *)
LEMMA ReturnStep ==
  ASSUME IInv, Return
  PROVE  IInv'
<1>1. /\ Len(calls) \in Nat /\ DOMAIN calls = 1..Len(calls) /\ Len(calls) > 0
      /\ Len(cnm_stack) \in Nat /\ DOMAIN cnm_stack = 1..Len(cnm_stack)
  BY Facts DEF Return
<1>2. calls[Len(calls)].kind \in {"method", "catch"}
  BY <1>1 DEF Return, User, Code, Top, IInv, FramesOK
<1>3. Len(calls) - 1 \notin Opens
  BY <1>1, <1>2 DEF Return, User, Code, Top, IInv, OpenRuns, Opens
<1>4. Len(calls) \notin Opens
  BY <1>2 DEF Opens, Open
<1>5. \A k \in LiveContexts : cnm_stack[k].frame <= Len(calls) - 1
  BY <1>1, <1>2 DEF IInv, Owned
<1>6. calls' = SubSeq(calls, 1, Len(calls) - 1)
  BY DEF Return, Below
<1>7. cut' <=> (cut \/ \E i \in Opens : i > Len(calls) - 1)
  BY <1>1, <1>4, Facts DEF Return
<1>8. LiveContexts = {k \in LiveContexts : cnm_stack[k].frame <= Len(calls) - 1}
  BY <1>5
<1>9. ContextsOK' /\ LiveContexts' = LiveContexts /\ UNCHANGED <<cnm_stack, broken>>
  BY DEF Return, IInv, ContextsOK, LiveContexts
<1> DEFINE h == Len(calls) - 1
<1>10. h \in 0..Len(calls)
  BY <1>1
<1>11. QED
  BY <1>3, <1>6, <1>7, <1>8, <1>9, <1>10, CutStep

LEMMA FinishStep ==
  ASSUME IInv, Finish
  PROVE  IInv'
<1> DEFINE h == Len(calls) - 1
<1>1. Len(calls) \in Nat /\ DOMAIN calls = 1..Len(calls) /\ Len(calls) > 0 /\ h \in 0..Len(calls) /\ h \in Nat
  BY Facts DEF Finish, Code
<1>2. calls[Len(calls)].kind = "dispatch"
  BY <1>1 DEF Finish, Code, Top
<1>3. Len(calls) \notin Opens /\ h \notin Opens
  BY <1>1, <1>2 DEF IInv, OpenRuns
<1>4. calls' = SubSeq(calls, 1, h) /\ cnm_stack' = Outlive(h)
  BY DEF Finish, Below
<1>5. cut' <=> (cut \/ \E i \in Opens : i > h)
  BY <1>1, <1>3, Facts DEF Finish
<1>6. broken' = broken
  BY DEF Finish
<1> HIDE DEF h
<1>7. QED
  BY <1>1, <1>3, <1>4, <1>5, <1>6, CutStep, Outliving

(* Whichever context is taken off, it is not one that an open dispatch     *)
(* below has: those are further down.                                      *)
LEMMA ReturnToOpenStep ==
  ASSUME IInv, ReturnToOpen
  PROVE  IInv'
<1> SUFFICES ASSUME NEW n, n = Len(calls) - 1, NEW m, m = Len(cnm_stack)
             PROVE  IInv'
  OBVIOUS
<1>1. /\ n \in Nat /\ Len(calls) = n + 1 /\ DOMAIN calls = 1..n+1
      /\ m \in Nat /\ DOMAIN cnm_stack = 1..m
  BY Facts DEF ReturnToOpen, Code
<1>2. calls[n + 1].kind = "method"
  BY <1>1 DEF ReturnToOpen, Code, Top
<1>3. Open(n)
  BY DEF ReturnToOpen
<1>4. n \in 1..n /\ calls[n].kind = "dispatch" /\ n \in Opens
  BY <1>1, <1>2, <1>3 DEF IInv, FramesOK, Opens, Open
<1> DEFINE b == SubSeq(calls, 1, n)
<1>5. IsSeq(b) /\ Len(b) = n /\ \A i \in 1..n : b[i] = calls[i]
  <2>1. IsSeq(calls) /\ n \in 0..Len(calls)
    BY <1>1 DEF IInv, FramesOK
  <2>2. QED
    BY <2>1, Prefixed
<1>6. calls' = [b EXCEPT ![n].open = FALSE]
  BY <1>1 DEF ReturnToOpen, Below
<1> HIDE DEF b
<1>7. /\ IsSeq(calls') /\ Len(calls') = n /\ DOMAIN calls' = 1..n
      /\ \A i \in 1..n-1 : calls'[i] = calls[i]
      /\ calls'[n] = [calls[n] EXCEPT !.open = FALSE]
  <2> DEFINE e == [calls[n] EXCEPT !.open = FALSE]
  <2> HIDE DEF e
  <2>1. PICK S : b \in Seq(S)
    BY <1>5 DEF IsSeq
  <2>2. b \in Seq(S \cup {e})
    BY <2>1
  <2>3. calls' = [b EXCEPT ![n] = e]
    BY <1>4, <1>5, <1>6 DEF e
  <2>4. /\ calls' \in Seq(S \cup {e}) /\ Len(calls') = n /\ calls'[n] = e
        /\ \A i \in 1..n-1 : calls'[i] = b[i]
    BY <1>4, <1>5, <2>2, <2>3
  <2>5. DOMAIN calls' = 1..n
    BY <1>4, <1>5, <2>4
  <2>6. QED
    BY <1>4, <1>5, <2>4, <2>5 DEF IsSeq, e
<1>8. /\ calls'[n].kind = "dispatch" /\ calls'[n].main = calls[n].main /\ calls'[n].next = calls[n].next
      /\ DOMAIN calls'[n] = DOMAIN calls[n]
  BY <1>4, <1>7
<1>9. ~Open(n)'
  BY <1>1, <1>4, <1>7 DEF Open, IInv, FramesOK
<1>10. 1..n = 1..n-1 \cup {n}
  BY <1>4
<1>11. Opens' = Opens \ {n}
  <2>1. n + 1 \notin Opens
    BY <1>2 DEF Opens, Open
  <2>2. \A i \in 1..n-1 : Open(i)' <=> Open(i)
    BY <1>7 DEF Open
  <2>3. QED
    BY <1>1, <1>4, <1>7, <1>9, <1>10, <2>1, <2>2 DEF Opens
<1>12. PICK c \in LiveContexts : cnm_stack[c].frame = n
  BY <1>4 DEF IInv, EachOpenHasOne
<1>13. c \in 1..m
  BY <1>1, <1>12, Facts
<1>14. cnm_stack' = SubSeq(cnm_stack, 1, m - 1)
  BY DEF ReturnToOpen
<1>15. /\ IsSeq(cnm_stack') /\ Len(cnm_stack') = m - 1 /\ DOMAIN cnm_stack' = 1..m-1
       /\ \A k \in 1..m-1 : cnm_stack'[k] = cnm_stack[k]
  BY <1>1, <1>13, <1>14, Prefixed, Shape DEF IInv, ContextsOK
<1>16. LiveContexts' = LiveContexts \ {m}
  BY <1>1, <1>13, <1>15 DEF LiveContexts
<1>17. \A d \in 1..n : Pushed(d)' <=> Pushed(d)
  <2>1. \A d \in 1..n-1 : Pushed(d)' <=> Pushed(d)
    BY <1>7 DEF Pushed
  <2>2. Pushed(n)' <=> Pushed(n)
    BY <1>8 DEF Pushed
  <2>3. QED
    BY <1>10, <2>1, <2>2
<1>18. \A d \in 1..n : calls'[d].kind = calls[d].kind
  BY <1>4, <1>7, <1>8, <1>10
<1>19. \A k \in LiveContexts : cnm_stack[k].frame \in 1..n
  BY <1>1, <1>2 DEF IInv, Owned
<1>20. FramesOK'
  <2>1. \A i \in 1..n-1 :
         /\ calls'[i].kind \in {"dispatch", "method", "catch"}
         /\ calls'[i].kind = "method" => i > 1
         /\ calls'[i].kind = "dispatch" =>
              {"kind", "main", "next", "open"} \subseteq DOMAIN calls'[i] /\ calls'[i].next \in Nat
    BY <1>1, <1>7 DEF IInv, FramesOK
  <2>2. {"kind", "main", "next", "open"} \subseteq DOMAIN calls'[n] /\ calls'[n].next \in Nat
    BY <1>1, <1>4, <1>8 DEF IInv, FramesOK
  <2>3. QED
    BY <1>7, <1>8, <1>10, <2>1, <2>2 DEF FramesOK
<1>21. ContextsOK'
  BY <1>1, <1>15 DEF IInv, ContextsOK
<1>22. OpenRuns'
  BY <1>1, <1>4, <1>7, <1>11, Facts, SMTT(40) DEF IInv, OpenRuns
<1>23. Owned'
  <2> SUFFICES ASSUME NEW k \in LiveContexts', NEW d, d = cnm_stack'[k].frame
               PROVE  d \in 1..n /\ calls'[d].kind = "dispatch" /\ Pushed(d)'
    BY <1>7 DEF Owned
  <2>1. k \in LiveContexts /\ k \in 1..m-1 /\ d = cnm_stack[k].frame
    BY <1>1, <1>15, <1>16, Facts
  <2>2. QED
    BY <1>17, <1>18, <1>19, <2>1 DEF IInv, Owned
<1>24. EachOpenHasOne'
  <2> SUFFICES ASSUME NEW i \in Opens, i # n
               PROVE  \E k \in LiveContexts' : cnm_stack'[k].frame = i
    BY <1>11 DEF EachOpenHasOne
  <2>1. PICK k \in LiveContexts : cnm_stack[k].frame = i
    BY DEF IInv, EachOpenHasOne
  <2>2. i \in 1..n-1 /\ k \in 1..m
    BY <1>1, <1>19, <2>1, Facts
  <2>3. ~(c < k) /\ c # k
    BY <1>12, <2>1, <2>2 DEF IInv, InOrder
  <2>4. k < m
    BY <1>1, <1>13, <2>2, <2>3
  <2>5. QED
    BY <1>1, <1>15, <1>16, <2>1, <2>2, <2>4
<1>25. InOrder'
  BY <1>1, <1>15, <1>16, Facts DEF IInv, InOrder
<1>26. OnlyOpen'
  <2> SUFFICES ASSUME ~cut
               PROVE  /\ ~broken
                      /\ \A k \in 1..m-1 : k \in LiveContexts' /\ cnm_stack[k].frame \in Opens'
    BY <1>15 DEF OnlyOpen, ReturnToOpen
  <2>1. ~broken /\ \A k \in 1..m : k \in LiveContexts /\ cnm_stack[k].frame \in Opens
    BY <1>1 DEF IInv, OnlyOpen
  <2>2. ~(c < m)
    <3>1. SUFFICES ASSUME c < m PROVE FALSE
      OBVIOUS
    <3>2. cnm_stack[c].frame < cnm_stack[m].frame
      BY <1>1, <1>13, <2>1, <3>1 DEF IInv, InOrder
    <3>3. cnm_stack[m].frame \in 1..n
      BY <1>1, <1>13, <1>19, <2>1
    <3>4. QED
      BY <1>1, <1>12, <3>2, <3>3
  <2>3. c = m
    BY <1>1, <1>13, <2>2
  <2>4. \A k \in 1..m-1 : cnm_stack[k].frame < n
    BY <1>1, <1>12, <2>1, <2>3 DEF IInv, InOrder
  <2>5. QED
    BY <1>1, <1>11, <1>16, <2>1, <2>4
<1>27. Room'
  <2> SUFFICES ASSUME ~cut, NEW d \in 1..n, calls[d].kind = "dispatch", ~Pushed(d)
               PROVE  /\ 1 <= CNM_STACK_MAX
                      /\ \A k \in 1..m-1 : cnm_stack[k].frame < d => k < CNM_STACK_MAX
    BY <1>7, <1>15, <1>17, <1>18 DEF Room, ReturnToOpen
  <2>1. QED
    BY <1>1 DEF IInv, Room
<1>28. QED
  BY <1>20, <1>21, <1>22, <1>23, <1>24, <1>25, <1>26, <1>27 DEF IInv

LEMMA CallStep ==
  ASSUME IInv, Call
  PROVE  IInv'
<1>1. PICK g \in GenericNames, names \in ArgLists :
        /\ ~Refused(g, Resolved(names), Chosen(function[g], Resolved(names)))
        /\ Push(Dispatched(function[g], Resolved(names), Chosen(function[g], Resolved(names))))
  BY DEF Call
<1> DEFINE args == Resolved(names)
           ms == Chosen(function[g], args)
           frame == Dispatched(function[g], args, ms)
<1>2. /\ frame.kind = "dispatch" /\ frame.next = 1 /\ frame.open = FALSE
      /\ {"kind", "main", "next", "open"} \subseteq DOMAIN frame
  <2> HIDE DEF args, ms
  <2>1. QED
    BY DEF Dispatched, Plan
<1>3. Len(cnm_stack) < CNM_STACK_MAX
  BY <1>1, Facts, BoundsAssumption DEF Refused
<1>4. User /\ Push(frame) /\ UNCHANGED <<cnm_stack, cut, broken>>
  BY <1>1 DEF Call
<1>5. ContextsOK' /\ LiveContexts' = LiveContexts
  BY <1>4 DEF IInv, ContextsOK, LiveContexts
<1> HIDE DEF frame, args, ms
<1>6. frame.kind # "method" /\ frame.kind \in {"dispatch", "method", "catch"} /\ frame.next \in Nat
  BY <1>2
<1>7. QED
  BY <1>2, <1>3, <1>4, <1>5, <1>6, PushStep

LEMMA EnterCatchStep ==
  ASSUME IInv, EnterCatch
  PROVE  IInv'
<1> DEFINE frame == [kind |-> "catch"]
<1>1. frame.kind = "catch"
  OBVIOUS
<1>2. User /\ Push(frame) /\ UNCHANGED <<cnm_stack, cut, broken>>
  BY DEF EnterCatch
<1>3. ContextsOK' /\ LiveContexts' = LiveContexts
  BY <1>2 DEF IInv, ContextsOK, LiveContexts
<1> HIDE DEF frame
<1>4. QED
  BY <1>1, <1>2, <1>3, PushStep

LEMMA CallNextMethodStep ==
  ASSUME IInv, CallNextMethod
  PROVE  IInv'
<1> SUFFICES ASSUME NEW m, m = Len(cnm_stack)
             PROVE  IInv'
  OBVIOUS
<1> DEFINE frame == Body(NextMethod, Ctx.args)
           e == [cnm_stack[m] EXCEPT !.current = @ + 1]
<1>1. /\ m \in Nat /\ DOMAIN cnm_stack = 1..m /\ m \in 1..m
      /\ DOMAIN calls = 1..Len(calls) /\ (calls = <<>> <=> Len(calls) = 0)
  BY Facts DEF CallNextMethod
<1>2. frame.kind = "method"
  BY DEF Body
<1>3. m \in LiveContexts
  BY <1>1 DEF CallNextMethod, Ctx, LiveContexts
<1>4. cnm_stack[m].frame \in DOMAIN calls
  BY <1>3 DEF IInv, Owned
<1>5. calls # <<>>
  BY <1>1, <1>4
<1>6. /\ {"frame", "live", "current"} \subseteq DOMAIN e
      /\ e.frame = cnm_stack[m].frame /\ e.live = cnm_stack[m].live
  BY <1>1 DEF IInv, ContextsOK
<1>7. cnm_stack' = [cnm_stack EXCEPT ![m] = e]
  BY DEF CallNextMethod, Advanced
<1>8. User /\ Push(frame) /\ UNCHANGED <<cut, broken>>
  BY DEF CallNextMethod
<1> HIDE DEF frame, e
<1>9. /\ IsSeq(cnm_stack') /\ DOMAIN cnm_stack' = 1..m /\ cnm_stack'[m] = e
      /\ \A k \in 1..m-1 : cnm_stack'[k] = cnm_stack[k]
  <2>1. PICK S : cnm_stack \in Seq(S)
    BY DEF IInv, ContextsOK, IsSeq
  <2>2. cnm_stack \in Seq(S \cup {e})
    BY <2>1
  <2>3. cnm_stack' \in Seq(S \cup {e})
    BY <1>1, <1>7, <2>2
  <2>4. QED
    BY <1>1, <1>7, <2>3 DEF IsSeq
<1>10. 1..m = 1..m-1 \cup {m}
  BY <1>1
<1>11. \A k \in 1..m : /\ {"frame", "live", "current"} \subseteq DOMAIN cnm_stack'[k]
                       /\ cnm_stack'[k].frame = cnm_stack[k].frame
                       /\ cnm_stack'[k].live \in BOOLEAN
                       /\ (cnm_stack'[k].live <=> cnm_stack[k].live)
  <2>1. \A k \in 1..m : {"frame", "live", "current"} \subseteq DOMAIN cnm_stack[k] /\ cnm_stack[k].live \in BOOLEAN
    BY <1>1 DEF IInv, ContextsOK
  <2>2. e.live \in BOOLEAN /\ (e.live <=> cnm_stack[m].live)
    BY <1>1, <1>6, <2>1
  <2>3. QED
    BY <1>1, <1>6, <1>9, <1>10, <2>1, <2>2
<1>12. ContextsOK'
  <2>1. \A k \in 1..m : cnm_stack'[k].frame \in Nat
    BY <1>1, <1>11 DEF IInv, ContextsOK
  <2>2. QED
    BY <1>9, <1>11, <2>1 DEF ContextsOK
<1>13. LiveContexts' = LiveContexts
  BY <1>1, <1>9, <1>11 DEF LiveContexts
<1>14. DOMAIN cnm_stack' = DOMAIN cnm_stack /\ \A k \in DOMAIN cnm_stack : cnm_stack'[k].frame = cnm_stack[k].frame
  BY <1>1, <1>9, <1>11
<1>15. QED
  BY <1>2, <1>5, <1>8, <1>12, <1>13, <1>14, PushStep

(* A context is read after its dispatch has gone only once an exit has     *)
(* cut something off.                                                      *)
LEMMA BreaksStep ==
  ASSUME IInv, CallNextMethodBreaks
  PROVE  IInv'
<1>1. Len(cnm_stack) \in Nat /\ DOMAIN cnm_stack = 1..Len(cnm_stack) /\ Len(cnm_stack) > 0
  BY Facts DEF CallNextMethodBreaks
<1>2. Len(cnm_stack) \notin LiveContexts
  BY DEF CallNextMethodBreaks, Ctx, LiveContexts
<1>3. cut
  BY <1>1, <1>2 DEF IInv, OnlyOpen
<1>4. QED
  BY <1>3 DEF CallNextMethodBreaks, IInv, FramesOK, ContextsOK, OpenRuns, Owned, EachOpenHasOne, InOrder, OnlyOpen,
     Room, Opens, Open, LiveContexts, Pushed

LEMMA Inductive == IInv /\ [Next]_vars => IInv'
<1> SUFFICES ASSUME IInv, [Next]_vars PROVE IInv'
  OBVIOUS
<1>1. CASE FormFails
  BY <1>1, ExitStep DEF FormFails
<1>2. CASE DefClass
  BY <1>2, SameStep DEF DefClass
<1>3. CASE DefClassUnknown
  BY <1>3, ExitStep DEF DefClassUnknown
<1>4. CASE Merge
  BY <1>4, SameStep DEF Merge
<1>5. CASE EndClass
  BY <1>5, SameStep DEF EndClass
<1>6. CASE RefuseClass
  BY <1>6, ExitStep DEF RefuseClass
<1>7. CASE DefGeneric
  BY <1>7, SameStep DEF DefGeneric
<1>8. CASE DefMethod
  BY <1>8, SameStep DEF DefMethod
<1>9. CASE DefMethodFails
  BY <1>9, ExitStep DEF DefMethodFails
<1>10. CASE Call
  BY <1>10, CallStep
<1>11. CASE CallFails
  BY <1>11, ExitStep DEF CallFails
<1>12. CASE Proceed
  BY <1>12, ProceedStep
<1>13. CASE ProceedOverruns
  BY <1>13, OverrunsStep
<1>14. CASE ReturnToOpen
  BY <1>14, ReturnToOpenStep
<1>15. CASE Return
  BY <1>15, ReturnStep
<1>16. CASE Finish
  BY <1>16, FinishStep
<1>17. CASE EnterCatch
  BY <1>17, EnterCatchStep
<1>18. CASE Throw
  BY <1>18, ExitStep DEF Throw
<1>19. CASE CallNextMethod
  BY <1>19, CallNextMethodStep
<1>20. CASE CallNextMethodBreaks
  BY <1>20, BreaksStep
<1>21. CASE CallNextMethodFails
  BY <1>21, ExitStep DEF CallNextMethodFails
<1>22. CASE UNCHANGED vars
  BY <1>22, SameStep DEF vars
<1>23. QED
  BY <1>1, <1>2, <1>3, <1>4, <1>5, <1>6, <1>7, <1>8, <1>9, <1>10, <1>11, <1>12, <1>13, <1>14, <1>15,
     <1>16, <1>17, <1>18, <1>19, <1>20, <1>21, <1>22 DEF Next

-----------------------------------------------------------------------------
(* Contexts and open dispatches are as many when each context belongs to   *)
(* an open dispatch and each open dispatch has one, in order.              *)
LEMMA AsMany ==
  ASSUME IInv, ~cut
  PROVE  Len(cnm_stack) = Cardinality(Opens)
<1> DEFINE m == Len(cnm_stack)
           f == [k \in 1..m |-> cnm_stack[k].frame]
<1>1. m \in Nat /\ DOMAIN cnm_stack = 1..m
  BY Facts
<1>2. \A k \in 1..m : k \in LiveContexts /\ cnm_stack[k].frame \in Opens
  BY <1>1 DEF IInv, OnlyOpen
<1>3. f \in [1..m -> Opens]
  BY <1>2
<1>4. \A i, j \in 1..m : i < j => cnm_stack[i].frame < cnm_stack[j].frame
  BY <1>2 DEF IInv, InOrder
<1>5. \A k \in 1..m : cnm_stack[k].frame \in Nat
  BY <1>2, Facts
<1>6. \A i, j \in 1..m : f[i] = f[j] => i = j
  <2> SUFFICES ASSUME NEW i \in 1..m, NEW j \in 1..m, cnm_stack[i].frame = cnm_stack[j].frame, i # j
               PROVE  FALSE
    OBVIOUS
  <2>1. i < j \/ j < i
    BY <1>1
  <2>2. QED
    BY <1>4, <1>5, <2>1
<1>7. \A i \in Opens : \E k \in 1..m : f[k] = i
  BY <1>1, Facts DEF IInv, EachOpenHasOne
<1>8. f \in Bijection(1..m, Opens)
  BY <1>3, <1>6, <1>7 DEF Bijection, Injection, Surjection, IsInjective
<1>9. ExistsBijection(1..m, Opens)
  BY <1>8 DEF ExistsBijection
<1>10. Cardinality(Opens) = m
  BY <1>1, <1>9, FS_CountingElements
<1>11. QED
  BY <1>10

LEMMA Implies == IInv => ContextsSound
<1> SUFFICES ASSUME IInv PROVE ContextsSound
  OBVIOUS
<1>1. EachOpenHasOne /\ InOrder
  BY DEF IInv
<1>2. ~cut => Len(cnm_stack) = Cardinality(Opens) /\ ~broken
  BY AsMany DEF IInv, OnlyOpen
<1>3. QED
  BY <1>1, <1>2 DEF ContextsSound, EachOpenHasOne, InOrder

(* After any program, with errors and throws caught anywhere, every        *)
(* dispatch whose method is running has its context on the stack, in the   *)
(* order of the calls; and until an exit has jumped out of such a method,  *)
(* no other context is there and none is read whose arrays are gone        *)
(* (ls_dispatch_generic, bi_call_next_method).                             *)
THEOREM ContextsAreSound == Spec => []ContextsSound
<1>1. QED
  BY Initially, Inductive, Implies, PTL DEF Spec

-----------------------------------------------------------------------------
(* The methods of a call: kept from a list, in its order, and sorted.      *)

(* The elements of k are some of the first n of ms, all in kept, in the    *)
(* order that ms has them in.                                              *)
Selected(k, ms, kept, n) ==
  /\ \A a \in DOMAIN k : k[a] \in kept /\ \E p \in 1..n : ms[p] = k[a]
  /\ \A a, b \in DOMAIN k : a < b => \E p, q \in 1..n : p < q /\ ms[p] = k[a] /\ ms[q] = k[b]

LEMMA PassIs ==
  ASSUME NEW S, NEW s \in Seq(S), NEW m \in S, NEW kept
  PROVE  Pass(s, m, kept) \in Seq(S)
BY DEF Pass

LEMMA PassesIs ==
  ASSUME NEW S, NEW ms \in Seq(S), NEW kept
  PROVE  /\ Passes(ms, kept)[0] = <<>>
         /\ \A i \in 1..Len(ms) : Passes(ms, kept)[i] = Pass(Passes(ms, kept)[i - 1], ms[i], kept)
<1> PICK Z, b, n : Z = Seq(S) /\ b = <<>> /\ n = Len(ms)
  OBVIOUS
<1> DEFINE g == [i \in 1..n |-> [s \in Z |-> Pass(s, ms[i], kept)]]
<1>1. b \in Z /\ n \in Nat /\ \A i \in 1..n : ms[i] \in S
  OBVIOUS
<1>2. \A i \in 1..n : \A s \in Z : g[i][s] = Pass(s, ms[i], kept) /\ g[i][s] \in Z
  BY <1>1, PassIs
<1> HIDE DEF g
<1>3. PICK f : f \in Steps(n, Z, b, g)
  BY <1>1, <1>2, StepsExist
<1>4. f \in [0..n -> Z] /\ f[0] = b /\ \A i \in 1..n : f[i] = g[i][f[i - 1]]
  BY <1>3 DEF Steps
<1>5. \A i \in 1..n : f[i] = Pass(f[i - 1], ms[i], kept)
  <2>1. \A i \in 1..n : i - 1 \in 0..n /\ f[i - 1] \in Z
    BY <1>1, <1>4
  <2>2. QED
    BY <1>2, <1>4, <2>1
<1>6. f = [i \in 0..n |-> IF i = 0 THEN b ELSE Pass(f[i - 1], ms[i], kept)]
  BY <1>1, <1>4, <1>5
<1>7. PICK p : p = Passes(ms, kept)
  OBVIOUS
<1>8. p = [i \in 0..n |-> IF i = 0 THEN b ELSE Pass(p[i - 1], ms[i], kept)]
  BY <1>6, <1>7 DEF Passes
<1>9. p[0] = b /\ \A i \in 1..n : p[i] = Pass(p[i - 1], ms[i], kept)
  BY <1>1, <1>8
<1>10. QED
  BY <1>7, <1>9

LEMMA SelectedOn ==
  ASSUME NEW S, NEW ms, NEW kept, NEW i \in Nat \ {0}, NEW s \in Seq(S), Selected(s, ms, kept, i - 1),
         ms[i] \in S
  PROVE  Selected(Pass(s, ms[i], kept), ms, kept, i)
<1>1. \A c \in 1..i-1 : c \in 1..i /\ c < i
  OBVIOUS
<1>2. CASE ms[i] \notin kept
  BY <1>1, <1>2 DEF Pass, Selected
<1>3. CASE ms[i] \in kept
  <2> SUFFICES ASSUME NEW m, m = ms[i], NEW t, t = Append(s, m)
               PROVE  Selected(t, ms, kept, i)
    BY <1>3 DEF Pass
  <2>1. /\ t \in Seq(S) /\ Len(s) \in Nat /\ DOMAIN s = 1..Len(s) /\ DOMAIN t = 1..Len(s)+1
        /\ \A a \in 1..Len(s) : t[a] = s[a]
        /\ t[Len(s) + 1] = m
    OBVIOUS
  <2>2. \A a \in DOMAIN t : a \in DOMAIN s \/ a = Len(s) + 1
    BY <2>1
  <2>3. i \in 1..i
    OBVIOUS
  <2>4. ASSUME NEW a \in DOMAIN t PROVE t[a] \in kept /\ \E c \in 1..i : ms[c] = t[a]
    <3>1. CASE a = Len(s) + 1
      BY <1>3, <2>1, <2>3, <3>1
    <3>2. CASE a \in DOMAIN s
      BY <1>1, <2>1, <3>2 DEF Selected
    <3>3. QED
      BY <2>2, <3>1, <3>2
  <2>5. ASSUME NEW a \in DOMAIN t, NEW b \in DOMAIN t, a < b
        PROVE  \E c, d \in 1..i : c < d /\ ms[c] = t[a] /\ ms[d] = t[b]
    <3>1. a \in DOMAIN s /\ t[a] = s[a]
      BY <2>1, <2>2, <2>5
    <3>2. CASE b = Len(s) + 1
      <4>1. PICK c \in 1..i-1 : ms[c] = s[a]
        BY <3>1 DEF Selected
      <4>2. QED
        BY <1>1, <2>1, <2>3, <3>1, <3>2, <4>1
    <3>3. CASE b \in DOMAIN s
      <4>1. t[b] = s[b]
        BY <2>1, <3>3
      <4>2. PICK c \in 1..i-1, d \in 1..i-1 : c < d /\ ms[c] = s[a] /\ ms[d] = s[b]
        BY <2>5, <3>1, <3>3 DEF Selected
      <4>3. QED
        BY <1>1, <3>1, <4>1, <4>2
    <3>4. QED
      BY <2>2, <3>2, <3>3
  <2>6. QED
    BY <2>4, <2>5 DEF Selected
<1>4. QED
  BY <1>2, <1>3

LEMMA KeptIs ==
  ASSUME NEW S, NEW ms \in Seq(S), NEW kept
  PROVE  Kept(ms, kept) \in Seq(S) /\ Selected(Kept(ms, kept), ms, kept, Len(ms))
<1> DEFINE n == Len(ms)
           p == Passes(ms, kept)
           R == {i \in 0..n : p[i] \in Seq(S) /\ Selected(p[i], ms, kept, i)}
<1>1. n \in Nat /\ \A i \in 1..n : ms[i] \in S
  OBVIOUS
<1>2. p[0] = <<>> /\ \A i \in 1..n : p[i] = Pass(p[i - 1], ms[i], kept)
  BY PassesIs
<1> HIDE DEF p
<1>3. 0 \in R
  <2>1. p[0] \in Seq(S) /\ DOMAIN p[0] = {}
    BY <1>2
  <2>2. Selected(p[0], ms, kept, 0)
    BY <2>1 DEF Selected
  <2>3. QED
    BY <1>1, <2>1, <2>2
<1>4. ASSUME NEW i \in 1..n, i - 1 \in R PROVE i \in R
  <2>1. PICK s : s = p[i - 1] /\ s \in Seq(S) /\ Selected(s, ms, kept, i - 1)
    BY <1>4
  <2>2. p[i] = Pass(s, ms[i], kept) /\ ms[i] \in S /\ i \in Nat \ {0}
    BY <1>1, <1>2, <2>1
  <2>3. Pass(s, ms[i], kept) \in Seq(S) /\ Selected(Pass(s, ms[i], kept), ms, kept, i)
    <3> HIDE DEF R
    <3>1. Selected(Pass(s, ms[i], kept), ms, kept, i)
      BY <2>1, <2>2, SelectedOn
    <3>2. QED
      BY <2>1, <2>2, <3>1, PassIs
  <2>4. QED
    BY <2>2, <2>3
<1>5. n \in R
  <2> HIDE DEF R
  <2>1. \A i \in 0..n : i \in R
    BY <1>1, <1>3, <1>4, UpTo
  <2>2. QED
    BY <1>1, <2>1
<1>6. QED
  BY <1>5 DEF Kept, p

(* Every method in kept is selected.                                       *)
LEMMA KeptAll ==
  ASSUME NEW S, NEW ms \in Seq(S), NEW kept, NEW x \in ToSet(ms), x \in kept
  PROVE  x \in ToSet(Kept(ms, kept))
<1> DEFINE n == Len(ms)
           p == Passes(ms, kept)
           R == {i \in 0..n : p[i] \in Seq(S) /\ \A c \in 1..i : ms[c] \in kept => ms[c] \in ToSet(p[i])}
<1>1. n \in Nat /\ \A i \in 1..n : ms[i] \in S
  OBVIOUS
<1>2. p[0] = <<>> /\ \A i \in 1..n : p[i] = Pass(p[i - 1], ms[i], kept)
  BY PassesIs
<1>3. PICK c \in 1..n : ms[c] = x
  BY DEF ToSet
<1> HIDE DEF p
<1>4. 0 \in R
  <2>1. p[0] \in Seq(S)
    BY <1>2
  <2>2. \A d \in 1..0 : ms[d] \in ToSet(p[0])
    OBVIOUS
  <2>3. 0 \in 0..n
    BY <1>1
  <2>4. QED
    BY <2>1, <2>2, <2>3
<1>5. ASSUME NEW i \in 1..n, i - 1 \in R PROVE i \in R
  <2>1. PICK t : t = p[i - 1] /\ t \in Seq(S) /\ \A d \in 1..i-1 : ms[d] \in kept => ms[d] \in ToSet(t)
    BY <1>5
  <2>2. PICK m, u : m = ms[i] /\ m \in S /\ u = Pass(t, m, kept) /\ u = p[i]
    BY <1>1, <1>2, <2>1
  <2>3. u \in Seq(S)
    BY <2>1, <2>2, PassIs
  <2>4. (\A y \in ToSet(t) : y \in ToSet(u)) /\ (m \in kept => m \in ToSet(u))
    <3>1. CASE m \notin kept
      BY <2>2, <3>1 DEF Pass
    <3>2. CASE m \in kept
      <4>1. u = Append(t, m)
        BY <2>2, <3>2 DEF Pass
      <4>2. /\ DOMAIN t = 1..Len(t) /\ Len(t) \in Nat /\ DOMAIN u = 1..Len(t)+1
            /\ u[Len(t) + 1] = m /\ \A d \in 1..Len(t) : u[d] = t[d]
        BY <2>1, <2>2, <4>1
      <4>3. Len(t) + 1 \in DOMAIN u /\ \A d \in 1..Len(t) : d \in DOMAIN u
        BY <4>2
      <4>4. QED
        BY <4>2, <4>3 DEF ToSet
    <3>3. QED
      BY <3>1, <3>2
  <2>5. \A d \in 1..i : d \in 1..i-1 \/ d = i
    BY <1>1
  <2>6. \A d \in 1..i : ms[d] \in kept => ms[d] \in ToSet(u)
    BY <2>1, <2>2, <2>4, <2>5
  <2>7. QED
    BY <2>2, <2>3, <2>6
<1>6. n \in R
  <2> HIDE DEF R
  <2>1. \A i \in 0..n : i \in R
    BY <1>1, <1>4, <1>5, UpTo
  <2>2. QED
    BY <1>1, <2>1
<1>7. QED
  BY <1>3, <1>6 DEF Kept, p

(* t is ms with m after its first k.                                       *)
Placed(t, ms, m, k) ==
  /\ k \in 0..Len(ms) /\ Len(t) = Len(ms) + 1
  /\ \A i \in 1..k : t[i] = ms[i]
  /\ t[k + 1] = m
  /\ \A i \in k+1..Len(ms) : t[i + 1] = ms[i]

LEMMA ConcatIs ==
  ASSUME NEW S, NEW a \in Seq(S), NEW b \in Seq(S)
  PROVE  /\ a \o b \in Seq(S) /\ Len(a) \in Nat /\ Len(b) \in Nat /\ Len(a \o b) = Len(a) + Len(b)
         /\ \A i \in 1..Len(a) : (a \o b)[i] = a[i]
         /\ \A i \in 1..Len(b) : (a \o b)[Len(a) + i] = b[i]
OBVIOUS

LEMMA Inserted ==
  ASSUME NEW S, NEW ms \in Seq(S), NEW m \in S, NEW k \in 0..Len(ms), NEW t,
         t = SubSeq(ms, 1, k) \o <<m>> \o SubSeq(ms, k + 1, Len(ms))
  PROVE  t \in Seq(S) /\ Placed(t, ms, m, k)
<1>1. PICK n : n = Len(ms) /\ n \in Nat
  OBVIOUS
<1>2. PICK a, b, c : a = SubSeq(ms, 1, k) /\ b = <<m>> /\ c = SubSeq(ms, k + 1, n)
  OBVIOUS
<1>3. /\ a \in Seq(S) /\ Len(a) = k /\ \A i \in 1..k : a[i] = ms[i]
      /\ b \in Seq(S) /\ Len(b) = 1 /\ b[1] = m
      /\ c \in Seq(S) /\ Len(c) = n - k
  BY <1>1, <1>2
<1>4. \A i \in 1..n-k : c[i] = ms[k + i]
  BY <1>1, <1>2
<1>5. PICK d : d = a \o b
  OBVIOUS
<1>6. d \in Seq(S) /\ Len(d) = k + 1 /\ (\A i \in 1..k : d[i] = ms[i]) /\ d[k + 1] = m
  <2>1. /\ d \in Seq(S) /\ Len(d) = k + 1 /\ \A i \in 1..k : d[i] = a[i]
        /\ \A i \in 1..1 : d[k + i] = b[i]
    <3>1. /\ a \o b \in Seq(S) /\ Len(a \o b) = Len(a) + Len(b)
          /\ \A i \in 1..Len(a) : (a \o b)[i] = a[i]
          /\ \A i \in 1..Len(b) : (a \o b)[Len(a) + i] = b[i]
      <4>1. a \in Seq(S) /\ b \in Seq(S)
        BY <1>3
      <4>2. QED
        BY <4>1, ConcatIs
    <3>2. QED
      BY <1>3, <1>5, <3>1
  <2>2. d[k + 1] = b[1]
    BY <2>1
  <2>3. QED
    BY <1>3, <2>1, <2>2
<1>7. t = d \o c
  BY <1>1, <1>2, <1>5
<1>8. /\ t \in Seq(S) /\ Len(t) = n + 1
      /\ \A i \in 1..k+1 : t[i] = d[i]
      /\ \A i \in 1..n-k : t[(k + 1) + i] = c[i]
  <2>1. /\ t \in Seq(S) /\ Len(t) = (k + 1) + (n - k)
        /\ \A i \in 1..k+1 : t[i] = d[i]
        /\ \A i \in 1..n-k : t[(k + 1) + i] = c[i]
    <3>1. /\ d \o c \in Seq(S) /\ Len(d \o c) = Len(d) + Len(c)
          /\ \A i \in 1..Len(d) : (d \o c)[i] = d[i]
          /\ \A i \in 1..Len(c) : (d \o c)[Len(d) + i] = c[i]
      <4>1. d \in Seq(S) /\ c \in Seq(S)
        BY <1>3, <1>6
      <4>2. QED
        BY <4>1, ConcatIs
    <3>2. QED
      BY <1>3, <1>6, <1>7, <3>1
  <2>2. k \in Nat /\ (k + 1) + (n - k) = n + 1
    BY <1>1
  <2>3. QED
    BY <2>1, <2>2
<1>9. \A i \in k+1..n : t[i + 1] = ms[i]
  <2>1. SUFFICES ASSUME NEW i \in k+1..n PROVE t[i + 1] = ms[i]
    OBVIOUS
  <2>2. i - k \in 1..n-k /\ (k + 1) + (i - k) = i + 1 /\ k + (i - k) = i
    BY <1>1
  <2>3. t[(k + 1) + (i - k)] = c[i - k] /\ c[i - k] = ms[k + (i - k)]
    BY <1>4, <1>8, <2>2
  <2>4. QED
    BY <2>2, <2>3
<1>10. QED
  <2>1. \A i \in 1..k : t[i] = ms[i]
    <3>1. \A i \in 1..k : i \in 1..k+1
      BY <1>1
    <3>2. QED
      BY <1>6, <1>8, <3>1
  <2>2. t[k + 1] = m
    <3>1. k + 1 \in 1..k+1
      BY <1>1
    <3>2. QED
      BY <1>6, <1>8, <3>1
  <2>3. QED
    BY <1>1, <1>8, <1>9, <2>1, <2>2 DEF Placed

(* m goes behind the last of the methods it does not precede.              *)
LEMMA PlaceIs ==
  ASSUME NEW S, NEW ms \in Seq(S), NEW m \in S, NEW args
  PROVE  /\ Place(ms, m, args) \in Seq(S)
         /\ \E k \in 0..Len(ms) :
              /\ Placed(Place(ms, m, args), ms, m, k)
              /\ \A j \in k+1..Len(ms) : MoreSpecific(m, ms[j], args)
              /\ k > 0 => ~MoreSpecific(m, ms[k], args)
<1> DEFINE n == Len(ms)
           stays == {j \in DOMAIN ms : ~MoreSpecific(m, ms[j], args)}
           front == {j \in DOMAIN ms : \E i \in stays : j <= i}
<1>1. n \in Nat /\ DOMAIN ms = 1..n
  OBVIOUS
<1>2. \E k \in 0..n : /\ front = 1..k
                      /\ \A j \in k+1..n : MoreSpecific(m, ms[j], args)
                      /\ k > 0 => ~MoreSpecific(m, ms[k], args)
  <2>1. CASE stays = {}
    <3>1. front = 1..0 /\ \A j \in 1..n : MoreSpecific(m, ms[j], args)
      BY <1>1, <2>1
    <3>2. QED
      BY <1>1, <3>1
  <2>2. CASE stays # {}
    <3>1. stays \subseteq Nat /\ \A j \in stays : j <= n
      BY <1>1
    <3>2. PICK k \in stays : \A j \in stays : j <= k
      <4> HIDE DEF stays
      <4>1. QED
        BY <1>1, <2>2, <3>1, Greatest
    <3>3. k \in 1..n /\ ~MoreSpecific(m, ms[k], args)
      BY <1>1, <3>2
    <3>4. \A j \in k+1..n : MoreSpecific(m, ms[j], args)
      <4>1. SUFFICES ASSUME NEW j \in k+1..n, ~MoreSpecific(m, ms[j], args) PROVE FALSE
        OBVIOUS
      <4>2. j \in stays /\ ~(j <= k)
        BY <1>1, <3>3, <4>1
      <4>3. QED
        BY <3>2, <4>2
    <3>5. front = 1..k
      <4> HIDE DEF stays
      <4>1. QED
        BY <1>1, <3>1, <3>2, <3>3
    <3>6. k \in 0..n
      BY <1>1, <3>3
    <3>7. QED
      BY <3>3, <3>4, <3>5, <3>6
  <2>3. QED
    BY <2>1, <2>2
<1>3. PICK k \in 0..n : /\ front = 1..k
                        /\ \A j \in k+1..n : MoreSpecific(m, ms[j], args)
                        /\ k > 0 => ~MoreSpecific(m, ms[k], args)
  BY <1>2
<1>4. Cardinality(front) = k
  <2> HIDE DEF stays, front
  <2>1. PICK a : a = 1
    OBVIOUS
  <2>2. Cardinality(a..k) = IF a > k THEN 0 ELSE k - a + 1
    BY <1>1, <2>1, FS_Interval
  <2>3. Cardinality(1..k) = k
    BY <1>1, <2>1, <2>2
  <2>4. QED
    BY <1>3, <2>3
<1>5. Place(ms, m, args) = SubSeq(ms, 1, k) \o <<m>> \o SubSeq(ms, k + 1, n)
  BY <1>4 DEF Place
<1> HIDE DEF stays, front
<1>6. Place(ms, m, args) \in Seq(S) /\ Placed(Place(ms, m, args), ms, m, k)
  BY <1>5, Inserted
<1>7. QED
  BY <1>3, <1>6

LEMMA TurnsAre ==
  ASSUME NEW S, NEW ms \in Seq(S), NEW args
  PROVE  /\ Turns(ms, args)[0] = <<>>
         /\ \A i \in 1..Len(ms) :
              Turns(ms, args)[i] = Place(Turns(ms, args)[i - 1], ms[i], args)
<1> PICK Z, b, n : Z = Seq(S) /\ b = <<>> /\ n = Len(ms)
  OBVIOUS
<1> DEFINE g == [i \in 1..n |-> [s \in Z |-> Place(s, ms[i], args)]]
<1>1. b \in Z /\ n \in Nat /\ \A i \in 1..n : ms[i] \in S
  OBVIOUS
<1>2. \A i \in 1..n : \A s \in Z : g[i][s] = Place(s, ms[i], args) /\ g[i][s] \in Z
  BY <1>1, PlaceIs
<1> HIDE DEF g
<1>3. PICK f : f \in Steps(n, Z, b, g)
  BY <1>1, <1>2, StepsExist
<1>4. f \in [0..n -> Z] /\ f[0] = b /\ \A i \in 1..n : f[i] = g[i][f[i - 1]]
  BY <1>3 DEF Steps
<1>5. \A i \in 1..n : f[i] = Place(f[i - 1], ms[i], args)
  <2>1. \A i \in 1..n : i - 1 \in 0..n /\ f[i - 1] \in Z
    BY <1>1, <1>4
  <2>2. QED
    BY <1>2, <1>4, <2>1
<1>6. f = [i \in 0..n |-> IF i = 0 THEN b ELSE Place(f[i - 1], ms[i], args)]
  BY <1>1, <1>4, <1>5
<1>7. PICK t : t = Turns(ms, args)
  OBVIOUS
<1>8. t = [i \in 0..n |-> IF i = 0 THEN b ELSE Place(t[i - 1], ms[i], args)]
  BY <1>6, <1>7 DEF Turns
<1>9. t[0] = b /\ \A i \in 1..n : t[i] = Place(t[i - 1], ms[i], args)
  <2>1. 0 \in 0..n /\ \A i \in 1..n : i \in 0..n /\ i # 0
    BY <1>1
  <2>2. \A i \in 0..n : t[i] = IF i = 0 THEN b ELSE Place(t[i - 1], ms[i], args)
    BY <1>8
  <2>3. QED
    BY <2>1, <2>2
<1>10. QED
  BY <1>7, <1>9

(* Sorting brings in no other methods.                                     *)
LEMMA SortedTyped ==
  ASSUME NEW S, NEW ms \in Seq(S), NEW args
  PROVE  Sorted(ms, args) \in Seq(S)
<1> DEFINE n == Len(ms)
           t == Turns(ms, args)
           R == {i \in 0..n : t[i] \in Seq(S)}
<1>1. n \in Nat /\ \A i \in 1..n : ms[i] \in S
  OBVIOUS
<1>2. t[0] = <<>> /\ \A i \in 1..n : t[i] = Place(t[i - 1], ms[i], args)
  BY TurnsAre
<1> HIDE DEF t
<1>3. 0 \in R
  <2>1. t[0] \in Seq(S)
    BY <1>2
  <2>2. QED
    BY <1>1, <2>1
<1>4. ASSUME NEW i \in 1..n, i - 1 \in R PROVE i \in R
  <2>1. PICK s : s = t[i - 1] /\ s \in Seq(S)
    BY <1>4
  <2>2. Place(s, ms[i], args) \in Seq(S)
    <3> HIDE DEF R
    <3>1. QED
      BY <1>1, <2>1, PlaceIs
  <2>3. QED
    BY <1>2, <2>1, <2>2
<1>5. n \in R
  <2> HIDE DEF R
  <2>1. \A i \in 0..n : i \in R
    BY <1>1, <1>3, <1>4, UpTo
  <2>2. QED
    BY <1>1, <2>1
<1>6. QED
  BY <1>5 DEF Sorted, t

-----------------------------------------------------------------------------
(* The type of the state.                                                  *)

Frames == Dispatches \cup Bodies \cup Catches

Methods == [specializers : Seq(Ids), qualifier : Qualifiers]

TablesOK ==
  /\ generics \in Seq(Seq(1..Len(methods)))
  /\ function \in [GenericNames -> 0..Len(generics)]
  /\ methods \in Seq(Methods)

StackOK ==
  /\ calls \in Seq(Frames) /\ Len(calls) <= MaxCalls
  /\ cnm_stack \in Seq(Contexts) /\ Len(cnm_stack) <= CNM_STACK_MAX

FlagsOK == cut \in BOOLEAN /\ broken \in BOOLEAN /\ spent \in 0..Budget

LEMMA TypeParts == TypeOK <=> ClassTypeOK /\ TablesOK /\ StackOK /\ FlagsOK
BY DEF TypeOK, TablesOK, StackOK, FlagsOK, Frames, Methods

LEMMA SeqWidens ==
  ASSUME NEW S, NEW Q, NEW s \in Seq(S), \A x \in S : x \in Q
  PROVE  s \in Seq(Q)
<1>1. s \in [1..Len(s) -> Q] /\ Len(s) \in Nat
  OBVIOUS
<1>2. QED
  BY <1>1, FunctionIsSeq

LEMMA RangeWidens ==
  ASSUME NEW a \in Nat, NEW b \in Nat, a <= b
  PROVE  /\ \A x \in 1..a : x \in 1..b
         /\ \A x \in 0..a : x \in 0..b
         /\ \A s \in Seq(1..a) : s \in Seq(1..b)
<1>1. \A x \in 1..a : x \in 1..b
  OBVIOUS
<1>2. \A s \in Seq(1..a) : s \in Seq(1..b)
  BY <1>1, SeqWidens
<1>3. QED
  BY <1>1, <1>2

(* No class, generic or method object is ever taken back.                  *)
Grown ==
  /\ Len(classes) \in Nat /\ Len(classes)' \in Nat /\ Len(classes) <= Len(classes)'
  /\ Len(generics) \in Nat /\ Len(generics)' \in Nat /\ Len(generics) <= Len(generics)'
  /\ Len(methods) \in Nat /\ Len(methods)' \in Nat /\ Len(methods) <= Len(methods)'

LEMMA FramesWiden ==
  ASSUME Grown
  PROVE  /\ \A x \in Frames : x \in Frames'
         /\ \A x \in Contexts : x \in Contexts'
         /\ \A x \in Methods : x \in Methods'
<1>1. \A s \in Seq(Ids) : s \in Seq(Ids)'
  BY RangeWidens DEF Grown, Ids
<1>2. \A s \in Seq(1..Len(methods)) : s \in Seq(1..Len(methods)')
  BY RangeWidens DEF Grown
<1>3. /\ \A x \in 1..Len(methods) : x \in 1..Len(methods)'
      /\ \A x \in 1..Len(generics) : x \in 1..Len(generics)'
  BY RangeWidens DEF Grown
<1>4. \A x \in Dispatches : x \in Dispatches'
  BY <1>1, <1>2, <1>3 DEF Dispatches
<1>5. \A x \in Bodies : x \in Bodies'
  BY <1>1, <1>3 DEF Bodies
<1>6. \A x \in Contexts : x \in Contexts'
  BY <1>1, <1>2 DEF Contexts
<1>7. \A x \in Methods : x \in Methods'
  BY <1>1 DEF Methods
<1>8. QED
  BY <1>4, <1>5, <1>6, <1>7 DEF Frames, Catches

LEMMA StackWidens ==
  ASSUME Grown, StackOK, UNCHANGED <<calls, cnm_stack>>
  PROVE  StackOK'
<1>1. PICK F, C : F = Frames' /\ C = Contexts'
  OBVIOUS
<1>2. (\A x \in Frames : x \in F) /\ \A x \in Contexts : x \in C
  BY <1>1, FramesWiden
<1>3. calls \in Seq(F) /\ cnm_stack \in Seq(C)
  BY <1>2, SeqWidens DEF StackOK
<1>4. QED
  BY <1>1, <1>3 DEF StackOK

LEMMA FramesSame ==
  ASSUME UNCHANGED <<classes, generics, methods>>
  PROVE  Frames' = Frames /\ Contexts' = Contexts /\ Methods' = Methods /\ Ids' = Ids
BY DEF Frames, Dispatches, Bodies, Contexts, Methods, Ids

LEMMA TablesSame ==
  ASSUME TablesOK, UNCHANGED <<classes, generics, function, methods>>
  PROVE  TablesOK'
BY FramesSame DEF TablesOK

LEMMA TypesInit == Init => TypeOK
<1> SUFFICES ASSUME Init PROVE TypeOK
  OBVIOUS
<1>1. ClassTypeOK
  BY SlotsInit DEF SInv
<1>2. TablesOK
  <2>1. PICK o : o = <<>>
    OBVIOUS
  <2>2. Len(o) = 0 /\ \A Z : o \in Seq(Z)
    BY <2>1
  <2>3. generics = o /\ methods = o /\ function = [g \in GenericNames |-> 0]
    BY <2>1 DEF Init
  <2>4. QED
    BY <2>2, <2>3 DEF TablesOK
<1>3. StackOK
  <2>1. PICK o, z : o = <<>> /\ z = 0
    OBVIOUS
  <2>2. Len(o) = z /\ \A Z : o \in Seq(Z)
    BY <2>1
  <2>3. z <= MaxCalls /\ z <= CNM_STACK_MAX
    BY <2>1, BoundsAssumption
  <2>4. calls = o /\ cnm_stack = o
    BY <2>1 DEF Init
  <2>5. QED
    BY <2>2, <2>3, <2>4 DEF StackOK
<1>4. FlagsOK
  <2>1. 0 \in 0..Budget
    BY BoundsAssumption
  <2>2. QED
    BY <2>1 DEF Init, FlagsOK
<1>5. QED
  BY <1>1, <1>2, <1>3, <1>4, TypeParts

(* The contexts stay contexts when the frames of some are gone.            *)
LEMMA OutlivingTyped ==
  ASSUME NEW h, cnm_stack \in Seq(Contexts)
  PROVE  Outlive(h) \in Seq(Contexts) /\ Len(Outlive(h)) = Len(cnm_stack)
<1>1. PICK n : n = Len(cnm_stack) /\ n \in Nat /\ DOMAIN cnm_stack = 1..n
  OBVIOUS
<1>2. \A c \in Contexts : [c EXCEPT !.live = @ /\ c.frame <= h] \in Contexts
  BY DEF Contexts
<1>3. \A i \in 1..n : cnm_stack[i] \in Contexts
  BY <1>1
<1>4. Outlive(h) \in [1..n -> Contexts]
  BY <1>1, <1>2, <1>3 DEF Outlive
<1>5. QED
  BY <1>1, <1>4, FunctionIsSeq

LEMMA PrefixTyped ==
  ASSUME NEW S, NEW s \in Seq(S), NEW h \in 0..Len(s)
  PROVE  SubSeq(s, 1, h) \in Seq(S) /\ Len(SubSeq(s, 1, h)) = h /\ h <= Len(s)
OBVIOUS

LEMMA ExitTyped ==
  ASSUME IInv, StackOK, TablesOK, FlagsOK, Exit,
         UNCHANGED <<classes, generics, function, methods, broken, spent>>
  PROVE  StackOK' /\ TablesOK' /\ FlagsOK'
<1>1. Landing \in 0..Len(calls) /\ Len(calls) \in Nat
  BY LandingRange, Facts DEF IInv
<1>2. SubSeq(calls, 1, Landing) \in Seq(Frames) /\ Len(SubSeq(calls, 1, Landing)) <= MaxCalls
  <2>1. PICK F, h, t : F = Frames /\ h = Landing /\ t = SubSeq(calls, 1, h)
    OBVIOUS
  <2>2. t \in Seq(F) /\ Len(t) = h /\ h <= Len(calls)
    BY <1>1, <2>1, PrefixTyped DEF StackOK
  <2>3. QED
    BY <1>1, <2>1, <2>2, BoundsAssumption DEF StackOK
<1>3. Outlive(Landing) \in Seq(Contexts) /\ Len(Outlive(Landing)) <= CNM_STACK_MAX
  BY OutlivingTyped DEF StackOK
<1>4. StackOK'
  BY <1>2, <1>3, FramesSame DEF Exit, StackOK
<1>5. TablesOK' /\ FlagsOK'
  BY TablesSame DEF Exit, FlagsOK
<1>6. QED
  BY <1>4, <1>5

LEMMA SpendTyped ==
  ASSUME FlagsOK, NEW n \in Nat, Spend(n)
  PROVE  spent' \in 0..Budget
BY BoundsAssumption DEF FlagsOK, Spend

LEMMA PushTyped ==
  ASSUME StackOK, NEW x \in Frames, Push(x)
  PROVE  calls' \in Seq(Frames) /\ Len(calls') <= MaxCalls
<1>1. PICK F : F = Frames /\ calls \in Seq(F) /\ x \in F
  BY DEF StackOK
<1>2. calls' = Append(calls, x) /\ Len(calls) < MaxCalls
  BY DEF Push
<1>3. calls' \in Seq(F) /\ Len(calls') = Len(calls) + 1 /\ Len(calls) \in Nat
  BY <1>1, <1>2
<1>4. QED
  BY <1>1, <1>2, <1>3, BoundsAssumption

(* The classes of bound names.                                             *)
LEMMA ResolvedTyped ==
  ASSUME TableOK, NEW names \in Seq(Names \cup BuiltInNames), \A i \in DOMAIN names : value[names[i]] # 0
  PROVE  Resolved(names) \in Seq(Ids) /\ Len(Resolved(names)) = Len(names)
<1>1. PICK n : n = Len(names) /\ n \in Nat /\ DOMAIN names = 1..n
  OBVIOUS
<1>2. \A i \in 1..n : value[names[i]] \in Ids
  <2>1. \A i \in 1..n : names[i] \in Names \cup BuiltInNames
    BY <1>1
  <2>2. \A i \in 1..n : value[names[i]] \in 0..Len(classes) /\ value[names[i]] # 0
    BY <1>1, <2>1 DEF TableOK
  <2>3. Len(classes) \in Nat
    BY Shape DEF TableOK
  <2>4. QED
    BY <2>2, <2>3 DEF Ids
<1>3. Resolved(names) \in [1..n -> Ids]
  BY <1>1, <1>2 DEF Resolved
<1>4. QED
  BY <1>1, <1>3, FunctionIsSeq

LEMMA ReverseIs ==
  ASSUME NEW S, NEW s \in Seq(S)
  PROVE  /\ Reverse(s) \in Seq(S) /\ Len(Reverse(s)) = Len(s) /\ Len(s) \in Nat
         /\ \A i \in 1..Len(s) : Reverse(s)[i] = s[Len(s) + 1 - i] /\ Len(s) + 1 - i \in 1..Len(s)
<1>1. PICK n : n = Len(s) /\ n \in Nat
  OBVIOUS
<1>2. Reverse(s) = [i \in 1..n |-> s[(n - i) + 1]]
  BY <1>1 DEF Reverse
<1>3. \A i \in 1..n : (n - i) + 1 = n + 1 - i /\ n + 1 - i \in 1..n /\ s[n + 1 - i] \in S
  BY <1>1
<1>4. Reverse(s) \in [1..n -> S]
  BY <1>2, <1>3
<1>5. Reverse(s) \in Seq(S) /\ Len(Reverse(s)) = n
  BY <1>1, <1>4
<1>6. QED
  BY <1>1, <1>2, <1>3, <1>5

(* The lists that a plan is made of.                                       *)
LEMMA QualifiedTyped ==
  ASSUME NEW S, NEW ms \in Seq(S), NEW q
  PROVE  Qualified(ms, q) \in Seq(S)
BY KeptIs DEF Qualified

IsRun(r, b, p, a) == r = b \o <<p[1]>> \o Reverse(a)

LEMMA RunTyped ==
  ASSUME NEW S, NEW b \in Seq(S), NEW p \in Seq(S), NEW a \in Seq(S), p # <<>>,
         NEW r, IsRun(r, b, p, a)
  PROVE  /\ r \in Seq(S) /\ Len(r) = Len(b) + 1 + Len(a) /\ Len(a) \in Nat /\ Len(b) \in Nat
         /\ \A i \in 1..Len(b) : r[i] = b[i]
         /\ r[Len(b) + 1] = p[1] /\ p[1] \in S
         /\ \A i \in 1..Len(a) : r[Len(b) + 1 + i] = a[Len(a) + 1 - i] /\ Len(a) + 1 - i \in 1..Len(a)
<1>1. PICK k, n, o, c, d : k = Len(b) /\ n = Len(a) /\ o = <<p[1]>> /\ c = b \o o /\ d = Reverse(a)
  OBVIOUS
<1>2. k \in Nat /\ n \in Nat /\ o \in Seq(S) /\ Len(o) = 1 /\ o[1] = p[1] /\ p[1] \in S
  BY <1>1
<1>3. /\ c \in Seq(S) /\ Len(c) = k + Len(o)
      /\ \A i \in 1..k : c[i] = b[i]
      /\ \A i \in 1..Len(o) : c[k + i] = o[i]
  BY <1>1, <1>2, ConcatIs
<1>4. /\ d \in Seq(S) /\ Len(d) = n
      /\ \A i \in 1..n : d[i] = a[n + 1 - i] /\ n + 1 - i \in 1..n
  BY <1>1, ReverseIs
<1>5. r = c \o d
  BY <1>1 DEF IsRun
<1>6. /\ c \o d \in Seq(S) /\ Len(c \o d) = Len(c) + Len(d)
      /\ \A i \in 1..Len(c) : (c \o d)[i] = c[i]
      /\ \A i \in 1..Len(d) : (c \o d)[Len(c) + i] = d[i]
  <2>1. c \in Seq(S) /\ d \in Seq(S)
    BY <1>3, <1>4
  <2>2. QED
    BY <2>1, ConcatIs
<1>7. c[k + 1] = p[1] /\ Len(c) = k + 1
  BY <1>2, <1>3
<1>8. r \in Seq(S) /\ Len(r) = k + 1 + n
  BY <1>2, <1>4, <1>5, <1>6, <1>7
<1>9. \A i \in 1..k+1 : r[i] = c[i]
  BY <1>5, <1>6, <1>7
<1>10. \A i \in 1..n : r[k + 1 + i] = d[i]
  BY <1>4, <1>5, <1>6, <1>7
<1>11. \A i \in 1..k : r[i] = b[i]
  <2>1. \A i \in 1..k : i \in 1..k+1
    BY <1>2
  <2>2. QED
    BY <1>3, <1>9, <2>1
<1>12. r[k + 1] = p[1]
  <2>1. k + 1 \in 1..k+1
    BY <1>2
  <2>2. QED
    BY <1>7, <1>9, <2>1
<1>13. QED
  BY <1>1, <1>2, <1>4, <1>8, <1>10, <1>11, <1>12

LEMMA DispatchedTyped ==
  ASSUME NEW gf \in 1..Len(generics), NEW args \in Seq(Ids), NEW ms \in Seq(1..Len(methods)),
         Qualified(ms, "primary") # <<>>
  PROVE  Dispatched(gf, args, ms) \in Dispatches
<1> PICK S : S = 1..Len(methods)
  OBVIOUS
<1> SUFFICES ASSUME NEW b, b = Qualified(ms, "before"), NEW p, p = Qualified(ms, "primary"),
                    NEW a, a = Qualified(ms, "after"), NEW r, r = Qualified(ms, "around")
             PROVE  Dispatched(gf, args, ms) \in Dispatches
  OBVIOUS
<1>1. b \in Seq(S) /\ p \in Seq(S) /\ a \in Seq(S) /\ r \in Seq(S) /\ p # <<>>
  BY QualifiedTyped
<1>2. PICK run : run = b \o <<p[1]>> \o Reverse(a)
  OBVIOUS
<1>3. run \in Seq(S) /\ Len(b) + 1 \in Nat
  <2>1. IsRun(run, b, p, a)
    BY <1>2 DEF IsRun
  <2>2. run \in Seq(S) /\ Len(b) \in Nat
    BY <1>1, <2>1, RunTyped
  <2>3. QED
    BY <2>2
<1>4. CASE r # <<>>
  <2>1. PICK one : one = <<r[1]>> /\ one \in Seq(S)
    <3>1. r[1] \in S
      BY <1>1, <1>4
    <3>2. <<r[1]>> \in Seq(S)
      BY <3>1
    <3>3. QED
      BY <3>2
  <2>2. Dispatched(gf, args, ms) = Plan(gf, args, one, 1, r)
    BY <1>4, <2>1 DEF Dispatched
  <2>3. QED
    BY <1>1, <2>1, <2>2 DEF Plan, Dispatches
<1>5. CASE r = <<>>
  <2>1. PICK k : k = Len(b) + 1
    OBVIOUS
  <2>2. Dispatched(gf, args, ms) = Plan(gf, args, run, k, p)
    BY <1>2, <1>5, <2>1 DEF Dispatched
  <2>3. QED
    BY <1>1, <1>3, <2>1, <2>2 DEF Plan, Dispatches
<1>6. QED
  BY <1>4, <1>5

LEMMA ChosenTyped ==
  ASSUME TablesOK, NEW gf \in 1..Len(generics), NEW args
  PROVE  Chosen(gf, args) \in Seq(1..Len(methods))
<1>1. PICK S, Q : S = 1..Len(methods) /\ Q = Seq(S)
  OBVIOUS
<1>2. generics \in Seq(Q) /\ gf \in DOMAIN generics
  BY <1>1 DEF TablesOK
<1>3. PICK ms : ms = generics[gf] /\ ms \in Seq(S)
  BY <1>1, <1>2
<1>4. PICK P : P = {m \in DOMAIN methods : Applicable(m, args)}
  OBVIOUS
<1>5. Kept(ms, P) \in Seq(S)
  BY <1>3, KeptIs
<1>6. Sorted(Kept(ms, P), args) \in Seq(S)
  BY <1>5, SortedTyped
<1>7. QED
  BY <1>1, <1>3, <1>4, <1>6 DEF Chosen

LEMMA CallTyped ==
  ASSUME SInv, StackOK, TablesOK, FlagsOK, Call
  PROVE  StackOK' /\ TablesOK' /\ FlagsOK'
<1>1. PICK g \in GenericNames, names \in ArgLists :
        /\ function[g] # 0 /\ Bound(names)
        /\ ~Refused(g, Resolved(names), Chosen(function[g], Resolved(names)))
        /\ Push(Dispatched(function[g], Resolved(names), Chosen(function[g], Resolved(names))))
  BY DEF Call
<1>2. PICK gf, args, ms : gf = function[g] /\ args = Resolved(names) /\ ms = Chosen(gf, args)
  OBVIOUS
<1>3. gf \in 1..Len(generics)
  <2>1. function[g] \in 0..Len(generics) /\ Len(generics) \in Nat
    BY DEF TablesOK
  <2>2. QED
    BY <1>1, <1>2, <2>1
<1>4. args \in Seq(Ids)
  BY <1>1, <1>2, ResolvedTyped, ArgsAssumption DEF Bound, SInv, MInv
<1>5. ms \in Seq(1..Len(methods))
  BY <1>2, <1>3, ChosenTyped
<1>6. Qualified(ms, "primary") # <<>>
  BY <1>1, <1>2 DEF Refused
<1>7. PICK x : x = Dispatched(gf, args, ms) /\ x \in Frames
  BY <1>3, <1>4, <1>5, <1>6, DispatchedTyped DEF Frames
<1>8. Push(x)
  BY <1>1, <1>2, <1>7
<1>9. calls' \in Seq(Frames) /\ Len(calls') <= MaxCalls
  BY <1>7, <1>8, PushTyped
<1>10. UNCHANGED <<classes, generics, function, methods, cnm_stack, cut, broken>>
  BY DEF Call
<1>11. StackOK' /\ TablesOK'
  BY <1>9, <1>10, FramesSame, TablesSame DEF StackOK
<1>12. FlagsOK'
  BY <1>10, SpendTyped, BoundsAssumption DEF Call, FlagsOK
<1>13. QED
  BY <1>11, <1>12

LEMMA DispatchFields ==
  ASSUME NEW d \in Frames, d.kind = "dispatch"
  PROVE  d \in Dispatches
BY DEF Frames, Dispatches, Bodies, Catches

LEMMA MethodFields ==
  ASSUME NEW b \in Frames, b.kind = "method"
  PROVE  b \in Bodies
BY DEF Frames, Dispatches, Bodies, Catches

LEMMA TopTyped ==
  ASSUME StackOK, calls # <<>>
  PROVE  Len(calls) \in 1..MaxCalls /\ Top \in Frames /\ \A i \in 1..Len(calls) : calls[i] \in Frames
<1>1. PICK F : F = Frames /\ calls \in Seq(F) /\ Len(calls) <= MaxCalls
  BY DEF StackOK
<1>2. Len(calls) \in Nat \ {0} /\ \A i \in 1..Len(calls) : calls[i] \in F
  BY <1>1
<1>3. QED
  BY <1>1, <1>2, BoundsAssumption DEF Top

LEMMA ReplaceTyped ==
  ASSUME NEW S, NEW s \in Seq(S), NEW i \in DOMAIN s, NEW e \in S, NEW t, t = [s EXCEPT ![i] = e]
  PROVE  t \in Seq(S) /\ Len(t) = Len(s)
OBVIOUS

LEMMA ProceedTyped ==
  ASSUME StackOK, TablesOK, FlagsOK, Proceed
  PROVE  StackOK' /\ TablesOK' /\ FlagsOK'
<1>1. PICK n, d, F : n = Len(calls) /\ d = Top /\ F = Frames
  OBVIOUS
<1>2. n \in 1..MaxCalls /\ d \in Dispatches /\ calls \in Seq(F) /\ n \in DOMAIN calls /\ calls[n] = d
  <2>1. Code("dispatch") /\ calls # <<>> /\ d.kind = "dispatch"
    BY <1>1 DEF Proceed, Code
  <2>2. n \in 1..MaxCalls /\ d \in Frames
    BY <1>1, <2>1, TopTyped
  <2>3. calls \in Seq(F)
    BY <1>1 DEF StackOK
  <2>4. n \in DOMAIN calls
    BY <1>1, <2>2, <2>3
  <2>5. QED
    BY <1>1, <2>1, <2>2, <2>3, <2>4, DispatchFields DEF Top
<1>3. PICK e, b : e = Started(d) /\ b = Body(d.run[d.next], d.args)
  OBVIOUS
<1>4. e \in Dispatches
  <2>1. PICK k, o : k = d.next + 1 /\ o = (d.next = d.main)
    OBVIOUS
  <2>2. k \in Nat \ {0} /\ o \in BOOLEAN
    BY <1>2, <2>1 DEF Dispatches
  <2>3. e = [d EXCEPT !.next = k, !.open = o]
    BY <1>3, <2>1 DEF Started
  <2>4. QED
    BY <1>2, <2>2, <2>3 DEF Dispatches
<1>5. b \in Bodies
  <2>1. d.run \in Seq(1..Len(methods)) /\ d.next \in Nat /\ d.args \in Seq(Ids) /\ d.next <= Len(d.run)
    BY <1>1, <1>2 DEF Dispatches, Proceed
  <2>2. d.next # 0
    BY <1>2 DEF Dispatches
  <2>3. d.run[d.next] \in 1..Len(methods)
    BY <2>1, <2>2
  <2>4. QED
    BY <1>3, <2>1, <2>3 DEF Body, Bodies
<1>6. PICK c : c = [calls EXCEPT ![n] = e]
  OBVIOUS
<1>7. calls' = Append(c, b) /\ n < MaxCalls
  BY <1>1, <1>2, <1>3, <1>6 DEF Proceed, Top
<1>8. c \in Seq(F) /\ Len(c) = n
  <2>1. e \in F
    BY <1>1, <1>4 DEF Frames
  <2>2. QED
    BY <1>1, <1>2, <1>6, <2>1, ReplaceTyped
<1>9. calls' \in Seq(F) /\ Len(calls') <= MaxCalls
  <2>1. b \in F
    BY <1>1, <1>5 DEF Frames
  <2>2. calls' \in Seq(F) /\ Len(calls') = n + 1 /\ n \in Nat
    BY <1>2, <1>7, <1>8, <2>1, BoundsAssumption
  <2>3. QED
    BY <1>7, <2>2, BoundsAssumption
<1>10. cnm_stack' \in Seq(Contexts) /\ Len(cnm_stack') <= CNM_STACK_MAX
  <2>1. CASE d.next # d.main
    BY <1>1, <2>1 DEF Proceed, StackOK
  <2>2. CASE d.next = d.main
    <3>1. PICK x, C : x = Context(d) /\ C = Contexts
      OBVIOUS
    <3>2. PICK k : k = 1 /\ k \in Nat
      OBVIOUS
    <3>3. x = [frame |-> n, chain |-> d.chain, current |-> k, args |-> d.args, live |-> TRUE]
      BY <1>1, <3>1, <3>2 DEF Context
    <3>4. d.chain \in Seq(1..Len(methods)) /\ d.args \in Seq(Ids)
      BY <1>2 DEF Dispatches
    <3>5. x \in C
      BY <1>2, <3>1, <3>2, <3>3, <3>4 DEF Contexts
    <3>6. cnm_stack' = Append(cnm_stack, x) /\ Len(cnm_stack) < CNM_STACK_MAX /\ cnm_stack \in Seq(C)
      BY <1>1, <2>2, <3>1 DEF Proceed, StackOK
    <3>7. cnm_stack' \in Seq(C) /\ Len(cnm_stack') = Len(cnm_stack) + 1 /\ Len(cnm_stack) \in Nat
      BY <3>5, <3>6
    <3>8. QED
      BY <3>1, <3>6, <3>7, BoundsAssumption
  <2>3. QED
    BY <2>1, <2>2
<1>11. UNCHANGED <<classes, generics, function, methods, cut, broken, spent>>
  BY DEF Proceed
<1>12. QED
  BY <1>1, <1>9, <1>10, <1>11, FramesSame, TablesSame DEF StackOK, FlagsOK

LEMMA PopTyped ==
  ASSUME StackOK, calls # <<>>
  PROVE  Below \in Seq(Frames) /\ Len(Below) = Len(calls) - 1 /\ Len(Below) <= MaxCalls
<1>1. PICK F, n, h : F = Frames /\ n = Len(calls) /\ h = n - 1
  OBVIOUS
<1>2. n \in 1..MaxCalls /\ calls \in Seq(F)
  BY <1>1, TopTyped DEF StackOK
<1>3. h \in 0..Len(calls) /\ h <= MaxCalls
  BY <1>1, <1>2, BoundsAssumption
<1>4. Below = SubSeq(calls, 1, h)
  BY <1>1 DEF Below
<1>5. SubSeq(calls, 1, h) \in Seq(F) /\ Len(SubSeq(calls, 1, h)) = h
  BY <1>2, <1>3, PrefixTyped
<1>6. QED
  BY <1>1, <1>3, <1>4, <1>5

LEMMA ReturnToOpenTyped ==
  ASSUME IInv, StackOK, TablesOK, FlagsOK, ReturnToOpen
  PROVE  StackOK' /\ TablesOK' /\ FlagsOK'
<1>1. PICK n, F, b : n = Len(calls) - 1 /\ F = Frames /\ b = Below
  OBVIOUS
<1>2. calls # <<>> /\ Open(n) /\ Len(calls) \in Nat
  BY <1>1, Facts DEF ReturnToOpen, Code
<1>3. b \in Seq(F) /\ Len(b) = n /\ Len(b) <= MaxCalls /\ n \in Nat
  BY <1>1, <1>2, PopTyped, TopTyped, BoundsAssumption
<1>4. n \in 1..n /\ b[n] = calls[n] /\ calls[n] \in Dispatches
  <2>1. Len(calls) > 1
    <3>1. calls[Len(calls)].kind = "method" /\ Len(calls) \in DOMAIN calls
      BY <1>2, Facts DEF ReturnToOpen, Code, Top
    <3>2. QED
      BY <3>1 DEF IInv, FramesOK
  <2>2. n \in 1..n
    BY <1>1, <1>3, <2>1
  <2>3. b = SubSeq(calls, 1, n)
    BY <1>1 DEF Below
  <2>4. IsSeq(calls) /\ n \in 0..Len(calls)
    BY <1>1, <1>2, <2>2 DEF IInv, FramesOK
  <2>5. b[n] = calls[n]
    BY <2>2, <2>3, <2>4, Prefixed
  <2>6. calls[n] \in Frames
    BY <1>1, <1>2, <2>2, TopTyped
  <2>7. QED
    BY <1>2, <2>2, <2>5, <2>6, DispatchFields DEF Open
<1>5. PICK e : e = [calls[n] EXCEPT !.open = FALSE]
  OBVIOUS
<1>6. e \in F
  BY <1>1, <1>4, <1>5 DEF Dispatches, Frames
<1>7. calls' = [b EXCEPT ![n] = e]
  BY <1>1, <1>4, <1>5 DEF ReturnToOpen
<1>8. calls' \in Seq(F) /\ Len(calls') = Len(b)
  <2>1. n \in DOMAIN b
    BY <1>3, <1>4
  <2>2. QED
    BY <1>3, <1>6, <1>7, <2>1, ReplaceTyped
<1>9. cnm_stack' \in Seq(Contexts) /\ Len(cnm_stack') <= CNM_STACK_MAX
  <2>1. PICK C, m, h : C = Contexts /\ m = Len(cnm_stack) /\ h = m - 1
    OBVIOUS
  <2>2. cnm_stack \in Seq(C) /\ m <= CNM_STACK_MAX /\ cnm_stack' = SubSeq(cnm_stack, 1, h)
    BY <2>1 DEF StackOK, ReturnToOpen
  <2>3. m \in Nat \ {0}
    <3>1. n \in Opens
      BY <1>1, <1>2, <1>4, Facts DEF Opens
    <3>2. LiveContexts # {}
      BY <3>1 DEF IInv, EachOpenHasOne
    <3>3. QED
      BY <2>1, <3>2, Facts
  <2>4. h \in 0..Len(cnm_stack) /\ h <= CNM_STACK_MAX
    BY <2>1, <2>2, <2>3, BoundsAssumption
  <2>5. cnm_stack' \in Seq(C) /\ Len(cnm_stack') = h
    BY <2>2, <2>4, PrefixTyped
  <2>6. QED
    BY <2>1, <2>4, <2>5
<1>10. UNCHANGED <<classes, generics, function, methods, cut, broken, spent>>
  BY DEF ReturnToOpen
<1>11. QED
  BY <1>1, <1>3, <1>8, <1>9, <1>10, FramesSame, TablesSame DEF StackOK, FlagsOK

LEMMA ReturnTyped ==
  ASSUME StackOK, TablesOK, FlagsOK, Return \/ Finish
  PROVE  StackOK' /\ TablesOK' /\ FlagsOK'
<1>1. calls # <<>> /\ calls' = Below
  BY DEF Return, Finish, Code
<1>2. calls' \in Seq(Frames) /\ Len(calls') <= MaxCalls
  BY <1>1, PopTyped
<1>3. cnm_stack' \in Seq(Contexts) /\ Len(cnm_stack') <= CNM_STACK_MAX
  BY OutlivingTyped DEF Return, Finish, StackOK
<1>4. UNCHANGED <<classes, generics, function, methods, cut, broken, spent>>
  BY DEF Return, Finish
<1>5. QED
  BY <1>2, <1>3, <1>4, FramesSame, TablesSame DEF StackOK, FlagsOK

LEMMA CallNextMethodTyped ==
  ASSUME IInv, StackOK, TablesOK, FlagsOK, CallNextMethod
  PROVE  StackOK' /\ TablesOK' /\ FlagsOK'
<1>1. PICK m, C, x : m = Len(cnm_stack) /\ C = Contexts /\ x = Ctx
  OBVIOUS
<1>2. cnm_stack \in Seq(C) /\ m \in DOMAIN cnm_stack /\ x \in C /\ cnm_stack[m] = x
  <2>1. cnm_stack \in Seq(C) /\ cnm_stack # <<>>
    BY <1>1 DEF StackOK, CallNextMethod
  <2>2. m \in DOMAIN cnm_stack /\ cnm_stack[m] \in C
    BY <1>1, <2>1
  <2>3. QED
    BY <1>1, <2>1, <2>2 DEF Ctx
<1>3. x.current \in Nat /\ x.chain \in Seq(1..Len(methods)) /\ x.args \in Seq(Ids)
      /\ x.current < Len(x.chain)
  BY <1>1, <1>2 DEF Contexts, CallNextMethod
<1>4. PICK b : b = Body(x.chain[x.current + 1], x.args) /\ b \in Frames
  <2>1. PICK k, v : k = x.current + 1 /\ v = x.chain[k]
    OBVIOUS
  <2>2. k \in DOMAIN x.chain
    BY <1>3, <2>1
  <2>3. v \in 1..Len(methods)
    BY <1>3, <2>1, <2>2
  <2>4. Body(v, x.args) \in Bodies
    BY <1>3, <2>3 DEF Body, Bodies
  <2>5. QED
    BY <2>1, <2>4 DEF Frames
<1>5. Push(b)
  BY <1>1, <1>4 DEF CallNextMethod, NextMethod
<1>6. calls' \in Seq(Frames) /\ Len(calls') <= MaxCalls
  BY <1>4, <1>5, PushTyped
<1>7. PICK e : e = [x EXCEPT !.current = x.current + 1]
  OBVIOUS
<1>8. e \in C
  <2>1. x.current + 1 \in Nat
    BY <1>3
  <2>2. QED
    BY <1>1, <1>2, <1>7, <2>1 DEF Contexts
<1>9. cnm_stack' = [cnm_stack EXCEPT ![m] = e]
  BY <1>1, <1>2, <1>7 DEF CallNextMethod, Advanced
<1>10. cnm_stack' \in Seq(C) /\ Len(cnm_stack') = m
  BY <1>1, <1>2, <1>8, <1>9, ReplaceTyped
<1>11. UNCHANGED <<classes, generics, function, methods, cut, broken, spent>>
  BY DEF CallNextMethod
<1>12. QED
  BY <1>1, <1>6, <1>10, <1>11, FramesSame, TablesSame DEF StackOK, FlagsOK

LEMMA EnterCatchTyped ==
  ASSUME StackOK, TablesOK, FlagsOK, EnterCatch
  PROVE  StackOK' /\ TablesOK' /\ FlagsOK'
<1>1. PICK x : x = [kind |-> "catch"] /\ x \in Frames
  BY DEF Frames, Catches
<1>2. Push(x)
  BY <1>1 DEF EnterCatch
<1>3. calls' \in Seq(Frames) /\ Len(calls') <= MaxCalls
  BY <1>1, <1>2, PushTyped
<1>4. UNCHANGED <<classes, generics, function, methods, cnm_stack, cut, broken>>
  BY DEF EnterCatch
<1>5. FlagsOK'
  BY <1>4, SpendTyped, BoundsAssumption DEF EnterCatch, FlagsOK
<1>6. QED
  BY <1>3, <1>4, <1>5, FramesSame, TablesSame DEF StackOK

LEMMA LengthsTyped ==
  ASSUME TablesOK, MInv
  PROVE  Len(classes) \in Nat /\ Len(generics) \in Nat /\ Len(methods) \in Nat
<1>1. PICK Z, F : Z = Seq(1..Len(methods)) /\ F = Methods
  OBVIOUS
<1>2. generics \in Seq(Z) /\ methods \in Seq(F)
  BY <1>1 DEF TablesOK
<1>3. QED
  BY <1>2, Shape DEF MInv, TableOK

LEMMA EndClassTyped ==
  ASSUME MInv, MInv', StackOK, TablesOK, FlagsOK, EndClass
  PROVE  StackOK' /\ TablesOK' /\ FlagsOK'
<1>1. UNCHANGED <<generics, function, methods, calls, cnm_stack, cut, broken, spent>>
  BY DEF EndClass
<1>2. PICK d : classes' = Append(classes, d)
  BY DEF EndClass, Finalize
<1>3. Len(classes)' = Len(classes) + 1
  BY <1>2, Appended DEF MInv, TableOK
<1>4. Grown
  BY <1>1, <1>3, LengthsTyped DEF Grown
<1>5. StackOK'
  BY <1>1, <1>4, StackWidens
<1>6. methods \in Seq(Methods')
  <2>1. PICK F : F = Methods'
    OBVIOUS
  <2>2. \A x \in Methods : x \in F
    BY <1>4, <2>1, FramesWiden
  <2>3. QED
    BY <2>1, <2>2, SeqWidens DEF TablesOK
<1>7. QED
  BY <1>1, <1>5, <1>6 DEF TablesOK, FlagsOK

LEMMA DefGenericTyped ==
  ASSUME MInv, StackOK, TablesOK, FlagsOK, DefGeneric
  PROVE  StackOK' /\ TablesOK' /\ FlagsOK'
<1>1. PICK g \in GenericNames : /\ generics' = Append(generics, <<>>)
                                /\ function' = [function EXCEPT ![g] = Len(generics) + 1]
  BY DEF DefGeneric
<1>2. UNCHANGED <<classes, methods, calls, cnm_stack, cut, broken>>
  BY DEF DefGeneric
<1>3. PICK Z, o, n : Z = Seq(1..Len(methods)) /\ o = <<>> /\ n = Len(generics)
  OBVIOUS
<1>4. o \in Z /\ generics \in Seq(Z) /\ n \in Nat
  BY <1>3, LengthsTyped DEF TablesOK
<1>5. generics' \in Seq(Z) /\ Len(generics)' = n + 1
  BY <1>1, <1>3, <1>4
<1>6. Grown
  BY <1>2, <1>3, <1>4, <1>5, LengthsTyped DEF Grown
<1>7. function' \in [GenericNames -> 0..n+1]
  <2>1. \A x \in 0..n : x \in 0..n+1
    BY <1>4
  <2>2. function \in [GenericNames -> 0..n+1]
    BY <1>3, <2>1 DEF TablesOK
  <2>3. n + 1 \in 0..n+1
    BY <1>4
  <2>4. QED
    BY <1>1, <1>3, <2>2, <2>3
<1>8. methods' \in Seq(Methods')
  BY <1>2 DEF TablesOK, Methods, Ids
<1>9. StackOK'
  BY <1>2, <1>6, StackWidens
<1>10. FlagsOK'
  BY <1>2, SpendTyped, BoundsAssumption DEF DefGeneric, FlagsOK
<1>11. QED
  BY <1>2, <1>3, <1>5, <1>7, <1>8, <1>9, <1>10 DEF TablesOK

LEMMA WithMethodTyped ==
  ASSUME TablesOK, MInv, NEW gf \in 1..Len(generics), NEW specs, NEW q
  PROVE  WithMethod(gf, specs, q) \in Seq(1..Len(methods)+1)
<1>1. PICK n, S, Q, Z : n = Len(methods) /\ S = 1..n /\ Q = 1..n+1 /\ Z = Seq(S)
  OBVIOUS
<1>2. n \in Nat /\ generics \in Seq(Z) /\ gf \in DOMAIN generics
  BY <1>1, LengthsTyped DEF TablesOK
<1>3. PICK P, k : P = {m \in DOMAIN methods : ~Same(m, specs, q)} /\ k = Kept(generics[gf], P)
  OBVIOUS
<1>4. generics[gf] \in Seq(S)
  BY <1>1, <1>2
<1>5. k \in Seq(S)
  BY <1>3, <1>4, KeptIs
<1>6. (\A x \in S : x \in Q) /\ n + 1 \in Q
  BY <1>1, <1>2
<1>7. k \in Seq(Q)
  BY <1>5, <1>6, SeqWidens
<1>8. PICK o : o = <<n + 1>> /\ o \in Seq(Q)
  <2>1. PICK x : x = n + 1 /\ x \in Q
    BY <1>6
  <2>2. <<x>> \in Seq(Q)
    BY <2>1
  <2>3. QED
    BY <2>1, <2>2
<1>9. o \o k \in Seq(Q)
  BY <1>7, <1>8
<1>10. QED
  BY <1>1, <1>3, <1>8, <1>9 DEF WithMethod

LEMMA DefMethodTyped ==
  ASSUME MInv, StackOK, TablesOK, FlagsOK, DefMethod
  PROVE  StackOK' /\ TablesOK' /\ FlagsOK'
<1>1. PICK g \in GenericNames, names \in SpecLists, q \in Qualifiers :
        /\ function[g] # 0 /\ Specializers(names)
        /\ AddMethod(function[g], Resolved(names), q)
  BY DEF DefMethod
<1>2. UNCHANGED <<classes, function, calls, cnm_stack, cut, broken>>
  BY DEF DefMethod
<1>3. PICK n, gf, specs : n = Len(methods) /\ gf = function[g] /\ specs = Resolved(names)
  OBVIOUS
<1>4. n \in Nat /\ Len(generics) \in Nat
  BY <1>3, LengthsTyped
<1>5. gf \in 1..Len(generics)
  <2>1. function[g] \in 0..Len(generics)
    BY DEF TablesOK
  <2>2. QED
    BY <1>1, <1>3, <1>4, <2>1
<1>6. specs \in Seq(Ids)
  BY <1>1, <1>3, ResolvedTyped, ArgsAssumption DEF Specializers, MInv
<1>7. PICK m : m = [specializers |-> specs, qualifier |-> q] /\ m \in Methods
  <2>1. [specializers |-> specs, qualifier |-> q] \in Methods
    BY <1>6 DEF Methods
  <2>2. QED
    BY <2>1
<1>8. methods' = Append(methods, m)
  BY <1>1, <1>3, <1>7 DEF AddMethod
<1>9. methods' \in Seq(Methods) /\ Len(methods)' = n + 1
  <2>1. PICK F : F = Methods /\ methods \in Seq(F) /\ m \in F
    BY <1>7 DEF TablesOK
  <2>2. Append(methods, m) \in Seq(F) /\ Len(Append(methods, m)) = Len(methods) + 1
    BY <2>1
  <2>3. QED
    BY <1>3, <1>8, <2>1, <2>2
<1>10. Methods' = Methods
  BY <1>2 DEF Methods, Ids
<1>11. PICK Z, w : Z = Seq(1..n+1) /\ w = WithMethod(gf, specs, q)
  OBVIOUS
<1>12. w \in Z
  BY <1>3, <1>5, <1>11, WithMethodTyped
<1>13. generics' = [generics EXCEPT ![gf] = w]
  BY <1>1, <1>3, <1>11 DEF AddMethod
<1>14. generics \in Seq(Z)
  <2>1. \A s \in Seq(1..n) : s \in Z
    BY <1>4, <1>11, RangeWidens
  <2>2. QED
    BY <1>3, <2>1, SeqWidens DEF TablesOK
<1>15. generics' \in Seq(Z) /\ Len(generics)' = Len(generics)
  BY <1>5, <1>12, <1>13, <1>14
<1>16. Grown
  BY <1>2, <1>3, <1>4, <1>9, <1>15, LengthsTyped DEF Grown
<1>17. StackOK'
  BY <1>2, <1>16, StackWidens
<1>18. FlagsOK'
  BY <1>2, SpendTyped, BoundsAssumption DEF DefMethod, FlagsOK
<1>19. QED
  BY <1>2, <1>9, <1>10, <1>11, <1>15, <1>17, <1>18 DEF TablesOK

LEMMA QuietTyped ==
  ASSUME StackOK, TablesOK, FlagsOK, FlagsOK',
         UNCHANGED <<classes, generics, function, methods, calls, cnm_stack>>
  PROVE  StackOK' /\ TablesOK' /\ FlagsOK'
BY FramesSame, TablesSame DEF StackOK

LEMMA TypesInductive ==
  ASSUME SInv, SInv', IInv, TypeOK, [Next]_vars
  PROVE  TypeOK'
<1>1. MInv /\ MInv' /\ StackOK /\ TablesOK /\ FlagsOK /\ ClassTypeOK'
  BY TypeParts DEF SInv
<1> SUFFICES StackOK' /\ TablesOK' /\ FlagsOK'
  BY <1>1 DEF TypeOK, TablesOK, StackOK, FlagsOK, Frames, Methods
<1>2. CASE FormFails
  BY <1>1, <1>2, ExitTyped DEF FormFails
<1>3. CASE DefClass
  <2>1. UNCHANGED <<classes, generics, function, methods, calls, cnm_stack, cut, broken>>
    BY <1>3 DEF DefClass, StartClass
  <2>2. FlagsOK'
    BY <1>1, <1>3, <2>1, SpendTyped, BoundsAssumption DEF DefClass, FlagsOK
  <2>3. QED
    BY <1>1, <2>1, <2>2, QuietTyped
<1>4. CASE DefClassUnknown
  BY <1>1, <1>4, ExitTyped DEF DefClassUnknown
<1>5. CASE Merge
  BY <1>1, <1>5, QuietTyped DEF Merge, MergeTurn, FlagsOK
<1>6. CASE EndClass
  BY <1>1, <1>6, EndClassTyped
<1>7. CASE RefuseClass
  BY <1>1, <1>7, ExitTyped DEF RefuseClass, Refuse
<1>8. CASE DefGeneric
  BY <1>1, <1>8, DefGenericTyped
<1>9. CASE DefMethod
  BY <1>1, <1>9, DefMethodTyped
<1>10. CASE DefMethodFails
  BY <1>1, <1>10, ExitTyped DEF DefMethodFails
<1>11. CASE Call
  BY <1>1, <1>11, CallTyped
<1>12. CASE CallFails
  BY <1>1, <1>12, ExitTyped DEF CallFails
<1>13. CASE Proceed
  BY <1>1, <1>13, ProceedTyped
<1>14. CASE ProceedOverruns \/ CallNextMethodBreaks
  <2>1. UNCHANGED <<classes, generics, function, methods, calls, cnm_stack, cut, spent>> /\ broken' = TRUE
    BY <1>14 DEF ProceedOverruns, CallNextMethodBreaks
  <2>2. FlagsOK'
    BY <1>1, <2>1 DEF FlagsOK
  <2>3. QED
    BY <1>1, <2>1, <2>2, QuietTyped
<1>15. CASE ReturnToOpen
  BY <1>1, <1>15, ReturnToOpenTyped
<1>16. CASE Return \/ Finish
  BY <1>1, <1>16, ReturnTyped
<1>17. CASE EnterCatch
  BY <1>1, <1>17, EnterCatchTyped
<1>18. CASE Throw
  BY <1>1, <1>18, ExitTyped DEF Throw
<1>19. CASE CallNextMethod
  BY <1>1, <1>19, CallNextMethodTyped
<1>20. CASE CallNextMethodFails
  BY <1>1, <1>20, ExitTyped DEF CallNextMethodFails
<1>21. CASE UNCHANGED vars
  BY <1>1, <1>21, QuietTyped DEF vars, FlagsOK
<1>22. QED
  BY <1>2, <1>3, <1>4, <1>5, <1>6, <1>7, <1>8, <1>9, <1>10, <1>11, <1>12, <1>13, <1>14, <1>15,
     <1>16, <1>17, <1>18, <1>19, <1>20, <1>21 DEF Next

TInv == SInv /\ IInv /\ TypeOK

LEMMA TypedInit == Init => TInv
BY SlotsInit, Initially, TypesInit DEF TInv

LEMMA TypedInductive == TInv /\ [Next]_vars => TInv'
BY SlotsInductive, Inductive, TypesInductive DEF TInv

(* The tables of classes, generics and methods refer to each other, and    *)
(* the C stack and the contexts to them, only by what exists; the stack of *)
(* contexts is never longer than the array for it, and the C stack never   *)
(* deeper than its bound: the model stops at the write past the array's    *)
(* end, where broken is set (ls_dispatch_generic).                         *)
THEOREM GenericsTyped == Spec => []TypeOK
<1>1. TInv => TypeOK
  BY DEF TInv
<1>2. QED
  BY <1>1, TypedInit, TypedInductive, PTL DEF Spec

-----------------------------------------------------------------------------
(* The order of methods: what MoreSpecific compares are tuples of          *)
(* positions, the first difference decides.                                *)

Less(P, Q, n) == \E d \in 1..n : P[d] < Q[d] /\ \A e \in 1..d-1 : P[e] = Q[e]

LEMMA Differ ==
  ASSUME NEW n \in Nat, NEW P \in [1..n -> Nat], NEW Q \in [1..n -> Nat],
         NEW x \in 1..n, P[x] # Q[x]
  PROVE  Less(P, Q, n) \/ Less(Q, P, n)
<1> DEFINE D == {d \in 1..n : P[d] # Q[d]}
<1>1. D \subseteq Nat /\ D # {}
  <2>1. x \in D
    OBVIOUS
  <2>2. \A y \in D : y \in Nat
    OBVIOUS
  <2> HIDE DEF D
  <2>3. QED
    BY <2>1, <2>2
<1>2. PICK d \in D : \A y \in D : d <= y
  <2> HIDE DEF D
  <2>1. QED
    BY <1>1, Least
<1>3. d \in 1..n /\ P[d] \in Nat /\ Q[d] \in Nat /\ P[d] # Q[d]
  OBVIOUS
<1>4. \A e \in 1..d-1 : P[e] = Q[e]
  <2>1. SUFFICES ASSUME NEW e \in 1..d-1, P[e] # Q[e] PROVE FALSE
    OBVIOUS
  <2>2. e \in D /\ ~(d <= e)
    BY <1>3, <2>1
  <2>3. QED
    BY <1>2, <2>2
<1>5. P[d] < Q[d] \/ Q[d] < P[d]
  BY <1>3
<1>6. QED
  BY <1>3, <1>4, <1>5 DEF Less

LEMMA LessOneWay ==
  ASSUME NEW n \in Nat, NEW P \in [1..n -> Nat], NEW Q \in [1..n -> Nat], Less(P, Q, n)
  PROVE  ~Less(Q, P, n)
<1>1. SUFFICES ASSUME Less(Q, P, n) PROVE FALSE
  OBVIOUS
<1>2. PICK d \in 1..n : P[d] < Q[d] /\ \A e \in 1..d-1 : P[e] = Q[e]
  BY DEF Less
<1>3. PICK c \in 1..n : Q[c] < P[c] /\ \A e \in 1..c-1 : Q[e] = P[e]
  BY <1>1 DEF Less
<1>4. P[c] \in Nat /\ Q[c] \in Nat /\ P[d] \in Nat /\ Q[d] \in Nat
  OBVIOUS
<1>5. d < c \/ d = c \/ c < d
  OBVIOUS
<1>6. QED
  BY <1>2, <1>3, <1>4, <1>5

LEMMA LessOver ==
  ASSUME NEW n \in Nat, NEW P \in [1..n -> Nat], NEW Q \in [1..n -> Nat], NEW O \in [1..n -> Nat],
         ~Less(P, Q, n), ~Less(Q, O, n)
  PROVE  ~Less(P, O, n)
<1>1. SUFFICES ASSUME Less(P, O, n) PROVE FALSE
  OBVIOUS
<1>2. PICK i \in 1..n : P[i] < O[i] /\ \A e \in 1..i-1 : P[e] = O[e]
  BY <1>1 DEF Less
<1>3. \A x \in 1..n : P[x] \in Nat /\ Q[x] \in Nat /\ O[x] \in Nat
  OBVIOUS
<1>4. CASE \A x \in 1..n : P[x] = Q[x]
  <2>1. Q[i] < O[i] /\ \A e \in 1..i-1 : Q[e] = O[e]
    BY <1>2, <1>4
  <2>2. QED
    BY <2>1 DEF Less
<1>5. CASE \A x \in 1..n : Q[x] = O[x]
  <2>1. P[i] < Q[i] /\ \A e \in 1..i-1 : P[e] = Q[e]
    BY <1>2, <1>5
  <2>2. QED
    BY <2>1 DEF Less
<1>6. CASE ~(\A x \in 1..n : P[x] = Q[x]) /\ ~(\A x \in 1..n : Q[x] = O[x])
  <2>1. Less(Q, P, n) /\ Less(O, Q, n)
    BY <1>6, Differ
  <2>2. PICK d \in 1..n : Q[d] < P[d] /\ \A e \in 1..d-1 : Q[e] = P[e]
    BY <2>1 DEF Less
  <2>3. PICK c \in 1..n : O[c] < Q[c] /\ \A e \in 1..c-1 : O[e] = Q[e]
    BY <2>1 DEF Less
  <2>4. PICK f \in 1..n : f = IF d < c THEN d ELSE c
    OBVIOUS
  <2>5. O[f] < P[f] /\ \A e \in 1..f-1 : O[e] = P[e]
    <3>1. CASE d < c
      <4>1. f = d /\ O[d] = Q[d] /\ \A e \in 1..d-1 : e \in 1..c-1
        BY <2>3, <2>4, <3>1
      <4>2. QED
        BY <2>2, <2>3, <4>1
    <3>2. CASE d = c
      BY <1>3, <2>2, <2>3, <2>4, <3>2
    <3>3. CASE c < d
      <4>1. f = c /\ Q[c] = P[c] /\ \A e \in 1..c-1 : e \in 1..d-1
        BY <2>2, <2>4, <3>3
      <4>2. QED
        BY <2>2, <2>3, <4>1
    <3>4. QED
      BY <3>1, <3>2, <3>3
  <2>6. i < f \/ i = f \/ f < i
    OBVIOUS
  <2>7. QED
    BY <1>2, <1>3, <2>5, <2>6
<1>7. QED
  BY <1>4, <1>5, <1>6

-----------------------------------------------------------------------------
(* The places of methods in the order of a call.                           *)

(* The method has a specializer for each of the n required parameters.     *)
Fits(m, n) == m \in 1..Len(methods) /\ Len(methods[m].specializers) = n

Places(m, args, n) == [i \in 1..n |-> PositionOf(m, i, args)]

LEMMA PositionIs ==
  ASSUME TableOK, NEW c \in Ids, NEW target
  PROVE  /\ Position(c, target) \in Nat
         /\ target \in ToSet(classes[c].cpl) =>
              Position(c, target) \in DOMAIN classes[c].cpl /\ classes[c].cpl[Position(c, target)] = target
<1>1. PICK l, n : l = classes[c].cpl /\ n = Len(l)
  OBVIOUS
<1>2. l \in Seq(Ids) /\ n \in Nat /\ DOMAIN l = 1..n
  BY <1>1 DEF TableOK
<1>3. PICK at : at = {i \in 1..n : l[i] = target}
  OBVIOUS
<1>4. Position(c, target) = IF at = {} THEN n + 1 ELSE First(at)
  BY <1>1, <1>2, <1>3 DEF Position
<1>5. at # {} => First(at) \in at
  <2>1. at \in SUBSET (1..n)
    BY <1>3
  <2>2. QED
    BY <1>2, <2>1, FirstIn
<1>6. target \in ToSet(l) => at # {}
  BY <1>2, <1>3 DEF ToSet
<1>7. CASE at = {}
  BY <1>1, <1>2, <1>4, <1>6, <1>7
<1>8. CASE at # {}
  <2>1. First(at) \in 1..n /\ l[First(at)] = target
    BY <1>3, <1>5, <1>8
  <2>2. QED
    BY <1>1, <1>2, <1>4, <1>8, <2>1
<1>9. QED
  BY <1>7, <1>8

LEMMA PlacesTyped ==
  ASSUME TableOK, NEW args \in Seq(Ids), NEW n \in Nat, n <= Len(args), NEW m
  PROVE  /\ Places(m, args, n) \in [1..n -> Nat]
         /\ \A i \in 1..n : Places(m, args, n)[i] = PositionOf(m, i, args)
<1>1. \A i \in 1..n : args[i] \in Ids
  OBVIOUS
<1>2. \A i \in 1..n : PositionOf(m, i, args) \in Nat
  BY <1>1, PositionIs DEF PositionOf
<1>3. QED
  BY <1>2 DEF Places

LEMMA MoreSpecificIs ==
  ASSUME TableOK, TablesOK, NEW args \in Seq(Ids), NEW n \in Nat, n <= Len(args),
         NEW a, NEW b, Fits(a, n), Fits(b, n)
  PROVE  MoreSpecific(a, b, args) <=> Less(Places(a, args, n), Places(b, args, n), n)
<1>1. PICK P, Q : P = Places(a, args, n) /\ Q = Places(b, args, n)
  OBVIOUS
<1>2. /\ P \in [1..n -> Nat] /\ Q \in [1..n -> Nat]
      /\ \A i \in 1..n : P[i] = PositionOf(a, i, args) /\ Q[i] = PositionOf(b, i, args)
  BY <1>1, PlacesTyped
<1>3. DOMAIN args \cap DOMAIN methods[a].specializers \cap DOMAIN methods[b].specializers = 1..n
  <2>1. \A m \in 1..Len(methods) : methods[m].specializers \in Seq(Ids)
    <3>1. PICK F : F = Methods /\ methods \in Seq(F)
      BY DEF TablesOK
    <3>2. \A m \in 1..Len(methods) : methods[m] \in Methods
      BY <3>1
    <3>3. QED
      BY <3>2 DEF Methods
  <2>2. PICK x, y : x = methods[a].specializers /\ y = methods[b].specializers
    OBVIOUS
  <2>3. x \in Seq(Ids) /\ y \in Seq(Ids) /\ Len(x) = n /\ Len(y) = n
    BY <2>1, <2>2 DEF Fits
  <2>4. DOMAIN x = 1..n /\ DOMAIN y = 1..n /\ DOMAIN args = 1..Len(args) /\ Len(args) \in Nat
    BY <2>3
  <2>5. QED
    BY <2>2, <2>4
<1>4. PICK D : D = {d \in 1..n : P[d] # Q[d]}
  OBVIOUS
<1>5. Apart(a, b, args) = D
  BY <1>2, <1>3, <1>4 DEF Apart
<1>6. MoreSpecific(a, b, args) <=> D # {} /\ P[First(D)] < Q[First(D)]
  <2>1. D # {} => First(D) \in 1..n
    BY <1>4, FirstIn
  <2>2. QED
    BY <1>2, <1>5, <2>1 DEF MoreSpecific
<1>7. D # {} => First(D) \in D /\ \A j \in D : First(D) <= j
  <2>1. D # {} => \E i \in D : \A j \in D : i <= j
    <3>1. D \subseteq Nat
      BY <1>4
    <3>2. QED
      BY <3>1, Least
  <2>2. QED
    BY <2>1 DEF First
<1>8. ASSUME MoreSpecific(a, b, args) PROVE Less(P, Q, n)
  <2>1. PICK d : d = First(D)
    OBVIOUS
  <2>2. d \in 1..n /\ P[d] < Q[d] /\ \A j \in D : d <= j
    BY <1>4, <1>6, <1>7, <1>8, <2>1
  <2>3. ASSUME NEW e \in 1..d-1 PROVE P[e] = Q[e]
    <3>1. e \in 1..n /\ ~(d <= e)
      BY <2>2
    <3>2. QED
      BY <1>4, <2>2, <3>1
  <2>4. QED
    BY <2>2, <2>3 DEF Less
<1>9. ASSUME Less(P, Q, n) PROVE MoreSpecific(a, b, args)
  <2>1. PICK d \in 1..n : P[d] < Q[d] /\ \A e \in 1..d-1 : P[e] = Q[e]
    BY <1>9 DEF Less
  <2>2. d \in D
    BY <1>2, <1>4, <2>1
  <2>3. PICK f : f = First(D) /\ f \in D /\ \A j \in D : f <= j
    BY <1>7, <2>2
  <2>4. f \in 1..n /\ P[f] # Q[f] /\ f <= d
    BY <1>4, <2>2, <2>3
  <2>5. f = d
    <3>1. ~(f \in 1..d-1)
      BY <2>1, <2>4
    <3>2. QED
      BY <2>4, <3>1
  <2>6. QED
    BY <1>6, <2>1, <2>2, <2>3, <2>5
<1>10. QED
  BY <1>1, <1>8, <1>9

(* Any two of the methods compare one way only, and what does not come     *)
(* before a method does not come before one that the method does not come  *)
(* after.                                                                  *)
Ranked(S, args) ==
  /\ \A a, b \in S : MoreSpecific(a, b, args) => ~MoreSpecific(b, a, args)
  /\ \A a, b, c \in S : ~MoreSpecific(a, b, args) /\ ~MoreSpecific(b, c, args) => ~MoreSpecific(a, c, args)

LEMMA FittingRanked ==
  ASSUME TableOK, TablesOK, NEW args \in Seq(Ids), NEW n \in Nat, n <= Len(args),
         NEW S, \A m \in S : Fits(m, n)
  PROVE  Ranked(S, args)
<1>1. ASSUME NEW a \in S, NEW b \in S, MoreSpecific(a, b, args) PROVE ~MoreSpecific(b, a, args)
  <2>1. PICK P, Q : P = Places(a, args, n) /\ Q = Places(b, args, n)
    OBVIOUS
  <2>2. P \in [1..n -> Nat] /\ Q \in [1..n -> Nat]
    BY <2>1, PlacesTyped
  <2>3. (MoreSpecific(a, b, args) <=> Less(P, Q, n)) /\ (MoreSpecific(b, a, args) <=> Less(Q, P, n))
    BY <2>1, MoreSpecificIs
  <2>4. QED
    BY <1>1, <2>2, <2>3, LessOneWay
<1>2. ASSUME NEW a \in S, NEW b \in S, NEW c \in S, ~MoreSpecific(a, b, args), ~MoreSpecific(b, c, args)
      PROVE  ~MoreSpecific(a, c, args)
  <2>1. PICK P, Q, O : P = Places(a, args, n) /\ Q = Places(b, args, n) /\ O = Places(c, args, n)
    OBVIOUS
  <2>2. P \in [1..n -> Nat] /\ Q \in [1..n -> Nat] /\ O \in [1..n -> Nat]
    BY <2>1, PlacesTyped
  <2>3. /\ MoreSpecific(a, b, args) <=> Less(P, Q, n)
        /\ MoreSpecific(b, c, args) <=> Less(Q, O, n)
        /\ MoreSpecific(a, c, args) <=> Less(P, O, n)
    BY <2>1, MoreSpecificIs
  <2>4. QED
    BY <1>2, <2>2, <2>3, LessOver
<1>3. QED
  BY <1>1, <1>2 DEF Ranked

(* A sorted list has no method behind one that it is more specific than.   *)
Sortedly(s, args) == \A i, j \in DOMAIN s : i < j => ~MoreSpecific(s[j], s[i], args)

LEMMA PlacedBack ==
  ASSUME NEW S, NEW ms \in Seq(S), NEW t, NEW m, NEW k, Placed(t, ms, m, k)
  PROVE  \A j \in 1..Len(ms)+1 :
           \/ j = k + 1 /\ t[j] = m
           \/ j \in 1..k /\ j \in DOMAIN ms /\ t[j] = ms[j]
           \/ j - 1 \in k+1..Len(ms) /\ j - 1 \in DOMAIN ms /\ t[j] = ms[j - 1]
<1> SUFFICES ASSUME NEW n, n = Len(ms), NEW j \in 1..n+1
             PROVE  \/ j = k + 1 /\ t[j] = m
                    \/ j \in 1..k /\ j \in DOMAIN ms /\ t[j] = ms[j]
                    \/ j - 1 \in k+1..n /\ j - 1 \in DOMAIN ms /\ t[j] = ms[j - 1]
  OBVIOUS
<1>1. n \in Nat /\ DOMAIN ms = 1..n /\ k \in 0..n
  BY DEF Placed
<1>2. CASE j = k + 1
  BY <1>2 DEF Placed
<1>3. CASE j \in 1..k
  BY <1>1, <1>3 DEF Placed
<1>4. CASE j - 1 \in k+1..n
  <2>1. t[(j - 1) + 1] = ms[j - 1] /\ (j - 1) + 1 = j
    BY <1>4 DEF Placed
  <2>2. QED
    BY <1>1, <1>4, <2>1
<1>5. QED
  BY <1>1, <1>2, <1>3, <1>4

LEMMA PlaceSorts ==
  ASSUME NEW S, NEW ms \in Seq(S), NEW m \in S, NEW args, Ranked(S, args), Sortedly(ms, args),
         IsInjective(ms), m \notin ToSet(ms), NEW t, t = Place(ms, m, args)
  PROVE  /\ t \in Seq(S) /\ Sortedly(t, args) /\ IsInjective(t)
         /\ \A x \in ToSet(t) : x = m \/ x \in ToSet(ms)
<1>1. PICK k \in 0..Len(ms) :
        /\ Placed(t, ms, m, k)
        /\ \A j \in k+1..Len(ms) : MoreSpecific(m, ms[j], args)
        /\ k > 0 => ~MoreSpecific(m, ms[k], args)
  BY PlaceIs
<1>2. t \in Seq(S)
  BY PlaceIs
<1>3. PICK n : n = Len(ms) /\ n \in Nat /\ DOMAIN ms = 1..n /\ Len(t) = n + 1 /\ DOMAIN t = 1..n+1
  <2>1. Len(t) = Len(ms) + 1 /\ Len(ms) \in Nat /\ DOMAIN ms = 1..Len(ms)
    BY <1>1 DEF Placed
  <2>2. DOMAIN t = 1..Len(t)
    BY <1>2
  <2>3. QED
    BY <2>1, <2>2
<1>4. \A j \in 1..n+1 : \/ j = k + 1 /\ t[j] = m
                        \/ j \in 1..k /\ j \in DOMAIN ms /\ t[j] = ms[j]
                        \/ j - 1 \in k+1..n /\ j - 1 \in DOMAIN ms /\ t[j] = ms[j - 1]
  BY <1>1, <1>3, PlacedBack
<1>5. \A j \in 1..n : ms[j] \in S /\ ms[j] # m
  <2>1. \A j \in 1..n : ms[j] \in S
    BY <1>3
  <2>2. QED
    BY <1>3, <2>1 DEF ToSet
<1>6. ASSUME NEW j \in 1..k PROVE ~MoreSpecific(m, ms[j], args)
  <2>1. k \in 1..n /\ ~MoreSpecific(m, ms[k], args) /\ j \in 1..n
    BY <1>1, <1>3
  <2>2. CASE j = k
    BY <2>1, <2>2
  <2>3. CASE j < k
    <3>1. ~MoreSpecific(ms[k], ms[j], args)
      BY <1>3, <2>1, <2>3 DEF Sortedly
    <3>2. QED
      BY <1>5, <2>1, <3>1 DEF Ranked
  <2>4. QED
    BY <2>1, <2>2, <2>3
<1>7. ASSUME NEW i \in 1..n+1, NEW j \in 1..n+1, i < j PROVE ~MoreSpecific(t[j], t[i], args)
  <2>1. CASE j = k + 1
    <3>1. i \in 1..k /\ t[i] = ms[i] /\ t[j] = m
      BY <1>4, <1>7, <2>1
    <3>2. QED
      BY <1>6, <3>1
  <2>2. CASE i = k + 1
    <3>1. j - 1 \in k+1..n /\ t[j] = ms[j - 1] /\ t[i] = m
      BY <1>4, <1>7, <2>2
    <3>2. MoreSpecific(m, ms[j - 1], args) /\ ms[j - 1] \in S
      BY <1>1, <1>3, <1>5, <3>1
    <3>3. QED
      BY <3>1, <3>2 DEF Ranked
  <2>3. CASE i # k + 1 /\ j # k + 1
    <3>1. PICK c : c \in 1..n /\ t[i] = ms[c] /\ ((c = i /\ c <= k) \/ (c = i - 1 /\ c > k))
      BY <1>3, <1>4, <2>3
    <3>2. PICK d : d \in 1..n /\ t[j] = ms[d] /\ ((d = j /\ d <= k) \/ (d = j - 1 /\ d > k))
      BY <1>3, <1>4, <2>3
    <3>3. c < d
      BY <1>7, <3>1, <3>2
    <3>4. QED
      BY <1>3, <3>1, <3>2, <3>3 DEF Sortedly
  <2>4. QED
    BY <2>1, <2>2, <2>3
<1>8. ASSUME NEW i \in 1..n+1, NEW j \in 1..n+1, t[i] = t[j] PROVE i = j
  <2>1. CASE i = k + 1 \/ j = k + 1
    BY <1>3, <1>4, <1>5, <1>8, <2>1
  <2>2. CASE i # k + 1 /\ j # k + 1
    <3>1. PICK c : c \in 1..n /\ t[i] = ms[c] /\ ((c = i /\ c <= k) \/ (c = i - 1 /\ c > k))
      BY <1>3, <1>4, <2>2
    <3>2. PICK d : d \in 1..n /\ t[j] = ms[d] /\ ((d = j /\ d <= k) \/ (d = j - 1 /\ d > k))
      BY <1>3, <1>4, <2>2
    <3>3. c = d
      BY <1>3, <1>8, <3>1, <3>2 DEF IsInjective
    <3>4. QED
      BY <3>1, <3>2, <3>3
  <2>3. QED
    BY <2>1, <2>2
<1>9. ASSUME NEW j \in 1..n+1 PROVE t[j] = m \/ t[j] \in ToSet(ms)
  BY <1>3, <1>4 DEF ToSet
<1>10. \A x \in ToSet(t) : x = m \/ x \in ToSet(ms)
  BY <1>3, <1>9 DEF ToSet
<1>11. Sortedly(t, args) /\ IsInjective(t)
  BY <1>3, <1>7, <1>8 DEF Sortedly, IsInjective
<1>12. QED
  BY <1>2, <1>10, <1>11

LEMMA SortedSorts ==
  ASSUME NEW S, NEW ms \in Seq(S), NEW args, Ranked(S, args), IsInjective(ms)
  PROVE  /\ Sorted(ms, args) \in Seq(S) /\ Sortedly(Sorted(ms, args), args) /\ IsInjective(Sorted(ms, args))
         /\ \A x \in ToSet(Sorted(ms, args)) : x \in ToSet(ms)
<1> DEFINE n == Len(ms)
           t == Turns(ms, args)
           Good(i, s) == /\ s \in Seq(S) /\ Sortedly(s, args) /\ IsInjective(s)
                         /\ \A x \in ToSet(s) : \E j \in 1..i : x = ms[j]
           R == {i \in 0..n : Good(i, t[i])}
<1>1. n \in Nat /\ DOMAIN ms = 1..n /\ \A i \in 1..n : ms[i] \in S
  OBVIOUS
<1>2. t[0] = <<>> /\ \A i \in 1..n : t[i] = Place(t[i - 1], ms[i], args)
  BY TurnsAre
<1> HIDE DEF t
<1>3. 0 \in R
  <2>1. PICK o : o = <<>>
    OBVIOUS
  <2>2. o \in Seq(S) /\ DOMAIN o = {}
    BY <2>1
  <2>3. ToSet(o) = {} /\ Sortedly(o, args) /\ IsInjective(o)
    BY <2>2 DEF ToSet, Sortedly, IsInjective
  <2>4. Good(0, o)
    BY <2>2, <2>3
  <2>5. t[0] = o /\ 0 \in 0..n
    BY <1>1, <1>2, <2>1
  <2> HIDE DEF Good
  <2>6. QED
    BY <2>4, <2>5
<1>4. ASSUME NEW i \in 1..n, i - 1 \in R PROVE i \in R
  <2>1. PICK s, m, r : s = t[i - 1] /\ m = ms[i] /\ r = t[i]
    OBVIOUS
  <2>2. Good(i - 1, s)
    BY <1>4, <2>1
  <2>3. r = Place(s, m, args) /\ m \in S
    BY <1>1, <1>2, <2>1
  <2>4. m \notin ToSet(s)
    <3>1. SUFFICES ASSUME m \in ToSet(s) PROVE FALSE
      OBVIOUS
    <3>2. PICK j \in 1..i-1 : m = ms[j]
      BY <2>2, <3>1
    <3>3. i \in DOMAIN ms /\ j \in DOMAIN ms /\ ms[i] = ms[j] /\ i # j
      BY <1>1, <2>1, <3>2
    <3> HIDE DEF R, Good
    <3>4. QED
      BY <3>3 DEF IsInjective
  <2>5. /\ r \in Seq(S) /\ Sortedly(r, args) /\ IsInjective(r)
        /\ \A x \in ToSet(r) : x = m \/ x \in ToSet(s)
    <3>1. s \in Seq(S) /\ Sortedly(s, args) /\ IsInjective(s)
      BY <2>2
    <3> HIDE DEF R, Good
    <3>2. QED
      BY <2>3, <2>4, <3>1, PlaceSorts
  <2>6. \A x \in ToSet(r) : \E j \in 1..i : x = ms[j]
    <3>1. i \in 1..i /\ \A j \in 1..i-1 : j \in 1..i
      OBVIOUS
    <3>2. QED
      BY <2>1, <2>2, <2>5, <3>1
  <2>7. Good(i, r)
    BY <2>5, <2>6
  <2> HIDE DEF Good
  <2>8. QED
    BY <2>1, <2>7
<1>5. Good(n, t[n])
  <2> HIDE DEF R
  <2>1. \A i \in 0..n : i \in R
    BY <1>1, <1>3, <1>4, UpTo
  <2>2. n \in R
    BY <1>1, <2>1
  <2> HIDE DEF Good
  <2>3. QED
    BY <2>2 DEF R
<1>6. Sorted(ms, args) = t[n]
  BY DEF Sorted, t
<1>7. \A x \in ToSet(t[n]) : x \in ToSet(ms)
  BY <1>1, <1>5 DEF ToSet
<1>8. QED
  BY <1>5, <1>6, <1>7

-----------------------------------------------------------------------------
(* The methods of a generic function, and the runs planned from them.      *)

(* No two methods of a list are for the same specializers and qualifier.   *)
Distinct(ms) ==
  /\ IsInjective(ms)
  /\ \A a, b \in ToSet(ms) : Same(a, methods[b].specializers, methods[b].qualifier) => a = b

MethodsOK == \A gf \in 1..Len(generics) : Distinct(generics[gf])

(* More specific methods come first on the list.                           *)
OverridesDown(s) == \A i, j \in DOMAIN s : Overrides(s[i], s[j]) => i <= j

(* What OverridesFirst says of one run.                                    *)
RunDown(run, main) ==
  \A i, j \in DOMAIN run : Overrides(run[i], run[j]) =>
    \/ (i < main) # (j < main) \/ (i > main) # (j > main)
    \/ i <= j /\ i < main
    \/ i >= j /\ i > main
    \/ i = j

(* The method that gets the context is the first of the chain.             *)
LeadsChain(x) == x.chain # <<>> /\ x.main \in DOMAIN x.run /\ x.run[x.main] = x.chain[1]

PlanOK(x) ==
  x.kind = "dispatch" =>
    /\ LeadsChain(x)
    /\ Congruent(x.gf, x.args) => OverridesDown(x.chain) /\ RunDown(x.run, x.main)

PlansOK == \A k \in DOMAIN calls : PlanOK(calls[k])

LEMMA PlansImply == PlansOK => OverridesFirst
BY DEF PlansOK, PlanOK, OverridesDown, RunDown, OverridesFirst

LEMMA MethodsTyped ==
  ASSUME TablesOK
  PROVE  /\ Len(methods) \in Nat /\ DOMAIN methods = 1..Len(methods)
         /\ \A m \in 1..Len(methods) :
              /\ methods[m].specializers \in Seq(Ids) /\ methods[m].qualifier \in Qualifiers
              /\ DOMAIN methods[m].specializers = 1..Len(methods[m].specializers)
              /\ Len(methods[m].specializers) \in Nat
<1>1. PICK F : F = Methods /\ methods \in Seq(F)
  BY DEF TablesOK
<1>2. Len(methods) \in Nat /\ DOMAIN methods = 1..Len(methods) /\ \A m \in 1..Len(methods) : methods[m] \in F
  BY <1>1
<1>3. \A m \in 1..Len(methods) : methods[m].specializers \in Seq(Ids) /\ methods[m].qualifier \in Qualifiers
  BY <1>1, <1>2 DEF Methods
<1>4. \A s \in Seq(Ids) : DOMAIN s = 1..Len(s) /\ Len(s) \in Nat
  OBVIOUS
<1>5. QED
  BY <1>2, <1>3, <1>4

(* A subclass is before its superclass on the list of a class.             *)
LEMMA SubclassFirst ==
  ASSUME TableOK, Monotone, NEW c \in Ids, NEW x \in Ids, NEW y \in Ids,
         Subclass(c, x), Subclass(c, y), Subclass(x, y)
  PROVE  /\ Position(c, x) \in Nat /\ Position(c, y) \in Nat /\ Position(c, x) <= Position(c, y)
         /\ Position(c, x) = Position(c, y) => x = y
<1>1. PICK l, p, q : l = classes[c].cpl /\ p = Position(c, x) /\ q = Position(c, y)
  OBVIOUS
<1>2. /\ p \in Nat /\ p \in DOMAIN l /\ l[p] = x
      /\ q \in Nat /\ q \in DOMAIN l /\ l[q] = y
  BY <1>1, PositionIs DEF Subclass
<1>3. Nested(l, classes)
  BY <1>1 DEF Monotone, AllNested, Ids
<1>4. PICK k \in DOMAIN l : p <= k /\ l[k] = y
  BY <1>2, <1>3 DEF Nested, Subclass
<1>5. k = q
  BY <1>2, <1>3, <1>4 DEF Nested, IsInjective
<1>6. QED
  BY <1>1, <1>2, <1>4, <1>5

(* Of two different methods with the same qualifier, one that overrides    *)
(* the other comes first.                                                  *)
LEMMA OverrideIsMoreSpecific ==
  ASSUME TableOK, TablesOK, Monotone, NEW args \in Seq(Ids), NEW n \in Nat, n <= Len(args),
         NEW a, NEW b, Fits(a, n), Fits(b, n), Applicable(a, args), Applicable(b, args),
         Overrides(a, b), methods[a].specializers # methods[b].specializers
  PROVE  MoreSpecific(a, b, args)
<1>1. PICK P, Q, x, y : /\ P = Places(a, args, n) /\ Q = Places(b, args, n)
                        /\ x = methods[a].specializers /\ y = methods[b].specializers
  OBVIOUS
<1>2. /\ P \in [1..n -> Nat] /\ Q \in [1..n -> Nat]
      /\ \A i \in 1..n : P[i] = PositionOf(a, i, args) /\ Q[i] = PositionOf(b, i, args)
  BY <1>1, PlacesTyped
<1>3. x \in Seq(Ids) /\ y \in Seq(Ids) /\ DOMAIN x = 1..n /\ DOMAIN y = 1..n
  BY <1>1, MethodsTyped DEF Fits
<1>4. ASSUME NEW i \in 1..n PROVE P[i] <= Q[i] /\ (P[i] = Q[i] => x[i] = y[i])
  <2>1. args[i] \in Ids /\ x[i] \in Ids /\ y[i] \in Ids /\ i \in DOMAIN args
    <3>1. x[i] \in Ids /\ y[i] \in Ids
      BY <1>3
    <3>2. i \in 1..Len(args)
      OBVIOUS
    <3>3. args[i] \in Ids /\ i \in DOMAIN args
      BY <3>2
    <3>4. QED
      BY <3>1, <3>3
  <2>2. Subclass(args[i], x[i]) /\ Subclass(args[i], y[i])
    BY <1>1, <1>3, <2>1 DEF Applicable
  <2>3. Subclass(x[i], y[i])
    BY <1>1, <1>3 DEF Overrides
  <2>4. P[i] = Position(args[i], x[i]) /\ Q[i] = Position(args[i], y[i])
    BY <1>1, <1>2 DEF PositionOf
  <2>5. PICK c, u, v : c = args[i] /\ u = x[i] /\ v = y[i]
    OBVIOUS
  <2>6. Position(c, u) <= Position(c, v) /\ (Position(c, u) = Position(c, v) => u = v)
    BY <2>1, <2>2, <2>3, <2>5, SubclassFirst
  <2>7. QED
    BY <2>4, <2>5, <2>6
<1>5. PICK i \in 1..n : x[i] # y[i]
  BY <1>1, <1>3
<1>6. P[i] # Q[i]
  BY <1>4, <1>5
<1>7. ~Less(Q, P, n)
  <2>1. SUFFICES ASSUME Less(Q, P, n) PROVE FALSE
    OBVIOUS
  <2>2. PICK d \in 1..n : Q[d] < P[d]
    BY <2>1 DEF Less
  <2>3. Q[d] \in Nat /\ P[d] \in Nat /\ P[d] <= Q[d]
    BY <1>2, <1>4
  <2>4. QED
    BY <2>2, <2>3
<1>8. Less(P, Q, n)
  BY <1>2, <1>6, <1>7, Differ
<1>9. QED
  BY <1>1, <1>8, MoreSpecificIs

(* The methods of a call, in order.                                        *)
Sound(ms, args, n) ==
  /\ Sortedly(ms, args) /\ IsInjective(ms)
  /\ \A m \in ToSet(ms) : Fits(m, n) /\ Applicable(m, args)
  /\ \A a, b \in ToSet(ms) : Same(a, methods[b].specializers, methods[b].qualifier) => a = b

LEMMA SelectedInjective ==
  ASSUME NEW S, NEW ms \in Seq(S), NEW kept, NEW k \in Seq(S), Selected(k, ms, kept, Len(ms)),
         IsInjective(ms)
  PROVE  IsInjective(k) /\ \A x \in ToSet(k) : x \in ToSet(ms) /\ x \in kept
<1>1. PICK n : n = Len(ms) /\ n \in Nat /\ DOMAIN ms = 1..n
  OBVIOUS
<1>2. \A x \in ToSet(k) : x \in ToSet(ms) /\ x \in kept
  BY <1>1 DEF Selected, ToSet
<1>3. \A i \in DOMAIN k : i \in Nat
  OBVIOUS
<1>4. ASSUME NEW i \in DOMAIN k, NEW j \in DOMAIN k, k[i] = k[j], i < j PROVE FALSE
  <2>1. PICK p \in 1..n, q \in 1..n : p < q /\ ms[p] = k[i] /\ ms[q] = k[j]
    BY <1>1, <1>4 DEF Selected
  <2>2. p = q
    BY <1>1, <1>4, <2>1 DEF IsInjective
  <2>3. QED
    BY <2>1, <2>2
<1>5. ASSUME NEW i \in DOMAIN k, NEW j \in DOMAIN k, k[i] = k[j] PROVE i = j
  BY <1>3, <1>4, <1>5
<1>6. IsInjective(k)
  BY <1>5 DEF IsInjective
<1>7. QED
  BY <1>2, <1>6

LEMMA ChosenSound ==
  ASSUME TableOK, TablesOK, NEW gf \in 1..Len(generics), NEW args \in Seq(Ids),
         NEW n \in Nat, n <= Len(args), Distinct(generics[gf]), \A m \in ToSet(generics[gf]) : Fits(m, n)
  PROVE  Chosen(gf, args) \in Seq(1..Len(methods)) /\ Sound(Chosen(gf, args), args, n)
<1>1. PICK S, Z : S = 1..Len(methods) /\ Z = Seq(S)
  OBVIOUS
<1>2. PICK ms : ms = generics[gf] /\ ms \in Seq(S)
  <2>1. generics \in Seq(Z) /\ gf \in DOMAIN generics
    BY <1>1 DEF TablesOK
  <2>2. QED
    BY <1>1, <2>1
<1>3. PICK P, k : P = {m \in DOMAIN methods : Applicable(m, args)} /\ k = Kept(ms, P)
  OBVIOUS
<1>4. k \in Seq(S) /\ Selected(k, ms, P, Len(ms))
  BY <1>2, <1>3, KeptIs
<1>5. IsInjective(k) /\ \A x \in ToSet(k) : x \in ToSet(ms) /\ x \in P
  BY <1>2, <1>4, SelectedInjective DEF Distinct
<1>6. PICK G : G = {m \in S : Fits(m, n)}
  OBVIOUS
<1>7. k \in Seq(G)
  <2>1. \A i \in DOMAIN k : k[i] \in S /\ k[i] \in ToSet(k)
    BY <1>4 DEF ToSet
  <2>2. \A i \in DOMAIN k : k[i] \in G
    BY <1>2, <1>5, <1>6, <2>1
  <2>3. DOMAIN k = 1..Len(k) /\ Len(k) \in Nat /\ k = [i \in DOMAIN k |-> k[i]]
    BY <1>4
  <2>4. k \in [1..Len(k) -> G]
    BY <2>2, <2>3
  <2>5. QED
    BY <2>3, <2>4, FunctionIsSeq
<1>8. Ranked(G, args)
  <2>1. \A m \in G : Fits(m, n)
    BY <1>6
  <2>2. QED
    BY <2>1, FittingRanked
<1>9. PICK s : s = Sorted(k, args)
  OBVIOUS
<1>10. /\ s \in Seq(G) /\ Sortedly(s, args) /\ IsInjective(s)
       /\ \A x \in ToSet(s) : x \in ToSet(k)
  BY <1>5, <1>7, <1>8, <1>9, SortedSorts
<1>11. s = Chosen(gf, args)
  BY <1>2, <1>3, <1>9 DEF Chosen
<1>12. s \in Seq(S)
  BY <1>6, <1>10, SeqWidens
<1>13. \A m \in ToSet(s) : Fits(m, n) /\ Applicable(m, args) /\ m \in ToSet(ms)
  BY <1>2, <1>3, <1>5, <1>10
<1>14. \A a, b \in ToSet(s) : Same(a, methods[b].specializers, methods[b].qualifier) => a = b
  BY <1>2, <1>13 DEF Distinct
<1>15. QED
  BY <1>1, <1>10, <1>11, <1>12, <1>13, <1>14 DEF Sound

LEMMA QualifiedDown ==
  ASSUME TableOK, TablesOK, Monotone, NEW args \in Seq(Ids), NEW n \in Nat, n <= Len(args),
         NEW ms \in Seq(1..Len(methods)), Sound(ms, args, n), NEW q
  PROVE  OverridesDown(Qualified(ms, q))
<1>1. PICK S, P, k : /\ S = 1..Len(methods) /\ P = {m \in DOMAIN methods : methods[m].qualifier = q}
                     /\ k = Qualified(ms, q)
  OBVIOUS
<1>2. k \in Seq(S) /\ Selected(k, ms, P, Len(ms)) /\ ms \in Seq(S)
  BY <1>1, KeptIs DEF Qualified
<1>3. IsInjective(k) /\ \A x \in ToSet(k) : x \in ToSet(ms) /\ x \in P
  BY <1>2, SelectedInjective DEF Sound
<1>4. \A i \in DOMAIN k : i \in Nat
  BY <1>2
<1>5. ASSUME NEW i \in DOMAIN k, NEW j \in DOMAIN k, Overrides(k[i], k[j]), j < i PROVE FALSE
  <2>1. PICK a, b : a = k[i] /\ b = k[j]
    OBVIOUS
  <2>2. a \in ToSet(ms) /\ b \in ToSet(ms) /\ a \in P /\ b \in P
    BY <1>3, <2>1 DEF ToSet
  <2>3. a # b
    BY <1>3, <1>4, <1>5, <2>1 DEF IsInjective
  <2>4. PICK c \in 1..Len(ms), d \in 1..Len(ms) : c < d /\ ms[c] = b /\ ms[d] = a
    <3>1. \A x, y \in DOMAIN k : x < y =>
            \E c, d \in 1..Len(ms) : c < d /\ ms[c] = k[x] /\ ms[d] = k[y]
      BY <1>2 DEF Selected
    <3>2. QED
      BY <1>5, <2>1, <3>1
  <2>5. ~MoreSpecific(a, b, args)
    BY <1>2, <2>4 DEF Sound, Sortedly
  <2>6. methods[a].specializers # methods[b].specializers
    <3>1. methods[a].qualifier = methods[b].qualifier
      BY <1>1, <2>2
    <3>2. QED
      BY <2>2, <2>3, <3>1 DEF Sound, Same
  <2>7. Fits(a, n) /\ Fits(b, n) /\ Applicable(a, args) /\ Applicable(b, args)
    BY <2>2 DEF Sound
  <2>8. MoreSpecific(a, b, args)
    BY <1>5, <2>1, <2>6, <2>7, OverrideIsMoreSpecific
  <2>9. QED
    BY <2>5, <2>8
<1>6. ASSUME NEW i \in DOMAIN k, NEW j \in DOMAIN k, Overrides(k[i], k[j]) PROVE i <= j
  BY <1>4, <1>5, <1>6
<1>7. QED
  BY <1>1, <1>6 DEF OverridesDown

LEMMA MembersTyped ==
  ASSUME TablesOK, NEW gf \in 1..Len(generics)
  PROVE  \A x \in ToSet(generics[gf]) : x \in 1..Len(methods)
<1>1. PICK S, Z : S = 1..Len(methods) /\ Z = Seq(S) /\ generics \in Seq(Z)
  BY DEF TablesOK
<1>2. PICK s : s = generics[gf] /\ s \in Seq(S)
  BY <1>1
<1>3. ASSUME NEW x \in ToSet(s) PROVE x \in S
  <2>1. PICK j \in DOMAIN s : x = s[j]
    BY <1>3 DEF ToSet
  <2>2. s[j] \in S
    BY <1>2
  <2>3. QED
    BY <2>1, <2>2
<1>4. QED
  BY <1>1, <1>2, <1>3

LEMMA DispatchedOK ==
  ASSUME TableOK, TablesOK, Monotone, NEW gf, NEW args \in Seq(Ids), NEW ms \in Seq(1..Len(methods)),
         Congruent(gf, args) => \E n \in Nat : n <= Len(args) /\ Sound(ms, args, n),
         Qualified(ms, "primary") # <<>>
  PROVE  PlanOK(Dispatched(gf, args, ms))
<1> PICK S : S = 1..Len(methods)
  OBVIOUS
<1>0. SUFFICES ASSUME NEW b, b = Qualified(ms, "before"), NEW p, p = Qualified(ms, "primary"),
                      NEW a, a = Qualified(ms, "after"), NEW o, o = Qualified(ms, "around")
               PROVE  PlanOK(Dispatched(gf, args, ms))
  OBVIOUS
<1>1. b \in Seq(S) /\ p \in Seq(S) /\ a \in Seq(S) /\ o \in Seq(S) /\ p # <<>>
  BY <1>0, QualifiedTyped
<1>2. Congruent(gf, args) => OverridesDown(b) /\ OverridesDown(p) /\ OverridesDown(a) /\ OverridesDown(o)
  BY <1>0, QualifiedDown
<1>3. PICK r : IsRun(r, b, p, a)
  BY DEF IsRun
<1>4. PICK k, l : k = Len(b) /\ l = Len(a)
  OBVIOUS
<1>5. /\ r \in Seq(S) /\ Len(r) = k + 1 + l /\ l \in Nat /\ k \in Nat
      /\ \A i \in 1..k : r[i] = b[i]
      /\ \A i \in 1..l : r[k + 1 + i] = a[l + 1 - i] /\ l + 1 - i \in 1..l
  <2>1. /\ r \in Seq(S) /\ Len(r) = Len(b) + 1 + Len(a) /\ Len(a) \in Nat /\ Len(b) \in Nat
        /\ \A i \in 1..Len(b) : r[i] = b[i]
        /\ \A i \in 1..Len(a) : r[Len(b) + 1 + i] = a[Len(a) + 1 - i] /\ Len(a) + 1 - i \in 1..Len(a)
    <3>1. b \in Seq(S) /\ p \in Seq(S) /\ a \in Seq(S) /\ p # <<>>
      BY <1>1
    <3>2. QED
      BY <1>3, <3>1, RunTyped
  <2>2. QED
    BY <1>4, <2>1
<1>6. DOMAIN b = 1..k /\ DOMAIN a = 1..l /\ DOMAIN r = 1..k+1+l
  BY <1>1, <1>4, <1>5
<1>7. Congruent(gf, args) => RunDown(r, k + 1)
  <2>1. SUFFICES ASSUME Congruent(gf, args), NEW i \in 1..k+1+l, NEW j \in 1..k+1+l, Overrides(r[i], r[j])
                 PROVE  \/ (i < k + 1) # (j < k + 1) \/ (i > k + 1) # (j > k + 1)
                        \/ i <= j /\ i < k + 1
                        \/ i >= j /\ i > k + 1
                        \/ i = j
    BY <1>6 DEF RunDown
  <2>2. CASE i < k + 1 /\ j < k + 1
    <3>1. i \in 1..k /\ j \in 1..k
      BY <1>5, <2>2
    <3>2. Overrides(b[i], b[j])
      BY <1>5, <2>1, <3>1
    <3>3. i <= j
      BY <1>2, <1>6, <2>1, <3>1, <3>2 DEF OverridesDown
    <3>4. QED
      BY <2>2, <3>3
  <2>3. CASE i > k + 1 /\ j > k + 1
    <3>1. PICK x, y : x = i - (k + 1) /\ y = j - (k + 1)
      OBVIOUS
    <3>2. x \in 1..l /\ y \in 1..l /\ i = k + 1 + x /\ j = k + 1 + y
      BY <1>5, <2>3, <3>1
    <3>3. r[i] = a[l + 1 - x] /\ l + 1 - x \in 1..l /\ r[j] = a[l + 1 - y] /\ l + 1 - y \in 1..l
      BY <1>5, <3>2
    <3>4. l + 1 - x <= l + 1 - y
      BY <1>2, <1>6, <2>1, <3>3 DEF OverridesDown
    <3>5. i >= j
      <4>1. l \in Nat /\ k \in Nat
        BY <1>5
      <4>2. QED
        BY <3>2, <3>4, <4>1
    <3>6. QED
      BY <2>3, <3>5
  <2>4. CASE i = k + 1 /\ j = k + 1
    BY <2>4
  <2>5. CASE (i < k + 1) # (j < k + 1) \/ (i > k + 1) # (j > k + 1)
    BY <2>5
  <2>6. QED
    <3>1. i \in Nat /\ j \in Nat /\ k + 1 \in Nat
      BY <1>5
    <3>2. \/ i < k + 1 /\ j < k + 1
          \/ i > k + 1 /\ j > k + 1
          \/ i = k + 1 /\ j = k + 1
          \/ (i < k + 1) # (j < k + 1) \/ (i > k + 1) # (j > k + 1)
      BY <3>1
    <3>3. QED
      BY <2>2, <2>3, <2>4, <2>5, <3>2
<1>8. CASE o # <<>>
  <2>1. PICK s, u : s = <<o[1]>> /\ u = 1
    OBVIOUS
  <2>2. DOMAIN s = {1}
    BY <2>1
  <2>3. RunDown(s, u)
    BY <2>2 DEF RunDown
  <2>6. u \in DOMAIN s /\ s[u] = o[1]
    BY <2>1
  <2>4. Dispatched(gf, args, ms) = Plan(gf, args, s, u, o)
    BY <1>0, <1>8, <2>1 DEF Dispatched
  <2>5. QED
    BY <1>2, <1>8, <2>3, <2>4, <2>6 DEF Plan, PlanOK, LeadsChain
<1>9. CASE o = <<>>
  <2>1. PICK u : u = k + 1
    OBVIOUS
  <2>2. Dispatched(gf, args, ms) = Plan(gf, args, r, u, p)
    BY <1>0, <1>3, <1>4, <1>9, <2>1 DEF Dispatched, IsRun
  <2>3. Congruent(gf, args) => RunDown(r, u)
    BY <1>7, <2>1
  <2>4. u \in DOMAIN r /\ r[u] = p[1]
    <3>1. r[k + 1] = p[1]
      BY <1>1, <1>3, <1>4, RunTyped
    <3>2. k + 1 \in 1..k+1+l
      BY <1>5
    <3>3. QED
      BY <1>6, <2>1, <3>1, <3>2
  <2>5. QED
    BY <1>1, <1>2, <2>2, <2>3, <2>4 DEF Plan, PlanOK, LeadsChain
<1>10. QED
  BY <1>8, <1>9

-----------------------------------------------------------------------------
(* What the steps make of the C stack.                                     *)

LEMMA PushIs ==
  ASSUME IInv, NEW x, Push(x), NEW n, n = Len(calls)
  PROVE  /\ n \in Nat /\ DOMAIN calls = 1..n /\ DOMAIN calls' = 1..n+1 /\ Len(calls)' = n + 1
         /\ calls'[n + 1] = x /\ \A i \in 1..n : calls'[i] = calls[i]
<1>1. /\ IsSeq(calls') /\ Len(calls') = n + 1 /\ calls'[n + 1] = x
      /\ \A i \in 1..n : calls'[i] = calls[i]
  BY Appended DEF Push, IInv, FramesOK
<1>2. QED
  BY <1>1, Facts, Shape

LEMMA PrefixIs ==
  ASSUME IInv, NEW h \in 0..Len(calls), calls' = SubSeq(calls, 1, h)
  PROVE  /\ h \in Nat /\ DOMAIN calls = 1..Len(calls) /\ DOMAIN calls' = 1..h /\ Len(calls)' = h
         /\ \A i \in 1..h : calls'[i] = calls[i] /\ i \in 1..Len(calls)
<1>1. IsSeq(calls') /\ Len(calls') = h /\ \A i \in 1..h : calls'[i] = calls[i]
  BY Prefixed DEF IInv, FramesOK
<1>2. h \in Nat /\ \A i \in 1..h : i \in 1..Len(calls)
  BY Facts
<1>3. QED
  BY <1>1, <1>2, Facts, Shape

LEMMA ProceedIs ==
  ASSUME IInv, StackOK, Proceed, NEW n, n = Len(calls)
  PROVE  /\ n \in Nat \ {0} /\ DOMAIN calls = 1..n /\ DOMAIN calls' = 1..n+1 /\ Len(calls)' = n + 1
         /\ calls[n] \in Dispatches /\ calls'[n] = Started(calls[n])
         /\ calls'[n + 1] = Body(Top.run[Top.next], Top.args)
         /\ \A i \in 1..n-1 : calls'[i] = calls[i]
<1>1. n \in Nat \ {0} /\ DOMAIN calls = 1..n /\ calls # <<>>
  BY Facts DEF Proceed, Code
<1>2. calls[n] \in Dispatches
  BY <1>1, TopTyped, DispatchFields DEF Proceed, Code, Top
<1>3. PICK e, b : e = Started(calls[n]) /\ b = Body(Top.run[Top.next], Top.args)
  OBVIOUS
<1>4. PICK c : c = [calls EXCEPT ![n] = e]
  OBVIOUS
<1>5. PICK S : calls \in Seq(S)
  BY DEF IInv, FramesOK, IsSeq
<1>6. calls \in Seq(S \cup {e})
  BY <1>5
<1>7. c \in Seq(S \cup {e}) /\ Len(c) = n /\ c[n] = e /\ \A i \in 1..n-1 : c[i] = calls[i]
  BY <1>1, <1>4, <1>6
<1>8. IsSeq(c)
  BY <1>7 DEF IsSeq
<1>9. calls' = Append(c, b)
  BY <1>3, <1>4 DEF Proceed
<1>10. /\ IsSeq(calls') /\ Len(calls') = n + 1 /\ calls'[n + 1] = b
       /\ \A i \in 1..n : calls'[i] = c[i]
  BY <1>7, <1>8, <1>9, Appended
<1>11. n \in 1..n /\ \A i \in 1..n-1 : i \in 1..n
  BY <1>1
<1>12. QED
  BY <1>1, <1>2, <1>3, <1>7, <1>10, <1>11, Shape

LEMMA ReturnToOpenIs ==
  ASSUME IInv, StackOK, ReturnToOpen, NEW n, n = Len(calls) - 1
  PROVE  /\ n \in Nat \ {0} /\ DOMAIN calls = 1..n+1 /\ DOMAIN calls' = 1..n /\ Len(calls)' = n
         /\ calls[n] \in Dispatches /\ calls'[n] = [calls[n] EXCEPT !.open = FALSE]
         /\ \A i \in 1..n-1 : calls'[i] = calls[i]
<1>1. Len(calls) \in Nat /\ DOMAIN calls = 1..Len(calls) /\ calls # <<>> /\ IsSeq(calls)
  BY Facts DEF ReturnToOpen, Code, IInv, FramesOK
<1>2. Len(calls) > 1
  <2>1. calls[Len(calls)].kind = "method" /\ Len(calls) \in DOMAIN calls
    BY <1>1, Facts DEF ReturnToOpen, Code, Top
  <2>2. QED
    BY <2>1 DEF IInv, FramesOK
<1>3. n \in Nat \ {0} /\ Len(calls) = n + 1 /\ n \in 0..Len(calls) /\ n \in 1..n+1
  BY <1>1, <1>2
<1>4. calls[n] \in Dispatches
  BY <1>1, <1>3, TopTyped, DispatchFields DEF ReturnToOpen, Open
<1>5. PICK b : b = SubSeq(calls, 1, n)
  OBVIOUS
<1>14. IsSeq(b) /\ Len(b) = n /\ \A i \in 1..n : b[i] = calls[i]
  BY <1>1, <1>3, <1>5, Prefixed
<1>6. PICK e : e = [calls[n] EXCEPT !.open = FALSE]
  OBVIOUS
<1>7. b[n] = calls[n]
  BY <1>3, <1>14
<1>8. calls' = [b EXCEPT ![n] = e]
  BY <1>3, <1>5, <1>6, <1>7 DEF ReturnToOpen, Below
<1>9. PICK S : b \in Seq(S)
  BY <1>14 DEF IsSeq
<1>10. b \in Seq(S \cup {e})
  BY <1>9
<1>11. DOMAIN calls' = 1..n /\ Len(calls') = n /\ calls'[n] = e /\ \A i \in 1..n-1 : calls'[i] = b[i]
  <2>1. PICK Q : Q = S \cup {e} /\ b \in Seq(Q) /\ e \in Q
    BY <1>10
  <2>2. n \in DOMAIN b /\ DOMAIN b = 1..n
    BY <1>3, <1>14, <2>1
  <2>3. calls' \in Seq(Q) /\ Len(calls') = n
    BY <1>8, <1>14, <2>1, <2>2, ReplaceTyped
  <2>4. calls'[n] = e /\ \A i \in 1..n-1 : calls'[i] = b[i]
    <3>1. \A i \in 1..n-1 : i \in 1..n /\ i # n
      BY <1>3
    <3>2. QED
      BY <1>8, <2>2, <3>1
  <2>5. QED
    BY <1>3, <2>3, <2>4
<1>12. \A i \in 1..n-1 : i \in 1..n
  BY <1>3
<1>13. QED
  BY <1>1, <1>3, <1>4, <1>6, <1>11, <1>12, <1>14

-----------------------------------------------------------------------------
(* What was defined keeps its meaning as more is defined; methods that are *)
(* congruent were so before one was added.                                 *)
Stays ==
  /\ Len(methods)' \in Nat /\ Len(methods) <= Len(methods)'
  /\ \A m \in 1..Len(methods) : methods'[m] = methods[m]
  /\ \A c \in Ids : classes'[c] = classes[c]
  /\ \A gf \in 1..Len(generics) : \A args : Congruent(gf, args)' => Congruent(gf, args)

LEMMA OverridesStay ==
  ASSUME TablesOK, Stays, NEW a \in 1..Len(methods), NEW b \in 1..Len(methods)
  PROVE  Overrides(a, b)' <=> Overrides(a, b)
<1>1. PICK x, y : x = methods[a].specializers /\ y = methods[b].specializers
  OBVIOUS
<1>2. methods'[a].specializers = x /\ methods'[b].specializers = y
  BY <1>1 DEF Stays
<1>3. x \in Seq(Ids)
  BY <1>1, MethodsTyped
<1>4. \A i \in DOMAIN x : x[i] \in Ids
  BY <1>3
<1>5. \A i \in DOMAIN x : classes'[x[i]] = classes[x[i]]
  BY <1>4 DEF Stays
<1>6. QED
  BY <1>1, <1>2, <1>5 DEF Overrides, Subclass

LEMMA PlanStays ==
  ASSUME TablesOK, Stays, NEW x \in Frames, PlanOK(x)
  PROVE  PlanOK(x)'
<1> SUFFICES ASSUME x.kind = "dispatch" PROVE PlanOK(x)'
  BY DEF PlanOK
<1>1. x.chain \in Seq(1..Len(methods)) /\ x.run \in Seq(1..Len(methods)) /\ x.gf \in 1..Len(generics)
  BY DispatchFields DEF Dispatches
<1>2. PICK c, r, S : c = x.chain /\ r = x.run /\ S = 1..Len(methods)
  OBVIOUS
<1>3. (\A i \in DOMAIN c : c[i] \in S) /\ (\A i \in DOMAIN r : r[i] \in S)
  BY <1>1, <1>2
<1>4. \A a, b \in S : Overrides(a, b)' <=> Overrides(a, b)
  BY <1>2, OverridesStay
<1>5. OverridesDown(c) => OverridesDown(c)'
  BY <1>3, <1>4 DEF OverridesDown
<1>6. RunDown(r, x.main) => RunDown(r, x.main)'
  BY <1>3, <1>4 DEF RunDown
<1>7. Congruent(x.gf, x.args)' => Congruent(x.gf, x.args)
  BY <1>1 DEF Stays
<1>8. QED
  BY <1>2, <1>5, <1>6, <1>7 DEF PlanOK, LeadsChain

LEMMA PlansStay ==
  ASSUME TablesOK, StackOK, Stays, PlansOK, UNCHANGED calls
  PROVE  PlansOK'
<1>1. PICK F : F = Frames /\ calls \in Seq(F)
  BY DEF StackOK
<1>2. \A k \in DOMAIN calls : calls[k] \in F
  BY <1>1
<1>3. ASSUME NEW k \in DOMAIN calls PROVE PlanOK(calls[k])'
  <2>1. PICK x : x = calls[k] /\ x = calls'[k]
    OBVIOUS
  <2>2. PlanOK(x) /\ x \in Frames
    BY <1>1, <1>2, <2>1 DEF PlansOK
  <2>3. PlanOK(x)'
    BY <2>2, PlanStays
  <2>4. QED
    BY <2>1, <2>3 DEF PlanOK, LeadsChain
<1>4. QED
  BY <1>3 DEF PlansOK

LEMMA PlansMove ==
  ASSUME UNCHANGED <<classes, methods, generics>>, \A k \in DOMAIN calls' : PlanOK(calls'[k])
  PROVE  PlansOK'
<1>1. \A a, b : Overrides(a, b)' <=> Overrides(a, b)
  BY DEF Overrides, Subclass
<1>2. ASSUME NEW k \in DOMAIN calls', NEW x, x = calls'[k] PROVE PlanOK(x)'
  <2>1. PlanOK(x)
    BY <1>2
  <2>2. OverridesDown(x.chain) => OverridesDown(x.chain)'
    BY <1>1 DEF OverridesDown
  <2>3. RunDown(x.run, x.main) => RunDown(x.run, x.main)'
    BY <1>1 DEF RunDown
  <2>4. Congruent(x.gf, x.args)' <=> Congruent(x.gf, x.args)
    BY DEF Congruent
  <2>5. QED
    BY <2>1, <2>2, <2>3, <2>4 DEF PlanOK, LeadsChain
<1>3. QED
  BY <1>2 DEF PlansOK

LEMMA PlansPush ==
  ASSUME IInv, PlansOK, NEW x, Push(x), PlanOK(x), UNCHANGED <<classes, methods, generics>>
  PROVE  PlansOK'
<1>1. PICK n : n = Len(calls)
  OBVIOUS
<1>2. /\ n \in Nat /\ DOMAIN calls = 1..n /\ DOMAIN calls' = 1..n+1
      /\ calls'[n + 1] = x /\ \A i \in 1..n : calls'[i] = calls[i]
  BY <1>1, PushIs
<1>3. \A k \in 1..n+1 : k \in 1..n \/ k = n + 1
  BY <1>2
<1>4. \A k \in DOMAIN calls' : PlanOK(calls'[k])
  BY <1>2, <1>3 DEF PlansOK
<1>5. QED
  BY <1>4, PlansMove

LEMMA PlansPrefix ==
  ASSUME IInv, PlansOK, NEW h \in 0..Len(calls), calls' = SubSeq(calls, 1, h),
         UNCHANGED <<classes, methods, generics>>
  PROVE  PlansOK'
<1>1. /\ DOMAIN calls = 1..Len(calls) /\ DOMAIN calls' = 1..h
      /\ \A i \in 1..h : calls'[i] = calls[i] /\ i \in 1..Len(calls)
  BY PrefixIs
<1>2. \A k \in DOMAIN calls' : PlanOK(calls'[k])
  BY <1>1 DEF PlansOK
<1>3. QED
  BY <1>2, PlansMove

LEMMA PlansExit ==
  ASSUME IInv, PlansOK, Exit, UNCHANGED <<classes, methods, generics>>
  PROVE  PlansOK'
<1>1. PICK h : h = Landing /\ h \in 0..Len(calls) /\ calls' = SubSeq(calls, 1, h)
  BY LandingRange DEF IInv, Exit
<1>2. QED
  BY <1>1, PlansPrefix

LEMMA PlansPop ==
  ASSUME IInv, PlansOK, calls # <<>>, calls' = Below, UNCHANGED <<classes, methods, generics>>
  PROVE  PlansOK'
<1>1. PICK h : h = Len(calls) - 1
  OBVIOUS
<1>2. h \in 0..Len(calls) /\ calls' = SubSeq(calls, 1, h)
  BY <1>1, Facts DEF Below
<1>3. QED
  BY <1>2, PlansPrefix

LEMMA PlansProceed ==
  ASSUME IInv, StackOK, PlansOK, Proceed
  PROVE  PlansOK'
<1>1. PICK n, x : n = Len(calls) /\ x = Body(Top.run[Top.next], Top.args)
  OBVIOUS
<1>2. /\ n \in Nat \ {0} /\ DOMAIN calls = 1..n /\ DOMAIN calls' = 1..n+1
      /\ calls[n] \in Dispatches /\ calls'[n] = Started(calls[n]) /\ calls'[n + 1] = x
      /\ \A i \in 1..n-1 : calls'[i] = calls[i]
  BY <1>1, ProceedIs
<1>3. \A k \in 1..n+1 : k \in 1..n-1 \/ k = n \/ k = n + 1
  BY <1>2
<1>4. \A k \in 1..n-1 : k \in 1..n
  BY <1>2
<1>5. PlanOK(x)
  BY <1>1 DEF PlanOK, Body
<1>6. PlanOK(Started(calls[n]))
  <2>1. PICK d, e : d = calls[n] /\ e = Started(d)
    OBVIOUS
  <2>2. d \in Dispatches /\ PlanOK(d)
    BY <1>2, <2>1 DEF PlansOK
  <2>3. e.kind = d.kind /\ e.chain = d.chain /\ e.run = d.run /\ e.main = d.main /\ e.gf = d.gf /\ e.args = d.args
    BY <2>1, <2>2 DEF Started, Dispatches
  <2>4. QED
    BY <2>1, <2>2, <2>3 DEF PlanOK, LeadsChain
<1>7. \A k \in DOMAIN calls' : PlanOK(calls'[k])
  BY <1>2, <1>3, <1>4, <1>5, <1>6 DEF PlansOK
<1>8. QED
  BY <1>7, PlansMove DEF Proceed

LEMMA PlansReturnToOpen ==
  ASSUME IInv, StackOK, PlansOK, ReturnToOpen
  PROVE  PlansOK'
<1>1. PICK n : n = Len(calls) - 1
  OBVIOUS
<1>2. /\ n \in Nat \ {0} /\ DOMAIN calls = 1..n+1 /\ DOMAIN calls' = 1..n
      /\ calls[n] \in Dispatches /\ calls'[n] = [calls[n] EXCEPT !.open = FALSE]
      /\ \A i \in 1..n-1 : calls'[i] = calls[i]
  BY <1>1, ReturnToOpenIs
<1>3. \A k \in 1..n : (k \in 1..n-1 \/ k = n) /\ k \in 1..n+1
  BY <1>2
<1>4. PlanOK(calls'[n])
  <2>1. PICK d, e : d = calls[n] /\ e = calls'[n]
    OBVIOUS
  <2>2. d \in Dispatches /\ PlanOK(d)
    BY <1>2, <1>3, <2>1 DEF PlansOK
  <2>3. e.kind = d.kind /\ e.chain = d.chain /\ e.run = d.run /\ e.main = d.main /\ e.gf = d.gf /\ e.args = d.args
    BY <1>2, <2>1, <2>2 DEF Dispatches
  <2>4. QED
    BY <2>1, <2>2, <2>3 DEF PlanOK, LeadsChain
<1>5. \A k \in DOMAIN calls' : PlanOK(calls'[k])
  BY <1>2, <1>3, <1>4 DEF PlansOK
<1>6. QED
  BY <1>5, PlansMove DEF ReturnToOpen

LEMMA PlansCall ==
  ASSUME SInv, IInv, TablesOK, StackOK, Monotone, MethodsOK, PlansOK, Call
  PROVE  PlansOK'
<1>1. PICK g \in GenericNames, names \in ArgLists :
        /\ function[g] # 0 /\ Bound(names)
        /\ ~Refused(g, Resolved(names), Chosen(function[g], Resolved(names)))
        /\ Push(Dispatched(function[g], Resolved(names), Chosen(function[g], Resolved(names))))
  BY DEF Call
<1>2. PICK gf, args, ms : gf = function[g] /\ args = Resolved(names) /\ ms = Chosen(gf, args)
  OBVIOUS
<1>3. gf \in 1..Len(generics)
  <2>1. function[g] \in 0..Len(generics) /\ Len(generics) \in Nat
    BY DEF TablesOK
  <2>2. QED
    BY <1>1, <1>2, <2>1
<1>4. args \in Seq(Ids) /\ TableOK
  BY <1>1, <1>2, ResolvedTyped, ArgsAssumption DEF Bound, SInv, MInv
<1>5. Qualified(ms, "primary") # <<>>
  BY <1>1, <1>2 DEF Refused
<1>6. ms \in Seq(1..Len(methods))
  BY <1>2, <1>3, ChosenTyped
<1>7. ASSUME Congruent(gf, args) PROVE \E n \in Nat : n <= Len(args) /\ Sound(ms, args, n)
  <2>1. Len(args) \in Nat
    BY <1>4
  <2>2. PICK n \in 0..Len(args) : \A m \in ToSet(generics[gf]) : Len(methods[m].specializers) = n
    BY <1>7 DEF Congruent
  <2>3. n \in Nat /\ n <= Len(args)
    BY <2>1, <2>2
  <2>4. \A m \in ToSet(generics[gf]) : Fits(m, n)
    BY <1>3, <2>2, MembersTyped DEF Fits
  <2>5. Sound(ms, args, n)
    BY <1>2, <1>3, <1>4, <2>3, <2>4, ChosenSound DEF MethodsOK
  <2>6. QED
    BY <2>3, <2>5
<1>8. PICK x : x = Dispatched(gf, args, ms) /\ PlanOK(x)
  BY <1>4, <1>5, <1>6, <1>7, DispatchedOK
<1>9. Push(x) /\ UNCHANGED <<classes, methods, generics>>
  BY <1>1, <1>2, <1>8 DEF Call
<1>10. QED
  BY <1>8, <1>9, PlansPush

-----------------------------------------------------------------------------
(* The methods of the generic functions.                                   *)

LEMMA MethodsStay ==
  ASSUME MethodsOK, UNCHANGED <<generics, function, methods>>
  PROVE  MethodsOK'
BY DEF MethodsOK, Distinct, Same

LEMMA DefGenericMethods ==
  ASSUME MInv, TablesOK, MethodsOK, DefGeneric
  PROVE  MethodsOK' /\ Stays
<1>1. PICK N, Z, o : N = Len(generics) /\ Z = Seq(1..Len(methods)) /\ o = <<>>
  OBVIOUS
<1>2. generics' = Append(generics, o)
  BY <1>1 DEF DefGeneric
<1>3. /\ N \in Nat /\ Len(generics)' = N + 1 /\ generics'[N + 1] = o
      /\ \A i \in 1..N : generics'[i] = generics[i]
  <2>1. generics \in Seq(Z) /\ o \in Z
    BY <1>1 DEF TablesOK
  <2>2. QED
    BY <1>1, <1>2, <2>1
<1>4. methods' = methods /\ classes' = classes
  BY DEF DefGeneric
<1>5. Distinct(o)
  BY <1>1 DEF Distinct, ToSet, IsInjective
<1>6. \A i \in 1..N+1 : Distinct(generics'[i])
  <2>1. \A i \in 1..N+1 : i \in 1..N \/ i = N + 1
    BY <1>3
  <2>2. \A i \in 1..N : Distinct(generics[i])
    BY <1>1 DEF MethodsOK
  <2>3. QED
    BY <1>3, <1>5, <2>1, <2>2
<1>7. \A i \in 1..N+1 : Distinct(generics[i])'
  BY <1>4, <1>6 DEF Distinct, Same
<1>8. \A gf \in 1..N : \A args : Congruent(gf, args)' => Congruent(gf, args)
  BY <1>3, <1>4 DEF Congruent
<1>9. Stays
  BY <1>1, <1>4, <1>8, LengthsTyped DEF Stays
<1>10. QED
  BY <1>3, <1>7, <1>9 DEF MethodsOK

(* The list with the new method.                                           *)
LEMMA WithMethodIs ==
  ASSUME MInv, TablesOK, MethodsOK, NEW gf \in 1..Len(generics), NEW specs, NEW q, NEW n, n = Len(methods),
         NEW w, w = WithMethod(gf, specs, q)
  PROVE  /\ IsInjective(w)
         /\ \A x \in ToSet(w) :
              x = n + 1 \/ (x \in ToSet(generics[gf]) /\ x \in 1..n /\ ~Same(x, specs, q))
         /\ n + 1 \in ToSet(w)
         /\ \A x \in ToSet(generics[gf]) : Same(x, specs, q) \/ x \in ToSet(w)
<1>1. PICK S, Q, Z : S = 1..n /\ Q = 1..n+1 /\ Z = Seq(S)
  OBVIOUS
<1>2. n \in Nat /\ generics \in Seq(Z) /\ gf \in DOMAIN generics /\ DOMAIN methods = S
  BY <1>1, LengthsTyped, MethodsTyped DEF TablesOK
<1>3. PICK P, ms, k : P = {m \in DOMAIN methods : ~Same(m, specs, q)} /\ ms = generics[gf] /\ k = Kept(ms, P)
  OBVIOUS
<1>4. ms \in Seq(S) /\ Distinct(ms)
  BY <1>1, <1>2, <1>3 DEF MethodsOK
<1>5. k \in Seq(S) /\ Selected(k, ms, P, Len(ms))
  BY <1>3, <1>4, KeptIs
<1>6. IsInjective(k) /\ \A x \in ToSet(k) : x \in ToSet(ms) /\ x \in P
  BY <1>4, <1>5, SelectedInjective DEF Distinct
<1>7. PICK e : e = n + 1 /\ e \in Q /\ e \notin S
  BY <1>1, <1>2
<1>8. k \in Seq(Q) /\ w = <<e>> \o k
  <2>1. \A x \in S : x \in Q
    BY <1>1, <1>2
  <2>2. k \in Seq(Q)
    BY <1>5, <2>1, SeqWidens
  <2>3. QED
    BY <1>3, <1>7, <2>2 DEF WithMethod
<1>9. /\ DOMAIN w = 1..Len(k)+1 /\ w[1] = e /\ \A i \in 1..Len(k) : w[i + 1] = k[i]
      /\ Len(k) \in Nat /\ DOMAIN k = 1..Len(k)
  BY <1>7, <1>8, ConsAt
<1>10. ASSUME NEW i \in DOMAIN w, i # 1
       PROVE  i - 1 \in DOMAIN k /\ w[i] = k[i - 1] /\ w[i] \in S /\ w[i] \in ToSet(k)
  <2>1. i - 1 \in 1..Len(k) /\ (i - 1) + 1 = i
    BY <1>9, <1>10
  <2>2. w[i] = k[i - 1]
    BY <1>9, <2>1
  <2>3. QED
    BY <1>5, <1>9, <2>1, <2>2 DEF ToSet
<1>11. ASSUME NEW i \in DOMAIN w, NEW j \in DOMAIN w, w[i] = w[j] PROVE i = j
  <2>1. CASE i = 1 \/ j = 1
    BY <1>7, <1>9, <1>10, <1>11, <2>1
  <2>2. CASE i # 1 /\ j # 1
    <3>1. i - 1 = j - 1
      BY <1>6, <1>10, <1>11, <2>2 DEF IsInjective
    <3>2. QED
      BY <1>9, <3>1
  <2>3. QED
    BY <2>1, <2>2
<1>12. ASSUME NEW x \in ToSet(w)
       PROVE  x = n + 1 \/ (x \in ToSet(generics[gf]) /\ x \in 1..n /\ ~Same(x, specs, q))
  <2>1. PICK i \in DOMAIN w : w[i] = x
    BY DEF ToSet
  <2>2. CASE i = 1
    <3>1. x = e
      <4>1. w[1] = e
        BY <1>9
      <4>2. QED
        BY <2>1, <2>2, <4>1
    <3>2. x = n + 1
      BY <1>7, <3>1
    <3>3. QED
      BY <3>2
  <2>3. CASE i # 1
    BY <1>1, <1>3, <1>6, <1>10, <2>1, <2>3
  <2>4. QED
    BY <2>2, <2>3
<1>13. n + 1 \in ToSet(w)
  <2>1. 1 \in DOMAIN w
    BY <1>9
  <2>2. QED
    BY <1>7, <1>9, <2>1 DEF ToSet
<1>14. ASSUME NEW x \in ToSet(generics[gf]), ~Same(x, specs, q) PROVE x \in ToSet(w)
  <2>1. x \in ToSet(ms) /\ x \in P
    BY <1>1, <1>2, <1>3, <1>14, MembersTyped
  <2>2. PICK i \in DOMAIN k : k[i] = x
    <3>1. x \in ToSet(k)
      BY <1>3, <1>4, <2>1, KeptAll
    <3>2. QED
      BY <3>1 DEF ToSet
  <2>3. i + 1 \in DOMAIN w /\ w[i + 1] = x
    BY <1>9, <2>2
  <2>4. QED
    BY <2>3 DEF ToSet
<1>15. QED
  BY <1>11, <1>12, <1>13, <1>14 DEF IsInjective

LEMMA DefMethodMethods ==
  ASSUME MInv, TablesOK, MethodsOK, DefMethod
  PROVE  MethodsOK' /\ Stays
<1>1. PICK g \in GenericNames, names \in SpecLists, q \in Qualifiers :
        /\ function[g] # 0 /\ Specializers(names)
        /\ AddMethod(function[g], Resolved(names), q)
  BY DEF DefMethod
<1>2. PICK n, gf, specs, w : /\ n = Len(methods) /\ gf = function[g] /\ specs = Resolved(names)
                             /\ w = WithMethod(gf, specs, q)
  OBVIOUS
<1>3. n \in Nat /\ Len(generics) \in Nat /\ DOMAIN methods = 1..n
  BY <1>2, LengthsTyped, MethodsTyped
<1>4. gf \in 1..Len(generics)
  <2>1. function[g] \in 0..Len(generics)
    BY DEF TablesOK
  <2>2. QED
    BY <1>1, <1>2, <1>3, <2>1
<1>5. specs \in Seq(Ids)
  BY <1>1, <1>2, ResolvedTyped, ArgsAssumption DEF Specializers, MInv
<1>6. PICK m : m = [specializers |-> specs, qualifier |-> q]
  OBVIOUS
<1>7. methods' = Append(methods, m) /\ generics' = [generics EXCEPT ![gf] = w]
  BY <1>1, <1>2, <1>6 DEF AddMethod
<1>8. /\ Len(methods)' = n + 1 /\ methods'[n + 1] = m /\ \A i \in 1..n : methods'[i] = methods[i]
  <2>1. PICK F : F = Methods /\ methods \in Seq(F)
    BY DEF TablesOK
  <2>2. IsSeq(methods)
    BY <2>1 DEF IsSeq
  <2>3. QED
    BY <1>2, <1>7, <2>2, Appended
<1>9. m.specializers = specs /\ m.qualifier = q
  BY <1>6
<1>10. UNCHANGED <<classes, function>>
  BY DEF DefMethod
<1>12. /\ Len(generics)' = Len(generics) /\ generics'[gf] = w
       /\ \A i \in 1..Len(generics) : i # gf => generics'[i] = generics[i]
  <2>1. PICK Z : Z = Seq(1..Len(methods)) /\ generics \in Seq(Z)
    BY DEF TablesOK
  <2>2. QED
    BY <1>4, <1>7, <2>1
<1>13. /\ n + 1 \in ToSet(w) /\ \A x \in ToSet(generics[gf]) : Same(x, specs, q) \/ x \in ToSet(w)
       /\ IsInjective(w)
       /\ \A x \in ToSet(w) : x = n + 1 \/ (x \in ToSet(generics[gf]) /\ x \in 1..n /\ ~Same(x, specs, q))
  BY <1>2, <1>4, WithMethodIs
<1>15. \A i \in 1..Len(generics) : \A x \in ToSet(generics[i]) : x \in 1..n
  BY <1>2, MembersTyped
<1>16. ASSUME NEW i \in 1..Len(generics), NEW args, Congruent(i, args)' PROVE Congruent(i, args)
  <2>1. PICK r \in 0..Len(args) : \A x \in ToSet(generics'[i]) : Len(methods'[x].specializers) = r
    BY <1>16 DEF Congruent
  <2>2. ASSUME NEW x \in ToSet(generics[i]) PROVE Len(methods[x].specializers) = r
    <3>1. x \in 1..n /\ methods'[x] = methods[x]
      BY <1>8, <1>15, <2>2
    <3>2. CASE x \in ToSet(generics'[i])
      BY <2>1, <3>1, <3>2
    <3>3. CASE x \notin ToSet(generics'[i])
      <4>1. i = gf /\ n + 1 \in ToSet(generics'[i]) /\ Same(x, specs, q)
        BY <1>12, <1>13, <2>2, <3>3
      <4>2. methods[x].specializers = specs /\ methods'[n + 1].specializers = specs
        BY <1>8, <1>9, <4>1 DEF Same
      <4>3. QED
        BY <2>1, <4>1, <4>2
    <3>4. QED
      BY <3>2, <3>3
  <2>3. QED
    BY <2>1, <2>2 DEF Congruent
<1>11. Stays
  BY <1>2, <1>3, <1>8, <1>10, <1>16 DEF Stays
<1>17. MethodsOK'
  <2>1. ASSUME NEW i \in 1..Len(generics), i # gf PROVE Distinct(generics[i])'
    <3>1. generics'[i] = generics[i] /\ Distinct(generics[i]) /\ \A x \in ToSet(generics[i]) : x \in 1..n
      BY <1>12, <1>15, <2>1 DEF MethodsOK
    <3>2. QED
      BY <1>8, <3>1 DEF Distinct, Same
  <2>2. Distinct(generics[gf])'
    <3>1. ASSUME NEW a \in ToSet(w), NEW b \in ToSet(w), Same(a, methods[b].specializers, methods[b].qualifier)'
          PROVE  a = b
      <4>1. CASE a = n + 1 /\ b # n + 1
        <5>1. b \in 1..n /\ ~Same(b, specs, q)
          BY <1>13, <4>1
        <5>2. QED
          BY <1>8, <1>9, <3>1, <4>1, <5>1 DEF Same
      <4>2. CASE a # n + 1 /\ b = n + 1
        <5>1. a \in 1..n /\ ~Same(a, specs, q)
          BY <1>13, <4>2
        <5>2. QED
          BY <1>8, <1>9, <3>1, <4>2, <5>1 DEF Same
      <4>3. CASE a # n + 1 /\ b # n + 1
        <5>1. a \in ToSet(generics[gf]) /\ b \in ToSet(generics[gf]) /\ a \in 1..n /\ b \in 1..n
          BY <1>13, <4>3
        <5>2. Same(a, methods[b].specializers, methods[b].qualifier)
          BY <1>8, <3>1, <5>1 DEF Same
        <5>3. QED
          BY <1>4, <5>1, <5>2 DEF MethodsOK, Distinct
      <4>4. QED
        BY <4>1, <4>2, <4>3
    <3>2. QED
      BY <1>12, <1>13, <3>1 DEF Distinct
  <2>3. \A i \in 1..Len(generics) : Distinct(generics[i])'
    BY <2>1, <2>2
  <2>4. QED
    BY <1>12, <2>3 DEF MethodsOK
<1>18. QED
  BY <1>11, <1>17

OInv == TInv /\ Monotone /\ MethodsOK /\ PlansOK

LEMMA OrderInit == Init => OInv
<1> SUFFICES ASSUME Init PROVE OInv
  OBVIOUS
<1>1. TInv /\ Monotone
  BY TypedInit, MonotoneInit
<1>2. PICK o : o = <<>> /\ DOMAIN o = {} /\ Len(o) = 0
  OBVIOUS
<1>3. generics = o /\ calls = o /\ \A g \in GenericNames : function[g] = 0
  BY <1>2 DEF Init
<1>4. MethodsOK
  BY <1>2, <1>3 DEF MethodsOK
<1>5. PlansOK
  BY <1>2, <1>3 DEF PlansOK
<1>6. QED
  BY <1>1, <1>4, <1>5 DEF OInv

LEMMA MethodsInductive ==
  ASSUME MInv, TablesOK, MethodsOK, [Next]_vars
  PROVE  MethodsOK'
<1>1. CASE DefGeneric
  BY <1>1, DefGenericMethods
<1>2. CASE DefMethod
  BY <1>2, DefMethodMethods
<1>3. CASE ~DefGeneric /\ ~DefMethod
  <2>1. UNCHANGED <<generics, function, methods>>
    BY <1>3 DEF Next, vars, FormFails, DefClass, DefClassUnknown, Merge, EndClass, RefuseClass,
       DefMethodFails, Call, CallFails, Proceed, ProceedOverruns, ReturnToOpen, Return, Finish,
       EnterCatch, Throw, CallNextMethod, CallNextMethodBreaks, CallNextMethodFails
  <2>2. QED
    BY <2>1, MethodsStay
<1>4. QED
  BY <1>1, <1>2, <1>3

LEMMA EndClassStays ==
  ASSUME MInv, TablesOK, EndClass
  PROVE  Stays
<1>1. methods' = methods /\ generics' = generics /\ Len(methods) \in Nat
  BY LengthsTyped DEF EndClass
<1>2. PICK d : classes' = Append(classes, d)
  BY DEF EndClass, Finalize
<1>3. \A c \in Ids : classes'[c] = classes[c]
  BY <1>2, Appended DEF MInv, TableOK, Ids
<1>4. \A gf, args : Congruent(gf, args)' <=> Congruent(gf, args)
  BY <1>1 DEF Congruent
<1>5. QED
  BY <1>1, <1>3, <1>4 DEF Stays

LEMMA PlansInductive ==
  ASSUME OInv, [Next]_vars
  PROVE  PlansOK'
<1>1. SInv /\ MInv /\ IInv /\ StackOK /\ TablesOK /\ Monotone /\ MethodsOK /\ PlansOK
  BY TypeParts DEF OInv, TInv, SInv
<1>2. CASE FormFails
  BY <1>1, <1>2, PlansExit DEF FormFails
<1>3. CASE DefClass \/ Merge \/ ProceedOverruns \/ CallNextMethodBreaks \/ UNCHANGED vars
  <2>1. UNCHANGED <<classes, methods, generics, calls>>
    BY <1>3 DEF DefClass, StartClass, Merge, MergeTurn, ProceedOverruns,
       CallNextMethodBreaks, vars
  <2>2. QED
    BY <1>1, <2>1, PlansMove DEF PlansOK
<1>4. CASE DefClassUnknown
  BY <1>1, <1>4, PlansExit DEF DefClassUnknown
<1>5. CASE EndClass
  BY <1>1, <1>5, EndClassStays, PlansStay DEF EndClass
<1>6. CASE RefuseClass
  BY <1>1, <1>6, PlansExit DEF RefuseClass, Refuse
<1>7. CASE DefGeneric \/ DefMethod
  <2>1. Stays /\ UNCHANGED calls
    BY <1>1, <1>7, DefGenericMethods, DefMethodMethods DEF DefGeneric, DefMethod
  <2>2. QED
    BY <1>1, <2>1, PlansStay
<1>8. CASE DefMethodFails
  BY <1>1, <1>8, PlansExit DEF DefMethodFails
<1>9. CASE Call
  BY <1>1, <1>9, PlansCall
<1>10. CASE CallFails
  BY <1>1, <1>10, PlansExit DEF CallFails
<1>11. CASE Proceed
  BY <1>1, <1>11, PlansProceed
<1>12. CASE ReturnToOpen
  BY <1>1, <1>12, PlansReturnToOpen
<1>13. CASE Return \/ Finish
  <2>1. calls # <<>> /\ calls' = Below /\ UNCHANGED <<classes, methods, generics>>
    BY <1>13 DEF Return, Finish, Code
  <2>2. QED
    BY <1>1, <2>1, PlansPop
<1>14. CASE EnterCatch
  <2>1. PICK x : x = [kind |-> "catch"]
    OBVIOUS
  <2>4. PlanOK(x)
    BY <2>1 DEF PlanOK
  <2>2. Push(x) /\ UNCHANGED <<classes, methods, generics>>
    BY <1>14, <2>1 DEF EnterCatch
  <2>3. QED
    BY <1>1, <2>2, <2>4, PlansPush
<1>15. CASE Throw
  BY <1>1, <1>15, PlansExit DEF Throw
<1>16. CASE CallNextMethod
  <2>1. PICK x : x = Body(NextMethod, Ctx.args)
    OBVIOUS
  <2>4. PlanOK(x)
    <3>1. x.kind = "method"
      BY <2>1 DEF Body
    <3>2. QED
      BY <3>1 DEF PlanOK
  <2>2. Push(x) /\ UNCHANGED <<classes, methods, generics>>
    BY <1>16, <2>1 DEF CallNextMethod
  <2>3. QED
    BY <1>1, <2>2, <2>4, PlansPush
<1>17. CASE CallNextMethodFails
  BY <1>1, <1>17, PlansExit DEF CallNextMethodFails
<1>18. QED
  BY <1>2, <1>3, <1>4, <1>5, <1>6, <1>7, <1>8, <1>9, <1>10, <1>11, <1>12, <1>13, <1>14, <1>15,
     <1>16, <1>17 DEF Next

LEMMA OrderInductive == OInv /\ [Next]_vars => OInv'
<1> SUFFICES ASSUME OInv, [Next]_vars PROVE OInv'
  OBVIOUS
<1>1. TInv' /\ PlansOK'
  BY TypedInductive, PlansInductive DEF OInv
<1>2. MInv /\ TablesOK /\ Monotone /\ MethodsOK
  BY TypeParts DEF OInv, TInv, SInv
<1>3. Monotone' /\ MethodsOK'
  BY <1>2, MonotoneInductive, MethodsInductive
<1>4. QED
  BY <1>1, <1>3 DEF OInv

(* In every call of a generic with congruent methods, whatever classes and *)
(* methods were defined before it or while it runs, a method specialized   *)
(* on subclasses comes before the methods it overrides among the before,   *)
(* around and primary ones, and after them among the after ones            *)
(* (sort_methods, ls_dispatch_generic).                                    *)
THEOREM OverridesAreFirst == Spec => []OverridesFirst
<1>1. OInv => OverridesFirst
  BY PlansImply DEF OInv
<1>2. QED
  BY <1>1, OrderInit, OrderInductive, PTL DEF Spec

-----------------------------------------------------------------------------
(* How call-next-method goes down the chain of a call.                     *)

(* The bodies at S in the C stack C are of methods of the chain of the     *)
(* dispatch at d, the first ones at most as far as c, in order.            *)
Descent(C, d, S, at, c) ==
  /\ at \in [S -> 1..c]
  /\ \A i \in S : C[i] = Body(C[d].chain[at[i]], C[d].args)
  /\ \A i, j \in S : i < j => at[i] < at[j]
  /\ d + 1 \in S /\ at[d + 1] = 1

(* A context is that of its dispatch, and counts as far as its methods     *)
(* have got.                                                               *)
Followed(x) ==
  /\ x.chain = calls[x.frame].chain /\ x.args = calls[x.frame].args
  /\ x.current \in 1..Len(x.chain)
  /\ \E at : Descent(calls, x.frame, Since(x.frame), at, x.current)

Follow == ~cut => \A k \in DOMAIN cnm_stack : Followed(cnm_stack[k])

(* The contexts are the same, but for their life.                          *)
Unmoved ==
  /\ DOMAIN cnm_stack' = DOMAIN cnm_stack
  /\ \A k \in DOMAIN cnm_stack :
       /\ cnm_stack'[k].frame = cnm_stack[k].frame /\ cnm_stack'[k].chain = cnm_stack[k].chain
       /\ cnm_stack'[k].args = cnm_stack[k].args /\ cnm_stack'[k].current = cnm_stack[k].current

LEMMA DescentShrinks ==
  ASSUME NEW C, NEW D, NEW d, NEW S, NEW R, NEW c, NEW at, Descent(C, d, S, at, c),
         R \subseteq S, d + 1 \in R, D[d].chain = C[d].chain, D[d].args = C[d].args,
         \A i \in R : D[i] = C[i]
  PROVE  \E bt : Descent(D, d, R, bt, c)
<1>1. PICK bt : bt = [i \in R |-> at[i]]
  OBVIOUS
<1>2. bt \in [R -> 1..c] /\ \A i \in R : bt[i] = at[i] /\ i \in S
  BY <1>1 DEF Descent
<1>3. Descent(D, d, R, bt, c)
  BY <1>2 DEF Descent
<1>4. QED
  BY <1>3

(* One more body, of the method after c.                                   *)
Continues(C, D, d, S, R, n, c) ==
  /\ S \subseteq Nat /\ n \in Nat /\ R = S \cup {n}
  /\ \A i \in S : i < n /\ D[i] = C[i]
  /\ D[d].chain = C[d].chain /\ D[d].args = C[d].args
  /\ D[n] = Body(D[d].chain[c + 1], D[d].args)

LEMMA DescentGrows ==
  ASSUME NEW C, NEW D, NEW d, NEW S, NEW R, NEW n, NEW c \in Nat, NEW at, Descent(C, d, S, at, c),
         Continues(C, D, d, S, R, n, c)
  PROVE  \E bt : Descent(D, d, R, bt, c + 1)
<1>0. /\ S \subseteq Nat /\ n \in Nat /\ R = S \cup {n}
      /\ \A i \in S : i < n /\ D[i] = C[i]
      /\ D[d].chain = C[d].chain /\ D[d].args = C[d].args
      /\ D[n] = Body(D[d].chain[c + 1], D[d].args)
  BY DEF Continues
<1>1. PICK e, bt : e = c + 1 /\ bt = [i \in R |-> IF i = n THEN e ELSE at[i]]
  OBVIOUS
<1>2. /\ \A i \in S : i # n /\ i \in R /\ bt[i] = at[i] /\ at[i] \in 1..c
      /\ n \in R /\ bt[n] = e /\ \A i \in R : i \in S \/ i = n
  BY <1>0, <1>1 DEF Descent
<1>3. e \in 1..e /\ \A x \in 1..c : x \in 1..e /\ x < e
  BY <1>1
<1>4. bt \in [R -> 1..e]
  BY <1>1, <1>2, <1>3
<1>5. \A i \in R : D[i] = Body(D[d].chain[bt[i]], D[d].args)
  BY <1>0, <1>1, <1>2 DEF Descent
<1>6. ASSUME NEW i \in R, NEW j \in R, i < j PROVE bt[i] < bt[j]
  <2>1. CASE j = n
    <3>1. i \in S
      BY <1>0, <1>2, <1>6, <2>1
    <3>2. QED
      BY <1>2, <1>3, <2>1, <3>1
  <2>2. CASE j # n
    <3>1. j \in S /\ j < n /\ j \in Nat /\ i \in Nat
      BY <1>0, <1>2, <2>2
    <3>2. i \in S
      BY <1>0, <1>2, <1>6, <3>1
    <3>3. QED
      BY <1>2, <1>6, <3>1, <3>2 DEF Descent
  <2>3. QED
    BY <2>1, <2>2
<1>7. d + 1 \in R /\ bt[d + 1] = 1
  BY <1>2 DEF Descent
<1>8. Descent(D, d, R, bt, e)
  BY <1>4, <1>5, <1>6, <1>7 DEF Descent
<1>9. QED
  BY <1>1, <1>8

LEMMA SinceKept ==
  ASSUME NEW d \in Nat, NEW m \in Nat, Len(calls) \in Nat, Len(calls)' \in Nat,
         m <= Len(calls), m <= Len(calls)', d + 1 <= m, d + 1 \in Since(d),
         \A i \in d+1..m : calls'[i] = calls[i], \A i \in Since(d)' : i <= m
  PROVE  Since(d)' \subseteq Since(d) /\ d + 1 \in Since(d)'
<1>1. ASSUME NEW i \in Since(d)' PROVE i \in Since(d)
  <2>1. i \in d+1..Len(calls)' /\ calls'[i].kind = "method" /\ \A j \in d+1..i : calls'[j].kind # "dispatch"
    BY DEF Since
  <2>2. i <= m
    OBVIOUS
  <2>3. i \in d+1..m /\ i \in d+1..Len(calls) /\ \A j \in d+1..i : j \in d+1..m
    BY <2>1, <2>2
  <2>4. calls[i].kind = "method" /\ \A j \in d+1..i : calls[j].kind # "dispatch"
    BY <2>1, <2>3
  <2>5. QED
    BY <2>3, <2>4 DEF Since
<1>2. d + 1 \in Since(d)'
  <2>1. d + 1 \in d+1..m /\ d + 1 \in d+1..Len(calls)' /\ \A j \in d+1..d+1 : j \in d+1..m
    OBVIOUS
  <2>2. calls[d + 1].kind = "method" /\ \A j \in d+1..d+1 : calls[j].kind # "dispatch"
    BY DEF Since
  <2>3. QED
    BY <2>1, <2>2 DEF Since
<1>3. QED
  BY <1>1, <1>2

(* Where a context is found as it was, after a step that keeps the frames  *)
(* up to m.                                                                *)
LEMMA FollowedKept ==
  ASSUME NEW x, Followed(x), NEW d \in Nat, d = x.frame, NEW m \in Nat,
         Len(calls) \in Nat, Len(calls)' \in Nat,
         m <= Len(calls), m <= Len(calls)', d + 1 <= m,
         calls'[d].chain = calls[d].chain, calls'[d].args = calls[d].args,
         \A i \in d+1..m : calls'[i] = calls[i], \A i \in Since(d)' : i <= m,
         NEW y, y.frame = x.frame, y.chain = x.chain, y.args = x.args, y.current = x.current
  PROVE  Followed(y)'
<1>1. PICK at : Descent(calls, d, Since(d), at, x.current)
  BY DEF Followed
<1>2. d + 1 \in Since(d)
  BY <1>1 DEF Descent
<1>3. PICK R : R = Since(d)'
  OBVIOUS
<1>4. R \subseteq Since(d) /\ d + 1 \in R
  BY <1>2, <1>3, SinceKept
<1>5. \A i \in R : i \in d+1..m
  <2>1. \A i \in R : i \in d+1..Len(calls)' /\ i <= m
    BY <1>3 DEF Since
  <2>2. QED
    BY <2>1
<1>6. \A i \in R : calls'[i] = calls[i]
  BY <1>5
<1>7. PICK C, D, S, c : C = calls /\ D = calls' /\ S = Since(d) /\ c = x.current
  OBVIOUS
<1>8. \E bt : Descent(D, d, R, bt, c)
  <2>1. Descent(C, d, S, at, c) /\ R \subseteq S /\ D[d].chain = C[d].chain /\ D[d].args = C[d].args
    BY <1>1, <1>4, <1>7
  <2>2. \A i \in R : D[i] = C[i]
    BY <1>6, <1>7
  <2>3. QED
    BY <1>4, <2>1, <2>2, DescentShrinks
<1>9. \E bt : Descent(calls', y.frame, Since(y.frame)', bt, y.current)
  BY <1>3, <1>7, <1>8
<1>10. QED
  BY <1>9 DEF Followed

LEMMA FollowFacts ==
  ASSUME IInv, Follow, ~cut, NEW k \in DOMAIN cnm_stack, NEW x, x = cnm_stack[k], NEW d, d = x.frame
  PROVE  /\ d \in Nat \ {0} /\ d \in Opens /\ d \in DOMAIN calls /\ calls[d].kind = "dispatch"
         /\ d + 1 \in DOMAIN calls /\ d + 1 <= Len(calls) /\ calls[d + 1].kind = "method"
         /\ DOMAIN calls = 1..Len(calls) /\ Len(calls) \in Nat
         /\ Followed(x)
<1>1. d \in Opens /\ Len(calls) \in Nat /\ DOMAIN calls = 1..Len(calls) /\ Opens \subseteq 1..Len(calls)
  BY Facts DEF IInv, OnlyOpen
<1>2. calls[d].kind = "dispatch"
  BY <1>1 DEF Opens, Open
<1>3. d + 1 \in DOMAIN calls /\ calls[d + 1].kind = "method"
  BY <1>1 DEF IInv, OpenRuns
<1>4. d \in 1..Len(calls) /\ d + 1 \in 1..Len(calls)
  BY <1>1, <1>3
<1>5. Followed(x)
  BY DEF Follow
<1>6. QED
  BY <1>1, <1>2, <1>3, <1>4, <1>5

LEMMA FollowIs ==
  ASSUME \A k : \A y : ~cut' /\ k \in DOMAIN cnm_stack' /\ y = cnm_stack'[k] => Followed(y)'
  PROVE  Follow'
BY DEF Follow, Followed

LEMMA FollowStays ==
  ASSUME Follow, UNCHANGED <<calls, cnm_stack, cut>>
  PROVE  Follow'
<1>1. SUFFICES ASSUME ~cut, NEW k \in DOMAIN cnm_stack, NEW x, x = cnm_stack[k] PROVE Followed(x)'
  BY FollowIs
<1>2. Followed(x)
  BY <1>1 DEF Follow
<1>3. Since(x.frame)' = Since(x.frame)
  BY DEF Since
<1>4. QED
  BY <1>2, <1>3 DEF Followed

LEMMA FollowPrefix ==
  ASSUME IInv, Follow, NEW h \in 0..Len(calls), calls' = SubSeq(calls, 1, h), Unmoved,
         ~cut' => ~cut /\ \A i \in Opens : i + 1 <= h
  PROVE  Follow'
<1>1. SUFFICES ASSUME ~cut', NEW k \in DOMAIN cnm_stack, NEW y, y = cnm_stack'[k]
               PROVE  Followed(y)'
  BY FollowIs DEF Unmoved
<1>2. PICK x, d : x = cnm_stack[k] /\ d = x.frame
  OBVIOUS
<1>3. ~cut /\ \A i \in Opens : i + 1 <= h
  BY <1>1
<1>4. d \in Nat \ {0} /\ d \in Opens /\ Followed(x) /\ Len(calls) \in Nat
  BY <1>2, <1>3, FollowFacts
<1>5. /\ h \in Nat /\ Len(calls)' = h /\ h <= Len(calls)
      /\ \A i \in 1..h : calls'[i] = calls[i]
  BY PrefixIs, <1>4
<1>6. d + 1 <= h /\ d \in 1..h
  BY <1>3, <1>4, <1>5
<1>7. \A i \in d+1..h : calls'[i] = calls[i]
  BY <1>4, <1>5
<1>8. \A i \in Since(d)' : i <= h
  BY <1>4, <1>5 DEF Since
<1>9. y.frame = x.frame /\ y.chain = x.chain /\ y.args = x.args /\ y.current = x.current
  BY <1>1, <1>2 DEF Unmoved
<1>10. calls'[d].chain = calls[d].chain /\ calls'[d].args = calls[d].args
  BY <1>5, <1>6
<1>11. d \in Nat /\ d = x.frame /\ h <= Len(calls)' /\ Len(calls)' \in Nat
  BY <1>2, <1>4, <1>5
<1>12. QED
  BY <1>4, <1>5, <1>6, <1>7, <1>8, <1>9, <1>10, <1>11, FollowedKept

LEMMA FollowPush ==
  ASSUME IInv, Follow, NEW e, Push(e), e.kind # "method", UNCHANGED <<cnm_stack, cut>>
  PROVE  Follow'
<1>1. SUFFICES ASSUME ~cut, NEW k \in DOMAIN cnm_stack, NEW x, x = cnm_stack[k]
               PROVE  Followed(x)'
  BY FollowIs
<1>2. PICK n, d : n = Len(calls) /\ d = x.frame
  OBVIOUS
<1>3. /\ d \in Nat \ {0} /\ Followed(x) /\ n \in Nat /\ d + 1 <= n
  BY <1>1, <1>2, FollowFacts
<1>4. Len(calls)' = n + 1 /\ calls'[n + 1] = e /\ \A i \in 1..n : calls'[i] = calls[i]
  BY <1>2, PushIs
<1>5. d \in 1..n /\ \A i \in d+1..n : i \in 1..n
  BY <1>3
<1>6. ASSUME NEW i \in Since(d)' PROVE i <= n
  <2>1. i \in d+1..n+1 /\ calls'[i].kind = "method"
    BY <1>4 DEF Since
  <2>2. i # n + 1
    BY <1>4, <2>1
  <2>3. QED
    BY <1>3, <2>1, <2>2
<1>7. /\ d \in Nat /\ n <= Len(calls) /\ n <= Len(calls)' /\ Len(calls) \in Nat /\ Len(calls)' \in Nat
      /\ calls'[d].chain = calls[d].chain /\ calls'[d].args = calls[d].args
      /\ \A i \in d+1..n : calls'[i] = calls[i]
  BY <1>2, <1>3, <1>4, <1>5
<1>8. QED
  BY <1>2, <1>3, <1>6, <1>7, FollowedKept

(* A context of a dispatch below the one at n, before and after a step     *)
(* that keeps the frames below n and the dispatch.                         *)
LEMMA FollowBelow ==
  ASSUME IInv, Follow, ~cut, NEW k \in DOMAIN cnm_stack, NEW x, x = cnm_stack[k],
         NEW n \in Nat, n <= Len(calls), n <= Len(calls)', Len(calls)' \in Nat,
         x.frame < n, calls[n].kind = "dispatch", calls'[n].kind = "dispatch",
         \A i \in 1..n-1 : calls'[i] = calls[i]
  PROVE  Followed(x)'
<1>1. PICK d, m : d = x.frame /\ m = n - 1
  OBVIOUS
<1>2. d \in Nat \ {0} /\ Followed(x) /\ Len(calls) \in Nat /\ calls[d + 1].kind = "method" /\ d < n
  BY <1>1, FollowFacts
<1>3. d + 1 # n
  BY <1>2
<1>4. m \in Nat /\ d + 1 <= m /\ m <= Len(calls) /\ m <= Len(calls)' /\ d \in 1..n-1
  BY <1>1, <1>2, <1>3
<1>5. \A i \in d+1..m : calls'[i] = calls[i]
  BY <1>1, <1>2, <1>4
<1>6. ASSUME NEW i \in Since(d)' PROVE i <= m
  <2>1. i \in d+1..Len(calls)' /\ \A j \in d+1..i : calls'[j].kind # "dispatch"
    BY DEF Since
  <2>2. n \notin d+1..i
    BY <2>1
  <2>3. QED
    BY <1>1, <1>2, <2>1, <2>2
<1>7. calls'[d].chain = calls[d].chain /\ calls'[d].args = calls[d].args /\ d \in Nat
  BY <1>2, <1>4
<1>8. QED
  BY <1>1, <1>2, <1>4, <1>5, <1>6, <1>7, FollowedKept

LEMMA FollowReturnToOpen ==
  ASSUME IInv, StackOK, Follow, ReturnToOpen
  PROVE  Follow'
<1>1. PICK n, h : n = Len(calls) - 1 /\ h = Len(cnm_stack) - 1
  OBVIOUS
<1>2. /\ n \in Nat \ {0} /\ DOMAIN calls = 1..n+1 /\ Len(calls)' = n
      /\ calls[n] \in Dispatches /\ calls'[n] = [calls[n] EXCEPT !.open = FALSE]
      /\ \A i \in 1..n-1 : calls'[i] = calls[i]
  BY <1>1, ReturnToOpenIs
<1>3. n \in Opens
  BY <1>1, <1>2 DEF ReturnToOpen, Opens
<1>4. SUFFICES ASSUME ~cut PROVE Follow'
  BY DEF Follow, ReturnToOpen
<1>5. \A k \in DOMAIN cnm_stack : k \in LiveContexts /\ cnm_stack[k].frame \in Opens
  BY <1>4 DEF IInv, OnlyOpen
<1>6. /\ Len(cnm_stack) \in Nat /\ DOMAIN cnm_stack = 1..Len(cnm_stack) /\ Len(calls) \in Nat
      /\ \A i \in Opens : i + 1 <= n + 1 /\ i \in Nat
  BY <1>1, <1>2, Facts DEF IInv, OpenRuns
<1>7. PICK l \in DOMAIN cnm_stack : cnm_stack[l].frame = n
  BY <1>3, <1>6, Facts DEF IInv, EachOpenHasOne
<1>8. /\ DOMAIN cnm_stack' = 1..h /\ h \in Nat /\ h <= Len(cnm_stack)
      /\ \A k \in 1..h : cnm_stack'[k] = cnm_stack[k] /\ k \in DOMAIN cnm_stack
  <2>1. PICK S : S = Contexts /\ cnm_stack \in Seq(S)
    BY DEF StackOK
  <2>2. IsSeq(cnm_stack)
    BY <2>1 DEF IsSeq
  <2>3. h \in 0..Len(cnm_stack)
    BY <1>1, <1>6, <1>7
  <2>4. cnm_stack' = SubSeq(cnm_stack, 1, h)
    BY <1>1 DEF ReturnToOpen
  <2>5. IsSeq(cnm_stack') /\ Len(cnm_stack') = h /\ \A k \in 1..h : cnm_stack'[k] = cnm_stack[k]
    BY <2>2, <2>3, <2>4, Prefixed
  <2>6. DOMAIN cnm_stack' = 1..h
    BY <2>5, Shape
  <2>7. QED
    BY <1>6, <2>3, <2>5, <2>6
<1>9. ASSUME NEW k \in 1..h PROVE cnm_stack[k].frame < n
  <2>1. k < Len(cnm_stack) /\ k \in Nat
    BY <1>1, <1>6, <1>9
  <2>2. PICK z : z = Len(cnm_stack) /\ z \in DOMAIN cnm_stack
    BY <1>6, <2>1
  <2>3. cnm_stack[k].frame < cnm_stack[z].frame
    BY <1>5, <1>8, <2>1, <2>2 DEF IInv, InOrder
  <2>4. cnm_stack[k].frame \in Nat /\ cnm_stack[z].frame \in Nat /\ cnm_stack[z].frame <= n
    BY <1>2, <1>5, <1>6, <1>8, <2>2
  <2>5. QED
    BY <1>2, <2>3, <2>4
<1>10. calls[n].kind = "dispatch" /\ calls'[n].kind = "dispatch"
  BY <1>2 DEF Dispatches
<1>11. n \in Nat /\ n <= Len(calls) /\ n <= Len(calls)' /\ Len(calls)' \in Nat
  BY <1>1, <1>2, <1>6
<1>12. ASSUME NEW k \in 1..h, NEW x, x = cnm_stack'[k] PROVE Followed(x)'
  <2>1. x = cnm_stack[k] /\ k \in DOMAIN cnm_stack /\ x.frame < n
    BY <1>8, <1>9, <1>12
  <2>2. QED
    BY <1>2, <1>4, <1>10, <1>11, <2>1, FollowBelow
<1>13. QED
  BY <1>8, <1>12, FollowIs

LEMMA FollowProceed ==
  ASSUME IInv, StackOK, PlansOK, Follow, Proceed
  PROVE  Follow'
<1>1. PICK n, b, s : n = Len(calls) /\ b = Body(Top.run[Top.next], Top.args) /\ s = Len(cnm_stack)
  OBVIOUS
<1>2. /\ n \in Nat \ {0} /\ DOMAIN calls = 1..n /\ Len(calls)' = n + 1
      /\ calls[n] \in Dispatches /\ calls'[n] = Started(calls[n]) /\ calls'[n + 1] = b
      /\ \A i \in 1..n-1 : calls'[i] = calls[i]
  BY <1>1, ProceedIs
<1>3. PICK d, e : d = calls[n] /\ e = calls'[n] /\ d = Top
  BY <1>1 DEF Top
<1>4. d.kind = "dispatch" /\ e.kind = "dispatch" /\ e.chain = d.chain /\ e.args = d.args
  BY <1>2, <1>3 DEF Started, Dispatches
<1>5. SUFFICES ASSUME ~cut PROVE Follow'
  BY DEF Follow, Proceed
<1>6. /\ s \in Nat /\ DOMAIN cnm_stack = 1..s
      /\ \A i \in Opens : i + 1 <= n /\ i \in Nat
      /\ \A k \in 1..s : cnm_stack[k].frame \in Opens
  BY <1>1, <1>5, Facts DEF IInv, OpenRuns, OnlyOpen
<1>7. ASSUME NEW k \in 1..s, NEW x, x = cnm_stack[k] PROVE Followed(x)'
  <2>1. x.frame < n
    BY <1>2, <1>6, <1>7
  <2>2. n \in Nat /\ n <= Len(calls) /\ n <= Len(calls)' /\ Len(calls)' \in Nat
    BY <1>1, <1>2
  <2>3. QED
    BY <1>2, <1>3, <1>4, <1>5, <1>6, <1>7, <2>1, <2>2, FollowBelow
<1>8. CASE Top.next # Top.main
  <2>1. cnm_stack' = cnm_stack
    BY <1>8 DEF Proceed
  <2>2. QED
    BY <1>6, <1>7, <2>1, FollowIs
<1>9. CASE Top.next = Top.main
  <2>1. PICK x : x = Context(d)
    OBVIOUS
  <2>2. x.frame = n /\ x.chain = d.chain /\ x.current = 1 /\ x.args = d.args
    BY <1>1, <2>1 DEF Context
  <2>3. /\ DOMAIN cnm_stack' = 1..s+1 /\ cnm_stack'[s + 1] = x
        /\ \A k \in 1..s : cnm_stack'[k] = cnm_stack[k]
    <3>1. cnm_stack' = Append(cnm_stack, x)
      BY <1>3, <1>9, <2>1 DEF Proceed
    <3>2. IsSeq(cnm_stack)
      BY DEF IInv, ContextsOK
    <3>3. QED
      BY <1>1, <3>1, <3>2, Appended, Shape
  <2>4. PICK C, R, c, at : C = calls' /\ R = Since(n)' /\ c = 1 /\ at = [i \in R |-> c]
    OBVIOUS
  <2>5. b.kind = "method"
    BY <1>1 DEF Body
  <2>6. R = {n + 1}
    <3>1. n + 1 \in n+1..n+1 /\ \A i \in n+1..n+1 : i = n + 1
      BY <1>2
    <3>2. QED
      BY <1>2, <2>4, <2>5, <3>1 DEF Since
  <2>7. d.chain # <<>> /\ b = Body(d.chain[1], d.args)
    <3>1. LeadsChain(d)
      <4>1. n \in DOMAIN calls
        BY <1>2
      <4>2. PlanOK(d)
        BY <1>3, <4>1 DEF PlansOK
      <4>3. QED
        BY <1>4, <4>2 DEF PlanOK
    <3>2. QED
      BY <1>1, <1>3, <1>9, <3>1 DEF LeadsChain
  <2>8. Descent(C, n, R, at, c)
    <3>1. at \in [R -> 1..c] /\ \A i \in R : at[i] = 1 /\ i = n + 1
      BY <2>4, <2>6
    <3>2. \A i \in R : C[i] = Body(C[n].chain[at[i]], C[n].args)
      BY <1>2, <1>3, <1>4, <2>4, <2>7, <3>1
    <3>3. \A i, j \in R : ~(i < j)
      BY <1>2, <3>1
    <3>4. QED
      BY <2>6, <3>1, <3>2, <3>3 DEF Descent
  <2>9. 1 \in 1..Len(d.chain)
    <3>1. PICK S, l : S = 1..Len(methods) /\ l = d.chain /\ l \in Seq(S)
      BY <1>2, <1>3 DEF Dispatches
    <3>2. Len(l) \in Nat /\ Len(l) # 0
      BY <2>7, <3>1
    <3>3. QED
      BY <3>1, <3>2
  <2>10. Followed(x)'
    <3>1. \E bt : Descent(calls', x.frame, Since(x.frame)', bt, x.current)
      BY <2>2, <2>4, <2>8
    <3>2. x.chain = calls'[x.frame].chain /\ x.args = calls'[x.frame].args /\ x.current \in 1..Len(x.chain)
      BY <1>3, <1>4, <2>2, <2>9
    <3>3. QED
      BY <3>1, <3>2 DEF Followed
  <2>11. \A k \in 1..s+1 : k \in 1..s \/ k = s + 1
    BY <1>6
  <2>12. QED
    BY <1>7, <2>3, <2>10, <2>11, FollowIs
<1>10. QED
  BY <1>8, <1>9

LEMMA DescentWidens ==
  ASSUME NEW C, NEW d, NEW S, NEW c \in Nat, NEW at, Descent(C, d, S, at, c)
  PROVE  Descent(C, d, S, at, c + 1)
<1>1. \A x \in 1..c : x \in 1..c+1
  OBVIOUS
<1>2. QED
  BY <1>1 DEF Descent

(* The context of the call that call-next-method is made in.               *)
LEMMA FollowedNext ==
  ASSUME NEW x, Followed(x), NEW d \in Nat, d = x.frame, x.current \in Nat, x.current < Len(x.chain),
         Len(x.chain) \in Nat,
         NEW n \in Nat, n = Len(calls), Len(calls)' = n + 1, d < n,
         calls'[n + 1] = Body(x.chain[x.current + 1], x.args),
         \A i \in 1..n : calls'[i] = calls[i], d \in 1..n,
         NEW y, y.frame = x.frame, y.chain = x.chain, y.args = x.args, y.current = x.current + 1
  PROVE  Followed(y)'
<1>1. PICK at : Descent(calls, d, Since(d), at, x.current)
  BY DEF Followed
<1>2. d + 1 \in Since(d) /\ x.chain = calls[d].chain /\ x.args = calls[d].args
  BY <1>1 DEF Descent, Followed
<1>3. calls'[d] = calls[d]
  OBVIOUS
<1>4. PICK C, D, S, R, c : C = calls /\ D = calls' /\ S = Since(d) /\ R = Since(d)' /\ c = x.current
  OBVIOUS
<1>5. \A i \in d+1..n : calls'[i] = calls[i]
  OBVIOUS
<1>6. S \subseteq Nat /\ \A i \in S : i \in d+1..n /\ i < n + 1
  BY <1>4 DEF Since
<1>7. \A i \in S : D[i] = C[i]
  BY <1>4, <1>5, <1>6
<1>8. D[d].chain = C[d].chain /\ D[d].args = C[d].args /\ Descent(C, d, S, at, c) /\ c \in Nat
  BY <1>1, <1>3, <1>4
<1>9. CASE n + 1 \in R
  <2>1. ASSUME NEW i \in S PROVE i \in R
    <3>1. i \in d+1..n /\ calls[i].kind = "method" /\ \A j \in d+1..i : calls[j].kind # "dispatch"
      BY <1>4 DEF Since
    <3>2. i \in d+1..n+1 /\ \A j \in d+1..i : j \in d+1..n
      BY <3>1
    <3>3. calls'[i].kind = "method" /\ \A j \in d+1..i : calls'[j].kind # "dispatch"
      BY <1>5, <3>1, <3>2
    <3>4. QED
      BY <1>4, <3>2, <3>3 DEF Since
  <2>2. ASSUME NEW i \in R, i # n + 1 PROVE i \in S
    <3>1. i \in d+1..n+1 /\ calls'[i].kind = "method" /\ \A j \in d+1..i : calls'[j].kind # "dispatch"
      BY <1>4 DEF Since
    <3>2. i \in d+1..n /\ \A j \in d+1..i : j \in d+1..n
      BY <2>2, <3>1
    <3>3. calls[i].kind = "method" /\ \A j \in d+1..i : calls[j].kind # "dispatch"
      BY <1>5, <3>1, <3>2
    <3>4. QED
      BY <1>4, <3>2, <3>3 DEF Since
  <2>3. PICK m : m = n + 1 /\ m \in Nat
    OBVIOUS
  <2>4. R = S \cup {m}
    BY <1>9, <2>1, <2>2, <2>3
  <2>5. D[m] = Body(D[d].chain[c + 1], D[d].args) /\ \A i \in S : i < m
    BY <1>2, <1>3, <1>4, <1>6, <2>3
  <2>6. \E bt : Descent(D, d, R, bt, c + 1)
    <3>1. Continues(C, D, d, S, R, m, c)
      BY <1>6, <1>7, <1>8, <2>3, <2>4, <2>5 DEF Continues
    <3>2. QED
      BY <1>8, <3>1, DescentGrows
  <2>7. QED
    <3>1. \E bt : Descent(calls', y.frame, Since(y.frame)', bt, y.current)
      BY <1>4, <2>6
    <3>2. y.chain = calls'[y.frame].chain /\ y.args = calls'[y.frame].args /\ y.current \in 1..Len(y.chain)
      BY <1>2, <1>3
    <3>3. QED
      BY <3>1, <3>2 DEF Followed
<1>10. CASE n + 1 \notin R
  <2>1. ASSUME NEW i \in Since(d)' PROVE i <= n
    <3>1. i \in d+1..n+1 /\ i # n + 1
      BY <1>4, <1>10 DEF Since
    <3>2. QED
      BY <3>1
  <2>2. n <= Len(calls) /\ n <= Len(calls)' /\ d + 1 <= n /\ Len(calls) \in Nat /\ Len(calls)' \in Nat
    OBVIOUS
  <2>3. R \subseteq S /\ d + 1 \in R
    BY <1>2, <1>4, <1>5, <2>1, <2>2, SinceKept
  <2>4. \A i \in R : D[i] = C[i]
    BY <1>7, <2>3
  <2>5. PICK bt : Descent(D, d, R, bt, c)
    BY <1>8, <2>3, <2>4, DescentShrinks
  <2>6. Descent(D, d, R, bt, c + 1)
    BY <1>8, <2>5, DescentWidens
  <2>7. QED
    <3>1. \E at2 : Descent(calls', y.frame, Since(y.frame)', at2, y.current)
      BY <1>4, <2>6
    <3>2. y.chain = calls'[y.frame].chain /\ y.args = calls'[y.frame].args /\ y.current \in 1..Len(y.chain)
      BY <1>2, <1>3
    <3>3. QED
      BY <3>1, <3>2 DEF Followed
<1>11. QED
  BY <1>9, <1>10

LEMMA FollowNext ==
  ASSUME IInv, StackOK, Follow, CallNextMethod
  PROVE  Follow'
<1>1. PICK n, z, x, b : /\ n = Len(calls) /\ z = Len(cnm_stack) /\ x = Ctx
                        /\ b = Body(x.chain[x.current + 1], x.args)
  OBVIOUS
<1>2. SUFFICES ASSUME ~cut PROVE Follow'
  BY DEF Follow, CallNextMethod
<1>3. Push(b) /\ x.current < Len(x.chain) /\ cnm_stack # <<>> /\ cnm_stack' = Advanced
  BY <1>1 DEF CallNextMethod, NextMethod
<1>4. /\ n \in Nat /\ DOMAIN calls = 1..n /\ Len(calls)' = n + 1
      /\ calls'[n + 1] = b /\ \A i \in 1..n : calls'[i] = calls[i]
  BY <1>1, <1>3, PushIs
<1>5. z \in DOMAIN cnm_stack /\ x = cnm_stack[z] /\ DOMAIN cnm_stack = 1..z /\ z \in Nat
  BY <1>1, <1>3, Facts DEF Ctx
<1>6. x.current \in Nat /\ Len(x.chain) \in Nat /\ {"frame", "chain", "args", "current"} \subseteq DOMAIN x
  <2>1. PICK F, S : F = Contexts /\ S = 1..Len(methods) /\ cnm_stack \in Seq(F)
    BY DEF StackOK
  <2>2. x \in F
    BY <1>5, <2>1
  <2>3. x.chain \in Seq(S)
    BY <2>1, <2>2 DEF Contexts
  <2>4. Len(x.chain) \in Nat
    BY <2>3
  <2>5. QED
    BY <2>1, <2>2, <2>4 DEF Contexts
<1>7. PICK e : e = [x EXCEPT !.current = x.current + 1]
  OBVIOUS
<1>8. e.frame = x.frame /\ e.chain = x.chain /\ e.args = x.args /\ e.current = x.current + 1
  BY <1>6, <1>7
<1>9. cnm_stack' = [cnm_stack EXCEPT ![z] = e]
  BY <1>1, <1>3, <1>5, <1>7 DEF Advanced
<1>10. /\ DOMAIN cnm_stack' = 1..z /\ cnm_stack'[z] = e
       /\ \A k \in 1..z : k # z => cnm_stack'[k] = cnm_stack[k]
  BY <1>5, <1>9
<1>11. PICK d : d = x.frame
  OBVIOUS
<1>12. d \in Nat /\ calls[d].kind = "dispatch" /\ Followed(x) /\ d < n /\ d \in 1..n
  <2>1. d \in Nat \ {0} /\ calls[d].kind = "dispatch" /\ Followed(x) /\ d + 1 <= n
    BY <1>1, <1>2, <1>5, <1>11, FollowFacts
  <2>2. QED
    BY <1>4, <2>1
<1>13. Followed(e)'
  BY <1>1, <1>3, <1>4, <1>6, <1>8, <1>11, <1>12, FollowedNext
<1>14. ASSUME NEW k \in 1..z, k # z, NEW y, y = cnm_stack[k] PROVE Followed(y)'
  <2>1. y.frame < d
    <3>1. k \in LiveContexts /\ z \in LiveContexts
      BY <1>2, <1>5, <1>14 DEF IInv, OnlyOpen
    <3>2. k < z
      BY <1>5, <1>14
    <3>3. QED
      BY <1>5, <1>11, <1>14, <3>1, <3>2 DEF IInv, InOrder
  <2>2. calls'[d].kind = "dispatch" /\ \A i \in 1..d-1 : calls'[i] = calls[i]
    <3>1. \A i \in 1..d-1 : i \in 1..n
      BY <1>4, <1>12
    <3>2. QED
      BY <1>4, <1>12, <3>1
  <2>3. d <= Len(calls) /\ d <= Len(calls)' /\ Len(calls)' \in Nat
    BY <1>1, <1>4, <1>12
  <2>4. QED
    BY <1>2, <1>5, <1>12, <1>14, <2>1, <2>2, <2>3, FollowBelow
<1>15. \A k \in 1..z : k = z \/ k # z
  OBVIOUS
<1>16. QED
  BY <1>10, <1>13, <1>14, <1>15, FollowIs

LEMMA Unmoving ==
  ASSUME StackOK, NEW h, cnm_stack' = Outlive(h) \/ cnm_stack' = cnm_stack
  PROVE  Unmoved
<1>1. CASE cnm_stack' = cnm_stack
  BY <1>1 DEF Unmoved
<1>2. CASE cnm_stack' = Outlive(h)
  <2>1. PICK F, n : F = Contexts /\ n = Len(cnm_stack) /\ cnm_stack \in Seq(F)
    BY DEF StackOK
  <2>2. DOMAIN cnm_stack = 1..n /\ \A k \in 1..n : cnm_stack[k] \in Contexts
    BY <2>1
  <2>3. DOMAIN cnm_stack' = 1..n
    BY <1>2, <2>2 DEF Outlive
  <2>4. ASSUME NEW k \in 1..n
        PROVE  /\ cnm_stack'[k].frame = cnm_stack[k].frame /\ cnm_stack'[k].chain = cnm_stack[k].chain
               /\ cnm_stack'[k].args = cnm_stack[k].args /\ cnm_stack'[k].current = cnm_stack[k].current
    <3>1. PICK x, l : x = cnm_stack[k] /\ l = (x.live /\ x.frame <= h) /\ x \in Contexts
      BY <2>2
    <3>2. cnm_stack'[k] = [x EXCEPT !.live = l]
      BY <1>2, <2>2, <3>1 DEF Outlive
    <3>3. QED
      BY <3>1, <3>2 DEF Contexts
  <2>5. QED
    BY <2>2, <2>3, <2>4 DEF Unmoved
<1>3. QED
  BY <1>1, <1>2

LEMMA FollowExit ==
  ASSUME IInv, StackOK, Follow, Exit
  PROVE  Follow'
<1>1. PICK h : h = Landing
  OBVIOUS
<1>2. h \in 0..Len(calls) /\ h \notin Opens /\ calls' = SubSeq(calls, 1, h)
  BY <1>1, LandingRange, Facts DEF IInv, OpenRuns, Exit
<1>3. Unmoved
  BY <1>1, Unmoving DEF Exit
<1>4. ASSUME ~cut' PROVE ~cut /\ \A i \in Opens : i + 1 <= h
  <2>1. ~cut /\ \A i \in Opens : ~(i > h)
    BY <1>1, <1>4 DEF Exit
  <2>2. ASSUME NEW i \in Opens PROVE i + 1 <= h
    <3>1. i \in Nat /\ h \in Nat /\ i # h /\ ~(i > h)
      BY <1>2, <2>1, Facts
    <3>2. QED
      BY <3>1
  <2>3. QED
    BY <2>1, <2>2
<1>5. QED
  BY <1>2, <1>3, <1>4, FollowPrefix

LEMMA FollowPop ==
  ASSUME IInv, StackOK, Follow, Return \/ Finish
  PROVE  Follow'
<1>1. PICK n, h : n = Len(calls) /\ h = n - 1
  OBVIOUS
<1>2. n \in Nat \ {0} /\ DOMAIN calls = 1..n /\ calls' = SubSeq(calls, 1, h) /\ cut' = cut
  BY <1>1, Facts DEF Return, Finish, Code, Below
<1>3. Unmoved
  BY Unmoving DEF Return, Finish
<1>4. ASSUME NEW i \in Opens PROVE i + 1 <= h
  <2>1. i \in Nat /\ i + 1 \in 1..n /\ calls[i + 1].kind = "method"
    BY <1>2, Facts DEF IInv, OpenRuns
  <2>2. ASSUME i + 1 = n PROVE FALSE
    <3>1. i = n - 1 /\ Open(i)
      BY <1>2, <2>1, <2>2 DEF Opens
    <3>2. calls[n].kind = "method" /\ calls # <<>>
      BY <2>1, <2>2 DEF Return, Finish, Code
    <3>3. QED
      BY <1>1, <3>1, <3>2 DEF Return, Finish, Code, Top
  <2>3. QED
    BY <1>1, <1>2, <2>1, <2>2
<1>5. h \in 0..Len(calls)
  BY <1>1, <1>2
<1>6. QED
  BY <1>2, <1>3, <1>4, <1>5, FollowPrefix

LEMMA FollowImplies == IInv /\ StackOK /\ Follow => ChainDescends
<1> SUFFICES ASSUME IInv, StackOK, Follow, ~cut, NEW d \in Opens
             PROVE  \E at \in [Since(d) -> DOMAIN calls[d].chain] :
                      /\ \A i \in Since(d) : calls[i] = Body(calls[d].chain[at[i]], calls[d].args)
                      /\ \A i, j \in Since(d) : i < j => at[i] < at[j]
                      /\ d + 1 \in Since(d) /\ at[d + 1] = 1
  BY DEF ChainDescends
<1>1. PICK k \in DOMAIN cnm_stack : cnm_stack[k].frame = d
  BY Facts DEF IInv, EachOpenHasOne
<1>2. PICK x, l, c : x = cnm_stack[k] /\ l = x.chain /\ c = x.current
  OBVIOUS
<1>3. Followed(x)
  BY <1>2 DEF Follow
<1>4. l = calls[d].chain /\ c \in 1..Len(l)
  BY <1>1, <1>2, <1>3 DEF Followed
<1>5. PICK at : Descent(calls, d, Since(d), at, c)
  BY <1>1, <1>2, <1>3 DEF Followed
<1>6. \A a \in 1..c : a \in DOMAIN l
  <2>1. PICK F, S : F = Contexts /\ S = 1..Len(methods) /\ cnm_stack \in Seq(F)
    BY DEF StackOK
  <2>2. x \in F
    BY <1>2, <2>1
  <2>3. l \in Seq(S)
    BY <1>2, <2>1, <2>2 DEF Contexts
  <2>4. DOMAIN l = 1..Len(l) /\ Len(l) \in Nat
    BY <2>3
  <2>5. QED
    BY <1>4, <2>4
<1>7. at \in [Since(d) -> DOMAIN calls[d].chain]
  BY <1>4, <1>5, <1>6 DEF Descent
<1>8. QED
  BY <1>5, <1>7 DEF Descent

CInv == OInv /\ Follow

LEMMA ChainInit == Init => CInv
<1> SUFFICES ASSUME Init PROVE CInv
  OBVIOUS
<1>1. PICK o : o = <<>> /\ DOMAIN o = {}
  OBVIOUS
<1>2. cnm_stack = o
  BY <1>1 DEF Init
<1>3. Follow
  BY <1>1, <1>2 DEF Follow
<1>4. QED
  BY <1>3, OrderInit DEF CInv

LEMMA FollowInductive ==
  ASSUME CInv, [Next]_vars
  PROVE  Follow'
<1>1. IInv /\ StackOK /\ PlansOK /\ Follow
  BY TypeParts DEF CInv, OInv, TInv
<1>2. CASE \/ FormFails \/ DefClassUnknown \/ RefuseClass \/ DefMethodFails \/ CallFails \/ Throw
           \/ CallNextMethodFails
  <2>1. Exit
    BY <1>2 DEF FormFails, DefClassUnknown, RefuseClass, DefMethodFails, CallFails, Throw,
       CallNextMethodFails
  <2>2. QED
    BY <1>1, <2>1, FollowExit
<1>3. CASE \/ DefClass \/ Merge \/ EndClass \/ DefGeneric \/ DefMethod \/ ProceedOverruns
           \/ CallNextMethodBreaks \/ UNCHANGED vars
  <2>1. UNCHANGED <<calls, cnm_stack, cut>>
    BY <1>3 DEF DefClass, Merge, EndClass, DefGeneric, DefMethod, ProceedOverruns,
       CallNextMethodBreaks, vars
  <2>2. QED
    BY <1>1, <2>1, FollowStays
<1>4. CASE Call
  <2>1. PICK gf, args, ms : Push(Dispatched(gf, args, ms))
    BY <1>4 DEF Call
  <2>2. PICK x : x = Dispatched(gf, args, ms)
    OBVIOUS
  <2>3. x.kind = "dispatch"
    BY <2>2 DEF Dispatched, Plan
  <2>4. UNCHANGED <<cnm_stack, cut>>
    BY <1>4 DEF Call
  <2>5. QED
    BY <1>1, <2>1, <2>2, <2>3, <2>4, FollowPush
<1>5. CASE EnterCatch
  <2>1. PICK x : x = [kind |-> "catch"]
    OBVIOUS
  <2>2. x.kind # "method" /\ Push(x) /\ UNCHANGED <<cnm_stack, cut>>
    BY <1>5, <2>1 DEF EnterCatch
  <2>3. QED
    BY <1>1, <2>2, FollowPush
<1>6. CASE Proceed
  BY <1>1, <1>6, FollowProceed
<1>7. CASE ReturnToOpen
  BY <1>1, <1>7, FollowReturnToOpen
<1>8. CASE Return \/ Finish
  BY <1>1, <1>8, FollowPop
<1>9. CASE CallNextMethod
  BY <1>1, <1>9, FollowNext
<1>10. QED
  BY <1>2, <1>3, <1>4, <1>5, <1>6, <1>7, <1>8, <1>9 DEF Next

LEMMA ChainInductive == CInv /\ [Next]_vars => CInv'
BY OrderInductive, FollowInductive DEF CInv

(* As long as no exit has jumped out of a running method, call-next-method *)
(* goes down the chain of the call it is made in, from its first method on *)
(* and with the arguments of that call, however calls are nested           *)
(* (bi_call_next_method).                                                  *)
THEOREM ChainsDescend == Spec => []ChainDescends
<1>1. CInv => ChainDescends
  BY FollowImplies, TypeParts DEF CInv, OInv, TInv
<1>2. QED
  BY <1>1, ChainInit, ChainInductive, PTL DEF Spec
=============================================================================
