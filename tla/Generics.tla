------------------------------ MODULE Generics ------------------------------
(***************************************************************************)
(* Generic functions: methods, their choice and order for a call, and      *)
(* call-next-method, whose state is a static stack of contexts beside the  *)
(* C stack.                                                                *)
(*                                                                         *)
(* calls is the C stack as far as this component goes: activations of      *)
(* ls_dispatch_generic, of methods it or call-next-method applies, and     *)
(* forms that catch a non-local exit.  A method's body, and the top level, *)
(* may do any operation in any order.  An argument stands for its class.   *)
(***************************************************************************)
EXTENDS Classes

CONSTANTS GenericNames,
          Required,      \* the number of required parameters of a generic's lambda list
          ArgLists,      \* lists of names whose classes' instances a call passes
          SpecLists,     \* lists of names a method specializes on
          CNM_STACK_MAX,
          MaxCalls,      \* bound: activations on the C stack
          Budget,        \* bound: what a program may spend on
          ClassCost,     \* the definition of a class, and on
          StepCost       \* another definition, a call or a catch

VARIABLES generics,      \* generic function objects: their methods, the newest first
          function,      \* the generic a name is bound to, 0 for none
          methods,       \* method objects, in order of definition
          calls,         \* the C stack
          cnm_stack,     \* contexts below cnm_depth, the last one on top
          cut,           \* some exit has cut off a dispatch with its context pushed
          broken,        \* a context was read whose arrays are gone, or written past the end
          spent          \* of the budget

ASSUME RequiredAssumption == Required \in [GenericNames -> Nat]
ASSUME ArgsAssumption ==
  /\ ArgLists \subseteq Seq(Names \cup BuiltInNames)
  /\ SpecLists \subseteq Seq(Names \cup BuiltInNames)
ASSUME BoundsAssumption == CNM_STACK_MAX \in Nat /\ MaxCalls \in Nat /\ Budget \in Nat /\ {ClassCost, StepCost} \subseteq Nat

vars == <<classes, value, merge, generics, function, methods, calls, cnm_stack, cut, broken, spent>>

Qualifiers == {"primary", "before", "after", "around"}

(* An activation of ls_dispatch_generic applies the methods of run in      *)
(* order; it pushes a context over chain for the one at main.              *)
Dispatches ==
  [kind : {"dispatch"}, gf : 1..Len(generics), args : Seq(Ids), run : Seq(1..Len(methods)),
   main : Nat, next : Nat \ {0}, open : BOOLEAN, chain : Seq(1..Len(methods))]
Bodies == [kind : {"method"}, m : 1..Len(methods), args : Seq(Ids)]
Catches == {[kind |-> "catch"]}

Contexts ==
  [frame : 1..MaxCalls, chain : Seq(1..Len(methods)), current : Nat, args : Seq(Ids), live : BOOLEAN]

-----------------------------------------------------------------------------
(* Which methods a call runs, and in which order.                          *)

Subclass(a, b) == b \in ToSet(classes[a].cpl)

Applicable(m, args) ==
  \A i \in DOMAIN args \cap DOMAIN methods[m].specializers :
    Subclass(args[i], methods[m].specializers[i])

Position(c, target) ==
  LET at == {i \in DOMAIN classes[c].cpl : classes[c].cpl[i] = target}
  IN  IF at = {} THEN Len(classes[c].cpl) + 1 ELSE First(at)

PositionOf(m, i, args) == Position(args[i], methods[m].specializers[i])

(* The arguments that tell the two methods apart; the first one decides.   *)
Apart(a, b, args) ==
  {i \in DOMAIN args \cap DOMAIN methods[a].specializers \cap DOMAIN methods[b].specializers :
     PositionOf(a, i, args) # PositionOf(b, i, args)}

MoreSpecific(a, b, args) ==
  LET apart == Apart(a, b, args)
  IN  apart # {} /\ PositionOf(a, First(apart), args) < PositionOf(b, First(apart), args)

(* A turn of the insertion sort: m moves left past the methods it precedes. *)
Place(ms, m, args) ==
  LET stays == {j \in DOMAIN ms : ~MoreSpecific(m, ms[j], args)}
      k     == Cardinality({j \in DOMAIN ms : \E i \in stays : j <= i})
  IN  SubSeq(ms, 1, k) \o <<m>> \o SubSeq(ms, k + 1, Len(ms))

(* After so many turns.                                                    *)
Turns(ms, args) ==
  LET t[i \in 0..Len(ms)] == IF i = 0 THEN <<>> ELSE Place(t[i - 1], ms[i], args)
  IN  t

Sorted(ms, args) == Turns(ms, args)[Len(ms)]

Pass(s, m, kept) == IF m \in kept THEN Append(s, m) ELSE s

(* The methods among the first ones of ms that are in kept, in order.      *)
Passes(ms, kept) ==
  LET p[i \in 0..Len(ms)] == IF i = 0 THEN <<>> ELSE Pass(p[i - 1], ms[i], kept)
  IN  p

Kept(ms, kept) == Passes(ms, kept)[Len(ms)]

Chosen(gf, args) == Sorted(Kept(generics[gf], {m \in DOMAIN methods : Applicable(m, args)}), args)

Qualified(ms, q) == Kept(ms, {m \in DOMAIN methods : methods[m].qualifier = q})

Plan(gf, args, run, main, chain) ==
  [kind |-> "dispatch", gf |-> gf, args |-> args, run |-> run, main |-> main, next |-> 1,
   open |-> FALSE, chain |-> chain]

(* Slip: the after methods run in the order of the others.                 *)
AfterForwards(gf, args, ms) ==
  Plan(gf, args, Qualified(ms, "before") \o <<Qualified(ms, "primary")[1]>> \o Qualified(ms, "after"),
       Len(Qualified(ms, "before")) + 1, Qualified(ms, "primary"))

(* With around methods only the first of them is applied; otherwise the    *)
(* before methods, the first primary one, and the after methods reversed.  *)
Dispatched(gf, args, ms) ==
  LET before == Qualified(ms, "before")
      primary == Qualified(ms, "primary")
      around == Qualified(ms, "around")
  IN  IF around # <<>> THEN Plan(gf, args, <<around[1]>>, 1, around)
      ELSE Plan(gf, args, before \o <<primary[1]>> \o Reverse(Qualified(ms, "after")),
                Len(before) + 1, primary)

-----------------------------------------------------------------------------
Top == calls[Len(calls)]

Code(kind) == calls # <<>> /\ Top.kind = kind

(* User code runs: the top level, a method's body, the body of a catch.    *)
User == ~broken /\ ~merge.busy /\ ~Code("dispatch")

Spend(n) == spent + n <= Budget /\ spent' = spent + n

(* The dispatches whose context is pushed.                                 *)
Open(i) == calls[i].kind = "dispatch" /\ calls[i].open

Opens == {i \in DOMAIN calls : Open(i)}

CatchAt == {i \in DOMAIN calls : calls[i].kind = "catch"}

(* The height of the C stack after an exit to the innermost catch, or to   *)
(* the top level.                                                          *)
Landing == IF CatchAt = {} THEN 0 ELSE (CHOOSE i \in CatchAt : \A j \in CatchAt : j <= i) - 1

Outlive(height) ==
  [i \in DOMAIN cnm_stack |-> [cnm_stack[i] EXCEPT !.live = @ /\ cnm_stack[i].frame <= height]]

(* Slip: an exit empties the stack of contexts.                            *)
ExitResets ==
  /\ calls' = SubSeq(calls, 1, Landing)
  /\ cnm_stack' = <<>>
  /\ cut' = (cut \/ \E i \in Opens : i > Landing)

(* ls_error, or any longjmp: the frames above the landing are gone and     *)
(* cnm_depth stays as it is.                                               *)
Exit ==
  /\ calls' = SubSeq(calls, 1, Landing)
  /\ cnm_stack' = Outlive(Landing)
  /\ cut' = (cut \/ \E i \in Opens : i > Landing)

Push(frame) == Len(calls) < MaxCalls /\ calls' = Append(calls, frame)

-----------------------------------------------------------------------------
Init ==
  /\ ClassInit
  /\ generics = <<>>
  /\ function = [g \in GenericNames |-> 0]
  /\ methods = <<>>
  /\ calls = <<>>
  /\ cnm_stack = <<>>
  /\ cut = FALSE
  /\ broken = FALSE
  /\ spent = 0

DefClass ==
  /\ User /\ Spend(ClassCost)
  /\ \E n \in Names, names \in SuperLists, slots \in SlotLists : StartClass(n, names, slots)
  /\ UNCHANGED <<generics, function, methods, calls, cnm_stack, cut, broken>>

(* The special forms defclass, defgeneric and defmethod look their natives *)
(* up under upper-case names, which nothing registers: they always fail.   *)
FormFails ==
  /\ User /\ Exit
  /\ UNCHANGED <<classes, value, merge, generics, function, methods, broken, spent>>

(* A superclass that names no class is an error.                           *)
DefClassUnknown ==
  /\ User
  /\ {names \in SuperLists : ~Bound(names)} # {}
  /\ Exit
  /\ UNCHANGED <<classes, value, merge, generics, function, methods, broken, spent>>

Merge == MergeTurn /\ UNCHANGED <<generics, function, methods, calls, cnm_stack, cut, broken, spent>>

EndClass == Finalize /\ UNCHANGED <<generics, function, methods, calls, cnm_stack, cut, broken, spent>>

RefuseClass == Refuse /\ Exit /\ UNCHANGED <<generics, function, methods, broken, spent>>

(* %defgeneric: a new object without methods, whatever the name was bound to. *)
DefGeneric ==
  /\ User /\ Spend(StepCost)
  /\ \E g \in GenericNames :
       /\ generics' = Append(generics, <<>>)
       /\ function' = [function EXCEPT ![g] = Len(generics) + 1]
  /\ UNCHANGED <<classes, value, merge, methods, calls, cnm_stack, cut, broken>>

Same(m, specializers, q) ==
  methods[m].specializers = specializers /\ methods[m].qualifier = q

(* The new method goes in front; one with the same specializers and        *)
(* qualifier is taken out.                                                 *)
WithMethod(gf, specializers, q) ==
  <<Len(methods) + 1>> \o Kept(generics[gf], {m \in DOMAIN methods : ~Same(m, specializers, q)})

AddMethod(gf, specializers, q) ==
  /\ methods' = Append(methods, [specializers |-> specializers, qualifier |-> q])
  /\ generics' = [generics EXCEPT ![gf] = WithMethod(gf, specializers, q)]

(* Slip: a specializer that names no class is let through.                 *)
AnySpecializers(names) == TRUE

Specializers(names) == \A i \in DOMAIN names : value[names[i]] # 0

(* Nothing compares the number of specializers with the lambda list of the *)
(* generic function.                                                       *)
DefMethod ==
  /\ User /\ Spend(StepCost)
  /\ \E g \in GenericNames, names \in SpecLists, q \in Qualifiers :
       /\ function[g] # 0 /\ Specializers(names)
       /\ AddMethod(function[g], Resolved(names), q)
  /\ UNCHANGED <<classes, value, merge, function, calls, cnm_stack, cut, broken>>

DefMethodFails ==
  /\ User
  /\ {g \in GenericNames : function[g] = 0} \cup {names \in SpecLists : ~Specializers(names)} # {}
  /\ Exit
  /\ UNCHANGED <<classes, value, merge, generics, function, methods, broken, spent>>

(* The errors of ls_dispatch_generic, all before anything is applied.      *)
Refused(g, args, ms) ==
  \/ Len(args) < Required[g]
  \/ Qualified(ms, "primary") = <<>>
  \/ Len(cnm_stack) >= CNM_STACK_MAX

Call ==
  /\ User /\ Spend(StepCost)
  /\ \E g \in GenericNames, names \in ArgLists :
       /\ function[g] # 0 /\ Bound(names)
       /\ ~Refused(g, Resolved(names), Chosen(function[g], Resolved(names)))
       /\ Push(Dispatched(function[g], Resolved(names), Chosen(function[g], Resolved(names))))
  /\ UNCHANGED <<classes, value, merge, generics, function, methods, cnm_stack, cut, broken>>

CallFails ==
  /\ User
  /\ {c \in GenericNames \X ArgLists :
        /\ function[c[1]] # 0 /\ Bound(c[2])
        /\ Refused(c[1], Resolved(c[2]), Chosen(function[c[1]], Resolved(c[2])))} # {}
  /\ Exit
  /\ UNCHANGED <<classes, value, merge, generics, function, methods, broken, spent>>

Body(m, args) == [kind |-> "method", m |-> m, args |-> args]

Context(d) ==
  [frame |-> Len(calls), chain |-> d.chain, current |-> 1, args |-> d.args, live |-> TRUE]

Started(d) == [d EXCEPT !.next = @ + 1, !.open = (d.next = d.main)]

(* The next method of the plan; the one at main gets a context.            *)
Proceed ==
  /\ Code("dispatch") /\ ~broken /\ Top.next <= Len(Top.run) /\ Len(calls) < MaxCalls
  /\ Top.next = Top.main => Len(cnm_stack) < CNM_STACK_MAX
  /\ calls' = Append([calls EXCEPT ![Len(calls)] = Started(@)], Body(Top.run[Top.next], Top.args))
  /\ cnm_stack' = IF Top.next = Top.main THEN Append(cnm_stack, Context(Top)) ELSE cnm_stack
  /\ UNCHANGED <<classes, value, merge, generics, function, methods, cut, broken, spent>>

(* The room for the context was checked before the before methods ran.     *)
ProceedOverruns ==
  /\ Code("dispatch") /\ ~broken /\ Top.next = Top.main /\ Len(cnm_stack) >= CNM_STACK_MAX
  /\ broken' = TRUE
  /\ UNCHANGED <<classes, value, merge, generics, function, methods, calls, cnm_stack, cut, spent>>

Below == SubSeq(calls, 1, Len(calls) - 1)

(* The method at main returns to its dispatch, which takes one context off *)
(* the stack, whatever is on top.                                          *)
ReturnToOpen ==
  /\ User /\ Code("method") /\ Open(Len(calls) - 1)
  /\ calls' = [Below EXCEPT ![Len(calls) - 1].open = FALSE]
  /\ cnm_stack' = SubSeq(cnm_stack, 1, Len(cnm_stack) - 1)
  /\ UNCHANGED <<classes, value, merge, generics, function, methods, cut, broken, spent>>

Return ==
  /\ User /\ calls # <<>>
  /\ Code("method") => ~Open(Len(calls) - 1)
  /\ calls' = Below
  /\ UNCHANGED <<classes, value, merge, generics, function, methods, cnm_stack, cut, broken, spent>>

(* Every method of the plan has run: the dispatch and its arrays go.       *)
Finish ==
  /\ Code("dispatch") /\ ~broken /\ Top.next > Len(Top.run)
  /\ calls' = Below
  /\ cnm_stack' = Outlive(Len(calls) - 1)
  /\ UNCHANGED <<classes, value, merge, generics, function, methods, cut, broken, spent>>

EnterCatch ==
  /\ User /\ Spend(StepCost)
  /\ Push([kind |-> "catch"])
  /\ UNCHANGED <<classes, value, merge, generics, function, methods, cnm_stack, cut, broken>>

(* An error or a throw in user code.                                       *)
Throw ==
  /\ User /\ calls # <<>> /\ Exit
  /\ UNCHANGED <<classes, value, merge, generics, function, methods, broken, spent>>

Ctx == cnm_stack[Len(cnm_stack)]

Advanced == [cnm_stack EXCEPT ![Len(cnm_stack)].current = @ + 1]

(* Slip: the counter is not moved first.                                   *)
SameMethod == Ctx.chain[Ctx.current]

NextMethod == Ctx.chain[Ctx.current + 1]

(* bi_call_next_method: the top context, whichever dispatch pushed it.     *)
CallNextMethod ==
  /\ User /\ cnm_stack # <<>> /\ Ctx.current < Len(Ctx.chain) /\ Ctx.live
  /\ Push(Body(NextMethod, Ctx.args))
  /\ cnm_stack' = Advanced
  /\ UNCHANGED <<classes, value, merge, generics, function, methods, cut, broken, spent>>

(* The arrays of the context are in a C frame that is gone.                *)
CallNextMethodBreaks ==
  /\ User /\ cnm_stack # <<>> /\ Ctx.current < Len(Ctx.chain) /\ ~Ctx.live
  /\ broken' = TRUE
  /\ UNCHANGED <<classes, value, merge, generics, function, methods, calls, cnm_stack, cut, spent>>

(* No context, or no method left.  The counter goes on past the end; where *)
(* it stands there makes no difference.                                    *)
CallNextMethodFails ==
  /\ User /\ (cnm_stack # <<>> => Ctx.current >= Len(Ctx.chain))
  /\ Exit
  /\ UNCHANGED <<classes, value, merge, generics, function, methods, broken, spent>>

Next ==
  \/ FormFails \/ DefClass \/ DefClassUnknown \/ Merge \/ EndClass \/ RefuseClass
  \/ DefGeneric \/ DefMethod \/ DefMethodFails
  \/ Call \/ CallFails \/ Proceed \/ ProceedOverruns \/ ReturnToOpen \/ Return \/ Finish \/ EnterCatch \/ Throw
  \/ CallNextMethod \/ CallNextMethodBreaks \/ CallNextMethodFails

Spec == Init /\ [][Next]_vars

-----------------------------------------------------------------------------
TypeOK ==
  /\ ClassTypeOK
  /\ generics \in Seq(Seq(1..Len(methods)))
  /\ function \in [GenericNames -> 0..Len(generics)]
  /\ methods \in Seq([specializers : Seq(Ids), qualifier : Qualifiers])
  /\ calls \in Seq(Dispatches \cup Bodies \cup Catches)
  /\ Len(calls) <= MaxCalls
  /\ cnm_stack \in Seq(Contexts)
  /\ Len(cnm_stack) <= CNM_STACK_MAX
  /\ cut \in BOOLEAN /\ broken \in BOOLEAN
  /\ spent \in 0..Budget

(* a is for classes at least as specific as b's, argument by argument.     *)
Overrides(a, b) ==
  /\ DOMAIN methods[a].specializers = DOMAIN methods[b].specializers
  /\ \A i \in DOMAIN methods[a].specializers :
       Subclass(methods[a].specializers[i], methods[b].specializers[i])

(* The methods have one number of specializers, all of them for arguments  *)
(* of the call.                                                            *)
Congruent(gf, args) ==
  \E n \in 0..Len(args) : \A m \in ToSet(generics[gf]) : Len(methods[m].specializers) = n

(* A method specialized on a subclass comes before the method it overrides *)
(* in the before, around and primary methods of a call, and after it in    *)
(* the after methods (sort_methods over the C3 lists).  This is so of      *)
(* congruent methods: the comparison of methods with different numbers of  *)
(* specializers is no order, and sort_methods may then leave any two       *)
(* methods the wrong way round.                                            *)
OverridesFirst ==
  \A k \in DOMAIN calls : calls[k].kind = "dispatch" /\ Congruent(calls[k].gf, calls[k].args) =>
    /\ \A i, j \in DOMAIN calls[k].chain :
         Overrides(calls[k].chain[i], calls[k].chain[j]) => i <= j
    /\ \A i, j \in DOMAIN calls[k].run : Overrides(calls[k].run[i], calls[k].run[j]) =>
         \/ (i < calls[k].main) # (j < calls[k].main) \/ (i > calls[k].main) # (j > calls[k].main)
         \/ i <= j /\ i < calls[k].main
         \/ i >= j /\ i > calls[k].main
         \/ i = j

LiveContexts == {i \in DOMAIN cnm_stack : cnm_stack[i].live}

(* Every dispatch whose method is running has its context on the stack, in *)
(* the order of the calls, after any history of errors caught in between;  *)
(* contexts are left over, and one whose arrays are gone is read, only     *)
(* after an exit has jumped out of such a method (ls_dispatch_generic,     *)
(* bi_call_next_method).                                                   *)
ContextsSound ==
  /\ \A i \in Opens : \E k \in LiveContexts : cnm_stack[k].frame = i
  /\ \A i, j \in LiveContexts : i < j => cnm_stack[i].frame < cnm_stack[j].frame
  /\ ~cut => Len(cnm_stack) = Cardinality(Opens) /\ ~broken

(* Where methods have been applied since the dispatch at d, up to the next *)
(* dispatch.                                                               *)
Since(d) ==
  {i \in d+1..Len(calls) : /\ calls[i].kind = "method"
                           /\ \A j \in d+1..i : calls[j].kind # "dispatch"}

(* As long as no exit has jumped out of a running method: call-next-method *)
(* goes down the chain of the call it is made in, from the most specific   *)
(* method on, never back to a method that is running, and with the         *)
(* arguments of that call (bi_call_next_method).                           *)
ChainDescends ==
  ~cut => \A d \in Opens : \E at \in [Since(d) -> DOMAIN calls[d].chain] :
    /\ \A i \in Since(d) : calls[i] = Body(calls[d].chain[at[i]], calls[d].args)
    /\ \A i, j \in Since(d) : i < j => at[i] < at[j]
    /\ d + 1 \in Since(d) /\ at[d + 1] = 1

=============================================================================
