----------------------------- MODULE VmCorrect ------------------------------
(***************************************************************************)
(* The compiler and the machine against the evaluator.  A program defines  *)
(* the function cell of F by a lambda expression, which is compiled, gives *)
(* X a value, and runs a compiled form.  The constants, PI among them, are *)
(* flonums.                                                                *)
(***************************************************************************)
EXTENDS Shapes

CONSTANT Loops     \* definitions whose calls of themselves are all tail calls

C == INSTANCE Compiler
E == INSTANCE Evaluator

Functions(F, f) ==
  [s \in Symbols |-> CASE s = F -> f [] s \in DOMAIN MinArgs -> Native(s) [] OTHER -> Unbound]

Closed(proto) == [proto |-> proto, upvals |-> <<>>, calls |-> 0, jit |-> FALSE]

Linked(F, defs, ps, X, val, def, form) ==
  [protos |-> ps, fns |-> <<Closed(defs - 1), Closed(Len(ps))>>, main |-> 2,
   functions |-> Functions(F, Fn(1)),
   globals |-> [s \in Symbols |-> CASE s = X -> val
                                    [] s \in Constants -> Flonum
                                    [] OTHER -> Unbound],
   def |-> def, form |-> form]

WithMain(F, defined, X, val, def, form) ==
  Linked(F, Len(defined), C!CompileTop(defined, form), X, val, def, form)

(* The program that runs form where F is defined by def and X is val.      *)
Program(F, def, X, val, form) == WithMain(F, C!CompileTop(<<>>, def), X, val, def, form)

Meant == E!Evaluated(program.form, program.functions, program.globals,
                     <<[form |-> program.def, env |-> 0]>>)

-----------------------------------------------------------------------------
(* The forms whose compiled code does what the evaluator does.             *)

RECURSIVE Mentions(_), Assigns(_), Faithful(_, _)

Mentions(form) ==
  {form.name} \cup Assigns(form) \cup UNION {Mentions(form.of[i]) : i \in DOMAIN form.of}

Assigns(form) ==
  (IF form.head = "setq" THEN Range(form.vars) ELSE {})
    \cup UNION {Assigns(form.of[i]) : i \in DOMAIN form.of}

(* outer are the parameters of the lambda around the form.  A closure has  *)
(* a copy of what it captures, which must be the first parameter.          *)
Capturing(form, outer) ==
  LET free == (Mentions(form) \ Range(form.vars)) \cap Range(outer)
  IN  free = {} \/ (free = {outer[1]} /\ outer[1] \notin Assigns(program.form)
                    /\ outer[1] \notin Assigns(program.def))

Faithful(form, outer) ==
  /\ CASE form.head \in {"let", "let*"} -> FALSE
       [] form.head = "if" -> Len(form.of) = 3
       [] form.head = "setq" -> form.vars # <<>> /\ Range(form.vars) \cap Constants = {}
       [] form.head = "cond" ->
            form.of = <<>> \/ /\ Last(form.of).of[1] = Const(TV)
                              /\ \A i \in 1..Len(form.of)-1 : Len(form.of[i].of) > 1
       [] form.head = "lambda" -> ~form.has_rest /\ Capturing(form, outer)
       [] OTHER -> TRUE
  /\ \A i \in DOMAIN form.of :
       Faithful(form.of[i], IF form.head = "lambda" THEN form.vars ELSE outer)

(* CLOSURE finds the proto it was compiled with.                           *)
InnerFirst(p) ==
  \A i, j \in DOMAIN p.consts :
    p.consts[i].tag = "proto" /\ p.consts[j].tag # "proto" => i < j

InFragment ==
  /\ Faithful(program.form, <<>>) /\ Faithful(program.def, <<>>)
  /\ \A i \in DOMAIN protos : InnerFirst(protos[i])

AgreesWith(e) ==
  ~e.err /\ ~e.odd =>
    \/ outcome.status = "exhausted"
    \/ outcome.status = "undefined" /\ \E i \in DOMAIN fns : fns[i].jit
    \/ /\ outcome.status = "value"
       /\ E!Observed(heap, outcome.val) = E!Observed(e.heap, e.v)
       /\ \A s \in Symbols : E!Observed(heap, globals[s]) = E!Observed(e.heap, e.globals[s])

-----------------------------------------------------------------------------
(* The compiler emits disciplined code in the fragment, and for a loop     *)
(* whose calls of itself are tail calls code that no activation of itself  *)
(* calls.                                                                  *)
Compiled ==
  /\ InFragment => \A i \in DOMAIN protos : Disciplined(protos[i])
  /\ program.def \in Loops => LET p == protos[fns[1].proto] IN Disciplined(p) /\ Flat(p)

(* In the fragment the compiled form gives the value the evaluator gives   *)
(* and leaves the global variables the same, wherever the evaluator gives  *)
(* one at all; unless a stack was too small for it, or native code was     *)
(* entered (lsvm.c, lsjit.c).                                              *)
Agrees == ~Running => Compiled /\ (InFragment => AgreesWith(Meant))

(* Every program here comes to an end: with a value, an error, or in       *)
(* native code.                                                            *)
Ends == <>(~Running)
=============================================================================
