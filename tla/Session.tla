------------------------------ MODULE Session -------------------------------
(***************************************************************************)
(* A session: forms typed one by one and evaluated by the tree-walking     *)
(* evaluator.  Frames, closures, cells and the register of multiple values *)
(* stay from one form to the next, also after an error.                    *)
(***************************************************************************)
EXTENDS Evaluator

CONSTANTS Symbols,       \* names of symbols
          Programs       \* sequences of forms

VARIABLES program,       \* the forms, never changed
          state,         \* of the evaluator
          printed        \* the results, or errors, so far

vars == <<program, state, printed>>

M == INSTANCE Meaning

-----------------------------------------------------------------------------
(* The cells of symbols at the start.                                      *)
Natives == [s \in Symbols |-> IF s \in DOMAIN MinArgs THEN Native(s) ELSE Unbound]

NoValues == [s \in Symbols |-> Unbound]

Error == <<Value("error", 0, "")>>

Init ==
  /\ program \in Programs
  /\ state = Fresh(Natives, NoValues, <<>>)
  /\ printed = <<>>

Typed == program[Len(printed) + 1]

(* An error is caught at the top level; nothing is undone.                 *)
Result == Eval([state EXCEPT !.err = FALSE], Typed, 0)

Evaluate ==
  /\ Len(printed) < Len(program)
  /\ \E e \in {Result} :
       /\ ~e.err
       /\ state' = e
       /\ printed' = Append(printed, Observed(e.heap, e.v))
  /\ UNCHANGED program

EvaluationFails ==
  /\ Len(printed) < Len(program)
  /\ \E e \in {Result} : e.err /\ state' = e
  /\ printed' = Append(printed, Error)
  /\ UNCHANGED program

Next == Evaluate \/ EvaluationFails

Spec == Init /\ [][Next]_vars

-----------------------------------------------------------------------------
WellFormed(v) ==
  /\ v.tag = "cons"     => v.n \in DOMAIN state.heap
  /\ v.tag = "function" => v.n \in DOMAIN state.fns

TypeOK ==
  /\ \A k \in DOMAIN state.envs :
       /\ state.envs[k].parent \in 0..k-1
       /\ \A i \in DOMAIN state.envs[k].binds : WellFormed(state.envs[k].binds[i].val)
  /\ \A k \in DOMAIN state.fns : state.fns[k].env \in 0..Len(state.envs)
  /\ \A s \in Symbols : WellFormed(state.functions[s]) /\ WellFormed(state.globals[s])
  /\ \A k \in DOMAIN state.heap : WellFormed(state.heap[k][1]) /\ WellFormed(state.heap[k][2])
  /\ \A i \in DOMAIN state.mv.v : WellFormed(state.mv.v[i])
  /\ state.mv.n = 0 => state.mv.v = <<>>

-----------------------------------------------------------------------------
(* What the forms from the i-th on mean after r, as far as the interpreter *)
(* is meant to follow.                                                     *)
RECURSIVE MeantFrom(_, _)
MeantFrom(r, i) ==
  LET Then(d) ==
        IF d.apart THEN <<>>
        ELSE <<IF d.err THEN Error ELSE Observed(d.heap, M!Primary(d))>> \o MeantFrom(d, i + 1)
  IN  IF i > Len(program) THEN <<>> ELSE Then(M!TopForm(r, program[i]))

(* Every form of a session gives what it means in Common Lisp: lexical     *)
(* variables keep their bindings in closures, multiple-value-bind gets the *)
(* values its form delivers, a special variable is dynamically bound; up   *)
(* to the first form that comes upon a divergence listed in Meaning        *)
(* (ls_eval, ls_apply, eval_multiple_value_bind, ls_env_lookup).           *)
Agrees ==
  Len(printed) = Len(program) =>
    IsPrefix(MeantFrom(M!Start(Natives, NoValues), 1), printed)

=============================================================================
