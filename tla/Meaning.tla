------------------------------ MODULE Meaning -------------------------------
(***************************************************************************)
(* What the forms of Evaluator mean in Common Lisp: variables are cells,   *)
(* a scope says which cell a name is bound to, special variables are bound *)
(* dynamically, functions have names of their own, and a form has a list   *)
(* of values.                                                              *)
(*                                                                         *)
(* The state of an evaluation is a record: the cells, the cell a special   *)
(* variable is bound to now (0 for its global value), closures, function   *)
(* and global cells of symbols, conses; vals, the values of the last form, *)
(* and err.  apart is noted once the evaluation has come upon a known      *)
(* divergence of the interpreter:                                          *)
(*   - a special variable whose dynamic binding is not the lexical one;    *)
(*   - multiple-value-bind of a form whose value does not come straight    *)
(*     from a native that delivers several values: vals are then not whole;*)
(*   - a name that is a local function and something else as well;         *)
(*   - a closure made by an init of let*, that uses a name let* binds later;*)
(*   - more arguments than parameters.                                     *)
(***************************************************************************)
EXTENDS Forms

(* later are the cells that a let* around will bind names to.              *)
Scope(Names) == [part \in {"vars", "fns", "later"} |-> [s \in Names |-> 0]]

Start(functions, globals) ==
  [cells |-> <<>>, dyn |-> [s \in DOMAIN globals |-> 0], specials |-> {}, fns |-> <<>>,
   functions |-> functions, globals |-> globals, heap |-> <<>>, vals |-> <<NilV>>,
   whole |-> FALSE, err |-> FALSE, apart |-> FALSE]

Gives(r, v) == [r EXCEPT !.vals = <<v>>, !.whole = FALSE]

Several(r, vs) == [r EXCEPT !.vals = vs, !.whole = TRUE]

Primary(r) == IF r.vals = <<>> THEN NilV ELSE r.vals[1]

Aborts(r) == [r EXCEPT !.err = TRUE]

Diverges(r, odd) == [r EXCEPT !.apart = @ \/ odd]

-----------------------------------------------------------------------------
(* Variables.                                                              *)

CellOf(r, scope, s) == IF s \in r.specials THEN r.dyn[s] ELSE scope.vars[s]

Overtaken(r, scope, s) == scope.later[s] # 0 /\ r.cells[scope.later[s]] # Unbound

Uses(r, scope, s) ==
  Diverges(r, \/ CellOf(r, scope, s) # scope.vars[s]
              \/ scope.fns[s] # 0
              \/ Overtaken(r, scope, s))

ContentOf(r, s, c) == IF c = 0 THEN r.globals[s] ELSE r.cells[c]

Read(r, scope, s) ==
  LET v == ContentOf(r, s, CellOf(r, scope, s))
  IN  IF v = Unbound THEN Aborts(Uses(r, scope, s)) ELSE Gives(Uses(r, scope, s), v)

Write(r, scope, s) ==
  LET c == CellOf(r, scope, s)
      d == Uses(r, scope, s)
  IN  IF c = 0 THEN [Gives(d, Primary(r)) EXCEPT !.globals[s] = Primary(r)]
      ELSE [Gives(d, Primary(r)) EXCEPT !.cells[c] = Primary(r)]

(* New cells for the variables, which a special variable is now bound to.  *)
BindAll(r, scope, vars, vs) ==
  LET Cell(i) == Len(r.cells) + i
      New(old) == [s \in DOMAIN old |->
                     LET mine == {i \in DOMAIN vars : vars[i] = s}
                     IN  IF mine = {} THEN old[s] ELSE Cell(Max(mine))]
      dyn == New(r.dyn)
  IN  [r |-> [Diverges(r, \E i \in DOMAIN vars : scope.fns[vars[i]] # 0) EXCEPT
                !.cells = @ \o vs,
                !.dyn   = [s \in DOMAIN @ |-> IF s \in r.specials THEN dyn[s] ELSE @[s]]],
       scope |-> [scope EXCEPT !.vars = New(@)]]

(* The cells of let*, which are bound one after the other.                 *)
Await(r, scope, vars) ==
  [r     |-> [r EXCEPT !.cells = @ \o [i \in DOMAIN vars |-> Unbound]],
   scope |-> [scope EXCEPT !.later = [s \in DOMAIN @ |->
                LET mine == {i \in DOMAIN vars : vars[i] = s}
                IN  IF mine = {} THEN @[s] ELSE Len(r.cells) + Max(mine)]]]

BindNext(r, scope, s, v) ==
  [r     |-> [Diverges(r, scope.fns[s] # 0) EXCEPT
                !.cells[scope.later[s]] = v,
                !.dyn[s] = IF s \in r.specials THEN scope.later[s] ELSE @],
   scope |-> [scope EXCEPT !.vars[s] = scope.later[s], !.later[s] = 0]]

(* The dynamic bindings made since r end.                                  *)
Restored(r, d) == [d EXCEPT !.dyn = r.dyn]

-----------------------------------------------------------------------------
(* Functions.                                                              *)

CloseOver(r, form, scope) ==
  Gives([r EXCEPT !.fns = Append(@, [form |-> form, scope |-> scope])], Fn(Len(r.fns) + 1))

Mixed(r, scope, s) ==
  Diverges(r, \/ scope.vars[s] # 0 \/ scope.later[s] # 0
              \/ scope.fns[s] # 0 /\ r.functions[s] # Unbound)

FunctionIn(r, scope, s) ==
  CASE scope.fns[s] # 0         -> Gives(Mixed(r, scope, s), Fn(scope.fns[s]))
    [] r.functions[s] # Unbound -> Gives(Mixed(r, scope, s), r.functions[s])
    [] OTHER                    -> Aborts(Mixed(r, scope, s))

NativeMeaning(r, s, vs) ==
  CASE s = "LIST"   -> Gives([r EXCEPT !.heap = Listed(@, vs)], ListOf(r.heap, vs))
    [] s = "VALUES" -> Several(r, vs)
    [] OTHER        -> Gives(r, CHOOSE v \in NativeResults(s, vs) : TRUE)

RECURSIVE Means(_, _, _), Applies(_, _, _)

Sequence(r, of, scope) ==
  FoldLeft(LAMBDA d, f : IF d.err THEN d ELSE Means(d, f, scope), Gives(r, NilV), of)

In(b, of) == Sequence(b.r, of, b.scope)

(* <<r after the forms, their primary values>>                             *)
Each(r, of, scope) ==
  LET Add(d, vs)  == <<d, Append(vs, Primary(d))>>
      Next(p, f)  == IF p[1].err THEN p ELSE Add(Means(p[1], f, scope), p[2])
  IN  FoldLeft(Next, <<r, <<>>>>, of)

Calls(r, f, vs) ==
  LET n    == Len(f.form.vars)
      some == [i \in 1..n |-> IF i <= Len(vs) THEN vs[i] ELSE NilV]
      d    == Diverges(r, Len(vs) > n)
  IN  IF Len(vs) < n - f.form.n_opt THEN Aborts(r)
      ELSE Restored(r, In(BindAll(d, f.scope, f.form.vars, some), f.form.of))

Applies(r, fn, vs) ==
  CASE r.err -> r
    [] fn = Native("FUNCALL") /\ vs # <<>> -> Applies(r, vs[1], Tail(vs))
    [] fn.tag = "native" ->
         IF Len(vs) \in MinArgs[fn.s]..MaxArgs[fn.s] THEN NativeMeaning(r, fn.s, vs) ELSE Aborts(r)
    [] fn.tag = "function" -> Calls(r, r.fns[fn.n], vs)
    [] fn.tag = "symbol" /\ r.functions[fn.s] # Unbound -> Applies(r, r.functions[fn.s], vs)
    [] OTHER -> Aborts(r)

(* A function is looked up first, and taken after its arguments.           *)
Called(r, s, of, scope) ==
  LET Enter(p) == IF scope.fns[s] # 0 THEN Applies(p[1], Fn(scope.fns[s]), p[2])
                 ELSE Applies(p[1], p[1].functions[s], p[2])
  IN  IF r.err THEN r ELSE Enter(Each(r, of, scope))

CalledValue(r, of, scope) ==
  LET Enter(p) == Applies(p[1], Primary(r), p[2]) IN IF r.err THEN r ELSE Enter(Each(r, of, scope))

-----------------------------------------------------------------------------
(* Forms.                                                                  *)

Binds(r, form, scope) ==
  LET n == Len(form.vars)
      body == SubSeq(form.of, n + 1, Len(form.of))
      Bind(p) == IF p[1].err THEN p[1] ELSE In(BindAll(p[1], scope, form.vars, p[2]), body)
      One(b, i) ==
        LET With(d) == IF d.err THEN [b EXCEPT !.r = d]
                       ELSE BindNext(d, b.scope, form.vars[i], Primary(d))
        IN  IF b.r.err THEN b ELSE With(Means(b.r, form.of[i], b.scope))
  IN  IF form.head = "let" THEN Bind(Each(r, SubSeq(form.of, 1, n), scope))
      ELSE In(FoldLeft(One, Await(r, scope, form.vars), [i \in 1..n |-> i]), body)

(* Local functions: the scope of the lambdas knows them only in labels.    *)
BindsFns(r, form, scope) ==
  LET n     == Len(form.vars)
      inner == [scope EXCEPT !.fns = [s \in DOMAIN @ |->
                  LET mine == {i \in 1..n : form.vars[i] = s}
                  IN  IF mine = {} THEN @[s] ELSE Len(r.fns) + Max(mine)]]
      of    == IF form.head = "labels" THEN inner ELSE scope
      made  == [i \in 1..n |-> [form |-> form.of[i], scope |-> of]]
      d     == Diverges(r, \E i \in 1..n : scope.vars[form.vars[i]] # 0)
  IN  Sequence([d EXCEPT !.fns = @ \o made], SubSeq(form.of, n + 1, Len(form.of)), inner)

BindsValues(r, form, scope) ==
  LET vs == [i \in DOMAIN form.vars |-> IF i <= Len(r.vals) THEN r.vals[i] ELSE NilV]
  IN  IF r.err THEN r
      ELSE In(BindAll(Diverges(r, ~r.whole), scope, form.vars, vs), Tail(form.of))

Sets(r, form, scope) ==
  LET Set(d, i) == IF d.err THEN d ELSE Write(d, scope, form.vars[i])
      One(d, i) == IF d.err THEN d ELSE Set(Means(d, form.of[i], scope), i)
  IN  FoldLeft(One, Gives(r, NilV), [i \in DOMAIN form.vars |-> i])

Defines(r, s) == Gives([r EXCEPT !.functions[s] = Primary(r)], Sym(s))

(* The variable is special from now on.                                    *)
DefinesVar(r, form, scope) ==
  LET d == [r EXCEPT !.specials = @ \cup {form.name}]
      Put(i) == IF i.err THEN i
                ELSE Gives([Diverges(i, i.dyn[form.name] # 0) EXCEPT
                              !.globals[form.name] = Primary(i)], Sym(form.name))
  IN  IF form.head = "defvar" /\ r.globals[form.name] # Unbound THEN Gives(d, Sym(form.name))
      ELSE Put(Means(d, form.of[1], scope))

Chooses(r, of, scope) ==
  IF r.err THEN r ELSE Means(r, of[IF Primary(r) # NilV THEN 2 ELSE 3], scope)

Means(r, form, scope) ==
  CASE form.head \in {"const", "quote"} -> Gives(r, form.val)
    [] form.head = "variable" -> Read(r, scope, form.name)
    [] form.head = "function" -> FunctionIn(r, scope, form.name)
    [] form.head = "lambda"   -> CloseOver(r, form, scope)
    [] form.head = "progn"    -> Sequence(r, form.of, scope)
    [] form.head = "if"       -> Chooses(Means(r, form.of[1], scope), form.of, scope)
    [] form.head = "setq"     -> Sets(r, form, scope)
    [] form.head \in {"let", "let*"} -> Restored(r, Binds(r, form, scope))
    [] form.head \in {"flet", "labels"} -> BindsFns(r, form, scope)
    [] form.head = "mvb"      ->
         Restored(r, BindsValues(Means(r, form.of[1], scope), form, scope))
    [] form.head = "defun"    -> Defines(CloseOver(r, form.of[1], scope), form.name)
    [] form.head \in {"defvar", "defparameter"} -> DefinesVar(r, form, scope)
    [] form.head = "call"     ->
         Called(FunctionIn(r, scope, form.name), form.name, form.of, scope)
    [] form.head = "apply"    -> CalledValue(Means(r, form.of[1], scope), Tail(form.of), scope)

(* A form typed by the user, after an error as well.                       *)
TopForm(r, form) ==
  Means([r EXCEPT !.err = FALSE, !.dyn = [s \in DOMAIN @ |-> 0]], form, Scope(DOMAIN r.globals))
=============================================================================
