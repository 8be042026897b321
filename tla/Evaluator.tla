----------------------------- MODULE Evaluator ------------------------------
(***************************************************************************)
(* The tree-walking evaluator, ls_eval, on the special forms that the      *)
(* bytecode compiler knows too, and those that bind and define.            *)
(*                                                                         *)
(* The state of an evaluation is a record: env frames (each with a parent, *)
(* 0 for none), the conses and closures made, the function cells and value *)
(* cells of symbols, the register mv of multiple values, and v, the value  *)
(* of the last form; err once an error was signalled.  odd is noted once   *)
(* the evaluation came upon what compiled code treats otherwise:           *)
(* arithmetic on what is not a fixnum, a remainder of numbers of different *)
(* signs, a name that is both a function and a variable.  Whether a symbol *)
(* is special makes no difference to the code.  VALUES stands for all the  *)
(* natives that deliver several values.  Macro calls, &key, &aux, defaults *)
(* of optional parameters and the limit of 32 arguments to a call are left *)
(* out.                                                                    *)
(***************************************************************************)
EXTENDS Forms

Returns(e, v) == [e EXCEPT !.v = v]

Fails(e) == [e EXCEPT !.err = TRUE]

Noted(e, odd) == [e EXCEPT !.odd = @ \/ odd]

-----------------------------------------------------------------------------
(* Environments.                                                           *)

NewEnv(e, parent, binds) == [e EXCEPT !.envs = Append(@, [parent |-> parent, binds |-> binds])]

Bindings(e, env, s) == {i \in DOMAIN e.envs[env].binds : e.envs[env].binds[i].sym = s}

(* The frame that binds s, from env outwards; 0 where none does.           *)
RECURSIVE FrameOf(_, _, _)
FrameOf(e, env, s) ==
  IF env = 0 \/ Bindings(e, env, s) # {} THEN env ELSE FrameOf(e, e.envs[env].parent, s)

(* The latest binding of a symbol in a frame is the one that counts.       *)
EnvValue(e, env, s) == e.envs[env].binds[Max(Bindings(e, env, s))].val

EnvSet(e, env, s, v) == [e EXCEPT !.envs[env].binds[Max(Bindings(e, env, s))].val = v]

EnvBind(e, env, s, v) ==
  [e EXCEPT !.envs[env].binds = Append(@, [sym |-> s, val |-> v])]

Assigned(e, env, s) ==
  IF FrameOf(e, env, s) # 0 THEN EnvSet(e, FrameOf(e, env, s), s, e.v)
  ELSE [e EXCEPT !.globals[s] = e.v]

Variable(e, env, s) ==
  CASE FrameOf(e, env, s) # 0    -> Returns(e, EnvValue(e, FrameOf(e, env, s), s))
    [] e.globals[s] # Unbound    -> Returns(Noted(e, e.functions[s] # Unbound), e.globals[s])
    [] OTHER                     -> Fails(e)

-----------------------------------------------------------------------------
(* Functions.                                                              *)

(* A local function counts only where nothing else is bound to the name.   *)
LocalFn(e, env, s) == FrameOf(e, env, s) # 0 /\ IsFn(EnvValue(e, FrameOf(e, env, s), s))

FunctionNamed(e, env, s) ==
  CASE LocalFn(e, env, s)        -> Returns(e, EnvValue(e, FrameOf(e, env, s), s))
    [] e.functions[s] # Unbound  ->
         Returns(Noted(e, FrameOf(e, env, s) # 0), e.functions[s])
    [] OTHER                     -> Fails(e)

(* In a call a function cell comes before the environment.                 *)
Callee(e, env, s) ==
  IF e.functions[s] # Unbound
  THEN Returns(Noted(e, FrameOf(e, env, s) # 0), e.functions[s]) ELSE FunctionNamed(e, env, s)

MakeClosure(e, form, env) ==
  Returns([e EXCEPT !.fns = Append(@, [form |-> form, env |-> env])], Fn(Len(e.fns) + 1))

(* A required parameter without an argument is an error, an argument       *)
(* without a parameter is not.                                             *)
BindArgs(e, f, args) ==
  LET form  == f.form
      n     == Len(form.vars) - (IF form.has_rest THEN 1 ELSE 0)
      extra == SubSeq(args, n + 1, Len(args))
      Val(i) == CASE i > n          -> ListOf(e.heap, extra)
                  [] i <= Len(args) -> args[i]
                  [] OTHER          -> NilV
      binds == [i \in DOMAIN form.vars |-> [sym |-> form.vars[i], val |-> Val(i)]]
  IN  IF Len(args) < n - form.n_opt THEN Fails(e)
      ELSE NewEnv(IF form.has_rest THEN [e EXCEPT !.heap = Listed(@, extra)] ELSE e,
                  f.env, binds)

(* mv.v keeps what was stored beyond the values delivered now.             *)
Delivered(e, vs) ==
  [e EXCEPT !.mv = [n |-> Len(vs), v |-> vs \o SubSeq(@.v, Len(vs) + 1, Len(@.v))]]

(* Slip: a call need not leave a value.                                    *)
AnyNumber(e) == e

(* A native that delivered no value delivers the one it returned.          *)
AtLeastOne(e) == IF e.err \/ e.mv.n > 0 THEN e ELSE Delivered(e, <<e.v>>)

NativeCall(e, s, args) ==
  LET noted == Noted(e, \/ s \in Arithmetic /\ ~AllFixnums(args)
                        \/ s \in {"MOD", "REM"} /\ (args[1].n < 0) # (args[2].n < 0))
  IN  CASE s = "CONS" -> Returns([e EXCEPT !.heap = Append(@, args)], Pair(Len(e.heap) + 1))
        [] s = "LIST" -> Returns([e EXCEPT !.heap = Listed(@, args)], ListOf(e.heap, args))
        [] s = "CAR"  -> Returns(e, Part(e.heap, args[1], 1))
        [] s = "CDR"  -> Returns(e, Part(e.heap, args[1], 2))
        [] s = "VALUES" -> Returns(Delivered(e, args), IF args = <<>> THEN NilV ELSE args[1])
        [] s \in {"MOD", "REM"} /\ args[2] = Fix(0) -> Fails(e)
        [] OTHER      -> Returns(noted, CHOOSE v \in NativeResults(s, args) : TRUE)

-----------------------------------------------------------------------------
(* Forms.  Nothing happens once an error was signalled.                    *)

RECURSIVE Eval(_, _, _), Apply(_, _, _)

Body(e, of, env) == FoldLeft(LAMBDA d, f : Eval(d, f, env), Returns(e, NilV), of)

Within(e, of) == Body(e, of, Len(e.envs))

(* Before the function is known, one value is announced.                   *)
Announced(e) == [e EXCEPT !.mv.n = 1]

Applied(e, fn, args) ==
  CASE e.err -> e
    [] fn.tag = "native" /\ Len(args) \notin MinArgs[fn.s]..MaxArgs[fn.s] -> Fails(e)
    [] fn = Native("FUNCALL") -> Apply(e, args[1], Tail(args))
    [] fn.tag = "native" -> AtLeastOne(NativeCall(e, fn.s, args))
    [] fn.tag = "function" -> Within(BindArgs(e, e.fns[fn.n], args), e.fns[fn.n].form.of)
    [] fn.tag = "symbol" /\ e.functions[fn.s] # Unbound -> Apply(e, e.functions[fn.s], args)
    [] OTHER -> Fails(e)

Apply(e, fn, args) == Applied(Announced(e), fn, args)

(* e after the arguments, and their values.                                *)
Arguments(e, of, env) ==
  LET Argument(d, args) == <<d, Append(args, d.v)>>
      Step(p, f)        == Argument(Eval(p[1], f, env), p[2])
  IN  FoldLeft(Step, <<e, <<>>>>, of)

(* The operator was found in d.v.                                          *)
CallWith(d, of, env) ==
  LET Enter(p) == Apply(p[1], d.v, p[2])
  IN  IF d.err THEN d ELSE Enter(Arguments(d, of, env))

(* A function cell is read after the arguments have been evaluated.        *)
CallNamed(d, s, of, env) ==
  LET Enter(p) == Apply(p[1], p[1].functions[s], p[2])
  IN  IF d.err \/ d.functions[s] = Unbound THEN CallWith(d, of, env)
      ELSE Enter(Arguments(d, of, env))

Stored(e, env, s) == IF e.err THEN e ELSE Assigned(e, env, s)

Setqs(e, vars, of, env) ==
  LET Set(d, i) == Stored(Eval(d, of[i], env), env, vars[i])
  IN  FoldLeft(Set, Returns(e, NilV), [i \in DOMAIN vars |-> i])

(* Each init is evaluated in env and bound in the frame new.               *)
Lets(e, vars, of, env, new) ==
  LET Bound(d, s) == EnvBind(d, new, s, d.v)
      Bind(d, i)  == Bound(Eval(d, of[i], env), vars[i])
  IN  FoldLeft(Bind, e, [i \in DOMAIN vars |-> i])

And(e, of, env) ==
  FoldLeft(LAMBDA d, f : IF d.v = NilV THEN d ELSE Eval(d, f, env), Returns(e, TV), of)

Or(e, of, env) ==
  FoldLeft(LAMBDA d, f : IF d.v # NilV THEN d ELSE Eval(d, f, env), Returns(e, NilV), of)

(* d[2] says whether a clause has been taken.                              *)
Clauses(e, of, env) ==
  CASE e.v = NilV  -> <<e, FALSE>>
    [] Len(of) = 1 -> <<e, TRUE>>
    [] OTHER       -> <<Body(e, Tail(of), env), TRUE>>

Conds(e, of, env) ==
  LET Try(d, clause) ==
        IF d[2] THEN d ELSE Clauses(Eval(d[1], clause.of[1], env), clause.of, env)
  IN  FoldLeft(Try, <<Returns(e, NilV), FALSE>>, of)[1]

Arm(e, of, env) ==
  CASE e.v # NilV   -> Eval(e, of[2], env)
    [] Len(of) = 3  -> Eval(e, of[3], env)
    [] OTHER        -> Returns(e, NilV)

If(e, of, env) == Arm(Eval(e, of[1], env), of, env)

WhenTrue(e, wanted, of, env) ==
  LET Then(d) == IF (d.v # NilV) = wanted THEN Body(d, Tail(of), env) ELSE Returns(d, NilV)
  IN  Then(Eval(e, of[1], env))

(* let and flet evaluate the inits outside the new frame, let* and labels  *)
(* inside it.                                                              *)
InFrame(e, form, env) ==
  LET n == Len(form.vars)
  IN  Body(Lets(e, form.vars, SubSeq(form.of, 1, n), env, Len(e.envs)),
           SubSeq(form.of, n + 1, Len(form.of)), Len(e.envs))

(* Slip: they all evaluate them inside.                                    *)
InnerInits(e, form, env) == InFrame(NewEnv(e, env, <<>>), form, Len(e.envs) + 1)

LetIn(e, form, env) ==
  InFrame(NewEnv(e, env, <<>>), form,
          IF form.head \in {"let", "flet"} THEN env ELSE Len(e.envs) + 1)

(* The primary value is in mv only if a call delivered it there.           *)
ValueAt(mv, i) == IF i <= mv.n /\ i <= Len(mv.v) THEN mv.v[i] ELSE NilV

MultipleValueBind(e, form, env) ==
  LET binds(d) == [i \in DOMAIN form.vars |-> [sym |-> form.vars[i], val |-> ValueAt(d.mv, i)]]
      Bind(d)  == Within(NewEnv(d, env, binds(d)), Tail(form.of))
  IN  IF e.err THEN e ELSE Bind(AtLeastOne(e))

Named(e, s) == Returns([e EXCEPT !.functions[s] = e.v], Sym(s))

Initialised(e, s) == IF e.err THEN e ELSE Returns([e EXCEPT !.globals[s] = e.v], Sym(s))

(* defvar leaves a variable alone that has a value.                        *)
DefVar(e, form, env) ==
  IF form.head = "defvar" /\ e.globals[form.name] # Unbound THEN Returns(e, Sym(form.name))
  ELSE Initialised(Eval(e, form.of[1], env), form.name)

Eval(e, form, env) ==
  CASE e.err -> e
    [] form.head \in {"const", "quote"} -> Returns(e, form.val)
    [] form.head = "variable" -> Variable(e, env, form.name)
    [] form.head = "function" -> FunctionNamed(e, env, form.name)
    [] form.head = "lambda"   -> MakeClosure(e, form, env)
    [] form.head = "if"       -> If(e, form.of, env)
    [] form.head = "progn"    -> Body(e, form.of, env)
    [] form.head = "setq"     -> Setqs(e, form.vars, form.of, env)
    [] form.head \in {"let", "let*", "flet", "labels"} -> LetIn(e, form, env)
    [] form.head = "mvb"      -> MultipleValueBind(Eval(e, form.of[1], env), form, env)
    [] form.head = "defun"    -> Named(MakeClosure(e, form.of[1], env), form.name)
    [] form.head \in {"defvar", "defparameter"} -> DefVar(e, form, env)
    [] form.head = "and"      -> And(e, form.of, env)
    [] form.head = "or"       -> Or(e, form.of, env)
    [] form.head = "when"     -> WhenTrue(e, TRUE, form.of, env)
    [] form.head = "unless"   -> WhenTrue(e, FALSE, form.of, env)
    [] form.head = "cond"     -> Conds(e, form.of, env)
    [] form.head = "call"     -> CallNamed(Callee(e, env, form.name), form.name, form.of, env)
    [] form.head = "apply"    -> CallWith(Eval(e, form.of[1], env), Tail(form.of), env)

Fresh(functions, globals, fns) ==
  [envs |-> <<>>, heap |-> <<>>, fns |-> fns, functions |-> functions, globals |-> globals,
   mv |-> [n |-> 0, v |-> <<>>], odd |-> FALSE, err |-> FALSE, v |-> NilV]

Evaluated(form, functions, globals, fns) == Eval(Fresh(functions, globals, fns), form, 0)

-----------------------------------------------------------------------------
RECURSIVE Observed(_, _)

(* A value as a program sees it, which cannot look into a function.        *)
Observed(h, v) ==
  CASE v.tag = "cons"     -> <<Observed(h, h[v.n][1]), Observed(h, h[v.n][2])>>
    [] v.tag = "function" -> <<Value("function", 0, "")>>
    [] OTHER              -> <<v>>

=============================================================================
