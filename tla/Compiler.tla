------------------------------ MODULE Compiler ------------------------------
(***************************************************************************)
(* The bytecode compiler: a form becomes the code of an ls_proto_t.        *)
(*                                                                         *)
(* A compiler is a stack of compilation units, one per lambda being        *)
(* compiled, and the protos finished so far.  Offsets of jumps are taken   *)
(* modulo ArgRange, the width of an operand.  The limits on code,          *)
(* constants, locals and nested lambdas of a unit are left out.            *)
(***************************************************************************)
EXTENDS Forms

CONSTANT ArgRange     \* operands are 0..ArgRange-1, signed in two's complement

Unit(vars, n_opt, has_rest) ==
  [code |-> <<>>, consts |-> <<>>, locals |-> vars, upvals |-> <<>>, inner |-> 0,
   n_args |-> Len(vars) - n_opt - (IF has_rest THEN 1 ELSE 0),
   n_opt |-> n_opt + (IF has_rest THEN 1 ELSE 0), has_rest |-> has_rest]

(* c, a compiler, is [units, protos]; the unit being compiled is the last. *)
Top(c) == Last(c.units)

Here(c) == Len(Top(c).code)

InTop(c, Change(_)) == [c EXCEPT !.units = Append(Front(@), Change(Last(@)))]

EmitIn(u, op, arg) == [u EXCEPT !.code = Append(@, Instr(op, arg))]

Emit(c, op, arg) == InTop(c, LAMBDA u : EmitIn(u, op, arg))

EmitOp(c, op) == Emit(c, op, 0)

(* Slip: the jump is counted from its own position.                        *)
PatchFromJump(c, pos, op) ==
  InTop(c, LAMBDA u : [u EXCEPT !.code[pos + 1] = Instr(op, (Len(u.code) - pos) % ArgRange)])

(* The instruction held back at pos jumps to where the code is now.        *)
Patch(c, pos, op) ==
  InTop(c, LAMBDA u : [u EXCEPT !.code[pos + 1] = Instr(op, (Len(u.code) - pos - 1) % ArgRange)])

(* All the forward jumps of an and, or or cond go to the same place.       *)
PatchAll(c, ps, op) == FoldLeft(LAMBDA d, pos : Patch(d, pos, op), c, ps)

(* The code of Arm, jumped over by op.                                     *)
Branch(c, op, Arm(_)) == Patch(Arm(EmitOp(c, "NOP")), Here(c), op)

Rejoin(then, pos, Else(_)) ==
  Patch(Else(Patch(EmitOp(then, "NOP"), pos, "JUMP_IF_NIL")), Here(then), "JUMP")

(* One of two arms, by the value on top.                                   *)
Fork(c, Then(_), Else(_)) == Rejoin(Then(EmitOp(c, "NOP")), Here(c), Else)

Shared == {"symbol", "fixnum", "nil", "t"}     \* constants entered once

ConstIndex(u, v) ==
  LET at == {i \in DOMAIN u.consts : u.consts[i] = v /\ v.tag \in Shared}
  IN  IF at = {} THEN Len(u.consts) ELSE Min(at) - 1

AddConst(u, v) ==
  IF ConstIndex(u, v) < Len(u.consts) THEN u ELSE [u EXCEPT !.consts = Append(@, v)]

EmitConst(c, op, v) ==
  InTop(c, LAMBDA u : EmitIn(AddConst(u, v), op, ConstIndex(u, v)))

-----------------------------------------------------------------------------
(* Variables: a local of the unit, an upvalue, or global.                  *)

None == -1

FindLocal(u, s) ==
  LET at == {i \in DOMAIN u.locals : u.locals[i] = s}
  IN  IF at = {} THEN None ELSE Max(at) - 1

FindUpval(u, s) ==
  LET at == {i \in DOMAIN u.upvals : u.upvals[i].sym = s}
  IN  IF at = {} THEN None ELSE Min(at) - 1

Capture(c, k, s, is_local, slot) ==
  [c EXCEPT !.units[k].upvals =
     Append(@, [sym |-> s, is_local |-> is_local, parent_slot |-> slot])]

(* Unit k comes to have an upvalue for s, and so do the units between it   *)
(* and the one whose local s is; c unchanged where there is none.          *)
CaptureUpval(c, k, s) ==
  LET idx == FindUpval(c.units[k - 1], s)
  IN  IF idx # None THEN Capture(c, k, s, FALSE, idx) ELSE c

RECURSIVE ResolveUpval(_, _, _)
ResolveUpval(c, k, s) ==
  CASE FindUpval(c.units[k], s) # None \/ k = 1 -> c
    [] FindLocal(c.units[k - 1], s) # None ->
         Capture(c, k, s, TRUE, FindLocal(c.units[k - 1], s))
    [] OTHER -> CaptureUpval(ResolveUpval(c, k - 1, s), k, s)

AccessOuter(c, verb, s) ==
  LET idx == FindUpval(Top(c), s)
  IN  IF idx # None THEN Emit(c, verb \o "_UPVAL", idx)
      ELSE EmitConst(c, verb \o "_GLOBAL", Sym(s))

(* LOAD or STORE, with the suffix that fits where s is found.              *)
Access(c, verb, s) ==
  LET slot == FindLocal(Top(c), s)
  IN  IF slot # None THEN Emit(c, verb \o "_LOCAL", slot)
      ELSE AccessOuter(ResolveUpval(c, Len(c.units), s), verb, s)

(* Slip: the greatest immediate is one too great.                          *)
ImmediateTooWide(n) == n >= 0 - (ArgRange \div 2) /\ n <= ArgRange \div 2

Immediate(n) == n >= 0 - (ArgRange \div 2) /\ n <= (ArgRange \div 2) - 1

Literal(c, v) ==
  CASE v.tag = "nil"                        -> EmitOp(c, "NIL")
    [] v.tag = "t"                          -> EmitOp(c, "T")
    [] v.tag = "fixnum" /\ Immediate(v.n)   -> Emit(c, "FIXNUM", v.n % ArgRange)
    [] OTHER                                -> EmitConst(c, "CONST", v)

Datum(c, v) ==
  CASE v.tag = "nil" -> EmitOp(c, "NIL")
    [] v.tag = "t"   -> EmitOp(c, "T")
    [] OTHER         -> EmitConst(c, "CONST", v)

-----------------------------------------------------------------------------
(* Forms.  tail says whether the value of the form is that of the unit.    *)

RECURSIVE Compile(_, _, _)

Indices(seq) == [i \in DOMAIN seq |-> i]

IsT(form) == form.head = "const" /\ form.val = TV

(* Without an else the value of the then is left below the nil.            *)
If(c, of, tail) ==
  LET Then(d) == Compile(d, of[2], tail)
      Else(d) == Compile(d, of[3], tail)
  IN  IF Len(of) = 3 THEN Fork(Compile(c, of[1], FALSE), Then, Else)
      ELSE EmitOp(Branch(Compile(c, of[1], FALSE), "JUMP_IF_NIL", Then), "NIL")

Progn(c, of, tail) ==
  IF of = <<>> THEN EmitOp(c, "NIL")
  ELSE Compile(FoldLeft(LAMBDA d, f : EmitOp(Compile(d, f, FALSE), "POP"), c, Front(of)),
               Last(of), tail)

(* when and unless: one arm is the body, the other nil.                    *)
When(c, head, of, tail) ==
  LET Body(d)    == Progn(d, Tail(of), tail)
      Nothing(d) == EmitOp(d, "NIL")
  IN  IF head = "when" THEN Fork(Compile(c, of[1], FALSE), Body, Nothing)
      ELSE Fork(Compile(c, of[1], FALSE), Nothing, Body)

(* Values that stay on the stack, in order.                                *)
Pushes(c, of) == FoldLeft(LAMBDA d, f : Compile(d, f, FALSE), c, of)

(* and, or: the value decides, and is dropped where it does not.  d is the *)
(* compiler with the positions of the jumps to the end.                    *)
Tested(c, ends) == <<EmitOp(EmitOp(c, "NOP"), "POP"), Append(ends, Here(c))>>

Decided(d, last, jump, tail) == PatchAll(Compile(d[1], last, tail), d[2], jump)

Shortcut(c, of, jump, tail) ==
  LET Try(d, f) == Tested(EmitOp(Compile(d[1], f, FALSE), "DUP"), d[2])
  IN  Decided(FoldLeft(Try, <<c, <<>>>>, Front(of)), Last(of), jump, tail)

(* A clause without forms: its test is wanted as the value.  Both ways out *)
(* of the conditional jump meet again at once, so that the value has been  *)
(* popped on one of them.                                                  *)
TestOnly(c, last) ==
  EmitOp(Branch(EmitOp(c, "DUP"), "JUMP_IF_NOT_NIL", LAMBDA d : EmitOp(d, "POP")),
         IF last THEN "NIL" ELSE "NOP")

(* A clause with forms; a jump over the other clauses but in the last.     *)
TestThen(c, of, last, tail) ==
  LET Body(d) == Progn(d, Tail(of), tail /\ last)
      Arm(d)  == IF last THEN Body(d) ELSE EmitOp(Body(d), "NOP")
  IN  Branch(c, "JUMP_IF_NIL", Arm)

TestClause(c, of, last, tail) ==
  IF Len(of) = 1 THEN TestOnly(c, last) ELSE TestThen(c, of, last, tail)

AddClause(d, c, last) ==
  [d EXCEPT !.c = c, !.ends = IF last THEN @ ELSE Append(@, Here(c) - 1)]

Default(c, of, tail) == IF Len(of) = 1 THEN EmitOp(c, "T") ELSE Progn(c, Tail(of), tail)

EndCond(d) == PatchAll(IF d.done THEN d.c ELSE EmitOp(d.c, "NIL"), d.ends, "JUMP")

(* cond: ends are the positions of the jumps to its end, which the clauses *)
(* after a t never add to.  After the last clause that is not t there is   *)
(* no jump over the NIL that stands for no clause matched.                 *)
Conditions(c, of, tail) ==
  LET Add(d, i) ==
        LET clause == of[i].of
        IN  CASE d.done         -> d
              [] IsT(clause[1]) -> [d EXCEPT !.c = Default(@, clause, tail), !.done = TRUE]
              [] OTHER          ->
                   AddClause(d, TestClause(Compile(d.c, clause[1], FALSE), clause,
                                           i = Len(of), tail), i = Len(of))
  IN  EndCond(FoldLeft(Add, [c |-> c, ends |-> <<>>, done |-> FALSE], Indices(of)))

Kept(c, last) == IF last THEN c ELSE EmitOp(c, "POP")

(* setq: a pair's value stays only when the pair is the last.              *)
Assign(c, vars, of) ==
  LET Set(d, i) ==
        Kept(Access(EmitOp(Compile(d, of[i], FALSE), "DUP"), "STORE", vars[i]), i = Len(vars))
  IN  FoldLeft(Set, c, Indices(vars))

AddLocals(c, vars) == InTop(c, LAMBDA u : [u EXCEPT !.locals = @ \o vars])

SetLocals(c, vars) == InTop(c, LAMBDA u : [u EXCEPT !.locals = vars])

(* let: all inits, then the stores, last value first.  The slots are given *)
(* back at the end, before the unit's locals are counted.                  *)
LetForm(c, vars, of, tail) ==
  LET n      == Len(vars)
      inits  == AddLocals(Pushes(c, SubSeq(of, 1, n)), vars)
      base   == Len(Top(c).locals)
      stores == FoldRight(LAMBDA i, d : Emit(d, "STORE_LOCAL", base + i - 1),
                          Indices(vars), inits)
      body   == Progn(stores, SubSeq(of, n + 1, Len(of)), tail)
  IN  SetLocals(body, Top(c).locals)

StoreLast(c) == Emit(c, "STORE_LOCAL", Len(Top(c).locals) - 1)

LetStar(c, vars, of, tail) ==
  LET Bind(d, i) == StoreLast(AddLocals(Compile(d, of[i], FALSE), <<vars[i]>>))
      n    == Len(vars)
      body == Progn(FoldLeft(Bind, c, Indices(vars)), SubSeq(of, n + 1, Len(of)), tail)
  IN  SetLocals(body, Top(c).locals)

-----------------------------------------------------------------------------
(* The proto of a unit that is complete: of an upvalue only the symbol     *)
(* is left.                                                                *)
Finish(u) ==
  [code |-> u.code, consts |-> u.consts, n_args |-> u.n_args, n_opt |-> u.n_opt,
   has_rest |-> u.has_rest, n_locals |-> Len(u.locals),
   upvals |-> [i \in DOMAIN u.upvals |-> u.upvals[i].sym]]

(* A lambda is compiled in a unit of its own, becomes a constant of the    *)
(* unit around it, and is made a closure by its number among the lambdas   *)
(* of that unit.                                                           *)
Leave(c) == [units |-> Front(c.units), protos |-> Append(c.protos, Finish(Top(c)))]

MakeClosure(c) ==
  LET Make(u) == EmitIn([AddConst(u, Proto(Len(c.protos))) EXCEPT !.inner = @ + 1],
                        "CLOSURE", u.inner)
  IN  InTop(c, Make)

Closure(c, form) ==
  LET unit == Unit(form.vars, form.n_opt, form.has_rest)
  IN  MakeClosure(Leave(EmitOp(Progn([c EXCEPT !.units = Append(@, unit)], form.of, TRUE),
                               "RETURN")))

CallOp(tail) == IF tail THEN "TAILCALL" ELSE "CALL"

(* A call by name: the primitives have instructions of their own for their *)
(* usual number of arguments, REM the same as MOD.                         *)
CompileCall(c, s, of, tail) ==
  CASE s = "LIST"                         -> Emit(Pushes(c, of), "LIST", Len(of))
    [] s = "REM" /\ Len(of) = 2           -> EmitOp(Pushes(c, of), "MOD")
    [] s \in Binary \cup {"CONS"} /\ Len(of) = 2 -> EmitOp(Pushes(c, of), s)
    [] s = "-" /\ Len(of) = 1             -> EmitOp(Pushes(c, of), "NEG")
    [] s \in {"NOT", "CAR", "CDR"} /\ Len(of) = 1 -> EmitOp(Pushes(c, of), s)
    [] OTHER -> Emit(Pushes(Access(c, "LOAD", s), of), CallOp(tail), Len(of))

Compile(c, form, tail) ==
  CASE form.head = "const"    -> Literal(c, form.val)
    [] form.head = "quote"    -> Datum(c, form.val)
    [] form.head = "variable" -> Access(c, "LOAD", form.name)
    [] form.head = "function" -> Access(c, "LOAD", form.name)
    [] form.head = "if"       -> If(c, form.of, tail)
    [] form.head = "progn"    -> Progn(c, form.of, tail)
    [] form.head = "let"      -> LetForm(c, form.vars, form.of, tail)
    [] form.head = "let*"     -> LetStar(c, form.vars, form.of, tail)
    [] form.head = "setq"     -> Assign(c, form.vars, form.of)
    [] form.head = "and"      -> IF form.of = <<>> THEN EmitOp(c, "T")
                                 ELSE Shortcut(c, form.of, "JUMP_IF_NIL", tail)
    [] form.head = "or"       -> IF form.of = <<>> THEN EmitOp(c, "NIL")
                                 ELSE Shortcut(c, form.of, "JUMP_IF_NOT_NIL", tail)
    [] form.head \in {"when", "unless"} -> When(c, form.head, form.of, tail)
    [] form.head = "cond"     -> Conditions(c, form.of, tail)
    [] form.head = "lambda"   -> Closure(c, form)
    [] form.head = "call"     -> CompileCall(c, form.name, form.of, tail)
    [] form.head = "apply"    -> Emit(Pushes(Compile(c, form.of[1], FALSE), Tail(form.of)),
                                      CallOp(tail), Len(form.of) - 1)

(* The protos with one more for the form, which is the last.               *)
CompileTop(protos, form) ==
  Leave(EmitOp(Compile([units |-> <<Unit(<<>>, 0, FALSE)>>, protos |-> protos], form, TRUE),
               "RETURN")).protos
=============================================================================
