------------------------------- MODULE Forms --------------------------------
(***************************************************************************)
(* Values, source forms and native functions, shared by the tree-walking   *)
(* evaluator, the bytecode compiler and the virtual machine.               *)
(*                                                                         *)
(* A value is a tag with a number or a name: a cons is an index into a     *)
(* heap of <<car, cdr>> pairs, a function an index into the functions made *)
(* so far.  All flonums are one value.  A form has been read already.      *)
(* Of the natives the two engines share, a representative few are kept:    *)
(* the other comparisons and arithmetic differ only in the operator.       *)
(***************************************************************************)
EXTENDS Integers, Sequences, SequencesExt

Value(tag, n, s) == [tag |-> tag, n |-> n, s |-> s]

NilV      == Value("nil", 0, "")
TV        == Value("t", 0, "")
Flonum    == Value("flonum", 0, "")
Fix(n)    == Value("fixnum", n, "")
Sym(s)    == Value("symbol", 0, s)
Native(s) == Value("native", 0, s)
Fn(i)     == Value("function", i, "")
Proto(i)  == Value("proto", i, "")       \* compiled code
Pair(i)   == Value("cons", i, "")
Unbound   == Value("unbound", 0, "")     \* an empty value or function cell

Truth(b) == IF b THEN TV ELSE NilV

IsFn(v) == v.tag \in {"function", "native"}

-----------------------------------------------------------------------------
(* Conses.                                                                 *)

(* heap with a list of vs built in it, and the list.                       *)
Listed(heap, vs) ==
  heap \o [k \in 1..Len(vs) |->
             <<vs[k], IF k = Len(vs) THEN NilV ELSE Pair(Len(heap) + k + 1)>>]

ListOf(heap, vs) == IF vs = <<>> THEN NilV ELSE Pair(Len(heap) + 1)

(* The car or cdr of anything but a cons is nil.                           *)
Part(heap, v, i) == IF v.tag = "cons" THEN heap[v.n][i] ELSE NilV

-----------------------------------------------------------------------------
(* Forms.  name is the symbol of an atom or a call, vars the variables     *)
(* bound or assigned, of the subforms.                                     *)

Form(head, name, val, vars, of) ==
  [head |-> head, name |-> name, val |-> val, vars |-> vars, of |-> of,
   n_opt |-> 0, has_rest |-> FALSE]

Quote(v)         == Form("quote", "", v, <<>>, <<>>)
Const(v)         == Form("const", "", v, <<>>, <<>>)
Var(s)           == Form("variable", s, NilV, <<>>, <<>>)
Special(h, of)   == Form(h, "", NilV, <<>>, of)     \* if progn and or when unless cond
Clause(of)       == Form("clause", "", NilV, <<>>, of)
Setq(vars, of)   == Form("setq", "", NilV, vars, of)
Let(h, vars, of) == Form(h, "", NilV, vars, of)     \* inits, then the body
Flet(h, vars, of) == Form(h, "", NilV, vars, of)    \* lambdas, then the body
Mvb(vars, of)    == Form("mvb", "", NilV, vars, of) \* multiple-value-bind
Define(h, s, f)  == Form(h, s, NilV, <<>>, <<f>>)   \* defun defvar defparameter
FunctionOf(s)    == Form("function", s, NilV, <<>>, <<>>)
Call(s, of)      == Form("call", s, NilV, <<>>, of)
CallForm(of)     == Form("apply", "", NilV, <<>>, of)  \* ((lambda ...) args)

(* The last n_opt of vars are optional; with has_rest the last is &rest.   *)
Lambda(vars, n_opt, has_rest, of) ==
  [Form("lambda", "", NilV, vars, of) EXCEPT !.n_opt = n_opt, !.has_rest = has_rest]

-----------------------------------------------------------------------------
(* Arithmetic.                                                             *)

(* The remainder with the sign of the dividend, C's operator %.            *)
Truncated(a, b) ==
  LET Abs(i) == IF i < 0 THEN 0 - i ELSE i
      r      == Abs(a) % Abs(b)
  IN  IF a < 0 THEN 0 - r ELSE r

(* The remainder with the sign of the divisor.                             *)
Floored(a, b) ==
  LET r == Truncated(a, b)
  IN  IF r # 0 /\ ((r < 0) # (b < 0)) THEN r + b ELSE r

AllFixnums(vs) == \A i \in DOMAIN vs : vs[i].tag = "fixnum"

AnyFlonum(vs) == \E i \in DOMAIN vs : vs[i].tag = "flonum"

(* What num_as_f and its kin make of a value that is not a flonum.         *)
NumOf(v) == IF v.tag = "fixnum" THEN v.n ELSE 0

(* The sums of the first i of vs.                                          *)
Sums(vs) ==
  LET s[i \in 0..Len(vs)] == IF i = 0 THEN 0 ELSE s[i - 1] + NumOf(vs[i])
  IN  s

Sum(vs) == Sums(vs)[Len(vs)]

-----------------------------------------------------------------------------
(* Native functions called as functions.                                   *)

Arithmetic == {"+", "-", "<", "MOD", "REM"}

Unlimited == 1000

MinArgs == [s \in Arithmetic \cup {"EQ", "NOT", "CONS", "CAR", "CDR", "LIST", "FUNCALL", "VALUES"} |->
              CASE s \in {"+", "-", "LIST", "VALUES"} -> 0
                [] s \in {"MOD", "REM", "EQ", "CONS"} -> 2
                [] OTHER                              -> 1]

MaxArgs == [s \in DOMAIN MinArgs |->
              IF s \in {"+", "-", "<", "LIST", "FUNCALL", "VALUES"} THEN Unlimited ELSE MinArgs[s]]

(* + and - ignore what is not a number, comparisons take it for zero; what *)
(* a flonum compares like is not known.                                    *)
NativeResults(s, vs) ==
  CASE s = "+" -> IF AnyFlonum(vs) THEN {Flonum} ELSE {Fix(Sum(vs))}
    [] s = "-" -> IF AnyFlonum(vs) THEN {Flonum}
                  ELSE {Fix(IF Len(vs) < 2 THEN 0 - Sum(vs) ELSE NumOf(vs[1]) - Sum(Tail(vs)))}
    [] s = "<" -> IF AnyFlonum(vs) THEN {TV, NilV}
                  ELSE {Truth(\A i \in 1..Len(vs)-1 : NumOf(vs[i]) < NumOf(vs[i + 1]))}
    [] s \in {"MOD", "REM"} -> IF AllFixnums(SubSeq(vs, 1, 2))
                               THEN {Fix(Truncated(vs[1].n, vs[2].n))} ELSE {Flonum}
    [] s = "EQ"  -> {Truth(vs[1] = vs[2])}
    [] s = "NOT" -> {Truth(vs[1] = NilV)}
    [] s = "VALUES" -> {IF vs = <<>> THEN NilV ELSE vs[1]}

-----------------------------------------------------------------------------
(* Instructions: an operation and its operand.                             *)

Instr(op, arg) == [op |-> op, arg |-> arg]

Binary == {"+", "-", "<", "MOD", "EQ"}

Unary == {"NEG", "NOT"}
=============================================================================
