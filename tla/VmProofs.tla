------------------------------ MODULE VmProofs -------------------------------
(***************************************************************************)
(* The virtual machine is safe on any code: whatever its instructions, and *)
(* however many of them, no activation touches anything outside its        *)
(* operand stack, and no value refers to what does not exist.  On code     *)
(* that lands on its own instructions control stays inside; on disciplined *)
(* code the operands stay above the locals, and loops stay flat.           *)
(***************************************************************************)
EXTENDS Shapes, Induction

-----------------------------------------------------------------------------
(* The inductive invariant: an activation that waits for a call to return  *)
(* has room for the value it will be given.                                *)

Suspended(fs) == \A k \in 1..Len(fs)-1 : fs[k].sp < StackSize - 4

VInv == TypeOK /\ Suspended(frames)

Vals == Values(Len(protos), Len(fns), Len(heap))

-----------------------------------------------------------------------------
(* Sequences.                                                              *)

LEMMA IsASeq ==
  ASSUME NEW S, NEW n \in Nat, NEW f \in [1..n -> S]
  PROVE  f \in Seq(S) /\ Len(f) = n
OBVIOUS

LEMMA Appended ==
  ASSUME NEW S, NEW s \in Seq(S), NEW x \in S
  PROVE  Append(s, x) \in Seq(S) /\ Len(Append(s, x)) = Len(s) + 1
OBVIOUS

LEMMA Within ==
  ASSUME NEW S, NEW T, S \subseteq T
  PROVE  Seq(S) \subseteq Seq(T)
<1>1. ASSUME NEW s \in Seq(S) PROVE s \in Seq(T)
  <2>1. s \in [1..Len(s) -> T] /\ Len(s) \in Nat
    OBVIOUS
  <2>2. QED
    BY <2>1, IsASeq
<1>2. QED
  BY <1>1

LEMMA Replaced ==
  ASSUME NEW S, NEW s \in Seq(S), NEW i \in 1..Len(s), NEW x \in S
  PROVE  /\ [s EXCEPT ![i] = x] \in Seq(S)
         /\ Len([s EXCEPT ![i] = x]) = Len(s)
         /\ \A k \in 1..Len(s) : [s EXCEPT ![i] = x][k] = IF k = i THEN x ELSE s[k]
OBVIOUS

-----------------------------------------------------------------------------
(* Values.                                                                 *)

(* What exists goes on existing.                                           *)
LEMMA ValuesGrow ==
  ASSUME NEW np \in Nat, NEW nf \in Nat, NEW nh \in Nat, NEW nf2 \in Nat, NEW nh2 \in Nat,
         nf <= nf2, nh <= nh2
  PROVE  Values(np, nf, nh) \subseteq Values(np, nf2, nh2)
<1>1. ASSUME NEW v \in Values(np, nf, nh) PROVE v \in Values(np, nf2, nh2)
  <2>1. 1..nf \subseteq 1..nf2 /\ 1..nh \subseteq 1..nh2
    OBVIOUS
  <2>2. QED
    BY <2>1 DEF Values
<1>2. QED
  BY <1>1

LEMMA ActivationsGrow ==
  ASSUME NEW nf \in Nat, NEW nf2 \in Nat, nf <= nf2, NEW A, NEW B, A \subseteq B
  PROVE  Activations(nf, A) \subseteq Activations(nf2, B)
<1>1. [0..StackSize-1 -> A] \subseteq [0..StackSize-1 -> B]
  OBVIOUS
<1>2. 1..nf \subseteq 1..nf2
  OBVIOUS
<1>3. QED
  BY <1>1, <1>2 DEF Activations

LEMMA ClosuresGrow ==
  ASSUME NEW np \in Nat, NEW nf \in Nat, NEW nh \in Nat, NEW nf2 \in Nat, NEW nh2 \in Nat,
         nf <= nf2, nh <= nh2
  PROVE  Closures(np, nf, nh) \subseteq Closures(np, nf2, nh2)
<1>1. Seq(Values(np, nf, nh)) \subseteq Seq(Values(np, nf2, nh2))
  BY ValuesGrow, Within
<1>2. QED
  BY <1>1 DEF Closures

(* The values the machine makes.                                           *)
LEMMA Making ==
  ASSUME NEW np \in Nat, NEW nf \in Nat, NEW nh \in Nat, NEW tag \in Tags, NEW n \in Int,
         NEW s \in Names,
         tag = "proto" => n \in 1..np, tag = "function" => n \in 1..nf /\ s = "",
         tag = "cons" => n \in 1..nh, tag = "fixnum" => s = "",
         tag = "native" => s \in DOMAIN MinArgs /\ n = 0, tag = "symbol" => s \in Symbols
  PROVE  Value(tag, n, s) \in Values(np, nf, nh)
BY DEF Values, Value

LEMMA NilIsValue ==
  ASSUME NEW np \in Nat, NEW nf \in Nat, NEW nh \in Nat
  PROVE  NilV \in Values(np, nf, nh)
<1>1. "nil" \in Tags /\ 0 \in Int /\ "" \in Names
  BY DEF Tags, Names
<1>2. Value("nil", 0, "") \in Values(np, nf, nh)
  BY <1>1, Making
<1>3. QED
  BY <1>2 DEF NilV

LEMMA TIsValue ==
  ASSUME NEW np \in Nat, NEW nf \in Nat, NEW nh \in Nat
  PROVE  TV \in Values(np, nf, nh)
<1>1. "t" \in Tags /\ 0 \in Int /\ "" \in Names
  BY DEF Tags, Names
<1>2. Value("t", 0, "") \in Values(np, nf, nh)
  BY <1>1, Making
<1>3. QED
  BY <1>2 DEF TV

LEMMA TruthIsValue ==
  ASSUME NEW np \in Nat, NEW nf \in Nat, NEW nh \in Nat, NEW b
  PROVE  Truth(b) \in Values(np, nf, nh)
BY NilIsValue, TIsValue DEF Truth

LEMMA FlonumIsValue ==
  ASSUME NEW np \in Nat, NEW nf \in Nat, NEW nh \in Nat
  PROVE  Flonum \in Values(np, nf, nh)
<1>1. "flonum" \in Tags /\ 0 \in Int /\ "" \in Names
  BY DEF Tags, Names
<1>2. Value("flonum", 0, "") \in Values(np, nf, nh)
  BY <1>1, Making
<1>3. QED
  BY <1>2 DEF Flonum

LEMMA FixIsValue ==
  ASSUME NEW np \in Nat, NEW nf \in Nat, NEW nh \in Nat, NEW n \in Int
  PROVE  Fix(n) \in Values(np, nf, nh)
<1>1. "fixnum" \in Tags /\ n \in Int /\ "" \in Names
  BY DEF Tags, Names
<1>2. Value("fixnum", n, "") \in Values(np, nf, nh)
  BY <1>1, Making
<1>3. QED
  BY <1>2 DEF Fix

LEMMA SymIsValue ==
  ASSUME NEW np \in Nat, NEW nf \in Nat, NEW nh \in Nat, NEW s \in Symbols
  PROVE  Sym(s) \in Values(np, nf, nh)
<1>1. "symbol" \in Tags
  BY DEF Tags
<1>2. s \in Names
  BY DEF Names
<1>3. Sym(s) \in [tag : Tags, n : Int, s : Names]
  BY <1>1, <1>2 DEF Sym, Value
<1>4. Sym(s).tag = "symbol" /\ Sym(s).n = 0 /\ Sym(s).s = s
  BY DEF Sym, Value
<1>5. QED
  BY <1>3, <1>4 DEF Values

LEMMA FnIsValue ==
  ASSUME NEW np \in Nat, NEW nf \in Nat, NEW nh \in Nat, NEW i \in 1..nf
  PROVE  Fn(i) \in Values(np, nf, nh)
<1>1. "function" \in Tags /\ i \in Int /\ "" \in Names
  BY DEF Tags, Names
<1>2. Value("function", i, "") \in Values(np, nf, nh)
  BY <1>1, Making
<1>3. QED
  BY <1>2 DEF Fn

LEMMA PairIsValue ==
  ASSUME NEW np \in Nat, NEW nf \in Nat, NEW nh \in Nat, NEW i \in 1..nh
  PROVE  Pair(i) \in Values(np, nf, nh)
<1>1. "cons" \in Tags /\ i \in Int /\ "" \in Names
  BY DEF Tags, Names
<1>2. Value("cons", i, "") \in Values(np, nf, nh)
  BY <1>1, Making
<1>3. QED
  BY <1>2 DEF Pair

(* What a value is known to be.                                            *)
LEMMA ValueIs ==
  ASSUME NEW np \in Nat, NEW nf \in Nat, NEW nh \in Nat, NEW v \in Values(np, nf, nh)
  PROVE  /\ v \in [tag : Tags, n : Int, s : Names]
         /\ v.tag = "proto" => v.n \in 1..np
         /\ v.tag = "function" => v.n \in 1..nf /\ v = Fn(v.n)
         /\ v.tag = "cons" => v.n \in 1..nh
         /\ v.tag = "fixnum" => v = Fix(v.n)
         /\ v.tag = "native" => v.s \in DOMAIN MinArgs /\ v = Native(v.s)
         /\ v.tag = "symbol" => v.s \in Symbols
BY DEF Values, Fix, Native, Fn, Value

-----------------------------------------------------------------------------
(* Arithmetic.                                                             *)

LEMMA NumOfInt ==
  ASSUME NEW np \in Nat, NEW nf \in Nat, NEW nh \in Nat, NEW v \in Values(np, nf, nh)
  PROVE  NumOf(v) \in Int
BY ValueIs DEF NumOf

LEMMA SumInt ==
  ASSUME NEW np \in Nat, NEW nf \in Nat, NEW nh \in Nat, NEW vs \in Seq(Values(np, nf, nh))
  PROVE  Sum(vs) \in Int
<1> DEFINE a == [i \in 1..Len(vs) |-> NumOf(vs[i])]
<1>1. \A i \in 1..Len(vs) : a[i] \in Int
  BY NumOfInt
<1>2. PICK f \in [0..Len(vs) -> Int] :
        f = [i \in 0..Len(vs) |-> IF i = 0 THEN 0 ELSE f[i - 1] + a[i]]
  BY <1>1, SumsExist, Len(vs) \in Nat
<1>3. \A g : [i \in 0..Len(vs) |-> IF i = 0 THEN 0 ELSE g[i - 1] + a[i]]
              = [i \in 0..Len(vs) |-> IF i = 0 THEN 0 ELSE g[i - 1] + NumOf(vs[i])]
  OBVIOUS
<1>4. f = [i \in 0..Len(vs) |-> IF i = 0 THEN 0 ELSE f[i - 1] + NumOf(vs[i])]
  BY <1>2, <1>3
<1>5. Sums(vs) = [i \in 0..Len(vs) |-> IF i = 0 THEN 0 ELSE Sums(vs)[i - 1] + NumOf(vs[i])]
  BY <1>4 DEF Sums
<1>6. Sums(vs)[0] = 0 /\ \A i \in 1..Len(vs) : Sums(vs)[i] = Sums(vs)[i - 1] + a[i]
  <2>1. PICK g : g = Sums(vs)
    OBVIOUS
  <2>2. g = [i \in 0..Len(vs) |-> IF i = 0 THEN 0 ELSE g[i - 1] + NumOf(vs[i])]
    BY <1>5, <2>1
  <2>3. g[0] = 0 /\ \A i \in 1..Len(vs) : g[i] = g[i - 1] + NumOf(vs[i])
    BY <2>2
  <2>4. QED
    BY <2>1, <2>3
<1>7. \A i \in 0..Len(vs) : Sums(vs)[i] \in Int
  <2>1. PICK n, g, b : n \in Nat /\ n = Len(vs) /\ g = Sums(vs) /\ b = a
    OBVIOUS
  <2>2. g[0] = 0 /\ \A i \in 1..n : g[i] = g[i - 1] + b[i]
    BY <1>6, <2>1
  <2>3. b \in [1..n -> Int]
    BY <1>1, <2>1
  <2> HIDE DEF a
  <2>4. \A i \in 0..n : g[i] \in Int
    BY <2>1, <2>2, <2>3, SumsAreInt
  <2>5. QED
    BY <2>1, <2>4
<1>8. QED
  BY <1>7 DEF Sum

LEMMA RemainderInt ==
  ASSUME NEW a \in Int, NEW b \in Int, b # 0
  PROVE  Truncated(a, b) \in Int /\ Floored(a, b) \in Int
<1>1. Truncated(a, b) \in Int
  BY DEF Truncated
<1>2. QED
  BY <1>1 DEF Floored

(* What a native returns that makes no cons.                               *)
LEMMA NativeValue ==
  ASSUME NEW np \in Nat, NEW nf \in Nat, NEW nh \in Nat, NEW vs \in Seq(Values(np, nf, nh)),
         NEW s \in DOMAIN MinArgs \ {"CONS", "LIST", "CAR", "CDR", "FUNCALL"},
         s = "<" \/ Len(vs) >= MinArgs[s],
         s \in {"MOD", "REM"} => vs[2] # Fix(0),
         NEW v \in NativeResults(s, vs)
  PROVE  v \in Values(np, nf, nh)
<1> DEFINE W == Values(np, nf, nh)
<1>1. s \in {"+", "-", "<", "MOD", "REM", "EQ", "NOT", "VALUES"}
  BY DEF MinArgs, Arithmetic
<1>2. CASE s = "+"
  <2>1. v = Flonum \/ v = Fix(Sum(vs))
    BY <1>2 DEF NativeResults
  <2>2. QED
    BY <2>1, SumInt, FlonumIsValue, FixIsValue
<1>3. CASE s = "-"
  <2>1. \/ v = Flonum
        \/ v = Fix(IF Len(vs) < 2 THEN 0 - Sum(vs) ELSE NumOf(vs[1]) - Sum(Tail(vs)))
    BY <1>3 DEF NativeResults
  <2>2. Sum(vs) \in Int
    BY SumInt
  <2>3. Len(vs) >= 2 => NumOf(vs[1]) \in Int /\ Sum(Tail(vs)) \in Int
    <3>1. Len(vs) >= 2 => vs[1] \in W /\ Tail(vs) \in Seq(W)
      OBVIOUS
    <3>2. QED
      BY <3>1, NumOfInt, SumInt
  <2>4. (IF Len(vs) < 2 THEN 0 - Sum(vs) ELSE NumOf(vs[1]) - Sum(Tail(vs))) \in Int
    BY <2>2, <2>3
  <2>5. QED
    BY <2>1, <2>4, FlonumIsValue, FixIsValue
<1>4. CASE s = "<"
  <2>1. \/ v = TV
        \/ v = NilV
        \/ v = Truth(\A i \in 1..Len(vs)-1 : NumOf(vs[i]) < NumOf(vs[i + 1]))
    BY <1>4 DEF NativeResults
  <2>2. QED
    BY <2>1, TIsValue, NilIsValue, TruthIsValue
<1>5. CASE s \in {"MOD", "REM"}
  <2>1. Len(vs) >= 2
    BY <1>5 DEF MinArgs, Arithmetic
  <2>2. vs[1] \in W /\ vs[2] \in W
    BY <2>1
  <2>3. v = Flonum \/ (AllFixnums(SubSeq(vs, 1, 2)) /\ v = Fix(Truncated(vs[1].n, vs[2].n)))
    BY <1>5 DEF NativeResults
  <2>4. ASSUME AllFixnums(SubSeq(vs, 1, 2)) PROVE v \in W
    <3>1. vs[2].tag = "fixnum"
      <4>1. 2 \in DOMAIN SubSeq(vs, 1, 2) /\ SubSeq(vs, 1, 2)[2] = vs[2]
        BY <2>1
      <4>2. QED
        BY <2>4, <4>1 DEF AllFixnums
    <3>2. vs[2].n # 0
      BY <1>5, <2>2, <3>1, ValueIs
    <3>3. vs[1].n \in Int /\ vs[2].n \in Int
      BY <2>2, ValueIs
    <3>4. Truncated(vs[1].n, vs[2].n) \in Int
      BY <3>2, <3>3, RemainderInt
    <3>5. QED
      BY <2>3, <3>4, FixIsValue, FlonumIsValue
  <2>5. QED
    BY <2>3, <2>4, FlonumIsValue
<1>6. CASE s \in {"EQ", "NOT"}
  <2>1. v = Truth(vs[1] = vs[2]) \/ v = Truth(vs[1] = NilV)
    BY <1>6 DEF NativeResults
  <2>2. QED
    BY <2>1, TruthIsValue
<1>7. CASE s = "VALUES"
  <2>1. v = IF vs = <<>> THEN NilV ELSE vs[1]
    BY <1>7 DEF NativeResults
  <2>2. QED
    BY <2>1, NilIsValue
<1>8. QED
  BY <1>1, <1>2, <1>3, <1>4, <1>5, <1>6, <1>7

(* What an arithmetic instruction leaves.                                  *)
LEMMA OperatorValue ==
  ASSUME NEW np \in Nat, NEW nf \in Nat, NEW nh \in Nat,
         NEW op \in Binary \cup Unary,
         NEW a \in Values(np, nf, nh), NEW b \in Values(np, nf, nh),
         op = "MOD" => ~(b = Fix(0) /\ a.tag = "fixnum"),
         NEW v \in Results(op, a, b)
  PROVE  v \in Values(np, nf, nh)
<1>1. op \in {"+", "-", "<", "MOD", "EQ", "NEG", "NOT"}
  BY DEF Binary, Unary
<1>2. a.n \in Int /\ b.n \in Int
  BY ValueIs
<1>3. CASE op \in {"EQ", "NOT", "<"}
  <2>1. v = TV \/ v = NilV
    BY <1>3 DEF Results, Truth
  <2>2. QED
    BY <2>1, TIsValue, NilIsValue
<1>4. CASE op = "NEG"
  <2>1. v = Flonum \/ v = Fix(0 - b.n)
    BY <1>4 DEF Results
  <2>2. QED
    BY <1>2, <2>1, FlonumIsValue, FixIsValue
<1>5. CASE op \in {"+", "-"}
  <2>1. v = Flonum \/ v = Fix(a.n + b.n) \/ v = Fix(a.n - b.n)
    BY <1>5 DEF Results
  <2>2. QED
    BY <1>2, <2>1, FlonumIsValue, FixIsValue
<1>6. CASE op = "MOD"
  <2>1. v = Flonum \/ (AllFixnums(<<a, b>>) /\ v = Fix(Floored(a.n, b.n)))
    BY <1>6 DEF Results
  <2>2. ASSUME AllFixnums(<<a, b>>) PROVE b.n # 0
    <3>1. a.tag = "fixnum" /\ b.tag = "fixnum"
      BY <2>2 DEF AllFixnums
    <3>2. QED
      BY <1>6, <3>1, ValueIs
  <2>3. CASE v = Flonum
    BY <2>3, FlonumIsValue
  <2>4. CASE AllFixnums(<<a, b>>) /\ v = Fix(Floored(a.n, b.n))
    <3>1. Floored(a.n, b.n) \in Int
      BY <1>2, <2>2, <2>4, RemainderInt
    <3>2. QED
      BY <2>4, <3>1, FixIsValue
  <2>5. QED
    BY <2>1, <2>3, <2>4
<1>7. QED
  BY <1>1, <1>3, <1>4, <1>5, <1>6

-----------------------------------------------------------------------------
(* Activations.                                                            *)

(* The innermost activation makes way for its next state.                  *)
Topped(fs, r) == [fs EXCEPT ![Len(fs)] = r]

LEMMA TopReplaced ==
  ASSUME NEW nf \in Nat, NEW A, NEW fs \in Seq(Activations(nf, A)), fs # <<>>, Suspended(fs),
         NEW nf2 \in Nat, nf <= nf2, NEW B, A \subseteq B, NEW r \in Activations(nf2, B),
         NEW gs, gs = Topped(fs, r)
  PROVE  gs \in Seq(Activations(nf2, B)) /\ Suspended(gs) /\ gs # <<>>
<1>1. fs \in Seq(Activations(nf2, B))
  BY ActivationsGrow, Within
<1>2. Len(fs) \in 1..Len(fs)
  OBVIOUS
<1>3. gs \in Seq(Activations(nf2, B))
  BY <1>1, <1>2, Replaced DEF Topped
<1>4. Len(gs) = Len(fs)
  BY <1>1, <1>2, Replaced DEF Topped
<1>5. \A k \in 1..Len(fs)-1 : gs[k].sp < StackSize - 4
  BY <1>1 DEF Suspended, Topped
<1>6. Suspended(gs)
  BY <1>4, <1>5 DEF Suspended
<1>7. gs # <<>>
  BY <1>3, <1>4
<1>8. QED
  BY <1>3, <1>6, <1>7

(* An activation begins on top of one that waits for its value.            *)
LEMMA TopAdded ==
  ASSUME NEW nf \in Nat, NEW A, NEW fs \in Seq(Activations(nf, A)), fs # <<>>, Suspended(fs),
         NEW r \in Activations(nf, A), r.sp < StackSize - 4, NEW e \in Activations(nf, A)
  PROVE  /\ Append([fs EXCEPT ![Len(fs)] = r], e) \in Seq(Activations(nf, A))
         /\ Suspended(Append([fs EXCEPT ![Len(fs)] = r], e))
         /\ Append([fs EXCEPT ![Len(fs)] = r], e) # <<>>
<1> DEFINE gs == [fs EXCEPT ![Len(fs)] = r]
<1>1. gs \in Seq(Activations(nf, A)) /\ Len(gs) = Len(fs)
  BY Replaced, Len(fs) \in 1..Len(fs)
<1>2. \A k \in 1..Len(fs) : Append(gs, e)[k] = IF k = Len(fs) THEN r ELSE fs[k]
  BY <1>1
<1>3. Append(gs, e) \in Seq(Activations(nf, A)) /\ Len(Append(gs, e)) = Len(fs) + 1
  <2> HIDE DEF gs
  <2>1. QED
    BY <1>1, Appended
<1>4. \A k \in 1..Len(fs) : Append(gs, e)[k].sp < StackSize - 4
  BY <1>2 DEF Suspended
<1> HIDE DEF gs
<1>5. Suspended(Append(gs, e))
  BY <1>3, <1>4 DEF Suspended
<1>6. Append(gs, e) # <<>>
  BY <1>3
<1>7. QED
  BY <1>3, <1>5, <1>6 DEF gs

LEMMA PushedOn ==
  ASSUME NEW nf \in Nat, NEW A, NEW c \in Activations(nf, A), NEW n \in Nat, n <= c.sp,
         c.sp < StackSize - 4, NEW nf2 \in Nat, nf <= nf2, NEW B, A \subseteq B, NEW v \in B
  PROVE  [c EXCEPT !.pc = @ + 1, !.sp = @ - n + 1, !.stack[c.sp - n] = v] \in Activations(nf2, B)
<1>1. c \in Activations(nf2, B)
  BY ActivationsGrow
<1>2. c.sp - n \in 0..StackSize-1 /\ c.sp - n + 1 \in 0..StackSize-4 /\ c.pc + 1 \in Int
  BY <1>1, StackAssumption DEF Activations
<1>3. [c.stack EXCEPT ![c.sp - n] = v] \in [0..StackSize-1 -> B]
  BY <1>1, <1>2 DEF Activations
<1>4. QED
  BY <1>1, <1>2, <1>3 DEF Activations

LEMMA Dropped ==
  ASSUME NEW nf \in Nat, NEW A, NEW c \in Activations(nf, A), NEW n \in Nat, n <= c.sp,
         NEW by \in Int
  PROVE  /\ [c EXCEPT !.pc = @ + 1 + by, !.sp = @ - n] \in Activations(nf, A)
         /\ [c EXCEPT !.pc = @ + 1 + by, !.sp = @ - n].sp = c.sp - n
<1>1. c.sp - n \in 0..StackSize-4 /\ c.pc + 1 + by \in Int
  BY StackAssumption DEF Activations
<1>2. QED
  BY <1>1 DEF Activations

LEMMA EnteredOK ==
  ASSUME NEW np \in Nat, NEW nf \in Nat, NEW nh \in Nat, NEW f \in 1..nf, NEW p \in Protos(np),
         NEW args \in Seq(Values(np, nf, nh))
  PROVE  Entered(f, p, args) \in Activations(nf, Values(np, nf, nh))
<1>1. p.n_locals \in 0..StackSize-5 /\ p.n_locals \in 0..StackSize-4
  BY StackAssumption DEF Protos
<1>2. Bound(p, args) \in [0..StackSize-1 -> Values(np, nf, nh)]
  <2>1. ASSUME NEW i \in 0..StackSize-1
        PROVE  (IF i < p.n_locals /\ i < p.n_args + p.n_opt /\ i < Len(args) THEN args[i + 1]
                ELSE NilV) \in Values(np, nf, nh)
    <3>1. i < Len(args) => args[i + 1] \in Values(np, nf, nh)
      OBVIOUS
    <3>2. QED
      BY <3>1, NilIsValue
  <2>2. QED
    BY <2>1 DEF Bound
<1>3. QED
  BY <1>1, <1>2 DEF Entered, Activations

-----------------------------------------------------------------------------
(* The activation that runs.                                               *)

LEMMA Here ==
  ASSUME VInv, Running
  PROVE  /\ Len(protos) \in Nat /\ Len(fns) \in Nat /\ Len(heap) \in Nat /\ Len(frames) \in Nat
         /\ frames \in Seq(Activations(Len(fns), Vals)) /\ frames # <<>>
         /\ Cur \in Activations(Len(fns), Vals)
         /\ Cur.fn \in 1..Len(fns)
         /\ Self \in Closures(Len(protos), Len(fns), Len(heap))
         /\ Self.proto \in 1..Len(protos)
         /\ Code \in Protos(Len(protos))
<1>1. /\ protos \in Seq(Protos(Len(protos)))
      /\ fns \in Seq(Closures(Len(protos), Len(fns), Len(heap)))
      /\ heap \in Seq(Vals \X Vals)
      /\ frames \in Seq(Activations(Len(fns), Vals))
      /\ frames # <<>>
  BY DEF VInv, TypeOK, Vals
<1>2. Len(protos) \in Nat /\ Len(fns) \in Nat /\ Len(heap) \in Nat /\ Len(frames) \in Nat
  BY <1>1
<1>3. Cur \in Activations(Len(fns), Vals)
  BY <1>1 DEF Cur
<1>4. Cur.fn \in 1..Len(fns)
  BY <1>3 DEF Activations
<1>5. Self \in Closures(Len(protos), Len(fns), Len(heap))
  BY <1>1, <1>4 DEF Self
<1>6. Self.proto \in 1..Len(protos)
  BY <1>5 DEF Closures
<1>7. Code \in Protos(Len(protos))
  BY <1>1, <1>6 DEF Code
<1>8. QED
  BY <1>1, <1>2, <1>3, <1>4, <1>5, <1>6, <1>7

LEMMA Fetched ==
  ASSUME VInv, Running, Ready
  PROVE  I \in [op : Opcodes, arg : 0..ArgRange-1] /\ I.op \in Opcodes /\ I.arg \in Nat
<1> DEFINE S == [op : Opcodes, arg : 0..ArgRange-1]
<1>1. Code.code \in Seq(S)
  BY Here DEF Protos
<1>2. Cur.pc + 1 \in 1..Len(Code.code)
  <2>1. Cur.pc \in Int
    BY Here DEF Activations
  <2>2. Len(Code.code) \in Nat
    BY <1>1
  <2>3. QED
    BY <2>1, <2>2 DEF Ready
<1>3. I \in [op : Opcodes, arg : 0..ArgRange-1]
  <2> HIDE DEF S
  <2>1. \A i \in 1..Len(Code.code) : Code.code[i] \in S
    BY <1>1
  <2>2. QED
    BY <1>2, <2>1 DEF I, S
<1>4. QED
  BY <1>3, ArgAssumption

LEMMA OperandOK ==
  ASSUME VInv, Running, NEW k \in 1..Cur.sp
  PROVE  Operand(k) \in Vals
<1>1. Cur.sp \in 0..StackSize-4 /\ Cur.stack \in [0..StackSize-1 -> Vals]
  BY Here DEF Activations
<1>2. Cur.sp - k \in 0..StackSize-1
  BY <1>1, StackAssumption
<1>3. QED
  BY <1>1, <1>2 DEF Operand

LEMMA OperandsOK ==
  ASSUME VInv, Running, NEW n \in 0..Cur.sp
  PROVE  Operands(n) \in Seq(Vals) /\ Len(Operands(n)) = n
<1>1. Cur.sp \in 0..StackSize-4 /\ Cur.stack \in [0..StackSize-1 -> Vals]
  BY Here DEF Activations
<1>2. \A k \in 1..n : Cur.sp - n + k - 1 \in 0..StackSize-1
  BY <1>1, StackAssumption
<1>3. Operands(n) \in [1..n -> Vals]
  BY <1>1, <1>2 DEF Operands
<1>4. QED
  BY <1>1, <1>3, IsASeq

-----------------------------------------------------------------------------
(* What keeps the invariant.                                               *)

Outcomes(A) == [status : {"running", "value", "error", "exhausted", "undefined"}, val : A]

(* Functions and conses are only added.                                    *)
Grown ==
  /\ program' = program
  /\ Len(fns') \in Nat /\ Len(fns) <= Len(fns')
  /\ Len(heap') \in Nat /\ Len(heap) <= Len(heap')

Typed ==
  /\ fns' \in Seq(Closures(Len(protos), Len(fns'), Len(heap')))
  /\ heap' \in Seq(Vals' \X Vals')

Framed ==
  frames' \in Seq(Activations(Len(fns'), Vals')) /\ Suspended(frames') /\ frames' # <<>>

LEMMA Keeps ==
  ASSUME VInv, Grown, Typed, functions' = functions, globals' \in [Symbols -> Vals'],
         Framed \/ frames' = <<>>, outcome' \in Outcomes(Vals'), Running' => Framed
  PROVE  VInv'
<1>1. protos' = protos
  BY DEF protos, Grown
<1>2. Cells(Len(protos), Len(fns)) \subseteq Cells(Len(protos), Len(fns'))
  <2>1. Len(protos) \in Nat /\ Len(fns) \in Nat
    BY DEF VInv, TypeOK
  <2>2. Values(Len(protos), Len(fns), 0) \subseteq Values(Len(protos), Len(fns'), 0)
    BY <2>1, ValuesGrow DEF Grown
  <2>3. QED
    BY <2>2 DEF Cells
<1>3. functions' \in [Symbols -> Cells(Len(protos), Len(fns'))]
  BY <1>2 DEF VInv, TypeOK
<1>4. frames' \in Seq(Activations(Len(fns'), Vals')) /\ Suspended(frames')
  <2>1. CASE Framed
    BY <2>1 DEF Framed
  <2>2. CASE frames' = <<>>
    BY <2>2 DEF Suspended
  <2>3. QED
    BY <2>1, <2>2
<1>5. TypeOK'
  BY <1>1, <1>3, <1>4 DEF VInv, TypeOK, Vals, Typed, Outcomes, Framed
<1>6. QED
  BY <1>4, <1>5 DEF VInv

(* What was well-formed still is.                                          *)
LEMMA Grows ==
  ASSUME VInv, Running, Grown
  PROVE  /\ Vals \subseteq Vals'
         /\ Closures(Len(protos), Len(fns), Len(heap))
              \subseteq Closures(Len(protos), Len(fns'), Len(heap'))
         /\ globals \in [Symbols -> Vals']
         /\ heap \in Seq(Vals' \X Vals')
         /\ fns \in Seq(Closures(Len(protos), Len(fns'), Len(heap')))
         /\ NilV \in Vals'
         /\ outcome \in Outcomes(Vals')
<1>1. protos' = protos /\ Len(protos) \in Nat /\ Len(fns) \in Nat /\ Len(heap) \in Nat
  BY Here DEF protos, Grown
<1>2. Vals \subseteq Vals'
  BY <1>1, ValuesGrow DEF Vals, Grown
<1>3. Closures(Len(protos), Len(fns), Len(heap))
        \subseteq Closures(Len(protos), Len(fns'), Len(heap'))
  BY <1>1, ClosuresGrow DEF Grown
<1>4. globals \in [Symbols -> Vals']
  BY <1>2 DEF VInv, TypeOK, Vals
<1>5. heap \in Seq(Vals' \X Vals')
  <2>1. Vals \X Vals \subseteq Vals' \X Vals'
    BY <1>2
  <2>2. heap \in Seq(Vals \X Vals)
    BY DEF VInv, TypeOK, Vals
  <2>3. QED
    BY <2>1, <2>2, Within
<1>6. fns \in Seq(Closures(Len(protos), Len(fns'), Len(heap')))
  BY <1>3, Within DEF VInv, TypeOK
<1>7. NilV \in Vals'
  BY <1>1, NilIsValue DEF Vals, Grown
<1>8. outcome \in Outcomes(Vals')
  BY <1>2 DEF VInv, TypeOK, Vals, Outcomes
<1>9. QED
  BY <1>2, <1>3, <1>4, <1>5, <1>6, <1>7, <1>8

LEMMA TopFramed ==
  ASSUME VInv, Running, Grown, NEW r \in Activations(Len(fns'), Vals'),
         frames' = [frames EXCEPT ![Len(frames)] = r]
  PROVE  Framed
<1>1. frames \in Seq(Activations(Len(fns), Vals)) /\ frames # <<>> /\ Len(fns) \in Nat
  BY Here
<1>2. Suspended(frames)
  BY DEF VInv
<1>3. Vals \subseteq Vals'
  BY Grows
<1>4. Len(fns') \in Nat /\ Len(fns) <= Len(fns')
  BY DEF Grown
<1>5. PICK m, B, gs : m = Len(fns') /\ B = Vals' /\ gs = frames'
  OBVIOUS
<1>6. /\ m \in Nat /\ Len(fns) <= m /\ Vals \subseteq B /\ r \in Activations(m, B)
      /\ gs = Topped(frames, r)
  BY <1>3, <1>4, <1>5 DEF Topped
<1>7. gs \in Seq(Activations(m, B)) /\ Suspended(gs) /\ gs # <<>>
  BY <1>1, <1>2, <1>6, TopReplaced
<1>8. QED
  BY <1>5, <1>7 DEF Framed

LEMMA PushKeeps ==
  ASSUME VInv, Running, Ready, Grown, Typed, UNCHANGED <<functions, globals, outcome>>,
         NEW n \in Nat, n <= Cur.sp, NEW v \in Vals', Push(n, v)
  PROVE  VInv'
<1>1. PICK r : r = [Cur EXCEPT !.pc = @ + 1, !.sp = @ - n + 1, !.stack[Cur.sp - n] = v]
  OBVIOUS
<1>2. r \in Activations(Len(fns'), Vals')
  <2>1. Cur \in Activations(Len(fns), Vals) /\ Len(fns) \in Nat
    BY Here
  <2>2. Cur.sp < StackSize - 4
    BY DEF Ready
  <2>3. Vals \subseteq Vals'
    BY Grows
  <2>4. Len(fns') \in Nat /\ Len(fns) <= Len(fns')
    BY DEF Grown
  <2>5. QED
    BY <1>1, <2>1, <2>2, <2>3, <2>4, PushedOn
<1>3. Framed
  BY <1>1, <1>2, TopFramed DEF Push
<1>4. QED
  BY <1>3, Grows, Keeps

LEMMA Still ==
  ASSUME VInv, Running, UNCHANGED <<program, fns, heap>>
  PROVE  Grown /\ Typed /\ Vals' = Vals
<1>1. Grown
  BY Here DEF Grown
<1>2. fns \in Seq(Closures(Len(protos), Len(fns'), Len(heap'))) /\ heap \in Seq(Vals' \X Vals')
  BY <1>1, Grows
<1>3. QED
  BY <1>1, <1>2 DEF Typed, Vals, protos

LEMMA SimplePush ==
  ASSUME VInv, Running, Ready,
         UNCHANGED <<program, fns, heap, functions, globals, outcome>>,
         NEW n \in Nat, n <= Cur.sp, NEW v \in Vals, Push(n, v)
  PROVE  VInv'
BY Still, PushKeeps

LEMMA DropKeeps ==
  ASSUME VInv, Running, Grown, Typed, Vals' = Vals, Len(fns') = Len(fns),
         UNCHANGED <<functions, outcome>>,
         globals' \in [Symbols -> Vals], NEW n \in Nat, n <= Cur.sp, NEW by \in Int, Drop(n, by)
  PROVE  VInv'
<1>1. PICK r : r = [Cur EXCEPT !.pc = @ + 1 + by, !.sp = @ - n]
  OBVIOUS
<1>2. r \in Activations(Len(fns'), Vals')
  BY <1>1, Here, Dropped
<1>3. Framed
  BY <1>1, <1>2, TopFramed DEF Drop
<1>4. QED
  BY <1>3, Grows, Keeps

-----------------------------------------------------------------------------
(* The instructions, one by one.                                           *)

LEMMA Checked ==
  ASSUME VInv, NEW ops, Executing(ops)
  PROVE  Running /\ Ready /\ Allowed /\ I.op \in ops /\ I.arg \in Nat /\ Cur.sp >= Needs(I)
BY Fetched DEF Executing, Allowed

LEMMA SpRange ==
  ASSUME VInv, Running
  PROVE  Cur.sp \in Nat /\ Cur.sp < StackSize - 3
BY Here, StackAssumption DEF Activations

LEMMA OneNeeded ==
  ASSUME I.op \in {"STORE_LOCAL", "STORE_UPVAL", "STORE_GLOBAL", "POP", "DUP", "JUMP_IF_NIL",
                   "JUMP_IF_NOT_NIL", "CAR", "CDR"} \cup Unary
  PROVE  Needs(I) = 1
BY DEF Needs, Binary, Unary

LEMMA TwoNeeded ==
  ASSUME I.op \in Binary \cup {"CONS"}
  PROVE  Needs(I) = 2
BY DEF Needs, Binary, Unary

LEMMA ListNeeds ==
  ASSUME I.op = "LIST"
  PROVE  Needs(I) = I.arg
BY DEF Needs, Binary, Unary

LEMMA CallNeeds ==
  ASSUME I.op \in {"CALL", "TAILCALL"}
  PROVE  Needs(I) = I.arg + 1
BY DEF Needs, Binary, Unary

LEMMA ConstantOK ==
  ASSUME VInv, Running, Ready, I.arg < Len(Code.consts)
  PROVE  K \in Values(Len(protos), 0, 0) /\ K \in Vals
<1>1. Code.consts \in Seq(Values(Len(protos), 0, 0))
  BY Here DEF Protos
<1>2. I.arg + 1 \in 1..Len(Code.consts)
  BY <1>1, Fetched
<1>3. K \in Values(Len(protos), 0, 0)
  BY <1>1, <1>2 DEF K
<1>4. Values(Len(protos), 0, 0) \subseteq Vals
  BY Here, ValuesGrow DEF Vals
<1>5. QED
  BY <1>3, <1>4

LEMMA ImmediateStep == ASSUME VInv, Immediate PROVE VInv'
<1> DEFINE v == CASE I.op = "CONST" -> K
                  [] I.op = "NIL"   -> NilV
                  [] I.op = "T"     -> TV
                  [] OTHER          -> Fix(Signed(I.arg))
<1>1. Running /\ Ready /\ I.arg \in Nat /\ 0 <= Cur.sp
  BY Checked, SpRange DEF Immediate
<1>2. v \in Vals
  <2>1. I.op = "CONST" => K \in Vals
    BY <1>1, ConstantOK DEF Immediate, Executing, Allowed
  <2>2. Signed(I.arg) \in Int
    BY <1>1, ArgAssumption DEF Signed
  <2>3. NilV \in Vals /\ TV \in Vals /\ Fix(Signed(I.arg)) \in Vals
    BY <1>1, <2>2, Here, NilIsValue, TIsValue, FixIsValue DEF Vals
  <2>4. QED
    BY <2>1, <2>3
<1>3. Push(0, v) /\ UNCHANGED <<program, fns, heap, functions, globals, outcome>>
  BY DEF Immediate
<1> HIDE DEF v
<1>4. QED
  BY <1>1, <1>2, <1>3, SimplePush

LEMMA LoadLocalStep == ASSUME VInv, LoadLocal PROVE VInv'
<1>1. Running /\ Ready /\ I.arg \in Nat /\ 0 <= Cur.sp
  BY Checked, SpRange DEF LoadLocal
<1>2. I.arg < Code.n_locals
  BY DEF LoadLocal, Executing, Allowed
<1>3. Cur.stack[I.arg] \in Vals
  <2>1. Code.n_locals \in 0..StackSize-5 /\ Cur.stack \in [0..StackSize-1 -> Vals]
    BY <1>1, Here DEF Protos, Activations
  <2>2. I.arg \in 0..StackSize-1
    BY <1>1, <1>2, <2>1, StackAssumption
  <2>3. QED
    BY <2>1, <2>2
<1>4. Push(0, Cur.stack[I.arg]) /\ UNCHANGED <<program, fns, heap, functions, globals, outcome>>
  BY DEF LoadLocal
<1>5. QED
  BY <1>1, <1>3, <1>4, SimplePush

LEMMA StoreLocalStep == ASSUME VInv, StoreLocal PROVE VInv'
<1>1. Running /\ Ready /\ I.arg \in Nat /\ I.op = "STORE_LOCAL" /\ Cur.sp >= 1
  BY Checked, OneNeeded DEF StoreLocal
<1>2. PICK r : r = [Cur EXCEPT !.pc = @ + 1, !.sp = @ - 1, !.stack[I.arg] = Operand(1)]
  OBVIOUS
<1>3. Grown /\ Typed /\ Vals' = Vals
  BY <1>1, Still DEF StoreLocal
<1>4. r \in Activations(Len(fns'), Vals')
  <2>1. Cur \in Activations(Len(fns), Vals)
    BY <1>1, Here
  <2>2. Operand(1) \in Vals
    BY <1>1, OperandOK, SpRange
  <2>3. Cur.sp - 1 \in 0..StackSize-4 /\ Cur.pc + 1 \in Int
    <3>1. Cur.sp \in 0..StackSize-4 /\ Cur.pc \in Int
      BY <2>1 DEF Activations
    <3>2. QED
      BY <1>1, <3>1, StackAssumption
  <2>4. [Cur.stack EXCEPT ![I.arg] = Operand(1)] \in [0..StackSize-1 -> Vals]
    BY <2>1, <2>2 DEF Activations
  <2>5. r \in Activations(Len(fns), Vals)
    BY <1>2, <2>1, <2>3, <2>4 DEF Activations
  <2>6. QED
    BY <1>3, <2>5 DEF StoreLocal
<1>5. Framed
  BY <1>1, <1>2, <1>3, <1>4, TopFramed DEF StoreLocal
<1>6. QED
  BY <1>1, <1>3, <1>5, Grows, Keeps DEF StoreLocal

LEMMA LoadUpvalStep == ASSUME VInv, LoadUpval PROVE VInv'
<1>1. Running /\ Ready /\ I.arg \in Nat /\ 0 <= Cur.sp
  BY Checked, SpRange DEF LoadUpval
<1>2. I.arg < Len(Self.upvals)
  BY DEF LoadUpval, Executing, Allowed
<1>3. Self.upvals[I.arg + 1] \in Vals
  <2>1. Self.upvals \in Seq(Vals)
    BY <1>1, Here DEF Closures, Vals
  <2>2. QED
    BY <1>1, <1>2, <2>1
<1>4. /\ Push(0, Self.upvals[I.arg + 1])
      /\ UNCHANGED <<program, fns, heap, functions, globals, outcome>>
  BY DEF LoadUpval
<1>5. QED
  BY <1>1, <1>3, <1>4, SimplePush

(* A closure is given another value, or counted.                           *)
LEMMA ClosureReplaced ==
  ASSUME VInv, Running, UNCHANGED <<program, heap>>, NEW f \in 1..Len(fns),
         NEW c \in Closures(Len(protos), Len(fns), Len(heap)), fns' = [fns EXCEPT ![f] = c]
  PROVE  Grown /\ Typed /\ Vals' = Vals /\ Len(fns') = Len(fns)
<1>1. /\ fns \in Seq(Closures(Len(protos), Len(fns), Len(heap)))
      /\ Len(fns) \in Nat /\ Len(heap) \in Nat
  BY Here DEF VInv, TypeOK
<1>2. /\ fns' \in Seq(Closures(Len(protos), Len(fns), Len(heap)))
      /\ Len(fns') = Len(fns)
  BY <1>1, Replaced
<1>3. Grown
  BY <1>1, <1>2 DEF Grown
<1>4. Vals' = Vals
  BY <1>2 DEF Vals, protos
<1>5. heap \in Seq(Vals' \X Vals')
  BY <1>3, Grows
<1>6. QED
  BY <1>2, <1>3, <1>4, <1>5 DEF Typed

LEMMA StoreUpvalStep == ASSUME VInv, StoreUpval PROVE VInv'
<1>1. Running /\ Ready /\ I.arg \in Nat /\ I.op = "STORE_UPVAL" /\ Cur.sp >= 1
  BY Checked, OneNeeded DEF StoreUpval
<1>2. PICK c : c = [Self EXCEPT !.upvals[I.arg + 1] = Operand(1)]
  OBVIOUS
<1>3. c \in Closures(Len(protos), Len(fns), Len(heap))
  <2>1. Operand(1) \in Vals
    BY <1>1, OperandOK, SpRange
  <2>2. Self \in Closures(Len(protos), Len(fns), Len(heap)) /\ Self.upvals \in Seq(Vals)
    BY <1>1, Here DEF Closures, Vals
  <2>3. I.arg + 1 \in 1..Len(Self.upvals)
    BY <1>1, <2>2 DEF StoreUpval, Executing, Allowed
  <2>4. [Self.upvals EXCEPT ![I.arg + 1] = Operand(1)] \in Seq(Vals)
    BY <2>1, <2>2, <2>3, Replaced
  <2>5. QED
    BY <1>2, <2>2, <2>4 DEF Closures, Vals
<1>4. Grown /\ Typed /\ Vals' = Vals /\ Len(fns') = Len(fns)
  BY <1>1, <1>2, <1>3, Here, ClosureReplaced DEF StoreUpval
<1>5. globals' \in [Symbols -> Vals]
  BY DEF StoreUpval, VInv, TypeOK, Vals
<1>6. QED
  BY <1>1, <1>4, <1>5, SpRange, DropKeeps DEF StoreUpval

LEMMA LoadGlobalStep == ASSUME VInv, LoadGlobal PROVE VInv'
<1>1. Running /\ Ready /\ I.arg \in Nat /\ 0 <= Cur.sp
  BY Checked, SpRange DEF LoadGlobal
<1>2. K.s \in Symbols
  <2>1. I.arg < Len(Code.consts) /\ K.tag = "symbol"
    BY DEF LoadGlobal, Executing, Allowed
  <2>2. QED
    BY <1>1, <2>1, ConstantOK DEF Values
<1>3. functions[K.s] \in Vals /\ globals[K.s] \in Vals
  <2>1. functions[K.s] \in Values(Len(protos), Len(fns), 0)
    BY <1>2 DEF VInv, TypeOK, Cells
  <2>2. globals[K.s] \in Vals
    BY <1>2 DEF VInv, TypeOK, Vals
  <2>3. Len(protos) \in Nat /\ Len(fns) \in Nat /\ Len(heap) \in Nat
    BY <1>1, Here
  <2>4. Values(Len(protos), Len(fns), 0) \subseteq Vals
    <3>1. 0 \in Nat /\ \A n \in Nat : n <= n /\ 0 <= n
      OBVIOUS
    <3>2. QED
      BY <2>3, <3>1, ValuesGrow DEF Vals
  <2>5. QED
    BY <2>1, <2>2, <2>4
<1>4. /\ Push(0, IF functions[K.s] # Unbound THEN functions[K.s] ELSE globals[K.s])
      /\ UNCHANGED <<program, fns, heap, functions, globals, outcome>>
  BY DEF LoadGlobal
<1>5. QED
  BY <1>1, <1>3, <1>4, SimplePush

LEMMA StoreGlobalStep == ASSUME VInv, StoreGlobal PROVE VInv'
<1>1. Running /\ Ready /\ I.arg \in Nat /\ I.op = "STORE_GLOBAL" /\ Cur.sp >= 1
  BY Checked, OneNeeded DEF StoreGlobal
<1>2. Operand(1) \in Vals
  BY <1>1, OperandOK, SpRange
<1>3. globals' \in [Symbols -> Vals]
  BY <1>2 DEF StoreGlobal, VInv, TypeOK, Vals
<1>4. Grown /\ Typed /\ Vals' = Vals
  BY <1>1, Still DEF StoreGlobal
<1>5. QED
  BY <1>1, <1>3, <1>4, SpRange, DropKeeps DEF StoreGlobal

LEMMA SimpleDrop ==
  ASSUME VInv, Running, UNCHANGED <<program, fns, heap, functions, globals, outcome>>,
         NEW n \in Nat, n <= Cur.sp, NEW by \in Int, Drop(n, by)
  PROVE  VInv'
<1>1. globals \in [Symbols -> Vals]
  BY DEF VInv, TypeOK, Vals
<1>2. QED
  BY <1>1, Still, DropKeeps

LEMMA PopStep == ASSUME VInv, Pop PROVE VInv'
<1>1. Running /\ I.op = "POP" /\ Cur.sp >= 1
  BY Checked, OneNeeded DEF Pop
<1>2. QED
  BY <1>1, SimpleDrop DEF Pop

LEMMA DupStep == ASSUME VInv, Dup PROVE VInv'
<1>1. Running /\ Ready /\ I.op = "DUP" /\ Cur.sp >= 1
  BY Checked, OneNeeded DEF Dup
<1>2. Operand(1) \in Vals /\ 0 <= Cur.sp
  BY <1>1, OperandOK, SpRange
<1>3. QED
  BY <1>1, <1>2, SimplePush DEF Dup

LEMMA SignedInt ==
  ASSUME NEW arg \in Nat
  PROVE  Signed(arg) \in Int
BY ArgAssumption DEF Signed

LEMMA JumpStep == ASSUME VInv, Jump PROVE VInv'
<1>1. Running /\ I.arg \in Nat /\ 0 <= Cur.sp
  BY Checked, SpRange DEF Jump
<1>2. QED
  BY <1>1, SignedInt, SimpleDrop DEF Jump

LEMMA JumpIfStep == ASSUME VInv, JumpIf PROVE VInv'
<1>1. Running /\ I.arg \in Nat /\ I.op \in {"JUMP_IF_NIL", "JUMP_IF_NOT_NIL"} /\ Cur.sp >= 1
  BY Checked, OneNeeded DEF JumpIf
<1>2. (IF (Operand(1) = NilV) = (I.op = "JUMP_IF_NIL") THEN Signed(I.arg) ELSE 0) \in Int
  BY <1>1, SignedInt
<1>3. QED
  BY <1>1, <1>2, SimpleDrop DEF JumpIf

LEMMA BinaryStep == ASSUME VInv, BinaryOp PROVE VInv'
<1>1. Running /\ Ready /\ Allowed /\ I.op \in Binary /\ Cur.sp >= 2
  BY Checked, TwoNeeded DEF BinaryOp
<1>2. Operand(1) \in Vals /\ Operand(2) \in Vals
  BY <1>1, OperandOK, SpRange
<1>3. PICK v \in Results(I.op, Operand(2), Operand(1)) : Push(2, v)
  BY DEF BinaryOp
<1>4. I.op = "MOD" => ~(Operand(1) = Fix(0) /\ Operand(2).tag = "fixnum")
  BY <1>1 DEF Allowed
<1>5. Len(protos) \in Nat /\ Len(fns) \in Nat /\ Len(heap) \in Nat
  BY <1>1, Here
<1>6. v \in Vals
  BY <1>1, <1>2, <1>3, <1>4, <1>5, OperatorValue DEF Vals
<1>7. QED
  BY <1>1, <1>3, <1>6, SimplePush DEF BinaryOp

LEMMA UnaryStep == ASSUME VInv, UnaryOp PROVE VInv'
<1>1. Running /\ Ready /\ Allowed /\ I.op \in Unary /\ Cur.sp >= 1
  BY Checked, OneNeeded DEF UnaryOp
<1>2. Operand(1) \in Vals
  BY <1>1, OperandOK, SpRange
<1>3. PICK v \in Results(I.op, NilV, Operand(1)) : Push(1, v)
  BY DEF UnaryOp
<1>4. I.op # "MOD"
  BY <1>1 DEF Unary
<1>5. Len(protos) \in Nat /\ Len(fns) \in Nat /\ Len(heap) \in Nat
  BY <1>1, Here
<1>6. v \in Vals
  BY <1>1, <1>2, <1>3, <1>4, <1>5, OperatorValue, NilIsValue DEF Vals
<1>7. QED
  BY <1>1, <1>3, <1>6, SimplePush DEF UnaryOp

-----------------------------------------------------------------------------
(* Conses.                                                                 *)

LEMMA PairTyped ==
  ASSUME NEW A, NEW a \in A, NEW b \in A
  PROVE  <<a, b>> \in A \X A
OBVIOUS

(* More conses, whose parts may be any of them.                            *)
LEMMA HeapGrown ==
  ASSUME VInv, Running, UNCHANGED <<program, fns>>,
         Len(heap') \in Nat, Len(heap) <= Len(heap'), heap' \in Seq(Vals' \X Vals')
  PROVE  Grown /\ Typed
<1>1. Grown
  BY Here DEF Grown
<1>2. fns \in Seq(Closures(Len(protos), Len(fns'), Len(heap')))
  BY <1>1, Grows
<1>3. QED
  BY <1>1, <1>2 DEF Typed

LEMMA NewVals ==
  ASSUME VInv, Running, UNCHANGED <<program, fns>>, NEW m \in Nat, Len(heap') = Len(heap) + m
  PROVE  /\ Vals' = Values(Len(protos), Len(fns), Len(heap) + m)
         /\ Vals \subseteq Vals'
         /\ heap \in Seq(Vals' \X Vals')
         /\ NilV \in Vals'
         /\ \A i \in 1..Len(heap)+m : Pair(i) \in Vals'
<1>1. Vals' = Values(Len(protos), Len(fns), Len(heap) + m)
  BY DEF Vals, protos
<1>2. Grown
  BY Here DEF Grown
<1>3. Len(protos) \in Nat /\ Len(fns) \in Nat /\ Len(heap) + m \in Nat
  BY Here
<1>4. \A i \in 1..Len(heap)+m : Pair(i) \in Values(Len(protos), Len(fns), Len(heap) + m)
  BY <1>3, PairIsValue
<1>5. QED
  BY <1>1, <1>2, <1>4, Grows

LEMMA ConsMade ==
  ASSUME VInv, Running, UNCHANGED <<program, fns>>, NEW a \in Vals, NEW b \in Vals,
         heap' = Append(heap, <<a, b>>)
  PROVE  Grown /\ Typed /\ Pair(Len(heap) + 1) \in Vals'
<1>1. Len(heap') = Len(heap) + 1 /\ Len(heap) \in Nat
  BY Here DEF VInv, TypeOK
<1>2. /\ Vals \subseteq Vals' /\ heap \in Seq(Vals' \X Vals')
      /\ \A i \in 1..Len(heap)+1 : Pair(i) \in Vals'
  BY <1>1, NewVals
<1>3. <<a, b>> \in Vals' \X Vals'
  BY <1>2, PairTyped
<1>4. heap' \in Seq(Vals' \X Vals')
  <2>1. PICK P : P = Vals' \X Vals'
    OBVIOUS
  <2>2. heap \in Seq(P) /\ <<a, b>> \in P
    BY <1>2, <1>3, <2>1
  <2>3. Append(heap, <<a, b>>) \in Seq(P)
    BY <2>2, Appended
  <2>4. QED
    BY <2>1, <2>3
<1>5. Grown /\ Typed
  BY <1>1, <1>4, HeapGrown
<1>6. QED
  BY <1>1, <1>2, <1>5

LEMMA Joined ==
  ASSUME NEW P, NEW s \in Seq(P), NEW m \in Nat, NEW t \in [1..m -> P]
  PROVE  s \o t \in Seq(P) /\ Len(s \o t) = Len(s) + m
<1>1. t \in Seq(P) /\ Len(t) = m
  BY IsASeq
<1>2. QED
  BY <1>1

LEMMA JoinedLength ==
  ASSUME NEW P, NEW R, NEW s \in Seq(P), NEW t \in Seq(R)
  PROVE  Len(s \o t) = Len(s) + Len(t)
OBVIOUS

LEMMA ListMade ==
  ASSUME VInv, Running, UNCHANGED <<program, fns>>, NEW vs \in Seq(Vals),
         heap' = Listed(heap, vs)
  PROVE  Grown /\ Typed /\ ListOf(heap, vs) \in Vals'
<1> DEFINE t == [k \in 1..Len(vs) |->
                   <<vs[k], IF k = Len(vs) THEN NilV ELSE Pair(Len(heap) + k + 1)>>]
<1>1. heap \in Seq(Vals \X Vals) /\ Len(heap) \in Nat /\ Len(vs) \in Nat
  BY Here DEF VInv, TypeOK, Vals
<1>2. heap' = heap \o t
  BY DEF Listed
<1>3. Len(heap') = Len(heap) + Len(vs)
  <2>1. PICK R : R = {t[k] : k \in 1..Len(vs)}
    OBVIOUS
  <2>2. t \in [1..Len(vs) -> R]
    BY <2>1
  <2> HIDE DEF t
  <2>3. t \in Seq(R) /\ Len(t) = Len(vs)
    BY <1>1, <2>2, IsASeq
  <2>4. Len(heap \o t) = Len(heap) + Len(t)
    <3>1. PICK P : P = Vals \X Vals
      OBVIOUS
    <3>2. heap \in Seq(P)
      BY <1>1, <3>1
    <3>3. QED
      BY <2>3, <3>2, JoinedLength
  <2>5. QED
    BY <1>2, <2>3, <2>4
<1>4. /\ Vals \subseteq Vals' /\ heap \in Seq(Vals' \X Vals') /\ NilV \in Vals'
      /\ \A i \in 1..Len(heap)+Len(vs) : Pair(i) \in Vals'
  BY <1>1, <1>3, NewVals
<1>5. \A k \in 1..Len(vs) : t[k] \in Vals' \X Vals'
  <2>1. ASSUME NEW k \in 1..Len(vs) PROVE t[k] \in Vals' \X Vals'
    <3>1. vs[k] \in Vals'
      BY <1>4
    <3>2. (IF k = Len(vs) THEN NilV ELSE Pair(Len(heap) + k + 1)) \in Vals'
      <4>1. k # Len(vs) => Len(heap) + k + 1 \in 1..Len(heap)+Len(vs)
        BY <1>1
      <4>2. QED
        BY <1>4, <4>1
    <3>3. QED
      BY <3>1, <3>2, PairTyped
  <2>2. QED
    BY <2>1
<1>6. heap' \in Seq(Vals' \X Vals')
  <2>1. PICK P : P = Vals' \X Vals'
    OBVIOUS
  <2>2. heap \in Seq(P) /\ t \in [1..Len(vs) -> P]
    BY <1>4, <1>5, <2>1
  <2> HIDE DEF t
  <2>3. heap \o t \in Seq(P)
    BY <1>1, <2>2, Joined
  <2>4. QED
    BY <1>2, <2>1, <2>3
<1>7. Grown /\ Typed
  BY <1>1, <1>3, <1>6, HeapGrown
<1>8. ListOf(heap, vs) \in Vals'
  BY <1>1, <1>4 DEF ListOf
<1>9. QED
  BY <1>7, <1>8

LEMMA PartOK ==
  ASSUME VInv, Running, NEW v \in Vals, NEW i \in {1, 2}
  PROVE  Part(heap, v, i) \in Vals
<1>1. /\ heap \in Seq(Vals \X Vals)
      /\ Len(protos) \in Nat /\ Len(fns) \in Nat /\ Len(heap) \in Nat
  BY Here DEF VInv, TypeOK, Vals
<1>2. CASE v.tag = "cons"
  <2>1. v.n \in 1..Len(heap)
    BY <1>1, <1>2, ValueIs DEF Vals
  <2>2. heap[v.n] \in Vals \X Vals
    BY <1>1, <2>1
  <2>3. heap[v.n][i] \in Vals
    BY <2>2
  <2>4. QED
    BY <1>2, <2>3 DEF Part
<1>3. CASE v.tag # "cons"
  BY <1>1, <1>3, NilIsValue DEF Part, Vals
<1>4. QED
  BY <1>2, <1>3

LEMMA ConsStep == ASSUME VInv, MakeCons PROVE VInv'
<1>1. Running /\ Ready /\ I.op = "CONS" /\ Cur.sp >= 2
  BY Checked, TwoNeeded DEF MakeCons
<1>2. Operand(1) \in Vals /\ Operand(2) \in Vals
  BY <1>1, OperandOK, SpRange
<1>3. Grown /\ Typed /\ Pair(Len(heap) + 1) \in Vals'
  BY <1>1, <1>2, ConsMade DEF MakeCons
<1>4. QED
  BY <1>1, <1>3, PushKeeps DEF MakeCons

LEMMA PartStep == ASSUME VInv, TakePart PROVE VInv'
<1>1. Running /\ Ready /\ I.op \in {"CAR", "CDR"} /\ Cur.sp >= 1
  BY Checked, OneNeeded DEF TakePart
<1>2. Part(heap, Operand(1), IF I.op = "CAR" THEN 1 ELSE 2) \in Vals
  BY <1>1, OperandOK, PartOK, SpRange
<1>3. QED
  BY <1>1, <1>2, SimplePush DEF TakePart

LEMMA ListStep == ASSUME VInv, MakeList PROVE VInv'
<1>1. Running /\ Ready /\ I.op = "LIST" /\ I.arg \in Nat /\ Cur.sp >= I.arg
  BY Checked, ListNeeds DEF MakeList
<1>2. Operands(I.arg) \in Seq(Vals)
  BY <1>1, OperandsOK, SpRange
<1>3. Grown /\ Typed /\ ListOf(heap, Operands(I.arg)) \in Vals'
  BY <1>1, <1>2, ListMade DEF MakeList
<1>4. QED
  BY <1>1, <1>3, PushKeeps DEF MakeList

-----------------------------------------------------------------------------
(* Closures and calls.                                                     *)

LEMMA CapturedOK ==
  ASSUME VInv, Running, Ready, NEW s \in Symbols, NEW i \in Nat \ {0}
  PROVE  Captured(s, i) \in Vals
<1>1. Code.n_locals \in 0..StackSize-5 /\ Cur.stack \in [0..StackSize-1 -> Vals]
  BY Here DEF Protos, Activations
<1>2. i <= Code.n_locals => Cur.stack[i - 1] \in Vals
  <2>1. i <= Code.n_locals => i - 1 \in 0..StackSize-1
    BY <1>1, StackAssumption
  <2>2. QED
    BY <1>1, <2>1
<1>3. Sym(s) \in Vals /\ NilV \in Vals
  BY Here, SymIsValue, NilIsValue DEF Vals
<1>4. QED
  BY <1>2, <1>3 DEF Captured

LEMMA ClosureStep == ASSUME VInv, MakeClosure PROVE VInv'
<1>1. Running /\ Ready /\ I.arg \in Nat /\ 0 <= Cur.sp
  BY Checked, SpRange DEF MakeClosure
<1>2. K.n \in 1..Len(protos)
  <2>1. I.arg < Len(Code.consts) /\ K.tag = "proto"
    BY DEF MakeClosure, Executing, Allowed
  <2>2. QED
    BY <1>1, <2>1, ConstantOK, Here, ValueIs
<1>3. /\ fns \in Seq(Closures(Len(protos), Len(fns), Len(heap)))
      /\ Len(protos) \in Nat /\ Len(fns) \in Nat /\ Len(heap) \in Nat
  BY <1>1, Here DEF VInv, TypeOK
<1>4. NewClosure(K.n) \in Closures(Len(protos), Len(fns), Len(heap))
  <2>1. protos[K.n].upvals \in Seq(Symbols)
    <3>1. protos[K.n] \in Protos(Len(protos))
      BY <1>2 DEF VInv, TypeOK
    <3>2. QED
      BY <3>1 DEF Protos
  <2>2. \A k \in DOMAIN protos[K.n].upvals : Captured(protos[K.n].upvals[k], k) \in Vals
    <3>1. \A k \in DOMAIN protos[K.n].upvals : protos[K.n].upvals[k] \in Symbols /\ k \in Nat \ {0}
      BY <2>1
    <3>2. QED
      BY <1>1, <3>1, CapturedOK
  <2>3. [k \in DOMAIN protos[K.n].upvals |-> Captured(protos[K.n].upvals[k], k)] \in Seq(Vals)
    <3>1. DOMAIN protos[K.n].upvals = 1..Len(protos[K.n].upvals) /\ Len(protos[K.n].upvals) \in Nat
      BY <2>1
    <3>2. QED
      BY <2>2, <3>1, IsASeq
  <2>4. QED
    BY <1>2, <2>3 DEF NewClosure, Closures, Vals
<1>5. fns' = Append(fns, NewClosure(K.n)) /\ program' = program /\ heap' = heap
  BY DEF MakeClosure
<1>6. Len(fns') = Len(fns) + 1
  BY <1>3, <1>4, <1>5, Appended
<1>7. Grown
  BY <1>3, <1>5, <1>6 DEF Grown
<1>8. Typed
  <2>1. PICK S : S = Closures(Len(protos), Len(fns'), Len(heap'))
    OBVIOUS
  <2>2. fns \in Seq(S) /\ NewClosure(K.n) \in S
    BY <1>1, <1>4, <1>7, <2>1, Grows
  <2>3. Append(fns, NewClosure(K.n)) \in Seq(S)
    BY <2>2, Appended
  <2>4. heap' \in Seq(Vals' \X Vals')
    BY <1>1, <1>5, <1>7, Grows
  <2>5. QED
    BY <1>5, <2>1, <2>3, <2>4 DEF Typed
<1>9. Fn(Len(fns) + 1) \in Vals'
  <2>1. PICK m : m = Len(fns')
    OBVIOUS
  <2>2. Fn(Len(fns) + 1) \in Values(Len(protos), m, Len(heap))
    BY <1>3, <1>6, <2>1, FnIsValue
  <2>3. Vals' = Values(Len(protos), m, Len(heap))
    BY <1>5, <2>1 DEF Vals, protos
  <2>4. QED
    BY <2>2, <2>3
<1>10. QED
  BY <1>1, <1>7, <1>8, <1>9, PushKeeps DEF MakeClosure

(* The words of a call.                                                    *)
LEMMA WordsOK ==
  ASSUME VInv, NEW ops \in SUBSET {"CALL", "TAILCALL"}, Executing(ops)
  PROVE  /\ Words \in Seq(Vals) /\ Len(Words) = I.arg + 1 /\ Len(Words) \in Nat
         /\ I.arg \in Nat /\ I.arg + 1 <= Cur.sp /\ Running /\ Ready
<1>1. Running /\ Ready /\ I.op \in {"CALL", "TAILCALL"} /\ I.arg \in Nat /\ Cur.sp >= Needs(I)
  BY Checked
<1>2. I.arg + 1 <= Cur.sp
  BY <1>1, CallNeeds, SpRange
<1>3. I.arg + 1 \in 0..Cur.sp
  BY <1>1, <1>2, SpRange
<1>4. Words \in Seq(Vals) /\ Len(Words) = I.arg + 1
  BY <1>1, <1>3, OperandsOK DEF Words
<1>5. QED
  BY <1>1, <1>2, <1>4

(* There is a first word that is not FUNCALL, or none.                     *)
LEMMA SkippedOK ==
  ASSUME Len(Words) \in Nat
  PROVE  /\ Skipped \in 0..Len(Words)
         /\ Skipped < Len(Words) => ~IsFuncall(Skipped + 1)
<1> DEFINE T == {j \in Nat : j <= Len(Words) /\ (j < Len(Words) => ~IsFuncall(j + 1))}
<1>1. T \subseteq Nat /\ T # {}
  <2>1. Len(Words) \in T
    OBVIOUS
  <2>2. QED
    BY <2>1
<1>2. PICK x \in T : \A y \in T : x <= y
  <2> HIDE DEF T
  <2>1. QED
    BY <1>1, Least
<1>3. \A i \in 1..x : IsFuncall(i)
  <2>1. ASSUME NEW i \in 1..x PROVE IsFuncall(i)
    <3>1. i - 1 \in Nat /\ i - 1 < x /\ i - 1 < Len(Words) /\ (i - 1) + 1 = i
      BY <1>2
    <3>2. i - 1 \notin T
      BY <1>2, <3>1
    <3>3. QED
      BY <3>1, <3>2
  <2>2. QED
    BY <2>1
<1>4. x \in 0..Len(Words) /\ (x < Len(Words) => ~IsFuncall(x + 1))
  BY <1>2
<1>5. QED
  BY <1>3, <1>4 DEF Skipped

LEMMA SubSeqOK ==
  ASSUME NEW S, NEW s \in Seq(S), NEW m \in Nat \ {0}
  PROVE  SubSeq(s, m, Len(s)) \in Seq(S)
OBVIOUS

LEMMA TargetOK ==
  ASSUME VInv, NEW ops \in SUBSET {"CALL", "TAILCALL"}, Executing(ops)
  PROVE  Target \in Vals /\ Target # Native("FUNCALL") /\ Args \in Seq(Vals)
<1>1. Words \in Seq(Vals) /\ Len(Words) \in Nat /\ Running
  BY WordsOK
<1>2. Skipped \in 0..Len(Words) /\ (Skipped < Len(Words) => ~IsFuncall(Skipped + 1))
  BY <1>1, SkippedOK
<1>3. Args \in Seq(Vals)
  BY <1>1, <1>2, SubSeqOK, Skipped + 2 \in Nat \ {0} DEF Args
<1>4. CASE Skipped = Len(Words)
  <2>1. Target = NilV
    BY <1>4 DEF Target
  <2>2. NilV # Native("FUNCALL")
    BY DEF NilV, Native, Value
  <2>3. QED
    BY <1>1, <1>3, <2>1, <2>2, Here, NilIsValue DEF Vals
<1>5. CASE Skipped < Len(Words)
  <2> DEFINE w == Words[Skipped + 1]
  <2>1. w \in Vals /\ ~IsFuncall(Skipped + 1)
    BY <1>1, <1>2, <1>5
  <2>2. Target = IF Applied /\ w.tag = "symbol" THEN functions[w.s] ELSE w
    BY <1>2, <1>5 DEF Target
  <2>3. CASE Applied /\ w.tag = "symbol"
    <3>1. w.s \in Symbols
      BY <2>1, <2>3 DEF Vals, Values
    <3>2. functions[w.s] \in Values(Len(protos), Len(fns), 0)
      BY <3>1 DEF VInv, TypeOK, Cells
    <3>3. functions[w.s] \in Vals
      <4>1. Len(protos) \in Nat /\ Len(fns) \in Nat /\ Len(heap) \in Nat /\ 0 \in Nat /\ 0 <= Len(heap)
            /\ Len(fns) <= Len(fns)
        BY <1>1, Here
      <4>2. Values(Len(protos), Len(fns), 0) \subseteq Vals
        BY <4>1, ValuesGrow DEF Vals
      <4>3. QED
        BY <3>2, <4>2
    <3>4. functions[w.s] # Native("FUNCALL")
      BY <1>2, <2>1, <2>3 DEF IsFuncall, Applied
    <3>5. QED
      BY <1>3, <2>2, <2>3, <3>3, <3>4
  <2>4. CASE ~(Applied /\ w.tag = "symbol")
    <3>1. w # Native("FUNCALL")
      BY <2>1 DEF IsFuncall
    <3>2. QED
      BY <1>3, <2>1, <2>2, <2>4, <3>1
  <2>5. QED
    BY <2>3, <2>4
<1>6. QED
  BY <1>2, <1>4, <1>5

LEMMA CountedOK ==
  ASSUME NEW np \in Nat, NEW nf \in Nat, NEW nh \in Nat, NEW f \in Closures(np, nf, nh)
  PROVE  Counted(f) \in Closures(np, nf, nh)
<1>1. Hot(f) \in BOOLEAN
  BY DEF Hot, Closures
<1>2. (IF f.calls < JitThreshold THEN f.calls + 1 ELSE f.calls) \in Nat
  BY DEF Closures
<1>3. QED
  BY <1>1, <1>2 DEF Counted, Closures

LEMMA CallFunctionStep == ASSUME VInv, CallFunction PROVE VInv'
<1>1. /\ I.arg \in Nat /\ I.arg + 1 <= Cur.sp /\ Running /\ Ready
      /\ Target \in Vals /\ Args \in Seq(Vals)
  BY WordsOK, TargetOK DEF CallFunction, CallingFn
<1>2. /\ fns \in Seq(Closures(Len(protos), Len(fns), Len(heap)))
      /\ Len(protos) \in Nat /\ Len(fns) \in Nat /\ Len(heap) \in Nat
      /\ Cur \in Activations(Len(fns), Vals)
      /\ frames \in Seq(Activations(Len(fns), Vals)) /\ frames # <<>>
  BY <1>1, Here DEF VInv, TypeOK
<1>3. Target.n \in 1..Len(fns)
  BY <1>1, <1>2, ValueIs DEF Vals, CallFunction, CallingFn
<1>4. fns[Target.n] \in Closures(Len(protos), Len(fns), Len(heap))
  BY <1>2, <1>3
<1>5. PICK c : c = Counted(fns[Target.n])
  OBVIOUS
<1>6. c \in Closures(Len(protos), Len(fns), Len(heap))
  BY <1>2, <1>4, <1>5, CountedOK
<1>7. PICK f : f = Target.n
  OBVIOUS
<1>8. fns' = [fns EXCEPT ![f] = c] /\ f \in 1..Len(fns) /\ UNCHANGED <<program, heap>>
  BY <1>3, <1>5, <1>7 DEF CallFunction
<1>9. Grown /\ Typed /\ Vals' = Vals /\ Len(fns') = Len(fns)
  BY <1>1, <1>6, <1>8, ClosureReplaced
<1>10. PICK r : r = [Cur EXCEPT !.pc = @ + 1, !.sp = @ - I.arg - 1]
  OBVIOUS
<1>11. r \in Activations(Len(fns), Vals) /\ r.sp < StackSize - 4
  <2>1. Cur.sp \in 0..StackSize-4 /\ Cur.pc + 1 \in Int
    BY <1>2 DEF Activations
  <2>2. Cur.sp - I.arg - 1 \in 0..StackSize-4 /\ Cur.sp - I.arg - 1 < StackSize - 4
    BY <1>1, <2>1, StackAssumption DEF Ready
  <2>3. QED
    BY <1>2, <1>10, <2>1, <2>2 DEF Activations
<1>12. PICK e : e = Entered(Target.n, protos[fns[Target.n].proto], Args)
  OBVIOUS
<1>13. e \in Activations(Len(fns), Vals)
  <2>1. fns[Target.n].proto \in 1..Len(protos)
    BY <1>4 DEF Closures
  <2>2. protos[fns[Target.n].proto] \in Protos(Len(protos))
    BY <2>1 DEF VInv, TypeOK
  <2>3. QED
    BY <1>1, <1>2, <1>3, <1>12, <2>2, EnteredOK DEF Vals
<1>14. Framed
  <2>1. frames' = Append([frames EXCEPT ![Len(frames)] = r], e)
    BY <1>10, <1>12 DEF CallFunction
  <2>2. Suspended(frames)
    BY DEF VInv
  <2>3. /\ Append([frames EXCEPT ![Len(frames)] = r], e) \in Seq(Activations(Len(fns), Vals))
        /\ Suspended(Append([frames EXCEPT ![Len(frames)] = r], e))
        /\ Append([frames EXCEPT ![Len(frames)] = r], e) # <<>>
    BY <1>2, <1>11, <1>13, <2>2, TopAdded
  <2>4. QED
    BY <1>9, <2>1, <2>3 DEF Framed
<1>15. QED
  BY <1>1, <1>9, <1>14, Grows, Keeps DEF CallFunction

(* The run ends.                                                           *)
LEMMA Ended ==
  ASSUME VInv, Running, UNCHANGED <<program, fns, heap, functions, globals>>, frames' = <<>>,
         NEW o \in {"value", "error", "exhausted", "undefined"}, NEW v \in Vals,
         outcome' = [status |-> o, val |-> v]
  PROVE  VInv'
<1>1. Grown /\ Typed /\ Vals' = Vals
  BY Still
<1>2. outcome' \in Outcomes(Vals') /\ ~Running'
  BY <1>1 DEF Outcomes, Running
<1>3. QED
  BY <1>1, <1>2, Grows, Keeps

LEMMA CallUndefinedStep == ASSUME VInv, CallUndefined PROVE VInv'
<1>1. Running
  BY DEF CallUndefined, CallingFn, Executing
<1>2. NilV \in Vals
  BY <1>1, Here, NilIsValue DEF Vals
<1>3. QED
  BY <1>1, <1>2, Ended DEF CallUndefined

LEMMA Restarted ==
  ASSUME NEW M, NEW P, NEW N, NEW F, NEW c \in [fn : M, pc : P, sp : N, stack : F],
         NEW p \in P, NEW n \in N, NEW st \in F
  PROVE  [c EXCEPT !.pc = p, !.sp = n, !.stack = st] \in [fn : M, pc : P, sp : N, stack : F]
OBVIOUS

LEMMA CallSelfStep == ASSUME VInv, CallSelf PROVE VInv'
<1>1. Running /\ Args \in Seq(Vals)
  BY WordsOK, TargetOK DEF CallSelf, CallingFn
<1>2. /\ Len(protos) \in Nat /\ Len(fns) \in Nat /\ Len(heap) \in Nat
      /\ Cur \in Activations(Len(fns), Vals) /\ Cur.fn \in 1..Len(fns)
      /\ Self \in Closures(Len(protos), Len(fns), Len(heap))
      /\ Code \in Protos(Len(protos))
  BY <1>1, Here
<1>3. PICK c, f : c = Counted(Self) /\ f = Cur.fn
  OBVIOUS
<1>4. c \in Closures(Len(protos), Len(fns), Len(heap)) /\ f \in 1..Len(fns)
  BY <1>2, <1>3, CountedOK
<1>5. fns' = [fns EXCEPT ![f] = c] /\ UNCHANGED <<program, heap>>
  BY <1>3 DEF CallSelf
<1>6. Grown /\ Typed /\ Vals' = Vals /\ Len(fns') = Len(fns)
  BY <1>1, <1>4, <1>5, ClosureReplaced
<1>7. PICK r : r = [Cur EXCEPT !.pc = 0, !.sp = Code.n_locals, !.stack = MovedDown(Args)]
  OBVIOUS
<1>8. MovedDown(Args) \in [0..StackSize-1 -> Vals]
  <2>1. NilV \in Vals /\ Cur.stack \in [0..StackSize-1 -> Vals]
    BY <1>2, NilIsValue DEF Vals, Activations
  <2>2. \A i \in 0..StackSize-1 : i < Len(Args) => Args[i + 1] \in Vals
    BY <1>1
  <2>3. QED
    BY <2>1, <2>2 DEF MovedDown
<1>9. r \in Activations(Len(fns'), Vals')
  <2>1. Code.n_locals \in 0..StackSize-4
    BY <1>2, StackAssumption DEF Protos
  <2>2. PICK cur, n, st : cur = Cur /\ n = Code.n_locals /\ st = MovedDown(Args)
    OBVIOUS
  <2>3. r = [cur EXCEPT !.pc = 0, !.sp = n, !.stack = st]
    BY <1>7, <2>2
  <2>4. cur \in Activations(Len(fns), Vals) /\ n \in 0..StackSize-4 /\ st \in [0..StackSize-1 -> Vals]
    BY <1>2, <1>8, <2>1, <2>2
  <2>5. r \in Activations(Len(fns), Vals)
    <3>1. PICK F, N : F = [0..StackSize-1 -> Vals] /\ N = 0..StackSize-4
      OBVIOUS
    <3>2. cur \in [fn : 1..Len(fns), pc : Int, sp : N, stack : F] /\ n \in N /\ st \in F
      BY <2>4, <3>1 DEF Activations
    <3>3. r \in [fn : 1..Len(fns), pc : Int, sp : N, stack : F]
      <4>1. PICK M, p : M = 1..Len(fns) /\ p = 0
        OBVIOUS
      <4>2. cur \in [fn : M, pc : Int, sp : N, stack : F] /\ p \in Int
        BY <3>2, <4>1
      <4>3. r = [cur EXCEPT !.pc = p, !.sp = n, !.stack = st]
        BY <2>3, <4>1
      <4>4. r \in [fn : M, pc : Int, sp : N, stack : F]
        BY <3>2, <4>2, <4>3, Restarted
      <4>5. QED
        BY <4>1, <4>4
    <3>4. QED
      BY <3>1, <3>3 DEF Activations
  <2>6. QED
    BY <1>6, <2>5
<1>10. Framed
  BY <1>1, <1>6, <1>7, <1>9, TopFramed DEF CallSelf
<1>11. QED
  BY <1>1, <1>6, <1>10, Grows, Keeps DEF CallSelf

LEMMA NativeStep == ASSUME VInv, CallNative PROVE VInv'
<1>1. /\ I.arg \in Nat /\ I.arg + 1 <= Cur.sp /\ Running /\ Ready
      /\ Target \in Vals /\ Target # Native("FUNCALL") /\ Args \in Seq(Vals)
  BY WordsOK, TargetOK DEF CallNative
<1>2. /\ Len(protos) \in Nat /\ Len(fns) \in Nat /\ Len(heap) \in Nat
      /\ UNCHANGED <<program, fns, functions, globals, outcome>>
  BY <1>1, Here DEF CallNative
<1>3. Target.tag = "native" /\ Target.s \in DOMAIN MinArgs /\ Target.s # "FUNCALL"
  <2>1. PICK t : t = Target
    OBVIOUS
  <2>2. t.tag = "native"
    BY <2>1 DEF CallNative
  <2>3. t.s \in DOMAIN MinArgs /\ t = Native(t.s)
    BY <1>1, <1>2, <2>1, <2>2, ValueIs DEF Vals
  <2>4. QED
    BY <1>1, <2>1, <2>2, <2>3
<1>4. /\ Target.s = "<" \/ Len(Args) >= MinArgs[Target.s]
      /\ Target.s \in {"MOD", "REM"} => Args[2] # Fix(0)
  <2>1. Callable
    BY DEF CallNative, Executing, Allowed
  <2>2. Accepts(Target.s, Len(Args)) /\ (Target.s \in {"MOD", "REM"} => Args[2] # Fix(0))
    BY <1>3, <2>1 DEF Callable
  <2>3. QED
    BY <2>2 DEF Accepts
<1>5. CASE Target.s = "CONS"
  <2>1. Len(Args) >= 2
    BY <1>4, <1>5 DEF MinArgs, Arithmetic
  <2>2. Args[1] \in Vals /\ Args[2] \in Vals
    BY <1>1, <2>1
  <2>3. heap' = Append(heap, <<Args[1], Args[2]>>) /\ Push(I.arg + 1, Pair(Len(heap) + 1))
    BY <1>5 DEF CallNative
  <2>4. Grown /\ Typed /\ Pair(Len(heap) + 1) \in Vals'
    BY <1>1, <1>2, <2>2, <2>3, ConsMade
  <2>5. QED
    BY <1>1, <1>2, <2>3, <2>4, I.arg + 1 \in Nat, PushKeeps
<1>6. CASE Target.s = "LIST"
  <2>1. heap' = Listed(heap, Args) /\ Push(I.arg + 1, ListOf(heap, Args))
    BY <1>6 DEF CallNative
  <2>2. Grown /\ Typed /\ ListOf(heap, Args) \in Vals'
    BY <1>1, <1>2, <2>1, ListMade
  <2>3. QED
    BY <1>1, <1>2, <2>1, <2>2, I.arg + 1 \in Nat, PushKeeps
<1>7. CASE Target.s \in {"CAR", "CDR"}
  <2>1. Len(Args) >= 1
    BY <1>4, <1>7 DEF MinArgs, Arithmetic
  <2>2. Args[1] \in Vals
    BY <1>1, <2>1
  <2>3. PICK v : v = Part(heap, Args[1], IF Target.s = "CAR" THEN 1 ELSE 2)
    OBVIOUS
  <2>4. heap' = heap /\ Push(I.arg + 1, v)
    BY <1>7, <2>3 DEF CallNative
  <2>5. v \in Vals
    BY <1>1, <2>2, <2>3, PartOK
  <2>6. QED
    BY <1>1, <1>2, <2>4, <2>5, I.arg + 1 \in Nat, SimplePush
<1>8. CASE Target.s \notin {"CONS", "LIST", "CAR", "CDR"}
  <2>1. heap' = heap /\ \E v \in NativeResults(Target.s, Args) : Push(I.arg + 1, v)
    BY <1>8 DEF CallNative
  <2>2. PICK v \in NativeResults(Target.s, Args) : Push(I.arg + 1, v)
    BY <2>1
  <2>3. Target.s \in DOMAIN MinArgs \ {"CONS", "LIST", "CAR", "CDR", "FUNCALL"}
    BY <1>3, <1>8
  <2>4. v \in Vals
    BY <1>1, <1>2, <1>4, <2>2, <2>3, NativeValue DEF Vals
  <2>5. QED
    BY <1>1, <1>2, <2>1, <2>2, <2>4, I.arg + 1 \in Nat, SimplePush
<1>9. QED
  BY <1>5, <1>6, <1>7, <1>8

(* The value a caller is given, on the stack it left room on.              *)
GivenTo(c, v) == [c EXCEPT !.sp = @ + 1, !.stack[c.sp] = v]

Unwound(fs, d, r) == [i \in 1..d |-> IF i < d THEN fs[i] ELSE r]

LEMMA GivenOK ==
  ASSUME NEW nf \in Nat, NEW A, NEW c \in Activations(nf, A), c.sp < StackSize - 4, NEW v \in A
  PROVE  GivenTo(c, v) \in Activations(nf, A)
<1>1. c.sp \in 0..StackSize-1 /\ c.sp + 1 \in 0..StackSize-4
  BY StackAssumption DEF Activations
<1>2. [c.stack EXCEPT ![c.sp] = v] \in [0..StackSize-1 -> A]
  BY <1>1 DEF Activations
<1>3. QED
  BY <1>1, <1>2 DEF Activations, GivenTo

LEMMA UnwoundOK ==
  ASSUME NEW nf \in Nat, NEW A, NEW fs \in Seq(Activations(nf, A)), Suspended(fs),
         NEW d \in Nat \ {0}, Len(fs) = d + 1, NEW r \in Activations(nf, A)
  PROVE  /\ Unwound(fs, d, r) \in Seq(Activations(nf, A))
         /\ Suspended(Unwound(fs, d, r))
         /\ Unwound(fs, d, r) # <<>>
<1>1. \A i \in 1..d : fs[i] \in Activations(nf, A) /\ fs[i].sp < StackSize - 4
  BY DEF Suspended
<1>2. PICK gs : gs = Unwound(fs, d, r)
  OBVIOUS
<1>3. \A i \in 1..d : gs[i] = IF i < d THEN fs[i] ELSE r
  BY <1>2 DEF Unwound
<1>4. gs \in [1..d -> Activations(nf, A)]
  BY <1>1, <1>2 DEF Unwound
<1>5. gs \in Seq(Activations(nf, A)) /\ Len(gs) = d
  BY <1>4, IsASeq, d \in Nat
<1>6. Suspended(gs)
  BY <1>1, <1>3, <1>5 DEF Suspended
<1>7. gs # <<>>
  BY <1>5
<1>8. QED
  BY <1>2, <1>5, <1>6, <1>7

LEMMA ReturnStep == ASSUME VInv, Return PROVE VInv'
<1>1. Running /\ UNCHANGED <<program, fns, heap, functions, globals>>
  BY DEF Return, Executing
<1>2. /\ frames \in Seq(Activations(Len(fns), Vals)) /\ frames # <<>>
      /\ Len(frames) \in Nat /\ Len(fns) \in Nat /\ Cur.sp \in Nat
  BY <1>1, Here, SpRange
<1>3. Returned \in Vals
  <2>1. NilV \in Vals
    BY <1>1, Here, NilIsValue DEF Vals
  <2>2. QED
    BY <1>1, <1>2, <2>1, OperandOK DEF Returned
<1>4. CASE Len(frames) - 1 = 0
  <2>1. frames' = <<>> /\ outcome' = [status |-> "value", val |-> Returned]
    BY <1>4 DEF Return
  <2>2. QED
    BY <1>1, <1>3, <2>1, Ended
<1>5. CASE Len(frames) - 1 # 0
  <2>1. PICK d, r : d = Len(frames) - 1 /\ r = GivenTo(frames[d], Returned)
    OBVIOUS
  <2>2. frames' = Unwound(frames, d, r) /\ outcome' = outcome
    BY <1>5, <2>1 DEF Return, Unwound, GivenTo
  <2>3. d \in Nat \ {0} /\ Len(frames) = d + 1
    BY <1>2, <1>5, <2>1
  <2>4. Suspended(frames)
    BY DEF VInv
  <2>5. /\ Unwound(frames, d, r) \in Seq(Activations(Len(fns), Vals))
        /\ Suspended(Unwound(frames, d, r))
        /\ Unwound(frames, d, r) # <<>>
    <3>1. frames[d] \in Activations(Len(fns), Vals) /\ frames[d].sp < StackSize - 4
      BY <1>2, <2>3, <2>4 DEF Suspended
    <3>2. r \in Activations(Len(fns), Vals)
      BY <1>2, <1>3, <2>1, <3>1, GivenOK
    <3>3. QED
      BY <1>2, <2>3, <2>4, <3>2, UnwoundOK
  <2>6. Grown /\ Typed /\ Vals' = Vals
    BY <1>1, Still
  <2>7. Framed
    BY <1>1, <2>2, <2>5, <2>6 DEF Framed
  <2>8. QED
    BY <1>1, <2>2, <2>6, <2>7, Grows, Keeps
<1>6. QED
  BY <1>4, <1>5

LEMMA FaultStep == ASSUME VInv, Fault PROVE VInv'
<1>1. Running
  BY DEF Fault
<1>2. NilV \in Vals
  BY <1>1, Here, NilIsValue DEF Vals
<1>3. QED
  BY <1>1, <1>2, Ended DEF Fault

-----------------------------------------------------------------------------
LEMMA Initially == Init => VInv
<1>1. SUFFICES ASSUME Init PROVE VInv
  OBVIOUS
<1>2. PICK k \in 1..Count : program = ProgramAt(k)
  BY <1>1 DEF Init
<1>3. WellFormed(program)
  BY <1>2, ProgramsAssumption
<1> DEFINE np == Len(program.protos)
           nf == Len(program.fns)
<1>4. /\ protos \in Seq(Protos(np)) /\ np \in Nat /\ protos = program.protos
      /\ program.fns \in Seq(Closures(np, nf, 0)) /\ nf \in Nat
      /\ program.main \in 1..nf
      /\ program.functions \in [Symbols -> Cells(np, nf)]
      /\ program.globals \in [Symbols -> Values(np, nf, 0)]
  BY <1>3 DEF WellFormed, protos
<1>5. PICK c : c = [program.fns[program.main] EXCEPT !.calls = 1]
  OBVIOUS
<1>6. c \in Closures(np, nf, 0)
  <2>1. PICK f : f = program.fns[program.main]
    OBVIOUS
  <2>2. f \in Closures(np, nf, 0)
    BY <1>4, <2>1
  <2>3. c = [f EXCEPT !.calls = 1]
    BY <1>5, <2>1
  <2> HIDE DEF np, nf
  <2>4. QED
    BY <2>2, <2>3 DEF Closures
<1>7. fns = [program.fns EXCEPT ![program.main] = c]
  BY <1>1, <1>5 DEF Init
<1>8. fns \in Seq(Closures(np, nf, 0)) /\ Len(fns) = nf /\ fns[program.main] = c
  <2> HIDE DEF np, nf
  <2>1. QED
    BY <1>4, <1>6, <1>7, Replaced DEF nf
<1>9. heap = <<>> /\ Len(heap) = 0
  BY <1>1 DEF Init
<1>10. frames \in Seq(Activations(nf, Values(np, nf, 0))) /\ Len(frames) = 1 /\ frames # <<>>
  <2>1. PICK e : e = Entered(program.main, protos[fns[program.main].proto], <<>>)
    OBVIOUS
  <2>2. protos[fns[program.main].proto] \in Protos(np)
    <3>1. c.proto \in 1..np
      BY <1>6 DEF Closures
    <3>2. QED
      BY <1>4, <1>8, <3>1
  <2>3. e \in Activations(nf, Values(np, nf, 0))
    <3>1. <<>> \in Seq(Values(np, nf, 0)) /\ 0 \in Nat
      OBVIOUS
    <3> HIDE DEF np, nf
    <3>2. QED
      BY <1>4, <2>1, <2>2, <3>1, EnteredOK
  <2>4. frames = <<e>>
    BY <1>1, <2>1 DEF Init
  <2>5. QED
    BY <2>3, <2>4
<1>11. outcome \in Outcomes(Values(np, nf, 0))
  BY <1>1, <1>4, NilIsValue DEF Init, Outcomes
<1>12. TypeOK
  BY <1>1, <1>4, <1>8, <1>9, <1>10, <1>11 DEF TypeOK, Init, Outcomes
<1>13. Suspended(frames)
  BY <1>10 DEF Suspended
<1>14. QED
  BY <1>12, <1>13 DEF VInv

LEMMA Stutter == ASSUME VInv, UNCHANGED vars PROVE VInv'
<1>1. protos' = protos
  BY DEF vars, protos
<1>2. QED
  BY <1>1 DEF vars, VInv, TypeOK, Suspended, Running

LEMMA Inductive == VInv /\ [Next]_vars => VInv'
<1>1. SUFFICES ASSUME VInv, [Next]_vars PROVE VInv'
  OBVIOUS
<1>2. CASE Immediate
  BY <1>1, <1>2, ImmediateStep
<1>3. CASE LoadLocal \/ StoreLocal
  BY <1>1, <1>3, LoadLocalStep, StoreLocalStep
<1>4. CASE LoadUpval \/ StoreUpval
  BY <1>1, <1>4, LoadUpvalStep, StoreUpvalStep
<1>5. CASE LoadGlobal \/ StoreGlobal
  BY <1>1, <1>5, LoadGlobalStep, StoreGlobalStep
<1>6. CASE Pop \/ Dup
  BY <1>1, <1>6, PopStep, DupStep
<1>7. CASE Jump \/ JumpIf
  BY <1>1, <1>7, JumpStep, JumpIfStep
<1>8. CASE BinaryOp \/ UnaryOp
  BY <1>1, <1>8, BinaryStep, UnaryStep
<1>9. CASE MakeCons \/ TakePart \/ MakeList
  BY <1>1, <1>9, ConsStep, PartStep, ListStep
<1>10. CASE MakeClosure
  BY <1>1, <1>10, ClosureStep
<1>11. CASE CallFunction \/ CallUndefined \/ CallSelf \/ CallNative
  BY <1>1, <1>11, CallFunctionStep, CallUndefinedStep, CallSelfStep, NativeStep
<1>12. CASE Return \/ Fault
  BY <1>1, <1>12, ReturnStep, FaultStep
<1>13. CASE UNCHANGED vars
  BY <1>1, <1>13, Stutter
<1>14. QED
  BY <1>1, <1>2, <1>3, <1>4, <1>5, <1>6, <1>7, <1>8, <1>9, <1>10, <1>11, <1>12, <1>13 DEF Next

(* The inductive invariant holds of every run of the machine.              *)
THEOREM Invariance == Spec => []VInv
BY Initially, Inductive, PTL DEF Spec

(* Whatever the code, a value refers to something that exists, and the     *)
(* stack pointer of every activation stays between the bottom of its       *)
(* operand stack and the reserve that the head of the loop checks for      *)
(* (ls_vm_run, lsvm.c:1007-1012).                                          *)
THEOREM StackBounded == Spec => []TypeOK
<1>1. VInv => TypeOK
  BY DEF VInv
<1>2. QED
  BY <1>1, Invariance, PTL

-----------------------------------------------------------------------------
(* Control stays inside the code.                                          *)

SameCode == protos' = protos /\ \A f \in 1..Len(fns) : fns'[f].proto = fns[f].proto

LEMMA JumpsInsideIs ==
  ASSUME VInv, JumpsInside, NEW k \in DOMAIN frames
  PROVE  /\ frames[k].fn \in 1..Len(fns)
         /\ frames[k].pc \in 0..Len(protos[fns[frames[k].fn].proto].code)-1
<1>1. frames \in Seq(Activations(Len(fns), Vals))
  BY DEF VInv, TypeOK, Vals
<1>2. frames[k] \in Activations(Len(fns), Vals)
  BY <1>1
<1>3. QED
  BY <1>2 DEF JumpsInside, Activations

(* Where an instruction may go on.                                         *)
LEMMA Successors ==
  ASSUME VInv, JumpsInside, Running, Ready
  PROVE  /\ Len(Code.code) \in Nat /\ 0 \in 0..Len(Code.code)-1
         /\ I.op \notin {"JUMP", "RETURN"} => Cur.pc + 1 \in 0..Len(Code.code)-1
         /\ I.op \in {"JUMP", "JUMP_IF_NIL", "JUMP_IF_NOT_NIL"} =>
              Cur.pc + 1 + Signed(I.arg) \in 0..Len(Code.code)-1
<1>1. Code.code \in Seq([op : Opcodes, arg : 0..ArgRange-1]) /\ Len(Code.code) \in Nat
  BY Here DEF Protos
<1>2. Lands(Code)
  BY Here DEF JumpsInside, Code, VInv, TypeOK
<1>3. Cur.pc \in Int /\ Cur.pc >= 0 /\ Cur.pc < Len(Code.code)
  BY Here DEF Ready, Activations
<1>4. Cur.pc + 1 \in DOMAIN Code.code /\ DOMAIN Code.code = 1..Len(Code.code)
  BY <1>1, <1>3
<1>5. Signed(I.arg) \in Int
  BY Fetched, SignedInt
<1>6. /\ I.op \notin {"JUMP", "RETURN"} => Cur.pc + 1 + 1 \in DOMAIN Code.code
      /\ I.op \in {"JUMP", "JUMP_IF_NIL", "JUMP_IF_NOT_NIL"} =>
           Cur.pc + 1 + 1 + Signed(I.arg) \in DOMAIN Code.code
  BY <1>2, <1>4 DEF Lands, I
<1>7. \A n \in Int : n + 1 \in DOMAIN Code.code => n \in 0..Len(Code.code)-1
  BY <1>1, <1>4
<1>8. 0 \in 0..Len(Code.code)-1
  BY <1>1, <1>3
<1>9. PICK s : s = Signed(I.arg)
  OBVIOUS
<1>10. I.op \notin {"JUMP", "RETURN"} => Cur.pc + 1 \in 0..Len(Code.code)-1
  <2>1. Cur.pc + 1 \in Int
    BY <1>3
  <2>2. QED
    BY <1>6, <1>7, <2>1
<1>11. I.op \in {"JUMP", "JUMP_IF_NIL", "JUMP_IF_NOT_NIL"} => Cur.pc + 1 + s \in 0..Len(Code.code)-1
  <2>1. Cur.pc + 1 + s \in Int /\ Cur.pc + 1 + 1 + s = Cur.pc + 1 + s + 1
    BY <1>3, <1>5, <1>9
  <2>2. QED
    BY <1>6, <1>7, <1>9, <2>1
<1>12. QED
  BY <1>1, <1>8, <1>9, <1>10, <1>11

(* The innermost activation goes on inside its code.                       *)
LEMMA TopMoves ==
  ASSUME VInv, JumpsInside, Running, SameCode, NEW r, r.fn = Cur.fn,
         r.pc \in 0..Len(Code.code)-1, frames' = Topped(frames, r)
  PROVE  JumpsInside'
<1>1. /\ Len(frames) \in Nat /\ frames # <<>> /\ Cur = frames[Len(frames)]
      /\ DOMAIN frames = 1..Len(frames) /\ Len(frames) \in DOMAIN frames
  BY Here DEF Cur
<1>2. /\ DOMAIN frames' = DOMAIN frames
      /\ \A k \in DOMAIN frames : frames'[k] = IF k = Len(frames) THEN r ELSE frames[k]
  BY <1>1 DEF Topped
<1>3. ASSUME NEW k \in DOMAIN frames
      PROVE  frames'[k].pc \in 0..Len(protos'[fns'[frames'[k].fn].proto].code)-1
  <2>1. CASE k = Len(frames)
    <3>1. fns'[r.fn].proto = Self.proto
      BY Here DEF SameCode, Self
    <3>2. protos'[fns'[r.fn].proto] = Code
      BY <3>1 DEF SameCode, Code
    <3>3. QED
      BY <1>2, <2>1, <3>2
  <2>2. CASE k # Len(frames)
    <3>1. fns'[frames[k].fn].proto = fns[frames[k].fn].proto
      BY JumpsInsideIs DEF SameCode
    <3>2. QED
      BY <1>2, <2>2, <3>1, JumpsInsideIs DEF SameCode
  <2>3. QED
    BY <2>1, <2>2
<1>4. QED
  BY <1>2, <1>3 DEF JumpsInside, SameCode

LEMMA PushMoves ==
  ASSUME VInv, JumpsInside, NEW ops, Executing(ops), I.op \notin {"JUMP", "RETURN"}, SameCode,
         NEW n, NEW v, Push(n, v)
  PROVE  JumpsInside'
<1>1. Running /\ Ready
  BY Checked
<1>2. Cur \in [fn : 1..Len(fns), pc : Int, sp : 0..StackSize-4, stack : [0..StackSize-1 -> Vals]]
  BY <1>1, Here DEF Activations
<1>3. PICK r : r = [Cur EXCEPT !.pc = @ + 1, !.sp = @ - n + 1, !.stack[Cur.sp - n] = v]
  OBVIOUS
<1>4. r.fn = Cur.fn /\ r.pc = Cur.pc + 1
  BY <1>2, <1>3
<1>5. QED
  BY <1>1, <1>3, <1>4, Successors, TopMoves DEF Push, Topped

LEMMA DropMoves ==
  ASSUME VInv, JumpsInside, NEW ops, Executing(ops), SameCode, NEW n, NEW by \in Int, Drop(n, by),
         \/ by = 0 /\ I.op \notin {"JUMP", "RETURN"}
         \/ by = Signed(I.arg) /\ I.op \in {"JUMP", "JUMP_IF_NIL", "JUMP_IF_NOT_NIL"}
  PROVE  JumpsInside'
<1>1. Running /\ Ready
  BY Checked
<1>2. Cur \in [fn : 1..Len(fns), pc : Int, sp : 0..StackSize-4, stack : [0..StackSize-1 -> Vals]]
  BY <1>1, Here DEF Activations
<1>3. PICK r : r = [Cur EXCEPT !.pc = @ + 1 + by, !.sp = @ - n]
  OBVIOUS
<1>4. r.fn = Cur.fn /\ r.pc = Cur.pc + 1 + by /\ Cur.pc \in Int
  BY <1>2, <1>3
<1>5. r.pc \in 0..Len(Code.code)-1
  BY <1>1, <1>4, Successors
<1>6. QED
  BY <1>1, <1>3, <1>4, <1>5, TopMoves DEF Drop, Topped

LEMMA FnsStill ==
  ASSUME UNCHANGED <<program, fns>>
  PROVE  SameCode
BY DEF SameCode, protos

LEMMA OneClosure ==
  ASSUME VInv, UNCHANGED program, NEW f \in 1..Len(fns), NEW c, c.proto = fns[f].proto,
         fns' = [fns EXCEPT ![f] = c]
  PROVE  SameCode
<1>1. fns \in Seq(Closures(Len(protos), Len(fns), Len(heap)))
  BY DEF VInv, TypeOK
<1>2. \A g \in 1..Len(fns) : fns'[g] = IF g = f THEN c ELSE fns[g]
  BY <1>1
<1>3. QED
  BY <1>2 DEF SameCode, protos

LEMMA CountedSame ==
  ASSUME NEW np, NEW nf, NEW nh, NEW f \in Closures(np, nf, nh)
  PROVE  Counted(f).proto = f.proto
BY DEF Counted, Closures

LEMMA StraightMoves ==
  ASSUME VInv, JumpsInside,
         Immediate \/ LoadLocal \/ LoadUpval \/ LoadGlobal \/ Dup \/ BinaryOp \/ UnaryOp
           \/ MakeCons \/ TakePart \/ MakeList
  PROVE  JumpsInside'
<1>1. CASE Immediate
  BY <1>1, PushMoves, FnsStill DEF Immediate, Executing
<1>2. CASE LoadLocal
  BY <1>2, PushMoves, FnsStill DEF LoadLocal, Executing
<1>3. CASE LoadUpval
  BY <1>3, PushMoves, FnsStill DEF LoadUpval, Executing
<1>4. CASE LoadGlobal
  BY <1>4, PushMoves, FnsStill DEF LoadGlobal, Executing
<1>5. CASE Dup
  BY <1>5, PushMoves, FnsStill DEF Dup, Executing
<1>6. CASE BinaryOp
  BY <1>6, PushMoves, FnsStill DEF BinaryOp, Executing, Binary
<1>7. CASE UnaryOp
  BY <1>7, PushMoves, FnsStill DEF UnaryOp, Executing, Unary
<1>8. CASE MakeCons
  BY <1>8, PushMoves, FnsStill DEF MakeCons, Executing
<1>9. CASE TakePart
  BY <1>9, PushMoves, FnsStill DEF TakePart, Executing
<1>10. CASE MakeList
  BY <1>10, PushMoves, FnsStill DEF MakeList, Executing
<1>11. QED
  BY <1>1, <1>2, <1>3, <1>4, <1>5, <1>6, <1>7, <1>8, <1>9, <1>10

LEMMA StoreLocalMoves == ASSUME VInv, JumpsInside, StoreLocal PROVE JumpsInside'
<1>1. Running /\ Ready /\ I.op = "STORE_LOCAL"
  BY Checked DEF StoreLocal
<1>2. Cur \in [fn : 1..Len(fns), pc : Int, sp : 0..StackSize-4, stack : [0..StackSize-1 -> Vals]]
  BY <1>1, Here DEF Activations
<1>3. PICK r : r = [Cur EXCEPT !.pc = @ + 1, !.sp = @ - 1, !.stack[I.arg] = Operand(1)]
  OBVIOUS
<1>4. r.fn = Cur.fn /\ r.pc = Cur.pc + 1
  BY <1>2, <1>3
<1>5. frames' = Topped(frames, r) /\ SameCode
  BY <1>3, FnsStill DEF StoreLocal, Topped
<1>6. QED
  BY <1>1, <1>4, <1>5, Successors, TopMoves

LEMMA StoreUpvalMoves == ASSUME VInv, JumpsInside, StoreUpval PROVE JumpsInside'
<1>1. Running /\ I.op = "STORE_UPVAL"
  BY Checked DEF StoreUpval
<1>2. PICK c, f : c = [Self EXCEPT !.upvals[I.arg + 1] = Operand(1)] /\ f = Cur.fn
  OBVIOUS
<1>3. Self \in Closures(Len(protos), Len(fns), Len(heap)) /\ f \in 1..Len(fns) /\ Self = fns[f]
  BY <1>1, <1>2, Here DEF Self
<1>4. c.proto = fns[f].proto
  BY <1>2, <1>3 DEF Closures
<1>5. SameCode
  BY <1>2, <1>3, <1>4, OneClosure DEF StoreUpval
<1>6. QED
  BY <1>1, <1>5, DropMoves DEF StoreUpval

LEMMA DropsMove ==
  ASSUME VInv, JumpsInside, StoreGlobal \/ Pop \/ Jump \/ JumpIf
  PROVE  JumpsInside'
<1> PICK z \in Int : z = 0
  OBVIOUS
<1>1. CASE StoreGlobal
  <2>1. Drop(1, z) /\ SameCode /\ Executing({"STORE_GLOBAL"}) /\ I.op = "STORE_GLOBAL"
    BY <1>1, FnsStill DEF StoreGlobal, Executing
  <2>2. QED
    BY <2>1, DropMoves
<1>2. CASE Pop
  <2>1. Drop(1, z) /\ SameCode /\ Executing({"POP"}) /\ I.op = "POP"
    BY <1>2, FnsStill DEF Pop, Executing
  <2>2. QED
    BY <2>1, DropMoves
<1>3. CASE Jump
  <2>1. Signed(I.arg) \in Int
    BY <1>3, Checked, SignedInt DEF Jump
  <2>2. QED
    BY <1>3, <2>1, DropMoves, FnsStill DEF Jump, Executing
<1>4. CASE JumpIf
  <2>1. Signed(I.arg) \in Int
    BY <1>4, Checked, SignedInt DEF JumpIf
  <2>2. PICK by : by = IF (Operand(1) = NilV) = (I.op = "JUMP_IF_NIL") THEN Signed(I.arg) ELSE 0
    OBVIOUS
  <2>3. by \in Int /\ (by = 0 \/ by = Signed(I.arg)) /\ I.op \in {"JUMP_IF_NIL", "JUMP_IF_NOT_NIL"}
    BY <1>4, <2>1, <2>2 DEF JumpIf, Executing
  <2>4. Drop(1, by) /\ SameCode /\ Executing({"JUMP_IF_NIL", "JUMP_IF_NOT_NIL"})
    BY <1>4, <2>2, FnsStill DEF JumpIf
  <2>5. QED
    BY <2>3, <2>4, DropMoves
<1>5. QED
  BY <1>1, <1>2, <1>3, <1>4

LEMMA ClosureMoves == ASSUME VInv, JumpsInside, MakeClosure PROVE JumpsInside'
<1>1. Running
  BY Checked DEF MakeClosure
<1>2. fns \in Seq(Closures(Len(protos), Len(fns), Len(heap)))
  BY DEF VInv, TypeOK
<1>3. fns' = Append(fns, NewClosure(K.n)) /\ protos' = protos
  BY DEF MakeClosure, protos
<1>4. SameCode
  BY <1>2, <1>3 DEF SameCode
<1>5. QED
  BY <1>4, PushMoves DEF MakeClosure, Executing

LEMMA NativeMoves == ASSUME VInv, JumpsInside, CallNative PROVE JumpsInside'
<1>1. \E n, v : Push(n, v)
  BY DEF CallNative
<1>2. QED
  BY <1>1, PushMoves, FnsStill DEF CallNative, Executing

LEMMA CallSelfMoves == ASSUME VInv, JumpsInside, CallSelf PROVE JumpsInside'
<1>1. Running /\ Ready
  BY Checked DEF CallSelf, CallingFn
<1>2. Cur \in [fn : 1..Len(fns), pc : Int, sp : 0..StackSize-4, stack : [0..StackSize-1 -> Vals]]
  BY <1>1, Here DEF Activations
<1>3. PICK r : r = [Cur EXCEPT !.pc = 0, !.sp = Code.n_locals, !.stack = MovedDown(Args)]
  OBVIOUS
<1>4. r.fn = Cur.fn /\ r.pc = 0
  BY <1>2, <1>3
<1>5. PICK c, f : c = Counted(Self) /\ f = Cur.fn
  OBVIOUS
<1>6. f \in 1..Len(fns) /\ c.proto = fns[f].proto
  BY <1>1, <1>5, Here, CountedSame DEF Self
<1>7. SameCode
  BY <1>5, <1>6, OneClosure DEF CallSelf
<1>8. frames' = Topped(frames, r)
  BY <1>3 DEF CallSelf, Topped
<1>9. QED
  BY <1>1, <1>4, <1>7, <1>8, Successors, TopMoves

(* An activation at an instruction of the code there is now.               *)
Inside(e) == e.fn \in 1..Len(fns) /\ e.pc \in 0..Len(protos[fns[e.fn].proto].code)-1

LEMMA EachMoves ==
  ASSUME JumpsInside, SameCode, \A k \in DOMAIN frames' : Inside(frames'[k])
  PROVE  JumpsInside'
BY DEF JumpsInside, SameCode, Inside

LEMMA NowInside ==
  ASSUME VInv, JumpsInside
  PROVE  \A k \in DOMAIN frames : Inside(frames[k])
BY JumpsInsideIs DEF Inside

LEMMA AddedMoves ==
  ASSUME NEW A, NEW fs \in Seq(A), fs # <<>>, \A k \in DOMAIN fs : Inside(fs[k]),
         NEW r, Inside(r), NEW e, Inside(e), NEW gs, gs = Append(Topped(fs, r), e)
  PROVE  \A k \in DOMAIN gs : Inside(gs[k])
<1>1. PICK hs, n : hs = Topped(fs, r) /\ n = Len(fs)
  OBVIOUS
<1>2. n \in Nat /\ n > 0 /\ DOMAIN fs = 1..n /\ fs \in [1..n -> A]
  BY <1>1
<1>3. DOMAIN hs = 1..n /\ \A k \in 1..n : hs[k] = IF k = n THEN r ELSE fs[k]
  BY <1>1, <1>2 DEF Topped
<1>4. \A k \in 1..n : Inside(hs[k])
  BY <1>2, <1>3
<1>5. PICK B : B = A \cup {r, e}
  OBVIOUS
<1>6. hs \in Seq(B) /\ Len(hs) = n /\ e \in B
  <2>1. hs \in [1..n -> B]
    BY <1>1, <1>2, <1>5 DEF Topped
  <2>2. QED
    BY <1>2, <1>5, <2>1, IsASeq
<1>7. gs = Append(hs, e)
  BY <1>1
<1>8. Len(gs) = n + 1 /\ DOMAIN gs = 1..n+1
  BY <1>6, <1>7
<1>9. \A k \in 1..n+1 : gs[k] = IF k = n + 1 THEN e ELSE hs[k]
  BY <1>2, <1>6, <1>7
<1>10. \A k \in 1..n+1 : k = n + 1 \/ k \in 1..n
  BY <1>2
<1>11. QED
  BY <1>4, <1>8, <1>9, <1>10, Zenon

LEMMA CallFunctionMoves == ASSUME VInv, JumpsInside, CallFunction PROVE JumpsInside'
<1>1. Running /\ Ready /\ I.op \in {"CALL", "TAILCALL"}
  BY Checked DEF CallFunction, CallingFn
<1>2. Cur \in [fn : 1..Len(fns), pc : Int, sp : 0..StackSize-4, stack : [0..StackSize-1 -> Vals]]
  BY <1>1, Here DEF Activations
<1>3. PICK t : t = Target.n
  OBVIOUS
<1>4. t \in 1..Len(fns) /\ fns[t] \in Closures(Len(protos), Len(fns), Len(heap))
  <2>1. Target \in Vals
    BY TargetOK DEF CallFunction, CallingFn
  <2>2. t \in 1..Len(fns)
    BY <1>1, <1>3, <2>1, Here, ValueIs DEF Vals, CallFunction, CallingFn
  <2>3. QED
    BY <2>2 DEF VInv, TypeOK
<1>5. PICK r : r = [Cur EXCEPT !.pc = @ + 1, !.sp = @ - I.arg - 1]
  OBVIOUS
<1>6. PICK e, z : e = Entered(t, protos[fns[t].proto], Args) /\ z = 0
  OBVIOUS
<1>7. r.fn = Cur.fn /\ r.pc \in 0..Len(Code.code)-1 /\ e.fn = t /\ e.pc = z
  <2>1. r.fn = Cur.fn /\ r.pc = Cur.pc + 1
    BY <1>2, <1>5
  <2>2. e.fn = t /\ e.pc = z
    BY <1>6 DEF Entered
  <2>3. QED
    BY <1>1, <2>1, <2>2, Successors
<1>8. Inside(r)
  BY <1>1, <1>7, Here DEF Inside, Code, Self
<1>9. Inside(e)
  <2>1. fns[t].proto \in 1..Len(protos)
    BY <1>4 DEF Closures
  <2>2. protos[fns[t].proto] \in Protos(Len(protos)) /\ Lands(protos[fns[t].proto])
    BY <2>1 DEF VInv, TypeOK, JumpsInside
  <2>3. z \in 0..Len(protos[fns[t].proto].code)-1
    <3>1. PICK s : s = protos[fns[t].proto].code
      OBVIOUS
    <3>2. s \in Seq([op : Opcodes, arg : 0..ArgRange-1]) /\ s # <<>>
      BY <2>2, <3>1 DEF Protos, Lands
    <3>3. Len(s) \in Nat /\ Len(s) > 0
      BY <3>2
    <3>4. QED
      BY <1>6, <3>1, <3>3
  <2>4. QED
    BY <1>4, <1>7, <2>3 DEF Inside
<1>10. SameCode
  <2>1. PICK c : c = Counted(fns[t])
    OBVIOUS
  <2>2. c.proto = fns[t].proto
    BY <1>4, <2>1, CountedSame
  <2>3. fns' = [fns EXCEPT ![t] = c] /\ UNCHANGED program
    BY <1>3, <2>1 DEF CallFunction
  <2>4. QED
    BY <1>4, <2>2, <2>3, OneClosure
<1>11. frames' = Append(Topped(frames, r), e)
  BY <1>3, <1>5, <1>6 DEF CallFunction, Topped
<1>12. \A k \in DOMAIN frames' : Inside(frames'[k])
  <2>1. frames \in Seq(Activations(Len(fns), Vals)) /\ frames # <<>>
    BY <1>1, Here
  <2>2. \A k \in DOMAIN frames : Inside(frames[k])
    BY NowInside
  <2>3. QED
    BY <1>8, <1>9, <1>11, <2>1, <2>2, AddedMoves
<1>13. QED
  BY <1>10, <1>12, EachMoves

LEMMA ReturnMoves == ASSUME VInv, JumpsInside, Return PROVE JumpsInside'
<1>1. Running /\ SameCode
  BY FnsStill DEF Return, Executing
<1>2. /\ frames \in Seq(Activations(Len(fns), Vals)) /\ frames # <<>>
      /\ Len(frames) \in Nat /\ DOMAIN frames = 1..Len(frames)
  BY <1>1, Here
<1>3. CASE Len(frames) - 1 = 0
  <2>1. frames' = <<>>
    BY <1>3 DEF Return
  <2>2. QED
    BY <1>1, <2>1, EachMoves
<1>4. CASE Len(frames) - 1 # 0
  <2>1. PICK d, r : d = Len(frames) - 1 /\ r = GivenTo(frames[d], Returned)
    OBVIOUS
  <2>2. frames' = Unwound(frames, d, r)
    BY <1>4, <2>1 DEF Return, Unwound, GivenTo
  <2>3. d \in DOMAIN frames /\ d \in Nat \ {0} /\ d < Len(frames)
    BY <1>2, <1>4, <2>1
  <2>4. Inside(r)
    <3>1. frames[d] \in Activations(Len(fns), Vals)
      BY <1>2, <2>3
    <3>2. r.fn = frames[d].fn /\ r.pc = frames[d].pc
      BY <2>1, <3>1 DEF GivenTo, Activations
    <3>3. QED
      BY <2>3, <3>2, NowInside DEF Inside
  <2>5. \A k \in DOMAIN frames' : Inside(frames'[k])
    <3>1. DOMAIN frames' = 1..d /\ \A k \in 1..d : frames'[k] = IF k < d THEN frames[k] ELSE r
      BY <2>2 DEF Unwound
    <3>2. \A k \in 1..d : Inside(frames[k])
      BY <1>2, <2>3, NowInside
    <3>3. QED
      BY <2>4, <3>1, <3>2
  <2>6. QED
    BY <1>1, <2>5, EachMoves
<1>5. QED
  BY <1>3, <1>4

LEMMA StaysInside == VInv /\ JumpsInside /\ [Next]_vars => JumpsInside'
<1>1. SUFFICES ASSUME VInv, JumpsInside, [Next]_vars PROVE JumpsInside'
  OBVIOUS
<1>2. CASE Immediate \/ LoadLocal \/ LoadUpval \/ LoadGlobal \/ Dup \/ BinaryOp \/ UnaryOp
             \/ MakeCons \/ TakePart \/ MakeList
  BY <1>1, <1>2, StraightMoves
<1>3. CASE StoreLocal \/ StoreUpval
  BY <1>1, <1>3, StoreLocalMoves, StoreUpvalMoves
<1>4. CASE StoreGlobal \/ Pop \/ Jump \/ JumpIf
  BY <1>1, <1>4, DropsMove
<1>5. CASE MakeClosure \/ CallNative \/ CallSelf \/ CallFunction
  BY <1>1, <1>5, ClosureMoves, NativeMoves, CallSelfMoves, CallFunctionMoves
<1>6. CASE Return
  BY <1>1, <1>6, ReturnMoves
<1>7. CASE CallUndefined \/ Fault
  <2>1. frames' = <<>> /\ SameCode
    BY <1>7, FnsStill DEF CallUndefined, Fault
  <2>2. QED
    BY <1>1, <2>1, EachMoves
<1>8. CASE UNCHANGED vars
  BY <1>1, <1>8 DEF vars, JumpsInside, protos
<1>9. QED
  BY <1>1, <1>2, <1>3, <1>4, <1>5, <1>6, <1>7, <1>8 DEF Next

(* Every program there is has code that lands on instructions.             *)
Verified == \A k \in 1..Count : \A i \in DOMAIN ProgramAt(k).protos : Lands(ProgramAt(k).protos[i])

LEMMA BeginsInside == Verified /\ Init => JumpsInside
<1>1. SUFFICES ASSUME Verified, Init PROVE JumpsInside
  OBVIOUS
<1>2. \A i \in DOMAIN protos : Lands(protos[i])
  BY <1>1 DEF Init, Verified, protos
<1>3. VInv /\ Running
  BY <1>1, Initially DEF Init, Running
<1>4. PICK z : z = 0
  OBVIOUS
<1>5. frames = <<Cur>> /\ Cur.pc = z
  BY <1>1, <1>4 DEF Init, Cur, Entered
<1>6. z \in 0..Len(Code.code)-1
  <2>1. PICK s : s = Code.code
    OBVIOUS
  <2>2. s \in Seq([op : Opcodes, arg : 0..ArgRange-1])
    BY <1>3, <2>1, Here DEF Protos
  <2>3. s # <<>>
    <3>1. protos \in Seq(Protos(Len(protos))) /\ Self.proto \in 1..Len(protos)
      BY <1>3, Here DEF VInv, TypeOK
    <3>2. Self.proto \in DOMAIN protos
      BY <3>1
    <3>3. QED
      BY <1>2, <2>1, <3>2 DEF Lands, Code
  <2>4. Len(s) \in Nat /\ Len(s) > 0
    BY <2>2, <2>3
  <2>5. QED
    BY <1>4, <2>1, <2>4
<1>7. \A k \in DOMAIN frames : frames[k] = Cur
  BY <1>5
<1>8. QED
  BY <1>2, <1>5, <1>6, <1>7 DEF JumpsInside, Code, Self

(* When the code of every program lands on its own instructions, which is  *)
(* what patch_jump (lsvm.c:90-98) and the RETURN that ends each proto are  *)
(* for, the program counter of no activation, waiting or running, ever     *)
(* leaves it: the check of the loop against the length never fails.        *)
THEOREM NeverOff == Verified => (Spec => []JumpsInside)
<1>1. Verified /\ Spec => []JumpsInside
  BY BeginsInside, StaysInside, Invariance, PTL DEF Spec
<1>2. QED
  BY <1>1

-----------------------------------------------------------------------------
(* What the code of an instruction says of the operands after it.          *)

LEMMA NeedsNat ==
  ASSUME NEW i, i.arg \in Nat
  PROVE  Needs(i) \in Nat
BY DEF Needs, Binary, Unary

LEMMA TakenNat ==
  ASSUME NEW i, i.arg \in Nat
  PROVE  Taken(i) \in Nat /\ Taken(i) <= Needs(i)
<1>1. Needs(i) \in Nat
  BY NeedsNat
<1>2. QED
  BY <1>1 DEF Taken

LEMMA Spliced ==
  ASSUME NEW S, NEW x \in Seq(S), NEW m \in Nat, m <= Len(x), NEW l \in Seq(S),
         NEW y, y = SubSeq(x, 1, m) \o l
  PROVE  /\ Len(y) = m + Len(l)
         /\ \A q \in 1..m : y[q] = x[q]
         /\ Len(l) > 0 => y[m + 1] = l[1]
<1>1. PICK h : h = SubSeq(x, 1, m)
  OBVIOUS
<1>2. h \in Seq(S) /\ Len(h) = m /\ \A q \in 1..m : h[q] = x[q]
  BY <1>1
<1>3. y = h \o l
  BY <1>1
<1>4. Len(y) = m + Len(l)
  BY <1>2, <1>3
<1>5. \A q \in 1..m : y[q] = h[q]
  BY <1>2, <1>3
<1>6. Len(l) > 0 => y[m + 1] = l[1]
  BY <1>2, <1>3
<1>7. QED
  BY <1>2, <1>4, <1>5, <1>6

(* An instruction takes operands off and leaves at most one.               *)
LEMMA AfterIs ==
  ASSUME NEW p, NEW i, i.arg \in Nat, NEW x \in Seq(Names), Needs(i) <= Len(x),
         NEW t, t = Taken(i), NEW y, y = After(p, i, x)
  PROVE  /\ t \in Nat /\ t <= Len(x) /\ Len(y) \in Nat
         /\ \A q \in 1..Len(x)-t : y[q] = x[q]
         /\ Left(p, i) = <<>> => Len(y) = Len(x) - t
         /\ Left(p, i) # <<>> =>
              Len(y) = Len(x) - t + 1 /\ y[Len(x) - t + 1] = Loaded(p, i)
<1>1. t \in Nat /\ t <= Len(x)
  BY TakenNat, NeedsNat
<1>2. PICK v, S : v = Loaded(p, i) /\ S = Names \cup {v}
  OBVIOUS
<1>3. x \in Seq(S)
  BY <1>2, Within
<1>4. PICK l : l = Left(p, i)
  OBVIOUS
<1>5. l = <<>> \/ l = <<v>>
  BY <1>2, <1>4 DEF Left
<1>6. l \in Seq(S)
  <2>1. v \in S
    BY <1>2
  <2>2. <<>> \in Seq(S) /\ <<v>> \in Seq(S)
    BY <2>1
  <2>3. QED
    BY <1>5, <2>2
<1>7. /\ Len(y) = Len(x) - t + Len(l)
      /\ \A q \in 1..Len(x)-t : y[q] = x[q]
      /\ Len(l) > 0 => y[Len(x) - t + 1] = l[1]
  <2>1. PICK m : m = Len(x) - t
    OBVIOUS
  <2>2. m \in Nat /\ m <= Len(x)
    BY <1>1, <1>3, <2>1
  <2>3. y = SubSeq(x, 1, m) \o l
    BY <1>4, <2>1 DEF After
  <2>4. Len(y) = m + Len(l) /\ (\A q \in 1..m : y[q] = x[q]) /\ (Len(l) > 0 => y[m + 1] = l[1])
    BY <1>3, <1>6, <2>2, <2>3, Spliced
  <2>5. QED
    BY <2>1, <2>4
<1>8. CASE l = <<>>
  BY <1>1, <1>4, <1>7, <1>8
<1>9. CASE l = <<v>>
  <2>1. Len(l) = 1 /\ l[1] = Loaded(p, i)
    BY <1>2, <1>9
  <2>2. Len(y) = Len(x) - t + 1 /\ y[Len(x) - t + 1] = Loaded(p, i)
    BY <1>7, <2>1
  <2>3. QED
    BY <1>1, <1>2, <1>4, <1>7, <1>9, <2>2
<1>10. QED
  BY <1>5, <1>8, <1>9

(* Where no instruction goes on, something else does.                      *)
LEMMA GoesOn ==
  ASSUME NEW p, NEW k \in Int
  PROVE  /\ p.code[k].op \notin {"JUMP", "RETURN"} => k + 1 \in Goes(p, k)
         /\ p.code[k].op \in {"JUMP", "JUMP_IF_NIL", "JUMP_IF_NOT_NIL"} =>
              k + 1 + Signed(p.code[k].arg) \in Goes(p, k)
BY DEF Goes

-----------------------------------------------------------------------------
(* An activation sits well when it has the operands its code says.         *)

Sits(f, w) == f.fn \in 1..Len(fns) /\ (Disciplined(Runs(f)) => Fits(f, w))

Waits(k, n) == IF k < n THEN 1 ELSE 0

SameProgram == SameCode /\ functions' = functions

LEMMA EachSits ==
  ASSUME SameProgram, \A k \in DOMAIN frames' : Sits(frames'[k], Waits(k, Len(frames')))
  PROVE  Shaped'
<1>1. PICK gs : gs = frames'
  OBVIOUS
<1>2. ASSUME NEW k \in DOMAIN gs
      PROVE  Disciplined(Runs(gs[k])') => Fits(gs[k], Waits(k, Len(gs)))'
  <2>1. PICK f, w : f = gs[k] /\ w = Waits(k, Len(gs))
    OBVIOUS
  <2>2. Sits(f, w)
    BY <1>1, <2>1
  <2>3. Runs(f)' = Runs(f)
    BY <2>2 DEF Sits, Runs, SameProgram, SameCode
  <2>4. \A s, v : Means(s, v)' <=> Means(s, v)
    BY DEF Means, SameProgram
  <2>5. Disciplined(Runs(f)) => Fits(f, w)'
    BY <2>2, <2>3, <2>4 DEF Sits, Fits
  <2>6. QED
    BY <2>1, <2>3, <2>5
<1>3. QED
  BY <1>1, <1>2 DEF Shaped, Waits

LEMMA SitsNow ==
  ASSUME VInv, Shaped, NEW k \in DOMAIN frames
  PROVE  Sits(frames[k], Waits(k, Len(frames)))
<1>1. frames \in Seq(Activations(Len(fns), Vals))
  BY DEF VInv, TypeOK, Vals
<1>2. frames[k] \in Activations(Len(fns), Vals)
  BY <1>1
<1>3. QED
  BY <1>2 DEF Shaped, Sits, Activations, Waits

LEMMA TopSits ==
  ASSUME VInv, Shaped, Running
  PROVE  Sits(Cur, 0) /\ Runs(Cur) = Code
<1>1. Len(frames) \in DOMAIN frames /\ Cur = frames[Len(frames)] /\ Len(frames) \in Nat
  BY Here DEF Cur
<1>2. Waits(Len(frames), Len(frames)) = 0
  BY <1>1 DEF Waits
<1>3. QED
  BY <1>1, <1>2, SitsNow DEF Runs, Code, Self

(* What discipline says of the instruction about to be executed.           *)
LEMMA AtHand ==
  ASSUME VInv, Shaped, Running, Ready, Disciplined(Code), NEW x, x = Shape(Code)[Cur.pc + 1]
  PROVE  /\ x \in Seq(Names) /\ Len(x) \in Nat /\ Len(x) >= Needs(I)
         /\ Cur.sp = Code.n_locals + Len(x)
         /\ \A q \in 1..Len(x) : Means(x[q], Cur.stack[Code.n_locals + q - 1])
         /\ I.op = "RETURN" => Len(x) = 1
         /\ \A j \in Goes(Code, Cur.pc + 1) :
              j \in DOMAIN Shape(Code) /\ Covers(Shape(Code)[j], After(Code, I, x))
         /\ Code.n_locals \in Nat /\ Cur.sp \in Nat
         /\ Cur.pc + 1 \in DOMAIN Shape(Code)
<1>1. Fits(Cur, 0) /\ Runs(Cur) = Code
  BY TopSits DEF Sits
<1>2. Code.n_locals \in Nat /\ Cur.sp \in Nat
  BY Here, SpRange DEF Protos
<1>3. PICK k : k = Cur.pc + 1
  OBVIOUS
<1>4. k \in DOMAIN Shape(Code)
  BY <1>1, <1>3 DEF Fits
<1>5. /\ x \in Seq(Names) /\ Len(x) >= Needs(I) /\ (I.op = "RETURN" => Len(x) = 1)
      /\ \A j \in Goes(Code, k) :
              j \in DOMAIN Shape(Code) /\ Covers(Shape(Code)[j], After(Code, I, x))
  BY <1>3, <1>4 DEF Disciplined, Annotates, I
<1>6. Len(x) \in Nat
  BY <1>5
<1>7. Cur.sp = Code.n_locals + Len(x) - 0
  BY <1>1 DEF Fits
<1>8. \A q \in 1..Len(x)-0 : Means(x[q], Cur.stack[Code.n_locals + q - 1])
  BY <1>1 DEF Fits
<1>9. QED
  BY <1>2, <1>3, <1>4, <1>5, <1>6, <1>7, <1>8

(* r has what the instruction leaves, but w operands yet to come.          *)
Settled(r, w) ==
  LET y == After(Code, I, Shape(Code)[Cur.pc + 1])
  IN  /\ r.fn = Cur.fn
      /\ Disciplined(Code) =>
           /\ Len(y) \in Nat
           /\ r.pc + 1 \in Goes(Code, Cur.pc + 1)
           /\ r.sp = Code.n_locals + Len(y) - w
           /\ \A q \in 1..Len(y)-w : Means(y[q], r.stack[Code.n_locals + q - 1])
           /\ w = 1 => Len(y) > 0 /\ y[Len(y)] = Unknown

LEMMA SettlesDown ==
  ASSUME VInv, Shaped, Running, Ready, NEW r, NEW w \in {0, 1}, Settled(r, w)
  PROVE  Sits(r, w)
<1>1. Runs(r) = Code /\ r.fn \in 1..Len(fns)
  BY Here DEF Runs, Code, Self, Settled
<1>2. ASSUME Disciplined(Code) PROVE Fits(r, w)
  <2>1. PICK y :  /\ y = After(Code, I, Shape(Code)[Cur.pc + 1]) /\ Len(y) \in Nat
                  /\ r.pc + 1 \in Goes(Code, Cur.pc + 1)
                  /\ r.sp = Code.n_locals + Len(y) - w
                  /\ \A q \in 1..Len(y)-w : Means(y[q], r.stack[Code.n_locals + q - 1])
                  /\ w = 1 => Len(y) > 0 /\ y[Len(y)] = Unknown
    BY <1>2 DEF Settled
  <2>2. PICK j, z : j = r.pc + 1 /\ z = Shape(Code)[j]
    OBVIOUS
  <2>3. j \in DOMAIN Shape(Code) /\ Covers(z, y)
    BY <1>2, <2>1, <2>2, AtHand
  <2>4. z \in Seq(Names)
    BY <1>2, <2>2, <2>3 DEF Disciplined, Annotates
  <2>5. Len(z) = Len(y) /\ \A q \in 1..Len(z) : z[q] \in {Unknown, y[q]}
    BY <2>3, <2>4 DEF Covers
  <2>6. r.sp = Code.n_locals + Len(z) - w
    BY <2>1, <2>5
  <2>7. \A q \in 1..Len(z)-w : Means(z[q], r.stack[Code.n_locals + q - 1])
    <3>1. \A q \in 1..Len(z)-w : q \in 1..Len(z) /\ q \in 1..Len(y)-w
      BY <2>1, <2>5
    <3>2. \A v : Means(Unknown, v)
      BY DEF Means
    <3>3. QED
      BY <2>1, <2>5, <3>1, <3>2
  <2>8. w = 1 => z # <<>> /\ z[Len(z)] = Unknown
    BY <2>1, <2>4, <2>5
  <2>9. QED
    BY <1>1, <2>2, <2>3, <2>6, <2>7, <2>8 DEF Fits
<1>3. QED
  BY <1>1, <1>2 DEF Sits

(* The innermost activation goes on.                                       *)
LEMMA TopSettles ==
  ASSUME VInv, Shaped, Running, SameProgram, NEW r, Sits(r, 0), frames' = Topped(frames, r)
  PROVE  Shaped'
<1>1. PICK n : n = Len(frames)
  OBVIOUS
<1>2. n \in Nat /\ n # 0 /\ DOMAIN frames = 1..n
  BY <1>1, Here
<1>3. /\ Len(frames') = n /\ DOMAIN frames' = 1..n
      /\ \A k \in 1..n : frames'[k] = IF k = n THEN r ELSE frames[k]
  BY <1>1, <1>2, Here DEF Topped
<1>4. Waits(n, n) = 0
  BY <1>2 DEF Waits
<1>5. \A k \in 1..n : Sits(frames[k], Waits(k, n))
  BY <1>1, <1>2, SitsNow
<1>6. QED
  BY <1>3, <1>4, <1>5, EachSits

LEMMA PushSettles ==
  ASSUME VInv, Shaped, NEW ops, Executing(ops), SameProgram, NEW n, NEW v, Push(n, v),
         Taken(I) = n, Left(Code, I) # <<>>, I.op \notin {"JUMP", "RETURN"},
         Disciplined(Code) => Means(Loaded(Code, I), v)
  PROVE  Shaped'
<1>1. Running /\ Ready /\ I.arg \in Nat /\ Cur.sp >= Needs(I)
  BY Checked
<1>2. Cur \in [fn : 1..Len(fns), pc : Int, sp : 0..StackSize-4, stack : [0..StackSize-1 -> Vals]]
  BY <1>1, Here DEF Activations
<1>3. PICK r : r = [Cur EXCEPT !.pc = @ + 1, !.sp = @ - n + 1, !.stack[Cur.sp - n] = v]
  OBVIOUS
<1>4. PICK at : at = Cur.sp - n
  OBVIOUS
<1>5. n \in Nat /\ n <= Needs(I) /\ Needs(I) \in Nat
  BY <1>1, TakenNat, NeedsNat
<1>6. at \in 0..StackSize-1
  BY <1>1, <1>2, <1>4, <1>5, StackAssumption
<1>7. /\ r.fn = Cur.fn /\ r.pc = Cur.pc + 1 /\ r.sp = at + 1
      /\ \A q \in 0..StackSize-1 : r.stack[q] = IF q = at THEN v ELSE Cur.stack[q]
  BY <1>2, <1>3, <1>4, <1>6
<1>8. ASSUME Disciplined(Code), NEW y, y = After(Code, I, Shape(Code)[Cur.pc + 1])
      PROVE  /\ Len(y) \in Nat
             /\ r.pc + 1 \in Goes(Code, Cur.pc + 1)
             /\ r.sp = Code.n_locals + Len(y)
             /\ \A q \in 1..Len(y) : Means(y[q], r.stack[Code.n_locals + q - 1])
  <2>1. PICK x : x = Shape(Code)[Cur.pc + 1]
    OBVIOUS
  <2>2. y = After(Code, I, x)
    BY <1>8, <2>1
  <2>3. PICK m, b : m = Len(x) - n /\ b = Code.n_locals
    OBVIOUS
  <2>4. /\ x \in Seq(Names) /\ Len(x) \in Nat /\ Len(x) >= Needs(I) /\ Cur.sp = b + Len(x)
        /\ \A q \in 1..Len(x) : Means(x[q], Cur.stack[b + q - 1])
        /\ b \in Nat
    BY <1>1, <1>8, <2>1, <2>3, AtHand
  <2>5. m \in Nat /\ at = b + m
    <3>1. PICK l, sp : l = Len(x) /\ sp = Cur.sp
      OBVIOUS
    <3>2. l \in Nat /\ l >= n /\ m = l - n /\ sp = b + l /\ at = sp - n
      BY <1>4, <1>5, <2>3, <2>4, <3>1
    <3>3. QED
      BY <1>5, <2>4, <3>2
  <2>6. /\ \A q \in 1..m : y[q] = x[q]
        /\ Len(y) = m + 1 /\ y[m + 1] = Loaded(Code, I)
    BY <1>1, <2>2, <2>3, <2>4, AfterIs
  <2>7. ASSUME NEW q \in 1..m+1 PROVE Means(y[q], r.stack[b + q - 1])
    <3>1. b + q - 1 \in 0..StackSize-1
      BY <1>6, <2>4, <2>5, StackAssumption
    <3>2. CASE q = m + 1
      <4>1. b + q - 1 = at
        BY <2>4, <2>5, <3>2
      <4>2. QED
        BY <1>7, <1>8, <2>6, <3>1, <3>2, <4>1
    <3>3. CASE q # m + 1
      <4>1. q \in 1..m /\ b + q - 1 # at /\ q \in 1..Len(x)
        BY <1>5, <2>3, <2>4, <2>5, <3>3
      <4>2. QED
        BY <1>7, <2>4, <2>6, <3>1, <4>1
    <3>4. QED
      BY <3>2, <3>3
  <2>8. r.pc + 1 \in Goes(Code, Cur.pc + 1)
    <3>1. PICK k : k = Cur.pc + 1
      OBVIOUS
    <3>2. k \in Int /\ Code.code[k].op \notin {"JUMP", "RETURN"} /\ r.pc + 1 = k + 1
      BY <1>2, <1>7, <3>1 DEF I
    <3>3. QED
      BY <3>1, <3>2, GoesOn
  <2>9. r.sp = b + Len(y) /\ Len(y) \in Nat
    BY <1>7, <2>4, <2>5, <2>6
  <2>10. \A q \in 1..Len(y) : Means(y[q], r.stack[b + q - 1])
    BY <2>6, <2>7
  <2>11. QED
    BY <2>1, <2>2, <2>3, <2>8, <2>9, <2>10
<1>9. Sits(r, 0)
  <2>1. PICK w \in {0, 1} : w = 0
    OBVIOUS
  <2>2. Settled(r, w)
    <3>1. Code.n_locals \in Nat
      BY <1>1, Here DEF Protos
    <3>2. QED
      BY <1>7, <1>8, <2>1, <3>1 DEF Settled
  <2>3. Sits(r, w)
    BY <1>1, <2>2, SettlesDown
  <2>4. QED
    BY <2>1, <2>3
<1>10. QED
  BY <1>1, <1>3, <1>9, TopSettles DEF Push, Topped

(* The operands are taken and nothing else is touched above the locals.    *)
LEMMA FallSettles ==
  ASSUME VInv, Shaped, Running, Ready, I.arg \in Nat, NEW r, r.fn = Cur.fn,
         r.pc + 1 \in Goes(Code, Cur.pc + 1), Left(Code, I) = <<>>,
         NEW t, t = Taken(I), r.sp = Cur.sp - t,
         \A q \in 0..StackSize-1 : q >= Code.n_locals => r.stack[q] = Cur.stack[q]
  PROVE  Sits(r, 0)
<1>1. Cur \in [fn : 1..Len(fns), pc : Int, sp : 0..StackSize-4, stack : [0..StackSize-1 -> Vals]]
  BY Here DEF Activations
<1>2. t \in Nat /\ t <= Needs(I) /\ Needs(I) \in Nat
  BY TakenNat, NeedsNat
<1>3. ASSUME Disciplined(Code), NEW y, y = After(Code, I, Shape(Code)[Cur.pc + 1])
      PROVE  /\ Len(y) \in Nat
             /\ r.sp = Code.n_locals + Len(y)
             /\ \A q \in 1..Len(y) : Means(y[q], r.stack[Code.n_locals + q - 1])
  <2>1. PICK x : x = Shape(Code)[Cur.pc + 1]
    OBVIOUS
  <2>2. y = After(Code, I, x)
    BY <1>3, <2>1
  <2>3. PICK m, b, sp : m = Len(x) - t /\ b = Code.n_locals /\ sp = Cur.sp
    OBVIOUS
  <2>4. /\ x \in Seq(Names) /\ Len(x) \in Nat /\ Len(x) >= Needs(I) /\ sp = b + Len(x)
        /\ \A q \in 1..Len(x) : Means(x[q], Cur.stack[b + q - 1])
        /\ b \in Nat /\ sp \in 0..StackSize-4
    BY <1>1, <1>3, <2>1, <2>3, AtHand
  <2>5. m \in Nat /\ r.sp = b + m /\ m <= Len(x)
    <3>1. PICK l : l = Len(x)
      OBVIOUS
    <3>2. l \in Nat /\ l >= t /\ m = l - t /\ sp = b + l /\ r.sp = sp - t
      BY <1>2, <2>3, <2>4, <3>1
    <3>3. QED
      BY <1>2, <2>4, <3>1, <3>2
  <2>6. Len(y) = m /\ \A q \in 1..m : y[q] = x[q]
    BY <2>2, <2>3, <2>4, AfterIs
  <2>7. ASSUME NEW q \in 1..m PROVE Means(y[q], r.stack[b + q - 1])
    <3>1. b + q - 1 \in 0..StackSize-1 /\ b + q - 1 >= b /\ q \in 1..Len(x)
      BY <2>4, <2>5, StackAssumption
    <3>2. r.stack[b + q - 1] = Cur.stack[b + q - 1]
      BY <2>3, <3>1
    <3>3. QED
      BY <2>4, <2>6, <3>1, <3>2
  <2>8. QED
    BY <2>3, <2>5, <2>6, <2>7
<1>4. PICK w \in {0, 1} : w = 0
  OBVIOUS
<1>5. Settled(r, w)
  <2>1. Code.n_locals \in Nat
    BY Here DEF Protos
  <2>2. QED
    BY <1>3, <1>4, <2>1 DEF Settled
<1>6. Sits(r, w)
  BY <1>5, SettlesDown
<1>7. QED
  BY <1>4, <1>6

LEMMA GoneTo ==
  ASSUME VInv, Running, NEW by \in Int,
         \/ by = 0 /\ I.op \notin {"JUMP", "RETURN"}
         \/ by = Signed(I.arg) /\ I.op \in {"JUMP", "JUMP_IF_NIL", "JUMP_IF_NOT_NIL"}
  PROVE  Cur.pc + 1 + by + 1 \in Goes(Code, Cur.pc + 1)
<1>1. PICK k : k = Cur.pc + 1
  OBVIOUS
<1>2. Cur.pc \in Int
  BY Here DEF Activations
<1>3. k \in Int /\ I = Code.code[k] /\ Cur.pc + 1 + by + 1 = k + 1 + by
  BY <1>1, <1>2 DEF I
<1>4. CASE by = 0 /\ I.op \notin {"JUMP", "RETURN"}
  <2>1. k + 1 + by = k + 1
    BY <1>3, <1>4
  <2>2. QED
    BY <1>1, <1>3, <1>4, <2>1, GoesOn
<1>5. CASE by = Signed(I.arg) /\ I.op \in {"JUMP", "JUMP_IF_NIL", "JUMP_IF_NOT_NIL"}
  BY <1>1, <1>3, <1>5, GoesOn
<1>6. QED
  BY <1>4, <1>5

LEMMA DropSettles ==
  ASSUME VInv, Shaped, NEW ops, Executing(ops), SameProgram, NEW n, NEW by \in Int, Drop(n, by),
         Taken(I) = n, Left(Code, I) = <<>>,
         \/ by = 0 /\ I.op \notin {"JUMP", "RETURN"}
         \/ by = Signed(I.arg) /\ I.op \in {"JUMP", "JUMP_IF_NIL", "JUMP_IF_NOT_NIL"}
  PROVE  Shaped'
<1>1. Running /\ Ready /\ I.arg \in Nat
  BY Checked
<1>2. Cur \in [fn : 1..Len(fns), pc : Int, sp : 0..StackSize-4, stack : [0..StackSize-1 -> Vals]]
  BY <1>1, Here DEF Activations
<1>3. PICK r : r = [Cur EXCEPT !.pc = @ + 1 + by, !.sp = @ - n]
  OBVIOUS
<1>4. r.fn = Cur.fn /\ r.pc + 1 = Cur.pc + 1 + by + 1 /\ r.sp = Cur.sp - n /\ r.stack = Cur.stack
  BY <1>2, <1>3
<1>5. r.pc + 1 \in Goes(Code, Cur.pc + 1)
  BY <1>1, <1>4, GoneTo
<1>6. Sits(r, 0)
  BY <1>1, <1>4, <1>5, FallSettles
<1>7. frames' = Topped(frames, r)
  BY <1>3 DEF Drop, Topped
<1>8. QED
  BY <1>1, <1>6, <1>7, TopSettles

LEMMA StoreLocalSettles ==
  ASSUME VInv, Shaped, StoreLocal, SameProgram
  PROVE  Shaped'
<1>1. Running /\ Ready /\ I.arg \in Nat /\ I.op = "STORE_LOCAL" /\ I.arg < Code.n_locals
  BY Checked DEF StoreLocal, Allowed
<1>2. Cur \in [fn : 1..Len(fns), pc : Int, sp : 0..StackSize-4, stack : [0..StackSize-1 -> Vals]]
  BY <1>1, Here DEF Activations
<1>3. PICK r : r = [Cur EXCEPT !.pc = @ + 1, !.sp = @ - 1, !.stack[I.arg] = Operand(1)]
  OBVIOUS
<1>4. Code.n_locals \in 0..StackSize-5
  BY <1>1, Here DEF Protos
<1>5. PICK t, z \in Int : t = 1 /\ z = 0
  OBVIOUS
<1>6. Taken(I) = t /\ Left(Code, I) = <<>>
  BY <1>1, <1>5, OneNeeded DEF Taken, Left
<1>7. /\ r.fn = Cur.fn /\ r.pc + 1 = Cur.pc + 1 + z + 1 /\ r.sp = Cur.sp - t
      /\ \A q \in 0..StackSize-1 : q >= Code.n_locals => r.stack[q] = Cur.stack[q]
  BY <1>1, <1>2, <1>3, <1>4, <1>5
<1>8. r.pc + 1 \in Goes(Code, Cur.pc + 1)
  BY <1>1, <1>5, <1>7, GoneTo
<1>9. Sits(r, 0)
  BY <1>1, <1>6, <1>7, <1>8, FallSettles
<1>10. frames' = Topped(frames, r)
  BY <1>3 DEF StoreLocal, Topped
<1>11. QED
  BY <1>1, <1>9, <1>10, TopSettles

-----------------------------------------------------------------------------
(* One instruction at a time.                                              *)

(* The instructions that leave nothing behind.                             *)
Silent == {"STORE_LOCAL", "STORE_UPVAL", "STORE_GLOBAL", "POP", "JUMP", "JUMP_IF_NIL",
           "JUMP_IF_NOT_NIL", "RETURN"}

LEMMA LeftIs ==
  /\ I.op \in Silent => Left(Code, I) = <<>>
  /\ I.op \notin Silent => Left(Code, I) # <<>>
<1>1. PICK v : v = Loaded(Code, I)
  OBVIOUS
<1>2. Left(Code, I) = IF I.op \in Silent THEN <<>> ELSE <<v>>
  BY <1>1 DEF Left, Silent
<1>3. <<v>> # <<>>
  OBVIOUS
<1>4. QED
  BY <1>2, <1>3

LEMMA NothingKnown ==
  ASSUME I.op # "LOAD_GLOBAL", NEW v
  PROVE  Means(Loaded(Code, I), v)
BY DEF Loaded, Means

(* An instruction leaves a value of which nothing is known.                *)
LEMMA ValueSettles ==
  ASSUME VInv, Shaped, NEW ops, Executing(ops), SameProgram, NEW n, NEW v, Push(n, v),
         Taken(I) = n, I.op \notin Silent \cup {"LOAD_GLOBAL"}
  PROVE  Shaped'
<1>1. Left(Code, I) # <<>>
  BY LeftIs
<1>2. I.op \notin {"JUMP", "RETURN"} /\ I.op # "LOAD_GLOBAL"
  BY DEF Silent
<1>3. Means(Loaded(Code, I), v)
  BY <1>2, NothingKnown
<1>4. QED
  BY <1>1, <1>2, <1>3, PushSettles

LEMMA NoneNeeded ==
  ASSUME I.op \in {"CONST", "NIL", "T", "FIXNUM", "LOAD_LOCAL", "LOAD_UPVAL", "LOAD_GLOBAL",
                   "CLOSURE", "JUMP"}
  PROVE  Needs(I) = 0
BY DEF Needs, Binary, Unary

LEMMA NothingTaken ==
  ASSUME I.op \in {"CONST", "NIL", "T", "FIXNUM", "LOAD_LOCAL", "LOAD_UPVAL", "LOAD_GLOBAL",
                   "CLOSURE", "JUMP", "DUP"}
  PROVE  Taken(I) = 0
BY NoneNeeded DEF Taken

LEMMA SameWhen ==
  ASSUME UNCHANGED <<program, fns>>, UNCHANGED functions
  PROVE  SameProgram
BY FnsStill DEF SameProgram

LEMMA LoadsSettle ==
  ASSUME VInv, Shaped, Immediate \/ LoadLocal \/ LoadUpval \/ Dup
  PROVE  Shaped'
<1> PICK z : z = 0
  OBVIOUS
<1>1. SameProgram
  BY SameWhen DEF Immediate, LoadLocal, LoadUpval, Dup
<1>2. \E v : Push(z, v)
  BY DEF Immediate, LoadLocal, LoadUpval, Dup
<1>3. PICK ops : Executing(ops) /\ ops \subseteq {"CONST", "NIL", "T", "FIXNUM", "LOAD_LOCAL", "LOAD_UPVAL", "DUP"}
  BY DEF Immediate, LoadLocal, LoadUpval, Dup
<1>4. I.op \in {"CONST", "NIL", "T", "FIXNUM", "LOAD_LOCAL", "LOAD_UPVAL", "DUP"}
  BY <1>3 DEF Executing
<1>5. Taken(I) = z
  BY <1>4, NothingTaken
<1>6. I.op \notin Silent \cup {"LOAD_GLOBAL"}
  BY <1>4 DEF Silent
<1>7. QED
  BY <1>1, <1>2, <1>3, <1>5, <1>6, ValueSettles

(* What is loaded from the cell of a symbol is what the cell holds.        *)
LEMMA LoadGlobalSettles ==
  ASSUME VInv, Shaped, LoadGlobal
  PROVE  Shaped'
<1> PICK z : z = 0
  OBVIOUS
<1>1. SameProgram /\ Executing({"LOAD_GLOBAL"}) /\ I.op = "LOAD_GLOBAL"
  BY SameWhen DEF LoadGlobal, Executing
<1>2. PICK v : v = IF functions[K.s] # Unbound THEN functions[K.s] ELSE globals[K.s]
  OBVIOUS
<1>3. Push(z, v)
  BY <1>2 DEF LoadGlobal
<1>4. Taken(I) = z
  BY <1>1, NothingTaken
<1>5. Left(Code, I) # <<>>
  BY <1>1, LeftIs DEF Silent
<1>6. Means(Loaded(Code, I), v)
  BY <1>1, <1>2 DEF Loaded, Means, K
<1>7. I.op \notin {"JUMP", "RETURN"}
  BY <1>1
<1>8. QED
  BY <1>1, <1>3, <1>4, <1>5, <1>6, <1>7, PushSettles

LEMMA OperatorsSettle ==
  ASSUME VInv, Shaped, BinaryOp \/ UnaryOp \/ MakeCons \/ TakePart \/ MakeList
  PROVE  Shaped'
<1>1. SameProgram
  BY SameWhen DEF BinaryOp, UnaryOp, MakeCons, TakePart, MakeList
<1>2. CASE BinaryOp \/ MakeCons
  <2>1. PICK n : n = 2
    OBVIOUS
  <2>2. PICK v : Push(n, v)
    BY <1>2, <2>1 DEF BinaryOp, MakeCons
  <2>3. PICK ops : Executing(ops) /\ ops \subseteq Binary \cup {"CONS"}
    BY <1>2 DEF BinaryOp, MakeCons
  <2>4. I.op \in Binary \cup {"CONS"}
    BY <2>3 DEF Executing
  <2>5. Taken(I) = n /\ I.op \notin Silent \cup {"LOAD_GLOBAL"}
    BY <2>1, <2>4, TwoNeeded DEF Taken, Silent, Binary
  <2>6. QED
    BY <1>1, <2>2, <2>3, <2>5, ValueSettles
<1>3. CASE UnaryOp \/ TakePart
  <2>1. PICK n : n = 1
    OBVIOUS
  <2>2. PICK v : Push(n, v)
    BY <1>3, <2>1 DEF UnaryOp, TakePart
  <2>3. PICK ops : Executing(ops) /\ ops \subseteq Unary \cup {"CAR", "CDR"}
    BY <1>3 DEF UnaryOp, TakePart
  <2>4. I.op \in Unary \cup {"CAR", "CDR"}
    BY <2>3 DEF Executing
  <2>5. Taken(I) = n /\ I.op \notin Silent \cup {"LOAD_GLOBAL"}
    BY <2>1, <2>4, OneNeeded DEF Taken, Silent, Unary
  <2>6. QED
    BY <1>1, <2>2, <2>3, <2>5, ValueSettles
<1>4. CASE MakeList
  <2>1. Executing({"LIST"}) /\ I.op = "LIST"
    BY <1>4 DEF MakeList, Executing
  <2>2. PICK v : Push(I.arg, v)
    BY <1>4 DEF MakeList
  <2>3. Taken(I) = I.arg /\ I.op \notin Silent \cup {"LOAD_GLOBAL"}
    BY <2>1, ListNeeds DEF Taken, Silent
  <2>4. QED
    BY <1>1, <2>1, <2>2, <2>3, ValueSettles
<1>5. QED
  BY <1>2, <1>3, <1>4

LEMMA ClosureSettles ==
  ASSUME VInv, Shaped, MakeClosure
  PROVE  Shaped'
<1> PICK z : z = 0
  OBVIOUS
<1>1. Executing({"CLOSURE"}) /\ I.op = "CLOSURE"
  BY DEF MakeClosure, Executing
<1>2. fns \in Seq(Closures(Len(protos), Len(fns), Len(heap)))
  BY DEF VInv, TypeOK
<1>3. fns' = Append(fns, NewClosure(K.n)) /\ protos' = protos /\ functions' = functions
  BY DEF MakeClosure, protos
<1>4. SameProgram
  BY <1>2, <1>3 DEF SameCode, SameProgram
<1>5. PICK v : Push(z, v)
  BY DEF MakeClosure
<1>6. Taken(I) = z /\ I.op \notin Silent \cup {"LOAD_GLOBAL"}
  BY <1>1, NothingTaken DEF Silent
<1>7. QED
  BY <1>1, <1>4, <1>5, <1>6, ValueSettles

LEMMA CallsTake ==
  ASSUME I.op \in {"CALL", "TAILCALL"}
  PROVE  Taken(I) = I.arg + 1 /\ I.op \notin Silent \cup {"LOAD_GLOBAL"}
BY CallNeeds DEF Taken, Silent

LEMMA NativeSettles ==
  ASSUME VInv, Shaped, CallNative
  PROVE  Shaped'
<1>1. Executing({"CALL", "TAILCALL"}) /\ I.op \in {"CALL", "TAILCALL"}
  BY DEF CallNative, Executing
<1>2. \E v : Push(I.arg + 1, v)
  BY DEF CallNative
<1>3. SameProgram
  BY SameWhen DEF CallNative
<1>4. QED
  BY <1>1, <1>2, <1>3, CallsTake, ValueSettles

LEMMA DropsSettle ==
  ASSUME VInv, Shaped, StoreGlobal \/ Pop \/ Jump \/ JumpIf
  PROVE  Shaped'
<1> PICK z, u \in Int : z = 0 /\ u = 1
  OBVIOUS
<1>1. SameProgram
  BY SameWhen DEF StoreGlobal, Pop, Jump, JumpIf
<1>2. CASE StoreGlobal \/ Pop
  <2>1. PICK ops : Executing(ops) /\ ops \subseteq {"STORE_GLOBAL", "POP"}
    BY <1>2 DEF StoreGlobal, Pop
  <2>2. I.op \in {"STORE_GLOBAL", "POP"} /\ I.op \notin {"JUMP", "RETURN"}
    BY <2>1 DEF Executing
  <2>3. Drop(u, z)
    BY <1>2 DEF StoreGlobal, Pop
  <2>4. Taken(I) = u /\ Left(Code, I) = <<>>
    BY <2>2, OneNeeded, LeftIs DEF Taken, Silent
  <2>5. QED
    BY <1>1, <2>1, <2>2, <2>3, <2>4, DropSettles
<1>3. CASE Jump
  <2>1. PICK ops, by : Executing(ops) /\ I.op = "JUMP" /\ by = Signed(I.arg)
    BY <1>3 DEF Jump, Executing
  <2>2. by \in Int
    BY <2>1, Checked, SignedInt
  <2>3. Drop(z, by)
    BY <1>3, <2>1 DEF Jump
  <2>4. Taken(I) = z /\ Left(Code, I) = <<>>
    BY <2>1, NothingTaken, LeftIs DEF Silent
  <2>5. QED
    BY <1>1, <2>1, <2>2, <2>3, <2>4, DropSettles
<1>4. CASE JumpIf
  <2>1. Signed(I.arg) \in Int
    BY <1>4, Checked, SignedInt DEF JumpIf
  <2>2. PICK by : by = IF (Operand(1) = NilV) = (I.op = "JUMP_IF_NIL") THEN Signed(I.arg) ELSE 0
    OBVIOUS
  <2>3. by \in Int /\ (by = 0 \/ by = Signed(I.arg)) /\ I.op \in {"JUMP_IF_NIL", "JUMP_IF_NOT_NIL"}
    BY <1>4, <2>1, <2>2 DEF JumpIf, Executing
  <2>4. Drop(u, by) /\ Executing({"JUMP_IF_NIL", "JUMP_IF_NOT_NIL"})
    BY <1>4, <2>2 DEF JumpIf
  <2>5. Taken(I) = u /\ Left(Code, I) = <<>>
    BY <2>3, OneNeeded, LeftIs DEF Taken, Silent
  <2>6. \/ by = 0 /\ I.op \notin {"JUMP", "RETURN"}
        \/ by = Signed(I.arg) /\ I.op \in {"JUMP", "JUMP_IF_NIL", "JUMP_IF_NOT_NIL"}
    BY <2>3
  <2>7. QED
    BY <1>1, <2>3, <2>4, <2>5, <2>6, DropSettles
<1>5. QED
  BY <1>2, <1>3, <1>4

LEMMA StoreUpvalSettles ==
  ASSUME VInv, Shaped, StoreUpval
  PROVE  Shaped'
<1> PICK z, u \in Int : z = 0 /\ u = 1
  OBVIOUS
<1>1. Running /\ I.op = "STORE_UPVAL" /\ Executing({"STORE_UPVAL"}) /\ I.op \notin {"JUMP", "RETURN"}
  BY Checked DEF StoreUpval
<1>2. PICK c, f : c = [Self EXCEPT !.upvals[I.arg + 1] = Operand(1)] /\ f = Cur.fn
  OBVIOUS
<1>3. Self \in Closures(Len(protos), Len(fns), Len(heap)) /\ f \in 1..Len(fns) /\ Self = fns[f]
  BY <1>1, <1>2, Here DEF Self
<1>4. c.proto = fns[f].proto
  BY <1>2, <1>3 DEF Closures
<1>5. SameProgram
  BY <1>2, <1>3, <1>4, OneClosure DEF StoreUpval, SameProgram
<1>6. Drop(u, z)
  BY DEF StoreUpval
<1>7. Taken(I) = u /\ Left(Code, I) = <<>>
  BY <1>1, OneNeeded, LeftIs DEF Taken, Silent
<1>8. QED
  BY <1>1, <1>5, <1>6, <1>7, DropSettles

-----------------------------------------------------------------------------
(* Calls and returns.                                                      *)

(* An activation begins with nothing above its locals.                     *)
LEMMA Begun ==
  ASSUME NEW f, f.fn \in 1..Len(fns), f.pc = 0, f.sp = Runs(f).n_locals,
         Runs(f).n_locals \in Nat
  PROVE  Sits(f, 0)
<1>1. ASSUME Disciplined(Runs(f)) PROVE Fits(f, 0)
  <2>1. PICK j, x, b, z : j = f.pc + 1 /\ x = Shape(Runs(f))[j] /\ b = Runs(f).n_locals /\ z = 0
    OBVIOUS
  <2>2. j = 1 /\ j \in DOMAIN Shape(Runs(f)) /\ x = <<>>
    BY <1>1, <2>1 DEF Disciplined, Annotates
  <2>3. f.sp = b + Len(x) - z /\ 1..Len(x)-z = {} /\ z # 1
    BY <2>1, <2>2
  <2>4. QED
    BY <2>1, <2>2, <2>3 DEF Fits
<1>2. QED
  BY <1>1 DEF Sits

LEMMA CallSelfSettles ==
  ASSUME VInv, Shaped, CallSelf
  PROVE  Shaped'
<1>1. Running /\ Ready
  BY Checked DEF CallSelf, CallingFn
<1>2. Cur \in [fn : 1..Len(fns), pc : Int, sp : 0..StackSize-4, stack : [0..StackSize-1 -> Vals]]
  BY <1>1, Here DEF Activations
<1>3. PICK r : r = [Cur EXCEPT !.pc = 0, !.sp = Code.n_locals, !.stack = MovedDown(Args)]
  OBVIOUS
<1>4. r.fn = Cur.fn /\ r.pc = 0 /\ r.sp = Code.n_locals
  BY <1>2, <1>3
<1>5. PICK c, f : c = Counted(Self) /\ f = Cur.fn
  OBVIOUS
<1>6. f \in 1..Len(fns) /\ c.proto = fns[f].proto
  BY <1>1, <1>5, Here, CountedSame DEF Self
<1>7. SameProgram
  BY <1>5, <1>6, OneClosure DEF CallSelf, SameProgram
<1>8. frames' = Topped(frames, r)
  BY <1>3 DEF CallSelf, Topped
<1>9. Runs(r) = Code /\ Code.n_locals \in Nat
  BY <1>1, <1>4, Here DEF Runs, Code, Self, Protos
<1>10. Sits(r, 0)
  BY <1>1, <1>4, <1>9, Here, Begun
<1>11. QED
  BY <1>1, <1>7, <1>8, <1>10, TopSettles

(* A caller has everything but the value of the call.                      *)
LEMMA CallerWaits ==
  ASSUME VInv, Shaped, CallFunction, NEW r,
         r = [Cur EXCEPT !.pc = @ + 1, !.sp = @ - I.arg - 1]
  PROVE  Sits(r, 1) /\ r.fn = Cur.fn
<1>1. Running /\ Ready /\ I.op \in {"CALL", "TAILCALL"} /\ I.arg \in Nat
  BY Checked DEF CallFunction, CallingFn
<1>2. Cur \in [fn : 1..Len(fns), pc : Int, sp : 0..StackSize-4, stack : [0..StackSize-1 -> Vals]]
  BY <1>1, Here DEF Activations
<1>3. r.fn = Cur.fn /\ r.pc = Cur.pc + 1 /\ r.sp = Cur.sp - I.arg - 1 /\ r.stack = Cur.stack
  BY <1>2
<1>4. PICK t : t = I.arg + 1
  OBVIOUS
<1>5. t \in Nat /\ t = Taken(I) /\ t = Needs(I) /\ I.op \notin Silent /\ I.op # "LOAD_GLOBAL"
  BY <1>1, <1>4, CallsTake, CallNeeds
<1>6. Left(Code, I) # <<>> /\ Loaded(Code, I) = Unknown
  BY <1>5, LeftIs DEF Loaded
<1>7. r.pc + 1 \in Goes(Code, Cur.pc + 1)
  <2>1. PICK k : k = Cur.pc + 1
    OBVIOUS
  <2>2. k \in Int /\ Code.code[k].op \notin {"JUMP", "RETURN"} /\ r.pc + 1 = k + 1
    BY <1>1, <1>2, <1>3, <2>1 DEF I
  <2>3. QED
    BY <2>1, <2>2, GoesOn
<1>8. ASSUME Disciplined(Code), NEW y, y = After(Code, I, Shape(Code)[Cur.pc + 1])
      PROVE  /\ Len(y) \in Nat /\ Len(y) > 0 /\ y[Len(y)] = Unknown
             /\ r.sp = Code.n_locals + Len(y) - 1
             /\ \A q \in 1..Len(y)-1 : Means(y[q], r.stack[Code.n_locals + q - 1])
  <2>1. PICK x : x = Shape(Code)[Cur.pc + 1]
    OBVIOUS
  <2>2. y = After(Code, I, x)
    BY <1>8, <2>1
  <2>3. PICK m, b, sp, l : m = Len(x) - t /\ b = Code.n_locals /\ sp = Cur.sp /\ l = Len(x)
    OBVIOUS
  <2>4. /\ x \in Seq(Names) /\ l \in Nat /\ l >= t /\ sp = b + l
        /\ \A q \in 1..l : Means(x[q], Cur.stack[b + q - 1])
        /\ b \in Nat
    BY <1>1, <1>5, <1>8, <2>1, <2>3, AtHand
  <2>5. m \in Nat /\ m <= l /\ r.sp = b + m
    BY <1>1, <1>3, <1>4, <1>5, <2>3, <2>4
  <2>6. Len(y) = m + 1 /\ (\A q \in 1..m : y[q] = x[q]) /\ y[m + 1] = Unknown
    <3>1. x \in Seq(Names) /\ Needs(I) <= Len(x) /\ t = Taken(I)
      BY <1>5, <2>3, <2>4
    <3>2. /\ Len(y) = Len(x) - t + 1 /\ y[Len(x) - t + 1] = Loaded(Code, I)
          /\ \A q \in 1..Len(x)-t : y[q] = x[q]
      BY <1>1, <1>6, <2>2, <3>1, AfterIs
    <3>3. QED
      BY <1>6, <2>3, <3>2
  <2>7. ASSUME NEW q \in 1..m PROVE Means(y[q], r.stack[b + q - 1])
    BY <1>3, <2>4, <2>5, <2>6
  <2>8. QED
    BY <2>3, <2>4, <2>5, <2>6, <2>7
<1>9. PICK w \in {0, 1} : w = 1
  OBVIOUS
<1>10. Settled(r, w)
  BY <1>3, <1>7, <1>8, <1>9 DEF Settled
<1>11. Sits(r, w)
  BY <1>1, <1>10, SettlesDown
<1>12. QED
  BY <1>3, <1>9, <1>11

(* gs is fs with r for its last element and e on top of it.                *)
IsAdded(gs, fs, n, r, e) ==
  /\ Len(gs) = n + 1 /\ DOMAIN gs = 1..n+1
  /\ \A k \in 1..n+1 : gs[k] = IF k = n + 1 THEN e ELSE IF k = n THEN r ELSE fs[k]

LEMMA AddedOn ==
  ASSUME NEW A, NEW fs \in Seq(A), fs # <<>>, NEW r, NEW e, NEW gs,
         gs = Append(Topped(fs, r), e), NEW n, n = Len(fs)
  PROVE  IsAdded(gs, fs, n, r, e)
<1>1. n \in Nat /\ n > 0 /\ DOMAIN fs = 1..n /\ fs \in [1..n -> A]
  OBVIOUS
<1>2. PICK hs : hs = Topped(fs, r)
  OBVIOUS
<1>3. DOMAIN hs = 1..n /\ \A k \in 1..n : hs[k] = IF k = n THEN r ELSE fs[k]
  BY <1>1, <1>2 DEF Topped
<1>4. PICK B : B = A \cup {r, e}
  OBVIOUS
<1>5. hs \in Seq(B) /\ Len(hs) = n /\ e \in B
  <2>1. hs \in [1..n -> B]
    BY <1>1, <1>2, <1>4 DEF Topped
  <2>2. QED
    BY <1>1, <1>4, <2>1, IsASeq
<1>6. gs = Append(hs, e)
  BY <1>2
<1>7. Len(gs) = n + 1 /\ DOMAIN gs = 1..n+1
  BY <1>5, <1>6
<1>8. \A k \in 1..n+1 : gs[k] = IF k = n + 1 THEN e ELSE hs[k]
  BY <1>1, <1>5, <1>6
<1>9. \A k \in 1..n+1 : k = n + 1 \/ k \in 1..n
  BY <1>1
<1>10. QED
  BY <1>3, <1>7, <1>8, <1>9 DEF IsAdded

LEMMA CallFunctionSettles ==
  ASSUME VInv, Shaped, CallFunction
  PROVE  Shaped'
<1>1. Running /\ Ready /\ I.op \in {"CALL", "TAILCALL"}
  BY Checked DEF CallFunction, CallingFn
<1>2. PICK t : t = Target.n
  OBVIOUS
<1>3. t \in 1..Len(fns) /\ fns[t] \in Closures(Len(protos), Len(fns), Len(heap))
  <2>1. Target \in Vals
    BY TargetOK DEF CallFunction, CallingFn
  <2>2. t \in 1..Len(fns)
    BY <1>1, <1>2, <2>1, Here, ValueIs DEF Vals, CallFunction, CallingFn
  <2>3. QED
    BY <2>2 DEF VInv, TypeOK
<1>4. PICK r : r = [Cur EXCEPT !.pc = @ + 1, !.sp = @ - I.arg - 1]
  OBVIOUS
<1>5. PICK e : e = Entered(t, protos[fns[t].proto], Args)
  OBVIOUS
<1>6. e.fn = t /\ e.pc = 0 /\ e.sp = protos[fns[t].proto].n_locals
  BY <1>5 DEF Entered
<1>7. Runs(e) = protos[fns[t].proto] /\ Runs(e).n_locals \in Nat
  <2>1. fns[t].proto \in 1..Len(protos)
    BY <1>3 DEF Closures
  <2>2. protos[fns[t].proto] \in Protos(Len(protos))
    BY <2>1 DEF VInv, TypeOK
  <2>3. QED
    BY <1>6, <2>2 DEF Runs, Protos
<1>8. Sits(e, 0)
  BY <1>3, <1>6, <1>7, Begun
<1>9. Sits(r, 1)
  BY <1>4, CallerWaits
<1>10. SameProgram
  <2>1. PICK c : c = Counted(fns[t])
    OBVIOUS
  <2>2. c.proto = fns[t].proto
    BY <1>3, <2>1, CountedSame
  <2>3. fns' = [fns EXCEPT ![t] = c] /\ UNCHANGED program /\ functions' = functions
    BY <1>2, <2>1 DEF CallFunction
  <2>4. QED
    BY <1>3, <2>2, <2>3, OneClosure DEF SameProgram
<1>11. frames' = Append(Topped(frames, r), e)
  BY <1>2, <1>4, <1>5 DEF CallFunction, Topped
<1>12. PICK n, gs : n = Len(frames) /\ gs = frames'
  OBVIOUS
<1>13. n \in Nat /\ n # 0 /\ DOMAIN frames = 1..n /\ frames \in Seq(Activations(Len(fns), Vals))
  BY <1>1, <1>12, Here
<1>14. /\ Len(gs) = n + 1 /\ DOMAIN gs = 1..n+1
       /\ \A k \in 1..n+1 : gs[k] = IF k = n + 1 THEN e ELSE IF k = n THEN r ELSE frames[k]
  <2>1. gs = Append(Topped(frames, r), e) /\ frames # <<>> /\ n = Len(frames)
    BY <1>1, <1>11, <1>12, Here
  <2>2. PICK A, fs : A = Activations(Len(fns), Vals) /\ fs = frames
    OBVIOUS
  <2>3. fs \in Seq(A) /\ fs # <<>> /\ gs = Append(Topped(fs, r), e) /\ n = Len(fs)
    BY <1>13, <2>1, <2>2
  <2>4. IsAdded(gs, fs, n, r, e)
    BY <2>3, AddedOn
  <2>5. QED
    BY <2>2, <2>4 DEF IsAdded
<1>15. \A k \in 1..n : Sits(frames[k], Waits(k, n))
  BY <1>12, <1>13, SitsNow
<1>16. ASSUME NEW k \in 1..n+1 PROVE Sits(gs[k], Waits(k, n + 1))
  <2>1. CASE k = n + 1
    BY <1>8, <1>13, <1>14, <2>1 DEF Waits
  <2>2. CASE k = n
    BY <1>9, <1>13, <1>14, <2>2 DEF Waits
  <2>3. CASE k < n
    <3>1. k \in 1..n /\ Waits(k, n + 1) = Waits(k, n) /\ gs[k] = frames[k]
      BY <1>13, <1>14, <2>3 DEF Waits
    <3>2. QED
      BY <1>15, <3>1
  <2>4. QED
    BY <1>13, <2>1, <2>2, <2>3
<1>17. QED
  BY <1>10, <1>12, <1>14, <1>16, EachSits

LEMMA ReturnSettles ==
  ASSUME VInv, Shaped, Return
  PROVE  Shaped'
<1>1. Running /\ SameProgram
  BY SameWhen DEF Return, Executing
<1>2. /\ frames \in Seq(Activations(Len(fns), Vals)) /\ frames # <<>>
      /\ Len(frames) \in Nat /\ DOMAIN frames = 1..Len(frames)
  BY <1>1, Here
<1>3. CASE Len(frames) - 1 = 0
  <2>1. frames' = <<>>
    BY <1>3 DEF Return
  <2>2. QED
    BY <1>1, <2>1, EachSits
<1>4. CASE Len(frames) - 1 # 0
  <2>1. PICK d, v : d = Len(frames) - 1 /\ v = Returned
    OBVIOUS
  <2>2. PICK r, c : c = frames[d] /\ r = GivenTo(c, v)
    OBVIOUS
  <2>3. frames' = Unwound(frames, d, r)
    BY <1>4, <2>1, <2>2 DEF Return, Unwound, GivenTo
  <2>4. d \in DOMAIN frames /\ d \in Nat \ {0} /\ d < Len(frames)
    BY <1>2, <1>4, <2>1
  <2>5. Sits(c, 1)
    BY <2>2, <2>4, SitsNow DEF Waits
  <2>6. Sits(r, 0)
    <3>1. c \in [fn : 1..Len(fns), pc : Int, sp : 0..StackSize-4, stack : [0..StackSize-1 -> Vals]]
      <4>1. c \in Activations(Len(fns), Vals)
        BY <1>2, <2>2, <2>4
      <4>2. QED
        BY <4>1 DEF Activations
    <3>2. PICK at : at = c.sp
      OBVIOUS
    <3>3. at \in Nat /\ at \in 0..StackSize-1
      BY <3>1, <3>2, StackAssumption
    <3>4. /\ r.fn = c.fn /\ r.pc = c.pc /\ r.sp = at + 1
          /\ \A q \in 0..StackSize-1 : r.stack[q] = IF q = at THEN v ELSE c.stack[q]
      BY <2>2, <3>1, <3>2, <3>3 DEF GivenTo
    <3>5. Runs(r) = Runs(c)
      BY <3>4 DEF Runs
    <3>6. ASSUME Disciplined(Runs(c)) PROVE Fits(r, 0)
      <4>1. PICK x, b, z : x = Shape(Runs(c))[c.pc + 1] /\ b = Runs(c).n_locals /\ z = 0
        OBVIOUS
      <4>2. /\ c.pc + 1 \in DOMAIN Shape(Runs(c)) /\ at = b + Len(x) - 1
            /\ \A j \in 1..Len(x)-1 : Means(x[j], c.stack[b + j - 1])
            /\ x # <<>> /\ x[Len(x)] = Unknown
        BY <2>5, <3>2, <3>6, <4>1 DEF Sits, Fits
      <4>3. x \in Seq(Names)
        BY <3>6, <4>1, <4>2 DEF Disciplined, Annotates
      <4>4. b \in Nat
        <5>1. c.fn \in 1..Len(fns) /\ fns[c.fn] \in Closures(Len(protos), Len(fns), Len(heap))
          BY <3>1 DEF VInv, TypeOK
        <5>2. fns[c.fn].proto \in 1..Len(protos)
          BY <5>1 DEF Closures
        <5>3. Runs(c) \in Protos(Len(protos))
          BY <5>2 DEF VInv, TypeOK, Runs
        <5>4. QED
          BY <4>1, <5>3 DEF Protos
      <4>5. PICK l : l = Len(x)
        OBVIOUS
      <4>6. l \in Nat /\ l > 0 /\ at = b + l - 1
        BY <4>2, <4>3, <4>5
      <4>7. ASSUME NEW j \in 1..l PROVE Means(x[j], r.stack[b + j - 1])
        <5>1. CASE j = l
          BY <4>2, <4>5, <5>1 DEF Means
        <5>2. CASE j # l
          <6>1. j \in 1..Len(x)-1 /\ b + j - 1 \in 0..StackSize-1 /\ b + j - 1 # at
            BY <3>3, <4>4, <4>5, <4>6, <5>2, StackAssumption
          <6>2. QED
            BY <3>4, <4>2, <6>1
        <5>3. QED
          BY <5>1, <5>2
      <4>8. r.sp = b + Len(x) - z /\ z # 1 /\ \A j \in 1..Len(x)-z : Means(x[j], r.stack[b + j - 1])
        BY <3>4, <4>1, <4>4, <4>5, <4>6, <4>7
      <4>9. QED
        BY <3>4, <3>5, <4>1, <4>2, <4>8 DEF Fits
    <3>7. QED
      BY <3>1, <3>4, <3>5, <3>6 DEF Sits
  <2>7. PICK gs : gs = frames'
    OBVIOUS
  <2>8. /\ DOMAIN gs = 1..d /\ Len(gs) = d
        /\ \A k \in 1..d : gs[k] = IF k < d THEN frames[k] ELSE r
    BY <2>3, <2>4, <2>7 DEF Unwound
  <2>9. ASSUME NEW k \in 1..d PROVE Sits(gs[k], Waits(k, d))
    <3>1. CASE k = d
      BY <2>4, <2>6, <2>8, <3>1 DEF Waits
    <3>2. CASE k < d
      <4>1. k \in DOMAIN frames /\ Waits(k, d) = Waits(k, Len(frames)) /\ gs[k] = frames[k]
        BY <1>2, <2>1, <2>4, <2>8, <3>2 DEF Waits
      <4>2. QED
        BY <4>1, SitsNow
    <3>3. QED
      BY <2>4, <3>1, <3>2
  <2>10. QED
    BY <1>1, <2>7, <2>8, <2>9, EachSits
<1>5. QED
  BY <1>3, <1>4

LEMMA StaysShaped == VInv /\ Shaped /\ [Next]_vars => Shaped'
<1>1. SUFFICES ASSUME VInv, Shaped, [Next]_vars PROVE Shaped'
  OBVIOUS
<1>2. CASE Immediate \/ LoadLocal \/ LoadUpval \/ Dup \/ LoadGlobal
  BY <1>1, <1>2, LoadsSettle, LoadGlobalSettles
<1>3. CASE BinaryOp \/ UnaryOp \/ MakeCons \/ TakePart \/ MakeList
  BY <1>1, <1>3, OperatorsSettle
<1>4. CASE StoreLocal
  <2>1. SameProgram
    BY <1>4, SameWhen DEF StoreLocal
  <2>2. QED
    BY <1>1, <1>4, <2>1, StoreLocalSettles
<1>5. CASE StoreUpval \/ StoreGlobal \/ Pop \/ Jump \/ JumpIf
  BY <1>1, <1>5, StoreUpvalSettles, DropsSettle
<1>6. CASE MakeClosure \/ CallNative \/ CallSelf \/ CallFunction
  BY <1>1, <1>6, ClosureSettles, NativeSettles, CallSelfSettles, CallFunctionSettles
<1>7. CASE Return
  BY <1>1, <1>7, ReturnSettles
<1>8. CASE CallUndefined \/ Fault
  <2>1. frames' = <<>> /\ SameProgram
    BY <1>8, SameWhen DEF CallUndefined, Fault
  <2>2. QED
    BY <1>1, <2>1, EachSits
<1>9. CASE UNCHANGED vars
  <2>1. frames' = frames /\ SameProgram
    BY <1>9, SameWhen DEF vars
  <2>2. QED
    BY <1>1, <2>1, SitsNow, EachSits
<1>10. QED
  BY <1>1, <1>2, <1>3, <1>4, <1>5, <1>6, <1>7, <1>8, <1>9 DEF Next

LEMMA BeginsShaped == Init => Shaped
<1>1. SUFFICES ASSUME Init PROVE Shaped
  OBVIOUS
<1>2. VInv /\ Running
  BY <1>1, Initially DEF Init, Running
<1>3. frames = <<Cur>> /\ Cur.pc = 0 /\ Cur.sp = protos[fns[program.main].proto].n_locals
      /\ Cur.fn = program.main
  BY <1>1 DEF Init, Cur, Entered
<1>4. Runs(Cur) = Code /\ Runs(Cur).n_locals \in Nat /\ Cur.sp = Runs(Cur).n_locals
  BY <1>2, <1>3, Here DEF Runs, Code, Self, Protos
<1>5. Sits(Cur, 0)
  BY <1>2, <1>3, <1>4, Here, Begun
<1>6. DOMAIN frames = {1} /\ Len(frames) = 1 /\ frames[1] = Cur
  BY <1>3
<1>7. QED
  BY <1>5, <1>6 DEF Shaped, Sits

(* Every activation of a disciplined function has the operands its code    *)
(* says, the values loaded by name among them, at every instruction it     *)
(* reaches (the loop of ls_vm_run, lsvm.c:1006).                           *)
THEOREM AlwaysShaped == Spec => []Shaped
<1>1. QED
  BY BeginsShaped, StaysShaped, Invariance, PTL DEF Spec

(* The operands are above the locals, and one of them is returned.         *)
LEMMA ShapedBalanced == VInv /\ Shaped => Balanced
<1>1. SUFFICES ASSUME VInv, Shaped, NEW k \in DOMAIN frames, Disciplined(Runs(frames[k]))
               PROVE  /\ frames[k].sp >= Runs(frames[k]).n_locals
                      /\ k = Len(frames) /\ I.op = "RETURN" => Cur.sp = Code.n_locals + 1
  BY DEF Balanced
<1>2. PICK f, w, p, x : /\ f = frames[k] /\ w = Waits(k, Len(frames)) /\ p = Runs(f)
                        /\ x = Shape(p)[f.pc + 1]
  OBVIOUS
<1>3. f.fn \in 1..Len(fns) /\ Fits(f, w)
  BY <1>1, <1>2, SitsNow DEF Sits
<1>4. /\ f.sp = p.n_locals + Len(x) - w /\ f.pc + 1 \in DOMAIN Shape(p)
      /\ w = 1 => x # <<>>
  BY <1>2, <1>3 DEF Fits
<1>5. x \in Seq(Names) /\ (p.code[f.pc + 1].op = "RETURN" => Len(x) = 1)
  BY <1>1, <1>2, <1>4 DEF Disciplined, Annotates
<1>6. p.n_locals \in Nat
  <2>1. fns[f.fn] \in Closures(Len(protos), Len(fns), Len(heap))
    BY <1>1, <1>3 DEF VInv, TypeOK
  <2>2. fns[f.fn].proto \in 1..Len(protos)
    BY <2>1 DEF Closures
  <2>3. p \in Protos(Len(protos))
    BY <1>1, <1>2, <2>2 DEF VInv, TypeOK, Runs
  <2>4. QED
    BY <2>3 DEF Protos
<1>7. w \in {0, 1}
  BY <1>2 DEF Waits
<1>8. f.sp >= p.n_locals
  <2>1. PICK l, b : l = Len(x) /\ b = p.n_locals
    OBVIOUS
  <2>2. l \in Nat /\ (w = 1 => l > 0) /\ b \in Nat /\ f.sp = b + l - w
    BY <1>4, <1>5, <1>6, <2>1
  <2>3. f.sp >= b
    BY <1>7, <2>2
  <2>4. QED
    BY <2>1, <2>3
<1>9. ASSUME k = Len(frames), I.op = "RETURN" PROVE Cur.sp = Code.n_locals + 1
  <2>1. f = Cur /\ p = Code /\ w = 0
    BY <1>1, <1>2, <1>9 DEF Cur, Runs, Code, Self, Waits
  <2>2. I = p.code[f.pc + 1]
    BY <2>1 DEF I
  <2>3. Len(x) = 1
    BY <1>5, <1>9, <2>2
  <2>4. f.sp = p.n_locals + 1
    BY <1>4, <1>6, <2>1, <2>3
  <2>5. QED
    BY <2>1, <2>4
<1>10. QED
  BY <1>2, <1>8, <1>9

(* The operands of a disciplined function stay above its locals, and it    *)
(* returns with just its value (lsvm.c:1140-1188).                         *)
THEOREM OperandsBalanced == Spec => []Balanced
<1>1. QED
  BY AlwaysShaped, Invariance, ShapedBalanced, PTL

-----------------------------------------------------------------------------
(* Who calls whom.                                                         *)

(* The first word of a call is the callee its code names.                  *)
LEMMA CalleeLoaded ==
  ASSUME VInv, Shaped, CallingFn, Disciplined(Code), Flat(Code)
  PROVE  /\ Words[1] \in Vals /\ Len(Words) \in Nat /\ Len(Words) > 0
         /\ Words[1] # Native("FUNCALL")
         /\ I.op = "CALL" => Words[1].tag = "native"
<1>1. /\ Running /\ Ready /\ I.op \in {"CALL", "TAILCALL"} /\ I.arg \in Nat
      /\ Words \in Seq(Vals) /\ Len(Words) = I.arg + 1
  BY Checked, WordsOK DEF CallingFn
<1>2. PICK a, k : a = I.arg /\ k = Cur.pc + 1
  OBVIOUS
<1>3. PICK x : x = Shape(Code)[Cur.pc + 1]
  OBVIOUS
<1>4. /\ x \in Seq(Names) /\ Len(x) \in Nat /\ Len(x) >= Needs(I)
      /\ Cur.sp = Code.n_locals + Len(x)
      /\ \A q \in 1..Len(x) : Means(x[q], Cur.stack[Code.n_locals + q - 1])
      /\ Code.n_locals \in Nat /\ Cur.pc + 1 \in DOMAIN Shape(Code)
  BY <1>1, <1>3, AtHand
<1>5. PICK s : s = Callee(Code, k)
  OBVIOUS
<1>6. /\ s \in Symbols \ {Unknown} /\ functions[s] \notin {Unbound, Native("FUNCALL")}
      /\ I.op = "CALL" => functions[s].tag = "native"
  <2>1. k \in DOMAIN Shape(Code) /\ I = Code.code[k]
    BY <1>2, <1>4 DEF I
  <2>2. QED
    BY <1>1, <1>5, <2>1 DEF Flat
<1>7. s = x[Len(x) - a]
  <2>1. I = Code.code[k] /\ x = Shape(Code)[k]
    BY <1>2, <1>3 DEF I
  <2>2. QED
    BY <1>2, <1>5, <2>1 DEF Callee
<1>8. PICK l, b, q : l = Len(x) /\ b = Code.n_locals /\ q = Len(x) - a
  OBVIOUS
<1>9. q \in 1..l /\ b + q - 1 = Cur.sp - (a + 1) + 1 - 1
  <2>1. Needs(I) = a + 1
    BY <1>1, <1>2, CallNeeds
  <2>2. a \in Nat /\ l \in Nat /\ l >= a + 1 /\ q = l - a /\ b \in Nat
    BY <1>1, <1>2, <1>4, <1>8, <2>1
  <2>3. Cur.sp = b + l
    BY <1>4, <1>8
  <2>4. QED
    BY <2>2, <2>3
<1>10. Words[1] = Cur.stack[b + q - 1]
  <2>1. 1 \in 1..a+1
    BY <1>1, <1>2
  <2>2. QED
    BY <1>2, <1>9, <2>1 DEF Words, Operands
<1>11. Means(s, Words[1])
  BY <1>4, <1>7, <1>8, <1>9, <1>10
<1>12. Words[1] = functions[s]
  BY <1>6, <1>11 DEF Means
<1>13. Words[1] \in Vals /\ Len(Words) > 0 /\ Len(Words) \in Nat
  BY <1>1
<1>14. QED
  BY <1>6, <1>12, <1>13

(* A call of it does not go through ls_apply.                              *)
LEMMA CalledDirectly ==
  ASSUME Len(Words) \in Nat, Len(Words) > 0, Words[1] # Native("FUNCALL")
  PROVE  ~Applied /\ Target = Words[1]
<1>1. PICK u, z : u = 1 /\ z = 0
  OBVIOUS
<1>2. ~IsFuncall(u)
  BY <1>1 DEF IsFuncall
<1>3. z \in 0..Len(Words) /\ (\A i \in 1..z : IsFuncall(i)) /\ (z < Len(Words) => ~IsFuncall(z + 1))
  <2>1. z + 1 = u /\ 1..z = {}
    BY <1>1
  <2>2. QED
    BY <1>1, <1>2, <2>1
<1>4. \A j \in 0..Len(Words) : (\A i \in 1..j : IsFuncall(i)) => j = z
  <2>1. ASSUME NEW j \in 0..Len(Words), \A i \in 1..j : IsFuncall(i) PROVE j = z
    <3>1. j # z => u \in 1..j
      BY <1>1
    <3>2. QED
      BY <1>2, <2>1, <3>1
  <2>2. QED
    BY <2>1
<1>5. Skipped = z
  BY <1>3, <1>4 DEF Skipped
<1>6. ~Applied
  BY <1>1, <1>5 DEF Applied
<1>7. z # Len(Words) /\ z + 1 = 1
  BY <1>1
<1>8. QED
  BY <1>5, <1>6, <1>7 DEF Target

(* So flat code calls none but other functions.                            *)
LEMMA CallsAnother ==
  ASSUME VInv, Shaped, CallFunction, Disciplined(Code), Flat(Code)
  PROVE  Target.n # Cur.fn
<1>1. Executing({"CALL", "TAILCALL"}) /\ Running /\ I.op \in {"CALL", "TAILCALL"}
      /\ Target.tag = "function" /\ ~OwnTailCall
  BY Checked DEF CallFunction, CallingFn
<1>2. ~Applied /\ Target = Words[1] /\ (I.op = "CALL" => Words[1].tag = "native")
  BY CalleeLoaded, CalledDirectly DEF CallFunction
<1>3. I.op = "TAILCALL"
  BY <1>1, <1>2
<1>4. Target # Fn(Cur.fn)
  BY <1>1, <1>2, <1>3 DEF OwnTailCall
<1>5. Target = Fn(Target.n)
  <2>1. Target \in Vals
    BY <1>1, TargetOK
  <2>2. QED
    BY <1>1, <2>1, Here, ValueIs DEF Vals
<1>6. QED
  BY <1>4, <1>5

(* f may wait for g.                                                       *)
MayCall(f, g) ==
  f.fn \in 1..Len(fns) /\ (f.fn = g.fn => ~(Disciplined(Runs(f)) /\ Flat(Runs(f))))

LEMMA EachCalls ==
  ASSUME SameProgram, \A k \in 1..Len(frames')-1 : MayCall(frames'[k], frames'[k + 1])
  PROVE  LoopsFlat'
<1>1. PICK gs : gs = frames'
  OBVIOUS
<1>2. ASSUME NEW k \in 1..Len(gs)-1
      PROVE  gs[k].fn = gs[k + 1].fn => ~(Disciplined(Runs(gs[k])) /\ Flat(Runs(gs[k])))'
  <2>1. PICK f : f = gs[k]
    OBVIOUS
  <2>2. MayCall(f, gs[k + 1])
    BY <1>1, <1>2, <2>1
  <2>3. Runs(f)' = Runs(f)
    BY <2>2 DEF MayCall, Runs, SameProgram, SameCode
  <2>4. \A p : Flat(p)' <=> Flat(p)
    BY DEF Flat, SameProgram
  <2>5. (Disciplined(Runs(f)) /\ Flat(Runs(f)))' <=> Disciplined(Runs(f)) /\ Flat(Runs(f))
    BY <2>3, <2>4
  <2>6. QED
    BY <2>1, <2>2, <2>5 DEF MayCall
<1>3. QED
  BY <1>1, <1>2 DEF LoopsFlat

LEMMA CallsNow ==
  ASSUME VInv, LoopsFlat, NEW k \in 1..Len(frames)-1
  PROVE  MayCall(frames[k], frames[k + 1])
<1>1. frames \in Seq(Activations(Len(fns), Vals))
  BY DEF VInv, TypeOK, Vals
<1>2. k \in DOMAIN frames
  BY <1>1
<1>3. frames[k] \in Activations(Len(fns), Vals)
  BY <1>1, <1>2
<1>4. QED
  BY <1>3 DEF LoopsFlat, MayCall, Activations

(* While no activation begins or ends, those there are go on being of the  *)
(* functions they were of.                                                 *)
LEMMA TopStays ==
  ASSUME VInv, LoopsFlat, Running, SameProgram, NEW r, r.fn = Cur.fn, frames' = Topped(frames, r)
  PROVE  LoopsFlat'
<1>1. PICK n : n = Len(frames)
  OBVIOUS
<1>2. n \in Nat /\ n # 0 /\ DOMAIN frames = 1..n /\ Cur = frames[n]
  BY <1>1, Here DEF Cur
<1>3. /\ Len(frames') = n
      /\ \A k \in 1..n : frames'[k] = IF k = n THEN r ELSE frames[k]
  BY <1>1, <1>2, Here DEF Topped
<1>4. ASSUME NEW k \in 1..n-1 PROVE MayCall(frames'[k], frames'[k + 1])
  <2>1. k \in 1..n /\ k # n /\ k + 1 \in 1..n /\ k \in 1..Len(frames)-1
    BY <1>1, <1>2
  <2>2. frames'[k] = frames[k] /\ frames'[k + 1].fn = frames[k + 1].fn
    <3>1. k + 1 = n => frames'[k + 1] = r /\ frames[k + 1] = Cur
      BY <1>2, <1>3, <2>1
    <3>2. k + 1 # n => frames'[k + 1] = frames[k + 1]
      BY <1>3, <2>1
    <3>3. QED
      BY <1>3, <2>1, <3>1, <3>2
  <2>3. MayCall(frames[k], frames[k + 1])
    BY <2>1, CallsNow
  <2>4. QED
    BY <2>2, <2>3 DEF MayCall
<1>5. QED
  BY <1>3, <1>4, EachCalls

LEMMA PushStays ==
  ASSUME VInv, LoopsFlat, Running, SameProgram, NEW n, NEW v, Push(n, v)
  PROVE  LoopsFlat'
<1>1. Cur \in [fn : 1..Len(fns), pc : Int, sp : 0..StackSize-4, stack : [0..StackSize-1 -> Vals]]
  BY Here DEF Activations
<1>2. PICK r : r = [Cur EXCEPT !.pc = @ + 1, !.sp = @ - n + 1, !.stack[Cur.sp - n] = v]
  OBVIOUS
<1>3. r.fn = Cur.fn
  BY <1>1, <1>2
<1>4. frames' = Topped(frames, r)
  BY <1>2 DEF Push, Topped
<1>5. QED
  BY <1>3, <1>4, TopStays

LEMMA DropStays ==
  ASSUME VInv, LoopsFlat, Running, SameProgram, NEW n, NEW by, Drop(n, by)
  PROVE  LoopsFlat'
<1>1. Cur \in [fn : 1..Len(fns), pc : Int, sp : 0..StackSize-4, stack : [0..StackSize-1 -> Vals]]
  BY Here DEF Activations
<1>2. PICK r : r = [Cur EXCEPT !.pc = @ + 1 + by, !.sp = @ - n]
  OBVIOUS
<1>3. r.fn = Cur.fn
  BY <1>1, <1>2
<1>4. frames' = Topped(frames, r)
  BY <1>2 DEF Drop, Topped
<1>5. QED
  BY <1>3, <1>4, TopStays

LEMMA StraightStays ==
  ASSUME VInv, LoopsFlat,
         Immediate \/ LoadLocal \/ LoadUpval \/ LoadGlobal \/ Dup \/ BinaryOp \/ UnaryOp
           \/ MakeCons \/ TakePart \/ MakeList \/ CallNative
  PROVE  LoopsFlat'
<1>1. Running /\ SameProgram
  BY SameWhen DEF Immediate, LoadLocal, LoadUpval, LoadGlobal, Dup, BinaryOp, UnaryOp, MakeCons,
                  TakePart, MakeList, CallNative, Executing
<1>2. \E n, v : Push(n, v)
  <2>1. CASE Immediate \/ LoadLocal \/ LoadUpval \/ LoadGlobal \/ Dup
    BY <2>1 DEF Immediate, LoadLocal, LoadUpval, LoadGlobal, Dup
  <2>2. CASE BinaryOp \/ UnaryOp \/ MakeCons \/ TakePart \/ MakeList
    BY <2>2 DEF BinaryOp, UnaryOp, MakeCons, TakePart, MakeList
  <2>3. CASE CallNative
    BY <2>3 DEF CallNative
  <2>4. QED
    BY <2>1, <2>2, <2>3
<1>3. QED
  BY <1>1, <1>2, PushStays

LEMMA DropsStay ==
  ASSUME VInv, LoopsFlat, StoreGlobal \/ Pop \/ Jump \/ JumpIf
  PROVE  LoopsFlat'
<1>1. Running /\ SameProgram
  BY SameWhen DEF StoreGlobal, Pop, Jump, JumpIf, Executing
<1>2. \E n, by : Drop(n, by)
  BY DEF StoreGlobal, Pop, Jump, JumpIf
<1>3. QED
  BY <1>1, <1>2, DropStays

(* The closure an activation runs, counted or given another value.         *)
LEMMA SelfSame ==
  ASSUME VInv, Running, NEW c, c.proto = Self.proto, fns' = [fns EXCEPT ![Cur.fn] = c],
         UNCHANGED <<program, functions>>
  PROVE  SameProgram
<1>1. PICK f : f = Cur.fn
  OBVIOUS
<1>2. f \in 1..Len(fns) /\ c.proto = fns[f].proto /\ fns' = [fns EXCEPT ![f] = c]
  BY <1>1, Here DEF Self
<1>3. QED
  BY <1>2, OneClosure DEF SameProgram

LEMMA SelfStays ==
  ASSUME VInv, LoopsFlat, StoreLocal \/ StoreUpval \/ CallSelf
  PROVE  LoopsFlat'
<1>1. Running
  BY DEF StoreLocal, StoreUpval, CallSelf, CallingFn, Executing
<1>2. /\ Cur \in [fn : 1..Len(fns), pc : Int, sp : 0..StackSize-4, stack : [0..StackSize-1 -> Vals]]
      /\ Self \in Closures(Len(protos), Len(fns), Len(heap))
  BY <1>1, Here DEF Activations
<1>3. CASE StoreLocal
  <2>1. SameProgram
    BY <1>3, SameWhen DEF StoreLocal
  <2>2. PICK r : r = [Cur EXCEPT !.pc = @ + 1, !.sp = @ - 1, !.stack[I.arg] = Operand(1)]
    OBVIOUS
  <2>3. r.fn = Cur.fn /\ frames' = Topped(frames, r)
    BY <1>2, <1>3, <2>2 DEF StoreLocal, Topped
  <2>4. QED
    BY <1>1, <2>1, <2>3, TopStays
<1>4. CASE StoreUpval
  <2>1. PICK c : c = [Self EXCEPT !.upvals[I.arg + 1] = Operand(1)]
    OBVIOUS
  <2>2. c.proto = Self.proto
    BY <1>2, <2>1 DEF Closures
  <2>3. SameProgram
    BY <1>1, <1>4, <2>1, <2>2, SelfSame DEF StoreUpval
  <2>4. \E n, by : Drop(n, by)
    BY <1>4 DEF StoreUpval
  <2>5. QED
    BY <1>1, <2>3, <2>4, DropStays
<1>5. CASE CallSelf
  <2>1. PICK c : c = Counted(Self)
    OBVIOUS
  <2>2. c.proto = Self.proto
    BY <1>2, <2>1, CountedSame
  <2>3. SameProgram
    BY <1>1, <1>5, <2>1, <2>2, SelfSame DEF CallSelf
  <2>4. PICK r : r = [Cur EXCEPT !.pc = 0, !.sp = Code.n_locals, !.stack = MovedDown(Args)]
    OBVIOUS
  <2>5. r.fn = Cur.fn /\ frames' = Topped(frames, r)
    BY <1>2, <1>5, <2>4 DEF CallSelf, Topped
  <2>6. QED
    BY <1>1, <2>3, <2>5, TopStays
<1>6. QED
  BY <1>3, <1>4, <1>5

LEMMA ClosureStays ==
  ASSUME VInv, LoopsFlat, MakeClosure
  PROVE  LoopsFlat'
<1>1. Running /\ fns \in Seq(Closures(Len(protos), Len(fns), Len(heap)))
  BY DEF VInv, TypeOK, MakeClosure, Executing
<1>2. fns' = Append(fns, NewClosure(K.n)) /\ protos' = protos /\ functions' = functions
  BY DEF MakeClosure, protos
<1>3. SameProgram
  BY <1>1, <1>2 DEF SameCode, SameProgram
<1>4. \E n, v : Push(n, v)
  BY DEF MakeClosure
<1>5. QED
  BY <1>1, <1>3, <1>4, PushStays

LEMMA CallStays ==
  ASSUME VInv, Shaped, LoopsFlat, CallFunction
  PROVE  LoopsFlat'
<1>1. Running
  BY Checked DEF CallFunction, CallingFn
<1>2. PICK t : t = Target.n
  OBVIOUS
<1>3. t \in 1..Len(fns) /\ fns[t] \in Closures(Len(protos), Len(fns), Len(heap))
  <2>1. Target \in Vals /\ Target.tag = "function"
    BY TargetOK DEF CallFunction, CallingFn
  <2>2. t \in 1..Len(fns)
    BY <1>1, <1>2, <2>1, Here, ValueIs DEF Vals
  <2>3. QED
    BY <2>2 DEF VInv, TypeOK
<1>4. PICK r : r = [Cur EXCEPT !.pc = @ + 1, !.sp = @ - I.arg - 1]
  OBVIOUS
<1>5. PICK e : e = Entered(t, protos[fns[t].proto], Args)
  OBVIOUS
<1>6. e.fn = t /\ r.fn = Cur.fn /\ Cur.fn \in 1..Len(fns)
  BY <1>1, <1>4, <1>5, Here DEF Entered, Activations
<1>7. SameProgram
  <2>1. PICK c : c = Counted(fns[t])
    OBVIOUS
  <2>2. c.proto = fns[t].proto
    BY <1>3, <2>1, CountedSame
  <2>3. fns' = [fns EXCEPT ![t] = c] /\ UNCHANGED program /\ functions' = functions
    BY <1>2, <2>1 DEF CallFunction
  <2>4. QED
    BY <1>3, <2>2, <2>3, OneClosure DEF SameProgram
<1>8. PICK n, gs, fs, A : /\ n = Len(frames) /\ gs = frames' /\ fs = frames
                          /\ A = Activations(Len(fns), Vals)
  OBVIOUS
<1>9. n \in Nat /\ n # 0
  BY <1>1, <1>8, Here
<1>10. fs \in Seq(A) /\ fs # <<>> /\ Cur = fs[n] /\ n = Len(fs)
  BY <1>1, <1>8, Here DEF Cur
<1>11. gs = Append(Topped(fs, r), e)
  BY <1>2, <1>4, <1>5, <1>8 DEF CallFunction, Topped
<1>12. IsAdded(gs, fs, n, r, e)
  BY <1>10, <1>11, AddedOn
<1>13. /\ Len(gs) = n + 1
       /\ \A k \in 1..n+1 : gs[k] = IF k = n + 1 THEN e ELSE IF k = n THEN r ELSE fs[k]
  BY <1>12 DEF IsAdded
<1>14. ASSUME NEW k \in 1..n PROVE MayCall(gs[k], gs[k + 1])
  <2>1. CASE k = n
    <3>1. gs[k] = r /\ gs[k + 1] = e
      <4>1. k \in 1..n+1 /\ k # n + 1 /\ k + 1 \in 1..n+1 /\ k + 1 = n + 1
        BY <1>9, <2>1
      <4>2. QED
        BY <1>13, <2>1, <4>1
    <3>2. Runs(r) = Code
      BY <1>6 DEF Runs, Code, Self
    <3>3. Disciplined(Code) /\ Flat(Code) => t # Cur.fn
      BY <1>2, CallsAnother
    <3>4. QED
      BY <1>6, <3>1, <3>2, <3>3 DEF MayCall
  <2>2. CASE k # n
    <3>1. k \in 1..Len(frames)-1 /\ k \in 1..n+1 /\ k + 1 \in 1..n+1 /\ k # n + 1 /\ k + 1 # n + 1
      BY <1>8, <1>9, <2>2
    <3>2. gs[k] = fs[k] /\ gs[k + 1].fn = fs[k + 1].fn
      <4>1. k + 1 = n => gs[k + 1] = r /\ fs[k + 1] = Cur
        BY <1>10, <1>9, <1>13, <3>1
      <4>2. k + 1 # n => gs[k + 1] = fs[k + 1]
        BY <1>13, <3>1
      <4>3. QED
        BY <1>6, <1>13, <2>2, <3>1, <4>1, <4>2
    <3>3. MayCall(fs[k], fs[k + 1])
      BY <1>8, <3>1, CallsNow
    <3>4. QED
      BY <3>2, <3>3 DEF MayCall
  <2>3. QED
    BY <2>1, <2>2
<1>15. \A k \in 1..Len(gs)-1 : MayCall(gs[k], gs[k + 1])
  <2>1. 1..Len(gs)-1 = 1..n
    BY <1>9, <1>13
  <2>2. QED
    BY <1>14, <2>1
<1>16. QED
  BY <1>7, <1>8, <1>15, EachCalls

LEMMA ReturnStays ==
  ASSUME VInv, LoopsFlat, Return
  PROVE  LoopsFlat'
<1>1. Running /\ SameProgram
  BY SameWhen DEF Return, Executing
<1>2. /\ frames \in Seq(Activations(Len(fns), Vals)) /\ frames # <<>>
      /\ Len(frames) \in Nat /\ DOMAIN frames = 1..Len(frames)
  BY <1>1, Here
<1>3. CASE Len(frames) - 1 = 0
  <2>1. frames' = <<>>
    BY <1>3 DEF Return
  <2>2. \A k \in 1..Len(frames')-1 : MayCall(frames'[k], frames'[k + 1])
    BY <2>1
  <2>3. QED
    BY <1>1, <2>2, EachCalls
<1>4. CASE Len(frames) - 1 # 0
  <2>1. PICK d, v : d = Len(frames) - 1 /\ v = Returned
    OBVIOUS
  <2>2. PICK r, c : c = frames[d] /\ r = GivenTo(c, v)
    OBVIOUS
  <2>3. frames' = Unwound(frames, d, r)
    BY <1>4, <2>1, <2>2 DEF Return, Unwound, GivenTo
  <2>4. d \in DOMAIN frames /\ d \in Nat \ {0} /\ d < Len(frames)
    BY <1>2, <1>4, <2>1
  <2>5. r.fn = c.fn
    <3>1. c \in Activations(Len(fns), Vals)
      BY <1>2, <2>2, <2>4
    <3>2. QED
      BY <2>2, <3>1 DEF GivenTo, Activations
  <2>6. PICK gs : gs = frames'
    OBVIOUS
  <2>7. Len(gs) = d /\ \A k \in 1..d : gs[k] = IF k < d THEN frames[k] ELSE r
    BY <2>3, <2>4, <2>6 DEF Unwound
  <2>8. ASSUME NEW k \in 1..d-1 PROVE MayCall(gs[k], gs[k + 1])
    <3>1. k \in 1..d /\ k < d /\ k + 1 \in 1..d /\ k \in 1..Len(frames)-1
      BY <1>2, <2>4
    <3>2. gs[k] = frames[k] /\ gs[k + 1].fn = frames[k + 1].fn
      <4>1. k + 1 = d => gs[k + 1].fn = frames[k + 1].fn
        BY <2>2, <2>4, <2>5, <2>7, <3>1
      <4>2. k + 1 # d => gs[k + 1] = frames[k + 1]
        BY <2>4, <2>7, <3>1
      <4>3. QED
        BY <2>7, <3>1, <4>1, <4>2
    <3>3. MayCall(frames[k], frames[k + 1])
      BY <3>1, CallsNow
    <3>4. QED
      BY <3>2, <3>3 DEF MayCall
  <2>9. QED
    BY <1>1, <2>6, <2>7, <2>8, EachCalls
<1>5. QED
  BY <1>3, <1>4

LEMMA StaysFlat == VInv /\ Shaped /\ LoopsFlat /\ [Next]_vars => LoopsFlat'
<1>1. SUFFICES ASSUME VInv, Shaped, LoopsFlat, [Next]_vars PROVE LoopsFlat'
  OBVIOUS
<1>2. CASE \/ Immediate \/ LoadLocal \/ LoadUpval \/ LoadGlobal \/ Dup \/ BinaryOp \/ UnaryOp
           \/ MakeCons \/ TakePart \/ MakeList \/ CallNative
  BY <1>1, <1>2, StraightStays
<1>3. CASE StoreGlobal \/ Pop \/ Jump \/ JumpIf
  BY <1>1, <1>3, DropsStay
<1>4. CASE StoreLocal \/ StoreUpval \/ CallSelf
  BY <1>1, <1>4, SelfStays
<1>5. CASE MakeClosure \/ CallFunction \/ Return
  BY <1>1, <1>5, ClosureStays, CallStays, ReturnStays
<1>6. CASE CallUndefined \/ Fault
  <2>1. frames' = <<>> /\ SameProgram
    BY <1>6, SameWhen DEF CallUndefined, Fault
  <2>2. \A k \in 1..Len(frames')-1 : MayCall(frames'[k], frames'[k + 1])
    BY <2>1
  <2>3. QED
    BY <2>1, <2>2, EachCalls
<1>7. CASE UNCHANGED vars
  <2>1. frames' = frames /\ SameProgram
    BY <1>7, SameWhen DEF vars
  <2>2. QED
    BY <1>1, <2>1, CallsNow, EachCalls
<1>8. QED
  BY <1>1, <1>2, <1>3, <1>4, <1>5, <1>6, <1>7 DEF Next

LEMMA BeginsFlat == Init => LoopsFlat
<1>1. SUFFICES ASSUME Init PROVE LoopsFlat
  OBVIOUS
<1>2. Len(frames) = 1
  BY <1>1 DEF Init
<1>3. QED
  BY <1>2 DEF LoopsFlat

(* A function whose calls are all of named functions, and of native ones   *)
(* but in tail position, never waits for an activation of itself: the      *)
(* machine reuses the frame (lsvm.c:1160).                                 *)
THEOREM LoopsStayFlat == Spec => []LoopsFlat
<1>1. QED
  BY BeginsFlat, StaysFlat, AlwaysShaped, Invariance, PTL DEF Spec
=============================================================================
