------------------------------- MODULE Shapes -------------------------------
(***************************************************************************)
(* What the code of a function says about its operands, found without      *)
(* running it: how many there are above the locals wherever control gets,  *)
(* and which of them were loaded from the cells of a symbol.  Code of      *)
(* which this can be said wherever two ways meet is disciplined.           *)
(***************************************************************************)
EXTENDS Vm

Unknown == ""

(* A shape is a name for each operand, the topmost last.                   *)
Taken(i) == IF i.op = "DUP" THEN 0 ELSE Needs(i)

Loaded(p, i) == IF i.op = "LOAD_GLOBAL" THEN p.consts[i.arg + 1].s ELSE Unknown

Left(p, i) ==
  IF i.op \in {"STORE_LOCAL", "STORE_UPVAL", "STORE_GLOBAL", "POP", "JUMP", "JUMP_IF_NIL",
               "JUMP_IF_NOT_NIL", "RETURN"}
  THEN <<>> ELSE <<Loaded(p, i)>>

After(p, i, x) == SubSeq(x, 1, Len(x) - Taken(i)) \o Left(p, i)

(* Where control goes from the k-th instruction within the code.           *)
Goes(p, k) ==
  {j \in {k + 1} : p.code[k].op \notin {"JUMP", "RETURN"}}
    \cup {j \in {k + 1 + Signed(p.code[k].arg)} :
            p.code[k].op \in {"JUMP", "JUMP_IF_NIL", "JUMP_IF_NOT_NIL"}}

(* What is known where control comes from two places.                      *)
Common(x, y) ==
  [k \in DOMAIN x |-> IF k \in DOMAIN y /\ x[k] = y[k] THEN x[k] ELSE Unknown]

Spread(p, a, k) ==
  LET x  == After(p, p.code[k], a[k])
      to == Goes(p, k)
  IN  IF k \notin DOMAIN a THEN a
      ELSE [j \in DOMAIN a \cup to |->
              IF j \notin to THEN a[j] ELSE IF j \in DOMAIN a THEN Common(a[j], x) ELSE x]

(* The shape in front of each instruction that control gets to.            *)
Shape(p) ==
  FoldLeft(LAMBDA a, k : Spread(p, a, k), [k \in {1} |-> <<>>],
           [k \in DOMAIN p.code |-> k])

Covers(y, x) == Len(y) = Len(x) /\ \A k \in DOMAIN y : y[k] \in {Unknown, x[k]}

Annotates(a, p) ==
  /\ DOMAIN a \subseteq DOMAIN p.code
  /\ 1 \in DOMAIN a /\ a[1] = <<>>
  /\ \A k \in DOMAIN a :
       /\ a[k] \in Seq(Names)
       /\ Len(a[k]) >= Needs(p.code[k])
       /\ p.code[k].op = "RETURN" => Len(a[k]) = 1
       /\ \A j \in Goes(p, k) :
            j \in DOMAIN a /\ Covers(a[j], After(p, p.code[k], a[k]))

Disciplined(p) == Annotates(Shape(p), p)

(* What the k-th instruction, a call, calls.                               *)
Callee(p, k) == Shape(p)[k][Len(Shape(p)[k]) - p.code[k].arg]

(* Every call names a function, and all but the tail calls a native one.   *)
Flat(p) ==
  \A k \in DOMAIN Shape(p) :
    p.code[k].op \in {"CALL", "TAILCALL"} =>
      /\ Callee(p, k) \in Symbols \ {Unknown}
      /\ functions[Callee(p, k)] \notin {Unbound, Native("FUNCALL")}
      /\ p.code[k].op = "CALL" => functions[Callee(p, k)].tag = "native"

-----------------------------------------------------------------------------
Runs(f) == protos[fns[f.fn].proto]

(* However the functions of a program call each other, the operands of one *)
(* whose code is disciplined never eat into its locals, and it returns     *)
(* with exactly its value above them (lsvm.c:1140-1188).                   *)
Balanced ==
  \A k \in DOMAIN frames :
    LET p == Runs(frames[k])
    IN  Disciplined(p) =>
          /\ frames[k].sp >= p.n_locals
          /\ k = Len(frames) /\ I.op = "RETURN" => Cur.sp = Code.n_locals + 1

(* A loop written as a self tail call runs in one activation, however many *)
(* times it goes round: the machine reuses the frame (lsvm.c:1160).        *)
LoopsFlat ==
  \A k \in 1..Len(frames)-1 :
    LET p == Runs(frames[k])
    IN  frames[k].fn = frames[k + 1].fn => ~(Disciplined(p) /\ Flat(p))

-----------------------------------------------------------------------------
(* What makes them inductive: an activation has the operands its code says *)
(* it has, but for the value of the call it waits for.                     *)

Means(s, v) == s \in Symbols \ {Unknown} /\ functions[s] # Unbound => v = functions[s]

Fits(f, wait) ==
  LET p == Runs(f)
      x == Shape(p)[f.pc + 1]
  IN  /\ f.pc + 1 \in DOMAIN Shape(p)
      /\ f.sp = p.n_locals + Len(x) - wait
      /\ \A j \in 1..Len(x)-wait : Means(x[j], f.stack[p.n_locals + j - 1])
      /\ wait = 1 => x # <<>> /\ x[Len(x)] = Unknown

Shaped ==
  \A k \in DOMAIN frames :
    Disciplined(Runs(frames[k])) => Fits(frames[k], IF k < Len(frames) THEN 1 ELSE 0)
=============================================================================
