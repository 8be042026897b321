--------------------------------- MODULE Vm ---------------------------------
(***************************************************************************)
(* The virtual machine, ls_vm_run, on any code the compiler could emit.    *)
(*                                                                         *)
(* A function call is a C call of ls_vm_run with an array of its own for   *)
(* the operands, the locals at its bottom; frames is the C stack.  A       *)
(* failed check is an error and ends the run.  Calling native code the     *)
(* just-in-time compiler made (it takes its arguments and leaves its       *)
(* result in another calling convention and skips most instructions), or   *)
(* running out of C stack, is undefined.  Instructions the compiler never  *)
(* emits (NOP, HALT, the handlers) are left out, and calls of functions    *)
(* that are not compiled code or native.                                   *)
(***************************************************************************)
EXTENDS Forms

CONSTANTS
  Count,         \* how many programs there are to run
  ProgramAt(_),  \* the programs: protos, closures, the main one, cells
  Symbols,       \* names of symbols
  Constants,     \* those with LS_SYM_CONSTANT
  StackSize,     \* VM_STACK_SIZE
  ArgRange,      \* operands are 0..ArgRange-1, signed in two's complement
  JitThreshold,  \* jit_threshold
  MaxFrames      \* bound: activations of ls_vm_run the C stack has room for

VARIABLES
  program,       \* what is being run, never changed
  fns,           \* closures: code, captured values, call_count, jit_entry set
  heap,          \* conses
  functions,     \* the function cells of symbols
  globals,       \* the value cells of symbols
  frames,        \* activations of ls_vm_run, the innermost last
  outcome        \* "running", or "value" (with it), "error", "exhausted", "undefined"

protos == program.protos

vars == <<program, fns, heap, functions, globals, frames, outcome>>

-----------------------------------------------------------------------------
Opcodes == {"CONST", "NIL", "T", "FIXNUM", "LOAD_LOCAL", "STORE_LOCAL", "LOAD_UPVAL",
            "STORE_UPVAL", "LOAD_GLOBAL", "STORE_GLOBAL", "POP", "DUP", "JUMP",
            "JUMP_IF_NIL", "JUMP_IF_NOT_NIL", "CALL", "TAILCALL", "RETURN", "LIST",
            "CLOSURE", "CONS", "CAR", "CDR"} \cup Binary \cup Unary

Tags == {"nil", "t", "flonum", "fixnum", "symbol", "native", "function", "proto", "cons",
         "unbound"}

Names == Symbols \cup DOMAIN MinArgs \cup {""}

(* Values that refer to nothing but the first nf closures, nh conses and   *)
(* np protos.                                                              *)
Values(np, nf, nh) ==
  {v \in [tag : Tags, n : Int, s : Names] :
     /\ v.tag = "proto" => v.n \in 1..np
     /\ v.tag = "function" => v.n \in 1..nf /\ v.s = ""
     /\ v.tag = "cons" => v.n \in 1..nh
     /\ v.tag = "fixnum" => v.s = ""
     /\ v.tag = "native" => v.s \in DOMAIN MinArgs /\ v.n = 0
     /\ v.tag = "symbol" => v.s \in Symbols}

(* What the function cell of a symbol may hold.                            *)
Cells(np, nf) ==
  {v \in Values(np, nf, 0) : v.tag \in {"function", "native", "unbound"}}

(* What the compiler guarantees of code: the locals are the parameters and *)
(* fit on the stack with room for operands.                                *)
Protos(np) ==
  [code : Seq([op : Opcodes, arg : 0..ArgRange-1]), consts : Seq(Values(np, 0, 0)),
   n_args : Nat, n_opt : Nat, has_rest : BOOLEAN, n_locals : 0..StackSize-5,
   upvals : Seq(Symbols)]

Closures(np, nf, nh) ==
  [proto : 1..np, upvals : Seq(Values(np, nf, nh)), calls : Nat, jit : BOOLEAN]

(* fn is what an activation runs; the locals are at the bottom of stack.   *)
Activations(nf, V) ==
  [fn : 1..nf, pc : Int, sp : 0..StackSize-4, stack : [0..StackSize-1 -> V]]

ASSUME StackAssumption == StackSize \in Nat /\ StackSize > 5
ASSUME ArgAssumption == ArgRange \in Nat /\ ArgRange > 1 /\ ArgRange % 2 = 0
ASSUME JitAssumption == JitThreshold \in Nat \ {0}
ASSUME FramesAssumption == MaxFrames \in Nat \ {0}
WellFormed(p) ==
  LET np == Len(p.protos)
      nf == Len(p.fns)
  IN  /\ p.protos \in Seq(Protos(np))
      /\ p.fns \in Seq(Closures(np, nf, 0))
      /\ p.main \in 1..nf
      /\ p.functions \in [Symbols -> Cells(np, nf)]
      /\ p.globals \in [Symbols -> Values(np, nf, 0)]

ASSUME ProgramsAssumption == Count \in Nat /\ \A k \in 1..Count : WellFormed(ProgramAt(k))

-----------------------------------------------------------------------------
(* The innermost activation and the instruction it is about to execute.    *)

Cur  == frames[Len(frames)]
Self == fns[Cur.fn]
Code == protos[Self.proto]
I    == Code.code[Cur.pc + 1]
K    == Code.consts[I.arg + 1]           \* the constant the operand names
Operand(k) == Cur.stack[Cur.sp - k]      \* counted from the top
Operands(n) == [k \in 1..n |-> Cur.stack[Cur.sp - n + k - 1]]

Signed(arg) == IF 2 * arg < ArgRange THEN arg ELSE arg - ArgRange

(* The operands taken off the stack, or needed there.                      *)
Needs(i) ==
  CASE i.op \in {"STORE_LOCAL", "STORE_UPVAL", "STORE_GLOBAL", "POP", "DUP", "JUMP_IF_NIL",
                 "JUMP_IF_NOT_NIL", "CAR", "CDR"} \cup Unary -> 1
    [] i.op \in Binary \cup {"CONS"}    -> 2
    [] i.op = "LIST"                    -> i.arg
    [] i.op \in {"CALL", "TAILCALL"}    -> i.arg + 1
    [] OTHER                            -> 0

(* Slip: the stack may fill up.                                            *)
ReadyWhenFull == Cur.pc >= 0 /\ Cur.pc < Len(Code.code)

(* The checks at the head of the loop.                                     *)
Ready == Cur.pc >= 0 /\ Cur.pc < Len(Code.code) /\ Cur.sp < StackSize - 4

-----------------------------------------------------------------------------
(* Calls.  FUNCALL applies its first argument to the others; a FUNCALL of  *)
(* FUNCALL, or of a symbol whose function it is, goes on to the next.      *)

Words == Operands(I.arg + 1)

IsFuncall(i) ==
  \/ Words[i] = Native("FUNCALL")
  \/ i > 1 /\ Words[i].tag = "symbol" /\ functions[Words[i].s] = Native("FUNCALL")

Skipped ==
  CHOOSE j \in 0..Len(Words) :
    /\ \A i \in 1..j : IsFuncall(i)
    /\ j < Len(Words) => ~IsFuncall(j + 1)

Applied == Skipped > 0       \* the call goes through ls_apply

(* The function called; ls_apply takes a symbol for its function cell.     *)
Target ==
  IF Skipped = Len(Words) THEN NilV
  ELSE LET w == Words[Skipped + 1]
       IN  IF Applied /\ w.tag = "symbol" THEN functions[w.s] ELSE w

Args == SubSeq(Words, Skipped + 2, Len(Words))

(* Called directly, a native checks for too few arguments itself, < not    *)
(* even that; ls_apply checks for too many too.                            *)
Accepts(s, n) ==
  IF Applied THEN n >= MinArgs[s] /\ n <= MaxArgs[s] ELSE s = "<" \/ n >= MinArgs[s]

Callable ==
  \/ Target.tag = "function"
  \/ /\ Target.tag = "native"
     /\ Accepts(Target.s, Len(Args))
     /\ Target.s \in {"MOD", "REM"} => Args[2] # Fix(0)

(* Every check of the instruction is passed.                               *)
Allowed ==
  /\ Ready
  /\ Cur.sp >= Needs(I)
  /\ I.op \in {"LOAD_LOCAL", "STORE_LOCAL"} => I.arg < Code.n_locals
  /\ I.op \in {"LOAD_UPVAL", "STORE_UPVAL"} => I.arg < Len(Self.upvals)
  /\ I.op \in {"CONST", "LOAD_GLOBAL", "STORE_GLOBAL", "CLOSURE"} => I.arg < Len(Code.consts)
  /\ I.op \in {"LOAD_GLOBAL", "STORE_GLOBAL"} => K.tag = "symbol"
  /\ I.op = "LOAD_GLOBAL" => functions[K.s] # Unbound \/ globals[K.s] # Unbound
  /\ I.op = "STORE_GLOBAL" => K.s \notin Constants
  /\ I.op = "CLOSURE" => K.tag = "proto"
  /\ I.op = "MOD" => ~(Operand(1) = Fix(0) /\ Operand(2).tag = "fixnum")
  /\ I.op \in {"CALL", "TAILCALL"} => Callable

Running == outcome.status = "running"

Executing(ops) == Running /\ Allowed /\ I.op \in ops

-----------------------------------------------------------------------------
(* What an instruction does to its own activation.                         *)

(* n operands make way for v.                                              *)
Push(n, v) ==
  frames' = [frames EXCEPT ![Len(frames)] =
              [Cur EXCEPT !.pc = @ + 1, !.sp = @ - n + 1, !.stack[Cur.sp - n] = v]]

(* n operands are taken, and the program counter moves on by more than one.*)
Drop(n, by) ==
  frames' = [frames EXCEPT ![Len(frames)] = [Cur EXCEPT !.pc = @ + 1 + by, !.sp = @ - n]]

Immediate ==
  /\ Executing({"CONST", "NIL", "T", "FIXNUM"})
  /\ Push(0, CASE I.op = "CONST" -> K
               [] I.op = "NIL"   -> NilV
               [] I.op = "T"     -> TV
               [] OTHER          -> Fix(Signed(I.arg)))
  /\ UNCHANGED <<program, fns, heap, functions, globals, outcome>>

LoadLocal ==
  /\ Executing({"LOAD_LOCAL"})
  /\ Push(0, Cur.stack[I.arg])
  /\ UNCHANGED <<program, fns, heap, functions, globals, outcome>>

StoreLocal ==
  /\ Executing({"STORE_LOCAL"})
  /\ frames' = [frames EXCEPT ![Len(frames)] =
                 [Cur EXCEPT !.pc = @ + 1, !.sp = @ - 1, !.stack[I.arg] = Operand(1)]]
  /\ UNCHANGED <<program, fns, heap, functions, globals, outcome>>

LoadUpval ==
  /\ Executing({"LOAD_UPVAL"})
  /\ Push(0, Self.upvals[I.arg + 1])
  /\ UNCHANGED <<program, fns, heap, functions, globals, outcome>>

StoreUpval ==
  /\ Executing({"STORE_UPVAL"})
  /\ fns' = [fns EXCEPT ![Cur.fn] = [Self EXCEPT !.upvals[I.arg + 1] = Operand(1)]]
  /\ Drop(1, 0)
  /\ UNCHANGED <<program, heap, functions, globals, outcome>>

(* A function cell comes before a value cell.                              *)
LoadGlobal ==
  /\ Executing({"LOAD_GLOBAL"})
  /\ Push(0, IF functions[K.s] # Unbound THEN functions[K.s] ELSE globals[K.s])
  /\ UNCHANGED <<program, fns, heap, functions, globals, outcome>>

StoreGlobal ==
  /\ Executing({"STORE_GLOBAL"})
  /\ globals' = [globals EXCEPT ![K.s] = Operand(1)]
  /\ Drop(1, 0)
  /\ UNCHANGED <<program, fns, heap, functions, outcome>>

Pop ==
  /\ Executing({"POP"})
  /\ Drop(1, 0)
  /\ UNCHANGED <<program, fns, heap, functions, globals, outcome>>

Dup ==
  /\ Executing({"DUP"})
  /\ Push(0, Operand(1))
  /\ UNCHANGED <<program, fns, heap, functions, globals, outcome>>

Jump ==
  /\ Executing({"JUMP"})
  /\ Drop(0, Signed(I.arg))
  /\ UNCHANGED <<program, fns, heap, functions, globals, outcome>>

JumpIf ==
  /\ Executing({"JUMP_IF_NIL", "JUMP_IF_NOT_NIL"})
  /\ Drop(1, IF (Operand(1) = NilV) = (I.op = "JUMP_IF_NIL") THEN Signed(I.arg) ELSE 0)
  /\ UNCHANGED <<program, fns, heap, functions, globals, outcome>>

(* Arithmetic and comparison of anything but fixnums is done on whatever   *)
(* the word of the value reads like as a flonum.                           *)
Results(op, a, b) ==
  CASE op = "EQ"  -> {Truth(a = b)}
    [] op = "NOT" -> {Truth(b = NilV)}
    [] op = "<"   -> IF AllFixnums(<<a, b>>) THEN {Truth(a.n < b.n)} ELSE {TV, NilV}
    [] op = "NEG" -> IF AllFixnums(<<b>>) THEN {Fix(0 - b.n)} ELSE {Flonum}
    [] OTHER      -> IF ~AllFixnums(<<a, b>>) THEN {Flonum}
                     ELSE {Fix(CASE op = "+" -> a.n + b.n
                                 [] op = "-" -> a.n - b.n
                                 [] OTHER    -> Floored(a.n, b.n))}

BinaryOp ==
  /\ Executing(Binary)
  /\ \E v \in Results(I.op, Operand(2), Operand(1)) : Push(2, v)
  /\ UNCHANGED <<program, fns, heap, functions, globals, outcome>>

UnaryOp ==
  /\ Executing(Unary)
  /\ \E v \in Results(I.op, NilV, Operand(1)) : Push(1, v)
  /\ UNCHANGED <<program, fns, heap, functions, globals, outcome>>

MakeCons ==
  /\ Executing({"CONS"})
  /\ heap' = Append(heap, <<Operand(2), Operand(1)>>)
  /\ Push(2, Pair(Len(heap) + 1))
  /\ UNCHANGED <<program, fns, functions, globals, outcome>>

TakePart ==
  /\ Executing({"CAR", "CDR"})
  /\ Push(1, Part(heap, Operand(1), IF I.op = "CAR" THEN 1 ELSE 2))
  /\ UNCHANGED <<program, fns, heap, functions, globals, outcome>>

MakeList ==
  /\ Executing({"LIST"})
  /\ heap' = Listed(heap, Operands(I.arg))
  /\ Push(I.arg, ListOf(heap, Operands(I.arg)))
  /\ UNCHANGED <<program, fns, functions, globals, outcome>>

-----------------------------------------------------------------------------
(* Closures.  The number of the upvalue, not the slot the compiler found,  *)
(* says which local is captured; a captured value that is itself the       *)
(* symbol comes first.                                                     *)

Captured(s, i) ==
  CASE \E j \in DOMAIN Self.upvals : Self.upvals[j] = Sym(s) -> Sym(s)
    [] OTHER -> IF i <= Code.n_locals THEN Cur.stack[i - 1] ELSE NilV

NewClosure(i) ==
  [proto |-> i, calls |-> 0, jit |-> FALSE,
   upvals |-> [k \in DOMAIN protos[i].upvals |-> Captured(protos[i].upvals[k], k)]]

MakeClosure ==
  /\ Executing({"CLOSURE"})
  /\ fns' = Append(fns, NewClosure(K.n))
  /\ Push(0, Fn(Len(fns) + 1))
  /\ UNCHANGED <<program, heap, functions, globals, outcome>>

-----------------------------------------------------------------------------
(* Calls.                                                                  *)

(* The machine compiles a function it calls often; only ls_apply would     *)
(* then run the native code.                                               *)
Hot(f) == f.jit \/ (~Applied /\ f.calls >= JitThreshold)

(* Calls are counted as far as the threshold.                              *)
Counted(f) == [f EXCEPT !.calls = IF @ < JitThreshold THEN @ + 1 ELSE @, !.jit = Hot(f)]

(* Parameters get the arguments there are, the other locals nil.  All      *)
(* locals are parameters, so that nothing is left for a list of the rest.  *)
Bound(p, args) ==
  [i \in 0..StackSize-1 |->
     IF i < p.n_locals /\ i < p.n_args + p.n_opt /\ i < Len(args) THEN args[i + 1] ELSE NilV]

(* Slip: room for the required parameters only.                            *)
EnteredBelow(f, p, args) == [fn |-> f, pc |-> 0, sp |-> p.n_args, stack |-> Bound(p, args)]

Entered(f, p, args) == [fn |-> f, pc |-> 0, sp |-> p.n_locals, stack |-> Bound(p, args)]

(* Slip: tail calls are calls.                                             *)
OwnTailCallIgnored == FALSE

OwnTailCall == I.op = "TAILCALL" /\ Target = Fn(Cur.fn) /\ ~Applied

CallingFn == Executing({"CALL", "TAILCALL"}) /\ Target.tag = "function"

CallFunction ==
  /\ CallingFn
  /\ ~OwnTailCall
  /\ ~(Applied /\ fns[Target.n].jit)
  /\ Len(frames) < MaxFrames
  /\ frames' = Append([frames EXCEPT ![Len(frames)] =
                         [Cur EXCEPT !.pc = @ + 1, !.sp = @ - I.arg - 1]],
                      Entered(Target.n, protos[fns[Target.n].proto], Args))
  /\ fns' = [fns EXCEPT ![Target.n] = Counted(fns[Target.n])]
  /\ UNCHANGED <<program, heap, functions, globals, outcome>>

(* Entering native code, or running out of C stack.                        *)
CallUndefined ==
  /\ CallingFn
  /\ ~OwnTailCall
  /\ (Applied /\ fns[Target.n].jit) \/ Len(frames) = MaxFrames
  /\ frames' = <<>>
  /\ outcome' = [status |-> IF Applied /\ fns[Target.n].jit THEN "undefined" ELSE "exhausted",
                 val |-> NilV]
  /\ UNCHANGED <<program, fns, heap, functions, globals>>

(* Slip: the arguments are not moved.                                      *)
ArgsLeftAbove(args) == Cur.stack

(* The locals get the arguments, of which there may be too few, and then   *)
(* nil.                                                                    *)
MovedDown(args) ==
  [i \in 0..StackSize-1 |-> IF i >= Code.n_locals THEN Cur.stack[i]
                            ELSE IF i < Len(args) THEN args[i + 1] ELSE NilV]

(* The activation starts over.                                             *)
CallSelf ==
  /\ CallingFn
  /\ OwnTailCall
  /\ frames' = [frames EXCEPT ![Len(frames)] =
                 [Cur EXCEPT !.pc = 0, !.sp = Code.n_locals, !.stack = MovedDown(Args)]]
  /\ fns' = [fns EXCEPT ![Cur.fn] = Counted(Self)]
  /\ UNCHANGED <<program, heap, functions, globals, outcome>>

CallNative ==
  /\ Executing({"CALL", "TAILCALL"})
  /\ Target.tag = "native"
  /\ CASE Target.s = "CONS" -> /\ heap' = Append(heap, <<Args[1], Args[2]>>)
                               /\ Push(I.arg + 1, Pair(Len(heap) + 1))
       [] Target.s = "LIST" -> /\ heap' = Listed(heap, Args)
                               /\ Push(I.arg + 1, ListOf(heap, Args))
       [] Target.s \in {"CAR", "CDR"} ->
            /\ heap' = heap
            /\ Push(I.arg + 1, Part(heap, Args[1], IF Target.s = "CAR" THEN 1 ELSE 2))
       [] OTHER -> /\ heap' = heap
                   /\ \E v \in NativeResults(Target.s, Args) : Push(I.arg + 1, v)
  /\ UNCHANGED <<program, fns, functions, globals, outcome>>

Returned == IF Cur.sp < 1 THEN NilV ELSE Operand(1)

(* The caller's operands are gone already; the value takes their place.    *)
Return ==
  /\ Executing({"RETURN"})
  /\ LET depth  == Len(frames) - 1
         caller == frames[depth]
     IN  IF depth = 0
         THEN /\ frames' = <<>>
              /\ outcome' = [status |-> "value", val |-> Returned]
         ELSE /\ frames' = [i \in 1..depth |->
                              IF i < depth THEN frames[i]
                              ELSE [caller EXCEPT !.sp = @ + 1, !.stack[caller.sp] = Returned]]
              /\ outcome' = outcome
  /\ UNCHANGED <<program, fns, heap, functions, globals>>

(* A check fails: ls_error, for want of operand stack or because of what   *)
(* the instruction found.  Whether MOD of a flonum is by zero is not known.*)
Fault ==
  /\ Running
  /\ ~Allowed \/ (I.op = "MOD" /\ ~AllFixnums(Operands(2)))
  /\ frames' = <<>>
  /\ outcome' = [status |-> IF Cur.sp < StackSize - 4 THEN "error" ELSE "exhausted", val |-> NilV]
  /\ UNCHANGED <<program, fns, heap, functions, globals>>

-----------------------------------------------------------------------------
Init ==
  /\ \E k \in 1..Count : program = ProgramAt(k)
  /\ fns = [program.fns EXCEPT ![program.main] = [@ EXCEPT !.calls = 1]]
  /\ heap = <<>>
  /\ functions = program.functions
  /\ globals = program.globals
  /\ frames = <<Entered(program.main, protos[fns[program.main].proto], <<>>)>>
  /\ outcome = [status |-> "running", val |-> NilV]

Next ==
  \/ Immediate \/ LoadLocal \/ StoreLocal \/ LoadUpval \/ StoreUpval \/ LoadGlobal
  \/ StoreGlobal \/ Pop \/ Dup \/ Jump \/ JumpIf \/ BinaryOp \/ UnaryOp \/ MakeCons
  \/ TakePart \/ MakeList \/ MakeClosure \/ CallFunction \/ CallUndefined \/ CallSelf
  \/ CallNative \/ Return \/ Fault

Spec == Init /\ [][Next]_vars /\ WF_vars(Next)

-----------------------------------------------------------------------------
(* Whatever the code, a value refers to something that exists, and no      *)
(* instruction reads or writes outside the operand stack of its activation:*)
(* the stack pointer is between the bottom of the stack and the reserve    *)
(* that the check at the head of the loop keeps free.                      *)
TypeOK ==
  LET V == Values(Len(protos), Len(fns), Len(heap))
  IN  /\ protos \in Seq(Protos(Len(protos)))
      /\ fns \in Seq(Closures(Len(protos), Len(fns), Len(heap)))
      /\ heap \in Seq(V \X V)
      /\ functions \in [Symbols -> Cells(Len(protos), Len(fns))]
      /\ globals \in [Symbols -> V]
      /\ frames \in Seq(Activations(Len(fns), V))
      /\ outcome \in [status : {"running", "value", "error", "exhausted", "undefined"}, val : V]
      /\ Running => frames # <<>>

(* Wherever code goes from one of its instructions, except by returning,   *)
(* there is an instruction.                                                *)
Lands(p) ==
  /\ p.code # <<>>
  /\ \A i \in DOMAIN p.code :
       LET op == p.code[i].op
       IN  /\ op \notin {"JUMP", "RETURN"} => i + 1 \in DOMAIN p.code
           /\ op \in {"JUMP", "JUMP_IF_NIL", "JUMP_IF_NOT_NIL"} =>
                i + 1 + Signed(p.code[i].arg) \in DOMAIN p.code

(* Whatever the form, faithful or not, every jump of its code lands on an  *)
(* instruction, and control never runs off the end (patch_jump, 90-98).    *)
JumpsInside ==
  /\ \A i \in DOMAIN protos : Lands(protos[i])
  /\ \A k \in DOMAIN frames :
       frames[k].pc \in 0..Len(protos[fns[frames[k].fn].proto].code)-1
=============================================================================
