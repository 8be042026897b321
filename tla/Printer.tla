------------------------------ MODULE Printer -------------------------------
(***************************************************************************)
(* The printer, and a user who types back what the REPL has printed.       *)
(*                                                                         *)
(* A quoted form, a string, a character or a vector evaluates to itself    *)
(* without the quote; what other evaluations print is not followed.  All   *)
(* strings print alike, and all characters, as in Reader.                  *)
(***************************************************************************)
EXTENDS Repl

VARIABLES shown,         \* <<the value printed last>>, <<>> if it is not followed
          back           \* the user has typed it again, quoted

printerVars == <<packages, symbols, text, pos, phase, stack, value, error, script, stage, source,
                 begin, mode, shown, back>>

(* The name alone, after a colon for a keyword.                            *)
SymbolText(s) ==
  IF symbols[s].package = Keyword THEN <<":">> \o symbols[s].name ELSE symbols[s].name

Spaced(texts) == FlattenSeq([i \in DOMAIN texts |-> IF i = 1 THEN texts[1] ELSE <<" ">> \o texts[i]])

(* Slip: the tail of a list is printed like another element.               *)
NoDot(texts, tail) == Spaced(texts) \o <<" ">> \o tail

WithTail(texts, tail) == Spaced(texts) \o <<" ", ".", " ">> \o tail

RECURSIVE Printed(_)

(* print_rec with escapes.                                                 *)
Printed(v) ==
  LET texts == [i \in DOMAIN v.of |-> Printed(v.of[i])]
  IN  CASE v.tag = "nil"    -> <<"NIL">>
        [] v.tag = "symbol" -> SymbolText(v.n)
        [] v.tag = "string" -> <<"\"", "\"">>
        [] v.tag = "char"   -> <<"#", "\\", "a">>
        [] v.tag = "list"   -> <<"(">> \o Spaced(texts) \o <<")">>
        [] v.tag = "dotted" -> <<"(">> \o WithTail(Front(texts), Last(texts)) \o <<")">>
        [] v.tag = "vector" -> <<"#", "(">> \o Spaced(texts) \o <<")">>

Quoted(v) == v.tag = "list" /\ v.of[1] = Sym(QUOTE) /\ Len(v.of) = 2

Result(v) ==
  IF Quoted(v) THEN <<v.of[2]>> ELSE IF v.tag \in {"string", "char", "vector"} THEN <<v>> ELSE <<>>

-----------------------------------------------------------------------------
PrinterInit == Init /\ shown = <<>> /\ back = FALSE

EvaluateShown ==
  /\ Evaluate
  /\ shown' = IF back \/ source = "file" THEN shown ELSE Result(value)
  /\ UNCHANGED back

FailShown ==
  /\ EvaluationFails
  /\ shown' = IF source = "file" THEN shown ELSE <<>>
  /\ UNCHANGED back

(* A directive leaves NIL as the result.                                   *)
SwitchShown ==
  /\ Switch
  /\ shown' = IF back THEN shown ELSE <<Nil>>
  /\ UNCHANGED back

TypeBack ==
  /\ stage = "prompt" /\ script = <<>> /\ shown # <<>> /\ ~back
  /\ script' = <<<<"'">> \o Printed(shown[1])>>
  /\ back' = TRUE
  /\ UNCHANGED <<packages, symbols, text, pos, phase, stack, value, error, stage, source, begin, mode, shown>>

Others ==
  /\ TypeLine \/ TypeMore \/ EndOfInput \/ NextForm \/ Read \/ Finish
  /\ UNCHANGED <<shown, back>>

PrinterNext == EvaluateShown \/ FailShown \/ SwitchShown \/ TypeBack \/ Others

PrinterSpec == PrinterInit /\ [][PrinterNext]_printerVars /\ WF_printerVars(Read /\ UNCHANGED <<shown, back>>)

-----------------------------------------------------------------------------
RECURSIVE SymbolsOf(_)

SymbolsOf(v) ==
  IF v.tag = "symbol" THEN {v.n} ELSE UNION {SymbolsOf(v.of[i]) : i \in DOMAIN v.of}

(* The printed name is a token, and one that denotes the symbol.           *)
Readable(s) ==
  LET token == SymbolText(s)
  IN  /\ token # <<>> /\ ToSet(token) \cap Delimiters = {}
      /\ token[1] # "#" /\ token # <<".">> /\ Upcase(token) # <<"NIL">>
      /\ PackageOf(token) \in DOMAIN packages
      /\ Found(packages, PackageOf(token), NameOf(token)) = s

(* What is printed (print_rec) and typed reads back (read_expr) as the     *)
(* same form, if its symbols' names do: a symbol is printed without its    *)
(* package, and without bars; and a backslash that ends a line is lost.    *)
ReadsBack ==
  back /\ shown # <<>> /\ Returned =>
    \/ \E s \in SymbolsOf(shown[1]) : ~Readable(s)
    \/ Continues(Printed(shown[1]))
    \/ value = List(<<Sym(QUOTE), shown[1]>>)

=============================================================================
