-------------------------------- MODULE Repl --------------------------------
(***************************************************************************)
(* The read-eval-print loop: lines are collected until the parentheses and *)
(* strings in them are closed, by a count of the REPL's own; the buffer is *)
(* then read and evaluated form by form.  ls_eval_string does the same for *)
(* the text of a file.                                                     *)
(*                                                                         *)
(* The user types the lines of script.  An evaluation gives a value or an  *)
(* error, and a function it calls may export or intern symbols.            *)
(***************************************************************************)
EXTENDS Reader

CONSTANTS Scripts,       \* sequences of lines a user may type
          Files,         \* texts of files
          Cap            \* size of the line buffer

VARIABLES script,        \* lines to come
          stage,         \* where ls_repl is
          source,        \* where text is from
          begin,         \* where the form read last starts
          mode           \* how forms are evaluated

ASSUME CapAssumption == Cap \in Nat \ {0}

(* repl_read_line cuts a line off where the buffer ends.                   *)
ASSUME LinesAssumption ==
  /\ \A s \in Scripts : s \in Seq(Seq(Characters)) /\ \A i \in DOMAIN s : Len(s[i]) < Cap
  /\ Files \subseteq Seq(Characters)

replVars == <<script, stage, source, begin, mode>>

vars == <<packages, symbols, text, pos, phase, stack, value, error, script, stage, source, begin, mode>>

Modes == {"INTERP", "BYTECODE"}

-----------------------------------------------------------------------------
(* One more parenthesis is open after a c, or one less.                    *)
Nesting(c) == IF c = "(" THEN 1 ELSE IF c = ")" THEN 0 - 1 ELSE 0

Deeper(rest, n) == [depth |-> rest.depth + n, in_str |-> rest.in_str]

(* Slip: #\ means nothing to the REPL.                                     *)
DepthOfAll(t) ==
  LET scan[from \in Nat \X BOOLEAN] ==
        LET i == from[1]
        IN  IF i > Len(t) THEN [depth |-> 0, in_str |-> from[2]]
            ELSE IF from[2] THEN
              IF t[i] = "\\" /\ i < Len(t) THEN scan[<<i + 2, TRUE>>] ELSE scan[<<i + 1, t[i] # "\"">>]
            ELSE IF t[i] = ";" THEN scan[<<AfterLine(t, i), FALSE>>]
            ELSE IF t[i] = "\"" THEN scan[<<i + 1, TRUE>>]
            ELSE Deeper(scan[<<i + 1, FALSE>>], Nesting(t[i]))
  IN  scan[<<1, FALSE>>]

(* Of the rest of t from a place on that is in a string or not: the depth  *)
(* of its parentheses, and whether it ends in a string.                    *)
Scan(t) ==
  LET scan[from \in Nat \X BOOLEAN] ==
        LET i == from[1]
        IN  IF i > Len(t) THEN [depth |-> 0, in_str |-> from[2]]
            ELSE IF from[2] THEN
              IF t[i] = "\\" /\ i < Len(t) THEN scan[<<i + 2, TRUE>>] ELSE scan[<<i + 1, t[i] # "\"">>]
            ELSE IF t[i] = ";" THEN scan[<<AfterLine(t, i), FALSE>>]
            ELSE IF t[i] = "#" /\ At(t, i + 1) = "\\" /\ i + 1 < Len(t) THEN scan[<<i + 3, FALSE>>]
            ELSE IF t[i] = "\"" THEN scan[<<i + 1, TRUE>>]
            ELSE Deeper(scan[<<i + 1, FALSE>>], Nesting(t[i]))
  IN  scan

Depth(t) == Scan(t)[<<1, FALSE>>]

Unfinished(t) == Depth(t).depth > 0 \/ Depth(t).in_str

(* A backslash at the end of a line asks for another one.                  *)
Continues(line) == line # <<>> /\ Last(line) = "\\"

Stripped(line) == IF Continues(line) THEN Front(line) ELSE line

(* Slip: the newline and the end of the string take no room.               *)
JoinedTight(t, line) == IF Len(t) + Len(line) < Cap THEN t \o <<"\n">> \o line ELSE t

(* A line that does not fit is dropped.                                    *)
Joined(t, line) == IF Len(t) + Len(line) + 2 < Cap THEN t \o <<"\n">> \o line ELSE t

Begin(t, from) ==
  /\ stage' = "forms" /\ text' = t /\ source' = from
  /\ pos' = 1 /\ begin' = 0 /\ phase' = "idle"
  /\ UNCHANGED <<packages, symbols, stack, value, error, mode>>

PathLike(t) ==
  LET i == CHOOSE j \in 1..Len(t)+1 : At(t, j) \notin Blanks /\ \A k \in 1..j-1 : t[k] \in Blanks
  IN  At(t, i) \notin {"eof", "(", "'", ";", "\"", "#", ":"}

(* The buffer is complete: it names a file that is there, or it is read.   *)
Hand(t, from) ==
  \/ Begin(t, from)
  \/ PathLike(t) /\ \E file \in Files : Begin(file, "file")

Collect(t) == stage' = "more" /\ text' = t /\ UNCHANGED <<packages, symbols, pos, phase, stack, value, error, source, begin, mode>>

-----------------------------------------------------------------------------
Init ==
  /\ PackageInit /\ ReaderInit
  /\ script \in Scripts
  /\ stage = "prompt" /\ source = "line" /\ begin = 0 /\ mode = "INTERP"

TypeLine ==
  /\ stage = "prompt" /\ script # <<>>
  /\ script' = Tail(script)
  /\ IF Head(script) = <<>>
     THEN UNCHANGED <<packages, symbols, text, pos, phase, stack, value, error, stage, source, begin, mode>>
     ELSE IF Continues(Head(script)) \/ Unfinished(Stripped(Head(script)))
     THEN Collect(Stripped(Head(script)))
     ELSE Hand(Head(script), "line")

TypeMore ==
  /\ stage = "more" /\ script # <<>>
  /\ script' = Tail(script)
  /\ \E t \in {Joined(text, Stripped(Head(script)))} :
       IF Continues(Head(script)) \/ Unfinished(t) THEN Collect(t) ELSE Hand(t, "line")

(* The end of the input gives the buffer to the reader as it is.           *)
EndOfInput ==
  /\ script = <<>>
  /\ \/ /\ stage = "prompt" /\ stage' = "ended"
        /\ UNCHANGED <<packages, symbols, text, pos, phase, stack, value, error, source, begin, mode>>
     \/ stage = "more" /\ Hand(text, "end")
  /\ UNCHANGED script

(* Blanks before a form are passed over, in a file comments as well.       *)
FormStart ==
  LET start[i \in Nat] ==
        IF At(text, i) \in Blanks THEN start[i + 1]
        ELSE IF source = "file" /\ At(text, i) = ";" THEN start[Seek(text, i, {"\n"})]
        ELSE i
  IN  start[pos]

NextForm ==
  /\ stage = "forms" /\ phase = "idle" /\ FormStart <= Len(text)
  /\ phase' = "expr" /\ pos' = FormStart /\ begin' = FormStart
  /\ UNCHANGED <<packages, symbols, text, stack, value, error, script, stage, source, mode>>

Read == stage = "forms" /\ ReaderStep /\ UNCHANGED replVars

Returned == stage = "forms" /\ phase = "value" /\ stack = <<>>

NamedForm(v) == v.tag = "list" /\ Len(v.of) = 1 /\ v.of[1].tag = "symbol"

Directive ==
  IF source # "file" /\ NamedForm(value) THEN symbols[value.of[1].n].name ELSE <<>>

Directives == {<<m>> : m \in Modes}

Switch ==
  /\ Returned /\ pos # begin /\ Directive \in Directives
  /\ mode' = Directive[1]
  /\ phase' = "idle"
  /\ UNCHANGED <<packages, symbols, text, pos, stack, value, error, script, stage, source, begin>>

Calls(v) == v.tag = "list" /\ v.of[1] \notin {Sym(QUOTE), Sym(FUNCTION)}

Evaluates == Returned /\ pos # begin /\ Directive \notin Directives

(* A function that a form calls may export a symbol or intern a name, as   *)
(* it is spelled.                                                          *)
Evaluate ==
  /\ Evaluates
  /\ phase' = "idle"
  /\ \/ UNCHANGED <<packages, symbols>>
     \/ Calls(value) /\ \E s \in DOMAIN symbols : Export(s)
     \/ Calls(value) /\ \E p \in DOMAIN packages, n \in {<<"a">>, <<"A">>} : Intern(packages, p, n)
  /\ UNCHANGED <<text, pos, stack, value, error, script, stage, source, begin, mode>>

EvaluationFails ==
  /\ Evaluates
  /\ Fail("eval")
  /\ UNCHANGED <<packages, symbols, text, script, stage, source, begin, mode>>

(* Nothing is left; or an error was raised; or the reader read nothing.    *)
Finished ==
  \/ phase = "idle" /\ FormStart > Len(text)
  \/ phase = "failed"
  \/ Returned /\ pos = begin

Finish ==
  /\ stage = "forms" /\ Finished
  /\ stage' = "prompt"
  /\ text' = <<>> /\ pos' = 1 /\ phase' = "idle" /\ value' = Nil /\ error' = "none"
  /\ source' = "line" /\ begin' = 0
  /\ UNCHANGED <<packages, symbols, stack, script, mode>>

Next ==
  \/ TypeLine \/ TypeMore \/ EndOfInput
  \/ NextForm \/ Read \/ Switch \/ Evaluate \/ EvaluationFails \/ Finish

(* The reader is called and runs; nothing makes the user type.             *)
Spec == Init /\ [][Next]_vars /\ WF_vars(Read)

-----------------------------------------------------------------------------
TypeOK ==
  /\ ReaderTypeOK
  /\ stage \in {"prompt", "more", "forms", "ended"}
  /\ source \in {"line", "end", "file"}
  /\ begin \in 0..Len(text)+1
  /\ mode \in Modes
  /\ phase # "idle" => stage = "forms"
  /\ source # "file" => Len(text) < Cap

Unterminated == error \in {"unterminated string", "unterminated list"}

(* Text in which the REPL and the reader take every character alike: no    *)
(* bars, which make comments and end tokens, and #\ only where a form      *)
(* starts and with a character after it.                                   *)
Plain(t) ==
  /\ "|" \notin ToSet(t)
  /\ \A i \in 1..Len(t)-1 : t[i] = "#" /\ t[i + 1] = "\\" =>
        i + 1 < Len(t) /\ (i > 1 => t[i - 1] \in Delimiters)

(* The REPL and the reader agree on where an input ends: what is read from *)
(* complete lines never ends too early, what is cut off by the end of the  *)
(* input always does, and each form read has balanced parentheses.         *)
ScannersAgree ==
  Plain(text) /\ stage = "forms" =>
    /\ source = "line" => ~Unterminated
    /\ (source = "end" /\ Unfinished(text) /\ phase = "idle") => FormStart <= Len(text)
    /\ Returned => ~Unfinished(SubSeq(text, begin, pos - 1)) /\ Depth(SubSeq(text, begin, pos - 1)).depth = 0

AtBar == stack # <<>> /\ At(text, Skip(text, pos)) = "|"

(* A form that is being read is read to its end or to an error             *)
(* (ls_read_from_string), unless the reader comes to a bar inside a list,  *)
(* where it reads empty tokens for ever.                                   *)
ReadEnds == Reading ~> ~Reading \/ AtBar

(* Whatever is read, interned and exported, a name keeps the symbol it     *)
(* denotes in a package (ls_intern_sym, bi_export), as NamesStable says.   *)
NameStep == [][NamesStable]_vars

=============================================================================
