------------------------------- MODULE Reader -------------------------------
(***************************************************************************)
(* The reader: one call of ls_read_from_string, a call of read_expr or a   *)
(* turn of the loop of read_list per step.                                 *)
(*                                                                         *)
(* A text is a sequence of characters and of words: "a" stands for any     *)
(* other run of letters, "cl" for COMMON-LISP, "nil", "bytecode" and       *)
(* "interp" for themselves, each in lower and upper case.  stack is the C  *)
(* stack, a frame for each list, quote or feature test whose end has not   *)
(* been read.  A form keeps what it is made of; strings and characters are *)
(* all alike.  Numbers, T, back quotes, commas and the letters that mean   *)
(* something after # are left out, and a name after #: is taken to fit     *)
(* into its buffer of 256 bytes.                                           *)
(***************************************************************************)
EXTENDS Packages

CONSTANT MaxItems        \* bound: elements of a list that are kept

VARIABLES text,          \* the text read
          pos,           \* the next character
          phase,         \* what the reader does next
          stack,         \* the open constructs
          value,         \* the form read last
          error          \* why reading failed

ASSUME MaxItemsAssumption == MaxItems \in Nat \ {0}

readerVars == <<text, pos, phase, stack, value, error>>

Words  == {"a", "cl", "nil", "bytecode", "interp", "A", "CL", "NIL", "BYTECODE", "INTERP", "QUOTE",
           "FUNCTION"}
Blanks == {" ", "\n"}
Delimiters == Blanks \cup {"(", ")", "\"", "'", ";", "|", "eof"}

(* What a text is made of; "eof" stands for what comes after it.           *)
Characters == Words \cup Blanks \cup {"(", ")", "\"", "'", ";", "|", "#", "\\", ".", ":", "+"}

Phases == {"idle", "expr", "loop", "value", "failed"}
Kinds  == {"list", "vector", "dotted", "quote", "function", "test", "tested"}
Errors == {"none", "unterminated string", "unterminated list", "unexpected )", "expected )", "bad #", "eval"}

Form(tag, n, of) == [tag |-> tag, n |-> n, of |-> of]

Nil      == Form("nil", 0, <<>>)
Str      == Form("string", 0, <<>>)
Chr      == Form("char", 0, <<>>)
Sym(s)   == Form("symbol", s, <<>>)
List(items) == IF items = <<>> THEN Nil ELSE Form("list", 0, items)

(* A list with a tail.                                                     *)
Dotted(items, tail) ==
  IF items = <<>> THEN tail
  ELSE IF tail.tag \in {"nil", "list", "dotted"} THEN Form(IF tail.tag = "nil" THEN "list" ELSE tail.tag, tail.n, items \o tail.of)
  ELSE Form("dotted", 0, Append(items, tail))

(* What a mark before a form stands for.                                   *)
Operator == [quote |-> QUOTE, function |-> FUNCTION]

(* #( takes the elements of a list up to its tail.                         *)
Elements(v) == IF v.tag = "list" THEN v.of ELSE IF v.tag = "dotted" THEN Front(v.of) ELSE <<>>

Vec(v) == Form("vector", 0, Elements(v))

-----------------------------------------------------------------------------
(* Scanning.                                                               *)

At(t, i) == IF i <= Len(t) THEN t[i] ELSE "eof"

(* The first place from i on where P holds, or else the end.               *)
Seek(t, i, S) ==
  CHOOSE j \in i..Len(t)+1 :
    /\ j <= Len(t) => t[j] \in S
    /\ \A k \in i..j-1 : t[k] \notin S

(* After the end of the comment open depth times at i.                     *)
CommentEnd(t, i) ==
  LET end[from \in Nat \X Nat] ==
        LET j == from[1]
            depth == from[2]
        IN  IF depth = 0 \/ j > Len(t) THEN j
            ELSE IF t[j] = "#" /\ At(t, j + 1) = "|" THEN end[<<j + 2, depth + 1>>]
            ELSE IF t[j] = "|" /\ At(t, j + 1) = "#" THEN end[<<j + 2, depth - 1>>]
            ELSE end[<<j + 1, depth>>]
  IN  end[<<i, 1>>]

AfterLine(t, i) == IF Seek(t, i, {"\n"}) > Len(t) THEN Len(t) + 1 ELSE Seek(t, i, {"\n"}) + 1

(* The first place from i on that is neither blank nor in a comment.       *)
Skip(t, i) ==
  LET skip[j \in Nat] ==
        IF At(t, j) \in Blanks THEN skip[j + 1]
        ELSE IF At(t, j) = ";" THEN skip[AfterLine(t, j)]
        ELSE IF At(t, j) = "#" /\ At(t, j + 1) = "|" THEN skip[CommentEnd(t, j + 2)]
        ELSE j
  IN  skip[i]

(* After the closing quote of the string whose first character is at i, 0  *)
(* if there is none.                                                       *)
StringEnd(t, i) ==
  LET end[j \in Nat] ==
        IF j > Len(t) THEN 0
        ELSE IF t[j] = "\"" THEN j + 1
        ELSE IF t[j] = "\\" THEN end[j + 2]
        ELSE end[j + 1]
  IN  end[i]

(* Slip: a token ends at a backslash as well.                              *)
BackslashEnds(t, i) == Seek(t, i, Delimiters \cup {"\\"})

TokenEnd(t, i) == Seek(t, i, Delimiters)

(* #\ takes a character, whatever it is, and the letters after it.         *)
CharEnd(t, i) ==
  CHOOSE j \in i..Len(t) : t[j + 1] \notin Words /\ \A k \in i+1..j : t[k] \in Words

Upper(word) ==
  CASE word = "a" -> "A" [] word = "cl" -> "CL" [] word = "bytecode" -> "BYTECODE"
    [] word = "interp" -> "INTERP" [] word = "nil" -> "NIL" [] OTHER -> word

Upcase(token) == [i \in DOMAIN token |-> Upper(token[i])]

-----------------------------------------------------------------------------
(* A token is a keyword, a name after a package, made if need be, or a     *)
(* name in the current package.                                            *)

Colon(token) == Seek(token, 1, {":"})

Qualified(token) == Colon(token) <= Len(token)

PackageOf(token) ==
  IF token = <<>> \/ ~Qualified(token) THEN User
  ELSE IF Colon(token) = 1 THEN Keyword
  ELSE Upcase(SubSeq(token, 1, Colon(token) - 1))

(* A second colon belongs to the mark, but not in a keyword.               *)
NameStart(token) ==
  IF Colon(token) > 1 /\ At(token, Colon(token) + 1) = ":" THEN Colon(token) + 2
  ELSE Colon(token) + 1

NameOf(token) ==
  IF token = <<>> THEN <<"|", "|">>
  ELSE IF Qualified(token) THEN Upcase(SubSeq(token, NameStart(token), Len(token)))
  ELSE Upcase(token)

-----------------------------------------------------------------------------
Top == stack[Len(stack)]

Below == SubSeq(stack, 1, Len(stack) - 1)

Reading == phase \in {"expr", "loop"} \/ (phase = "value" /\ stack # <<>>)

(* A form has been read, up to but not including i.                        *)
Deliver(v, i) == phase' = "value" /\ value' = v /\ pos' = i /\ UNCHANGED error

Open(kinds, next, i) ==
  /\ stack' = stack \o [k \in DOMAIN kinds |-> [kind |-> kinds[k], items |-> <<>>]]
  /\ phase' = next /\ pos' = i
  /\ UNCHANGED <<value, error>>

(* ls_error: the C stack is left.                                          *)
Fail(why) == phase' = "failed" /\ error' = why /\ stack' = <<>> /\ UNCHANGED <<pos, value>>

ReaderInit ==
  /\ text = <<>> /\ pos = 1 /\ phase = "idle" /\ stack = <<>> /\ value = Nil
  /\ error = "none"

(* read_expr at i, the constructs that # starts but symbols.               *)
ReadSharp(i) ==
  CASE At(text, i + 1) = "'" -> Open(<<"function">>, "expr", i + 2)
    [] At(text, i + 1) = "(" -> Open(<<"vector", "list">>, "loop", i + 2)
    [] At(text, i + 1) = "+" -> Open(<<"test">>, "expr", i + 2)
    [] At(text, i + 1) = "\\" /\ i + 2 <= Len(text) ->
         UNCHANGED stack /\ Deliver(Chr, CharEnd(text \o <<"eof">>, i + 2) + 1)
    [] OTHER -> Fail("bad #")

(* read_expr at i, whatever is not a symbol.                               *)
ReadOther(i) ==
  /\ CASE At(text, i) = "eof" -> UNCHANGED stack /\ Deliver(Nil, i)
       [] At(text, i) = "(" -> Open(<<"list">>, "loop", i + 1)
       [] At(text, i) = ")" -> Fail("unexpected )")
       [] At(text, i) = "'" -> Open(<<"quote">>, "expr", i + 1)
       [] At(text, i) = "#" -> ReadSharp(i)
       [] At(text, i) = "\"" ->
            IF StringEnd(text, i + 1) = 0 THEN Fail("unterminated string")
            ELSE UNCHANGED stack /\ Deliver(Str, StringEnd(text, i + 1))
  /\ UNCHANGED <<packages, symbols>>

(* A token may be empty: at a bar nothing is read.                         *)
ReadSymbol(i, token) ==
  /\ Intern(Ensured(packages, PackageOf(token)), PackageOf(token), NameOf(token))
  /\ Deliver(Sym(Found(packages', PackageOf(token), NameOf(token))), i + Len(token))
  /\ UNCHANGED stack

ReadToken(i, token) ==
  IF Upcase(token) = <<"NIL">> THEN Deliver(Nil, i + 1) /\ UNCHANGED <<packages, symbols, stack>>
  ELSE ReadSymbol(i, token)

ReadUninterned(i, token) ==
  /\ MakeUninterned(Upcase(token))
  /\ Deliver(Sym(Len(symbols) + 1), i + Len(token))
  /\ UNCHANGED stack

IsToken(i) == At(text, i) \notin {"eof", "(", ")", "'", "#", "\""}

IsUninterned(i) == At(text, i) = "#" /\ At(text, i + 1) = ":"

Token(i) == SubSeq(text, i, TokenEnd(text, i) - 1)

ReadExpr ==
  /\ phase = "expr"
  /\ \E i \in {Skip(text, pos)} :
       IF IsToken(i) THEN ReadToken(i, Token(i))
       ELSE IF IsUninterned(i) THEN ReadUninterned(i + 2, Token(i + 2))
       ELSE ReadOther(i)
  /\ UNCHANGED text

IsDot(i) == At(text, i) = "." /\ At(text, i + 1) \in Blanks

(* A turn of the loop of read_list.                                        *)
ReadList ==
  /\ phase = "loop"
  /\ \E i \in {Skip(text, pos)} :
       CASE At(text, i) = "eof" -> Fail("unterminated list")
         [] At(text, i) = ")" -> stack' = Below /\ Deliver(List(Top.items), i + 1)
         [] IsDot(i) ->
              /\ stack' = [stack EXCEPT ![Len(stack)].kind = "dotted"]
              /\ phase' = "expr" /\ pos' = i + 1
              /\ UNCHANGED <<value, error>>
         [] OTHER -> phase' = "expr" /\ pos' = i /\ UNCHANGED <<stack, value, error>>
  /\ UNCHANGED <<text, packages, symbols>>

Kept(items, v) == IF Len(items) < MaxItems THEN Append(items, v) ELSE items

(* read_expr returns into the innermost open construct.                    *)
Resume ==
  /\ phase = "value" /\ stack # <<>>
  /\ CASE Top.kind = "list" ->
            /\ stack' = [stack EXCEPT ![Len(stack)].items = Kept(@, value)]
            /\ phase' = "loop" /\ UNCHANGED <<pos, value, error>>
       [] Top.kind = "dotted" ->
            IF At(text, Skip(text, pos)) # ")" THEN Fail("expected )")
            ELSE stack' = Below /\ Deliver(Dotted(Top.items, value), Skip(text, pos) + 1)
       [] Top.kind = "vector" -> stack' = Below /\ Deliver(Vec(value), pos)
       [] Top.kind \in DOMAIN Operator ->
            stack' = Below /\ Deliver(List(<<Sym(Operator[Top.kind]), value>>), pos)
       [] Top.kind = "test" ->
            /\ stack' = [stack EXCEPT ![Len(stack)].kind = "tested"]
            /\ phase' = "expr" /\ UNCHANGED <<pos, value, error>>
       [] Top.kind = "tested" -> stack' = Below /\ Deliver(value, pos)
  /\ UNCHANGED <<text, packages, symbols>>

ReaderStep == ReadExpr \/ ReadList \/ Resume

-----------------------------------------------------------------------------
ReaderTypeOK ==
  /\ PackageTypeOK
  /\ pos \in 1..Len(text)+1
  /\ phase \in Phases
  /\ \A k \in DOMAIN stack : stack[k].kind \in Kinds /\ Len(stack[k].items) <= MaxItems
  /\ value.tag \in {"nil", "symbol", "string", "char", "list", "vector", "dotted"}
  /\ error \in Errors

=============================================================================
