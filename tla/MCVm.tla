-------------------------------- MODULE MCVm --------------------------------
(***************************************************************************)
(* Forms to run.  One binary special form or call in each place of another *)
(* form, the atoms among them a number that fits an operand, one that is   *)
(* one too large and the least that fits; recursive functions, loops that  *)
(* swap their parameters, closures, too many operands for the stack.       *)
(***************************************************************************)
EXTENDS VmCorrect, TLC

N(i) == Const(Fix(i))
Nl   == Const(NilV)
T    == Const(TV)

Atoms == {Nl, N(1), N(64), N(-64), Quote(Sym("X")), Var("X"), Var("Y"), Var("PI")}

Few == {Nl, N(2), Var("X")}

Simple ==
  Atoms
    \cup {Call(s, <<a, b>>) : s \in {"+", "-", "<", "MOD", "REM", "CONS", "EQ"},
                              a \in {N(-3), Var("X")}, b \in {Nl, N(0), N(2)}}
    \cup {Call(s, <<a>>) : s \in {"CAR", "NOT", "-", "+"}, a \in Few}
    \cup {Call("CDR", <<Call("LIST", <<a, N(1)>>)>>) : a \in Few}
    \cup {Special(h, <<a, b>>) : h \in {"and", "or", "if", "when", "unless"},
                                 a \in Few, b \in {Var("X"), N(5)}}
    \cup {Special("if", <<a, N(1), N(5)>>) : a \in Few}
    \cup {Special("cond", <<Clause(<<a, N(1)>>), Clause(<<b, N(5), Var("X")>>)>>) :
            a \in Few, b \in {Nl, T}}
    \cup {Special("cond", <<Clause(<<a>>), Clause(<<b>>)>>) : a \in Few, b \in {Nl, T}}
    \cup {Special(h, <<>>) : h \in {"and", "or", "progn", "cond"}}
    \cup {Setq(<<"X">>, <<N(7)>>), Setq(<<"X", "Y">>, <<N(7), Var("X")>>), Setq(<<>>, <<>>),
          Setq(<<"PI">>, <<N(7)>>)}
    \cup {Let(h, <<"A", "B">>, <<Var("X"), N(3), Call("-", <<Var("A"), Var("B")>>)>>) :
            h \in {"let", "let*"}}
    \cup {Call("F", <<N(i), N(1)>>) : i \in 0..3} \cup {Call("F", <<N(1)>>), Call("G", <<>>)}

(* f in each place of another form.                                        *)
Around(f) ==
  <<f,
   Special("progn", <<f, Var("X")>>), Special("progn", <<Var("X"), f>>),
   Special("if", <<f, N(1), N(2)>>), Special("if", <<N(1), f, N(2)>>),
   Special("if", <<Nl, N(1), f>>),
   Special("and", <<f, N(1)>>), Special("or", <<f, N(1)>>), Special("or", <<Nl, f, N(1)>>),
   Special("when", <<f, N(1), Var("X")>>), Special("unless", <<f, N(1)>>),
   Special("cond", <<Clause(<<f, N(1)>>), Clause(<<T, N(2)>>)>>),
   Special("cond", <<Clause(<<Nl, N(1)>>), Clause(<<T, f>>)>>),
   Setq(<<"X">>, <<f>>),
   Call("CONS", <<f, Var("X")>>), Call("LIST", <<Var("X"), f>>), Call("NOT", <<f>>),
   Call("F", <<N(2), f>>), Call("FUNCALL", <<FunctionOf("F"), N(2), f>>),
   Call("FUNCALL", <<FunctionOf("FUNCALL"), Quote(Sym("F")), N(1), f>>),
   CallForm(<<Lambda(<<"A", "B">>, 0, FALSE,
                     <<Setq(<<"A">>, <<Call("CONS", <<Var("B"), Var("A")>>)>>), Var("A")>>),
              f, N(5)>>)>>

(* (lambda (a b) (if (< a 1) b (f ...)))                                   *)
Recursive(again) ==
  Lambda(<<"A", "B">>, 1, FALSE,
         <<Special("if", <<Call("<", <<Var("A"), N(1)>>), Var("B"), again>>)>>)

Less(v) == Call("-", <<Var(v), N(1)>>)

Gather   == Recursive(Call("F", <<Less("A"), Call("+", <<Var("A"), Var("B")>>)>>))
Swap     == Recursive(Call("F", <<Less("B"), Var("A")>>))
Forget   == Recursive(Call("F", <<Less("A")>>))
Tally    == Recursive(Call("CONS", <<N(1), Call("F", <<Less("A"), Var("B")>>)>>))
Applying == Recursive(Call("FUNCALL", <<FunctionOf("F"), Less("A"), Var("B")>>))
Rest     == Lambda(<<"A", "B">>, 0, TRUE, <<Call("LIST", <<Var("A"), Var("B")>>)>>)
Adder    == Lambda(<<"A", "B">>, 0, FALSE,
                   <<Lambda(<<"C">>, 0, FALSE, <<Call("+", <<Var("A"), Var("C")>>)>>)>>)
Second   == Lambda(<<"A", "B">>, 0, FALSE,
                   <<Lambda(<<"C">>, 0, FALSE, <<Setq(<<"B">>, <<Var("C")>>), Var("B")>>)>>)
Passing  == Lambda(<<"A", "B">>, 0, FALSE,
                   <<Lambda(<<"C">>, 0, FALSE,
                            <<Lambda(<<"D">>, 0, FALSE, <<Call("LIST", <<Var("A"), Var("D")>>)>>)>>)>>)

MCLoops == {Gather, Swap, Forget}

(* The form with the closure F returns called, twice.                      *)
UseClosure(i) ==
  CallForm(<<Lambda(<<"H">>, 0, FALSE,
                    <<Call("LIST", <<Call("FUNCALL", <<Var("H"), N(i)>>),
                                     Call("FUNCALL", <<Var("H"), Var("X")>>)>>)>>),
             Call("F", <<N(10), N(20)>>)>>)

(* Calls of what is not a function, of a variable's value, of natives with *)
(* more or fewer arguments than they take.                                 *)
OddCalls ==
  {Call("X", <<N(1)>>), Special("progn", <<Setq(<<"G">>, <<Lambda(<<"A">>, 0, FALSE, <<Var("A")>>)>>),
                                          Call("G", <<N(3)>>)>>),
   Call("FUNCALL", <<>>), Call("FUNCALL", <<FunctionOf("CONS"), N(1)>>),
   Call("FUNCALL", <<FunctionOf("CAR"), N(1), N(2)>>), Call("CAR", <<N(1), N(2)>>),
   Call("CAR", <<>>), Call("<", <<>>), Call("<", <<N(1), N(2), Var("X")>>),
   Call("+", <<N(1), N(2), N(3)>>), Call("-", <<N(9), N(2), N(3)>>),
   Call("FUNCALL", <<FunctionOf("LIST"), N(1), N(2)>>),
   Call("FUNCALL", <<Quote(Sym("FUNCALL")), Quote(Sym("F")), N(1), N(2)>>),
   Call("FUNCALL", <<Quote(Sym("FUNCALL")), Quote(Sym("CAR")), N(1)>>),
   Call("FUNCALL", <<Quote(Sym("FUNCALL"))>>),
   Call("FUNCALL", <<FunctionOf("CONS"), N(1), N(2)>>),
   Call("FUNCALL", <<FunctionOf("REM"), N(-3), N(2)>>),
   Call("FUNCALL", <<FunctionOf("CDR"), Call("LIST", <<N(1), N(2)>>)>>),
   Special("progn", <<Call("F", <<N(3), N(1)>>), Call("FUNCALL", <<FunctionOf("F"), N(1), N(1)>>)>>),
   Call("LIST", [i \in 1..StackSize |-> N(i)])}

RECURSIVE Listing(_)
Listing(S) == IF S = {} THEN <<>> ELSE LET x == CHOOSE x \in S : TRUE
                                      IN  <<x>> \o Listing(S \ {x})

Sources(def, forms) == [k \in DOMAIN forms |-> [def |-> def, form |-> forms[k]]]

(* Every simple form in every place, then the calls of the functions.      *)
MCSources ==
  LET simple == Listing(Simple)
      n      == Len(Around(Nl))
      nested == [k \in 1..n * Len(simple) |-> Around(simple[((k - 1) \div n) + 1])[((k - 1) % n) + 1]]
      calls  == [k \in 1..20 |-> Call("F", <<N((k - 1) % 5), N((k - 1) \div 5)>>)]
      uses   == <<UseClosure(1), UseClosure(2)>>
  IN  Sources(Gather, nested \o Listing(OddCalls))
        \o Sources(Swap, calls) \o Sources(Forget, calls) \o Sources(Tally, calls)
        \o Sources(Applying, calls) \o Sources(Rest, calls)
        \o Sources(Adder, uses) \o Sources(Second, uses) \o Sources(Passing, uses)

MCCount == Len(MCSources)

MCProgramAt(k) == Program("F", MCSources[k].def, "X", Fix(4), MCSources[k].form)

MCSymbols == DOMAIN MinArgs \cup {"F", "G", "X", "Y", "A", "B", "C", "D", "H", "PI"}

MCConstants == {"PI"}
=============================================================================
