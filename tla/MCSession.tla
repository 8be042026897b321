----------------------------- MODULE MCSession ------------------------------
(***************************************************************************)
(* Sessions of a definition of F, a declaration of S, and a form built of  *)
(* one binding form around another around what gives values.               *)
(***************************************************************************)
EXTENDS Session

N(i) == Const(Fix(i))

Show == Call("LIST", <<Var("X"), Var("Y"), Var("S")>>)

(* Bodies of F, which has the parameter X and an optional one, Y.          *)
Bodies ==
  {<<Call("VALUES", <<Var("X"), Var("S")>>)>>,
   <<Setq(<<"S", "Y">>, <<Var("X"), Var("S")>>), Show>>,
   <<Setq(<<"Y">>, <<Lambda(<<>>, 0, FALSE, <<Setq(<<"X">>, <<Call("+", <<Var("X"), N(1)>>)>>)>>)>>),
     Call("FUNCALL", <<Var("Y")>>), Var("Y")>>,
   <<Define("defun", "F", Lambda(<<"Y">>, 0, FALSE, <<Call("VALUES", <<Var("Y"), Var("X")>>)>>)),
     Call("VALUES", <<N(8)>>)>>}

Declared == {Setq(<<"S">>, <<N(1)>>), Define("defvar", "S", N(1))}

Givers ==
  {N(3), Var("Y"), Var("S"), Call("VALUES", <<N(4), N(5)>>),
   Special("progn", <<Call("VALUES", <<N(4), N(5)>>), Call("VALUES", <<>>)>>),
   Call("VALUES", <<Call("VALUES", <<N(6), N(7)>>), N(8), N(9)>>),
   Call("F", <<N(2)>>), Call("F", <<N(2), N(3)>>), Call("F", <<>>),
   Call("FUNCALL", <<FunctionOf("F"), Call("VALUES", <<N(4), N(5)>>)>>),
   Call("FUNCALL", <<Call("F", <<N(1)>>)>>),
   Call("F", <<Define("defun", "F", Lambda(<<"X">>, 0, FALSE, <<Show>>))>>),
   Setq(<<"X">>, <<Call("VALUES", <<N(4), N(5)>>)>>)}

Around(f) ==
  {Let(h, vs, <<f, Var("X"), Show>>) : h \in {"let", "let*"},
                                       vs \in {<<"X", "Y">>, <<"S", "X">>, <<"Y", "S">>}}
    \cup {Let(h, <<"X", "Y">>, <<f, N(7), Call("F", <<Var("X")>>)>>) : h \in {"let", "let*"}}
    \cup {Mvb(vs, <<f, Show>>) : vs \in {<<"X", "Y">>, <<"X">>, <<"S", "Y">>}}
    \cup {Special("progn", <<f, Call("VALUES", <<Var("X"), N(1)>>)>>),
          Special("progn", <<Setq(<<"X">>, <<N(0)>>), f>>),
          Special("if", <<f, Call("VALUES", <<N(1), Var("X")>>), N(2)>>),
          Special("if", <<Var("Y"), N(2), f>>),
          Let("let", <<"S">>, <<N(5), f>>),
          Call("LIST", <<f, Var("X")>>),
          Call("FUNCALL", <<Lambda(<<"X", "Y">>, 1, FALSE, <<Show>>), f>>),
          Setq(<<"Y", "X">>, <<f, Var("Y")>>)}
    \cup {Flet("labels", <<"G">>, <<Lambda(<<"Y">>, 1, FALSE,
                                           <<Special("if", <<Var("Y"), Call("G", <<>>), f>>)>>),
                                    Call("G", <<N(1)>>)>>),
          Flet("flet", <<"G">>, <<Lambda(<<"Y">>, 0, FALSE, <<f, Var("Y")>>), Call("G", <<Var("X")>>)>>)}

Forms2 == UNION {Around(f) : f \in UNION {Around(g) : g \in Givers} \cup Givers}

MCPrograms ==
  {<<Special("progn", <<d, Setq(<<"X", "Y">>, <<N(10), N(20)>>),
                       Define("defun", "F", Lambda(<<"X", "Y">>, 1, FALSE, b))>>), f, Show>> :
     d \in Declared, b \in Bodies, f \in Forms2}

MCSymbols == {"F", "G", "X", "Y", "S", "+", "LIST", "VALUES", "FUNCALL"}
=============================================================================
