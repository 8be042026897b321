----------------------------- MODULE MCPrinter ------------------------------
(* Every short line, pairs of lines, and lines about symbols.              *)
EXTENDS Printer

Syntax == {"(", ")", "\"", "'", ";", "#", "\\", "a", " ", "|", "."}

Brackets == {"(", ")", "\"", "#", "\\", "a"}

Quotes == {<<"'">> \o l : l \in SeqOf({"(", ")", "#", ".", " ", "a"}, 5)}

Lines == SeqOf(Syntax, 4) \cup SeqOf(Brackets, 5) \cup Quotes

Pairs == SeqOf({"(", ")", "\"", ";", "\\", "a"}, 2) \X SeqOf({")", "\"", "\\", "a"}, 2)

(* Lines that do not fit in the buffer together.                           *)
Long(n) == [i \in 1..n |-> IF i = 1 THEN "(" ELSE "a"]

Filling == {<<Long(18), Long(n), <<")">>>> : n \in 1..4}

Tokens == {<<"a">>, <<":", "a">>, <<"cl", ":", "a">>, <<"cl", ":", ":", "a">>, <<"a", ":", "a">>,
           <<"#", ":", "a">>, <<"a", ":", "cl", ":">>}

Listed(l) == <<"(">> \o l \o <<")">>

About == Tokens \cup {Listed(t) : t \in Tokens} \cup {<<"'">> \o t : t \in Tokens}
           \cup {Listed(<<"bytecode">>), Listed(<<"interp">>), <<"'">> \o Listed(<<"a", " ", ".", " ", ":", "a">>)}

MCScripts == {<<l>> : l \in Lines} \cup Pairs \cup Filling \cup {<<l, m>> : l \in About, m \in About}

MCFiles == {<<"a", ";", "(", "\n", "a", "|", "a">>}

=============================================================================
