----------------------------- MODULE MCGenerics -----------------------------
(* Small programs: a few classes, generics of two parameters.              *)
EXTENDS Generics, TLC

CONSTANTS a, b, c, d

MCSlotLists == {<<"x", "y", "x">>}
MCSuperLists == SeqOf(Names \cup {"STANDARD-OBJECT"}, 2)
MCArgLists == {<<n, n>> : n \in Names \cup {"STANDARD-OBJECT"}} \cup {<<n>> : n \in Names}
MCSpecLists == {<<n, m>> \in (Names \cup {"T"}) \X (Names \cup {"T"}) : m \in {n, "T"}} \cup {<<n>> : n \in Names}
MCRequired == [g \in GenericNames |-> 2]
MCSymmetry == Permutations(Names)

=============================================================================
