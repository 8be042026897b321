-------------------------------- MODULE MCGc --------------------------------
(***************************************************************************)
(* Gc on a small heap.  Three addresses are enough for a chain, a cycle, a *)
(* shared object, garbage that refers to live objects and live objects     *)
(* that refer to garbage, and for an address to be handed out again while  *)
(* an old reference to it exists; an object has two fields, like a cons.   *)
(***************************************************************************)
EXTENDS Gc, TLC

Addresses == Permutations(Obj)
=============================================================================
