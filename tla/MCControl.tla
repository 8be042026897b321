----------------------------- MODULE MCControl ------------------------------
(***************************************************************************)
(* Control on a small instance.  One block name, one catch tag and one     *)
(* label are enough for a transfer to have a match, several matches or     *)
(* none at every level (a tagbody may be without the label); five          *)
(* activations give the REPL's frame, a tagbody, and three nested          *)
(* constructs between it and the transfer.                                 *)
(***************************************************************************)
EXTENDS Control
=============================================================================
