--------------------------- MODULE MCSessionTable ---------------------------
(***************************************************************************)
(* Instances of SessionTable for TLC.                                      *)
(***************************************************************************)
EXTENDS SessionTable, TLC

Symmetry == Permutations(Callers)
=============================================================================
