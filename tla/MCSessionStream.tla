--------------------------- MODULE MCSessionStream ---------------------------
(***************************************************************************)
(* Instances of SessionStream for TLC.                                     *)
(***************************************************************************)
EXTENDS SessionStream, TLC

Symmetry == Permutations(Conns) \cup Permutations(Appenders)
=============================================================================
