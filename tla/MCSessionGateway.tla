-------------------------- MODULE MCSessionGateway --------------------------
(***************************************************************************)
(* Instances of SessionGateway for TLC.                                    *)
(***************************************************************************)
EXTENDS SessionGateway, TLC

Symmetry == Permutations(Callers) \cup Permutations(Metas)
=============================================================================
