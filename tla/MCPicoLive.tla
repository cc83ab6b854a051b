----------------------------- MODULE MCPicoLive -----------------------------
(***************************************************************************)
(* Instances of PicoLive for TLC.                                          *)
(***************************************************************************)
EXTENDS PicoLive, TLC

Symmetry == Permutations(Runs) \cup Permutations(Watchers)
=============================================================================
