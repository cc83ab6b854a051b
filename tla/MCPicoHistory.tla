--------------------------- MODULE MCPicoHistory ----------------------------
(***************************************************************************)
(* Instances of PicoHistory for TLC.                                       *)
(***************************************************************************)
EXTENDS PicoHistory, TLC
=============================================================================
