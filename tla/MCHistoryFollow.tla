--------------------------- MODULE MCHistoryFollow ---------------------------
(***************************************************************************)
(* Instances of HistoryFollow for TLC.                                     *)
(***************************************************************************)
EXTENDS HistoryFollow
=============================================================================
