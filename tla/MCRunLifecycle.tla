--------------------------- MODULE MCRunLifecycle ---------------------------
(***************************************************************************)
(* An instance of RunLifecycle for TLC: one run whose CLI may print two    *)
(* lines, and one whose CLI may print one.                                 *)
(***************************************************************************)
EXTENDS RunLifecycle, TLC

CONSTANTS r1, r2

MCRuns == {r1, r2}
MCLines == (r1 :> 2) @@ (r2 :> 1)
=============================================================================
