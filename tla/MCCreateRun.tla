----------------------------- MODULE MCCreateRun -----------------------------
(***************************************************************************)
(* A small instance of CreateRun for TLC.  The liveness properties rule    *)
(* out symmetry.                                                           *)
(***************************************************************************)
EXTENDS CreateRun, TLC

=============================================================================
