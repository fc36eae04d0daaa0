------------------------------- MODULE MCRunView -------------------------------
(***************************************************************************)
(* RunView for TLC: its configurations give it small sets of runs and      *)
(* polls, and a short log.                                                 *)
(***************************************************************************)
EXTENDS RunView, TLC

=============================================================================
