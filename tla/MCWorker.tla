------------------------------ MODULE MCWorker ------------------------------
(***************************************************************************)
(* Worker for TLC: its configuration gives it two attempts of one run, and *)
(* two engagements of the run's user meanwhile.                            *)
(***************************************************************************)
EXTENDS Worker

=============================================================================
