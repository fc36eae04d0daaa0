---- MODULE MCLocalHarness ----
(* One directory in which two scenarios may run, with two run ids (the same   *)
(* one may be used twice) and one task id that may be given for both.       *)
EXTENDS LocalHarness
====
