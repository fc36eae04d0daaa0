------------------------------ MODULE EventLog ------------------------------
(***************************************************************************)
(* What the writers of a run's events promise to the readers of its log:   *)
(* an event is appended at a position that is free and stays there as it   *)
(* is.  Readers page through the log by position and merge by event id, so *)
(* a position that changed would be shown twice or not at all.             *)
(***************************************************************************)
EXTENDS Naturals

CONSTANT First      \* the log of a run that was just created

VARIABLE log        \* the events: records with a position, seq

Append(e) ==
    /\ \A f \in log : f.seq # e.seq
    /\ log' = log \union {e}

Init == log = First

Next == \E e \in log' : Append(e)

Spec == Init /\ [][Next]_log

=============================================================================
