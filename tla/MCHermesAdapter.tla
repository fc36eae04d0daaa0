---- MODULE MCHermesAdapter ----
(* Two wakes of one or two agents, a registration of either, two uploads of  *)
(* credentials and three requests, of the paths that bear on one another, of *)
(* which one is on its way at a time (any may be posted at any time), and an *)
(* output in which unusable blocks stand before, between and after usable    *)
(* ones.                                                                     *)
EXTENDS HermesAdapter

Garbage == [type |-> "garbage", payload |-> "ok"]
Legacied == [type |-> "work_item.created", payload |-> "ok"]
Invalid == [type |-> "artifact.created", payload |-> "invalid"]
Long == [type |-> "browser.control.requested", payload |-> "long"]

MCOutputs == {<<Garbage, Legacied, Invalid, Long, Garbage>>}

MCTraffic == {{"/wake", "/agents"}, {"/wake", "/engagement"},
              {"/wake", "/credentials/hermes-auth"}, {"/wake", "/shutdown"}}
====
