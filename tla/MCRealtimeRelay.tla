---- MODULE MCRealtimeRelay ----
(* Two connections, the second opened by either of two users, and a run of  *)
(* the first one; two messages, two events in one batch or two, one failure *)
(* and one repetition.                                                      *)
EXTENDS RealtimeRelay, TLC

CONSTANTS c1, c2, r1, u1, u2, w1

MCRunUser == r1 :> u1
MCRunWorkspace == r1 :> w1

\* The first connection is opened by the first user, and the second one when the
\* first is subscribed; the failure comes before it.  Events are written once a
\* client has subscribed: an insertion that names the user, and then another or
\* a removal that does not.
Subscribers == {c \in Conns : asked[c] # {}}

Scene ==
  /\ user[c1] \in {Null, u1}
  /\ socket[c2] # "none" => acked[c1] # {}
  /\ socket[c2] # "closed"
  /\ budget.failures > 0 => Len(stream) < 2 /\ socket[c2] = "none"
  /\ stream # <<>> => Subscribers # {}
  /\ \A n \in DOMAIN stream :
       /\ stream[n].name = (IF n = 1 THEN "INSERT" ELSE stream[n].name)
       /\ stream[n].name # "MODIFY"
       /\ stream[n].user = (IF n = 1 THEN u1 ELSE Null)
====
