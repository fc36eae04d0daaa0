--------------------------- MODULE MCResidentRunner ---------------------------
(***************************************************************************)
(* A small instance of ResidentRunner for TLC: two wakes of one run, two   *)
(* engagements, one registration of an agent and one restart, of which a   *)
(* behaviour is one of three scenes.                                       *)
(***************************************************************************)
EXTENDS ResidentRunner, TLC

CONSTANTS w1, w2, r1, r2, a1, a2, x1, x2

SameRun == w1 :> r1 @@ w2 :> r1
OneAgent == <<a1>>
AllOutcomes == [ok : BOOLEAN, action : {"none", "event", "artifact"}]

Unasked(s) == \A k \in DOMAIN s : s[k].pc = "idle"

Actions == {wake[w].action : w \in Wakes}

\* A wake and two engagements, or one over a restart; of two engagements or two
\* wakes it does not matter which comes first.
Engaging == /\ wake[w2].pc = "idle" /\ Unasked(reg)
            /\ engage[x1].pc = "idle" => engage[x2].pc = "idle"
            /\ restarts = 0 \/ engage[x2].pc = "idle"
            /\ <<wake[w1].ok, wake[w1].action>> \in
                 {<<TRUE, "none">>, <<TRUE, "artifact">>, <<FALSE, "event">>}

\* A wake of all agents or of one, while an agent is registered.
Registering == wake[w2].pc = "idle" /\ Unasked(engage) /\ restarts = 0

\* Two wakes whose agents ask for no events; only the first may fail.
Overlapping == /\ Unasked(engage) /\ Unasked(reg) /\ restarts = 0 /\ Actions = {"none"}
               /\ wake[w1].pc = "idle" => wake[w2].pc = "idle"
               /\ wake[w2].pc # "rejected" /\ wake[w2].ok

Scene == Engaging \/ Registering \/ Overlapping

=============================================================================
