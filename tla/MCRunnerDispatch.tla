--------------------------- MODULE MCRunnerDispatch ---------------------------
(***************************************************************************)
(* A small instance of RunnerDispatch for TLC: one run of each of two      *)
(* users, two dispatches and a request of the first user to the            *)
(* /user-runners routes.  The first dispatch is for the first user (the    *)
(* two users are alike).  While the request is made, the second dispatch   *)
(* is for that user's run and goes no further than to the mark before a    *)
(* launch, or it was for the other user and has left a container running,  *)
(* whose address the request may name.                                     *)
(***************************************************************************)
EXTENDS RunnerDispatch, TLC

CONSTANTS r1, r2, q1, u1, u2, d1, d2

MCUserOf == r1 :> u1 @@ r2 :> u2 @@ q1 :> u1

Scene ==
    /\ disp[d1].run \in {None, r1}
    /\ \/ api[q1].pc = "idle"
       \/ disp[d2].pc \in {"idle", "find", "create", "mark"} /\ disp[d2].run \in {None, r1}
       \/ disp[d2].pc = "done" /\ disp[d2].run = r2 /\ task[d2] = "running"

=============================================================================
