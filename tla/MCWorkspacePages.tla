-------------------------- MODULE MCWorkspacePages --------------------------
EXTENDS WorkspacePages

CONSTANTS w1, w2, i1, i2, i3, p1

TheHome == [x \in {i1, i2, i3, p1} |-> IF x = i3 THEN w2 ELSE w1]

Ended(i) == [item |-> i, events |-> MaxEvents, row |-> "succeeded", listed |-> TRUE]

\* The chat has one conversation with one run, and the user acts twice; or a
\* second conversation, or a second run that has just been started, and the user
\* acts once.
ChatScene ==
    /\ existing \in {{i1}, {i1, i2}}
    /\ Len(runs) >= 1 => runs[1].item = i1 /\ runs[1].listed
    /\ Len(runs) = 2 => /\ runs[1].row = StatusAt(runs[1].events) /\ i2 \notin existing
                        /\ runs[2].item = i1 /\ runs[2].events = 1
    /\ clicks <= (IF mock \/ i2 \in existing \/ Len(runs) = 2 THEN 1 ELSE 2)
    /\ mock => i2 \notin existing /\ Len(runs) = 1

\* A board has two workspaces with an item each, whose runs are over.
BoardScene ==
    /\ existing \in {{i1}, {i1, i3}}
    /\ runs \in {<<>>, <<Ended(i1)>>, <<Ended(i1), Ended(i3)>>}

\* What does not bear on the page that is mounted does not happen: approvals
\* without the approvals board, surfaces without a detail, profiles elsewhere.
Scene ==
    /\ workspace = w1 \/ clicks > 0
    /\ IF page = "chat" THEN ChatScene ELSE BoardScene
    /\ page = "approvals" \/ \A r \in RunIds : approvals[r] = "none"
    /\ page \in {"work", "artifacts"} \/ surfaced = {}
    /\ page \in {"agents", "admin"} \/ profiles[p1] = "none"
    /\ page = "agents" => runs = <<>> /\ existing = {i1}
=============================================================================
