----------------------------- MODULE MCRecords -----------------------------
(***************************************************************************)
(* Instances of Records: a user of two workspaces, and an admin who shares *)
(* one of them.  Each scenario is one family of operations; three          *)
(* invocations where the second one needs what the first one stored.       *)
(***************************************************************************)
EXTENDS Records

CONSTANTS wA, wB, c1, c2, c3

Ana == [user |-> "ana", ws |-> wA, groups |-> {"user"}]
AnaElsewhere == [user |-> "ana", ws |-> wB, groups |-> {"user"}]
Bob == [user |-> "bob", ws |-> wA, groups |-> {"admin"}]
Eve == [user |-> "ana", ws |-> wA, groups |-> {"user", "suspended"}]

MCCallers == {Ana, AnaElsewhere, Bob, Eve}
MCFounder == Ana

Scene(ops, callers, calls) == [ops |-> ops, callers |-> callers, calls |-> calls]

MCScenarios ==
    {Scene({"createWorkItem", "updateWorkItemStatus"}, {Ana, AnaElsewhere, Bob}, {c1, c2}),
     Scene({"createWorkItem", "createWorkItemRun", "artifacts"}, {Ana, AnaElsewhere}, {c1, c2}),
     Scene({"createWorkItem", "createDataSourceRef"}, {Ana, AnaElsewhere, Bob}, {c1, c2}),
     Scene({"createApproval", "decideApproval"}, {Ana}, {c1, c2, c3}),
     Scene({"createApproval", "decideApproval"}, MCCallers, {c1, c2}),
     Scene({"createWorkItem", "createApproval"}, {Ana, Bob}, {c1, c2}),
     Scene({"createSurface", "updateSurface", "publishSurface"}, {Ana}, {c1, c2, c3}),
     Scene({"createSurface", "updateSurface"}, {Ana, AnaElsewhere, Bob}, {c1, c2}),
     Scene({"createAgentProfileDraft", "approveAgentProfileVersion"}, {Ana}, {c1, c2, c3}),
     Scene({"createAgentProfileDraft", "approveAgentProfileVersion"}, {Ana, Bob}, {c1, c2}),
     Scene({"registerHostNode", "heartbeatHostNode"}, {Ana, Bob}, {c1, c2}),
     Scene({"userEngagement", "events"}, {Ana, Bob}, {c1, c2})}

=============================================================================
