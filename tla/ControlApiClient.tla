-------------------------- MODULE ControlApiClient --------------------------
(***************************************************************************)
(* The Control API as the browser meets it: what the server holds (in mock *)
(* mode, the maps in control-api.ts), what a request answers or changes,   *)
(* and the requests under way.  A request is sent, answered, and taken by  *)
(* the page that sent it in three steps: its answer may be old by then.    *)
(***************************************************************************)
EXTENDS Naturals, FiniteSets, Sequences

CONSTANTS
    Workspaces, Items, Profiles,
    Home,           \* the workspace of a work item or a profile
    MaxRuns, MaxEvents,
    PollLimit,      \* how many events a poll of one run asks for
    MaxClicks,      \* how often the user acts
    Slots,          \* 1..n: how many requests are under way at a time
    None

ASSUME ControlApiAssumption ==
    /\ Home \in [Items \union Profiles -> Workspaces]
    /\ MaxRuns \in Nat /\ MaxEvents \in Nat \ {0, 1, 2} /\ PollLimit \in Nat /\ MaxClicks \in Nat
    /\ Slots \subseteq Nat /\ Slots # {}
    /\ None \notin Workspaces \union Items \union Profiles

VARIABLES
    mock,           \* NEXT_PUBLIC_AGENTS_CLOUD_API_MOCK
    existing,       \* the work items there are
    surfaced,       \* those with a published surface
    runs,           \* the runs, the oldest first
    approvals,      \* approvals[r]: the approval that run r asks for
    profiles,       \* profiles[p]: the lifecycle state of a profile
    calls,          \* calls[s]: a request under way
    page,           \* the page that is mounted
    workspace,      \* the workspace chosen in the top bar
    clicks          \* what the user has done

server == <<mock, existing, surfaced, runs, approvals, profiles>>
api == <<server, calls, workspace, clicks>>

RunIds == 1..MaxRuns
ArtifactSeq == MaxEvents - 1
StatusAt(seq) == IF seq = 1 THEN "queued" ELSE IF seq = MaxEvents THEN "succeeded" ELSE "running"

-----------------------------------------------------------------------------
(***************************************************************************)
(* What happens to runs elsewhere.  The log of a run is ahead of its row,  *)
(* and the index that lists the runs of a work item lags behind both; in   *)
(* mock mode all three are read off the clock.                             *)
(***************************************************************************)

Progress(r) ==
    LET seq == runs[r].events + 1 IN
    /\ seq <= MaxEvents
    /\ runs' = [runs EXCEPT ![r].events = seq, ![r].row = IF mock THEN StatusAt(seq) ELSE @]
    /\ UNCHANGED <<mock, existing, surfaced, approvals, profiles>>

UpdateRow(r) ==
    /\ runs' = [runs EXCEPT ![r].row = StatusAt(runs[r].events)]
    /\ UNCHANGED <<mock, existing, surfaced, approvals, profiles>>

IndexRun(r) ==
    /\ runs' = [runs EXCEPT ![r].listed = TRUE]
    /\ UNCHANGED <<mock, existing, surfaced, approvals, profiles>>

PublishSurface(i) ==
    /\ ~mock
    /\ surfaced' = surfaced \union {i}
    /\ UNCHANGED <<mock, existing, runs, approvals, profiles>>

RequestApproval(r) ==
    /\ ~mock /\ approvals[r] = "none"
    /\ approvals' = [approvals EXCEPT ![r] = "requested"]
    /\ UNCHANGED <<mock, existing, surfaced, runs, profiles>>

\* decideControlApiApproval, from here or from another browser: the server
\* refuses an approval that is decided.
DecideApproval(r, decision) ==
    /\ approvals[r] = "requested"
    /\ approvals' = [approvals EXCEPT ![r] = decision]
    /\ UNCHANGED <<mock, existing, surfaced, runs, profiles>>

\* A run of a work item, started from here or from elsewhere.  The idempotency
\* key has the time in it, so that a second click, or a second try, is another
\* request.
StartWorkItemRun(ws, item) ==
    /\ item \in existing /\ Home[item] = ws
    /\ Len(runs) < MaxRuns
    /\ runs' = Append(runs, [item |-> item, events |-> 1, row |-> "queued", listed |-> mock])
    /\ UNCHANGED <<mock, existing, surfaced, approvals, profiles>>

RunStep(r) == Progress(r) \/ UpdateRow(r) \/ IndexRun(r)
ServerStep ==
    /\ \/ \E r \in DOMAIN runs : RunStep(r) \/ RequestApproval(r)
       \/ \E r \in DOMAIN runs, d \in {"approved", "rejected"} : DecideApproval(r, d)
       \/ \E i \in existing : PublishSurface(i) \/ StartWorkItemRun(Home[i], i)
    /\ UNCHANGED <<calls, workspace, clicks>>

-----------------------------------------------------------------------------
\* What requests answer.
ItemRow(i) == [id |-> i, ws |-> Home[i], status |-> "open"]
RunRow(r) == [id |-> r, ws |-> Home[runs[r].item], status |-> runs[r].row]
ApprovalRow(r) == [id |-> r, ws |-> Home[runs[r].item], status |-> approvals[r]]
ProfileRow(p) == [id |-> p, ws |-> Home[p], status |-> profiles[p]]

ListWorkItems(ws) == {ItemRow(i) : i \in {j \in existing : Home[j] = ws}}

RunsOf(ws, item) == {r \in DOMAIN runs : runs[r].item = item /\ Home[item] = ws /\ runs[r].listed}
ListWorkItemRuns(ws, item) == {RunRow(r) : r \in RunsOf(ws, item)}
ListWorkItemEvents(ws, item) == UNION {{r} \X (1..runs[r].events) : r \in RunsOf(ws, item)}
ListWorkItemArtifacts(ws, item) ==
    {r \in RunsOf(ws, item) : runs[r].events >= ArtifactSeq} \X {ArtifactSeq}
ListWorkItemSurfaces(ws, item) == ({item} \intersect surfaced) \X {0}

ListRunEvents(r, limit) == {r} \X {seq \in 1..runs[r].events : seq <= limit}
\* There is no mock of the approvals: in mock mode the request is not sent.
ListRunApprovals(r) == IF mock \/ approvals[r] = "none" THEN {} ELSE {ApprovalRow(r)}

ListAdminRuns == {RunRow(r) : r \in DOMAIN runs}
ListAdminRunEvents(r) == {r} \X (1..runs[r].events)
ListAgentProfiles(ws) ==
    {ProfileRow(p) : p \in {q \in Profiles : profiles[q] # "none" /\ ws \in {None, Home[q]}}}
GetAgentProfile(ws, p) == {row \in ListAgentProfiles(ws) : row.id = p}

\* What requests change.
CreateWorkItem(ws, i) ==
    /\ i \in Items \ existing /\ Home[i] = ws
    /\ existing' = existing \union {i}
    /\ UNCHANGED <<mock, surfaced, runs, approvals, profiles>>

\* The server refuses a version that exists; the mock replaces it.
CreateAgentProfileDraft(p) ==
    /\ mock \/ profiles[p] = "none"
    /\ profiles' = [profiles EXCEPT ![p] = "draft"]
    /\ UNCHANGED <<mock, existing, surfaced, runs, approvals>>

ApproveAgentProfile(p) ==
    /\ profiles[p] # "none"
    /\ profiles' = [profiles EXCEPT ![p] = "approved"]
    /\ UNCHANGED <<mock, existing, surfaced, runs, approvals>>

-----------------------------------------------------------------------------
(***************************************************************************)
(* Requests.  "wanted" are the parts of a Promise.all that have no answer. *)
(* A request that its effect has cancelled, or whose page is gone, is not  *)
(* waited for any more and leaves its slot, unless it changes something.   *)
(***************************************************************************)
Request(kind, ws, id, parts) ==
    [kind |-> kind, ws |-> ws, id |-> id, arg |-> "none", wanted |-> parts, ok |-> TRUE,
     rows |-> {}, entries |-> {}]
NoCall == Request("none", None, None, {})

Free(under) == {s \in Slots : under[s].kind = "none"}
Send(under, request) ==
    [under EXCEPT ![CHOOSE s \in Free(under) : \A t \in Free(under) : s <= t] = request]
Cancelled(under, kinds) == [s \in Slots |-> IF under[s].kind \in kinds THEN NoCall ELSE under[s]]
Taken(s) == [calls EXCEPT ![s] = NoCall]

Rows(part, call) ==
    CASE part = "items" -> ListWorkItems(call.ws)
      [] part = "runs" -> ListWorkItemRuns(call.ws, call.id)
      [] part = "runsOfItems" -> UNION {ListWorkItemRuns(call.ws, row.id) : row \in call.rows}
      [] part = "approvals" -> UNION {ListRunApprovals(row.id) : row \in call.rows}
      [] part = "adminRuns" -> ListAdminRuns
      [] part = "profiles" -> ListAgentProfiles(call.ws)
      [] part = "profile" -> GetAgentProfile(call.ws, call.id)
      [] OTHER -> {}

Entries(part, call) ==
    CASE part = "events" -> ListWorkItemEvents(call.ws, call.id)
      [] part = "artifacts" -> ListWorkItemArtifacts(call.ws, call.id)
      [] part = "surfaces" -> ListWorkItemSurfaces(call.ws, call.id)
      [] part = "runEvents" -> ListRunEvents(call.id, PollLimit)
      [] part = "lineage" -> ListAdminRunEvents(call.id)
      [] OTHER -> {}

\* Parts of a request are answered, those in "lost" with an error.  A part
\* that the page asks for with a catch is empty then, others fail the request.
Caught == {"runs", "events", "artifacts", "surfaces", "runsOfItems", "approvals"}
Answered(call, parts, lost) ==
    LET fresh == parts \intersect {"runsOfItems", "approvals"} = {} IN
    [call EXCEPT
        !.wanted = @ \ parts,
        !.ok = @ /\ lost \subseteq Caught,
        !.rows = (IF fresh THEN @ ELSE {}) \union UNION {Rows(part, call) : part \in parts \ lost},
        !.entries = @ \union UNION {Entries(part, call) : part \in parts \ lost}]

Read(s, parts, lost) ==
    /\ parts # {} /\ parts \subseteq calls[s].wanted /\ "write" \notin parts
    /\ lost = {} \/ ~mock
    /\ calls' = [calls EXCEPT ![s] = Answered(@, parts, lost)]
    /\ UNCHANGED <<server, workspace, clicks>>

Answer(s, ok, rows) ==
    calls' = [calls EXCEPT ![s] = [@ EXCEPT !.wanted = {}, !.ok = ok, !.rows = IF ok THEN rows ELSE {}]]

\* A request that changes something fails, is served, or is served and its
\* answer is lost.
Write(s) ==
    LET call == calls[s] IN
    /\ call.wanted = {"write"}
    /\ \/ Answer(s, FALSE, {}) /\ UNCHANGED server
       \/ \E ok \in {TRUE, mock} :
          \/ call.kind = "start" /\ StartWorkItemRun(call.ws, call.id) /\ Answer(s, ok, {})
          \/ /\ call.kind = "create"
             /\ \E i \in Items : CreateWorkItem(call.ws, i) /\ Answer(s, ok, {ItemRow(i)})
          \/ /\ call.kind = "decide" /\ DecideApproval(call.id, call.arg)
             /\ Answer(s, ok, {[ApprovalRow(call.id) EXCEPT !.status = call.arg]})
          \/ /\ call.kind = "draft" /\ CreateAgentProfileDraft(call.id)
             /\ Answer(s, ok, {[ProfileRow(call.id) EXCEPT !.status = "draft"]})
          \/ /\ call.kind = "approve" /\ ApproveAgentProfile(call.id)
             /\ Answer(s, ok, {[ProfileRow(call.id) EXCEPT !.status = "approved"]})
    /\ UNCHANGED <<workspace, clicks>>

\* A step of the user, and the answer of a request as its page meets it.
Click == clicks < MaxClicks /\ clicks' = clicks + 1 /\ UNCHANGED server

Arrived(s, kind) ==
    /\ calls[s].kind = kind /\ calls[s].wanted = {}
    /\ UNCHANGED <<server, workspace, clicks>>

-----------------------------------------------------------------------------
RunType == [item : Items, events : 1..MaxEvents, row : {"queued", "running", "succeeded"}, listed : BOOLEAN]
RowType == [id : Items \union Profiles \union RunIds, ws : Workspaces,
            status : {"open", "queued", "running", "succeeded", "draft", "approved", "requested", "rejected"}]
EntryType == (RunIds \union Items) \X (0..MaxEvents)
ApiType ==
    /\ mock \in BOOLEAN
    /\ existing \subseteq Items /\ surfaced \subseteq existing
    /\ Len(runs) <= MaxRuns /\ \A r \in DOMAIN runs : runs[r] \in RunType
    /\ approvals \in [RunIds -> {"none", "requested", "approved", "rejected"}]
    /\ profiles \in [Profiles -> {"none", "draft", "approved"}]
    /\ \A s \in Slots : calls[s].rows \subseteq RowType /\ calls[s].entries \subseteq EntryType
    /\ workspace \in Workspaces /\ clicks \in 0..MaxClicks

\* The page is opened at any moment in the lives of the runs there are.
RunHistory ==
    {run \in RunType : /\ run.item \in existing
                       /\ \E seq \in 1..run.events : run.row = StatusAt(seq)
                       /\ mock => run.row = StatusAt(run.events) /\ run.listed}

ApiInit ==
    /\ mock \in BOOLEAN
    /\ existing \in SUBSET Items /\ surfaced = {}
    /\ \E n \in 0..MaxRuns : runs \in [1..n -> RunHistory]
    /\ approvals = [r \in RunIds |-> "none"]
    /\ profiles \in [Profiles -> {"none", "draft"}]
    /\ workspace \in Workspaces /\ clicks = 0
=============================================================================
