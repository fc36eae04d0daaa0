------------------------------ MODULE Records ------------------------------
(***************************************************************************)
(* The records of the Control API: work items and the runs started from    *)
(* them, approvals, surfaces, data source references, agent profiles, host *)
(* nodes, artifacts, and the events that user engagement appends to a      *)
(* run's log.  A request c is one invocation of a Lambda handler: it goes  *)
(* through req[c].pc, one action per call that it awaits, and interleaves  *)
(* with the others.  Creating a run is one step here: CreateRun has the    *)
(* details.  A read by key sees the current row.  An older copy is what    *)
(* the same request would have read had it come earlier.                   *)
(***************************************************************************)
EXTENDS Integers, FiniteSets

CONSTANTS
    Requests,       \* invocations; the random ids they draw are named by them
    Callers,        \* who calls: [user, ws, groups]
    AdminEmails,    \* users that are admins by their e-mail address
    Keys,           \* idempotency keys
    Statuses,       \* the statuses clients ask for, known ones and others
    Decisions,      \* the decisions clients ask for, known ones and others
    Urls,           \* published URLs
    Profiles,       \* names of a profile version
    Contents,       \* what a valid profile draft may say
    Hosts, Placements,
    Founder, FirstKey,  \* who stored a work item and its run earlier, and its key
    Scenarios,      \* which operations are asked, by whom, in which invocations
    PageSize,       \* events per page of listEvents
    AgentSeqs,      \* the positions that agents write in a log
    Blank,          \* a required field that is missing or invalid
    None

Users == {a.user : a \in Callers}
Workspaces == {a.ws : a \in Callers}

\* `${userId}#${workspaceId}#${idempotencyKey}`, hashed to the row's id.
Scopes == Users \X Workspaces \X Keys

FirstScope == <<Founder.user, Founder.ws, FirstKey>>

\* Of work items and of runs; without a key the id is random.
WorkIds == Scopes \union Requests
ProfileKeys == Workspaces \X Profiles

VARIABLES
    req,            \* req[c]: what was asked, and where its handler is
    items, runs, approvals, surfaces, sources, profiles, hosts, artifacts,
    bundles,        \* the profile bundles in S3
    log,            \* log[r]: the committed events of a run
    scenario        \* of this behaviour, chosen at first

work == <<items, runs>>
links == <<approvals, surfaces, sources>>
registry == <<profiles, bundles, hosts>>
ledger == <<log, artifacts>>
tables == <<work, links, registry, ledger>>
vars == <<req, tables, scenario>>

-----------------------------------------------------------------------------
(***************************************************************************)
(* Rows.  A status is stored twice: as it is, and in the key of an index   *)
(* (workspaceStatus, placementTargetStatus).                               *)
(***************************************************************************)
WorkStatuses == {"open", "in_progress", "blocked", "completed", "cancelled"}
SurfaceStatuses == {"draft", "review", "published", "archived"}

WorkItemRecord ==
    [user : Users, ws : Workspaces, status : WorkStatuses,
     wsStatus : Workspaces \X WorkStatuses]

RunRecord == [user : Users, ws : Workspaces, item : WorkIds \union {None}]

ApprovalRecord ==
    [user : Users, ws : Workspaces, run : WorkIds, item : WorkIds \union {None},
     status : {"requested", "approved", "rejected"},
     decidedBy : Users \union {None}]

SurfaceRecord ==
    [user : Users, ws : Workspaces, run : WorkIds \union {None},
     item : WorkIds \union {None}, status : SurfaceStatuses,
     wsStatus : Workspaces \X SurfaceStatuses, url : Urls \union {None}]

DataSourceRefRecord ==
    [user : Users, ws : Workspaces, run : WorkIds \union {None},
     item : WorkIds \union {None}]

AgentProfileVersion == [state : {"draft", "approved"}, content : Contents]

AgentProfileRecord == [user : Users, profile : AgentProfileVersion]

HostStatuses == (Statuses \ {Blank}) \union {"online"}

HostNodeRecord ==
    [placement : Placements, status : HostStatuses,
     placementStatus : Placements \X HostStatuses, by : Users]

\* located says whether the row names a bucket and a key.
ArtifactRecord ==
    [user : Users, ws : Workspaces, run : WorkIds, item : WorkIds \union {None},
     located : BOOLEAN]

EventRecord == [seq : Nat, by : Requests \union {"agent"}]

\* None stands for what is absent, in a field or in a table; ids that are drawn
\* are no hashes; the positions of a log start at 1.
ASSUME RecordsAssumption ==
    /\ Founder \in Callers /\ FirstKey \in Keys
    /\ \A s \in Scenarios : s.callers \subseteq Callers
    /\ PageSize \in Nat \ {0}
    /\ AgentSeqs \subseteq Nat \ {0}
    /\ Scopes \intersect Requests = {}
    /\ None \notin Users \union WorkIds \union ProfileKeys \union Hosts \union Urls
    /\ None \notin WorkItemRecord /\ None \notin RunRecord
    /\ None \notin ApprovalRecord /\ None \notin SurfaceRecord
    /\ None \notin DataSourceRefRecord /\ None \notin AgentProfileRecord
    /\ None \notin AgentProfileVersion /\ None \notin HostNodeRecord
    /\ None \notin ArtifactRecord

\* A row of a table whose key is the workspace and the id.
ByKey(table, ws, id) ==
    IF table[id] # None /\ table[id].ws = ws THEN table[id] ELSE None

GetWorkItem(ws, id) == ByKey(items, ws, id)
GetApproval(ws, id) == ByKey(approvals, ws, id)
GetSurface(ws, id) == ByKey(surfaces, ws, id)

GetRunById(r) == runs[r]

OwnedBy(row, user) == row # None /\ row.user = user

\* A page of listEvents: the first events after a position.
ListEvents(r, after) ==
    LET later == {e \in log[r] : e.seq > after}
    IN  {e \in later : Cardinality({f \in later : f.seq < e.seq}) < PageSize}

-----------------------------------------------------------------------------
(***************************************************************************)
(* Who may call, and what the handlers of the routes parse out of a call.  *)
(***************************************************************************)
HasProductAccessGroup(a) ==
    "suspended" \notin a.groups /\ a.groups \intersect {"user", "admin"} # {}

IsAdminUser(a) ==
    "suspended" \notin a.groups /\ ("admin" \in a.groups \/ a.user \in AdminEmails)

Ask(op, a) ==
    [op |-> op, user |-> a.user, ws |-> a.ws, run |-> None, item |-> None,
     target |-> None, value |-> None, row |-> None, latest |-> 0, pc |-> "idle"]

\* The ids that clients have seen; an unknown one is answered as not found,
\* like one of another user.
Stored(table) == {x \in DOMAIN table : table[x] # None}

\* A request about a run or a work item, and one about another record.
AskOn(op, a, run, item, value) ==
    [Ask(op, a) EXCEPT !.run = run, !.item = item, !.value = value]

AskFor(op, a, target, value) ==
    [Ask(op, a) EXCEPT !.target = target, !.value = value]

WorkItemAsks(a) ==
    {AskOn("createWorkItem", a, None, None, k) : k \in Keys \union {None, Blank}}
    \union
    {AskOn("updateWorkItemStatus", a, None, i, s) : i \in Stored(items), s \in Statuses}
    \union
    {AskOn("createWorkItemRun", a, None, i, k) :
       i \in Stored(items), k \in Keys \union {None}}

ApprovalAsks(a) ==
    {AskOn("createApproval", a, r, i, v) :
       r \in Stored(runs), i \in Stored(items) \union {None}, v \in {None, Blank}}
    \union
    {AskFor("decideApproval", a, t, d) : t \in Stored(approvals), d \in Decisions}

SurfaceAsks(a) ==
    {AskOn("createSurface", a, r, i, s) :
       r \in Stored(runs) \union {None}, i \in Stored(items) \union {None}, s \in Statuses}
    \union
    {AskFor("updateSurface", a, t, s) :
       t \in Stored(surfaces), s \in Statuses \union {None}}
    \union
    {AskFor("publishSurface", a, t, u) : t \in Stored(surfaces), u \in Urls \union {None}}

DataSourceRefAsks(a) ==
    {AskOn("createDataSourceRef", a, r, i, v) :
       r \in Stored(runs) \union {None}, i \in Stored(items) \union {None}, v \in {None, Blank}}

AgentProfileAsks(a) ==
    {AskFor("createAgentProfileDraft", a, <<a.ws, p>>, x) :
       p \in Profiles, x \in Contents \union {Blank}}
    \union
    {AskFor("approveAgentProfileVersion", a, <<a.ws, p>>, None) : p \in Profiles}

RunnerStateAsks(a) ==
    {AskFor("registerHostNode", a, h, p) : h \in Hosts, p \in Placements \union {Blank}}
    \union
    {AskFor("heartbeatHostNode", a, h, s) :
       h \in Hosts, s \in (Statuses \ {Blank}) \union {None}}

EngagementAsks(a) ==
    {AskOn("userEngagement", a, r, None, v) : r \in Stored(runs), v \in {None, Blank}}

Asks(a) ==
    WorkItemAsks(a) \union ApprovalAsks(a) \union SurfaceAsks(a)
    \union DataSourceRefAsks(a) \union AgentProfileAsks(a)
    \union RunnerStateAsks(a) \union EngagementAsks(a)

\* What a handler refuses before it reads anything.
BadRequest(ask) ==
    \/ /\ ask.value = Blank
       /\ ask.op \notin {"updateWorkItemStatus", "decideApproval",
                        "updateSurface", "userEngagement"}
    \/ ask.op = "createSurface" /\ ask.value \notin SurfaceStatuses
    \/ ask.op = "createDataSourceRef" /\ ask.run = None /\ ask.item = None

\* The first call that the handler of a valid request awaits.
FirstCall(ask) ==
    IF ask.op = "createWorkItem" THEN IF ask.value = None THEN "put" ELSE "probe"
    ELSE IF ask.op = "createAgentProfileDraft" THEN "bundle"
    ELSE IF ask.target # None THEN "get"
    ELSE IF ask.run # None THEN "run"
    ELSE IF ask.item # None THEN "item"
    ELSE "put"

AdminOnly == {"registerHostNode", "heartbeatHostNode"}

Receive(c) ==
    /\ req[c].pc = "idle"
    /\ c \in scenario.calls
    /\ \E a \in scenario.callers : \E ask \in Asks(a) :
         /\ ask.op \in scenario.ops
         /\ req' = [req EXCEPT ![c] = [ask EXCEPT !.pc =
              IF \/ ~HasProductAccessGroup(a)
                 \/ ask.op \in AdminOnly /\ ~IsAdminUser(a) THEN "forbidden"
              ELSE IF BadRequest(ask) THEN "badRequest"
              ELSE FirstCall(ask)]]
    /\ UNCHANGED tables

At(c, op, pc) == req[c].op = op /\ req[c].pc = pc

Goto(c, pc) == req' = [req EXCEPT ![c].pc = pc]

Check(c, holds, next) ==
    /\ Goto(c, IF holds THEN next ELSE "notFound")
    /\ UNCHANGED tables

OwnsRun(q) == OwnedBy(GetRunById(q.run), q.user) /\ runs[q.run].ws = q.ws

OwnsItem(q) == OwnedBy(GetWorkItem(q.ws, q.item), q.user)

\* A put on the condition that the key is free; the handlers do not catch
\* its failure, which is answered as 500.
PutNew(c, table, id, row) ==
    IF table[id] = None
    THEN table' = [table EXCEPT ![id] = row] /\ Goto(c, "created")
    ELSE table' = table /\ Goto(c, "error")

-----------------------------------------------------------------------------
(***************************************************************************)
(* Work items.                                                             *)
(***************************************************************************)
\* Bug: the user is not part of the scope.
ScopeOfKey(q) == CHOOSE s \in Scopes : s[2] = q.ws /\ s[3] = q.value

Scope(q) == <<q.user, q.ws, q.value>>

\* The id of a keyed request is the hash of its scope, else it is random.
NewId(c) == IF req[c].value = None THEN c ELSE Scope(req[c])

PutWorkItem(c, row) ==
    /\ PutNew(c, items, NewId(c), row)
    /\ UNCHANGED <<runs, links, registry, ledger>>

\* The index by scope may lag and miss a row that is there.
CreateWorkItem(c) ==
    \/ /\ At(c, "createWorkItem", "probe")
       /\ \/ items[NewId(c)] # None /\ Goto(c, "ok")
          \/ Goto(c, "put")
       /\ UNCHANGED tables
    \/ /\ At(c, "createWorkItem", "put")
       /\ PutWorkItem(c, [user |-> req[c].user, ws |-> req[c].ws,
                          status |-> "open", wsStatus |-> <<req[c].ws, "open">>])

UpdateWorkItem(id, s, ws) ==
    items' = [items EXCEPT ![id].status = s, ![id].wsStatus = <<ws, s>>]

UpdateWorkItemStatus(c) ==
    \/ /\ At(c, "updateWorkItemStatus", "item")
       /\ Check(c, OwnsItem(req[c]),
                IF req[c].value \in WorkStatuses THEN "update" ELSE "badRequest")
    \/ /\ At(c, "updateWorkItemStatus", "update")
       /\ UpdateWorkItem(req[c].item, req[c].value, req[c].ws)
       /\ Goto(c, "ok")
       /\ UNCHANGED <<runs, links, registry, ledger>>

\* createRun, as CreateRun describes it: one ledger per scope.  A request
\* that finds it is answered with it or, if the index lags, fails.
CreateRunLedger(c) ==
    /\ \/ /\ runs[NewId(c)] = None
          /\ runs' = [runs EXCEPT ![NewId(c)] =
               [user |-> req[c].user, ws |-> req[c].ws, item |-> req[c].item]]
          /\ Goto(c, "accepted")
       \/ /\ runs[NewId(c)] # None
          /\ Goto(c, "accepted") \/ Goto(c, "error")
          /\ UNCHANGED runs
    /\ UNCHANGED <<items, links, registry, ledger>>

CreateWorkItemRun(c) ==
    \/ /\ At(c, "createWorkItemRun", "item")
       /\ Check(c, OwnsItem(req[c]), "ledger")
    \/ At(c, "createWorkItemRun", "ledger") /\ CreateRunLedger(c)

-----------------------------------------------------------------------------
(***************************************************************************)
(* Approvals.                                                              *)
(***************************************************************************)
PutApproval(c, row) ==
    /\ PutNew(c, approvals, c, row)
    /\ UNCHANGED <<work, surfaces, sources, registry, ledger>>

\* The work item is stored as it came: unlike the run it is not looked up.
CreateApproval(c) ==
    \/ At(c, "createApproval", "run") /\ Check(c, OwnsRun(req[c]), "put")
    \/ /\ At(c, "createApproval", "put")
       /\ PutApproval(c, [user |-> req[c].user, ws |-> req[c].ws,
                          run |-> req[c].run, item |-> req[c].item,
                          status |-> "requested", decidedBy |-> None])

UpdateApproval(c) ==
    /\ approvals' = [approvals EXCEPT ![req[c].target].status = req[c].value,
                                      ![req[c].target].decidedBy = req[c].user]
    /\ UNCHANGED <<work, surfaces, sources, registry, ledger>>

\* Bug: the decision is not compared with what was decided before.
DecideApprovalAgain(c) ==
    LET row == GetApproval(req[c].ws, req[c].target)
    IN  \/ /\ At(c, "decideApproval", "get")
           /\ Check(c, OwnedBy(row, req[c].user),
                    IF req[c].value \notin {"approved", "rejected"} THEN "badRequest"
                    ELSE "update")
        \/ /\ At(c, "decideApproval", "update")
           /\ UpdateApproval(c)
           /\ Goto(c, "ok")

\* Two decisions that both read the approval as requested are both stored.
DecideApproval(c) ==
    LET row == GetApproval(req[c].ws, req[c].target)
    IN  \/ /\ At(c, "decideApproval", "get")
           /\ Check(c, OwnedBy(row, req[c].user),
                    IF req[c].value \notin {"approved", "rejected"} THEN "badRequest"
                    ELSE IF row.decidedBy # None /\ row.status # "requested"
                         THEN "conflict"
                    ELSE "update")
        \/ /\ At(c, "decideApproval", "update")
           /\ UpdateApproval(c)
           /\ Goto(c, "ok")

-----------------------------------------------------------------------------
(***************************************************************************)
(* Surfaces.                                                               *)
(***************************************************************************)
PutSurface(c, row) ==
    /\ PutNew(c, surfaces, c, row)
    /\ UNCHANGED <<work, approvals, sources, registry, ledger>>

AfterRun(q) == IF q.item # None THEN "item" ELSE "put"

CreateSurface(c) ==
    \/ At(c, "createSurface", "run") /\ Check(c, OwnsRun(req[c]), AfterRun(req[c]))
    \/ At(c, "createSurface", "item") /\ Check(c, OwnsItem(req[c]), "put")
    \/ /\ At(c, "createSurface", "put")
       /\ PutSurface(c, [user |-> req[c].user, ws |-> req[c].ws,
                         run |-> req[c].run, item |-> req[c].item,
                         status |-> req[c].value,
                         wsStatus |-> <<req[c].ws, req[c].value>>, url |-> None])

\* Values that are undefined are left out of the update expression.
StoreSurface(t, s, u) ==
    surfaces' = [surfaces EXCEPT
        ![t].status = IF s = None THEN @ ELSE s,
        ![t].wsStatus = IF s = None THEN @ ELSE <<surfaces[t].ws, s>>,
        ![t].url = IF u = None THEN @ ELSE u]

UpdateSurface(c) ==
    LET row == GetSurface(req[c].ws, req[c].target)
    IN  \/ /\ At(c, "updateSurface", "get")
           /\ Check(c, OwnedBy(row, req[c].user),
                    IF req[c].value \in SurfaceStatuses \union {None}
                    THEN "update" ELSE "badRequest")
        \/ /\ At(c, "updateSurface", "update")
           /\ StoreSurface(req[c].target, req[c].value, None)
           /\ Goto(c, "ok")
           /\ UNCHANGED <<work, approvals, sources, registry, ledger>>

\* The URL that was read is kept when the caller gives none.
PublishSurface(c) ==
    LET row == GetSurface(req[c].ws, req[c].target)
    IN  \/ /\ At(c, "publishSurface", "get")
           /\ \/ /\ OwnedBy(row, req[c].user)
                 /\ req' = [req EXCEPT ![c].pc = "update",
                              ![c].value = IF @ = None THEN row.url ELSE @]
              \/ ~OwnedBy(row, req[c].user) /\ Goto(c, "notFound")
           /\ UNCHANGED tables
        \/ /\ At(c, "publishSurface", "update")
           /\ StoreSurface(req[c].target, "published", req[c].value)
           /\ Goto(c, "ok")
           /\ UNCHANGED <<work, approvals, sources, registry, ledger>>

-----------------------------------------------------------------------------
(***************************************************************************)
(* Data source references.                                                 *)
(***************************************************************************)
PutDataSourceRef(c, row) ==
    /\ PutNew(c, sources, c, row)
    /\ UNCHANGED <<work, approvals, surfaces, registry, ledger>>

CreateDataSourceRef(c) ==
    \/ /\ At(c, "createDataSourceRef", "run")
       /\ Check(c, OwnsRun(req[c]), AfterRun(req[c]))
    \/ At(c, "createDataSourceRef", "item") /\ Check(c, OwnsItem(req[c]), "put")
    \/ /\ At(c, "createDataSourceRef", "put")
       /\ PutDataSourceRef(c, [user |-> req[c].user, ws |-> req[c].ws,
                               run |-> req[c].run, item |-> req[c].item])

-----------------------------------------------------------------------------
(***************************************************************************)
(* Agent profiles: a bundle in S3, written first and without a condition,  *)
(* and a row of the registry.                                              *)
(***************************************************************************)
PutBundle(c, profile, next) ==
    /\ bundles' = [bundles EXCEPT ![req[c].target] = profile]
    /\ Goto(c, next)
    /\ UNCHANGED <<work, links, profiles, hosts, ledger>>

Draft(x) == [state |-> "draft", content |-> x]

PutAgentProfileVersion(c, row) ==
    /\ PutNew(c, profiles, req[c].target, row)
    /\ UNCHANGED <<work, links, bundles, hosts, ledger>>

\* Bug: the row is put before its bundle.
CreateRowFirst(c) ==
    \/ /\ At(c, "createAgentProfileDraft", "bundle")
       /\ profiles[req[c].target] = None
       /\ profiles' = [profiles EXCEPT ![req[c].target] =
                         [user |-> req[c].user, profile |-> Draft(req[c].value)]]
       /\ Goto(c, "put")
       /\ UNCHANGED <<work, links, bundles, hosts, ledger>>
    \/ /\ At(c, "createAgentProfileDraft", "put")
       /\ PutBundle(c, Draft(req[c].value), "created")

CreateAgentProfileDraft(c) ==
    \/ /\ At(c, "createAgentProfileDraft", "bundle")
       /\ PutBundle(c, Draft(req[c].value), "put")
    \/ /\ At(c, "createAgentProfileDraft", "put")
       /\ PutAgentProfileVersion(c, [user |-> req[c].user,
                                     profile |-> Draft(req[c].value)])

Approved(profile) == [profile EXCEPT !.state = "approved"]

UpdateAgentProfileVersion(c) ==
    /\ profiles' = [profiles EXCEPT
                      ![req[c].target].profile = Approved(req[c].row.profile)]
    /\ UNCHANGED <<work, links, bundles, hosts, ledger>>

ApproveAgentProfileVersion(c) ==
    \/ /\ At(c, "approveAgentProfileVersion", "get")
       /\ LET row == profiles[req[c].target]
          IN  IF OwnedBy(row, req[c].user)
              THEN req' = [req EXCEPT ![c].pc = "bundle", ![c].row = row]
              ELSE Goto(c, "notFound")
       /\ UNCHANGED tables
    \/ /\ At(c, "approveAgentProfileVersion", "bundle")
       /\ PutBundle(c, Approved(req[c].row.profile), "update")
    \/ /\ At(c, "approveAgentProfileVersion", "update")
       /\ UpdateAgentProfileVersion(c)
       /\ Goto(c, "ok")

-----------------------------------------------------------------------------
(***************************************************************************)
(* Host nodes: read, merge, and put back the whole row.                    *)
(***************************************************************************)
PutHostNode(c, row) ==
    /\ hosts' = [hosts EXCEPT ![req[c].target] = row]
    /\ Goto(c, "ok")
    /\ UNCHANGED <<work, links, profiles, bundles, ledger>>

GetHostNode(c, next) ==
    /\ req' = [req EXCEPT ![c].pc = next, ![c].row = hosts[req[c].target]]
    /\ UNCHANGED tables

RegisterHostNode(c) ==
    \/ At(c, "registerHostNode", "get") /\ GetHostNode(c, "put")
    \/ /\ At(c, "registerHostNode", "put")
       /\ LET old == req[c].row
              status == IF old = None THEN "online" ELSE old.status
          IN  PutHostNode(c, [placement |-> req[c].value, status |-> status,
                              placementStatus |-> <<req[c].value, status>>,
                              by |-> IF old = None THEN req[c].user ELSE old.by])

HeartbeatHostNode(c) ==
    \/ /\ At(c, "heartbeatHostNode", "get")
       /\ GetHostNode(c, IF hosts[req[c].target] = None THEN "notFound" ELSE "put")
    \/ /\ At(c, "heartbeatHostNode", "put")
       /\ LET old == req[c].row
              status == IF req[c].value = None THEN old.status ELSE req[c].value
          IN  PutHostNode(c, [old EXCEPT !.status = status,
                                !.placementStatus = <<old.placement, status>>])

-----------------------------------------------------------------------------
(***************************************************************************)
(* User engagement: the next position is found by paging through the log,  *)
(* and the event is put on the condition that the position is still free.  *)
(***************************************************************************)

\* Bug: every page is read from the start.
NextEventSeqFromStart(c) ==
    LET page == ListEvents(req[c].run, 0)
    IN  /\ req' = [req EXCEPT
              ![c].pc = IF Cardinality(page) < PageSize THEN "event" ELSE "page",
              ![c].latest = IF page = {} THEN @
                            ELSE CHOOSE n \in {e.seq : e \in page} :
                                   \A e \in page : e.seq <= n]
        /\ UNCHANGED tables

NextEventSeq(c) ==
    LET page == ListEvents(req[c].run, req[c].latest)
    IN  /\ req' = [req EXCEPT
              ![c].pc = IF Cardinality(page) < PageSize THEN "event" ELSE "page",
              ![c].latest = IF page = {} THEN @
                            ELSE CHOOSE n \in {e.seq : e \in page} :
                                   \A e \in page : e.seq <= n]
        /\ UNCHANGED tables

\* Bug: the event replaces what is at its position.
PutEventAnyway(c, r, event) ==
    /\ log' = [log EXCEPT ![r] = {e \in @ : e.seq # event.seq} \union {event}]
    /\ Goto(c, "accepted")

PutEvent(c, r, event) ==
    IF \E e \in log[r] : e.seq = event.seq
    THEN Goto(c, "error") /\ UNCHANGED log
    ELSE /\ log' = [log EXCEPT ![r] = @ \union {event}]
         /\ Goto(c, "accepted")

UserEngagement(c) ==
    \/ /\ At(c, "userEngagement", "run")
       /\ Check(c, OwnsRun(req[c]),
                IF req[c].value = Blank THEN "badRequest" ELSE "page")
    \/ At(c, "userEngagement", "page") /\ NextEventSeq(c)
    \/ /\ At(c, "userEngagement", "event")
       /\ PutEvent(c, req[c].run, [seq |-> req[c].latest + 1, by |-> c])
       /\ UNCHANGED <<work, links, registry, artifacts>>

\* The run's agents append events, wherever their counters stand, and store
\* artifacts with the run's own user and workspace.
AgentEvent(r, n) ==
    /\ "events" \in scenario.ops
    /\ runs[r] # None
    /\ \A e \in log[r] : e.seq # n
    /\ log' = [log EXCEPT ![r] = @ \union {[seq |-> n, by |-> "agent"]}]
    /\ UNCHANGED <<req, work, links, registry, artifacts>>

\* The resident runner names the run's work item in an artifact's row, and its
\* agents' own artifacts may be anywhere; the Step Functions worker names none.
AgentArtifact(r) ==
    /\ "artifacts" \in scenario.ops
    /\ runs[r] # None
    /\ \E x \in {<<runs[r].item, TRUE>>, <<runs[r].item, FALSE>>, <<None, TRUE>>} :
         artifacts' = artifacts \union
           {[user |-> runs[r].user, ws |-> runs[r].ws, run |-> r,
             item |-> x[1], located |-> x[2]]}
    /\ UNCHANGED <<req, work, links, registry, log>>

-----------------------------------------------------------------------------
Working == {"probe", "run", "item", "get", "put", "update", "ledger", "bundle",
            "page", "event"}

\* A call that throws, or the end of the invocation, between two calls.
Crash(c) ==
    /\ req[c].pc \in Working
    /\ Goto(c, "error")
    /\ UNCHANGED tables

Handler(c) ==
    \/ CreateWorkItem(c)
    \/ UpdateWorkItemStatus(c)
    \/ CreateWorkItemRun(c)
    \/ CreateApproval(c)
    \/ DecideApproval(c)
    \/ CreateSurface(c)
    \/ UpdateSurface(c)
    \/ PublishSurface(c)
    \/ CreateDataSourceRef(c)
    \/ CreateAgentProfileDraft(c)
    \/ ApproveAgentProfileVersion(c)
    \/ RegisterHostNode(c)
    \/ HeartbeatHostNode(c)
    \/ UserEngagement(c)

Quiescent ==
    /\ \A c \in scenario.calls : req[c].pc \notin Working \union {"idle"}
    /\ UNCHANGED <<req, tables>>

Init ==
    /\ scenario \in Scenarios
    /\ req = [c \in Requests |-> Ask("none", Founder)]
    /\ items = [i \in WorkIds |-> IF i # FirstScope THEN None ELSE
                  [user |-> Founder.user, ws |-> Founder.ws, status |-> "open",
                   wsStatus |-> <<Founder.ws, "open">>]]
    /\ runs = [r \in WorkIds |-> IF r # FirstScope THEN None ELSE
                 [user |-> Founder.user, ws |-> Founder.ws, item |-> FirstScope]]
    /\ approvals = [c \in Requests |-> None]
    /\ surfaces = [c \in Requests |-> None]
    /\ sources = [c \in Requests |-> None]
    /\ profiles = [p \in ProfileKeys |-> None]
    /\ bundles = [p \in ProfileKeys |-> None]
    /\ hosts = [h \in Hosts |-> None]
    /\ artifacts = {}
    /\ log = [r \in WorkIds |-> IF r # FirstScope THEN {}
                               ELSE {[seq |-> 1, by |-> "agent"]}]

Next ==
    /\ UNCHANGED scenario
    /\ \/ \E c \in Requests : Receive(c) \/ Handler(c) \/ Crash(c)
       \/ \E r \in WorkIds :
            AgentArtifact(r) \/ \E n \in AgentSeqs : AgentEvent(r, n)
       \/ Quiescent

Spec == Init /\ [][Next]_vars

-----------------------------------------------------------------------------
(***************************************************************************)
(* The reads.  A list is shorter than a page of its index; the lists of a  *)
(* work item's or a run's records are filtered by user and workspace.      *)
(***************************************************************************)
OfUser(row, user, ws) == OwnedBy(row, user) /\ row.ws = ws

ListWorkItemsForUser(user, ws) == {i \in WorkIds : OfUser(items[i], user, ws)}

ListRunsForUser(user, ws) == {r \in WorkIds : OfUser(runs[r], user, ws)}

ListRunsForWorkItem(i) == {r \in Stored(runs) : runs[r].item = i}

ListArtifactsForRun(r) == {x \in artifacts : x.run = r}

ListArtifactsForWorkItem(i) == {x \in artifacts : x.item = i}

\* The same query for approvals, surfaces and data source references.
RowsForRun(table, r) == {x \in Stored(table) : table[x].run = r}

RowsForWorkItem(table, i) == {x \in Stored(table) : table[x].item = i}

ListWorkItems(a) == ListWorkItemsForUser(a.user, a.ws)

ListRuns(a) == ListRunsForUser(a.user, a.ws)

ListAgentProfiles(a) ==
    {p \in ProfileKeys : OwnedBy(profiles[p], a.user) /\ p[1] = a.ws}

ShowsItem(a, i) == OwnedBy(GetWorkItem(a.ws, i), a.user)

ListWorkItemRuns(a, i) ==
    {r \in ListRunsForWorkItem(i) : ShowsItem(a, i) /\ OfUser(runs[r], a.user, a.ws)}

ListWorkItemEvents(a, i) ==
    UNION {{r} \X ListEvents(r, 0) : r \in ListWorkItemRuns(a, i)}

ShowsRun(a, r) == OwnedBy(GetRunById(r), a.user)

ListRunEvents(a, r, after) == IF ShowsRun(a, r) THEN ListEvents(r, after) ELSE {}

LinkedToRun(table, a, r) ==
    {x \in RowsForRun(table, r) :
       OwnedBy(runs[r], a.user) /\ OfUser(table[x], a.user, runs[r].ws)}

LinkedToItem(table, a, i) ==
    {x \in RowsForWorkItem(table, i) :
       ShowsItem(a, i) /\ OfUser(table[x], a.user, a.ws)}

ListApprovalsForRun(a, r) == LinkedToRun(approvals, a, r)
ListSurfacesForRun(a, r) == LinkedToRun(surfaces, a, r)
ListSurfacesForWorkItem(a, i) == LinkedToItem(surfaces, a, i)
ListDataSourceRefsForRun(a, r) == LinkedToRun(sources, a, r)
ListDataSourceRefsForWorkItem(a, i) == LinkedToItem(sources, a, i)

ListRunArtifacts(a, r) ==
    {x \in ListArtifactsForRun(r) :
       OwnedBy(runs[r], a.user) /\ OfUser(x, a.user, runs[r].ws)}

ListWorkItemArtifacts(a, i) ==
    {x \in ListArtifactsForWorkItem(i) : ShowsItem(a, i) /\ OfUser(x, a.user, a.ws)}

\* By their keys, a run's artifacts that the caller is shown one by one.
GetArtifact(r) == {x \in artifacts : x.run = r}

GetRunArtifact(a, r) ==
    {x \in GetArtifact(r) : ShowsRun(a, r) /\ OfUser(x, a.user, runs[r].ws)}

\* Without a bucket and a key the answer is 422.
GetArtifactDownloadUrl(a, r) ==
    {x \in GetArtifact(r) :
       ShowsRun(a, r) /\ OfUser(x, a.user, runs[r].ws) /\ x.located}

\* The routes of one run, and those of its artifacts and of its work item's.
NothingShown == [shown |-> FALSE, listed |-> FALSE, events |-> {}]

RunHandlers(a, r) ==
    IF ~HasProductAccessGroup(a) THEN NothingShown
    ELSE [shown |-> ShowsRun(a, r), listed |-> r \in ListRuns(a),
          events |-> ListRunEvents(a, r, 0)]

NoArtifacts == [ofItem |-> {}, ofRun |-> {}, one |-> {}, download |-> {}]

ArtifactsHandler(a, r) ==
    IF ~HasProductAccessGroup(a) THEN NoArtifacts
    ELSE [ofItem |-> ListWorkItemArtifacts(a, runs[r].item),
          ofRun |-> ListRunArtifacts(a, r),
          one |-> GetRunArtifact(a, r),
          download |-> GetArtifactDownloadUrl(a, r)]

\* What an admin is shown: a summary of every run, from its first page of
\* events, and the pages of one run.
ListRecentRuns == Stored(runs)

SummarizeRun(r) ==
    LET events == ListEvents(r, 0)
    IN  [run |-> r, eventCount |-> Cardinality(events),
         latest |-> IF events = {} THEN 0
                    ELSE CHOOSE n \in {e.seq : e \in events} :
                           \A e \in events : e.seq <= n]

ListAdminRuns(a) ==
    IF IsAdminUser(a) THEN {SummarizeRun(r) : r \in ListRecentRuns} ELSE {}

ListAdminRunEvents(a, r, after) ==
    IF IsAdminUser(a) /\ GetRunById(r) # None THEN ListEvents(r, after) ELSE {}

-----------------------------------------------------------------------------
RequestType ==
    [op : {"none", "createWorkItem", "updateWorkItemStatus", "createWorkItemRun",
           "createApproval", "decideApproval", "createSurface", "updateSurface",
           "publishSurface", "createDataSourceRef", "createAgentProfileDraft",
           "approveAgentProfileVersion", "registerHostNode", "heartbeatHostNode",
           "userEngagement"},
     user : Users, ws : Workspaces,
     run : WorkIds \union {None}, item : WorkIds \union {None},
     target : Requests \union ProfileKeys \union Hosts \union {None},
     value : Keys \union Statuses \union Decisions \union Urls \union Contents
             \union Placements \union {Blank, None},
     row : AgentProfileRecord \union HostNodeRecord \union {None},
     latest : Nat,
     pc : Working \union {"idle", "created", "ok", "accepted", "badRequest",
                         "forbidden", "notFound", "conflict", "error"}]

TypeOK ==
    /\ scenario \in Scenarios
    /\ req \in [Requests -> RequestType]
    /\ items \in [WorkIds -> WorkItemRecord \union {None}]
    /\ runs \in [WorkIds -> RunRecord \union {None}]
    /\ approvals \in [Requests -> ApprovalRecord \union {None}]
    /\ surfaces \in [Requests -> SurfaceRecord \union {None}]
    /\ sources \in [Requests -> DataSourceRefRecord \union {None}]
    /\ profiles \in [ProfileKeys -> AgentProfileRecord \union {None}]
    /\ bundles \in [ProfileKeys -> AgentProfileVersion \union {None}]
    /\ hosts \in [Hosts -> HostNodeRecord \union {None}]
    /\ artifacts \subseteq ArtifactRecord
    /\ log \in [WorkIds -> SUBSET EventRecord]

(***************************************************************************)
(* Safety.                                                                 *)
(***************************************************************************)

\* A link that a handler checks was read in other calls than the one that stores
\* the record: an approval's run, a surface's and a data source's run and work
\* item, a run's item, and an artifact's run and item, copied by the agent.  What
\* it names exists and has the record's user and workspace (approvals.ts:42-45,
\* surfaces.ts:84-96, data-source-refs.ts:50-62, work-items.ts:126-129).  Two
\* links are stored as they come, so nothing is said of them: an approval's work
\* item (approvals.ts:53) and a data source's artifact (data-source-refs.ts:73).
RunIsOwned(row) ==
    row.run # None => /\ OwnedBy(runs[row.run], row.user)
                      /\ runs[row.run].ws = row.ws

ItemIsOwned(row) ==
    row.item # None => OwnedBy(GetWorkItem(row.ws, row.item), row.user)

LinksOwned ==
    /\ \A r \in WorkIds : runs[r] # None => ItemIsOwned(runs[r])
    /\ \A c \in Requests :
         /\ approvals[c] # None => RunIsOwned(approvals[c])
         /\ surfaces[c] # None => RunIsOwned(surfaces[c]) /\ ItemIsOwned(surfaces[c])
         /\ sources[c] # None => RunIsOwned(sources[c]) /\ ItemIsOwned(sources[c])
    /\ \A x \in artifacts : RunIsOwned(x) /\ ItemIsOwned(x)

\* The status and the index key made of it never come apart, although rows are
\* patched in part by concurrent requests and host rows are put back whole from
\* an old copy (dynamo-store.ts:160-186, 323-349, user-runners.ts:73-82).
IndexedStatus ==
    /\ \A i \in WorkIds :
         items[i] # None => items[i].wsStatus = <<items[i].ws, items[i].status>>
    /\ \A c \in Requests : surfaces[c] # None =>
         surfaces[c].wsStatus = <<surfaces[c].ws, surfaces[c].status>>
    /\ \A h \in Hosts : hosts[h] # None =>
         hosts[h].placementStatus = <<hosts[h].placement, hosts[h].status>>

\* What an answer says was created or found is in the caller's own list of such
\* records, whoever else used the same key meanwhile (work-items.ts:29-55,
\* approvals.ts:69, surfaces.ts:117, data-source-refs.ts:83).
AnswersListed ==
    \A c \in Requests : req[c].pc \in {"created", "ok", "accepted"} =>
        CASE req[c].op = "createWorkItem" -> NewId(c) \in ListWorkItems(req[c])
          [] req[c].op = "createWorkItemRun" -> NewId(c) \in ListRuns(req[c])
          [] req[c].op = "createApproval" ->
               c \in ListApprovalsForRun(req[c], req[c].run)
          [] req[c].op = "createSurface" ->
               /\ req[c].run # None => c \in ListSurfacesForRun(req[c], req[c].run)
               /\ req[c].item # None =>
                    c \in ListSurfacesForWorkItem(req[c], req[c].item)
          [] req[c].op = "createDataSourceRef" ->
               /\ req[c].run # None => c \in ListDataSourceRefsForRun(req[c], req[c].run)
               /\ req[c].item # None =>
                    c \in ListDataSourceRefsForWorkItem(req[c], req[c].item)
          [] req[c].op = "createAgentProfileDraft" ->
               req[c].target \in ListAgentProfiles(req[c])
          [] OTHER -> TRUE

\* A run, its events and the artifacts that name its work item are listed under
\* that item, to its owner and to no one else; all its artifacts are listed under
\* the run, in whatever workspace its owner is, and what is listed is also shown
\* one by one and, if it is in a bucket, downloaded (work-items.ts:159-183,
\* artifacts.ts:26,49,73,116).
WorkListedToOwner ==
    \A a \in Callers, r \in WorkIds : runs[r] # None /\ runs[r].item # None =>
        LET owns == HasProductAccessGroup(a) /\ runs[r].user = a.user
            run == RunHandlers(a, r)
            found == ArtifactsHandler(a, r)
            here == runs[r].ws = a.ws
        IN  /\ run.shown <=> owns
            /\ run.listed <=> owns /\ here
            /\ run.events = IF owns THEN ListEvents(r, 0) ELSE {}
            /\ owns => /\ r \in ListWorkItemRuns(a, runs[r].item) <=> here
                       /\ \A e \in ListEvents(r, 0) :
                            <<r, e>> \in ListWorkItemEvents(a, runs[r].item) <=> here
            /\ \A x \in artifacts : x.run = r =>
                 /\ x \in found.ofItem <=> owns /\ here /\ x.item # None
                 /\ x \in found.ofRun <=> owns
                 /\ x \in found.one <=> owns
                 /\ x \in found.download <=> owns /\ x.located

\* An admin's list has a summary of every run, of everyone; it counts every event
\* up to the latest that it names, though agents and engagements write positions
\* out of order, and from there the admin reads on without a gap.  Nobody else
\* is shown any of it (query-runs.ts:67-147).
AdminsFollowRuns ==
    \A a \in Callers :
        /\ ~IsAdminUser(a) => /\ ListAdminRuns(a) = {}
                              /\ \A r \in WorkIds : ListAdminRunEvents(a, r, 0) = {}
        /\ IsAdminUser(a) => \A r \in Stored(runs) :
             \E s \in ListAdminRuns(a) :
               /\ s.run = r
               /\ s.eventCount = Cardinality({e \in log[r] : e.seq <= s.latest})
               /\ \A e \in log[r] : e.seq > s.latest =>
                    \/ e \in ListAdminRunEvents(a, r, s.latest)
                    \/ Cardinality(ListAdminRunEvents(a, r, s.latest)) = PageSize

\* An engagement that was accepted is in the log, alone at its position, and on
\* the page that a reader asks for with the position before it, whatever agents
\* and other engagements append meanwhile (handlers.ts:858-886).
EngagementsKept ==
    \A c \in Requests : At(c, "userEngagement", "accepted") =>
        LET mine == [seq |-> req[c].latest + 1, by |-> c]
        IN  /\ mine \in ListRunEvents(req[c], req[c].run, req[c].latest)
            /\ \A e \in log[req[c].run] : e.seq = mine.seq => e = mine

\* A row of the registry points to a bundle that is there: a crash between the
\* two writes leaves a bundle without a row, never a row without its bundle
\* (agent-profiles.ts:39-61, 133-150).
RowsHaveBundles ==
    \A p \in ProfileKeys : profiles[p] # None => bundles[p] # None

\* A decided approval is never open again, its status is a decision, and a
\* request that was refused because of an earlier decision was refused rightly
\* (approvals.ts:126-140).
DecisionsStand ==
    \A c \in Requests :
        /\ approvals[c] # None =>
             (approvals[c].status = "requested" <=> approvals[c].decidedBy = None)
        /\ At(c, "decideApproval", "conflict") =>
             approvals[req[c].target].status # "requested"

\* Once an approval is decided and no other decision is between its check and
\* its update, the decision is final: only overlapping requests can both decide,
\* and nothing that comes later revives them (approvals.ts:126-140).
Settled(x) ==
    /\ approvals[x] # None /\ approvals[x].status # "requested"
    /\ \A c \in Requests : At(c, "decideApproval", "update") => req[c].target # x

SettledStays ==
    [][\A x \in Requests : Settled(x) => Settled(x)' /\ approvals'[x] = approvals[x]]_vars

\* A work item's status changes only when its owner asked for that status:
\* a creation that is repeated or races another does not reset it
\* (work-items.ts:28-54, dynamo-store.ts:296-302).
StatusChangesAsked ==
    [][\A i \in WorkIds :
         items[i] # None /\ items'[i] # items[i] =>
           \E c \in Requests :
             /\ At(c, "updateWorkItemStatus", "update") /\ req[c].item = i
             /\ req[c].user = items[i].user /\ items'[i].status = req[c].value]_vars

\* A surface that has a URL keeps one: neither an update without a URL nor a
\* publication that read none takes it away (surfaces.ts:200, dynamo-store.ts:164).
UrlKept ==
    [][\A c \in Requests :
         surfaces[c] # None /\ surfaces[c].url # None =>
           surfaces'[c].url # None]_vars

\* An approved version is never a draft again in the registry, although its
\* draft may be submitted once more (dynamo-store.ts:74-80).
ApprovalKept ==
    [][\A p \in ProfileKeys :
         profiles[p] # None /\ profiles[p].profile.state = "approved" =>
           profiles'[p] = profiles[p]]_vars

\* Rows agree with the keys made of them, with their objects in the bucket and
\* with the rows that their handlers look up before they name them, whichever
\* calls of other invocations came between.
RowsSound == TypeOK /\ LinksOwned /\ IndexedStatus /\ RowsHaveBundles

\* Engagements and agents, whoever finds a position first, implement for every
\* run the log that only grows at free positions (EventLog).
Log(r) == INSTANCE EventLog WITH
            First <- IF r # FirstScope THEN {} ELSE {[seq |-> 1, by |-> "agent"]},
            log <- log[r]

LogSpec == \A r \in WorkIds : Log(r)!Spec

\* Lists show their reader what is theirs: users what they were told of and own,
\* admins what the run did.
ListsSound == AnswersListed /\ WorkListedToOwner /\ AdminsFollowRuns

\* What was answered stands: engagements are in the log and decisions are whole.
AnswersStand == EngagementsKept /\ DecisionsStand

\* What a request may change of what others did: no final decision, status, URL
\* or approval is undone by one that read before it or was sent twice.
ChangesAsked == SettledStays /\ StatusChangesAsked /\ UrlKept /\ ApprovalKept

(***************************************************************************)
(* Liveness.  Lambda runs an invocation on or ends it: weak fairness of    *)
(* each handler, and none of Crash, which is that end.                     *)
(***************************************************************************)
FairSpec == Spec /\ \A c \in Requests : WF_vars(Handler(c) /\ UNCHANGED scenario)

\* Every request is answered.  Looking for the end of a log ends, also when
\* agents append to it between two pages (handlers.ts:998-1017).
RequestsEnd == \A c \in Requests : req[c].pc \in Working ~> req[c].pc \notin Working

=============================================================================
