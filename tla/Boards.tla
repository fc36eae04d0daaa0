------------------------------- MODULE Boards -------------------------------
(***************************************************************************)
(* The other pages that read the Control API: the work dashboard           *)
(* (use-work-items.ts, work-dashboard.tsx), the approvals, artifacts and   *)
(* agents boards, and the admin console.  Each loads a list, most of them  *)
(* with a detail of the selected row, and lets the user act on a row.      *)
(***************************************************************************)
EXTENDS ControlApiClient

VARIABLE board

BoardPages == {"work", "approvals", "artifacts", "agents", "admin"}
\* The pages whose effects set "cancelled" when they run again.
Cancelling == {"work", "approvals", "artifacts"}

EmptyBoard ==
    [rows |-> {}, loading |-> FALSE, error |-> FALSE, selected |-> None,
     detail |-> [rows |-> {}, entries |-> {}], detailLoading |-> FALSE,
     workshop |-> {}, fleet |-> "none", busy |-> FALSE, acting |-> None]

NoDetail(b) == [b EXCEPT !.detail = EmptyBoard.detail, !.detailLoading = FALSE]

\* The first request of a list, and of a detail.
ListParts == [work |-> {"items"}, approvals |-> {"items"}, artifacts |-> {"items"},
              agents |-> {"profiles"}, admin |-> {"adminRuns"}]
DetailParts == [work |-> {"runs", "events", "artifacts", "surfaces"},
                artifacts |-> {"artifacts", "surfaces"}, admin |-> {"lineage"}]
ListKinds == {"list", "listRuns", "listApprovals"}

UncancelledDetail(under) == under

CancelledList(under) == IF page \in Cancelling THEN Cancelled(under, ListKinds) ELSE under

CancelledDetail(under) == Cancelled(under, {"detail"})

OpenList(under, ws) == Send(CancelledList(under), Request("list", ws, None, ListParts[page]))
OpenDetail(under, ws, id) == Send(CancelledDetail(under), Request("detail", ws, id, DetailParts[page]))

-----------------------------------------------------------------------------
\* What the user does.
Room(under, n) == Cardinality(Free(under)) >= n

\* The list is loaded again.  The work board is not mounted meanwhile, and
\* with it goes its selection and its detail.
Reload(b, under, ws) ==
    IF page = "work"
    THEN /\ board' = [NoDetail(b) EXCEPT !.loading = TRUE, !.error = FALSE, !.rows = {}, !.selected = None]
         /\ calls' = OpenList(CancelledDetail(under), ws)
    ELSE /\ board' = [b EXCEPT !.loading = TRUE, !.error = FALSE]
         /\ calls' = OpenList(under, ws)

RefreshBoard ==
    /\ page \in {"agents", "admin"} => ~board.loading
    /\ Room(CancelledList(calls), 1) /\ Click /\ UNCHANGED workspace
    /\ Reload(board, calls, workspace)

\* The artifacts board keeps its selection, and asks the new workspace for it.
SwitchWorkspace(ws) ==
    /\ page # "admin" /\ ws # workspace /\ workspace' = ws
    /\ Click
    /\ IF page = "artifacts" /\ board.selected # None
       THEN LET under == CancelledList(calls) IN
            /\ Room(CancelledDetail(under), 2)
            /\ Reload(board, OpenDetail(under, ws, board.selected), ws)
       ELSE Room(CancelledList(calls), 1) /\ Reload(board, calls, ws)

SelectRow(id) ==
    /\ id \in {row.id : row \in board.rows} \ {board.selected}
    /\ page \in {"work", "artifacts", "admin", "agents"}
    /\ Click /\ UNCHANGED workspace
    /\ IF page = "agents"
       THEN board' = [board EXCEPT !.selected = id] /\ UNCHANGED calls
       ELSE /\ Room(CancelledDetail(calls), 1)
            /\ board' = [board EXCEPT !.selected = id, !.detailLoading = page # "artifacts"]
            /\ calls' = OpenDetail(calls, workspace, id)

\* The rows that the user acts on: the admin console has its profiles apart.
ProfileRows == IF page = "admin" THEN board.workshop ELSE board.rows
WithProfiles(b, rows) == IF page = "admin" THEN [b EXCEPT !.workshop = rows] ELSE [b EXCEPT !.rows = rows]

CreateItem ==
    /\ page = "work" /\ ~board.busy /\ Room(calls, 1) /\ Click /\ UNCHANGED workspace
    /\ board' = [board EXCEPT !.busy = TRUE]
    /\ calls' = Send(calls, Request("create", workspace, None, {"write"}))

\* Bug: the decision is shown at the click.
DecideAtOnce(row, decision) ==
    /\ page = "approvals" /\ row \in board.rows /\ row.status = "requested"
    /\ board.acting # row.id /\ Room(calls, 1) /\ Click /\ UNCHANGED workspace
    /\ board' = [board EXCEPT !.acting = row.id, !.rows = (@ \ {row}) \union {[row EXCEPT !.status = decision]}]
    /\ calls' = Send(calls, [Request("decide", row.ws, row.id, {"write"}) EXCEPT !.arg = decision])

\* The buttons of the approval that is being decided are disabled.
Decide(row, decision) ==
    /\ page = "approvals" /\ row \in board.rows /\ row.status = "requested"
    /\ board.acting # row.id /\ Room(calls, 1) /\ Click /\ UNCHANGED workspace
    /\ board' = [board EXCEPT !.acting = row.id]
    /\ calls' = Send(calls, [Request("decide", row.ws, row.id, {"write"}) EXCEPT !.arg = decision])

\* buildAgentWorkshopDraftProfile derives the profile from the workspace and
\* the role; its version is always the same.
DraftsOf(ws) == {p \in Profiles : Home[p] = ws}
CreateDraft(p) ==
    /\ page \in {"agents", "admin"} /\ ~board.busy /\ Room(calls, 1) /\ Click /\ UNCHANGED workspace
    /\ page = "agents" => p \in DraftsOf(workspace)
    /\ board' = [board EXCEPT !.busy = TRUE]
    /\ calls' = Send(calls, Request("draft", Home[p], p, {"write"}))

OnProfile(row, kind, parts) ==
    /\ page \in {"agents", "admin"} /\ row \in ProfileRows
    /\ page = "agents" => row.id = board.selected
    /\ ~board.busy /\ Room(calls, 1) /\ Click /\ UNCHANGED workspace
    /\ board' = [board EXCEPT !.busy = TRUE]
    /\ calls' = Send(calls, Request(kind, row.ws, row.id, parts))
ApproveSelected(row) == row.status # "approved" /\ OnProfile(row, "approve", {"write"})
InspectSelected(row) == page = "admin" /\ OnProfile(row, "inspect", {"profile"})

\* The link of an artifact's file, which opens in a window of its own.
Download ==
    /\ page = "artifacts" /\ board.detail.entries # {} /\ ~board.busy /\ Room(calls, 1)
    /\ Click /\ UNCHANGED workspace
    /\ board' = [board EXCEPT !.busy = TRUE]
    /\ calls' = Send(calls, Request("download", workspace, None, {"link"}))

-----------------------------------------------------------------------------
\* What answers do.
ListFailed(s) ==
    /\ Arrived(s, "list") /\ ~calls[s].ok /\ page # "admin"
    /\ board' = [board EXCEPT !.loading = FALSE, !.error = TRUE]
    /\ calls' = Taken(s)

\* Without a selection the first row is selected, which opens its detail.
ShowRows(b, rows, under) ==
    IF b.selected = None /\ rows # {}
    THEN \E first \in {row.id : row \in rows} :
         IF page = "agents"
         THEN board' = [b EXCEPT !.rows = rows, !.selected = first] /\ calls' = under
         ELSE /\ Room(CancelledDetail(under), 1)
              /\ board' = [b EXCEPT !.rows = rows, !.selected = first,
                                    !.detailLoading = page # "artifacts"]
              /\ calls' = OpenDetail(under, workspace, first)
    ELSE board' = [b EXCEPT !.rows = rows] /\ calls' = under

ListLoaded(s) ==
    /\ Arrived(s, "list") /\ calls[s].ok /\ page \in {"work", "artifacts", "agents"}
    /\ ShowRows([board EXCEPT !.loading = FALSE], calls[s].rows, Taken(s))

\* Approvals: the runs of the items, the approvals of those runs.
Continued(s, kind, parts) ==
    [calls EXCEPT ![s] = [@ EXCEPT !.kind = kind, !.wanted = parts, !.ok = TRUE]]
ItemsListed(s) ==
    /\ Arrived(s, "list") /\ calls[s].ok /\ page = "approvals"
    /\ calls' = Continued(s, "listRuns", {"runsOfItems"})
    /\ UNCHANGED board
RunsListed(s) ==
    /\ Arrived(s, "listRuns")
    /\ calls' = Continued(s, "listApprovals", {"approvals"})
    /\ UNCHANGED board
ApprovalsListed(s) ==
    /\ Arrived(s, "listApprovals")
    /\ board' = [board EXCEPT !.rows = calls[s].rows, !.loading = FALSE]
    /\ calls' = Taken(s)

\* The admin console loads the runner fleet after the runs, whether they came
\* or not.
AdminRunsListed(s) ==
    /\ Arrived(s, "list") /\ page = "admin"
    /\ IF calls[s].ok
       THEN ShowRows(board, calls[s].rows, Continued(s, "fleet", {"fleet"}))
       ELSE board' = [board EXCEPT !.error = TRUE] /\ calls' = Continued(s, "fleet", {"fleet"})
FleetListed(s) ==
    /\ Arrived(s, "fleet")
    /\ board' = [board EXCEPT !.fleet = IF calls[s].ok THEN "shown" ELSE "none", !.loading = FALSE]
    /\ calls' = Taken(s)
WorkshopListed(s) ==
    /\ Arrived(s, "workshop")
    /\ board' = IF calls[s].ok THEN [board EXCEPT !.workshop = calls[s].rows] ELSE board
    /\ calls' = Taken(s)

DetailLoaded(s) ==
    /\ Arrived(s, "detail")
    /\ board' = [board EXCEPT !.detail = [rows |-> calls[s].rows, entries |-> calls[s].entries],
                              !.detailLoading = FALSE]
    /\ calls' = Taken(s)

ItemCreated(s) ==
    /\ Arrived(s, "create")
    /\ IF calls[s].ok
       THEN Reload([board EXCEPT !.busy = FALSE], Taken(s), workspace)
       ELSE board' = [board EXCEPT !.busy = FALSE] /\ calls' = Taken(s)

\* The row of the answer takes the place of the row that the page has of it.
Replaced(rows, answered) ==
    {IF \E new \in answered : new.id = row.id THEN CHOOSE new \in answered : new.id = row.id ELSE row :
        row \in rows}

Decided(s) ==
    /\ Arrived(s, "decide")
    /\ board' = [board EXCEPT !.acting = None, !.rows = Replaced(@, calls[s].rows), !.error = @ \/ ~calls[s].ok]
    /\ calls' = Taken(s)

DraftCreated(s) ==
    /\ Arrived(s, "draft")
    /\ LET rows == {row \in ProfileRows : row.id # calls[s].id} \union calls[s].rows IN
       board' = [(IF calls[s].ok THEN WithProfiles(board, rows) ELSE board) EXCEPT
                    !.busy = FALSE, !.selected = IF calls[s].ok /\ page = "agents" THEN calls[s].id ELSE @]
    /\ calls' = Taken(s)

ProfileAnswered(s) ==
    /\ Arrived(s, "approve") \/ Arrived(s, "inspect")
    /\ board' = [WithProfiles(board, Replaced(ProfileRows, calls[s].rows)) EXCEPT !.busy = FALSE]
    /\ calls' = Taken(s)

Downloaded(s) ==
    /\ Arrived(s, "download")
    /\ board' = [board EXCEPT !.busy = FALSE]
    /\ calls' = Taken(s)

-----------------------------------------------------------------------------
BoardType ==
    /\ board.rows \subseteq RowType /\ board.workshop \subseteq RowType
    /\ board.detail.rows \subseteq RowType /\ board.detail.entries \subseteq EntryType
    /\ board.selected \in Items \union Profiles \union RunIds \union {None}
    /\ {board.loading, board.error, board.detailLoading, board.busy} \subseteq BOOLEAN

BoardInit ==
    /\ board = [EmptyBoard EXCEPT !.loading = TRUE]
    /\ LET none == [s \in Slots |-> NoCall]
           list == Send(none, Request("list", workspace, None, ListParts[page])) IN
       calls = IF page = "admin" THEN Send(list, Request("workshop", None, None, {"profiles"})) ELSE list

BoardClick ==
    \/ RefreshBoard \/ CreateItem \/ Download
    \/ \E ws \in Workspaces : SwitchWorkspace(ws)
    \/ \E id \in Items \union Profiles \union RunIds : SelectRow(id)
    \/ \E row \in board.rows, d \in {"approved", "rejected"} : Decide(row, d)
    \/ \E p \in Profiles : CreateDraft(p)
    \/ \E row \in ProfileRows : ApproveSelected(row) \/ InspectSelected(row)

BoardTakes(s) ==
    \/ ListFailed(s) \/ ListLoaded(s) \/ ItemsListed(s) \/ RunsListed(s) \/ ApprovalsListed(s)
    \/ AdminRunsListed(s) \/ FleetListed(s) \/ WorkshopListed(s) \/ DetailLoaded(s)
    \/ ItemCreated(s) \/ Decided(s) \/ DraftCreated(s) \/ ProfileAnswered(s) \/ Downloaded(s)

BoardStep == BoardClick \/ \E s \in Slots : BoardTakes(s)

-----------------------------------------------------------------------------
Loading(kinds) == \E s \in Slots : calls[s].kind \in kinds

\* Once its load is over, a board whose effects have a cancelled flag shows the
\* rows of the workspace that is chosen, however often the user switched while
\* answers were under way (use-work-items.ts:47-75, approvals-board.tsx:34-84,
\* artifacts-board.tsx:91-111).  The agents board has no flag and may show the
\* rows of the workspace that was left; the admin console has no workspace.
BoardOfWorkspace ==
    page \in Cancelling => \/ \A row \in board.rows : row.ws = workspace
                           \/ Loading(ListKinds) \/ board.error

\* The detail beside a list is that of the selected row, or it is being loaded.
DetailOfSelection ==
    \/ Loading({"detail"})
    \/ page = "admin" /\ \A entry \in board.detail.entries : entry[1] = board.selected
    \/ /\ page # "admin"
       /\ \A row \in board.detail.rows : runs[row.id].item = board.selected
       /\ \A entry \in board.detail.entries :
            IF entry[2] = 0 THEN entry[1] = board.selected ELSE runs[entry[1]].item = board.selected

\* What is shown as decided was decided so: no decision is shown on the
\* strength of a click, or survives on the page one that the server refused.
\* (The mock lets a draft replace an approved version, the server does not.)
DecisionsAreMade ==
    /\ page = "approvals" =>
        \A row \in board.rows : row.status \in {"approved", "rejected"} => approvals[row.id] = row.status
    /\ page \in {"agents", "admin"} /\ ~mock =>
        \A row \in ProfileRows : row.status = "approved" => profiles[row.id] = "approved"

\* Every spinner ends, those of cancelled loads too.
BoardSettles == <>[]~(board.loading \/ board.detailLoading \/ board.busy \/ board.acting # None)
=============================================================================
