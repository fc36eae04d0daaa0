------------------------------ MODULE RunsChat ------------------------------
(***************************************************************************)
(* The runs page (components/app/runs-chat.tsx): the conversations of a    *)
(* workspace, and the selected one, which is mounted anew for each work    *)
(* item and shows the events of that item's runs as requests, a poll of    *)
(* the active run and the realtime socket bring them in.                   *)
(***************************************************************************)
EXTENDS ControlApiClient

VARIABLE chat

\* A mounted Conversation before its first answer.
EmptyConversation(view) ==
    [view EXCEPT !.runs = {}, !.events = {}, !.loading = FALSE, !.submitting = FALSE]

NoChat ==
    [items |-> {}, loadingItems |-> FALSE, creating |-> FALSE, selected |-> None,
     runs |-> {}, events |-> {}, loading |-> FALSE, submitting |-> FALSE]

IsTerminal(status) == status = "succeeded"

\* The first run of the list that has not ended; the server lists the oldest
\* run first, the mock the newest.
ActiveRuns == {row.id : row \in {shown \in chat.runs : ~IsTerminal(shown.status)}}
IsActive(r) == r \in ActiveRuns /\ \A other \in ActiveRuns : IF mock THEN other <= r ELSE r <= other

\* The workItem of the conversation: what it finds in the list.
HasItem(view) == view.selected \in view.items

ListRequest(ws) == Request("conversations", ws, None, {"items"})
RefreshRequest(ws, item) == Request("refresh", ws, item, {"runs", "events"})

\* refresh, which does nothing without a workItem.
Refresh(view, under, ws) ==
    IF HasItem(view)
    THEN /\ Free(under) # {}
         /\ chat' = [view EXCEPT !.loading = TRUE]
         /\ calls' = Send(under, RefreshRequest(ws, view.selected))
    ELSE chat' = view /\ calls' = under

\* The conversation of another item: it starts empty, and what the last one
\* waited for finds no component.  A message on its way is still sent.
Detached(under) ==
    [s \in Slots |->
        CASE under[s].kind \in {"refresh", "poll"} -> NoCall
          [] under[s].kind = "start" -> [under[s] EXCEPT !.arg = "detached"]
          [] OTHER -> under[s]]

Mount(view, under, item) ==
    Refresh([EmptyConversation(view) EXCEPT !.selected = item], Detached(under), workspace')

-----------------------------------------------------------------------------
\* What the user does.

\* setWorkspaceId: the list is loaded again, and so is the conversation, whose
\* item stays selected.
ChatSwitchWorkspace(ws) ==
    /\ ws # workspace /\ workspace' = ws
    /\ Free(calls) # {} /\ Click
    /\ Refresh([chat EXCEPT !.loadingItems = TRUE], Send(calls, ListRequest(ws)), ws)

ReloadItems ==
    /\ Free(calls) # {} /\ Click /\ UNCHANGED workspace
    /\ chat' = [chat EXCEPT !.loadingItems = TRUE]
    /\ calls' = Send(calls, ListRequest(workspace))

SelectConversation(i) ==
    /\ i \in chat.items \ {chat.selected}
    /\ Click /\ UNCHANGED workspace
    /\ Mount(chat, calls, i)

RefreshClick ==
    /\ HasItem(chat) /\ Click /\ UNCHANGED workspace
    /\ Refresh(chat, calls, workspace)

\* The button is disabled while a message is being sent, the Enter key is not.
SubmitMessage ==
    /\ HasItem(chat) /\ Free(calls) # {} /\ Click /\ UNCHANGED workspace
    /\ chat' = [chat EXCEPT !.submitting = TRUE]
    /\ calls' = Send(calls, Request("start", workspace, chat.selected, {"write"}))

CreateConversation ==
    /\ ~chat.creating /\ Free(calls) # {} /\ Click /\ UNCHANGED workspace
    /\ chat' = [chat EXCEPT !.creating = TRUE]
    /\ calls' = Send(calls, Request("create", workspace, None, {"write"}))

-----------------------------------------------------------------------------
\* What answers do.
\* New objects for the same items: the workItem of the conversation is another
\* one, and its refresh runs again.  A first selection mounts a conversation.
ItemsLoaded(s) ==
    /\ Arrived(s, "conversations")
    /\ LET call == calls[s]
           items == {row.id : row \in call.rows}
           view == [chat EXCEPT !.items = items, !.loadingItems = FALSE] IN
       IF ~call.ok
       THEN chat' = [chat EXCEPT !.loadingItems = FALSE] /\ calls' = Taken(s)
       ELSE IF chat.selected = None /\ items # {}
       THEN \E first \in items : Mount(view, Taken(s), first)
       ELSE Refresh(view, Taken(s), workspace)

\* onCreated; an item of the list keeps its object, and its conversation.
Created(s) ==
    /\ Arrived(s, "create")
    /\ LET view == [chat EXCEPT !.items = @ \union {row.id : row \in calls[s].rows}, !.creating = FALSE] IN
       IF calls[s].ok
       THEN \E row \in calls[s].rows : Mount(view, Taken(s), row.id)
       ELSE chat' = view /\ calls' = Taken(s)

\* Both answers of a refresh replace what is shown.
Refreshed(s) ==
    /\ Arrived(s, "refresh")
    /\ chat' = [chat EXCEPT !.runs = calls[s].rows, !.events = calls[s].entries, !.loading = FALSE,
                            !.submitting = IF calls[s].arg = "submit" THEN FALSE ELSE @]
    /\ calls' = Taken(s)

\* Bug: the submission is left as it is when it fails.
SubmittedInVain(s) ==
    /\ Arrived(s, "start")
    /\ IF calls[s].arg = "detached" \/ ~calls[s].ok
       THEN chat' = chat /\ calls' = Taken(s)
       ELSE /\ chat' = [chat EXCEPT !.loading = TRUE]
            /\ calls' = [calls EXCEPT ![s] =
                            [RefreshRequest(calls[s].ws, calls[s].id) EXCEPT !.arg = "submit"]]

\* onSubmit after its first await: the refresh is part of the submission, and
\* its requests go out even from a conversation that is gone.
Submitted(s) ==
    /\ Arrived(s, "start")
    /\ IF calls[s].arg = "detached"
       THEN chat' = chat /\ calls' = Taken(s)
       ELSE IF calls[s].ok
       THEN /\ chat' = [chat EXCEPT !.loading = TRUE]
            /\ calls' = [calls EXCEPT ![s] =
                            [RefreshRequest(calls[s].ws, calls[s].id) EXCEPT !.arg = "submit"]]
       ELSE chat' = [chat EXCEPT !.submitting = FALSE] /\ calls' = Taken(s)

\* The interval, while there is an active run; it does not wait for the last poll.
PollWanted(r) == HasItem(chat) /\ IsActive(r)
\* Bug: the run is polled only as long as none of its events is shown.
PollAtFirst(r) ==
    /\ PollWanted(r) /\ Free(calls) # {} /\ chat.events = {}
    /\ calls' = Send(calls, Request("poll", workspace, r, {"runEvents"}))
    /\ UNCHANGED <<server, workspace, clicks, chat>>

Poll(r) ==
    /\ PollWanted(r) /\ Free(calls) # {}
    /\ calls' = Send(calls, Request("poll", workspace, r, {"runEvents"}))
    /\ UNCHANGED <<server, workspace, clicks, chat>>

\* mergeChatEvents knows an event by its id.  The runs are left as they are.
MergeChatEvents(events, incoming) == events \union incoming
Polled(s) ==
    /\ Arrived(s, "poll")
    /\ chat' = IF calls[s].ok THEN [chat EXCEPT !.events = MergeChatEvents(@, calls[s].entries)] ELSE chat
    /\ calls' = Taken(s)

\* useRunRealtimeEvents for the active run, with handleRealtimeEvent: an event
\* is pushed once, again, or not at all; it names its own workspace and run.
IsStatus(seq) == seq # ArtifactSeq

RunsAfter(shown, r, seq) ==
    {IF row.id = r /\ IsStatus(seq) THEN [row EXCEPT !.status = StatusAt(seq)] ELSE row : row \in shown}

RealtimeEvent(r, seq) ==
    /\ ~mock /\ PollWanted(r)
    /\ Home[runs[r].item] = workspace
    /\ seq \in 1..runs[r].events
    /\ chat' = [chat EXCEPT !.events = MergeChatEvents(@, {<<r, seq>>}), !.runs = RunsAfter(@, r, seq)]
    /\ UNCHANGED api

-----------------------------------------------------------------------------
ChatType ==
    /\ chat.items \subseteq Items
    /\ chat.selected \in Items \union {None}
    /\ chat.runs \subseteq RowType /\ chat.events \subseteq EntryType
    /\ {chat.loadingItems, chat.creating, chat.loading, chat.submitting} \subseteq BOOLEAN

ChatInit ==
    /\ chat = [NoChat EXCEPT !.loadingItems = TRUE]
    /\ calls = Send([s \in Slots |-> NoCall], ListRequest(workspace))

ChatClick ==
    \/ \E ws \in Workspaces : ChatSwitchWorkspace(ws)
    \/ ReloadItems \/ RefreshClick \/ SubmitMessage \/ CreateConversation
    \/ \E i \in Items : SelectConversation(i)

ChatTakes(s) == ItemsLoaded(s) \/ Created(s) \/ Refreshed(s) \/ Submitted(s) \/ Polled(s)

ChatStep ==
    \/ ChatClick
    \/ \E s \in Slots : ChatTakes(s)
    \/ \E r \in RunIds : Poll(r) \/ \E seq \in 1..MaxEvents : RealtimeEvent(r, seq)

-----------------------------------------------------------------------------
\* A conversation shows runs and events of its own work item only, whatever
\* was asked for, and pushed, before another one was selected (the key of
\* Conversation in runs-chat.tsx).
ChatOfItem ==
    /\ \A row \in chat.runs : runs[row.id].item = chat.selected
    /\ \A event \in chat.events : runs[event[1]].item = chat.selected

\* A run that is shown as ended has ended: the page never takes the end of one
\* run for that of another (handleRealtimeEvent).
EndIsReal ==
    \A row \in chat.runs : IsTerminal(row.status) => runs[row.id].events = MaxEvents

\* With the socket or without it, the events of a run that stays the active
\* one are shown, as many as a poll asks for (the interval of Conversation).
EventsShown ==
    \A r \in RunIds : <>[](PollWanted(r) /\ ~mock) => []<>(PollWanted(r) => ListRunEvents(r, PollLimit) \subseteq chat.events)

\* Every spinner ends: what the page waits for is answered or given up.
ChatSettles == <>[]~(chat.loadingItems \/ chat.creating \/ chat.loading \/ chat.submitting)

=============================================================================
