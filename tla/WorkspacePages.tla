--------------------------- MODULE WorkspacePages ---------------------------
(***************************************************************************)
(* The web application: one page at a time, with the requests it has sent, *)
(* over a Control API whose runs go on elsewhere.                          *)
(***************************************************************************)
EXTENDS RunsChat, Boards

pagesVars == <<api, page, chat, board>>

PagesTypeOK ==
    /\ ApiType /\ ChatType /\ BoardType
    /\ page \in BoardPages \union {"chat"}

PagesInit ==
    /\ ApiInit
    /\ \/ page = "chat" /\ ChatInit /\ board = EmptyBoard
       \/ page \in BoardPages /\ BoardInit /\ chat = NoChat

\* The parts of a refresh are answered one by one: the chat compares the runs
\* with the events.  The boards compare nothing, and their parts come at once.
PartsRead(s) ==
    IF page = "chat" THEN {{part} : part \in calls[s].wanted} ELSE {calls[s].wanted}
Serve(s) ==
    /\ \/ \E parts \in PartsRead(s) : \E lost \in SUBSET parts : Read(s, parts, lost)
       \/ Write(s)
    /\ UNCHANGED <<chat, board>>
ServePoll(s) ==
    /\ calls[s].kind = "poll" /\ Read(s, {"runEvents"}, {})
    /\ UNCHANGED <<page, chat, board>>

Take(s) ==
    \/ page = "chat" /\ ChatTakes(s) /\ UNCHANGED <<page, board>>
    \/ page \in BoardPages /\ BoardTakes(s) /\ UNCHANGED <<page, chat>>

PagesNext ==
    /\ \/ ServerStep /\ UNCHANGED <<chat, board>>
       \/ \E s \in Slots : Serve(s)
       \/ page = "chat" /\ ChatStep /\ UNCHANGED board
       \/ page \in BoardPages /\ BoardStep /\ UNCHANGED chat
    /\ UNCHANGED page

PollStep == page = "chat" /\ (\E r \in RunIds : Poll(r)) /\ UNCHANGED <<page, board>>

\* Requests come to an end, the browser runs what waits for them, and its
\* interval goes on; of the polls that are sent again and again some succeed.
\* The user, the runs and the socket owe nothing.
Fairness ==
    /\ \A s \in Slots : WF_pagesVars(Serve(s) /\ UNCHANGED page) /\ WF_pagesVars(Take(s))
    /\ SF_pagesVars(PollStep) /\ SF_pagesVars(\E s \in Slots : ServePoll(s))

PagesSpec == PagesInit /\ [][PagesNext]_pagesVars
PagesFairSpec == PagesSpec /\ Fairness

\* In whatever order the answers arrive, a conversation and a detail are of the
\* row that is selected, and the lists of the work, approvals and artifacts pages
\* are of the workspace that is chosen.  Not so the lists of the chat and of the
\* agents board: their effects have no cancelled flag, and the last answer to
\* come is shown, also one for the workspace that was left (runs-chat.tsx:48-61,
\* agents-board.tsx:66-79).
ShowsSelection == PagesTypeOK /\ ChatOfItem /\ BoardOfWorkspace /\ DetailOfSelection

\* What a page says has happened did: ends of runs and decisions.
ShowsFacts == EndIsReal /\ DecisionsAreMade

\* Every spinner of every page ends.
PagesSettle == ChatSettles /\ BoardSettles
=============================================================================
