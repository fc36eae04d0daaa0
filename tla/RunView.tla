------------------------------- MODULE RunView -------------------------------
(***************************************************************************)
(* How a browser tab follows a run: the command panel of the web app       *)
(* (apps/web/components/app/hero-command-panel.tsx) polls the control API  *)
(* every two seconds and, when it can, receives the same events over a     *)
(* WebSocket from the relay of the table's stream (services/realtime-api). *)
(* Both are merged into one view, whose highest position is the cursor     *)
(* that the next poll asks after (apps/web/lib/run-ledger.ts).             *)
(*                                                                         *)
(* Data: a run's log is a sequence, so its positions are 1, 2, ... in the  *)
(* order they are committed, as with one writer.  Of an event the model    *)
(* keeps the run, the position and the status it carries; "ended" stands   *)
(* for the four terminal statuses.  The relay never connects a tab that    *)
(* has no realtime URL: OpenSocket is a step that need not be taken.       *)
(***************************************************************************)
EXTENDS Naturals, Sequences, FiniteSets

CONSTANTS
    Runs,        \* runs that this tab may start
    Polls,       \* polls of the tab that may be in flight at once
    MaxEvents,   \* bound: events of a run
    PageSize,    \* events in one answer of the API
    None         \* not a run

ASSUME ConstantsAssumption ==
    /\ MaxEvents \in Nat \ {0}
    /\ PageSize \in Nat \ {0}
    /\ None \notin Runs

VARIABLES
    log,       \* EventsTable: the status of each event, by position
    row,       \* the status column of RunsTable: the values it has had, oldest first
    tab,       \* createdRun, events, and where onSubmit is
    polls,     \* ticks in flight: run, row read, cursor sent
    socket     \* the tab's WebSocket and its subscription

vars == <<log, row, tab, polls, socket>>

Statuses == {"queued", "running", "ended"}

\* An event without a status: an artifact, a response.
NoStatus == "none"

Event == [run : Runs, seq : 1..MaxEvents, status : Statuses \union {NoStatus}]

EventAt(r, n) == [run |-> r, seq |-> n, status |-> log[r][n]]

IdlePoll == [pc |-> "idle", run |-> None, status |-> NoStatus, after |-> 0]

NoSocket == [pc |-> "closed", run |-> None]

Init ==
    /\ log = [r \in Runs |-> <<>>]
    /\ row = [r \in Runs |-> <<>>]
    /\ tab = [submit |-> "idle", run |-> None, status |-> "queued", view |-> {}]
    /\ polls = [p \in Polls |-> IdlePoll]
    /\ socket = NoSocket

-----------------------------------------------------------------------------
(***************************************************************************)
(* What is derived from the events in the view.                            *)
(***************************************************************************)
Highest(view) == CHOOSE e \in view : \A f \in view : f.seq <= e.seq

LastSeq(view) == IF view = {} THEN 0 ELSE Highest(view).seq

StatusEvents(view) == {e \in view : e.status # NoStatus}

\* The status shown: of the highest event that has one, else the run's own.
ShownStatus(t) ==
    IF StatusEvents(t.view) = {} THEN t.status ELSE Highest(StatusEvents(t.view)).status

IsTerminal(t) == ShownStatus(t) = "ended"

\* The tab polls and listens while it has a run that has not ended.
Following == tab.run # None /\ ~IsTerminal(tab)

-----------------------------------------------------------------------------
(***************************************************************************)
(* The run's writer: a status is put in the log, then in the row.          *)
(***************************************************************************)
LatestStatus(r) ==
    LET positions == {n \in DOMAIN log[r] : log[r][n] # NoStatus}
    IN  IF positions = {} THEN NoStatus
        ELSE log[r][CHOOSE n \in positions : \A m \in positions : m <= n]

CommitEvent(r) ==
    /\ Len(log[r]) \in 1..(MaxEvents - 1)
    /\ \E status \in {NoStatus, "running", "ended"} : log' = [log EXCEPT ![r] = Append(@, status)]
    /\ UNCHANGED <<row, tab, polls, socket>>

RowShows(r, status) == row[r] # <<>> /\ row[r][Len(row[r])] = status

\* Bug: the row is updated for an event that has yet to be put.
UpdateRowFirst(r) ==
    /\ log[r] # <<>>
    /\ \E status \in {"running", "ended"} : row' = [row EXCEPT ![r] = Append(@, status)]
    /\ UNCHANGED <<log, tab, polls, socket>>

UpdateRow(r) ==
    /\ log[r] # <<>> /\ ~RowShows(r, LatestStatus(r))
    /\ row' = [row EXCEPT ![r] = Append(@, LatestStatus(r))]
    /\ UNCHANGED <<log, tab, polls, socket>>

-----------------------------------------------------------------------------
(***************************************************************************)
(* onSubmit: a new run, then its first events in place of what is shown.   *)
(* Clearing the run ends the socket of the one before, and the interval,   *)
(* but not the polls in flight.                                            *)
(***************************************************************************)
Submit ==
    /\ tab.submit = "idle"
    /\ \E r \in Runs : log[r] = <<>>
    /\ tab' = [submit |-> "create", run |-> None, status |-> "queued", view |-> {}]
    /\ socket' = NoSocket
    /\ UNCHANGED <<log, row, polls>>

CreateRun(r) ==
    /\ tab.submit = "create"
    /\ log[r] = <<>>
    /\ log' = [log EXCEPT ![r] = <<"queued">>]
    /\ row' = [row EXCEPT ![r] = <<"queued">>]
    /\ tab' = [tab EXCEPT !.submit = "initial", !.run = r]
    /\ UNCHANGED <<polls, socket>>

\* Events after a position, oldest first, of the log as an eventually consistent
\* read shows it: its first n events.
Page(r, after, n) ==
    {EventAt(r, k) : k \in {k \in 1..n : k > after /\ k <= after + PageSize}}

InitialEvents ==
    /\ tab.submit = "initial"
    /\ \E n \in 0..Len(log[tab.run]) :
        tab' = [tab EXCEPT !.submit = "idle", !.view = Page(tab.run, 0, n)]
    /\ UNCHANGED <<log, row, polls, socket>>

\* A call of onSubmit throws.
SubmitFails ==
    /\ tab.submit \in {"create", "initial"}
    /\ tab' = [tab EXCEPT !.submit = "idle"]
    /\ UNCHANGED <<log, row, polls, socket>>

-----------------------------------------------------------------------------
(***************************************************************************)
(* Polling.  A tick reads the run, then the events after the cursor.  A    *)
(* new interval does not wait for it, and the end of the run, or another   *)
(* run, does not cancel it.                                                *)
(***************************************************************************)
\* Bug: polling is left to tabs without a socket.
TickWithoutSocket(p) ==
    /\ polls[p].pc = "idle"
    /\ Following
    /\ socket = NoSocket
    /\ polls' = [polls EXCEPT ![p].pc = "row", ![p].run = tab.run]
    /\ UNCHANGED <<log, row, tab, socket>>

Tick(p) ==
    /\ polls[p].pc = "idle"
    /\ Following
    /\ polls' = [polls EXCEPT ![p].pc = "row", ![p].run = tab.run]
    /\ UNCHANGED <<log, row, tab, socket>>

\* The run is answered from an index, which may show an earlier status; the
\* cursor is read only now, from what the tab shows.
RowAnswer(p) ==
    /\ polls[p].pc = "row"
    /\ \E n \in DOMAIN row[polls[p].run] :
        polls' = [polls EXCEPT ![p].pc = "events", ![p].status = row[polls[p].run][n],
                               ![p].after = LastSeq(tab.view)]
    /\ UNCHANGED <<log, row, tab, socket>>

\* The status and the events go to whatever the tab shows by then.
Answered(p, n) ==
    /\ polls[p].pc = "events"
    /\ tab' = [tab EXCEPT !.status = IF tab.run = None THEN @ ELSE polls[p].status,
                          !.view = @ \union Page(polls[p].run, polls[p].after, n)]
    /\ polls' = [polls EXCEPT ![p] = IdlePoll]
    /\ UNCHANGED <<log, row, socket>>

EventsAnswer(p) ==
    polls[p].pc = "events" /\ \E n \in 0..Len(log[polls[p].run]) : Answered(p, n)

PollFails(p) ==
    /\ polls[p].pc # "idle"
    /\ polls' = [polls EXCEPT ![p] = IdlePoll]
    /\ UNCHANGED <<log, row, tab, socket>>

-----------------------------------------------------------------------------
(***************************************************************************)
(* Realtime: the hook opens a socket for the run it follows and subscribes *)
(* once; it does not reconnect.                                            *)
(***************************************************************************)
OpenSocket ==
    /\ Following
    /\ socket = NoSocket
    /\ socket' = [pc |-> "open", run |-> tab.run]
    /\ UNCHANGED <<log, row, tab, polls>>

\* subscribeRun is refused while the index does not show the run; the tab does
\* not look at the answer.
SubscribeRun ==
    /\ socket.pc = "open"
    /\ socket' = [socket EXCEPT !.pc = "subscribed"]
    /\ UNCHANGED <<log, row, tab, polls>>

LoseSocket ==
    /\ socket.pc \in {"open", "subscribed"}
    /\ socket' = [socket EXCEPT !.pc = "lost"]
    /\ UNCHANGED <<log, row, tab, polls>>

CloseSocket ==
    /\ socket # NoSocket
    /\ ~Following
    /\ socket' = NoSocket
    /\ UNCHANGED <<log, row, tab, polls>>

\* handleRealtimeEvent
Received(e) ==
    [tab EXCEPT !.view = @ \union {e},
                !.status = IF e.status # NoStatus /\ e.run = tab.run THEN e.status ELSE @]

\* The stream brings a run's events in order, a batch in which one post failed
\* again from its start and, after a few attempts, not at all: what comes next
\* may be any event of the log.
RelayEvent(r) ==
    /\ socket = [pc |-> "subscribed", run |-> r]
    /\ \E n \in DOMAIN log[r] : tab' = Received(EventAt(r, n))
    /\ UNCHANGED <<log, row, polls, socket>>

-----------------------------------------------------------------------------
Poll(p) == Tick(p) \/ RowAnswer(p) \/ EventsAnswer(p) \/ PollFails(p)

Realtime == OpenSocket \/ SubscribeRun \/ LoseSocket \/ CloseSocket

Next ==
    \/ Submit
    \/ InitialEvents
    \/ SubmitFails
    \/ \E r \in Runs : CommitEvent(r) \/ UpdateRow(r) \/ CreateRun(r) \/ RelayEvent(r)
    \/ \E p \in Polls : Poll(p)
    \/ Realtime

Spec == Init /\ [][Next]_vars

(***************************************************************************)
(* Fairness: the interval fires, requests are answered again and again,    *)
(* and now and then with the log as it is by then; React runs the cleanup  *)
(* of an effect.  Nothing is assumed of the relay or of the socket.        *)
(***************************************************************************)
FreshAnswer(p) == polls[p].pc = "events" /\ Answered(p, Len(log[polls[p].run]))

FairSpec ==
    /\ Spec
    /\ WF_vars(CloseSocket)
    /\ \A p \in Polls : /\ WF_vars(Poll(p))
                        /\ SF_vars(RowAnswer(p))
                        /\ SF_vars(FreshAnswer(p))

-----------------------------------------------------------------------------
TypeOK ==
    /\ log \in [Runs -> Seq(Statuses \union {NoStatus})]
    /\ row \in [Runs -> Seq(Statuses)]
    /\ tab \in [submit : {"idle", "create", "initial"}, run : Runs \union {None},
                status : Statuses, view : SUBSET Event]
    /\ polls \in [Polls -> [pc : {"idle", "row", "events"}, run : Runs \union {None},
                            status : Statuses \union {NoStatus}, after : 0..MaxEvents]]
    /\ socket \in [pc : {"closed", "open", "subscribed", "lost"}, run : Runs \union {None}]

\* What the tab holds of a run, in the view, the status and the polls under way,
\* was read from the run's log, although each source lags behind it.
LogsStart ==
    \A r \in Runs :
        /\ Len(log[r]) <= MaxEvents
        /\ log[r] # <<>> => log[r][1] = "queued"

Ended(r) == \E n \in DOMAIN log[r] : log[r][n] = "ended"

RowReal == \A r \in Runs : (\E n \in DOMAIN row[r] : row[r][n] = "ended") => Ended(r)

ViewReal == \A e \in tab.view : e.seq \in DOMAIN log[e.run] /\ log[e.run][e.seq] = e.status

PollReal(p) ==
    /\ polls[p].pc # "idle" => polls[p].run \in Runs /\ log[polls[p].run] # <<>>
    /\ polls[p].pc = "events" <=> polls[p].status # NoStatus
    /\ polls[p].status = "ended" => Ended(polls[p].run)

TabReal ==
    /\ tab.run # None => log[tab.run] # <<>>
    /\ tab.submit = "initial" => tab.run # None
    /\ tab.status = "ended" => \E r \in Runs : Ended(r)

IInv ==
    /\ TypeOK
    /\ LogsStart
    /\ RowReal
    /\ ViewReal
    /\ \A p \in Polls : PollReal(p)
    /\ TabReal

\* A run that the tab shows as ended has a terminal status in its log, although
\* the status comes from three sources that lag behind each other: the row, the
\* polled events and the relayed ones (hero-command-panel.tsx:43-79).
EndIsReal ==
    tab.run # None /\ IsTerminal(tab) => Ended(tab.run)

\* The final status of a wake or a worker is the last event it puts.
LogEnded(r) == log[r] # <<>> /\ log[r][Len(log[r])] = "ended"

Settled == IsTerminal(tab) /\ socket = NoSocket /\ \A p \in Polls : polls[p].pc = "idle"

\* When the run that a tab follows has ended, the tab comes to show it and then
\* asks and listens no more, whatever the socket loses, repeats or never brings
\* (hero-command-panel.tsx:52-86, use-run-realtime-events.ts:59-64).
EndIsShown ==
    \A r \in Runs : <>[](tab.run = r /\ LogEnded(r)) => <>[]Settled

(***************************************************************************)
(* apps/web/test/realtime-client.test.ts:86: the client "only accepts      *)
(* events for the active run".  So it does with the socket's; a poll of    *)
(* the run before that is answered late is merged into the new run's view. *)
(***************************************************************************)
OnlyActiveRunShown ==
    tab.submit = "idle" /\ tab.run # None => \A e \in tab.view : e.run = tab.run

=============================================================================
