---------------------------- MODULE RunViewProofs ----------------------------
(***************************************************************************)
(* Proofs about RunView, for any number of runs, polls and events and any  *)
(* size of a page: what a tab holds of a run was read from its log (IInv), *)
(* and with one run an end that is shown is real.                          *)
(***************************************************************************)
EXTENDS RunView, WellFoundedInduction, TLAPS

-----------------------------------------------------------------------------
(***************************************************************************)
(* Facts about the data.                                                   *)
(***************************************************************************)

\* The order of the naturals, as the library's theorems on well-foundedness want it.
Below == {ss \in Nat \X Nat : ss[1] < ss[2]}

LEMMA BelowIsWellFounded == IsWellFoundedOn(Below, Nat)
BY NatLessThanWellFounded DEF OpToRel, Below

\* Some positions of a log have a highest one.
LEMMA HighestPosition ==
    ASSUME NEW N \in Nat, NEW S \in SUBSET (1..N), S # {}
    PROVE  \E m \in S : \A k \in S : k <= m
<1> DEFINE T == {N - k : k \in S}
<1>1. T \subseteq Nat /\ T # {}
  OBVIOUS
<1>2. PICK x \in T : \A y \in T : ~(<<y, x>> \in Below)
  BY <1>1, WFMin, BelowIsWellFounded
<1>3. PICK m \in S : x = N - m
  OBVIOUS
<1>4. ASSUME NEW k \in S
      PROVE  k <= m
  <2>1. N - k \in Nat /\ x \in Nat
    BY <1>1
  <2>2. ~(<<N - k, x>> \in Below)
    BY <1>2
  <2>3. ~(N - k < x)
    BY <2>1, <2>2 DEF Below
  <2> QED
    BY <1>3, <2>3
<1> QED
  BY <1>4

\* The highest of some events is one of them.
LEMMA HighestIsOne ==
    ASSUME NEW view \in SUBSET Event, view # {}
    PROVE  Highest(view) \in view
<1> DEFINE S == {e.seq : e \in view}
<1>1. S \in SUBSET (1..MaxEvents) /\ S # {} /\ MaxEvents \in Nat
  BY ConstantsAssumption DEF Event
<1>2. PICK m \in S : \A k \in S : k <= m
  BY <1>1, HighestPosition
<1>3. \E e \in view : \A f \in view : f.seq <= e.seq
  BY <1>2
<1> QED
  BY <1>3 DEF Highest

\* The cursor is a position of an event, or 0.
LEMMA LastSeqType ==
    ASSUME NEW view \in SUBSET Event
    PROVE  LastSeq(view) \in 0..MaxEvents
<1>1. CASE view = {}
  BY <1>1, ConstantsAssumption DEF LastSeq
<1>2. CASE view # {}
  <2>1. Highest(view) \in Event
    BY <1>2, HighestIsOne
  <2> QED
    BY <1>2, <2>1, ConstantsAssumption DEF LastSeq, Event
<1> QED
  BY <1>1, <1>2

\* The last status of a log that starts with one is one of its statuses.
LEMMA LatestIsOne ==
    ASSUME TypeOK, LogsStart, NEW r \in Runs, log[r] # <<>>
    PROVE  /\ LatestStatus(r) \in Statuses
           /\ LatestStatus(r) = "ended" => Ended(r)
<1> DEFINE positions == {n \in DOMAIN log[r] : log[r][n] # NoStatus}
           Last == CHOOSE n \in positions : \A m \in positions : m <= n
<1>0. log[r] \in Seq(Statuses \union {NoStatus}) /\ log[r][1] = "queued"
  BY DEF TypeOK, LogsStart
<1>1. /\ Len(log[r]) \in Nat
      /\ DOMAIN log[r] = 1..Len(log[r])
      /\ \A n \in 1..Len(log[r]) : log[r][n] \in Statuses \union {NoStatus}
  BY <1>0
<1>2. 1 \in positions
  BY <1>0, <1>1 DEF NoStatus
<1>3. positions \in SUBSET (1..Len(log[r]))
  BY <1>1
<1> HIDE DEF positions
<1>4. \E n \in positions : \A m \in positions : m <= n
  BY <1>1, <1>2, <1>3, HighestPosition
<1>5. Last \in positions
  BY <1>4
<1>6. LatestStatus(r) = log[r][Last]
  BY <1>2 DEF LatestStatus, positions
<1>7. Last \in DOMAIN log[r] /\ log[r][Last] # NoStatus
  BY <1>5 DEF positions
<1> HIDE DEF Last
<1> QED
  BY <1>1, <1>6, <1>7 DEF Ended

\* What an answer brings are events of the log.
LEMMA PageIsReal ==
    ASSUME TypeOK, LogsStart, NEW r \in Runs, NEW n \in 0..Len(log[r]), NEW after \in Nat
    PROVE  /\ Page(r, after, n) \subseteq Event
           /\ \A e \in Page(r, after, n) : /\ e.run = r
                                           /\ e.seq \in DOMAIN log[r]
                                           /\ log[r][e.seq] = e.status
<1>1. /\ log[r] \in Seq(Statuses \union {NoStatus})
      /\ Len(log[r]) <= MaxEvents
      /\ Len(log[r]) \in Nat
  BY DEF TypeOK, LogsStart
<1>2. \A k \in 1..n : /\ k \in DOMAIN log[r]
                      /\ k \in 1..MaxEvents
                      /\ log[r][k] \in Statuses \union {NoStatus}
  BY <1>1, ConstantsAssumption
<1>3. \A e \in Page(r, after, n) : \E k \in 1..n : e = EventAt(r, k)
  BY DEF Page
<1> QED
  BY <1>2, <1>3 DEF EventAt, Event

\* A tab that shows the end shows it from its status or from an event.
LEMMA EndHasSource ==
    ASSUME TypeOK, IsTerminal(tab)
    PROVE  tab.status = "ended" \/ \E e \in tab.view : e.status = "ended"
<1>1. CASE StatusEvents(tab.view) = {}
  BY <1>1 DEF IsTerminal, ShownStatus
<1>2. CASE StatusEvents(tab.view) # {}
  <2>1. StatusEvents(tab.view) \in SUBSET Event
    BY DEF TypeOK, StatusEvents
  <2>2. Highest(StatusEvents(tab.view)) \in StatusEvents(tab.view)
    BY <1>2, <2>1, HighestIsOne
  <2> QED
    BY <1>2, <2>2 DEF IsTerminal, ShownStatus, StatusEvents
<1> QED
  BY <1>1, <1>2

-----------------------------------------------------------------------------
(***************************************************************************)
(* The log only grows, so what was read from it stays true.                *)
(***************************************************************************)

\* A log keeps the events it has.
Grown ==
    \A r \in Runs : /\ DOMAIN log[r] \subseteq DOMAIN log'[r]
                    /\ \A n \in DOMAIN log[r] : log'[r][n] = log[r][n]

\* What is true of the logs alone.
LogsType ==
    /\ log \in [Runs -> Seq(Statuses \union {NoStatus})]
    /\ \A r \in Runs : Len(log[r]) <= MaxEvents /\ (log[r] # <<>> => log[r][1] = "queued")

LEMMA CommitGrows ==
    ASSUME TypeOK, LogsStart, NEW r \in Runs, CommitEvent(r)
    PROVE  LogsType' /\ Grown /\ \A q \in Runs : log'[q] = <<>> <=> log[q] = <<>>
<1>1. PICK status \in {NoStatus, "running", "ended"} :
        log' = [log EXCEPT ![r] = Append(@, status)]
  BY DEF CommitEvent
<1>2. \A q \in Runs : /\ log[q] \in Seq(Statuses \union {NoStatus})
                      /\ Len(log[q]) \in Nat
                      /\ Len(log[q]) <= MaxEvents
                      /\ log[q] # <<>> => log[q][1] = "queued"
  BY DEF TypeOK, LogsStart
<1>3. Len(log[r]) \in 1..(MaxEvents - 1) /\ status \in Statuses \union {NoStatus}
  BY DEF CommitEvent, Statuses
<1>4. log[r] # <<>> /\ log[r][1] = "queued"
  BY <1>2, <1>3
<1>5. /\ log'[r] = Append(log[r], status)
      /\ log' \in [Runs -> Seq(Statuses \union {NoStatus})]
      /\ \A q \in Runs \ {r} : log'[q] = log[q]
  BY <1>1, <1>2, <1>3 DEF TypeOK
<1>6. /\ log'[r] # <<>>
      /\ Len(log'[r]) <= MaxEvents
      /\ log'[r][1] = "queued"
      /\ DOMAIN log[r] \subseteq DOMAIN log'[r]
      /\ \A n \in DOMAIN log[r] : log'[r][n] = log[r][n]
  BY <1>2, <1>3, <1>4, <1>5, ConstantsAssumption
<1> QED
  BY <1>2, <1>4, <1>5, <1>6 DEF LogsType, Grown

LEMMA CreateGrows ==
    ASSUME TypeOK, LogsStart, NEW r \in Runs, CreateRun(r)
    PROVE  /\ LogsType' /\ Grown
           /\ log'[r] # <<>>
           /\ \A q \in Runs \ {r} : log'[q] = log[q]
<1>1. /\ log' = [log EXCEPT ![r] = <<"queued">>]
      /\ log[r] = <<>>
  BY DEF CreateRun
<1>2. \A q \in Runs : /\ log[q] \in Seq(Statuses \union {NoStatus})
                      /\ Len(log[q]) <= MaxEvents
                      /\ log[q] # <<>> => log[q][1] = "queued"
  BY DEF TypeOK, LogsStart
<1>3. /\ log'[r] = <<"queued">>
      /\ log' \in [Runs -> Seq(Statuses \union {NoStatus})]
      /\ \A q \in Runs \ {r} : log'[q] = log[q]
  BY <1>1 DEF TypeOK, Statuses
<1>4. log'[r] # <<>> /\ Len(log'[r]) <= MaxEvents /\ log'[r][1] = "queued"
  BY <1>3, ConstantsAssumption
<1> QED
  BY <1>1, <1>2, <1>3, <1>4 DEF LogsType, Grown

\* A run that has ended stays so, and the view stays true.
LEMMA GrownKeeps ==
    ASSUME TypeOK, Grown
    PROVE  /\ \A r \in Runs : Ended(r) => Ended(r)'
           /\ ViewReal /\ tab'.view = tab.view => ViewReal'
<1>1. \A e \in tab.view : e.run \in Runs
  BY DEF TypeOK, Event
<1>2. ASSUME NEW r \in Runs, Ended(r)
      PROVE  Ended(r)'
  BY <1>2 DEF Ended, Grown
<1>3. ASSUME ViewReal, tab'.view = tab.view
      PROVE  ViewReal'
  BY <1>1, <1>3 DEF ViewReal, Grown
<1> QED
  BY <1>2, <1>3

-----------------------------------------------------------------------------
(***************************************************************************)
(* The invariant is kept by every step.                                    *)
(***************************************************************************)

PollsReal == \A p \in Polls : PollReal(p)

\* A step that leaves the tables alone has to keep the tab's part only.
LEMMA SameTables ==
    ASSUME IInv, UNCHANGED <<log, row>>
    PROVE  /\ LogsStart' /\ RowReal'
           /\ \A r \in Runs : Ended(r) => Ended(r)'
           /\ UNCHANGED tab => ViewReal' /\ TabReal'
           /\ UNCHANGED polls => PollsReal'
BY DEF IInv, LogsStart, RowReal, Ended, ViewReal, TabReal, PollsReal, PollReal

\* So does a step that only makes one poll idle.
LEMMA IdleIsReal ==
    ASSUME IInv, UNCHANGED log, NEW p \in Polls, polls' = [polls EXCEPT ![p] = IdlePoll]
    PROVE  /\ PollsReal'
           /\ polls' \in [Polls -> [pc : {"idle", "row", "events"}, run : Runs \union {None},
                                    status : Statuses \union {NoStatus}, after : 0..MaxEvents]]
<1>1. polls'[p] = IdlePoll /\ \A q \in Polls \ {p} : polls'[q] = polls[q]
  BY DEF IInv, TypeOK
<1>2. PollsReal'
  BY <1>1 DEF IInv, PollsReal, PollReal, Ended, IdlePoll, NoStatus
<1> QED
  BY <1>2, ConstantsAssumption DEF IInv, TypeOK, IdlePoll

LEMMA InitReal == Init => IInv
<1> SUFFICES ASSUME Init PROVE IInv
  OBVIOUS
<1>1. TypeOK
  BY ConstantsAssumption DEF Init, TypeOK, IdlePoll, NoSocket, Statuses
<1>2. LogsStart
  BY ConstantsAssumption DEF Init, LogsStart
<1>3. RowReal /\ ViewReal /\ TabReal
  BY DEF Init, RowReal, ViewReal, TabReal
<1>4. \A p \in Polls : PollReal(p)
  BY DEF Init, PollReal, IdlePoll, NoStatus
<1> QED
  BY <1>1, <1>2, <1>3, <1>4 DEF IInv

\* The run's writer, and a new run, add to the log.
LEMMA LogSteps ==
    ASSUME IInv, NEW r \in Runs, CommitEvent(r) \/ CreateRun(r)
    PROVE  IInv'
<1>0. TypeOK /\ LogsStart /\ RowReal /\ ViewReal /\ TabReal /\ PollsReal
  BY DEF IInv, PollsReal
<1>1. /\ LogsType' /\ Grown
      /\ \A q \in Runs : log[q] # <<>> => log'[q] # <<>>
  BY <1>0, CommitGrows, CreateGrows
<1>2. /\ \A q \in Runs : Ended(q) => Ended(q)'
      /\ tab'.view = tab.view => ViewReal'
  BY <1>0, <1>1, GrownKeeps
<1>3. polls' = polls /\ socket' = socket
  BY DEF CommitEvent, CreateRun
<1>4. PollsReal'
  BY <1>0, <1>1, <1>2, <1>3 DEF PollsReal, PollReal, NoStatus
<1>5. CASE CommitEvent(r)
  <2>1. row' = row /\ tab' = tab
    BY <1>5 DEF CommitEvent
  <2>2. \A q \in Runs : log'[q] = <<>> <=> log[q] = <<>>
    BY <1>0, <1>5, CommitGrows
  <2>3. TypeOK'
    BY <1>0, <1>1, <1>3, <2>1 DEF TypeOK, LogsType
  <2>4. LogsStart'
    BY <1>0, <1>1, <2>1, <2>2 DEF LogsStart, LogsType
  <2>5. RowReal' /\ TabReal'
    BY <1>0, <1>1, <1>2, <2>1 DEF RowReal, TabReal, TypeOK
  <2> QED
    BY <1>2, <1>4, <2>1, <2>3, <2>4, <2>5 DEF IInv, PollsReal
<1>6. CASE CreateRun(r)
  <2>1. /\ row' = [row EXCEPT ![r] = <<"queued">>]
        /\ tab' = [tab EXCEPT !.submit = "initial", !.run = r]
    BY <1>6 DEF CreateRun
  <2>2. /\ row'[r] = <<"queued">> /\ \A q \in Runs \ {r} : row'[q] = row[q]
        /\ log'[r] # <<>> /\ \A q \in Runs \ {r} : log'[q] = log[q]
    BY <1>0, <1>6, <2>1, CreateGrows DEF TypeOK
  <2>3. TypeOK'
    <3>1. <<"queued">> \in Seq(Statuses)
      BY DEF Statuses
    <3>2. row' \in [Runs -> Seq(Statuses)]
      BY <1>0, <2>1, <3>1 DEF TypeOK
    <3> QED
      BY <1>0, <1>1, <1>3, <2>1, <3>2 DEF TypeOK, LogsType
  <2>4. LogsStart'
    BY <1>0, <1>1, <2>2 DEF LogsStart, LogsType
  <2>5. RowReal'
    BY <1>0, <1>2, <2>2 DEF RowReal
  <2>6. tab'.run = r /\ tab'.status = tab.status /\ tab'.view = tab.view /\ r # None
    BY <1>0, <2>1, ConstantsAssumption DEF TypeOK
  <2>7. TabReal'
    BY <1>0, <1>2, <2>2, <2>6 DEF TabReal
  <2> QED
    BY <1>2, <1>4, <2>3, <2>4, <2>5, <2>6, <2>7 DEF IInv, PollsReal
<1> QED
  BY <1>5, <1>6

\* The row follows the log.
LEMMA RowStep ==
    ASSUME IInv, NEW r \in Runs, UpdateRow(r)
    PROVE  IInv'
<1>0. TypeOK /\ LogsStart /\ RowReal /\ ViewReal /\ TabReal /\ PollsReal
  BY DEF IInv, PollsReal
<1>1. /\ row' = [row EXCEPT ![r] = Append(@, LatestStatus(r))]
      /\ log[r] # <<>>
      /\ UNCHANGED <<log, tab, polls, socket>>
  BY DEF UpdateRow
<1>2. PICK status : status = LatestStatus(r)
  OBVIOUS
<1>3. status \in Statuses /\ (status = "ended" => Ended(r))
  BY <1>0, <1>1, <1>2, LatestIsOne
<1>4. /\ row[r] \in Seq(Statuses)
      /\ row'[r] = Append(row[r], status)
      /\ \A q \in Runs \ {r} : row'[q] = row[q]
  BY <1>0, <1>1, <1>2 DEF TypeOK
<1>5. TypeOK'
  <2>1. Append(row[r], status) \in Seq(Statuses)
    BY <1>3, <1>4
  <2>2. row' \in [Runs -> Seq(Statuses)]
    BY <1>0, <1>1, <1>2, <2>1 DEF TypeOK
  <2> QED
    BY <1>0, <1>1, <2>2 DEF TypeOK
<1>6. LogsStart'
  BY <1>0, <1>1 DEF LogsStart
<1>7. \A q \in Runs : Ended(q) <=> Ended(q)'
  BY <1>1 DEF Ended
<1>8. RowReal'
  <2>1. ASSUME \E n \in DOMAIN row'[r] : row'[r][n] = "ended"
        PROVE  Ended(r)
    <3>1. status = "ended" \/ \E n \in DOMAIN row[r] : row[r][n] = "ended"
      BY <1>4, <2>1
    <3> QED
      BY <1>0, <1>3, <3>1 DEF RowReal
  <2> QED
    BY <1>0, <1>4, <1>7, <2>1 DEF RowReal
<1>9. ViewReal' /\ TabReal' /\ PollsReal'
  BY <1>0, <1>1, <1>7 DEF ViewReal, TabReal, PollsReal, PollReal, NoStatus, TypeOK
<1> QED
  BY <1>5, <1>6, <1>8, <1>9 DEF IInv, PollsReal

\* onSubmit empties the view, fills it with the first events, or fails.
LEMMA SubmitSteps ==
    ASSUME IInv, Submit \/ InitialEvents \/ SubmitFails
    PROVE  IInv'
<1>0. TypeOK /\ LogsStart /\ ViewReal /\ TabReal /\ UNCHANGED <<log, row, polls>>
  BY DEF IInv, Submit, InitialEvents, SubmitFails
<1>1. /\ LogsStart' /\ RowReal' /\ PollsReal'
      /\ \A r \in Runs : Ended(r) => Ended(r)'
  BY <1>0, SameTables
<1>2. ASSUME TypeOK', ViewReal', TabReal'
      PROVE  IInv'
  BY <1>1, <1>2 DEF IInv, PollsReal
<1>3. CASE Submit
  <2>1. /\ tab' = [submit |-> "create", run |-> None, status |-> "queued", view |-> {}]
        /\ socket' = NoSocket
    BY <1>3 DEF Submit
  <2>2. TypeOK'
    BY <1>0, <2>1 DEF TypeOK, NoSocket, Statuses
  <2>3. ViewReal' /\ TabReal'
    BY <2>1 DEF ViewReal, TabReal
  <2> QED
    BY <1>2, <2>2, <2>3
<1>4. CASE InitialEvents
  <2>1. PICK n \in 0..Len(log[tab.run]) :
          tab' = [tab EXCEPT !.submit = "idle", !.view = Page(tab.run, 0, n)]
    BY <1>4 DEF InitialEvents
  <2>2. PICK r \in Runs : r = tab.run
    BY <1>0, <1>4 DEF InitialEvents, TypeOK, TabReal
  <2>3. PICK page : page = Page(r, 0, n)
    OBVIOUS
  <2>4. /\ page \subseteq Event
        /\ \A e \in page : e.run = r /\ e.seq \in DOMAIN log[r] /\ log[r][e.seq] = e.status
    BY <1>0, <2>1, <2>2, <2>3, PageIsReal
  <2>5. tab' = [tab EXCEPT !.submit = "idle", !.view = page] /\ socket' = socket
    BY <1>4, <2>1, <2>2, <2>3 DEF InitialEvents
  <2>6. TypeOK'
    BY <1>0, <2>4, <2>5 DEF TypeOK
  <2>7. ViewReal'
    BY <1>0, <2>4, <2>5 DEF ViewReal, TypeOK
  <2>8. TabReal'
    BY <1>0, <1>1, <2>5 DEF TabReal, TypeOK
  <2> QED
    BY <1>2, <2>6, <2>7, <2>8
<1>5. CASE SubmitFails
  <2>1. tab' = [tab EXCEPT !.submit = "idle"] /\ socket' = socket
    BY <1>5 DEF SubmitFails
  <2>2. TypeOK'
    BY <1>0, <2>1 DEF TypeOK
  <2>3. ViewReal' /\ TabReal'
    BY <1>0, <1>1, <2>1 DEF ViewReal, TabReal, TypeOK
  <2> QED
    BY <1>2, <2>2, <2>3
<1> QED
  BY <1>3, <1>4, <1>5

\* A poll starts, has its two answers, or fails.
LEMMA PollSteps ==
    ASSUME IInv, NEW p \in Polls, Poll(p)
    PROVE  IInv'
<1>0. TypeOK /\ LogsStart /\ RowReal /\ ViewReal /\ TabReal /\ PollReal(p)
  BY DEF IInv
<1>l. UNCHANGED <<log, row, socket>>
  BY DEF Poll, Tick, RowAnswer, EventsAnswer, Answered, PollFails
<1>1. /\ LogsStart' /\ RowReal'
      /\ \A r \in Runs : Ended(r) => Ended(r)'
  BY <1>l, SameTables
<1>2. ASSUME TypeOK', ViewReal', TabReal', PollsReal'
      PROVE  IInv'
  BY <1>1, <1>2 DEF IInv, PollsReal
<1>3. ASSUME NEW poll \in [pc : {"idle", "row", "events"}, run : Runs \union {None},
                           status : Statuses \union {NoStatus}, after : 0..MaxEvents],
             polls' = [polls EXCEPT ![p] = poll], tab' = tab,
             poll.pc # "idle" => poll.run \in Runs /\ log[poll.run] # <<>>,
             poll.pc = "events" <=> poll.status # NoStatus,
             poll.status = "ended" => Ended(poll.run)
      PROVE  IInv'
  <2>1. polls'[p] = poll /\ \A q \in Polls \ {p} : polls'[q] = polls[q]
    BY <1>0, <1>3 DEF TypeOK
  <2>2. TypeOK'
    BY <1>0, <1>l, <1>3 DEF TypeOK
  <2>3. ViewReal' /\ TabReal'
    BY <1>l, <1>3, SameTables
  <2>4. PollsReal'
    BY <1>l, <1>3, <2>1 DEF IInv, PollsReal, PollReal, Ended
  <2> QED
    BY <1>2, <2>2, <2>3, <2>4
<1>4. polls \in [Polls -> [pc : {"idle", "row", "events"}, run : Runs \union {None},
                           status : Statuses \union {NoStatus}, after : 0..MaxEvents]]
  BY <1>0 DEF TypeOK
<1>5. CASE Tick(p)
  <2>1. /\ polls' = [polls EXCEPT ![p].pc = "row", ![p].run = tab.run]
        /\ tab.run \in Runs /\ tab' = tab
    BY <1>0, <1>5 DEF Tick, Following, TypeOK
  <2>2. PICK poll : poll = [polls[p] EXCEPT !.pc = "row", !.run = tab.run]
    OBVIOUS
  <2>3. polls' = [polls EXCEPT ![p] = poll]
    BY <1>4, <2>1, <2>2
  <2>4. log[tab.run] # <<>>
    BY <1>0, <2>1, ConstantsAssumption DEF TabReal
  <2>5. polls[p].status = NoStatus
    BY <1>0, <1>5 DEF Tick, PollReal
  <2>6. /\ poll.pc = "row" /\ poll.run = tab.run
        /\ poll.status = NoStatus /\ poll.after = polls[p].after
    BY <1>4, <2>2, <2>5
  <2>7. poll \in [pc : {"idle", "row", "events"}, run : Runs \union {None},
                  status : Statuses \union {NoStatus}, after : 0..MaxEvents]
    BY <1>4, <2>1, <2>2
  <2> QED
    BY <1>3, <2>1, <2>3, <2>4, <2>6, <2>7 DEF NoStatus
<1>6. CASE RowAnswer(p)
  <2>1. PICK n \in DOMAIN row[polls[p].run] :
          polls' = [polls EXCEPT ![p].pc = "events", ![p].status = row[polls[p].run][n],
                                 ![p].after = LastSeq(tab.view)]
    BY <1>6 DEF RowAnswer
  <2>2. PICK status, after : status = row[polls[p].run][n] /\ after = LastSeq(tab.view)
    OBVIOUS
  <2>3. PICK poll : poll = [polls[p] EXCEPT !.pc = "events", !.status = status, !.after = after]
    OBVIOUS
  <2>4. polls' = [polls EXCEPT ![p] = poll] /\ tab' = tab
    BY <1>4, <1>6, <2>1, <2>2, <2>3 DEF RowAnswer
  <2>5. polls[p].run \in Runs /\ log[polls[p].run] # <<>>
    BY <1>0, <1>6 DEF RowAnswer, PollReal
  <2>6. /\ status \in Statuses
        /\ status = "ended" => Ended(polls[p].run)
    <3>1. row[polls[p].run] \in Seq(Statuses)
      BY <1>0, <2>5 DEF TypeOK
    <3> QED
      BY <1>0, <2>1, <2>2, <2>5, <3>1 DEF RowReal
  <2>7. after \in 0..MaxEvents
    BY <1>0, <2>2, LastSeqType DEF TypeOK
  <2>8. /\ poll.pc = "events" /\ poll.run = polls[p].run /\ poll.status = status
        /\ poll \in [pc : {"idle", "row", "events"}, run : Runs \union {None},
                     status : Statuses \union {NoStatus}, after : 0..MaxEvents]
    BY <1>4, <2>3, <2>6, <2>7
  <2> QED
    BY <1>3, <2>4, <2>5, <2>6, <2>8 DEF Statuses, NoStatus
<1>7. CASE EventsAnswer(p)
  <2>1. PICK n \in 0..Len(log[polls[p].run]) : Answered(p, n)
    BY <1>7 DEF EventsAnswer
  <2>2. PICK r, status, after : r = polls[p].run /\ status = polls[p].status /\ after = polls[p].after
    OBVIOUS
  <2>3. PICK page : page = Page(r, after, n)
    OBVIOUS
  <2>4. /\ tab' = [tab EXCEPT !.status = IF tab.run = None THEN @ ELSE status,
                              !.view = @ \union page]
        /\ polls' = [polls EXCEPT ![p] = IdlePoll]
        /\ polls[p].pc = "events"
    BY <2>1, <2>2, <2>3 DEF Answered
  <2>5. /\ r \in Runs /\ after \in Nat
        /\ status \in Statuses
        /\ status = "ended" => Ended(r)
    BY <1>0, <1>4, <2>2, <2>4, ConstantsAssumption DEF PollReal
  <2>6. /\ page \subseteq Event
        /\ \A e \in page : e.run = r /\ e.seq \in DOMAIN log[r] /\ log[r][e.seq] = e.status
    BY <1>0, <2>1, <2>2, <2>3, <2>5, PageIsReal
  <2>7. PollsReal' /\ polls' \in [Polls -> [pc : {"idle", "row", "events"}, run : Runs \union {None},
                                    status : Statuses \union {NoStatus}, after : 0..MaxEvents]]
    BY <1>l, <2>4, IdleIsReal
  <2>8. TypeOK'
    BY <1>0, <1>l, <2>4, <2>5, <2>6, <2>7 DEF TypeOK
  <2>9. ViewReal'
    BY <1>0, <1>l, <2>4, <2>6 DEF ViewReal, TypeOK
  <2>10. TabReal'
    BY <1>0, <1>l, <1>1, <2>4, <2>5 DEF TabReal, TypeOK
  <2> QED
    BY <1>2, <2>7, <2>8, <2>9, <2>10
<1>8. CASE PollFails(p)
  <2>1. polls' = [polls EXCEPT ![p] = IdlePoll] /\ tab' = tab
    BY <1>8 DEF PollFails
  <2>2. PollsReal' /\ TypeOK'
    BY <1>0, <1>l, <2>1, IdleIsReal DEF TypeOK
  <2> QED
    BY <1>2, <1>l, <2>1, <2>2, SameTables
<1> QED
  BY <1>5, <1>6, <1>7, <1>8 DEF Poll

\* The socket, and what it brings.
LEMMA RealtimeSteps ==
    ASSUME IInv, Realtime \/ \E r \in Runs : RelayEvent(r)
    PROVE  IInv'
<1>0. /\ TypeOK /\ LogsStart /\ ViewReal /\ TabReal
      /\ UNCHANGED <<log, row, polls>>
  BY DEF IInv, Realtime, OpenSocket, SubscribeRun, LoseSocket, CloseSocket, RelayEvent
<1>1. /\ LogsStart' /\ RowReal' /\ PollsReal'
      /\ \A r \in Runs : Ended(r) => Ended(r)'
      /\ UNCHANGED tab => ViewReal' /\ TabReal'
  BY <1>0, SameTables
<1>2. CASE Realtime
  <2>1. tab' = tab
    BY <1>2 DEF Realtime, OpenSocket, SubscribeRun, LoseSocket, CloseSocket
  <2>2. socket' \in [pc : {"closed", "open", "subscribed", "lost"}, run : Runs \union {None}]
    BY <1>0, <1>2 DEF TypeOK, Realtime, OpenSocket, SubscribeRun, LoseSocket, CloseSocket, NoSocket
  <2>3. TypeOK'
    BY <1>0, <2>1, <2>2 DEF TypeOK
  <2> QED
    BY <1>1, <2>1, <2>3 DEF IInv, PollsReal
<1>3. ASSUME NEW r \in Runs, RelayEvent(r)
      PROVE  IInv'
  <2>1. PICK n \in DOMAIN log[r] : tab' = Received(EventAt(r, n))
    BY <1>3 DEF RelayEvent
  <2>2. PICK e : e = EventAt(r, n)
    OBVIOUS
  <2>3. /\ n \in 1..MaxEvents
        /\ log[r][n] \in Statuses \union {NoStatus}
    <3>1. /\ log[r] \in Seq(Statuses \union {NoStatus})
          /\ Len(log[r]) <= MaxEvents
      BY <1>0 DEF TypeOK, LogsStart
    <3> QED
      BY <3>1, <2>1, ConstantsAssumption
  <2>4. e \in Event /\ e.run = r /\ e.seq = n /\ e.status = log[r][n]
    BY <2>2, <2>3 DEF EventAt, Event
  <2>5. PICK status : status = IF e.status # NoStatus /\ e.run = tab.run THEN e.status ELSE tab.status
    OBVIOUS
  <2>6. /\ status \in Statuses
        /\ status = "ended" => tab.status = "ended" \/ Ended(r)
    BY <1>0, <2>1, <2>4, <2>5 DEF TypeOK, Event, Ended
  <2>7. tab' = [tab EXCEPT !.view = @ \union {e}, !.status = status] /\ socket' = socket
    BY <1>0, <1>3, <2>1, <2>2, <2>5 DEF Received, RelayEvent, TypeOK
  <2>8. TypeOK'
    BY <1>0, <2>4, <2>6, <2>7 DEF TypeOK
  <2>9. ViewReal'
    BY <1>0, <2>1, <2>4, <2>7 DEF ViewReal, TypeOK
  <2>10. TabReal'
    BY <1>0, <1>1, <2>6, <2>7 DEF TabReal, TypeOK
  <2> QED
    BY <1>1, <2>8, <2>9, <2>10 DEF IInv, PollsReal
<1> QED
  BY <1>2, <1>3

-----------------------------------------------------------------------------
(***************************************************************************)
(* The theorems.                                                           *)
(***************************************************************************)

\* What a tab holds of a run, whatever its polls and its socket bring, repeat or
\* lose, was read from the run's log (hero-command-panel.tsx:43-120).
THEOREM Invariance == Spec => []IInv
<1>1. ASSUME IInv, [Next]_vars
      PROVE  IInv'
  <2>1. CASE Next
    BY <1>1, <2>1, LogSteps, RowStep, SubmitSteps, PollSteps, RealtimeSteps DEF Next
  <2>2. CASE UNCHANGED vars
    <3>1. UNCHANGED <<log, row, tab, polls, socket>>
      BY <2>2 DEF vars
    <3>2. TypeOK'
      BY <1>1, <3>1 DEF IInv, TypeOK
    <3> QED
      BY <1>1, <3>1, <3>2, SameTables DEF IInv, PollsReal
  <2> QED
    BY <1>1, <2>1, <2>2
<1> QED
  BY <1>1, InitReal, PTL DEF Spec

\* The variables of the run view have their types.
THEOREM TypeCorrect == Spec => []TypeOK
<1>1. IInv => TypeOK
  BY DEF IInv
<1> QED
  BY <1>1, Invariance, PTL

\* With one run to follow, an end that the tab shows is in the run's log.  With
\* more of them it is in the log of one of them (see OnlyActiveRunShown).
THEOREM EndCorrect ==
    ASSUME NEW r, Runs = {r}
    PROVE  Spec => []EndIsReal
<1>1. ASSUME IInv
      PROVE  EndIsReal
  <2> SUFFICES ASSUME tab.run # None, IsTerminal(tab)
               PROVE  Ended(tab.run)
    BY DEF EndIsReal
  <2>1. tab.run = r /\ \A e \in tab.view : e.run = r
    BY <1>1 DEF IInv, TypeOK, Event
  <2>2. tab.status = "ended" \/ \E e \in tab.view : e.status = "ended"
    BY <1>1, EndHasSource DEF IInv
  <2>3. CASE tab.status = "ended"
    BY <1>1, <2>1, <2>3 DEF IInv, TabReal
  <2>4. CASE \E e \in tab.view : e.status = "ended"
    BY <1>1, <2>1, <2>4 DEF IInv, ViewReal, Ended
  <2> QED
    BY <2>2, <2>3, <2>4
<1> QED
  BY <1>1, Invariance, PTL

=============================================================================
