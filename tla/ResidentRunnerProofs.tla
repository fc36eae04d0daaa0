------------------------- MODULE ResidentRunnerProofs -------------------------
(***************************************************************************)
(* Proofs about ResidentRunner, for every number of wakes, engagements,    *)
(* registrations, agents and restarts.  The inductive invariant IInv says  *)
(* of every wake what its control state implies (WakeFacts), and the       *)
(* safety properties follow from it.  The proof has one lemma per action;  *)
(* what an action leaves alone is carried over by the frame lemmas.        *)
(***************************************************************************)
EXTENDS ResidentRunner, WellFoundedInduction, TLAPS

-----------------------------------------------------------------------------
(***************************************************************************)
(* Lemmas about the operators on data.                                     *)
(***************************************************************************)

\* A nonempty set of naturals has a least element.
LEMMA LeastIndex ==
    ASSUME NEW T, T \subseteq Nat, T # {}
    PROVE  \E i \in T : \A j \in T : ~(j < i)
<1>1. IsWellFoundedOn(OpToRel(<, Nat), Nat)
  BY NatLessThanWellFounded
<1>2. \E i \in T : \A j \in T : ~(<<j, i>> \in OpToRel(<, Nat))
  BY <1>1, WFMin
<1>3. \A i, j \in Nat : j < i => <<j, i>> \in OpToRel(<, Nat)
  BY DEF OpToRel
<1> QED
  BY <1>2, <1>3

\* FindAgent finds an agent of the given id in every list that has one
\* (Array.prototype.find in resident-runner.ts:284, 342, 471 and 499).
LEMMA FindAgentFinds ==
    ASSUME NEW s \in Seq(AgentState), NEW a \in IdsOf(s)
    PROVE  FindAgent(s, a) \in AgentState /\ FindAgent(s, a).id = a
<1> DEFINE T == {i \in DOMAIN s : s[i].id = a}
<1>1. T \subseteq Nat /\ T # {}
  BY DEF IdsOf
<1>2. PICK i \in T : \A j \in T : ~(j < i)
  BY <1>1, LeastIndex
<1>3. \A j \in 1..(i - 1) : s[j].id # a
  BY <1>2
<1>4. \E k \in DOMAIN s : s[k].id = a /\ \A j \in 1..(k - 1) : s[j].id # a
  BY <1>2, <1>3
<1> QED
  BY <1>4 DEF FindAgent

LEMMA IdsAreAgentIds ==
    ASSUME NEW s \in Seq(AgentState)
    PROVE  IdsOf(s) \subseteq AgentIds
<1>1. \A i \in DOMAIN s : s[i] \in AgentState
  OBVIOUS
<1> QED
  BY <1>1 DEF IdsOf, AgentState

\* A list rewritten element by element stays a list of the same length.
LEMMA RewrittenList ==
    ASSUME NEW S, NEW s \in Seq(S), NEW m, m = [i \in DOMAIN s |-> m[i]],
           \A i \in DOMAIN s : m[i] \in S
    PROVE  m \in Seq(S) /\ DOMAIN m = DOMAIN s
<1>1. DOMAIN s = 1..Len(s) /\ Len(s) \in Nat
  OBVIOUS
<1>2. m \in [1..Len(s) -> S]
  BY <1>1
<1> QED
  BY <1>1, <1>2

LEMMA NonEmptyList ==
    ASSUME NEW S, NEW s \in Seq(S), s # <<>>
    PROVE  Head(s) \in S /\ Tail(s) \in Seq(S)
  OBVIOUS

LEMMA FreshAgentsType == FreshAgents \in Seq(AgentState)
<1>1. FreshAgents \in [1..Len(DefaultAgents) -> AgentState]
  BY ConstantsAssumption DEF FreshAgents, Agent, AgentState
<1> QED
  BY <1>1, ConstantsAssumption

LEMMA StatusOfType ==
    ASSUME NEW w, NEW k \in Kinds
    PROVE  StatusOf(w, k) \in Statuses \union {None}
  BY DEF StatusOf, Statuses, Kinds

\* An event carries a status exactly when it is a run.status event, and what it
\* carries does not depend on more of the wake than "bad".
LEMMA StatusOfSame ==
    ASSUME NEW w, NEW k, wake'[w].bad = wake[w].bad
    PROVE  StatusOf(w, k)' = StatusOf(w, k)
  BY DEF StatusOf

-----------------------------------------------------------------------------
(***************************************************************************)
(* Frame lemmas: what a step that leaves something alone keeps.            *)
(***************************************************************************)
LEMMA ToldGrows ==
    ASSUME events \subseteq events', NEW w, NEW a, NEW k
    PROVE  Told(w, a, k) \subseteq Told(w, a, k)'
  BY DEF Told

LEMMA OrderStays ==
    ASSUME events \subseteq events', NEW w, NEW a, NEW k, NEW l,
           ToldInOrder(w, a, k, l)
    PROVE  ToldInOrder(w, a, k, l)'
  BY ToldGrows DEF ToldInOrder

\* A step of another actor: the wake is as it was, and no event is its own.
LEMMA WakeFactsKept ==
    ASSUME NEW w \in Wakes, WakeFacts(w), wake'[w] = wake[w],
           events \subseteq events', \A e \in events' \ events : e.by # w,
           records \subseteq records', events \subseteq Event,
           wake[w].pc \in Active => seq \in Nat /\ seq' \in Nat /\ seq <= seq',
           wake[w].seq \in Nat
    PROVE  WakeFacts(w)'
<1> USE DEF WakeFacts, Emitting
<1>1. ControlOf(w)'
  BY DEF ControlOf
<1>2. NumbersOf(w)'
  <2>1. \A e \in events : e.seq \in Nat
    BY DEF Event
  <2>2. \A e \in events' : e.by = w => e \in events
    OBVIOUS
  <2>3. wake[w].pc = "put" => wake[w].seq <= seq'
    BY DEF NumbersOf, Active
  <2>4. ASSUME NEW e \in events, e.by = w, wake[w].pc \in Active
        PROVE  e.seq <= seq'
    BY <2>1, <2>4 DEF NumbersOf
  <2> QED
    BY <2>2, <2>3, <2>4 DEF NumbersOf
<1>3. TodoOf(w)'
  <2>1. StatusOf(w, wake[w].kind)' = StatusOf(w, wake[w].kind)
    BY DEF StatusOf
  <2> QED
    BY <2>1 DEF TodoOf
<1>4. EvidenceOf(w)'
  BY ToldGrows, OrderStays
  DEF EvidenceOf, PastAdapter, PastRecord, PastArtifact, PastResponse
<1> QED
  BY <1>1, <1>2, <1>3, <1>4

\* A wake that is given up, or never started, has nothing left to show.
LEMMA WakeFactsAtEnd ==
    ASSUME NEW w \in Wakes, WakeFacts(w), wake[w] \in WakeType,
           NEW p \in {"rejected", "aborted"},
           wake'[w] = [wake[w] EXCEPT !.pc = p],
           p = "rejected" => wake[w].todo = {},
           events' = events
    PROVE  WakeFacts(w)'
<1>1. wake'[w].pc = p /\ wake'[w].todo = wake[w].todo
      /\ wake'[w].kind = wake[w].kind /\ wake'[w].bad = wake[w].bad
  BY DEF WakeType
<1>2. ControlOf(w)' /\ NumbersOf(w)' /\ EvidenceOf(w)'
  BY <1>1
  DEF WakeFacts, ControlOf, NumbersOf, EvidenceOf, Active, Emitting, PastAdapter,
      PastRecord, PastArtifact, PastResponse
<1>3. TodoOf(w)'
  <2>1. StatusOf(w, wake[w].kind)' = StatusOf(w, wake[w].kind)
    BY <1>1 DEF StatusOf
  <2> QED
    BY <1>1, <2>1 DEF TodoOf, WakeFacts
<1> QED
  BY <1>2, <1>3 DEF WakeFacts

LEMMA HeartbeatEvidenceKept ==
    ASSUME HeartbeatEvidence, events \subseteq events', records \subseteq records',
           heartbeats' = heartbeats
    PROVE  HeartbeatEvidence'
<1>1. \A h : HeartbeatTold(h) => HeartbeatTold(h)'
  BY OrderStays DEF HeartbeatTold
<1> QED
  BY <1>1 DEF HeartbeatEvidence

LEMMA StatusBackedKept ==
    ASSUME StatusBacked, events \subseteq events', runStatus' = runStatus,
           taskStatus' = taskStatus
    PROVE  StatusBacked'
  BY DEF StatusBacked

-----------------------------------------------------------------------------
(***************************************************************************)
(* One step of a wake.                                                     *)
(***************************************************************************)
LEMMA WakeUpdate ==
    ASSUME wake \in [Wakes -> WakeType], NEW w \in Wakes, NEW to \in WakeType,
           wake' = [wake EXCEPT ![w] = to]
    PROVE  /\ wake' \in [Wakes -> WakeType]
           /\ wake'[w] = to
           /\ \A v \in Wakes \ {w} : wake'[v] = wake[v]
  OBVIOUS

\* A step of one wake leaves the facts about the others alone.
LEMMA WakeStep ==
    ASSUME IInv, TypeOK', NEW w \in Wakes,
           \A v \in Wakes \ {w} : wake'[v] = wake[v],
           events \subseteq events', \A e \in events' \ events : e.by = w,
           records \subseteq records', seq <= seq', UNCHANGED <<engage, reg>>,
           WakeFacts(w)', SeqsInFlightDiffer', EventIdentity', StatusBacked',
           HeartbeatEvidence'
    PROVE  IInv'
<1>1. \A v \in Wakes : WakeFacts(v)'
  <2> SUFFICES ASSUME NEW v \in Wakes \ {w}
               PROVE  WakeFacts(v)'
    OBVIOUS
  <2>1. wake[v].seq \in Nat
    BY DEF IInv, TypeOK, WakeType
  <2>2. seq \in Nat /\ seq' \in Nat /\ events \subseteq Event
    BY DEF IInv, TypeOK
  <2> QED
    BY <2>1, <2>2, WakeFactsKept DEF IInv
<1>2. EngagementControl'
  <2>1. seq \in Nat /\ seq' \in Nat /\ \A x \in Engagements : engage[x].seq \in Nat
    BY DEF IInv, TypeOK
  <2> QED
    BY <2>1 DEF IInv, EngagementControl
<1>3. RegistrationControl'
  BY DEF IInv, RegistrationControl
<1> QED
  BY <1>1, <1>2, <1>3 DEF IInv

\* A step that draws no number, puts no event and records no heartbeat.
LEMMA QuietWakeStep ==
    ASSUME IInv, TypeOK', NEW w \in Wakes,
           \A v \in Wakes \ {w} : wake'[v] = wake[v], wake'[w].pc # "put",
           UNCHANGED <<events, runStatus, taskStatus, heartbeats, seq, engage, reg>>,
           records \subseteq records', WakeFacts(w)'
    PROVE  IInv'
<1>1. SeqsInFlightDiffer'
  BY DEF IInv, SeqsInFlightDiffer
<1>2. EventIdentity'
  BY DEF IInv, EventIdentity
<1>3. StatusBacked' /\ HeartbeatEvidence'
  BY StatusBackedKept, HeartbeatEvidenceKept DEF IInv
<1>4. seq <= seq'
  BY DEF IInv, TypeOK
<1> QED
  BY <1>1, <1>2, <1>3, <1>4, WakeStep

LEMMA AcceptStep ==
    ASSUME IInv, NEW w \in Wakes, NEW target \in AgentIds \union {"all"},
           Accept(w, target)
    PROVE  IInv'
<1> DEFINE chosen == Selected(target)
<1>0. /\ TypeOK /\ WakeFacts(w) /\ wake[w] \in WakeType
      /\ wake \in [Wakes -> WakeType] /\ agents \in Seq(AgentState)
  BY DEF IInv, TypeOK
<1>1. UNCHANGED <<tables, heartbeats, metrics, seq, engage, reg, restarts>>
      /\ wake[w].pc = "idle"
  BY DEF Accept
<1>2. chosen \in Seq(AgentState)
  <2>1. CASE target = "all"
    BY <1>0, <2>1 DEF Selected
  <2>2. CASE target # "all" /\ target \in IdsOf(agents)
    BY <1>0, <2>2, FindAgentFinds DEF Selected
  <2>3. CASE target # "all" /\ target \notin IdsOf(agents)
    BY <2>3 DEF Selected
  <2> QED
    BY <2>1, <2>2, <2>3
<1>3. wake[w].todo = {} /\ wake[w].kind = "planning"
  BY <1>0, <1>1 DEF WakeFacts, ControlOf
<1>4. CASE /\ wake' = [wake EXCEPT ![w].pc = "rejected"]
           /\ UNCHANGED <<runner, agents>>
  <2>1. [wake[w] EXCEPT !.pc = "rejected"] \in WakeType
    BY <1>0 DEF WakeType, Ended
  <2>2. /\ wake' \in [Wakes -> WakeType]
        /\ wake'[w] = [wake[w] EXCEPT !.pc = "rejected"]
        /\ \A v \in Wakes \ {w} : wake'[v] = wake[v]
    BY <1>0, <1>4, <2>1, WakeUpdate
  <2>3. TypeOK'
    BY <1>0, <1>1, <1>4, <2>2 DEF TypeOK, tables
  <2>4. WakeFacts(w)'
    BY <1>0, <1>1, <1>3, <2>2, WakeFactsAtEnd DEF tables
  <2>5. wake'[w].pc # "put"
    BY <1>0, <2>2 DEF WakeType
  <2> QED
    BY <1>1, <2>2, <2>3, <2>4, <2>5, QuietWakeStep DEF tables
<1>5. CASE /\ chosen # <<>>
           /\ wake' = [wake EXCEPT ![w].pc = "mark", ![w].rest = chosen,
                                   ![w].chosen = IdsOf(chosen)]
           /\ runner' = "running"
           /\ agents' = MapAgents(agents, LAMBDA a :
                          IF a.id \in IdsOf(chosen)
                          THEN [a EXCEPT !.status = "running"] ELSE a)
  <2> DEFINE to == [wake[w] EXCEPT !.pc = "mark", !.rest = chosen,
                                   !.chosen = IdsOf(chosen)]
  <2>1. to \in WakeType
    BY <1>0, <1>2, IdsAreAgentIds DEF WakeType, Active
  <2>2. /\ wake' \in [Wakes -> WakeType]
        /\ wake'[w] = to
        /\ \A v \in Wakes \ {w} : wake'[v] = wake[v]
    BY <1>0, <1>5, <2>1, WakeUpdate
  <2>3. agents' \in Seq(AgentState)
    <3>1. agents' = [i \in DOMAIN agents |->
                       IF agents[i].id \in IdsOf(chosen)
                       THEN [agents[i] EXCEPT !.status = "running"] ELSE agents[i]]
      BY <1>5 DEF MapAgents
    <3>2. \A i \in DOMAIN agents : agents[i] \in AgentState
      BY <1>0
    <3>3. \A i \in DOMAIN agents : agents'[i] \in AgentState
      BY <3>1, <3>2 DEF AgentState
    <3> QED
      BY <1>0, <3>1, <3>3, RewrittenList
  <2>4. TypeOK'
    BY <1>0, <1>1, <1>5, <2>2, <2>3 DEF TypeOK, tables
  <2>5. /\ wake'[w].pc = "mark" /\ wake'[w].kind = "planning"
        /\ wake'[w].todo = {} /\ wake'[w].rest = chosen
    BY <1>0, <1>3, <2>2 DEF WakeType
  <2>6. WakeFacts(w)'
    BY <1>0, <1>1, <1>5, <2>5
    DEF WakeFacts, ControlOf, NumbersOf, TodoOf, EvidenceOf, Emitting, PastAdapter,
        PastRecord, PastArtifact, PastResponse, tables
  <2> QED
    BY <1>1, <2>2, <2>4, <2>5, <2>6, QuietWakeStep DEF tables
<1> QED
  BY <1>4, <1>5 DEF Accept

LEMMA MarkInstancesStep ==
    ASSUME IInv, NEW w \in Wakes, MarkInstances(w)
    PROVE  IInv'
<1> DEFINE to == [wake[w] EXCEPT !.pc = "emit"]
<1>0. /\ TypeOK /\ WakeFacts(w) /\ wake[w] \in WakeType
      /\ wake \in [Wakes -> WakeType]
  BY DEF IInv, TypeOK
<1>1. /\ UNCHANGED <<events, runStatus, taskStatus, records, memory, engage, reg,
                     restarts>>
      /\ wake[w].pc = "mark" /\ wake' = [wake EXCEPT ![w] = to]
  BY DEF MarkInstances
<1>2. to \in WakeType
  BY <1>0 DEF WakeType, Active
<1>3. /\ wake' \in [Wakes -> WakeType]
      /\ wake'[w] = to
      /\ \A v \in Wakes \ {w} : wake'[v] = wake[v]
  BY <1>0, <1>1, <1>2, WakeUpdate
<1>4. \A a \in IdsOf(wake[w].rest) :
         FindAgent(wake[w].rest, a).count \in Nat
  BY <1>0, FindAgentFinds DEF WakeType, AgentState
<1>5. instances' \in [AgentIds ->
                        [status : {None, "idle", "running", "succeeded", "failed"},
                         count : Nat]]
  BY <1>0, <1>4 DEF MarkInstances, TypeOK
<1>6. TypeOK'
  BY <1>0, <1>1, <1>3, <1>5 DEF TypeOK, memory
<1>7. /\ wake'[w].pc = "emit" /\ wake'[w].kind = "planning" /\ wake'[w].todo = {}
      /\ wake'[w].rest # <<>>
  BY <1>0, <1>1, <1>3 DEF WakeType, WakeFacts, ControlOf, Active
<1>8. WakeFacts(w)'
  BY <1>0, <1>1, <1>7
  DEF WakeFacts, ControlOf, NumbersOf, TodoOf, EvidenceOf, Emitting, PastAdapter,
      PastRecord, PastArtifact, PastResponse, Active, memory
<1> QED
  BY <1>1, <1>3, <1>6, <1>7, <1>8, QuietWakeStep DEF memory

-----------------------------------------------------------------------------
(***************************************************************************)
(* An emission.                                                            *)
(***************************************************************************)

\* nextSeq: the number lies above every event of the wake and above every number
\* in flight.
LEMMA EmitStep ==
    ASSUME IInv, NEW w \in Wakes, Emit(w)
    PROVE  IInv'
<1> DEFINE to == [wake[w] EXCEPT !.pc = "put", !.seq = seq + 1]
<1>0. /\ TypeOK /\ WakeFacts(w) /\ wake[w] \in WakeType
      /\ wake \in [Wakes -> WakeType] /\ seq \in Nat /\ events \subseteq Event
  BY DEF IInv, TypeOK
<1>1. /\ UNCHANGED <<tables, runner, agents, heartbeats, metrics, engage, reg,
                     restarts>>
      /\ wake[w].pc = "emit" /\ wake' = [wake EXCEPT ![w] = to]
      /\ seq' = seq + 1
  BY DEF Emit
<1>2. to \in WakeType
  <2>1. seq + 1 \in Nat /\ "put" \in Active
    BY <1>0 DEF Active
  <2> QED
    BY <1>0, <2>1, Zenon DEF WakeType
<1>3. /\ wake' \in [Wakes -> WakeType]
      /\ wake'[w] = to
      /\ \A v \in Wakes \ {w} : wake'[v] = wake[v]
  BY <1>0, <1>1, <1>2, WakeUpdate
<1>4. TypeOK'
  BY <1>0, <1>1, <1>3 DEF TypeOK, tables
<1>5. /\ wake'[w].pc = "put" /\ wake'[w].seq = seq + 1
      /\ wake'[w].kind = wake[w].kind /\ wake'[w].todo = wake[w].todo
      /\ wake'[w].rest = wake[w].rest /\ wake'[w].ok = wake[w].ok
      /\ wake'[w].bad = wake[w].bad
  BY <1>0, <1>3 DEF WakeType
<1>6. WakeFacts(w)'
  <2>1. ControlOf(w)'
    BY <1>0, <1>1, <1>5 DEF WakeFacts, ControlOf, Emitting, Active
  <2>2. NumbersOf(w)'
    <3>1. \A e \in events : e.seq \in Nat /\ (e.by = w => e.seq <= seq)
      BY <1>0, <1>1 DEF WakeFacts, NumbersOf, Active, Event
    <3> QED
      BY <1>0, <1>1, <1>5, <3>1 DEF NumbersOf, tables
  <2>3. TodoOf(w)'
    BY <1>0, <1>1, <1>5 DEF WakeFacts, ControlOf, TodoOf
  <2>4. EvidenceOf(w)'
    BY <1>0, <1>1, <1>5
    DEF WakeFacts, EvidenceOf, Emitting, PastAdapter, PastRecord, PastArtifact,
        PastResponse, Told, ToldInOrder, tables
  <2> QED
    BY <2>1, <2>2, <2>3, <2>4 DEF WakeFacts
<1>7. SeqsInFlightDiffer'
  <2>1. \A v \in Wakes \ {w} : wake[v].pc = "put" => wake[v].seq <= seq
    BY DEF IInv, WakeFacts, NumbersOf
  <2>2. \A v \in Wakes : wake[v].seq \in Nat
    BY <1>0 DEF WakeType
  <2>3. \A x \in Engagements : engage[x].pc = "put" => engage[x].seq <= seq
    BY DEF IInv, EngagementControl
  <2>4. \A x \in Engagements : engage[x].seq \in Nat
    BY <1>0 DEF TypeOK
  <2>5. \A v \in Wakes \ {w} : wake'[v].pc = "put" => wake'[v].seq # wake'[w].seq
    BY <1>0, <1>3, <1>5, <2>1, <2>2
  <2>6. \A x \in Engagements : engage'[x].pc = "put" => engage'[x].seq # wake'[w].seq
    BY <1>0, <1>1, <1>5, <2>3, <2>4
  <2> QED
    BY <1>1, <1>3, <2>5, <2>6 DEF IInv, SeqsInFlightDiffer
<1>8. EventIdentity' /\ StatusBacked' /\ HeartbeatEvidence'
  BY <1>1, StatusBackedKept, HeartbeatEvidenceKept
  DEF IInv, EventIdentity, tables
<1>9. seq <= seq'
  BY <1>0, <1>1
<1> QED
  BY <1>1, <1>3, <1>4, <1>6, <1>7, <1>8, <1>9, WakeStep DEF tables

LEMMA PutEventStep ==
    ASSUME IInv, NEW w \in Wakes, PutEvent(w)
    PROVE  IInv'
<1> DEFINE status == StatusOf(w, wake[w].kind)
           ev == [run |-> WakeRun[w], seq |-> wake[w].seq, kind |-> wake[w].kind,
                  status |-> status, by |-> w, agent |-> AgentOf(w)]
           todo == IF status = None THEN {} ELSE {"run", "task"}
           to == [wake[w] EXCEPT !.pc = "put done", !.todo = todo]
           given == [wake[w] EXCEPT !.pc = "aborted"]
<1>0. /\ TypeOK /\ WakeFacts(w) /\ wake[w] \in WakeType
      /\ wake \in [Wakes -> WakeType] /\ seq \in Nat /\ events \subseteq Event
  BY DEF IInv, TypeOK
<1>1. /\ UNCHANGED <<runStatus, taskStatus, records, instances, memory, engage,
                     reg, restarts>>
      /\ wake[w].pc = "put"
  BY DEF PutEvent
<1>2. CASE wake' = [wake EXCEPT ![w] = given] /\ UNCHANGED events
  <2>1. given \in WakeType
    BY <1>0 DEF WakeType, Ended
  <2>2. /\ wake' \in [Wakes -> WakeType]
        /\ wake'[w] = given
        /\ \A v \in Wakes \ {w} : wake'[v] = wake[v]
    BY <1>0, <1>2, <2>1, WakeUpdate
  <2>3. TypeOK'
    BY <1>0, <1>1, <1>2, <2>2 DEF TypeOK, memory
  <2>4. WakeFacts(w)'
    BY <1>0, <1>2, <2>2, WakeFactsAtEnd
  <2>5. wake'[w].pc # "put"
    BY <1>0, <2>2 DEF WakeType
  <2> QED
    BY <1>1, <1>2, <2>2, <2>3, <2>4, <2>5, QuietWakeStep DEF memory
<1>3. CASE /\ ~Taken(WakeRun[w], wake[w].seq)
           /\ events' = events \union {ev}
           /\ wake' = [wake EXCEPT ![w] = to]
  <2>1. status \in Statuses \union {None}
    BY <1>0, StatusOfType DEF WakeType
  <2>2. to \in WakeType
    BY <1>0 DEF WakeType, Active
  <2>3. /\ wake' \in [Wakes -> WakeType]
        /\ wake'[w] = to
        /\ \A v \in Wakes \ {w} : wake'[v] = wake[v]
    BY <1>0, <1>3, <2>2, WakeUpdate
  <2>4. AgentOf(w) \in AgentIds \union {None}
    <3>1. wake[w].kind # "final" => wake[w].rest # <<>> /\ wake[w].rest \in Seq(AgentState)
      BY <1>0, <1>1 DEF WakeFacts, ControlOf, Active, WakeType
    <3>2. wake[w].kind # "final" => Head(wake[w].rest) \in AgentState
      BY <3>1
    <3> QED
      BY <3>2 DEF AgentOf, AgentState
  <2>5. ev \in Event
    BY <1>0, <2>1, <2>4, ConstantsAssumption DEF Event, WakeType
  <2>6. TypeOK'
    BY <1>0, <1>1, <1>3, <2>3, <2>5 DEF TypeOK, memory
  <2>7. /\ wake'[w].pc = "put done" /\ wake'[w].todo = todo
        /\ wake'[w].kind = wake[w].kind /\ wake'[w].bad = wake[w].bad
        /\ wake'[w].rest = wake[w].rest /\ wake'[w].ok = wake[w].ok
    BY <1>0, <2>3 DEF WakeType
  <2>8. /\ ev.run = WakeRun[w] /\ ev.seq = wake[w].seq /\ ev.kind = wake[w].kind
        /\ ev.status = status /\ ev.by = w /\ ev.agent = AgentOf(w)
    OBVIOUS
  <2> HIDE DEF ev, to, todo
  <2>9. \A e \in events : e.by = w => e.seq < ev.seq
    BY <1>0, <1>1, <2>8 DEF WakeFacts, NumbersOf
  <2>10. WakeFacts(w)'
    <3>1. ControlOf(w)'
      BY <1>0, <1>1, <2>7 DEF WakeFacts, ControlOf, Emitting, Active
    <3>2. NumbersOf(w)'
      BY <1>0, <1>1, <1>3, <2>7, <2>8 DEF WakeFacts, NumbersOf, Active, memory
    <3>3. TodoOf(w)'
      <4>1. status' = status
        BY <2>7 DEF StatusOf
      <4> QED
        BY <1>3, <2>7, <2>8, <4>1 DEF TodoOf, todo
    <3>4. EvidenceOf(w)'
      <4> PICK a : a = Head(wake[w].rest).id
        OBVIOUS
      <4>1. wake[w].kind \in {"broken", "artifact", "response"} => ev.agent = a
        BY <2>8 DEF AgentOf
      <4>2. \A k, l : /\ Told(w, a, k) \subseteq Told(w, a, k)'
                      /\ ToldInOrder(w, a, k, l) => ToldInOrder(w, a, k, l)'
        BY <1>3, ToldGrows, OrderStays
      <4>3. \A k \in {"broken", "artifact", "response"} :
              wake[w].kind = k => ev \in Told(w, a, k)'
        BY <1>3, <2>8, <4>1 DEF Told
      <4>4. \A k : \A e \in Told(w, a, k) : e.seq < ev.seq
        BY <2>9 DEF Told
      <4>5. PastAdapter(w)' => wake[w].kind = "broken" \/ PastAdapter(w)
        BY <1>1, <2>7 DEF PastAdapter, Emitting
      <4>6. PastRecord(w)' => PastRecord(w)
        BY <1>1, <2>7 DEF PastRecord, Emitting
      <4>7. PastArtifact(w)' =>
              \/ PastArtifact(w)
              \/ wake[w].kind = "artifact" /\ PastAdapter(w)
        BY <1>1, <2>7 DEF PastArtifact, PastAdapter, Emitting
      <4>8. PastResponse(w)' =>
              \/ PastResponse(w)
              \/ wake[w].kind = "response" /\ PastArtifact(w)
        BY <1>1, <2>7 DEF PastResponse, PastArtifact, Emitting
      <4>9. /\ PastAdapter(w) /\ ~wake[w].ok => Told(w, a, "broken") # {}
            /\ PastRecord(w) => <<WakeRun[w], a>> \in records
            /\ PastArtifact(w) => Told(w, a, "artifact") # {}
            /\ PastArtifact(w) /\ ~wake[w].ok => ToldInOrder(w, a, "broken", "artifact")
            /\ PastResponse(w) => ToldInOrder(w, a, "artifact", "response")
        BY <1>0 DEF WakeFacts, EvidenceOf
      <4>10. PastAdapter(w)' /\ ~wake[w].ok => Told(w, a, "broken")' # {}
        BY <4>2, <4>3, <4>5, <4>9
      <4>11. PastArtifact(w)' => Told(w, a, "artifact")' # {}
        BY <4>2, <4>3, <4>7, <4>9
      <4>12. PastArtifact(w)' /\ ~wake[w].ok => ToldInOrder(w, a, "broken", "artifact")'
        BY <4>2, <4>3, <4>4, <4>7, <4>9 DEF ToldInOrder
      <4>13. PastResponse(w)' => ToldInOrder(w, a, "artifact", "response")'
        BY <4>2, <4>3, <4>4, <4>8, <4>9 DEF ToldInOrder
      <4>14. records' = records /\ a = Head(wake'[w].rest).id
        BY <1>1, <2>7
      <4> QED
        BY <2>7, <4>6, <4>9, <4>10, <4>11, <4>12, <4>13, <4>14 DEF EvidenceOf
    <3> QED
      BY <3>1, <3>2, <3>3, <3>4 DEF WakeFacts
  <2>11. SeqsInFlightDiffer'
    BY <1>1, <2>3, <2>7 DEF IInv, SeqsInFlightDiffer
  <2>12. EventIdentity'
    BY <1>3, <2>8 DEF IInv, EventIdentity, Taken
  <2>13. StatusBacked' /\ HeartbeatEvidence'
    BY <1>1, <1>3, StatusBackedKept, HeartbeatEvidenceKept DEF IInv, memory
  <2>14. seq <= seq'
    BY <1>0, <1>1 DEF memory
  <2> QED
    BY <1>1, <1>3, <2>3, <2>6, <2>8, <2>10, <2>11, <2>12, <2>13, <2>14, WakeStep
    DEF memory
<1> QED
  BY <1>2, <1>3 DEF PutEvent

\* Evidence only grows: it is enough that the step does not reach past more of the
\* heartbeat than the wake was past before.
LEMMA EvidenceCarried ==
    ASSUME NEW w \in Wakes, EvidenceOf(w), events \subseteq events',
           records \subseteq records', wake'[w].rest = wake[w].rest,
           wake'[w].ok = wake[w].ok,
           PastAdapter(w)' => PastAdapter(w), PastRecord(w)' => PastRecord(w),
           PastArtifact(w)' => PastArtifact(w), PastResponse(w)' => PastResponse(w)
    PROVE  EvidenceOf(w)'
<1> PICK a : a = Head(wake[w].rest).id
  OBVIOUS
<1>1. a = Head(wake'[w].rest).id
  OBVIOUS
<1>2. \A k, l : /\ Told(w, a, k) \subseteq Told(w, a, k)'
                /\ ToldInOrder(w, a, k, l) => ToldInOrder(w, a, k, l)'
  BY ToldGrows, OrderStays
<1>3. /\ PastAdapter(w) /\ ~wake[w].ok => Told(w, a, "broken") # {}
      /\ PastRecord(w) => <<WakeRun[w], a>> \in records
      /\ PastArtifact(w) => Told(w, a, "artifact") # {}
      /\ PastArtifact(w) /\ ~wake[w].ok => ToldInOrder(w, a, "broken", "artifact")
      /\ PastResponse(w) => ToldInOrder(w, a, "artifact", "response")
  BY DEF EvidenceOf
<1>4. /\ PastAdapter(w)' /\ ~wake[w].ok => Told(w, a, "broken")' # {}
      /\ PastRecord(w)' => <<WakeRun[w], a>> \in records'
      /\ PastArtifact(w)' => Told(w, a, "artifact")' # {}
      /\ PastArtifact(w)' /\ ~wake[w].ok => ToldInOrder(w, a, "broken", "artifact")'
      /\ PastResponse(w)' => ToldInOrder(w, a, "artifact", "response")'
  BY <1>2, <1>3
<1> QED
  BY <1>1, <1>4 DEF EvidenceOf

\* A step that changes nothing of the wake but takes status updates off its list.
LEMMA WakeFactsAlike ==
    ASSUME NEW w \in Wakes, WakeFacts(w),
           wake'[w].pc = wake[w].pc, wake'[w].todo \subseteq wake[w].todo,
           wake'[w].kind = wake[w].kind, wake'[w].bad = wake[w].bad,
           wake'[w].rest = wake[w].rest, wake'[w].ok = wake[w].ok,
           wake'[w].seq = wake[w].seq, UNCHANGED <<events, records, seq>>
    PROVE  WakeFacts(w)'
<1>1. ControlOf(w)' /\ NumbersOf(w)'
  BY DEF WakeFacts, ControlOf, NumbersOf, Emitting
<1>2. TodoOf(w)'
  <2>1. StatusOf(w, wake[w].kind)' = StatusOf(w, wake[w].kind)
    BY DEF StatusOf
  <2> QED
    BY <2>1 DEF TodoOf, WakeFacts
<1>3. EvidenceOf(w)'
  <2>1. /\ PastAdapter(w)' => PastAdapter(w)
        /\ PastRecord(w)' => PastRecord(w)
        /\ PastArtifact(w)' => PastArtifact(w)
        /\ PastResponse(w)' => PastResponse(w)
    BY DEF PastAdapter, PastRecord, PastArtifact, PastResponse, Emitting
  <2> QED
    BY <2>1, EvidenceCarried DEF WakeFacts
<1> QED
  BY <1>1, <1>2, <1>3 DEF WakeFacts

LEMMA UpdateRunStatusStep ==
    ASSUME IInv, NEW w \in Wakes, UpdateRunStatus(w)
    PROVE  IInv'
<1> DEFINE to == [wake[w] EXCEPT !.todo = @ \ {"run"}]
<1>0. /\ TypeOK /\ WakeFacts(w) /\ wake[w] \in WakeType /\ WakeRun[w] \in Runs
      /\ wake \in [Wakes -> WakeType] /\ runStatus \in [Runs -> Statuses]
      /\ seq \in Nat
  BY ConstantsAssumption DEF IInv, TypeOK
<1>1. /\ UNCHANGED <<events, taskStatus, records, instances, memory, engage, reg,
                     restarts>>
      /\ wake[w].pc \in {"put done", "aborted"} /\ "run" \in wake[w].todo
      /\ runStatus' = [runStatus EXCEPT ![WakeRun[w]] = StatusOf(w, wake[w].kind)]
      /\ wake' = [wake EXCEPT ![w] = to]
  BY DEF UpdateRunStatus
<1>2. to \in WakeType
  BY <1>0 DEF WakeType
<1>3. /\ wake' \in [Wakes -> WakeType]
      /\ wake'[w] = to
      /\ \A v \in Wakes \ {w} : wake'[v] = wake[v]
  BY <1>0, <1>1, <1>2, WakeUpdate
<1>4. /\ StatusOf(w, wake[w].kind) # None
      /\ \E e \in events : e.run = WakeRun[w] /\ e.status = StatusOf(w, wake[w].kind)
  BY <1>0, <1>1 DEF WakeFacts, TodoOf
<1>5. StatusOf(w, wake[w].kind) \in Statuses
  BY <1>0, <1>4, StatusOfType DEF WakeType
<1>6. runStatus' \in [Runs -> Statuses]
  BY <1>0, <1>1, <1>5
<1>7. TypeOK'
  BY <1>0, <1>1, <1>3, <1>6 DEF TypeOK, memory
<1>8. /\ wake'[w].pc = wake[w].pc /\ wake'[w].todo = wake[w].todo \ {"run"}
      /\ wake'[w].kind = wake[w].kind /\ wake'[w].bad = wake[w].bad
      /\ wake'[w].rest = wake[w].rest /\ wake'[w].ok = wake[w].ok
      /\ wake'[w].seq = wake[w].seq
  BY <1>0, <1>3 DEF WakeType
<1>9. WakeFacts(w)'
  BY <1>0, <1>1, <1>8, StatusOfSame, WakeFactsAlike DEF memory
<1>10. SeqsInFlightDiffer' /\ EventIdentity' /\ HeartbeatEvidence' /\ seq <= seq'
  <2>1. seq' = seq /\ seq \in Nat
    BY <1>0, <1>1 DEF memory
  <2>2. seq <= seq'
    BY <2>1
  <2> QED
    BY <1>1, <1>3, <1>8, <2>2, HeartbeatEvidenceKept
    DEF IInv, SeqsInFlightDiffer, EventIdentity, memory
<1>11. StatusBacked'
  BY <1>0, <1>1, <1>4 DEF IInv, StatusBacked
<1> QED
  BY <1>1, <1>3, <1>7, <1>9, <1>10, <1>11, WakeStep DEF memory

LEMMA UpdateTaskStatusStep ==
    ASSUME IInv, NEW w \in Wakes, UpdateTaskStatus(w)
    PROVE  IInv'
<1> DEFINE to == [wake[w] EXCEPT !.todo = @ \ {"task"}]
<1>0. /\ TypeOK /\ WakeFacts(w) /\ wake[w] \in WakeType /\ WakeRun[w] \in Runs
      /\ wake \in [Wakes -> WakeType] /\ taskStatus \in [Runs -> Statuses]
      /\ seq \in Nat
  BY ConstantsAssumption DEF IInv, TypeOK
<1>1. /\ UNCHANGED <<events, runStatus, records, instances, memory, engage, reg,
                     restarts>>
      /\ wake[w].pc \in {"put done", "aborted"} /\ "task" \in wake[w].todo
      /\ taskStatus' = [taskStatus EXCEPT ![WakeRun[w]] = StatusOf(w, wake[w].kind)]
      /\ wake' = [wake EXCEPT ![w] = to]
  BY DEF UpdateTaskStatus
<1>2. to \in WakeType
  BY <1>0 DEF WakeType
<1>3. /\ wake' \in [Wakes -> WakeType]
      /\ wake'[w] = to
      /\ \A v \in Wakes \ {w} : wake'[v] = wake[v]
  BY <1>0, <1>1, <1>2, WakeUpdate
<1>4. /\ StatusOf(w, wake[w].kind) # None
      /\ \E e \in events : e.run = WakeRun[w] /\ e.status = StatusOf(w, wake[w].kind)
  BY <1>0, <1>1 DEF WakeFacts, TodoOf
<1>5. StatusOf(w, wake[w].kind) \in Statuses
  BY <1>0, <1>4, StatusOfType DEF WakeType
<1>6. taskStatus' \in [Runs -> Statuses]
  BY <1>0, <1>1, <1>5
<1>7. TypeOK'
  BY <1>0, <1>1, <1>3, <1>6 DEF TypeOK, memory
<1>8. /\ wake'[w].pc = wake[w].pc /\ wake'[w].todo = wake[w].todo \ {"task"}
      /\ wake'[w].kind = wake[w].kind /\ wake'[w].bad = wake[w].bad
      /\ wake'[w].rest = wake[w].rest /\ wake'[w].ok = wake[w].ok
      /\ wake'[w].seq = wake[w].seq
  BY <1>0, <1>3 DEF WakeType
<1>9. WakeFacts(w)'
  BY <1>0, <1>1, <1>8, StatusOfSame, WakeFactsAlike DEF memory
<1>10. SeqsInFlightDiffer' /\ EventIdentity' /\ HeartbeatEvidence' /\ seq <= seq'
  <2>1. seq' = seq /\ seq \in Nat
    BY <1>0, <1>1 DEF memory
  <2>2. seq <= seq'
    BY <2>1
  <2> QED
    BY <1>1, <1>3, <1>8, <2>2, HeartbeatEvidenceKept
    DEF IInv, SeqsInFlightDiffer, EventIdentity, memory
<1>11. StatusBacked'
  BY <1>0, <1>1, <1>4 DEF IInv, StatusBacked
<1> QED
  BY <1>1, <1>3, <1>7, <1>9, <1>10, <1>11, WakeStep DEF memory

\* Where a wake goes on after each kind of event.
LEMMA AfterEmissionIs ==
    ASSUME NEW w \in Wakes, wake[w] \in WakeType
    PROVE  LET me == wake[w]
               to == AfterEmission(w)
           IN  /\ me.kind = "planning" => to = [me EXCEPT !.pc = "emit", !.kind = "running"]
               /\ me.kind = "running" => to = [me EXCEPT !.pc = "adapter"]
               /\ me.kind = "broken" /\ me.action # "none" =>
                    to = [me EXCEPT !.pc = "emit", !.kind = "action"]
               /\ me.kind = "broken" /\ me.action = "none" => to = [me EXCEPT !.pc = "record"]
               /\ me.kind = "action" =>
                    to \in {[me EXCEPT !.pc = "action record"], [me EXCEPT !.pc = "record"]}
               /\ me.kind = "artifact" => to = [me EXCEPT !.pc = "emit", !.kind = "response"]
               /\ me.kind = "response" => to = [me EXCEPT !.pc = "heartbeat"]
               /\ me.kind = "final" => to = [me EXCEPT !.pc = "done"]
  BY DEF AfterEmission

LEMMA EmittedStep ==
    ASSUME IInv, NEW w \in Wakes, Emitted(w)
    PROVE  IInv'
<1> DEFINE to == AfterEmission(w)
<1>0. /\ TypeOK /\ WakeFacts(w) /\ wake[w] \in WakeType
      /\ wake \in [Wakes -> WakeType] /\ wake[w].kind \in Kinds
  BY DEF IInv, TypeOK, WakeType
<1>1. /\ UNCHANGED <<tables, agents, heartbeats, seq, engage, reg, restarts>>
      /\ wake[w].pc = "put done" /\ wake[w].todo = {}
      /\ wake' = [wake EXCEPT ![w] = to]
      /\ runner' \in {runner, "ready"}
      /\ metrics' = [metrics EXCEPT !.durable = @ + 1]
  BY DEF Emitted
<1>2. \/ wake[w].kind = "planning" /\ to = [wake[w] EXCEPT !.pc = "emit", !.kind = "running"]
      \/ wake[w].kind = "running" /\ to = [wake[w] EXCEPT !.pc = "adapter"]
      \/ wake[w].kind = "broken" /\ to = [wake[w] EXCEPT !.pc = "emit", !.kind = "action"]
      \/ wake[w].kind = "broken" /\ to = [wake[w] EXCEPT !.pc = "record"]
      \/ wake[w].kind = "action" /\ to = [wake[w] EXCEPT !.pc = "action record"]
      \/ wake[w].kind = "action" /\ to = [wake[w] EXCEPT !.pc = "record"]
      \/ wake[w].kind = "artifact" /\ to = [wake[w] EXCEPT !.pc = "emit", !.kind = "response"]
      \/ wake[w].kind = "response" /\ to = [wake[w] EXCEPT !.pc = "heartbeat"]
      \/ wake[w].kind = "final" /\ to = [wake[w] EXCEPT !.pc = "done"]
  BY <1>0, AfterEmissionIs DEF Kinds
<1> HIDE DEF to
<1>3. to \in WakeType
  <2> USE <1>0 DEF WakeType, Active, Ended, Kinds
  <2>1. CASE to = [wake[w] EXCEPT !.pc = "emit", !.kind = "running"]
    BY <2>1
  <2>2. CASE to = [wake[w] EXCEPT !.pc = "emit", !.kind = "action"]
    BY <2>2
  <2>3. CASE to = [wake[w] EXCEPT !.pc = "emit", !.kind = "response"]
    BY <2>3
  <2>4. CASE \E p \in {"adapter", "record", "action record", "heartbeat", "done"} :
               to = [wake[w] EXCEPT !.pc = p]
    BY <2>4
  <2> QED
    BY <1>2, <2>1, <2>2, <2>3, <2>4
<1>4. /\ wake' \in [Wakes -> WakeType]
      /\ wake'[w] = to
      /\ \A v \in Wakes \ {w} : wake'[v] = wake[v]
  BY <1>0, <1>1, <1>3, WakeUpdate
<1>5. metrics' \in [total : Nat, failed : Nat, artifacts : Nat, durable : Nat]
  <2>1. metrics \in [total : Nat, failed : Nat, artifacts : Nat, durable : Nat]
    BY <1>0 DEF TypeOK
  <2>2. metrics.durable + 1 \in Nat
    BY <2>1
  <2> QED
    BY <1>1, <2>1, <2>2
<1>6. TypeOK'
  BY <1>0, <1>1, <1>4, <1>5 DEF TypeOK, tables
<1>7. /\ wake'[w].todo = {} /\ wake'[w].rest = wake[w].rest /\ wake'[w].ok = wake[w].ok
      /\ \/ wake[w].kind = "planning" /\ wake'[w].pc = "emit" /\ wake'[w].kind = "running"
         \/ wake[w].kind = "running" /\ wake'[w].pc = "adapter" /\ wake'[w].kind = "running"
         \/ wake[w].kind = "broken" /\ wake'[w].pc = "emit" /\ wake'[w].kind = "action"
         \/ wake[w].kind = "broken" /\ wake'[w].pc = "record" /\ wake'[w].kind = "broken"
         \/ /\ wake[w].kind = "action" /\ wake'[w].pc \in {"record", "action record"}
            /\ wake'[w].kind = "action"
         \/ wake[w].kind = "artifact" /\ wake'[w].pc = "emit" /\ wake'[w].kind = "response"
         \/ /\ wake[w].kind = "response" /\ wake'[w].pc = "heartbeat"
            /\ wake'[w].kind = "response"
         \/ wake[w].kind = "final" /\ wake'[w].pc = "done" /\ wake'[w].kind = "final"
  <2> USE <1>0, <1>1, <1>4 DEF WakeType
  <2>1. CASE wake[w].kind = "planning" /\ to = [wake[w] EXCEPT !.pc = "emit", !.kind = "running"]
    BY <2>1
  <2>2. CASE wake[w].kind = "running" /\ to = [wake[w] EXCEPT !.pc = "adapter"]
    BY <2>2
  <2>3. CASE wake[w].kind = "broken" /\ to = [wake[w] EXCEPT !.pc = "emit", !.kind = "action"]
    BY <2>3
  <2>4. CASE wake[w].kind = "broken" /\ to = [wake[w] EXCEPT !.pc = "record"]
    BY <2>4
  <2>5. CASE wake[w].kind = "action" /\ to = [wake[w] EXCEPT !.pc = "action record"]
    BY <2>5
  <2>6. CASE wake[w].kind = "action" /\ to = [wake[w] EXCEPT !.pc = "record"]
    BY <2>6
  <2>7. CASE wake[w].kind = "artifact" /\ to = [wake[w] EXCEPT !.pc = "emit", !.kind = "response"]
    BY <2>7
  <2>8. CASE wake[w].kind = "response" /\ to = [wake[w] EXCEPT !.pc = "heartbeat"]
    BY <2>8
  <2>9. CASE wake[w].kind = "final" /\ to = [wake[w] EXCEPT !.pc = "done"]
    BY <2>9
  <2> QED
    BY ONLY <1>2, <2>1, <2>2, <2>3, <2>4, <2>5, <2>6, <2>7, <2>8, <2>9
<1>8. WakeFacts(w)'
  <2>1. ControlOf(w)'
    BY <1>0, <1>1, <1>7 DEF WakeFacts, ControlOf, Emitting, Active
  <2>2. NumbersOf(w)'
    BY <1>0, <1>1, <1>7 DEF WakeFacts, NumbersOf, Active, tables
  <2>3. TodoOf(w)'
    BY <1>7 DEF TodoOf
  <2>4. /\ PastAdapter(w)' => PastAdapter(w)
        /\ PastRecord(w)' => PastRecord(w)
        /\ PastArtifact(w)' => PastArtifact(w)
        /\ PastResponse(w)' => PastResponse(w)
    BY <1>1, <1>7 DEF PastAdapter, PastRecord, PastArtifact, PastResponse, Emitting
  <2>5. EvidenceOf(w)'
    BY <1>0, <1>1, <1>7, <2>4, EvidenceCarried DEF WakeFacts, tables
  <2> QED
    BY <2>1, <2>2, <2>3, <2>5 DEF WakeFacts
<1>9. wake'[w].pc # "put"
  BY <1>7
<1> QED
  BY <1>1, <1>4, <1>6, <1>8, <1>9, QuietWakeStep DEF tables

-----------------------------------------------------------------------------
(***************************************************************************)
(* One agent's heartbeat.                                                  *)
(***************************************************************************)

\* Away from an emission a wake is at an agent, and no status update is open.
LEMMA AtAnAgent ==
    ASSUME NEW w \in Wakes, WakeFacts(w), wake[w] \in WakeType,
           wake[w].pc \in Active \ {"emit", "put", "put done"}
    PROVE  /\ wake[w].kind # "final" /\ wake[w].todo = {}
           /\ wake[w].rest # <<>> /\ Head(wake[w].rest) \in AgentState
           /\ Tail(wake[w].rest) \in Seq(AgentState)
<1>1. wake[w].kind # "final" /\ wake[w].todo = {} /\ wake[w].rest # <<>>
  BY DEF WakeFacts, ControlOf, Emitting, Active
<1>2. wake[w].rest \in Seq(AgentState)
  BY DEF WakeType
<1> QED
  BY <1>1, <1>2, NonEmptyList

LEMMA RunAdapterStep ==
    ASSUME IInv, NEW w \in Wakes, RunAdapter(w)
    PROVE  IInv'
<1>0. /\ TypeOK /\ WakeFacts(w) /\ wake[w] \in WakeType
      /\ wake \in [Wakes -> WakeType]
  BY DEF IInv, TypeOK
<1>1. UNCHANGED <<tables, memory, engage, reg, restarts>> /\ wake[w].pc = "adapter"
  BY DEF RunAdapter
<1>2. PICK o \in Outcomes :
         wake' = [wake EXCEPT
                    ![w].ok = o.ok, ![w].action = o.action,
                    ![w].pc = IF o.ok /\ o.action = "none" THEN "record"
                              ELSE "emit",
                    ![w].kind = CASE ~o.ok -> "broken"
                                  [] o.ok /\ o.action # "none" -> "action"
                                  [] OTHER -> @]
  BY DEF RunAdapter
<1>3. o \in [ok : BOOLEAN, action : {"none", "event", "artifact"}]
  BY ConstantsAssumption
<1> DEFINE pc == IF o.ok /\ o.action = "none" THEN "record" ELSE "emit"
           kind == CASE ~o.ok -> "broken"
                     [] o.ok /\ o.action # "none" -> "action"
                     [] OTHER -> wake[w].kind
           to == [wake[w] EXCEPT !.ok = o.ok, !.action = o.action, !.pc = pc,
                                 !.kind = kind]
<1>4. /\ pc \in {"record", "emit"} /\ kind \in Kinds
      /\ \/ pc = "record" /\ o.ok = TRUE /\ kind = wake[w].kind
         \/ pc = "emit" /\ o.ok = TRUE /\ kind = "action"
         \/ pc = "emit" /\ kind = "broken"
  BY <1>0, <1>3 DEF WakeType, Kinds
<1>5. wake' = [wake EXCEPT ![w] = to]
  BY <1>2
<1> HIDE DEF pc, kind
<1>6. to \in WakeType
  BY <1>0, <1>3, <1>4 DEF WakeType, Active
<1>7. /\ wake' \in [Wakes -> WakeType]
      /\ wake'[w] = to
      /\ \A v \in Wakes \ {w} : wake'[v] = wake[v]
  BY <1>0, <1>5, <1>6, WakeUpdate
<1>8. TypeOK'
  BY <1>0, <1>1, <1>7 DEF TypeOK, tables, memory
<1>9. wake[w].kind # "final" /\ wake[w].rest # <<>> /\ wake[w].todo = {}
  BY <1>0, <1>1, AtAnAgent DEF Active
<1>10. /\ wake'[w].pc = pc /\ wake'[w].kind = kind /\ wake'[w].ok = o.ok
       /\ wake'[w].todo = {} /\ wake'[w].rest = wake[w].rest
  BY <1>0, <1>7, <1>9 DEF WakeType
<1>11. WakeFacts(w)'
  <2>1. ControlOf(w)' /\ TodoOf(w)'
    BY <1>4, <1>9, <1>10 DEF ControlOf, TodoOf
  <2>2. NumbersOf(w)'
    BY <1>0, <1>1, <1>4, <1>10
    DEF WakeFacts, NumbersOf, Active, tables, memory
  <2>3. EvidenceOf(w)'
    BY <1>4, <1>9, <1>10
    DEF EvidenceOf, PastAdapter, PastRecord, PastArtifact, PastResponse, Emitting
  <2> QED
    BY <2>1, <2>2, <2>3 DEF WakeFacts
<1>12. wake'[w].pc # "put"
  BY <1>4, <1>10
<1> QED
  BY <1>1, <1>7, <1>8, <1>11, <1>12, QuietWakeStep DEF tables, memory

\* A step that only gives the wake up.
LEMMA GivenUpStep ==
    ASSUME IInv, NEW w \in Wakes, wake' = [wake EXCEPT ![w].pc = "aborted"],
           UNCHANGED <<tables, memory, engage, reg, restarts>>
    PROVE  IInv'
<1> DEFINE to == [wake[w] EXCEPT !.pc = "aborted"]
<1>0. /\ TypeOK /\ WakeFacts(w) /\ wake[w] \in WakeType
      /\ wake \in [Wakes -> WakeType]
  BY DEF IInv, TypeOK
<1>1. to \in WakeType
  BY <1>0 DEF WakeType, Ended
<1>2. /\ wake' \in [Wakes -> WakeType]
      /\ wake'[w] = to
      /\ \A v \in Wakes \ {w} : wake'[v] = wake[v]
  BY <1>0, <1>1, WakeUpdate
<1>3. TypeOK'
  BY <1>0, <1>2 DEF TypeOK, tables, memory
<1>4. WakeFacts(w)'
  BY <1>0, <1>2, WakeFactsAtEnd DEF tables
<1>5. wake'[w].pc # "put"
  BY <1>0, <1>2 DEF WakeType
<1> QED
  BY <1>2, <1>3, <1>4, <1>5, QuietWakeStep DEF tables, memory

LEMMA PutActionRecordStep ==
    ASSUME IInv, NEW w \in Wakes, PutActionRecord(w)
    PROVE  IInv'
<1> DEFINE to == [wake[w] EXCEPT !.pc = "record"]
<1>0. /\ TypeOK /\ WakeFacts(w) /\ wake[w] \in WakeType /\ WakeRun[w] \in Runs
      /\ wake \in [Wakes -> WakeType]
      /\ records \subseteq Runs \X (AgentIds \union ArtifactIds)
  BY ConstantsAssumption DEF IInv, TypeOK
<1>1. /\ UNCHANGED <<events, runStatus, taskStatus, instances, memory, engage, reg,
                     restarts>>
      /\ wake[w].pc = "action record"
  BY DEF PutActionRecord
<1>2. PICK id \in ArtifactIds : PutRecord(w, id, to)
  BY DEF PutActionRecord
<1>3. CASE wake' = [wake EXCEPT ![w].pc = "aborted"] /\ UNCHANGED records
  BY <1>1, <1>3, GivenUpStep DEF tables
<1>4. CASE wake' = [wake EXCEPT ![w] = to] /\ records' = records \union {<<WakeRun[w], id>>}
  <2>1. to \in WakeType
    BY <1>0 DEF WakeType, Active
  <2>2. /\ wake' \in [Wakes -> WakeType]
        /\ wake'[w] = to
        /\ \A v \in Wakes \ {w} : wake'[v] = wake[v]
    BY <1>0, <1>4, <2>1, WakeUpdate
  <2>3. records' \subseteq Runs \X (AgentIds \union ArtifactIds)
    BY <1>0, <1>4
  <2>4. TypeOK'
    BY <1>0, <1>1, <2>2, <2>3 DEF TypeOK, memory
  <2>5. /\ wake'[w].pc = "record" /\ wake'[w].kind = wake[w].kind
        /\ wake'[w].todo = wake[w].todo /\ wake'[w].rest = wake[w].rest
        /\ wake'[w].ok = wake[w].ok
    BY <1>0, <2>2 DEF WakeType
  <2>6. wake[w].kind # "final" /\ wake[w].rest # <<>> /\ wake[w].todo = {}
    BY <1>0, <1>1, AtAnAgent DEF Active
  <2>7. WakeFacts(w)'
    <3>1. ControlOf(w)' /\ TodoOf(w)'
      BY <2>5, <2>6 DEF ControlOf, TodoOf
    <3>2. NumbersOf(w)'
      BY <1>0, <1>1, <2>5 DEF WakeFacts, NumbersOf, Active, memory
    <3>3. /\ PastAdapter(w)' => PastAdapter(w)
          /\ PastRecord(w)' => PastRecord(w)
          /\ PastArtifact(w)' => PastArtifact(w)
          /\ PastResponse(w)' => PastResponse(w)
      BY <1>1, <2>5
      DEF PastAdapter, PastRecord, PastArtifact, PastResponse, Emitting
    <3>4. EvidenceOf(w)'
      BY <1>0, <1>1, <1>4, <2>5, <3>3, EvidenceCarried DEF WakeFacts
    <3> QED
      BY <3>1, <3>2, <3>4 DEF WakeFacts
  <2> QED
    BY <1>1, <1>4, <2>2, <2>4, <2>5, <2>7, QuietWakeStep DEF memory
<1> QED
  BY <1>2, <1>3, <1>4 DEF PutRecord

LEMMA PutHeartbeatRecordStep ==
    ASSUME IInv, NEW w \in Wakes, PutHeartbeatRecord(w)
    PROVE  IInv'
<1> DEFINE to == [wake[w] EXCEPT !.pc = "emit", !.kind = "artifact"]
<1>0. /\ TypeOK /\ WakeFacts(w) /\ wake[w] \in WakeType /\ WakeRun[w] \in Runs
      /\ wake \in [Wakes -> WakeType]
      /\ records \subseteq Runs \X (AgentIds \union ArtifactIds)
  BY ConstantsAssumption DEF IInv, TypeOK
<1> PICK a : a = Head(wake[w].rest).id
  OBVIOUS
<1>1. /\ UNCHANGED <<events, runStatus, taskStatus, instances, memory, engage, reg,
                     restarts>>
      /\ wake[w].pc = "record" /\ PutRecord(w, a, to)
  BY DEF PutHeartbeatRecord
<1>2. /\ wake[w].kind # "final" /\ wake[w].rest # <<>> /\ wake[w].todo = {}
      /\ a \in AgentIds
  BY <1>0, <1>1, AtAnAgent DEF Active, AgentState
<1>3. CASE wake' = [wake EXCEPT ![w].pc = "aborted"] /\ UNCHANGED records
  BY <1>1, <1>3, GivenUpStep DEF tables
<1>4. CASE wake' = [wake EXCEPT ![w] = to] /\ records' = records \union {<<WakeRun[w], a>>}
  <2>1. to \in WakeType
    BY <1>0 DEF WakeType, Active, Kinds
  <2>2. /\ wake' \in [Wakes -> WakeType]
        /\ wake'[w] = to
        /\ \A v \in Wakes \ {w} : wake'[v] = wake[v]
    BY <1>0, <1>4, <2>1, WakeUpdate
  <2>3. records' \subseteq Runs \X (AgentIds \union ArtifactIds)
    BY <1>0, <1>2, <1>4
  <2>4. TypeOK'
    BY <1>0, <1>1, <2>2, <2>3 DEF TypeOK, memory
  <2>5. /\ wake'[w].pc = "emit" /\ wake'[w].kind = "artifact"
        /\ wake'[w].todo = wake[w].todo /\ wake'[w].rest = wake[w].rest
        /\ wake'[w].ok = wake[w].ok
    BY <1>0, <2>2 DEF WakeType
  <2>6. WakeFacts(w)'
    <3>1. ControlOf(w)' /\ TodoOf(w)'
      BY <1>2, <2>5 DEF ControlOf, TodoOf
    <3>2. NumbersOf(w)'
      BY <1>0, <1>1, <2>5 DEF WakeFacts, NumbersOf, Active, memory
    <3>3. ~PastArtifact(w)' /\ ~PastResponse(w)' /\ PastAdapter(w)
      BY <1>1, <2>5 DEF PastAdapter, PastArtifact, PastResponse, Emitting
    <3>4. ~wake[w].ok => Told(w, a, "broken")' # {}
      BY <1>0, <1>1, <3>3 DEF WakeFacts, EvidenceOf, Told
    <3>5. a = Head(wake'[w].rest).id /\ <<WakeRun[w], a>> \in records'
      BY <1>4, <2>5
    <3>6. EvidenceOf(w)'
      BY <2>5, <3>3, <3>4, <3>5 DEF EvidenceOf
    <3> QED
      BY <3>1, <3>2, <3>6 DEF WakeFacts
  <2> QED
    BY <1>1, <1>4, <2>2, <2>4, <2>5, <2>6, QuietWakeStep DEF memory
<1> QED
  BY <1>1, <1>3, <1>4 DEF PutRecord

LEMMA RecordHeartbeatStep ==
    ASSUME IInv, NEW w \in Wakes, RecordHeartbeat(w)
    PROVE  IInv'
<1> PICK a : a = Head(wake[w].rest).id
  OBVIOUS
<1> DEFINE failed == ~wake[w].ok
           bad == wake[w].bad \/ failed
           h == [wake |-> w, agent |-> a, failed |-> failed]
           to == [wake[w] EXCEPT !.pc = "instance", !.bad = bad]
           after == Agent(a, IF failed THEN "failed" ELSE "succeeded", 0)
<1>0. /\ TypeOK /\ WakeFacts(w) /\ wake[w] \in WakeType
      /\ wake \in [Wakes -> WakeType] /\ agents \in Seq(AgentState)
      /\ heartbeats \in Seq([wake : Wakes, agent : AgentIds, failed : BOOLEAN])
  BY DEF IInv, TypeOK
<1>1. /\ UNCHANGED <<tables, runner, seq, engage, reg, restarts>>
      /\ wake[w].pc = "heartbeat" /\ heartbeats' = Append(heartbeats, h)
      /\ wake' = [wake EXCEPT ![w] = to]
  BY DEF RecordHeartbeat
<1>2. /\ wake[w].kind # "final" /\ wake[w].rest # <<>> /\ wake[w].todo = {}
      /\ a \in AgentIds
  BY <1>0, <1>1, AtAnAgent DEF Active, AgentState
<1>3. failed \in BOOLEAN /\ bad \in BOOLEAN
  BY <1>0 DEF WakeType
<1> HIDE DEF failed, bad
<1>4. to \in WakeType
  BY <1>0, <1>3 DEF WakeType, Active
<1>5. /\ wake' \in [Wakes -> WakeType]
      /\ wake'[w] = to
      /\ \A v \in Wakes \ {w} : wake'[v] = wake[v]
  BY <1>0, <1>1, <1>4, WakeUpdate
<1>6. heartbeats' \in Seq([wake : Wakes, agent : AgentIds, failed : BOOLEAN])
  BY <1>0, <1>1, <1>2, <1>3
<1>7. agents' \in Seq(AgentState)
  <2>1. agents' = [i \in DOMAIN agents |->
                     IF agents[i].id = a
                     THEN Agent(a, IF failed THEN "failed" ELSE "succeeded",
                                agents[i].count + 1)
                     ELSE agents[i]]
    BY DEF RecordHeartbeat, MapAgents, failed
  <2>2. \A i \in DOMAIN agents : agents[i] \in AgentState
    BY <1>0
  <2>3. \A i \in DOMAIN agents : agents'[i] \in AgentState
    BY <1>2, <2>1, <2>2 DEF AgentState, Agent
  <2> QED
    BY <1>0, <2>1, <2>3, RewrittenList
<1>8. metrics' \in [total : Nat, failed : Nat, artifacts : Nat, durable : Nat]
  <2>1. metrics \in [total : Nat, failed : Nat, artifacts : Nat, durable : Nat]
    BY <1>0 DEF TypeOK
  <2>2. metrics' = [metrics EXCEPT !.total = metrics.total + 1,
                                   !.artifacts = metrics.artifacts + 1,
                                   !.failed = IF failed THEN metrics.failed + 1
                                              ELSE metrics.failed]
    BY DEF RecordHeartbeat, failed
  <2>3. /\ metrics.total + 1 \in Nat /\ metrics.artifacts + 1 \in Nat
        /\ (IF failed THEN metrics.failed + 1 ELSE metrics.failed) \in Nat
    BY <2>1
  <2> QED
    BY <2>1, <2>2, <2>3
<1>9. TypeOK'
  BY <1>0, <1>1, <1>5, <1>6, <1>7, <1>8 DEF TypeOK, tables
<1>10. /\ wake'[w].pc = "instance" /\ wake'[w].kind = wake[w].kind
       /\ wake'[w].todo = {} /\ wake'[w].rest = wake[w].rest
  BY <1>0, <1>2, <1>5 DEF WakeType
<1>11. WakeFacts(w)'
  <2>1. ControlOf(w)' /\ TodoOf(w)'
    BY <1>2, <1>10 DEF ControlOf, TodoOf
  <2>2. NumbersOf(w)'
    BY <1>0, <1>1, <1>10 DEF WakeFacts, NumbersOf, Active, tables
  <2>3. EvidenceOf(w)'
    BY <1>10
    DEF EvidenceOf, PastAdapter, PastRecord, PastArtifact, PastResponse, Emitting
  <2> QED
    BY <2>1, <2>2, <2>3 DEF WakeFacts
<1>12. HeartbeatEvidence'
  <2>1. /\ <<WakeRun[w], a>> \in records
        /\ ToldInOrder(w, a, "artifact", "response")
        /\ failed => ToldInOrder(w, a, "broken", "artifact")
    BY <1>0, <1>1
    DEF WakeFacts, EvidenceOf, PastRecord, PastArtifact, PastResponse, failed
  <2>2. events' = events /\ records' = records
    BY <1>1 DEF tables
  <2>3. \A i \in DOMAIN heartbeats' :
           \/ heartbeats'[i] = h
           \/ i \in DOMAIN heartbeats /\ heartbeats'[i] = heartbeats[i]
    BY <1>0, <1>1
  <2>4. h.wake = w /\ h.agent = a /\ h.failed = failed
    OBVIOUS
  <2> HIDE DEF h
  <2>5. \A g : HeartbeatTold(g) => HeartbeatTold(g)'
    BY <2>2, OrderStays DEF HeartbeatTold
  <2>6. PICK g : g = h
    OBVIOUS
  <2>7. HeartbeatTold(g)
    BY <2>1, <2>4, <2>6 DEF HeartbeatTold
  <2> QED
    BY <2>3, <2>5, <2>6, <2>7 DEF IInv, HeartbeatEvidence
<1>13. SeqsInFlightDiffer' /\ EventIdentity' /\ StatusBacked'
  BY <1>1, <1>5, <1>10, StatusBackedKept
  DEF IInv, SeqsInFlightDiffer, EventIdentity, tables
<1>14. seq <= seq'
  BY <1>0, <1>1 DEF TypeOK
<1> QED
  BY <1>1, <1>5, <1>9, <1>11, <1>12, <1>13, <1>14, WakeStep DEF tables

LEMMA PersistInstanceStep ==
    ASSUME IInv, NEW w \in Wakes, PersistInstance(w)
    PROVE  IInv'
<1> DEFINE rest == Tail(wake[w].rest)
           kind == IF rest = <<>> THEN "final" ELSE "running"
           to == [wake[w] EXCEPT !.pc = "emit", !.rest = rest, !.kind = kind]
           id == Head(wake[w].rest).id
<1>0. /\ TypeOK /\ WakeFacts(w) /\ wake[w] \in WakeType
      /\ wake \in [Wakes -> WakeType] /\ agents \in Seq(AgentState)
  BY DEF IInv, TypeOK
<1>1. /\ UNCHANGED <<events, runStatus, taskStatus, records, memory, engage, reg,
                     restarts>>
      /\ wake[w].pc = "instance" /\ wake' = [wake EXCEPT ![w] = to]
  BY DEF PersistInstance
<1>2. rest \in Seq(AgentState) /\ wake[w].todo = {}
  BY <1>0, <1>1, AtAnAgent DEF Active
<1>3. to \in WakeType
  <2>1. kind \in Kinds /\ "emit" \in Active
    BY DEF Kinds, Active
  <2> QED
    BY <1>0, <1>2, <2>1, Zenon DEF WakeType
<1>4. /\ wake' \in [Wakes -> WakeType]
      /\ wake'[w] = to
      /\ \A v \in Wakes \ {w} : wake'[v] = wake[v]
  BY <1>0, <1>1, <1>3, WakeUpdate
<1>5. instances' \in [AgentIds ->
                        [status : {None, "idle", "running", "succeeded", "failed"},
                         count : Nat]]
  <2>1. id \in IdsOf(agents) => FindAgent(agents, id) \in AgentState
    BY <1>0, FindAgentFinds
  <2> QED
    BY <1>0, <2>1 DEF PersistInstance, TypeOK, AgentState
<1>6. TypeOK'
  BY <1>0, <1>1, <1>4, <1>5 DEF TypeOK, memory
<1>7. /\ wake'[w].pc = "emit" /\ wake'[w].kind = kind /\ wake'[w].todo = {}
      /\ wake'[w].rest = rest
  BY <1>0, <1>2, <1>4 DEF WakeType
<1>8. WakeFacts(w)'
  <2>1. ControlOf(w)' /\ TodoOf(w)'
    BY <1>7 DEF ControlOf, TodoOf, Emitting
  <2>2. NumbersOf(w)'
    BY <1>0, <1>1, <1>7 DEF WakeFacts, NumbersOf, Active, memory
  <2>3. EvidenceOf(w)'
    BY <1>7
    DEF EvidenceOf, PastAdapter, PastRecord, PastArtifact, PastResponse, Emitting
  <2> QED
    BY <2>1, <2>2, <2>3 DEF WakeFacts
<1> QED
  BY <1>1, <1>4, <1>6, <1>7, <1>8, QuietWakeStep DEF memory

-----------------------------------------------------------------------------
(***************************************************************************)
(* Engagements and registrations.                                          *)
(***************************************************************************)

\* A step that is no wake's leaves the facts about every wake alone.
LEMMA NoWakeStep ==
    ASSUME IInv, TypeOK', wake' = wake, events \subseteq events',
           \A w \in Wakes, e \in events' \ events : e.by # w,
           seq <= seq', UNCHANGED <<records, runStatus, taskStatus, heartbeats>>,
           EngagementControl', RegistrationControl', SeqsInFlightDiffer',
           EventIdentity'
    PROVE  IInv'
<1>1. ASSUME NEW w \in Wakes PROVE WakeFacts(w)'
  <2>1. wake[w].seq \in Nat
    BY DEF IInv, TypeOK, WakeType
  <2>2. seq \in Nat /\ seq' \in Nat /\ events \subseteq Event
    BY DEF IInv, TypeOK
  <2> QED
    BY <2>1, <2>2, WakeFactsKept DEF IInv
<1>2. StatusBacked' /\ HeartbeatEvidence'
  BY StatusBackedKept, HeartbeatEvidenceKept DEF IInv
<1> QED
  BY <1>1, <1>2 DEF IInv

LEMMA EngageStep ==
    ASSUME IInv, NEW x \in Engagements, NEW r \in Runs, NEW hasTask \in BOOLEAN,
           Engage(x, r, hasTask)
    PROVE  IInv'
<1> DEFINE to == [pc |-> IF hasTask THEN "put" ELSE "count", run |-> r,
                  seq |-> seq + 1]
           Rec == [pc : {"idle", "put", "count", "done", "failed"},
                   run : Runs \union {None}, seq : Nat]
<1>0. TypeOK /\ engage \in [Engagements -> Rec] /\ seq \in Nat
  BY DEF IInv, TypeOK
<1>1. /\ UNCHANGED <<tables, runner, agents, heartbeats, metrics, wake, reg, restarts>>
      /\ seq' = seq + 1 /\ engage' = [engage EXCEPT ![x] = to]
  BY DEF Engage
<1>2. to \in Rec
  BY <1>0
<1>3. /\ engage' \in [Engagements -> Rec] /\ engage'[x] = to
      /\ \A y \in Engagements \ {x} : engage'[y] = engage[y]
  BY <1>0, <1>1, <1>2
<1>4. TypeOK'
  BY <1>0, <1>1, <1>3 DEF TypeOK, tables
<1>5. \A y \in Engagements \ {x} : engage[y].pc = "put" => engage[y].seq < seq'
  <2>1. \A y \in Engagements : engage[y].seq \in Nat
    BY <1>0
  <2> QED
    BY <1>0, <1>1, <2>1 DEF IInv, EngagementControl
<1>6. \A w \in Wakes : wake[w].pc = "put" => wake[w].seq < seq'
  <2>1. \A w \in Wakes : wake[w].seq \in Nat
    BY DEF IInv, TypeOK, WakeType
  <2> QED
    BY <1>0, <1>1, <2>1 DEF IInv, WakeFacts, NumbersOf
<1>7. engage'[x].seq = seq'
  BY <1>1, <1>3
<1>8. EngagementControl'
  <2>1. \A y \in Engagements \ {x} :
           engage'[y].pc = "put" => engage'[y].seq <= seq' /\ engage'[y].run \in Runs
    BY <1>0, <1>1, <1>3, <1>5 DEF IInv, EngagementControl
  <2>2. engage'[x].seq <= seq' /\ engage'[x].run \in Runs
    BY <1>0, <1>1, <1>3, <1>7
  <2> QED
    BY <2>1, <2>2 DEF EngagementControl
<1>9. SeqsInFlightDiffer'
  <2>1. \A y \in Engagements \ {x} : engage'[y].pc = "put" => engage'[y].seq # engage'[x].seq
    BY <1>0, <1>1, <1>3, <1>5, <1>7
  <2>2. \A w \in Wakes : wake[w].pc = "put" => wake[w].seq # engage'[x].seq
    BY <1>0, <1>1, <1>6, <1>7
  <2> QED
    BY <1>1, <1>3, <2>1, <2>2 DEF IInv, SeqsInFlightDiffer
<1>10. EventIdentity' /\ RegistrationControl'
  BY <1>1 DEF IInv, EventIdentity, RegistrationControl, tables
<1>11. seq <= seq'
  BY <1>0, <1>1
<1> QED
  BY <1>1, <1>4, <1>8, <1>9, <1>10, <1>11, NoWakeStep DEF tables

LEMMA PutEngagementStep ==
    ASSUME IInv, NEW x \in Engagements, PutEngagement(x)
    PROVE  IInv'
<1> DEFINE ev == [run |-> engage[x].run, seq |-> engage[x].seq,
                  kind |-> "engagement", status |-> None, by |-> x,
                  agent |-> None]
           Rec == [pc : {"idle", "put", "count", "done", "failed"},
                   run : Runs \union {None}, seq : Nat]
<1>0. /\ TypeOK /\ engage \in [Engagements -> Rec] /\ seq \in Nat
      /\ events \subseteq Event
  BY DEF IInv, TypeOK
<1>1. /\ UNCHANGED <<runStatus, taskStatus, records, instances, memory, wake, reg,
                     restarts>>
      /\ engage[x].pc = "put"
  BY DEF PutEngagement
<1>2. PICK p \in {"count", "failed"} :
         /\ engage' = [engage EXCEPT ![x] = [engage[x] EXCEPT !.pc = p]]
         /\ \/ events' = events
            \/ events' = events \union {ev} /\ ~Taken(engage[x].run, engage[x].seq)
  BY DEF PutEngagement
<1>3. [engage[x] EXCEPT !.pc = p] \in Rec
  BY <1>0, <1>2
<1>4. /\ engage' \in [Engagements -> Rec] /\ engage'[x] = [engage[x] EXCEPT !.pc = p]
      /\ \A y \in Engagements \ {x} : engage'[y] = engage[y]
  BY <1>0, <1>2, <1>3
<1>5. engage'[x].pc # "put"
  BY <1>0, <1>2, <1>4
<1>6. ev.by = x /\ ev.seq = engage[x].seq /\ ev.run = engage[x].run
  OBVIOUS
<1>7. ev \in Event
  <2>1. engage[x].run \in Runs
    BY <1>1 DEF IInv, EngagementControl
  <2> QED
    BY <1>0, <2>1 DEF Event
<1> HIDE DEF ev
<1>8. TypeOK'
  <2>1. events' \subseteq Event
    BY <1>0, <1>2, <1>7
  <2> QED
    BY <1>0, <1>1, <1>4, <2>1 DEF TypeOK, memory
<1>9. EngagementControl'
  BY <1>1, <1>4, <1>5 DEF IInv, EngagementControl, memory
<1>10. SeqsInFlightDiffer'
  BY <1>1, <1>4, <1>5 DEF IInv, SeqsInFlightDiffer
<1>11. EventIdentity'
  BY <1>2, <1>6 DEF IInv, EventIdentity, Taken
<1>12. RegistrationControl'
  BY <1>1 DEF IInv, RegistrationControl
<1>13. \A w \in Wakes, e \in events' \ events : e.by # w
  BY <1>2, <1>6, ConstantsAssumption
<1>14. seq <= seq' /\ events \subseteq events'
  <2>1. seq' = seq
    BY <1>1 DEF memory
  <2> QED
    BY <1>0, <1>2, <2>1
<1> QED
  BY <1>1, <1>8, <1>9, <1>10, <1>11, <1>12, <1>13, <1>14, NoWakeStep DEF memory

LEMMA EngagementDoneStep ==
    ASSUME IInv, NEW x \in Engagements, EngagementDone(x)
    PROVE  IInv'
<1> DEFINE Rec == [pc : {"idle", "put", "count", "done", "failed"},
                   run : Runs \union {None}, seq : Nat]
<1>0. TypeOK /\ engage \in [Engagements -> Rec] /\ seq \in Nat
  BY DEF IInv, TypeOK
<1>1. /\ UNCHANGED <<tables, runner, agents, heartbeats, seq, wake, reg, restarts>>
      /\ engage' = [engage EXCEPT ![x] = [engage[x] EXCEPT !.pc = "done"]]
      /\ metrics' = [metrics EXCEPT !.durable = metrics.durable + 1]
  BY DEF EngagementDone
<1>2. [engage[x] EXCEPT !.pc = "done"] \in Rec
  BY <1>0
<1>3. /\ engage' \in [Engagements -> Rec] /\ engage'[x].pc = "done"
      /\ \A y \in Engagements \ {x} : engage'[y] = engage[y]
  BY <1>0, <1>1, <1>2
<1>4. metrics' \in [total : Nat, failed : Nat, artifacts : Nat, durable : Nat]
  <2>1. metrics \in [total : Nat, failed : Nat, artifacts : Nat, durable : Nat]
    BY <1>0 DEF TypeOK
  <2>2. metrics.durable + 1 \in Nat
    BY <2>1
  <2> QED
    BY <1>1, <2>1, <2>2
<1>5. TypeOK'
  BY <1>0, <1>1, <1>3, <1>4 DEF TypeOK, tables
<1>6. EngagementControl' /\ SeqsInFlightDiffer'
  BY <1>1, <1>3 DEF IInv, EngagementControl, SeqsInFlightDiffer
<1>7. EventIdentity' /\ RegistrationControl'
  BY <1>1 DEF IInv, EventIdentity, RegistrationControl, tables
<1>8. seq <= seq'
  BY <1>0, <1>1
<1> QED
  BY <1>1, <1>5, <1>6, <1>7, <1>8, NoWakeStep DEF tables

\* A step of a registration touches the agents and their rows only.
LEMMA RegistrationStep ==
    ASSUME IInv, NEW g \in Registrations,
           UNCHANGED <<events, runStatus, taskStatus, records, runner, heartbeats,
                       metrics, seq, wake, engage, restarts>>,
           agents' \in Seq(AgentState),
           instances' \in [AgentIds ->
                             [status : {None, "idle", "running", "succeeded", "failed"},
                              count : Nat]],
           NEW p \in {"replace", "append", "persist", "done"},
           NEW a \in AgentState \union {NoAgent},
           p # "done" => a \in AgentState,
           reg' = [reg EXCEPT ![g] = [pc |-> p, agent |-> a]]
    PROVE  IInv'
<1> DEFINE Rec == [pc : {"idle", "replace", "append", "persist", "done"},
                   agent : AgentState \union {NoAgent}]
<1>0. TypeOK /\ reg \in [Registrations -> Rec] /\ seq \in Nat
  BY DEF IInv, TypeOK
<1>1. /\ reg' \in [Registrations -> Rec] /\ reg'[g] = [pc |-> p, agent |-> a]
      /\ \A h \in Registrations \ {g} : reg'[h] = reg[h]
  BY <1>0
<1>2. TypeOK'
  BY <1>0, <1>1 DEF TypeOK
<1>3. RegistrationControl'
  <2>1. reg'[g].pc = p /\ reg'[g].agent = a
    BY <1>1
  <2> QED
    BY <1>1, <2>1 DEF IInv, RegistrationControl
<1>4. EventIdentity' /\ EngagementControl' /\ SeqsInFlightDiffer'
  BY DEF IInv, EventIdentity, EngagementControl, SeqsInFlightDiffer
<1>5. seq <= seq'
  BY <1>0
<1> QED
  BY <1>2, <1>3, <1>4, <1>5, NoWakeStep

LEMMA RegisterReadStep ==
    ASSUME IInv, NEW g \in Registrations, NEW id \in AgentIds, RegisterRead(g, id)
    PROVE  IInv'
<1> DEFINE p == IF id \in IdsOf(agents) THEN "replace" ELSE "append"
           a == IF id \in IdsOf(agents) THEN FindAgent(agents, id)
                ELSE Agent(id, "idle", 0)
<1>1. agents \in Seq(AgentState)
  BY DEF IInv, TypeOK
<1>2. a \in AgentState
  <2>1. Agent(id, "idle", 0) \in AgentState
    BY DEF Agent, AgentState
  <2> QED
    BY <1>1, <2>1, FindAgentFinds
<1>3. /\ UNCHANGED <<tables, memory, wake, engage, restarts>>
      /\ reg' = [reg EXCEPT ![g] = [pc |-> p, agent |-> a]]
  BY DEF RegisterRead
<1>4. p \in {"replace", "append", "persist", "done"}
  OBVIOUS
<1>5. instances \in [AgentIds ->
                        [status : {None, "idle", "running", "succeeded", "failed"},
                         count : Nat]]
  BY DEF IInv, TypeOK
<1> HIDE DEF p, a
<1> QED
  BY <1>1, <1>2, <1>3, <1>4, <1>5, RegistrationStep DEF tables, memory

\* What a registration under way has in its record.
LEMMA RegistrationRecord ==
    ASSUME IInv, NEW g \in Registrations, NEW p \in {"persist", "done"},
           reg[g].pc \in {"replace", "append", "persist"},
           reg' = [reg EXCEPT ![g].pc = p]
    PROVE  /\ reg[g].agent \in AgentState
           /\ reg' = [reg EXCEPT ![g] = [pc |-> p, agent |-> reg[g].agent]]
<1>1. reg[g].agent \in AgentState
  BY DEF IInv, RegistrationControl
<1>2. reg[g] \in [pc : {"idle", "replace", "append", "persist", "done"},
                  agent : AgentState \union {NoAgent}]
  BY DEF IInv, TypeOK
<1>3. [reg[g] EXCEPT !.pc = p] = [pc |-> p, agent |-> reg[g].agent]
  BY <1>2
<1> QED
  BY <1>1, <1>3

LEMMA RegisterWriteStep ==
    ASSUME IInv, NEW g \in Registrations, RegisterWrite(g)
    PROVE  IInv'
<1> DEFINE new == reg[g].agent
<1>1. /\ UNCHANGED <<tables, runner, heartbeats, metrics, seq, wake, engage, restarts>>
      /\ reg[g].pc \in {"replace", "append", "persist"}
      /\ reg' = [reg EXCEPT ![g].pc = "persist"]
  BY DEF RegisterWrite
<1>2. /\ agents \in Seq(AgentState)
      /\ instances \in [AgentIds ->
                          [status : {None, "idle", "running", "succeeded", "failed"},
                           count : Nat]]
  BY DEF IInv, TypeOK
<1>3. /\ new \in AgentState
      /\ reg' = [reg EXCEPT ![g] = [pc |-> "persist", agent |-> new]]
  BY <1>1, RegistrationRecord
<1>4. agents' \in Seq(AgentState)
  <2>1. CASE reg[g].pc = "append"
    BY <1>2, <1>3, <2>1 DEF RegisterWrite
  <2>2. CASE reg[g].pc # "append"
    <3>1. agents' = [i \in DOMAIN agents |->
                       IF agents[i].id = new.id THEN new ELSE agents[i]]
      BY <2>2 DEF RegisterWrite, MapAgents
    <3>2. \A i \in DOMAIN agents : agents[i] \in AgentState
      BY <1>2
    <3>3. \A i \in DOMAIN agents : agents'[i] \in AgentState
      BY <1>3, <3>1, <3>2
    <3> QED
      BY <1>2, <3>1, <3>3, RewrittenList
  <2> QED
    BY <2>1, <2>2
<1> QED
  BY <1>1, <1>2, <1>3, <1>4, RegistrationStep DEF tables

LEMMA RegisterPersistStep ==
    ASSUME IInv, NEW g \in Registrations, RegisterPersist(g)
    PROVE  IInv'
<1> DEFINE new == reg[g].agent
           Row == [status : {None, "idle", "running", "succeeded", "failed"},
                   count : Nat]
<1>1. /\ UNCHANGED <<events, runStatus, taskStatus, records, memory, wake, engage,
                     restarts>>
      /\ reg[g].pc \in {"replace", "append", "persist"}
      /\ reg' = [reg EXCEPT ![g].pc = "done"]
      /\ instances' = [instances EXCEPT ![new.id] = [status |-> "idle",
                                                     count |-> new.count]]
  BY DEF RegisterPersist
<1>2. agents \in Seq(AgentState) /\ instances \in [AgentIds -> Row]
  BY DEF IInv, TypeOK
<1>3. /\ new \in AgentState
      /\ reg' = [reg EXCEPT ![g] = [pc |-> "done", agent |-> new]]
  BY <1>1, RegistrationRecord
<1>4. [status |-> "idle", count |-> new.count] \in Row
  BY <1>3 DEF AgentState
<1>5. instances' \in [AgentIds -> Row]
  BY <1>1, <1>2, <1>4
<1> QED
  BY <1>1, <1>2, <1>3, <1>5, RegistrationStep DEF memory

LEMMA RegisterFailsStep ==
    ASSUME IInv, NEW g \in Registrations, RegisterFails(g)
    PROVE  IInv'
<1>1. /\ UNCHANGED <<tables, memory, wake, engage, restarts>>
      /\ reg[g].pc \in {"replace", "append", "persist"}
      /\ reg' = [reg EXCEPT ![g].pc = "done"]
  BY DEF RegisterFails
<1>2. /\ agents \in Seq(AgentState)
      /\ instances \in [AgentIds ->
                          [status : {None, "idle", "running", "succeeded", "failed"},
                           count : Nat]]
  BY DEF IInv, TypeOK
<1>3. /\ reg[g].agent \in AgentState
      /\ reg' = [reg EXCEPT ![g] = [pc |-> "done", agent |-> reg[g].agent]]
  BY <1>1, RegistrationRecord
<1> QED
  BY <1>1, <1>2, <1>3, RegistrationStep DEF tables, memory

-----------------------------------------------------------------------------
(***************************************************************************)
(* The restart, the initial state and the theorems.                        *)
(***************************************************************************)
LEMMA DefaultInstancesType ==
    ASSUME NEW old \in [AgentIds ->
                          [status : {None, "idle", "running", "succeeded", "failed"},
                           count : Nat]]
    PROVE  DefaultInstances(old) \in
             [AgentIds -> [status : {None, "idle", "running", "succeeded", "failed"},
                           count : Nat]]
  BY DEF DefaultInstances

LEMMA RestartStep ==
    ASSUME IInv, Restart
    PROVE  IInv'
<1> DEFINE Rec == [pc : {"idle", "put", "count", "done", "failed"},
                   run : Runs \union {None}, seq : Nat]
           RegRec == [pc : {"idle", "replace", "append", "persist", "done"},
                      agent : AgentState \union {NoAgent}]
           RowSet == [AgentIds ->
                        [status : {None, "idle", "running", "succeeded", "failed"},
                         count : Nat]]
<1>0. /\ TypeOK /\ wake \in [Wakes -> WakeType] /\ engage \in [Engagements -> Rec]
      /\ reg \in [Registrations -> RegRec] /\ restarts \in Nat
      /\ instances \in RowSet
  BY DEF IInv, TypeOK
<1>1. /\ UNCHANGED <<events, runStatus, taskStatus, records>>
      /\ restarts' = restarts + 1 /\ runner' = "ready" /\ agents' = FreshAgents
      /\ heartbeats' = <<>> /\ metrics' = ZeroMetrics /\ seq' = 1
      /\ instances' = DefaultInstances(instances)
  BY DEF Restart
<1>2. \A w \in Wakes : \/ wake[w].pc \in Ended /\ wake'[w] = wake[w]
                       \/ wake'[w] = [wake[w] EXCEPT !.pc = "aborted"]
  BY DEF Restart
<1>3. ASSUME NEW w \in Wakes
      PROVE  /\ [wake[w] EXCEPT !.pc = "aborted"] \in WakeType
             /\ [wake[w] EXCEPT !.pc = "aborted"].pc = "aborted"
  <2>1. wake[w] \in WakeType
    BY <1>0
  <2> QED
    BY <2>1 DEF WakeType, Ended
<1>4. wake' \in [Wakes -> WakeType]
  <2>1. ASSUME NEW w \in Wakes PROVE wake'[w] \in WakeType
    <3>1. wake[w] \in WakeType /\ [wake[w] EXCEPT !.pc = "aborted"] \in WakeType
      BY <1>0, <1>3
    <3> QED
      BY <1>2, <3>1
  <2>2. wake' = [w \in Wakes |-> wake'[w]]
    BY DEF Restart
  <2> QED
    BY <2>1, <2>2
<1>5. \A x \in Engagements : \/ engage'[x] = [engage[x] EXCEPT !.pc = "failed"]
                             \/ engage'[x] = engage[x] /\ engage[x].pc # "put"
  BY DEF Restart
<1>6. engage' \in [Engagements -> Rec] /\ \A x \in Engagements : engage'[x].pc # "put"
  <2>1. \A x \in Engagements : engage'[x] \in Rec /\ engage'[x].pc # "put"
    BY <1>0, <1>5
  <2>2. engage' = [x \in Engagements |-> engage'[x]]
    BY DEF Restart
  <2> QED
    BY <2>1, <2>2
<1>7. \A g \in Registrations : \/ reg'[g] = reg[g] /\ reg[g].pc = "idle"
                               \/ reg'[g] = [reg[g] EXCEPT !.pc = "done"]
  BY DEF Restart
<1>8. /\ reg' \in [Registrations -> RegRec]
      /\ \A g \in Registrations : reg'[g].pc \in {"idle", "done"}
  <2>1. ASSUME NEW g \in Registrations
        PROVE  reg'[g] \in RegRec /\ reg'[g].pc \in {"idle", "done"}
    <3>1. reg[g] \in RegRec
      BY <1>0
    <3>2. CASE reg'[g] = reg[g] /\ reg[g].pc = "idle"
      BY <3>1, <3>2
    <3>3. CASE reg'[g] = [reg[g] EXCEPT !.pc = "done"]
      BY <3>1, <3>3
    <3> QED
      BY <1>7, <3>2, <3>3
  <2>2. reg' = [g \in Registrations |-> reg'[g]]
    BY DEF Restart
  <2> QED
    BY <2>1, <2>2
<1>9. TypeOK'
  <2>1. instances' \in RowSet
    BY <1>0, <1>1, DefaultInstancesType
  <2>2. metrics' \in [total : Nat, failed : Nat, artifacts : Nat, durable : Nat]
    BY <1>1 DEF ZeroMetrics
  <2>3. heartbeats' \in Seq([wake : Wakes, agent : AgentIds, failed : BOOLEAN])
    BY <1>1
  <2>4. restarts' \in Nat /\ seq' \in Nat /\ agents' \in Seq(AgentState)
    BY <1>0, <1>1, FreshAgentsType
  <2> QED
    BY <1>0, <1>1, <1>4, <1>6, <1>8, <2>1, <2>2, <2>3, <2>4 DEF TypeOK
<1>10. \A w \in Wakes : wake'[w].pc \in Ended
  BY <1>2, <1>3 DEF Ended
<1>11. ASSUME NEW w \in Wakes PROVE WakeFacts(w)'
  <2>1. WakeFacts(w) /\ wake[w] \in WakeType /\ events \subseteq Event
        /\ wake[w].seq \in Nat
    BY <1>0 DEF IInv, TypeOK, WakeType
  <2>2. CASE wake[w].pc \in Ended /\ wake'[w] = wake[w]
    <3>1. wake[w].pc \notin Active
      BY <2>2 DEF Ended, Active
    <3> QED
      BY <1>1, <2>1, <2>2, <3>1, WakeFactsKept
  <2>3. CASE wake'[w] = [wake[w] EXCEPT !.pc = "aborted"]
    BY <1>1, <2>1, <2>3, WakeFactsAtEnd
  <2> QED
    BY <1>2, <2>2, <2>3
<1>12. EngagementControl' /\ RegistrationControl' /\ SeqsInFlightDiffer'
  BY <1>6, <1>8, <1>10 DEF EngagementControl, RegistrationControl, SeqsInFlightDiffer,
                           Ended
<1>13. EventIdentity' /\ StatusBacked'
  BY <1>1 DEF IInv, EventIdentity, StatusBacked
<1>14. HeartbeatEvidence'
  BY <1>1 DEF HeartbeatEvidence
<1> QED
  BY <1>9, <1>11, <1>12, <1>13, <1>14 DEF IInv

LEMMA InitialFacts == Init => IInv
<1> SUFFICES ASSUME Init PROVE IInv
  OBVIOUS
<1> USE DEF Init, Queued
<1>1. TypeOK
  <2>1. events \subseteq Event
    BY DEF Event, Statuses, Kinds
  <2>2. IdleWake \in WakeType
    BY DEF IdleWake, WakeType, Ended, Kinds
  <2>3. instances \in [AgentIds ->
                        [status : {None, "idle", "running", "succeeded", "failed"},
                         count : Nat]]
    BY DefaultInstancesType DEF NoInstance
  <2>4. /\ runStatus \in [Runs -> Statuses] /\ taskStatus \in [Runs -> Statuses]
        /\ records \subseteq Runs \X (AgentIds \union ArtifactIds)
        /\ runner \in {"ready", "running"} /\ agents \in Seq(AgentState)
    BY FreshAgentsType DEF Statuses
  <2>5. /\ heartbeats \in Seq([wake : Wakes, agent : AgentIds, failed : BOOLEAN])
        /\ metrics \in [total : Nat, failed : Nat, artifacts : Nat, durable : Nat]
        /\ seq \in Nat /\ restarts \in Nat
    BY DEF ZeroMetrics
  <2>6. /\ wake \in [Wakes -> WakeType]
        /\ engage \in [Engagements ->
                        [pc : {"idle", "put", "count", "done", "failed"},
                         run : Runs \union {None}, seq : Nat]]
        /\ reg \in [Registrations ->
                     [pc : {"idle", "replace", "append", "persist", "done"},
                      agent : AgentState \union {NoAgent}]]
    BY <2>2
  <2> QED
    BY <2>1, <2>3, <2>4, <2>5, <2>6 DEF TypeOK
<1>2. ASSUME NEW w \in Wakes PROVE WakeFacts(w)
  <2>1. wake[w].pc = "idle" /\ wake[w].kind = "planning" /\ wake[w].todo = {}
    BY DEF IdleWake
  <2>2. \A e \in events : e.by # w
    BY ConstantsAssumption
  <2> QED
    BY <2>1, <2>2
    DEF WakeFacts, ControlOf, NumbersOf, TodoOf, EvidenceOf, Active, Emitting,
        PastAdapter, PastRecord, PastArtifact, PastResponse
<1>3. EngagementControl /\ RegistrationControl /\ SeqsInFlightDiffer
  BY DEF EngagementControl, RegistrationControl, SeqsInFlightDiffer, IdleWake
<1>4. EventIdentity
  BY DEF EventIdentity
<1>5. StatusBacked
  <2>1. ASSUME NEW r \in Runs
        PROVE  \E e \in events : e.run = r /\ e.status = "queued"
    <3> DEFINE ev == [run |-> r, seq |-> 1, kind |-> "queued", status |-> "queued",
                      by |-> "control-api", agent |-> None]
    <3>1. ev \in events /\ ev.run = r /\ ev.status = "queued"
      OBVIOUS
    <3> QED
      BY <3>1
  <2>2. \A r \in Runs : runStatus[r] = "queued" /\ taskStatus[r] = "queued"
    OBVIOUS
  <2> QED
    BY <2>1, <2>2 DEF StatusBacked
<1>6. HeartbeatEvidence
  BY DEF HeartbeatEvidence
<1> QED
  BY <1>1, <1>2, <1>3, <1>4, <1>5, <1>6 DEF IInv

LEMMA StutteringStep == IInv /\ UNCHANGED vars => IInv'
<1> SUFFICES ASSUME IInv, UNCHANGED vars PROVE IInv'
  OBVIOUS
<1>1. TypeOK'
  BY DEF IInv, TypeOK, vars, tables, memory
<1>2. seq <= seq'
  BY DEF IInv, TypeOK, vars, memory
<1>3. /\ EngagementControl' /\ RegistrationControl' /\ SeqsInFlightDiffer'
      /\ EventIdentity'
  BY DEF IInv, EngagementControl, RegistrationControl, SeqsInFlightDiffer,
         EventIdentity, vars, tables, memory
<1> QED
  BY <1>1, <1>2, <1>3, NoWakeStep DEF vars, tables, memory

LEMMA InductiveStep == IInv /\ [Next]_vars => IInv'
<1> SUFFICES ASSUME IInv, [Next]_vars PROVE IInv'
  OBVIOUS
<1>1. ASSUME NEW w \in Wakes, NEW target \in AgentIds \union {"all"}, Accept(w, target)
      PROVE  IInv'
  BY <1>1, AcceptStep
<1>2. ASSUME NEW w \in Wakes, Wake(w)
      PROVE  IInv'
  BY <1>2, MarkInstancesStep, EmitStep, PutEventStep, UpdateRunStatusStep,
     UpdateTaskStatusStep, EmittedStep, RunAdapterStep, PutActionRecordStep,
     PutHeartbeatRecordStep, RecordHeartbeatStep, PersistInstanceStep
  DEF Wake
<1>3. ASSUME NEW w \in Wakes, WakeFails(w)
      PROVE  IInv'
  BY <1>3, GivenUpStep DEF WakeFails
<1>4. ASSUME NEW x \in Engagements, NEW r \in Runs, NEW hasTask \in BOOLEAN,
             Engage(x, r, hasTask)
      PROVE  IInv'
  BY <1>4, EngageStep
<1>5. ASSUME NEW x \in Engagements, Engagement(x)
      PROVE  IInv'
  BY <1>5, PutEngagementStep, EngagementDoneStep DEF Engagement
<1>6. ASSUME NEW g \in Registrations, NEW id \in AgentIds, RegisterRead(g, id)
      PROVE  IInv'
  BY <1>6, RegisterReadStep
<1>7. ASSUME NEW g \in Registrations, Registration(g) \/ RegisterFails(g)
      PROVE  IInv'
  BY <1>7, RegisterWriteStep, RegisterPersistStep, RegisterFailsStep DEF Registration
<1>8. CASE Restart
  BY <1>8, RestartStep
<1>9. CASE Quiescent \/ UNCHANGED vars
  BY <1>9, StutteringStep DEF Quiescent
<1> QED
  BY <1>1, <1>2, <1>3, <1>4, <1>5, <1>6, <1>7, <1>8, <1>9 DEF Next

\* The inductive invariant holds in every reachable state: what a wake's control
\* state implies about its numbers, its open status updates and its evidence
\* (resident-runner.ts:379-495 and 835-854).
THEOREM Invariance == Spec => []IInv
<1>1. Init => IInv
  BY InitialFacts
<1>2. IInv /\ [Next]_vars => IInv'
  BY InductiveStep
<1> QED
  BY <1>1, <1>2, PTL DEF Spec

\* However many wakes, engagements and restarts share a log and whatever aborts
\* in between, a position of a run's log is never written twice, and emissions in
\* flight never share a number (dynamo-event-sink.ts:26-32, resident-runner.ts:914-917).
THEOREM LogCorrect == Spec => []LogSound
<1>1. IInv => LogSound
  BY DEF IInv, LogSound
<1> QED
  BY <1>1, Invariance, PTL

\* A status in the run row or the task row always has its event in the log
\* (resident-runner.ts:838-845).
THEOREM StatusCorrect == Spec => []StatusBacked
<1>1. IInv => StatusBacked
  BY DEF IInv
<1> QED
  BY <1>1, Invariance, PTL

\* A heartbeat that the process reports left its artifact row and its events, in
\* order (resident-runner.ts:417-470).
THEOREM EvidenceCorrect == Spec => []HeartbeatEvidence
<1>1. IInv => HeartbeatEvidence
  BY DEF IInv
<1> QED
  BY <1>1, Invariance, PTL

-----------------------------------------------------------------------------
(***************************************************************************)
(* What a wake leaves behind.  IInv relates one heartbeat to its evidence; *)
(* the outcome of a wake needs what it remembers of all its heartbeats:    *)
(* which selected agents are still to come, and whether one failed.        *)
(***************************************************************************)
Responded(w, a) == Told(w, a, "response") # {}

Broke(w) == \E e \in events : e.by = w /\ e.kind = "broken"

FinalStatus(bad) == IF bad THEN "failed" ELSE "succeeded"

\* The last event of the wake is its final status.
FinalTold(w, bad) ==
    \E f \in events :
        /\ f.by = w /\ f.kind = "final" /\ f.status = FinalStatus(bad)
        /\ \A e \in events \ {f} : e.by = w => e.seq < f.seq

\* The failure of the heartbeat under way is in the log.
Past(me) ==
    \/ me.pc = "put done" /\ me.kind = "broken"
    \/ me.pc \in {"emit", "put", "put done"} /\ me.kind \in {"action", "artifact", "response"}
    \/ me.pc \in {"action record", "record", "heartbeat"}

AtEnd(me) == me.pc = "done" \/ (me.pc = "put done" /\ me.kind = "final")

\* No other wake of the run ever wrote one of its status columns.
Alone(w) ==
    \A v \in Wakes \ {w} : WakeRun[v] = WakeRun[w] => wake[v].pc \in {"idle", "rejected"}

Lively == Active \union {"done"}

\* The wake w, were its record "me".
Flags(me) ==
    /\ me.pc = "idle" => ~me.bad
    /\ me.pc = "done" => me.kind = "final" /\ me.todo = {}
    /\ me.pc = "adapter" => me.kind = "running"
    /\ me.pc \in Active /\ me.kind = "broken" => ~me.ok
    /\ me.pc \in Lively /\ me.kind = "final" => me.rest = <<>>
Memory(w, me) ==
    me.pc \in Lively =>
        /\ \A a \in me.chosen : a \in IdsOf(me.rest) \/ Responded(w, a)
        /\ Broke(w) <=> me.bad \/ (Past(me) /\ ~me.ok)
        /\ me.pc = "instance" => Responded(w, Head(me.rest).id)
Stored(w, me) ==
    AtEnd(me) =>
        /\ FinalTold(w, me.bad)
        /\ Alone(w) /\ "run" \notin me.todo => runStatus[WakeRun[w]] = FinalStatus(me.bad)
        /\ Alone(w) /\ "task" \notin me.todo => taskStatus[WakeRun[w]] = FinalStatus(me.bad)

Outcome(w, me) == Flags(me) /\ Memory(w, me) /\ Stored(w, me)

OutcomesKnown == \A w \in Wakes : Outcome(w, wake[w])

\* The agents are listed once, and one that is about to be added is not there yet.
Listed ==
    /\ \A i, j \in DOMAIN agents : agents[i].id = agents[j].id => i = j
    /\ \A g \in Registrations : reg[g].pc = "append" => reg[g].agent.id \notin IdsOf(agents)


-----------------------------------------------------------------------------
\* Frame lemmas.  A wake's own events decide what it told.
LEMMA SameStory ==
    ASSUME NEW w, events \subseteq events', \A e \in events' \ events : e.by # w
    PROVE  /\ \A a : Responded(w, a)' <=> Responded(w, a)
           /\ Broke(w)' <=> Broke(w)
           /\ \A bad : FinalTold(w, bad)' <=> FinalTold(w, bad)
<1>1. \A e \in events' : e.by = w => e \in events
  OBVIOUS
<1>2. \A a : Told(w, a, "response")' = Told(w, a, "response")
  BY <1>1 DEF Told
<1>3. Broke(w)' <=> Broke(w)
  BY <1>1 DEF Broke
<1>4. ASSUME NEW bad
      PROVE  FinalTold(w, bad)' <=> FinalTold(w, bad)
  BY <1>1 DEF FinalTold
<1> QED
  BY <1>2, <1>3, <1>4 DEF Responded

\* The outcome of a wake whose record is as it was, and which put no event.
LEMMA OutcomeKept ==
    ASSUME NEW w \in Wakes, Outcome(w, wake[w]), wake'[w] = wake[w],
           events \subseteq events', \A e \in events' \ events : e.by # w,
           Alone(w)' => /\ Alone(w)
                        /\ runStatus'[WakeRun[w]] = runStatus[WakeRun[w]]
                        /\ taskStatus'[WakeRun[w]] = taskStatus[WakeRun[w]]
    PROVE  Outcome(w, wake[w])'
<1>1. Flags(wake[w])'
  BY DEF Outcome, Flags
<1>2. Memory(w, wake[w])'
  BY SameStory DEF Outcome, Memory, Past
<1>3. Stored(w, wake[w])'
  BY SameStory DEF Outcome, Stored, AtEnd
<1> QED
  BY <1>1, <1>2, <1>3 DEF Outcome

\* A step of one wake leaves the outcome of the others alone: a status it writes is
\* of its own run, whose other wakes are then not alone.
LEMMA OutcomeStep ==
    ASSUME OutcomesKnown, NEW w \in Wakes,
           \A v \in Wakes \ {w} : wake'[v] = wake[v],
           wake'[w].pc \in {"idle", "rejected"} =>
             wake[w].pc \in {"idle", "rejected"} /\ UNCHANGED <<runStatus, taskStatus>>,
           events \subseteq events', \A e \in events' \ events : e.by = w,
           \A r \in Runs \ {WakeRun[w]} :
             runStatus'[r] = runStatus[r] /\ taskStatus'[r] = taskStatus[r],
           Outcome(w, wake[w])'
    PROVE  OutcomesKnown'
<1> SUFFICES ASSUME NEW v \in Wakes \ {w}
             PROVE  Outcome(v, wake[v])'
  BY DEF OutcomesKnown
<1>1. WakeRun[v] \in Runs
  BY ConstantsAssumption
<1>2. ASSUME Alone(v)'
      PROVE  /\ Alone(v)
             /\ runStatus'[WakeRun[v]] = runStatus[WakeRun[v]]
             /\ taskStatus'[WakeRun[v]] = taskStatus[WakeRun[v]]
  <2>1. \A u \in Wakes \ {v} :
           WakeRun[u] = WakeRun[v] => wake'[u].pc \in {"idle", "rejected"}
    BY <1>2 DEF Alone
  <2>2. Alone(v)
    BY <2>1 DEF Alone
  <2>3. CASE WakeRun[v] = WakeRun[w]
    <3>1. UNCHANGED <<runStatus, taskStatus>>
      BY <2>1, <2>3
    <3> QED
      BY <2>2, <3>1
  <2> QED
    BY <1>1, <2>2, <2>3
<1> QED
  BY <1>2, OutcomeKept DEF OutcomesKnown

\* A step of one wake that puts no event and writes no status.
LEMMA QuietOutcome ==
    ASSUME OutcomesKnown, NEW w \in Wakes, NEW to, wake'[w] = to,
           \A v \in Wakes \ {w} : wake'[v] = wake[v],
           to.pc # "idle", to.pc = "rejected" => wake[w].pc = "idle",
           UNCHANGED <<events, runStatus, taskStatus>>, Outcome(w, to)
    PROVE  OutcomesKnown'
<1>1. Alone(w)' <=> Alone(w)
  BY DEF Alone
<1>2. Flags(wake[w])'
  BY DEF Outcome, Flags
<1>3. Memory(w, wake[w])'
  BY SameStory DEF Outcome, Memory, Past
<1>4. Stored(w, wake[w])'
  BY <1>1, SameStory DEF Outcome, Stored, AtEnd
<1> QED
  BY <1>2, <1>3, <1>4, OutcomeStep DEF Outcome

\* A wake that is given up, or never started, has nothing left to show.
LEMMA NothingToShow ==
    ASSUME NEW w, NEW to, to.pc \in {"rejected", "aborted"}
    PROVE  Outcome(w, to)
  BY DEF Outcome, Flags, Memory, Stored, AtEnd, Lively, Active

\* A step that is no wake's.
LEMMA NoWakeOutcome ==
    ASSUME OutcomesKnown, wake' = wake, UNCHANGED <<runStatus, taskStatus>>,
           events \subseteq events', \A w \in Wakes, e \in events' \ events : e.by # w
    PROVE  OutcomesKnown'
<1> SUFFICES ASSUME NEW w \in Wakes
             PROVE  Outcome(w, wake[w])'
  BY DEF OutcomesKnown
<1>1. Alone(w)' <=> Alone(w)
  BY DEF Alone
<1> QED
  BY <1>1, OutcomeKept DEF OutcomesKnown

\* The record a step gives a wake, and the wakes it leaves alone.
LEMMA Moves ==
    ASSUME IInv, NEW w \in Wakes, NEW to, wake' = [wake EXCEPT ![w] = to]
    PROVE  /\ wake'[w] = to /\ wake[w] \in WakeType
           /\ \A v \in Wakes \ {w} : wake'[v] = wake[v]
  BY DEF IInv, TypeOK

LEMMA GivenUpOutcome ==
    ASSUME IInv, OutcomesKnown, NEW w \in Wakes,
           wake' = [wake EXCEPT ![w].pc = "aborted"],
           UNCHANGED <<events, runStatus, taskStatus>>
    PROVE  OutcomesKnown'
<1> DEFINE to == [wake[w] EXCEPT !.pc = "aborted"]
<1>1. /\ wake'[w] = to /\ wake[w] \in WakeType
      /\ \A v \in Wakes \ {w} : wake'[v] = wake[v]
  BY Moves
<1>2. to.pc = "aborted"
  BY <1>1 DEF WakeType
<1> HIDE DEF to
<1> QED
  BY <1>1, <1>2, NothingToShow, QuietOutcome

LEMMA AcceptOutcome ==
    ASSUME IInv, OutcomesKnown, NEW w \in Wakes, NEW target, Accept(w, target)
    PROVE  OutcomesKnown'
<1> DEFINE chosen == Selected(target)
           out == [wake[w] EXCEPT !.pc = "rejected"]
           to == [wake[w] EXCEPT !.pc = "mark", !.rest = chosen, !.chosen = IdsOf(chosen)]
<1>1. /\ wake[w].pc = "idle" /\ UNCHANGED <<events, runStatus, taskStatus>>
      /\ wake[w] \in WakeType /\ Outcome(w, wake[w]) /\ WakeFacts(w)
  BY DEF Accept, IInv, TypeOK, OutcomesKnown, tables
<1>2. CASE wake' = [wake EXCEPT ![w] = out]
  <2>1. /\ wake'[w] = out /\ \A v \in Wakes \ {w} : wake'[v] = wake[v]
    BY <1>2, Moves
  <2>2. out.pc = "rejected"
    BY <1>1 DEF WakeType
  <2> HIDE DEF out
  <2> QED
    BY <1>1, <2>1, <2>2, NothingToShow, QuietOutcome
<1>3. CASE wake' = [wake EXCEPT ![w] = to]
  <2>1. /\ wake'[w] = to /\ \A v \in Wakes \ {w} : wake'[v] = wake[v]
    BY <1>3, Moves
  <2>2. /\ to.pc = "mark" /\ to.kind = "planning" /\ ~to.bad
        /\ to.rest = chosen /\ to.chosen = IdsOf(chosen)
    BY <1>1 DEF WakeType, WakeFacts, ControlOf, Outcome, Flags
  <2>3. ~Broke(w)
    BY <1>1 DEF Broke, WakeFacts, NumbersOf
  <2> HIDE DEF to, chosen
  <2>4. Outcome(w, to)
    BY <2>2, <2>3 DEF Outcome, Flags, Memory, Stored, AtEnd, Lively, Active, Past
  <2> QED
    BY <1>1, <2>1, <2>2, <2>4, QuietOutcome
<1>4. \/ wake' = [wake EXCEPT ![w] = out]
      \/ wake' = [wake EXCEPT ![w] = to]
  BY DEF Accept
<1> QED
  BY <1>2, <1>3, <1>4


LEMMA MarkInstancesOutcome ==
    ASSUME IInv, OutcomesKnown, NEW w \in Wakes, MarkInstances(w)
    PROVE  OutcomesKnown'
<1> DEFINE to == [wake[w] EXCEPT !.pc = "emit"]
<1>1. /\ wake[w].pc = "mark" /\ UNCHANGED <<events, runStatus, taskStatus>>
      /\ Outcome(w, wake[w]) /\ WakeFacts(w) /\ wake' = [wake EXCEPT ![w] = to]
  BY DEF MarkInstances, IInv, OutcomesKnown
<1>2. /\ wake'[w] = to /\ wake[w] \in WakeType
      /\ \A v \in Wakes \ {w} : wake'[v] = wake[v]
  BY <1>1, Moves
<1>3. /\ to.pc = "emit" /\ to.kind = "planning" /\ to.bad = wake[w].bad
      /\ to.rest = wake[w].rest /\ to.chosen = wake[w].chosen
  BY <1>1, <1>2 DEF WakeType, WakeFacts, ControlOf
<1> HIDE DEF to
<1>4. Outcome(w, to)
  BY <1>1, <1>3 DEF Outcome, Flags, Memory, Stored, AtEnd, Lively, Active, Past
<1> QED
  BY <1>1, <1>2, <1>3, <1>4, QuietOutcome

LEMMA EmitOutcome ==
    ASSUME IInv, OutcomesKnown, NEW w \in Wakes, Emit(w)
    PROVE  OutcomesKnown'
<1> DEFINE to == [wake[w] EXCEPT !.pc = "put", !.seq = seq + 1]
<1>1. /\ wake[w].pc = "emit" /\ UNCHANGED <<events, runStatus, taskStatus>>
      /\ Outcome(w, wake[w]) /\ wake' = [wake EXCEPT ![w] = to]
  BY DEF Emit, OutcomesKnown, tables
<1>2. /\ wake'[w] = to /\ wake[w] \in WakeType
      /\ \A v \in Wakes \ {w} : wake'[v] = wake[v]
  BY <1>1, Moves
<1>3. /\ to.pc = "put" /\ to.kind = wake[w].kind /\ to.bad = wake[w].bad
      /\ to.rest = wake[w].rest /\ to.chosen = wake[w].chosen /\ to.ok = wake[w].ok
  BY <1>2 DEF WakeType
<1> HIDE DEF to
<1>4. Outcome(w, to)
  BY <1>1, <1>3 DEF Outcome, Flags, Memory, Stored, AtEnd, Lively, Active, Past
<1> QED
  BY <1>1, <1>2, <1>3, <1>4, QuietOutcome

\* The event that is put is a response of the agent under way, the failure of its
\* adapter, the wake's last word, or changes nothing of what the wake told so far.
LEMMA PutEventOutcome ==
    ASSUME IInv, OutcomesKnown, NEW w \in Wakes, PutEvent(w)
    PROVE  OutcomesKnown'
<1> DEFINE status == StatusOf(w, wake[w].kind)
           ev == [run |-> WakeRun[w], seq |-> wake[w].seq, kind |-> wake[w].kind,
                  status |-> status, by |-> w, agent |-> AgentOf(w)]
           todo == IF status = None THEN {} ELSE {"run", "task"}
           to == [wake[w] EXCEPT !.pc = "put done", !.todo = todo]
<1>1. /\ wake[w].pc = "put" /\ UNCHANGED <<runStatus, taskStatus>>
      /\ Outcome(w, wake[w]) /\ WakeFacts(w) /\ wake[w].kind \in Kinds
      /\ wake[w] \in WakeType
  BY DEF PutEvent, IInv, OutcomesKnown, TypeOK, WakeType
<1>2. CASE wake' = [wake EXCEPT ![w].pc = "aborted"] /\ UNCHANGED events
  BY <1>1, <1>2, GivenUpOutcome
<1>3. CASE events' = events \union {ev} /\ wake' = [wake EXCEPT ![w] = to]
  <2>1. /\ wake'[w] = to /\ \A v \in Wakes \ {w} : wake'[v] = wake[v]
    BY <1>3, Moves
  <2>2. /\ to.pc = "put done" /\ to.kind = wake[w].kind /\ to.bad = wake[w].bad
        /\ to.rest = wake[w].rest /\ to.chosen = wake[w].chosen /\ to.ok = wake[w].ok
        /\ to.todo = todo
    BY <1>1 DEF WakeType
  <2>3. /\ ev.by = w /\ ev.kind = wake[w].kind /\ ev.status = status
        /\ ev.seq = wake[w].seq /\ ev.agent = AgentOf(w)
    OBVIOUS
  <2>4. wake[w].kind = "final" =>
          status = FinalStatus(wake[w].bad) /\ todo = {"run", "task"}
    BY DEF StatusOf, FinalStatus, None
  <2> HIDE DEF to, ev, todo, status
  <2>5. \A e \in events : e.by = w => e.seq < ev.seq
    BY <1>1, <2>3 DEF WakeFacts, NumbersOf
  <2>6. Flags(wake[w])'
    BY <1>1, <2>1, <2>2 DEF Outcome, Flags, Lively, Active
  <2>7. \A a : Responded(w, a) => Responded(w, a)'
    <3>1. \A a : Told(w, a, "response") \subseteq Told(w, a, "response")'
      BY <1>3, ToldGrows
    <3> QED
      BY <3>1 DEF Responded
  <2>8. Broke(w)' <=> Broke(w) \/ wake[w].kind = "broken"
    BY <1>3, <2>3 DEF Broke
  <2>9. Broke(w)' <=> wake'[w].bad \/ (Past(wake[w])' /\ ~wake'[w].ok)
    BY <1>1, <2>1, <2>2, <2>8 DEF Outcome, Flags, Memory, Past, Lively, Active
  <2>10. Memory(w, wake[w])'
    BY <1>1, <2>1, <2>2, <2>7, <2>9 DEF Outcome, Memory, Lively, Active, Past
  <2>11. ASSUME wake[w].kind = "final"
         PROVE  FinalTold(w, wake[w].bad)'
    <3>1. /\ ev \in events' /\ ev.by = w /\ ev.kind = "final"
          /\ ev.status = FinalStatus(wake'[w].bad)
      BY <1>3, <2>1, <2>2, <2>3, <2>4, <2>11
    <3>2. \A e \in events' \ {ev} : e.by = w => e.seq < ev.seq
      BY <1>3, <2>5
    <3> QED
      BY <3>1, <3>2 DEF FinalTold, FinalStatus
  <2>12. Stored(w, wake[w])'
    BY <2>1, <2>2, <2>4, <2>11 DEF Stored, AtEnd
  <2>13. Outcome(w, wake[w])'
    BY <2>6, <2>10, <2>12 DEF Outcome
  <2> QED
    BY <1>1, <1>3, <2>1, <2>2, <2>3, <2>13, OutcomeStep
<1> QED
  BY <1>2, <1>3 DEF PutEvent

\* A status update takes its column off the list and writes the final status when
\* the wake is at its end.
LEMMA UpdateRunStatusOutcome ==
    ASSUME IInv, OutcomesKnown, NEW w \in Wakes, UpdateRunStatus(w)
    PROVE  OutcomesKnown'
<1> DEFINE to == [wake[w] EXCEPT !.todo = @ \ {"run"}]
<1>1. /\ wake[w].pc \in {"put done", "aborted"} /\ UNCHANGED <<events, taskStatus>>
      /\ Outcome(w, wake[w]) /\ wake' = [wake EXCEPT ![w] = to]
      /\ runStatus' = [runStatus EXCEPT ![WakeRun[w]] = StatusOf(w, wake[w].kind)]
      /\ runStatus \in [Runs -> Statuses] /\ WakeRun[w] \in Runs
  BY ConstantsAssumption DEF UpdateRunStatus, IInv, OutcomesKnown, TypeOK
<1>2. /\ wake'[w] = to /\ wake[w] \in WakeType
      /\ \A v \in Wakes \ {w} : wake'[v] = wake[v]
  BY <1>1, Moves
<1>3. /\ to.pc = wake[w].pc /\ to.kind = wake[w].kind /\ to.bad = wake[w].bad
      /\ to.rest = wake[w].rest /\ to.chosen = wake[w].chosen /\ to.ok = wake[w].ok
      /\ to.todo = wake[w].todo \ {"run"}
  BY <1>2 DEF WakeType
<1> HIDE DEF to
<1>4. /\ runStatus'[WakeRun[w]] = StatusOf(w, wake[w].kind)
      /\ \A r \in Runs \ {WakeRun[w]} : runStatus'[r] = runStatus[r]
  BY <1>1
<1>5. wake[w].kind = "final" => StatusOf(w, wake[w].kind) = FinalStatus(wake[w].bad)
  BY DEF StatusOf, FinalStatus
<1>6. Alone(w)' <=> Alone(w)
  BY <1>2 DEF Alone
<1>7. Outcome(w, wake[w])'
  <2>1. Flags(wake[w])'
    BY <1>1, <1>2, <1>3 DEF Outcome, Flags, Lively, Active
  <2>2. Memory(w, wake[w])'
    BY <1>1, <1>2, <1>3, SameStory DEF Outcome, Memory, Past
  <2>3. Stored(w, wake[w])'
    BY <1>1, <1>2, <1>3, <1>4, <1>5, <1>6, SameStory DEF Outcome, Stored, AtEnd
  <2> QED
    BY <2>1, <2>2, <2>3 DEF Outcome
<1> QED
  BY <1>1, <1>2, <1>3, <1>4, <1>7, OutcomeStep

LEMMA UpdateTaskStatusOutcome ==
    ASSUME IInv, OutcomesKnown, NEW w \in Wakes, UpdateTaskStatus(w)
    PROVE  OutcomesKnown'
<1> DEFINE to == [wake[w] EXCEPT !.todo = @ \ {"task"}]
<1>1. /\ wake[w].pc \in {"put done", "aborted"} /\ UNCHANGED <<events, runStatus>>
      /\ Outcome(w, wake[w]) /\ wake' = [wake EXCEPT ![w] = to]
      /\ taskStatus' = [taskStatus EXCEPT ![WakeRun[w]] = StatusOf(w, wake[w].kind)]
      /\ taskStatus \in [Runs -> Statuses] /\ WakeRun[w] \in Runs
  BY ConstantsAssumption DEF UpdateTaskStatus, IInv, OutcomesKnown, TypeOK
<1>2. /\ wake'[w] = to /\ wake[w] \in WakeType
      /\ \A v \in Wakes \ {w} : wake'[v] = wake[v]
  BY <1>1, Moves
<1>3. /\ to.pc = wake[w].pc /\ to.kind = wake[w].kind /\ to.bad = wake[w].bad
      /\ to.rest = wake[w].rest /\ to.chosen = wake[w].chosen /\ to.ok = wake[w].ok
      /\ to.todo = wake[w].todo \ {"task"}
  BY <1>2 DEF WakeType
<1> HIDE DEF to
<1>4. /\ taskStatus'[WakeRun[w]] = StatusOf(w, wake[w].kind)
      /\ \A r \in Runs \ {WakeRun[w]} : taskStatus'[r] = taskStatus[r]
  BY <1>1
<1>5. wake[w].kind = "final" => StatusOf(w, wake[w].kind) = FinalStatus(wake[w].bad)
  BY DEF StatusOf, FinalStatus
<1>6. Alone(w)' <=> Alone(w)
  BY <1>2 DEF Alone
<1>7. Outcome(w, wake[w])'
  <2>1. Flags(wake[w])'
    BY <1>1, <1>2, <1>3 DEF Outcome, Flags, Lively, Active
  <2>2. Memory(w, wake[w])'
    BY <1>1, <1>2, <1>3, SameStory DEF Outcome, Memory, Past
  <2>3. Stored(w, wake[w])'
    BY <1>1, <1>2, <1>3, <1>4, <1>5, <1>6, SameStory DEF Outcome, Stored, AtEnd
  <2> QED
    BY <2>1, <2>2, <2>3 DEF Outcome
<1> QED
  BY <1>1, <1>2, <1>3, <1>4, <1>7, OutcomeStep


LEMMA EmittedOutcome ==
    ASSUME IInv, OutcomesKnown, NEW w \in Wakes, Emitted(w)
    PROVE  OutcomesKnown'
<1> DEFINE to == AfterEmission(w)
<1>1. /\ wake[w].pc = "put done" /\ wake[w].todo = {}
      /\ UNCHANGED <<events, runStatus, taskStatus>>
      /\ wake' = [wake EXCEPT ![w] = to] /\ Outcome(w, wake[w]) /\ wake[w].kind \in Kinds
  BY DEF Emitted, OutcomesKnown, tables, IInv, TypeOK, WakeType
<1>2. /\ wake'[w] = to /\ wake[w] \in WakeType
      /\ \A v \in Wakes \ {w} : wake'[v] = wake[v]
  BY <1>1, Moves
<1>3. PICK p \in Active \union {"done"}, k \in Kinds :
        /\ to = [wake[w] EXCEPT !.pc = p, !.kind = k]
        /\ \/ wake[w].kind \in {"planning", "running"} /\ p \in {"emit", "adapter"} /\ k = "running"
           \/ wake[w].kind = "broken" /\ p = "emit" /\ k = "action"
           \/ wake[w].kind = "broken" /\ p = "record" /\ k = "broken"
           \/ wake[w].kind = "action" /\ p \in {"record", "action record"} /\ k = "action"
           \/ wake[w].kind = "artifact" /\ p = "emit" /\ k = "response"
           \/ wake[w].kind = "response" /\ p = "heartbeat" /\ k = "response"
           \/ wake[w].kind = "final" /\ p = "done" /\ k = "final"
  <2>1. \A p \in {"adapter", "record", "action record", "heartbeat", "done"} :
          [wake[w] EXCEPT !.pc = p] = [wake[w] EXCEPT !.pc = p, !.kind = wake[w].kind]
    BY <1>2 DEF WakeType
  <2> QED
    BY <1>1, <1>2, <2>1, AfterEmissionIs DEF Kinds, Active
<1> HIDE DEF to
<1>4. /\ to.pc = p /\ to.kind = k /\ to.bad = wake[w].bad /\ to.rest = wake[w].rest
      /\ to.chosen = wake[w].chosen /\ to.ok = wake[w].ok /\ to.todo = {}
  BY <1>1, <1>2, <1>3 DEF WakeType
<1>5. Flags(to)
  BY <1>1, <1>3, <1>4 DEF Outcome, Flags, Lively, Active
<1>6. Memory(w, to)
  <2>1. Past(to) <=> Past(wake[w])
    BY <1>1, <1>3, <1>4 DEF Past
  <2> QED
    BY <1>1, <1>3, <1>4, <2>1 DEF Outcome, Memory, Lively, Active
<1>7. Stored(w, to)
  BY <1>1, <1>3, <1>4 DEF Outcome, Stored, AtEnd
<1>8. Outcome(w, to) /\ to.pc \notin {"idle", "rejected"}
  BY <1>3, <1>4, <1>5, <1>6, <1>7 DEF Outcome, Active
<1> QED
  BY <1>1, <1>2, <1>8, QuietOutcome

LEMMA RunAdapterOutcome ==
    ASSUME IInv, OutcomesKnown, NEW w \in Wakes, RunAdapter(w)
    PROVE  OutcomesKnown'
<1>1. /\ wake[w].pc = "adapter" /\ UNCHANGED <<events, runStatus, taskStatus>>
      /\ Outcome(w, wake[w])
  BY DEF RunAdapter, OutcomesKnown, tables
<1>2. PICK o \in Outcomes :
         wake' = [wake EXCEPT
                    ![w].ok = o.ok, ![w].action = o.action,
                    ![w].pc = IF o.ok /\ o.action = "none" THEN "record"
                              ELSE "emit",
                    ![w].kind = CASE ~o.ok -> "broken"
                                  [] o.ok /\ o.action # "none" -> "action"
                                  [] OTHER -> @]
  BY DEF RunAdapter
<1>3. o \in [ok : BOOLEAN, action : {"none", "event", "artifact"}]
  BY ConstantsAssumption
<1> DEFINE pc == IF o.ok /\ o.action = "none" THEN "record" ELSE "emit"
           kind == CASE ~o.ok -> "broken"
                     [] o.ok /\ o.action # "none" -> "action"
                     [] OTHER -> wake[w].kind
           to == [wake[w] EXCEPT !.ok = o.ok, !.action = o.action, !.pc = pc,
                                 !.kind = kind]
<1>4. /\ kind # "final"
      /\ \/ pc = "record" /\ o.ok = TRUE /\ kind = "running"
         \/ pc = "emit" /\ o.ok = TRUE /\ kind = "action"
         \/ pc = "emit" /\ o.ok = FALSE /\ kind = "broken"
  BY <1>1, <1>3 DEF Outcome, Flags
<1>5. wake' = [wake EXCEPT ![w] = to]
  BY <1>2
<1> HIDE DEF pc, kind
<1>6. /\ wake'[w] = to /\ wake[w] \in WakeType
      /\ \A v \in Wakes \ {w} : wake'[v] = wake[v]
  BY <1>5, Moves
<1>7. /\ to.pc = pc /\ to.kind = kind /\ to.ok = o.ok /\ to.bad = wake[w].bad
      /\ to.rest = wake[w].rest /\ to.chosen = wake[w].chosen
  BY <1>6 DEF WakeType
<1> HIDE DEF to
<1>8. Outcome(w, to)
  BY <1>1, <1>4, <1>7 DEF Outcome, Flags, Memory, Stored, AtEnd, Lively, Active, Past
<1> QED
  BY <1>1, <1>4, <1>6, <1>7, <1>8, QuietOutcome

LEMMA PutActionRecordOutcome ==
    ASSUME IInv, OutcomesKnown, NEW w \in Wakes, PutActionRecord(w)
    PROVE  OutcomesKnown'
<1> DEFINE to == [wake[w] EXCEPT !.pc = "record"]
<1>1. /\ wake[w].pc = "action record" /\ UNCHANGED <<events, runStatus, taskStatus>>
      /\ Outcome(w, wake[w])
  BY DEF PutActionRecord, OutcomesKnown
<1>2. CASE wake' = [wake EXCEPT ![w].pc = "aborted"]
  BY <1>1, <1>2, GivenUpOutcome
<1>3. CASE wake' = [wake EXCEPT ![w] = to]
  <2>1. /\ wake'[w] = to /\ wake[w] \in WakeType
        /\ \A v \in Wakes \ {w} : wake'[v] = wake[v]
    BY <1>3, Moves
  <2>2. /\ to.pc = "record" /\ to.kind = wake[w].kind /\ to.ok = wake[w].ok
        /\ to.bad = wake[w].bad /\ to.rest = wake[w].rest /\ to.chosen = wake[w].chosen
    BY <2>1 DEF WakeType
  <2> HIDE DEF to
  <2>3. Outcome(w, to)
    BY <1>1, <2>2 DEF Outcome, Flags, Memory, Stored, AtEnd, Lively, Active, Past
  <2> QED
    BY <1>1, <2>1, <2>2, <2>3, QuietOutcome
<1> QED
  BY <1>2, <1>3 DEF PutActionRecord, PutRecord

LEMMA PutHeartbeatRecordOutcome ==
    ASSUME IInv, OutcomesKnown, NEW w \in Wakes, PutHeartbeatRecord(w)
    PROVE  OutcomesKnown'
<1> DEFINE to == [wake[w] EXCEPT !.pc = "emit", !.kind = "artifact"]
<1>1. /\ wake[w].pc = "record" /\ UNCHANGED <<events, runStatus, taskStatus>>
      /\ Outcome(w, wake[w])
  BY DEF PutHeartbeatRecord, OutcomesKnown
<1>2. CASE wake' = [wake EXCEPT ![w].pc = "aborted"]
  BY <1>1, <1>2, GivenUpOutcome
<1>3. CASE wake' = [wake EXCEPT ![w] = to]
  <2>1. /\ wake'[w] = to /\ wake[w] \in WakeType
        /\ \A v \in Wakes \ {w} : wake'[v] = wake[v]
    BY <1>3, Moves
  <2>2. /\ to.pc = "emit" /\ to.kind = "artifact" /\ to.ok = wake[w].ok
        /\ to.bad = wake[w].bad /\ to.rest = wake[w].rest /\ to.chosen = wake[w].chosen
    BY <2>1 DEF WakeType
  <2> HIDE DEF to
  <2>3. Outcome(w, to)
    BY <1>1, <2>2 DEF Outcome, Flags, Memory, Stored, AtEnd, Lively, Active, Past
  <2> QED
    BY <1>1, <2>1, <2>2, <2>3, QuietOutcome
<1> QED
  BY <1>2, <1>3 DEF PutHeartbeatRecord, PutRecord

LEMMA RecordHeartbeatOutcome ==
    ASSUME IInv, OutcomesKnown, NEW w \in Wakes, RecordHeartbeat(w)
    PROVE  OutcomesKnown'
<1> DEFINE bad == wake[w].bad \/ ~wake[w].ok
           to == [wake[w] EXCEPT !.pc = "instance", !.bad = bad]
<1>1. /\ wake[w].pc = "heartbeat" /\ UNCHANGED <<events, runStatus, taskStatus>>
      /\ Outcome(w, wake[w]) /\ WakeFacts(w) /\ wake' = [wake EXCEPT ![w] = to]
  BY DEF RecordHeartbeat, OutcomesKnown, IInv, tables
<1>2. /\ wake'[w] = to /\ wake[w] \in WakeType
      /\ \A v \in Wakes \ {w} : wake'[v] = wake[v]
  BY <1>1, Moves
<1>3. wake[w].kind # "final"
  BY <1>1, <1>2, AtAnAgent DEF Active
<1>4. Responded(w, Head(wake[w].rest).id)
  BY <1>1 DEF WakeFacts, EvidenceOf, PastResponse, ToldInOrder, Responded
<1>5. (to.bad <=> bad) /\ bad \in BOOLEAN
  BY <1>2 DEF WakeType
<1>6. /\ to.pc = "instance" /\ to.kind = wake[w].kind /\ to.ok = wake[w].ok
      /\ to.rest = wake[w].rest /\ to.chosen = wake[w].chosen
  BY <1>2 DEF WakeType
<1> HIDE DEF to
<1>7. Outcome(w, to)
  BY <1>1, <1>3, <1>4, <1>5, <1>6
  DEF Outcome, Flags, Memory, Stored, AtEnd, Lively, Active, Past
<1> QED
  BY <1>1, <1>2, <1>6, <1>7, QuietOutcome

LEMMA PersistInstanceOutcome ==
    ASSUME IInv, OutcomesKnown, NEW w \in Wakes, PersistInstance(w)
    PROVE  OutcomesKnown'
<1> DEFINE rest == Tail(wake[w].rest)
           kind == IF rest = <<>> THEN "final" ELSE "running"
           to == [wake[w] EXCEPT !.pc = "emit", !.rest = rest, !.kind = kind]
<1>1. /\ wake[w].pc = "instance" /\ UNCHANGED <<events, runStatus, taskStatus>>
      /\ Outcome(w, wake[w]) /\ WakeFacts(w) /\ wake' = [wake EXCEPT ![w] = to]
  BY DEF PersistInstance, OutcomesKnown, IInv
<1>2. /\ wake'[w] = to /\ wake[w] \in WakeType
      /\ \A v \in Wakes \ {w} : wake'[v] = wake[v]
  BY <1>1, Moves
<1>3. wake[w].rest \in Seq(AgentState) /\ wake[w].rest # <<>>
  BY <1>1, <1>2, AtAnAgent DEF Active, WakeType
<1>4. \A a \in IdsOf(wake[w].rest) : a = Head(wake[w].rest).id \/ a \in IdsOf(rest)
  <2> SUFFICES ASSUME NEW i \in DOMAIN wake[w].rest, i # 1
               PROVE  wake[w].rest[i].id \in IdsOf(rest)
    BY <1>3 DEF IdsOf
  <2>1. i - 1 \in DOMAIN rest /\ rest[i - 1] = wake[w].rest[i]
    BY <1>3
  <2> QED
    BY <2>1 DEF IdsOf
<1>5. /\ to.pc = "emit" /\ to.kind = kind /\ to.ok = wake[w].ok /\ to.bad = wake[w].bad
      /\ to.rest = rest /\ to.chosen = wake[w].chosen
  BY <1>2 DEF WakeType
<1>6. kind = "final" => rest = <<>>
  OBVIOUS
<1>7. kind \in {"final", "running"}
  OBVIOUS
<1> HIDE DEF to, rest, kind
<1>8. Outcome(w, to)
  BY <1>1, <1>4, <1>5, <1>6, <1>7
  DEF Outcome, Flags, Memory, Stored, AtEnd, Lively, Active, Past
<1> QED
  BY <1>1, <1>2, <1>5, <1>8, QuietOutcome


LEMMA PutEngagementOutcome ==
    ASSUME OutcomesKnown, NEW x \in Engagements, PutEngagement(x)
    PROVE  OutcomesKnown'
<1>1. wake' = wake /\ UNCHANGED <<runStatus, taskStatus>>
  BY DEF PutEngagement
<1>2. events \subseteq events' /\ \A e \in events' \ events : e.by = x
  BY DEF PutEngagement
<1>3. \A w \in Wakes : x # w
  BY ConstantsAssumption
<1> QED
  BY <1>1, <1>2, <1>3, NoWakeOutcome

LEMMA RestartOutcome ==
    ASSUME IInv, OutcomesKnown, Restart
    PROVE  OutcomesKnown'
<1> SUFFICES ASSUME NEW w \in Wakes
             PROVE  Outcome(w, wake[w])'
  BY DEF OutcomesKnown
<1>1. UNCHANGED <<events, runStatus, taskStatus>>
  BY DEF Restart
<1>2. \A v \in Wakes : \/ wake[v].pc \in Ended /\ wake'[v] = wake[v]
                       \/ wake'[v] = [wake[v] EXCEPT !.pc = "aborted"]
  BY DEF Restart
<1>3. \A v \in Wakes : wake'[v] = wake[v] \/ wake'[v].pc = "aborted"
  <2>1. \A v \in Wakes : wake[v] \in WakeType
    BY DEF IInv, TypeOK
  <2> QED
    BY <1>2, <2>1 DEF WakeType
<1>4. Alone(w)' => Alone(w)
  BY <1>3 DEF Alone
<1>5. CASE wake'[w] = wake[w]
  BY <1>1, <1>4, <1>5, OutcomeKept DEF OutcomesKnown
<1>6. CASE wake'[w].pc = "aborted"
  BY <1>6 DEF Outcome, Flags, Memory, Stored, AtEnd, Lively, Active
<1> QED
  BY <1>3, <1>5, <1>6

LEMMA InitialOutcome == Init => OutcomesKnown
<1> SUFFICES ASSUME Init, NEW w \in Wakes
             PROVE  Outcome(w, wake[w])
  BY DEF OutcomesKnown
<1>1. wake[w].pc = "idle" /\ ~wake[w].bad
  BY DEF Init, IdleWake
<1> QED
  BY <1>1 DEF Outcome, Flags, Memory, Stored, AtEnd, Lively, Active

LEMMA OutcomeInduction == IInv /\ OutcomesKnown /\ [Next]_vars => OutcomesKnown'
<1> SUFFICES ASSUME IInv, OutcomesKnown, [Next]_vars PROVE OutcomesKnown'
  OBVIOUS
<1>1. ASSUME NEW w \in Wakes, NEW target, Accept(w, target)
      PROVE  OutcomesKnown'
  BY <1>1, AcceptOutcome
<1>2. ASSUME NEW w \in Wakes, Wake(w)
      PROVE  OutcomesKnown'
  BY <1>2, MarkInstancesOutcome, EmitOutcome, PutEventOutcome, UpdateRunStatusOutcome,
     UpdateTaskStatusOutcome, EmittedOutcome, RunAdapterOutcome, PutActionRecordOutcome,
     PutHeartbeatRecordOutcome, RecordHeartbeatOutcome, PersistInstanceOutcome
  DEF Wake
<1>3. ASSUME NEW w \in Wakes, WakeFails(w)
      PROVE  OutcomesKnown'
  BY <1>3, GivenUpOutcome DEF WakeFails, tables
<1>4. ASSUME NEW x \in Engagements, NEW r, NEW hasTask, Engage(x, r, hasTask)
      PROVE  OutcomesKnown'
  BY <1>4, NoWakeOutcome DEF Engage, tables
<1>5. ASSUME NEW x \in Engagements, Engagement(x)
      PROVE  OutcomesKnown'
  BY <1>5, PutEngagementOutcome, NoWakeOutcome DEF Engagement, EngagementDone, tables
<1>6. ASSUME NEW g \in Registrations, NEW id, RegisterRead(g, id)
      PROVE  OutcomesKnown'
  BY <1>6, NoWakeOutcome DEF RegisterRead, tables
<1>7. ASSUME NEW g \in Registrations, Registration(g) \/ RegisterFails(g)
      PROVE  OutcomesKnown'
  BY <1>7, NoWakeOutcome DEF Registration, RegisterWrite, RegisterPersist, RegisterFails,
     tables
<1>8. CASE Restart
  BY <1>8, RestartOutcome
<1>9. CASE Quiescent \/ UNCHANGED vars
  BY <1>9, NoWakeOutcome DEF Quiescent, vars, tables
<1> QED
  BY <1>1, <1>2, <1>3, <1>4, <1>5, <1>6, <1>7, <1>8, <1>9 DEF Next

LEMMA OutcomesInvariant == Spec => [](IInv /\ OutcomesKnown)
<1>1. Init => IInv /\ OutcomesKnown
  BY InitialFacts, InitialOutcome
<1>2. IInv /\ OutcomesKnown /\ [Next]_vars => (IInv /\ OutcomesKnown)'
  BY InductiveStep, OutcomeInduction
<1> QED
  BY <1>1, <1>2, PTL DEF Spec

LEMMA OutcomeTold == IInv /\ OutcomesKnown => DoneWakeTold /\ FinalStatusStored
<1> SUFFICES ASSUME IInv, OutcomesKnown, NEW w \in Wakes, wake[w].pc = "done"
             PROVE  /\ \A a \in wake[w].chosen :
                          \E e \in events : e.by = w /\ e.agent = a /\ e.kind = "response"
                    /\ \E f \in events :
                          /\ f.by = w /\ f.kind = "final"
                          /\ \A e \in events \ {f} : e.by = w => e.seq < f.seq
                          /\ f.status = "failed" <=>
                               \E e \in events : e.by = w /\ e.kind = "broken"
                    /\ Alone(w) =>
                         /\ runStatus[WakeRun[w]] = FinalStatus(wake[w].bad)
                         /\ taskStatus[WakeRun[w]] = FinalStatus(wake[w].bad)
  <2> DEFINE told(v) == {e \in events : e.by = v}
  <2>1. \A v : \A e : e \in told(v) <=> e \in events /\ e.by = v
    OBVIOUS
  <2> QED
    BY <2>1 DEF DoneWakeTold, FinalStatusStored, Alone, FinalStatus
<1>1. Outcome(w, wake[w]) /\ wake[w].bad \in BOOLEAN
  BY DEF OutcomesKnown, IInv, TypeOK, WakeType
<1>2. wake[w].kind = "final" /\ wake[w].rest = <<>> /\ wake[w].todo = {}
  BY <1>1 DEF Outcome, Flags, Lively
<1>3. \A a \in wake[w].chosen : Responded(w, a)
  BY <1>1, <1>2 DEF Outcome, Memory, Lively, IdsOf
<1>4. \A a \in wake[w].chosen :
         \E e \in events : e.by = w /\ e.agent = a /\ e.kind = "response"
  BY <1>3 DEF Responded, Told
<1>5. Broke(w) <=> wake[w].bad
  BY <1>1, <1>2 DEF Outcome, Memory, Lively, Past
<1>6. /\ FinalTold(w, wake[w].bad)
      /\ Alone(w) => /\ runStatus[WakeRun[w]] = FinalStatus(wake[w].bad)
                     /\ taskStatus[WakeRun[w]] = FinalStatus(wake[w].bad)
  BY <1>1, <1>2 DEF Outcome, Stored, AtEnd
<1>7. FinalStatus(wake[w].bad) = "failed" <=> Broke(w)
  BY <1>5 DEF FinalStatus
<1> QED
  BY <1>4, <1>6, <1>7 DEF FinalTold, Broke

-----------------------------------------------------------------------------
(***************************************************************************)
(* The list of agents.                                                     *)
(***************************************************************************)

\* A list rewritten element by element that keeps its ids.
LEMMA SameIds ==
    ASSUME NEW s, NEW t, DOMAIN t = DOMAIN s, \A i \in DOMAIN s : t[i].id = s[i].id
    PROVE  /\ IdsOf(t) = IdsOf(s)
           /\ (\A i, j \in DOMAIN s : s[i].id = s[j].id => i = j) =>
                \A i, j \in DOMAIN t : t[i].id = t[j].id => i = j
  BY DEF IdsOf

LEMMA InitialList == Init => Listed
<1> SUFFICES ASSUME Init PROVE Listed
  OBVIOUS
<1>1. \A g \in Registrations : reg[g].pc # "append"
  BY DEF Init
<1>2. agents = FreshAgents
  BY DEF Init
<1>3. \A i, j \in DOMAIN agents : agents[i].id = agents[j].id => i = j
  BY <1>2, ConstantsAssumption DEF FreshAgents, Agent
<1> QED
  BY <1>1, <1>3 DEF Listed

LEMMA ListInduction ==
    ASSUME \A g, h \in Registrations : g = h, IInv, Listed, [Next]_vars
    PROVE  Listed'
<1>0. agents \in Seq(AgentState) /\ \A i \in DOMAIN agents : agents[i] \in AgentState
  BY DEF IInv, TypeOK
<1>1. ASSUME UNCHANGED <<agents, reg>>
      PROVE  Listed'
  BY <1>1 DEF Listed
<1>2. ASSUME DOMAIN agents' = DOMAIN agents, reg' = reg,
             \A i \in DOMAIN agents : agents'[i].id = agents[i].id
      PROVE  Listed'
  BY <1>2, SameIds DEF Listed
<1>3. ASSUME NEW w \in Wakes, NEW target, Accept(w, target)
      PROVE  Listed'
  <2>1. CASE UNCHANGED agents
    BY <1>1, <1>3, <2>1 DEF Accept
  <2>2. CASE agents' = MapAgents(agents, LAMBDA a :
                         IF a.id \in IdsOf(Selected(target))
                         THEN [a EXCEPT !.status = "running"] ELSE a)
    <3>1. agents' = [i \in DOMAIN agents |->
                       IF agents[i].id \in IdsOf(Selected(target))
                       THEN [agents[i] EXCEPT !.status = "running"] ELSE agents[i]]
      BY <2>2 DEF MapAgents
    <3>2. \A i \in DOMAIN agents : agents'[i].id = agents[i].id
      BY <1>0, <3>1 DEF AgentState
    <3> QED
      BY <1>2, <1>3, <3>1, <3>2 DEF Accept
  <2> QED
    BY <1>3, <2>1, <2>2 DEF Accept
<1>4. ASSUME NEW w \in Wakes, RecordHeartbeat(w)
      PROVE  Listed'
  <2> DEFINE me == Head(wake[w].rest).id
             status == IF ~wake[w].ok THEN "failed" ELSE "succeeded"
  <2>1. agents' = [i \in DOMAIN agents |->
                     IF agents[i].id = me THEN Agent(me, status, agents[i].count + 1)
                     ELSE agents[i]]
    BY <1>4 DEF RecordHeartbeat, MapAgents
  <2> HIDE DEF me, status
  <2>2. \A i \in DOMAIN agents : agents'[i].id = agents[i].id
    BY <2>1 DEF Agent
  <2> QED
    BY <1>2, <1>4, <2>1, <2>2 DEF RecordHeartbeat
<1>5. ASSUME NEW w \in Wakes, Wake(w) \/ WakeFails(w)
      PROVE  Listed'
  <2>1. CASE RecordHeartbeat(w)
    BY <1>4, <2>1
  <2>2. CASE ~RecordHeartbeat(w)
    BY <1>1, <1>5, <2>2
    DEF Wake, WakeFails, MarkInstances, Emit, PutEvent, UpdateRunStatus, UpdateTaskStatus,
        Emitted, RunAdapter, PutActionRecord, PutHeartbeatRecord, PersistInstance, memory
  <2> QED
    BY <2>1, <2>2
<1>6. ASSUME NEW x \in Engagements,
             Engagement(x) \/ \E r \in Runs, hasTask \in BOOLEAN : Engage(x, r, hasTask)
      PROVE  Listed'
  BY <1>1, <1>6 DEF Engagement, PutEngagement, EngagementDone, Engage, memory
<1>7. reg \in [Registrations -> [pc : {"idle", "replace", "append", "persist", "done"},
                                 agent : AgentState \union {NoAgent}]]
  BY DEF IInv, TypeOK
<1>8. ASSUME NEW g \in Registrations, NEW id, RegisterRead(g, id)
      PROVE  Listed'
  <2>1. agents' = agents
    BY <1>8 DEF RegisterRead, memory
  <2>2. reg'[g].pc = "append" => reg'[g].agent.id = id /\ id \notin IdsOf(agents)
    BY <1>7, <1>8 DEF RegisterRead, Agent
  <2> QED
    BY <2>1, <2>2 DEF Listed
<1>9. ASSUME NEW g \in Registrations, reg' = [reg EXCEPT ![g].pc = "persist"] \/
                                      reg' = [reg EXCEPT ![g].pc = "done"]
      PROVE  \A h \in Registrations : reg'[h].pc # "append"
  <2>1. \A h \in Registrations : h = g
    OBVIOUS
  <2>2. reg'[g].pc \in {"persist", "done"}
    BY <1>7, <1>9
  <2> QED
    BY <2>1, <2>2
<1>10. ASSUME NEW g \in Registrations, RegisterPersist(g) \/ RegisterFails(g)
       PROVE  Listed'
  BY <1>9, <1>10 DEF Listed, RegisterPersist, RegisterFails, memory
<1>11. ASSUME NEW g \in Registrations, RegisterWrite(g)
       PROVE  Listed'
  <2> DEFINE new == reg[g].agent
  <2>1. \A h \in Registrations : reg'[h].pc # "append"
    BY <1>9, <1>11 DEF RegisterWrite
  <2>2. CASE reg[g].pc = "append"
    <3>1. agents' = Append(agents, new) /\ new.id \notin IdsOf(agents)
      BY <1>11, <2>2 DEF RegisterWrite, Listed
    <3> HIDE DEF new
    <3>2. \A i, j \in DOMAIN agents : agents[i].id = agents[j].id => i = j
      BY DEF Listed
    <3>3. \A i \in DOMAIN agents : agents[i].id # new.id
      BY <3>1 DEF IdsOf
    <3>4. \A i, j \in DOMAIN agents' : agents'[i].id = agents'[j].id => i = j
      <4>1. DOMAIN agents' = 1..(Len(agents) + 1) /\ agents'[Len(agents) + 1] = new
        BY <1>0, <3>1
      <4>2. \A i \in DOMAIN agents' :
              \/ i = Len(agents) + 1
              \/ i \in DOMAIN agents /\ agents'[i] = agents[i]
        BY <1>0, <3>1, <4>1
      <4> QED
        BY <3>2, <3>3, <4>1, <4>2
    <3> QED
      BY <2>1, <3>4 DEF Listed
  <2>3. CASE reg[g].pc # "append"
    <3>1. agents' = [i \in DOMAIN agents |->
                       IF agents[i].id = new.id THEN new ELSE agents[i]]
      BY <1>11, <2>3 DEF RegisterWrite, MapAgents
    <3>2. \A i \in DOMAIN agents : agents'[i].id = agents[i].id
      BY <3>1
    <3> QED
      BY <2>1, <3>1, <3>2, SameIds DEF Listed
  <2> QED
    BY <2>2, <2>3
<1>12. CASE Restart
  <2>1. agents' = FreshAgents
    BY <1>12 DEF Restart
  <2>2. \A g \in Registrations : reg'[g].pc # "append"
    BY <1>7, <1>12 DEF Restart
  <2>3. \A i, j \in DOMAIN agents' : agents'[i].id = agents'[j].id => i = j
    BY <2>1, ConstantsAssumption DEF FreshAgents, Agent
  <2> QED
    BY <2>2, <2>3 DEF Listed
<1>13. CASE Quiescent \/ UNCHANGED vars
  BY <1>1, <1>13 DEF Quiescent, vars, memory
<1> QED
  BY <1>3, <1>5, <1>6, <1>8, <1>10, <1>11, <1>12, <1>13 DEF Next, Registration

\* A wake that ends normally has told of every agent it selected and said as its
\* last word whether a heartbeat failed, and left that status in both tables of a
\* run nobody else woke, whatever overlaps, throws or restarts
\* (resident-runner.ts:379-495, 838-845).
THEOREM EndIsTold == Spec => [](DoneWakeTold /\ FinalStatusStored)
  BY OutcomesInvariant, OutcomeTold, PTL

\* With at most one registration over POST /agents, a wake's whole outcome: besides
\* what it told and stored, every agent is listed once although wakes, the
\* registration and restarts rewrite the list under one another
\* (resident-runner.ts:337-374, 386-399, 432-452).
THEOREM OutcomeCorrect ==
    ASSUME \A g, h \in Registrations : g = h
    PROVE  Spec => []WakeOutcome
<1>1. Init => Listed
  BY InitialList
<1>2. IInv /\ Listed /\ [Next]_vars => Listed'
  BY ListInduction
<1>3. Listed => AgentsListedOnce
  BY DEF Listed, AgentsListedOnce
<1>4. DoneWakeTold /\ FinalStatusStored /\ AgentsListedOnce => WakeOutcome
  BY DEF WakeOutcome
<1> QED
  BY <1>1, <1>2, <1>3, <1>4, Invariance, EndIsTold, PTL DEF Spec

(***************************************************************************)
(* The log of each run is the append-only log of EventLog.                 *)
(***************************************************************************)

\* An event that is put where its run's log has none is an append to that log and
\* nothing to the logs of other runs.
LEMMA PutAppends ==
    ASSUME NEW r, NEW ev, events' = events \union {ev}, ~Taken(ev.run, ev.seq)
    PROVE  [Log(r)!Next]_({e \in events : e.run = r})
<1> DEFINE log == {e \in events : e.run = r}
<1>1. CASE ev.run = r
  <2>1. {e \in events' : e.run = r} = log \union {ev}
    BY <1>1
  <2>2. \A f \in log : f.seq # ev.seq
    BY <1>1 DEF Taken
  <2>3. Log(r)!Append(ev)
    BY <2>1, <2>2 DEF Log!Append
  <2> QED
    BY <2>1, <2>3 DEF Log!Next
<1>2. CASE ev.run # r
  BY <1>2
<1> QED
  BY <1>1, <1>2

LEMMA LogStep ==
    ASSUME NEW r \in Runs, [Next]_vars
    PROVE  [Log(r)!Next]_({e \in events : e.run = r})
<1>1. CASE events' = events
  BY <1>1
<1>2. ASSUME NEW w \in Wakes, PutEvent(w), events' # events
      PROVE  [Log(r)!Next]_({e \in events : e.run = r})
  <2>1. ~Taken(WakeRun[w], wake[w].seq)
    BY <1>2, Zenon DEF PutEvent
  <2>2. PICK ev : /\ ev = [run |-> WakeRun[w], seq |-> wake[w].seq, kind |-> wake[w].kind,
                          status |-> StatusOf(w, wake[w].kind), by |-> w, agent |-> AgentOf(w)]
                  /\ events' = events \union {ev}
    BY <1>2, Zenon DEF PutEvent
  <2> QED
    BY <2>1, <2>2, PutAppends
<1>3. ASSUME NEW x \in Engagements, PutEngagement(x), events' # events
      PROVE  [Log(r)!Next]_({e \in events : e.run = r})
  <2>1. ~Taken(engage[x].run, engage[x].seq)
    BY <1>3, Zenon DEF PutEngagement
  <2>2. PICK ev : /\ ev = [run |-> engage[x].run, seq |-> engage[x].seq, kind |-> "engagement",
                          status |-> None, by |-> x, agent |-> None]
                  /\ events' = events \union {ev}
    BY <1>3, Zenon DEF PutEngagement
  <2> QED
    BY <2>1, <2>2, PutAppends
<1>4. ASSUME events' # events
      PROVE  (\E w \in Wakes : PutEvent(w)) \/ (\E x \in Engagements : PutEngagement(x))
  BY <1>4
  DEF Next, vars, tables, memory, Wake, Engagement, Registration, Quiescent, Accept, MarkInstances,
      Emit, UpdateRunStatus, UpdateTaskStatus, Emitted, RunAdapter, PutActionRecord,
      PutHeartbeatRecord, RecordHeartbeat, PersistInstance, WakeFails, Engage, EngagementDone,
      RegisterRead, RegisterWrite, RegisterPersist, RegisterFails, Restart
<1> QED
  BY <1>1, <1>2, <1>3, <1>4

\* Wakes, engagements and restarts, which draw their numbers without asking the
\* table, implement the append-only log for every run (dynamo-event-sink.ts:26-32).
THEOREM Implements == Spec => LogSpec
<1>1. ASSUME NEW r \in Runs
      PROVE  Spec => Log(r)!Spec
  <2>1. Init => Log(r)!Init
    BY DEF Init, Log!Init, Queued
  <2> QED
    BY <2>1, LogStep, PTL DEF Spec, Log!Spec
<1> QED
  BY <1>1 DEF LogSpec

=============================================================================
