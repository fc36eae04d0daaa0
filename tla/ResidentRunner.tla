---------------------------- MODULE ResidentRunner ----------------------------
(***************************************************************************)
(* The resident runner (services/agent-runtime/src/resident-runner.ts):    *)
(* one Node process that executes wakes, records user engagements and      *)
(* registers agents.  Node runs one synchronous segment at a time, so      *)
(* every action here is the code between two awaits; wakes, engagements    *)
(* and registrations interleave at every await, share the process-wide     *)
(* sequence counter and the in-memory state, and write to DynamoDB         *)
(* through DynamoEventSink and AwsArtifactSink.                            *)
(*                                                                         *)
(* Durable state survives a restart of the process; memory does not.       *)
(***************************************************************************)
EXTENDS Naturals, Sequences, FiniteSets

CONSTANTS
    Wakes,          \* POST /wake requests
    Engagements,    \* POST /engagement/* requests
    Runs,
    WakeRun,        \* the run each wake is for
    AgentIds,
    DefaultAgents,  \* agents that initialize registers, one after the other
    Registrations,  \* POST /agents requests for an agent of AgentIds
    ArtifactIds,    \* artifact ids an agent may choose for an action event
    Outcomes,       \* results of the adapter: exit and action event
    MaxRestarts     \* bound on restarts of the process

ASSUME ConstantsAssumption ==
    /\ WakeRun \in [Wakes -> Runs]
    /\ Wakes \cap Engagements = {}
    /\ "control-api" \notin Wakes \union Engagements
    /\ DefaultAgents \in Seq(AgentIds)
    /\ \A i, j \in DOMAIN DefaultAgents : DefaultAgents[i] = DefaultAgents[j] => i = j
    /\ AgentIds \cap ArtifactIds = {}
    /\ Outcomes \subseteq [ok : BOOLEAN, action : {"none", "event", "artifact"}]
    /\ MaxRestarts \in Nat

VARIABLES
    events,      \* EventsTable
    runStatus,   \* status column of RunsTable
    taskStatus,  \* status column of TasksTable
    records,     \* ArtifactsTable
    instances,   \* AgentInstancesTable
    runner,      \* this.state.runner.status
    agents,      \* this.state.agents
    heartbeats,  \* this.state.heartbeats
    metrics,     \* this.state.metrics
    seq,         \* this.seq
    wake,        \* the invocations of wake()
    engage,      \* the invocations of recordUserEngagement()
    reg,         \* the invocations of registerAgent()
    restarts     \* bounded by MaxRestarts

tables == <<events, runStatus, taskStatus, records, instances>>
memory == <<runner, agents, heartbeats, metrics, seq>>
vars == <<tables, memory, wake, engage, reg, restarts>>

-----------------------------------------------------------------------------
(***************************************************************************)
(* Data.                                                                   *)
(***************************************************************************)
None == "none"

Statuses == {"queued", "planning", "running", "succeeded", "failed"}

\* What a wake emits, in the order of the code; "broken" is the failed status
\* of one agent's heartbeat, "final" the status of the whole wake.
Kinds == {"planning", "running", "broken", "action", "artifact", "response",
          "final"}

AgentState == [id : AgentIds, status : {"idle", "running", "succeeded", "failed"},
               count : Nat]

Event == [run : Runs, seq : Nat,
          kind : Kinds \union {"queued", "engagement"},
          status : Statuses \union {None},
          by : Wakes \union Engagements \union {"control-api"},
          agent : AgentIds \union {None}]

\* The value of run.status that an event of this kind carries.
StatusOf(w, kind) ==
    CASE kind = "planning" -> "planning"
      [] kind = "running" -> "running"
      [] kind = "broken" -> "failed"
      [] kind = "final" -> IF wake[w].bad THEN "failed" ELSE "succeeded"
      [] OTHER -> None

Agent(id, status, count) == [id |-> id, status |-> status, count |-> count]

NoAgent == Agent(None, "idle", 0)

IdsOf(s) == {s[i].id : i \in DOMAIN s}

\* this.state.agents.find(...), of an agent that is there
FindAgent(s, id) ==
    s[CHOOSE i \in DOMAIN s : s[i].id = id /\ \A j \in 1..(i - 1) : s[j].id # id]

\* this.state.agents.map(...)
MapAgents(s, f(_)) == [i \in DOMAIN s |-> f(s[i])]

FreshAgents == [i \in DOMAIN DefaultAgents |-> Agent(DefaultAgents[i], "idle", 0)]

NoInstance == [status |-> None, count |-> 0]

DefaultInstances(old) ==
    [a \in AgentIds |-> IF a \in IdsOf(FreshAgents)
                        THEN [status |-> "idle", count |-> 0]
                        ELSE old[a]]

ZeroMetrics == [total |-> 0, failed |-> 0, artifacts |-> 0, durable |-> 0]

IdleWake == [pc |-> "idle", kind |-> "planning", seq |-> 0, rest |-> <<>>,
             chosen |-> {}, todo |-> {}, ok |-> TRUE, action |-> "none",
             bad |-> FALSE]

Ended == {"idle", "rejected", "done", "aborted"}
Active == {"mark", "emit", "put", "put done", "adapter", "action record", "record",
           "heartbeat", "instance"}

\* The event that createRun stores with a run, before the runner hears of it.
Queued(r) ==
    [run |-> r, seq |-> 1, kind |-> "queued", status |-> "queued",
     by |-> "control-api", agent |-> None]

Init ==
    /\ events = {Queued(r) : r \in Runs}
    /\ runStatus = [r \in Runs |-> "queued"]
    /\ taskStatus = [r \in Runs |-> "queued"]
    /\ records = {}
    /\ instances = DefaultInstances([a \in AgentIds |-> NoInstance])
    /\ runner = "ready"
    /\ agents = FreshAgents
    /\ heartbeats = <<>>
    /\ metrics = ZeroMetrics
    /\ seq = 1
    /\ wake = [w \in Wakes |-> IdleWake]
    /\ engage = [x \in Engagements |-> [pc |-> "idle", run |-> None, seq |-> 0]]
    /\ reg = [g \in Registrations |-> [pc |-> "idle", agent |-> NoAgent]]
    /\ restarts = 0

-----------------------------------------------------------------------------
(***************************************************************************)
(* wake(): selection of the agents and the marks that they run.            *)
(***************************************************************************)
Selected(target) ==
    IF target = "all" THEN agents
    ELSE IF target \in IdsOf(agents) THEN <<FindAgent(agents, target)>> ELSE <<>>

Accept(w, target) ==
    /\ wake[w].pc = "idle"
    /\ LET chosen == Selected(target)
       IN  \/ /\ chosen = <<>>
              /\ wake' = [wake EXCEPT ![w].pc = "rejected"]
              /\ UNCHANGED <<runner, agents>>
           \/ /\ chosen # <<>>
              /\ wake' = [wake EXCEPT ![w].pc = "mark", ![w].rest = chosen,
                                      ![w].chosen = IdsOf(chosen)]
              /\ runner' = "running"
              /\ agents' = MapAgents(agents, LAMBDA a :
                             IF a.id \in IdsOf(chosen)
                             THEN [a EXCEPT !.status = "running"] ELSE a)
    /\ UNCHANGED <<tables, heartbeats, metrics, seq, engage, reg, restarts>>

\* persistAgentInstance for every selected agent, from the selection's snapshot.
MarkInstances(w) ==
    /\ wake[w].pc = "mark"
    /\ instances' = [a \in AgentIds |->
                       IF a \in IdsOf(wake[w].rest)
                       THEN [status |-> "running",
                             count |-> FindAgent(wake[w].rest, a).count]
                       ELSE instances[a]]
    /\ wake' = [wake EXCEPT ![w].pc = "emit"]
    /\ UNCHANGED <<events, runStatus, taskStatus, records, memory, engage, reg,
                   restarts>>

-----------------------------------------------------------------------------
(***************************************************************************)
(* One emission: the synchronous nextSeq, the conditional put, for a       *)
(* run.status event the two status updates in either order, and the        *)
(* continuation after persistEvent.                                        *)
(***************************************************************************)
\* Bug: the status columns are updated before the event is put.
EmitStatusFirst(w) ==
    /\ wake[w].pc = "emit"
    /\ seq' = seq + 1
    /\ wake' = [wake EXCEPT ![w].pc = "put", ![w].seq = seq + 1]
    /\ runStatus' = IF StatusOf(w, wake[w].kind) = None THEN runStatus
                    ELSE [runStatus EXCEPT
                            ![WakeRun[w]] = StatusOf(w, wake[w].kind)]
    /\ UNCHANGED <<events, taskStatus, records, instances, runner, agents,
                   heartbeats, metrics, engage, reg, restarts>>

Emit(w) ==
    /\ wake[w].pc = "emit"
    /\ seq' = seq + 1
    /\ wake' = [wake EXCEPT ![w].pc = "put", ![w].seq = seq + 1]
    /\ UNCHANGED <<tables, runner, agents, heartbeats, metrics, engage, reg,
                   restarts>>

\* The agent an emission is about.
AgentOf(w) == IF wake[w].kind \in {"planning", "final"} THEN None
              ELSE Head(wake[w].rest).id

Taken(r, n) == \E e \in events : e.run = r /\ e.seq = n

PutEvent(w) ==
    /\ wake[w].pc = "put"
    /\ LET r == WakeRun[w]
           status == StatusOf(w, wake[w].kind)
       IN  \/ /\ ~Taken(r, wake[w].seq)
              /\ events' = events \union
                   {[run |-> r, seq |-> wake[w].seq, kind |-> wake[w].kind,
                     status |-> status, by |-> w, agent |-> AgentOf(w)]}
              /\ wake' = [wake EXCEPT
                            ![w].pc = "put done",
                            ![w].todo = IF status = None THEN {}
                                        ELSE {"run", "task"}]
           \/ /\ Taken(r, wake[w].seq)
              /\ wake' = [wake EXCEPT ![w].pc = "aborted"]
              /\ UNCHANGED events
    /\ UNCHANGED <<runStatus, taskStatus, records, instances, memory, engage,
                   reg, restarts>>

\* The two updates run side by side.  When one throws, the wake goes on to its
\* end without the other, which may still land.
UpdateRunStatus(w) ==
    /\ wake[w].pc \in {"put done", "aborted"}
    /\ "run" \in wake[w].todo
    /\ runStatus' = [runStatus EXCEPT ![WakeRun[w]] = StatusOf(w, wake[w].kind)]
    /\ wake' = [wake EXCEPT ![w].todo = @ \ {"run"}]
    /\ UNCHANGED <<events, taskStatus, records, instances, memory, engage, reg,
                   restarts>>

UpdateTaskStatus(w) ==
    /\ wake[w].pc \in {"put done", "aborted"}
    /\ "task" \in wake[w].todo
    /\ taskStatus' = [taskStatus EXCEPT ![WakeRun[w]] = StatusOf(w, wake[w].kind)]
    /\ wake' = [wake EXCEPT ![w].todo = @ \ {"task"}]
    /\ UNCHANGED <<events, runStatus, records, instances, memory, engage, reg,
                   restarts>>

\* Where wake() goes on once the event of this kind is persisted.
AfterEmission(w) ==
    LET me == wake[w]
    IN  CASE me.kind = "planning" -> [me EXCEPT !.pc = "emit", !.kind = "running"]
          [] me.kind = "running" -> [me EXCEPT !.pc = "adapter"]
          [] me.kind = "broken" /\ me.action # "none" ->
                [me EXCEPT !.pc = "emit", !.kind = "action"]
          [] me.kind = "broken" /\ me.action = "none" -> [me EXCEPT !.pc = "record"]
          [] me.kind = "action" ->
                [me EXCEPT !.pc = IF me.action = "artifact" THEN "action record"
                                  ELSE "record"]
          [] me.kind = "artifact" -> [me EXCEPT !.pc = "emit", !.kind = "response"]
          [] me.kind = "response" -> [me EXCEPT !.pc = "heartbeat"]
          [] me.kind = "final" -> [me EXCEPT !.pc = "done"]

Emitted(w) ==
    /\ wake[w].pc = "put done"
    /\ wake[w].todo = {}
    /\ metrics' = [metrics EXCEPT !.durable = @ + 1]
    /\ wake' = [wake EXCEPT ![w] = AfterEmission(w)]
    /\ runner' = IF wake[w].kind = "final" THEN "ready" ELSE runner
    /\ UNCHANGED <<tables, agents, heartbeats, seq, engage, reg, restarts>>

-----------------------------------------------------------------------------
(***************************************************************************)
(* wake(): one agent's heartbeat.                                          *)
(***************************************************************************)

RunAdapter(w) ==
    /\ wake[w].pc = "adapter"
    /\ \E o \in Outcomes :
         wake' = [wake EXCEPT
                    ![w].ok = o.ok, ![w].action = o.action,
                    ![w].pc = IF o.ok /\ o.action = "none" THEN "record"
                              ELSE "emit",
                    ![w].kind = CASE ~o.ok -> "broken"
                                  [] o.ok /\ o.action # "none" -> "action"
                                  [] OTHER -> @]
    /\ UNCHANGED <<tables, memory, engage, reg, restarts>>

\* putArtifactRecord is conditional on (runId, artifactId).
PutRecord(w, id, next) ==
    LET row == <<WakeRun[w], id>>
    IN  \/ /\ row \notin records
           /\ records' = records \union {row}
           /\ wake' = [wake EXCEPT ![w] = next]
        \/ /\ row \in records
           /\ wake' = [wake EXCEPT ![w].pc = "aborted"]
           /\ UNCHANGED records

\* persistAgentArtifactRecord: the id is the agent's choice.
PutActionRecord(w) ==
    /\ wake[w].pc = "action record"
    /\ \E id \in ArtifactIds :
         PutRecord(w, id, [wake[w] EXCEPT !.pc = "record"])
    /\ UNCHANGED <<events, runStatus, taskStatus, instances, memory, engage, reg,
                   restarts>>

\* Bug: a failing put of the row is swallowed.
PutHeartbeatRecordSwallowed(w) ==
    /\ wake[w].pc = "record"
    /\ records' \in {records, records \union {<<WakeRun[w], Head(wake[w].rest).id>>}}
    /\ wake' = [wake EXCEPT ![w].pc = "emit", ![w].kind = "artifact"]
    /\ UNCHANGED <<events, runStatus, taskStatus, instances, memory, engage, reg,
                   restarts>>

\* Bug: a taken artifact id is retried for ever.
PutHeartbeatRecordRetried(w) ==
    /\ wake[w].pc = "record"
    /\ <<WakeRun[w], Head(wake[w].rest).id>> \notin records
    /\ PutRecord(w, Head(wake[w].rest).id,
                 [wake[w] EXCEPT !.pc = "emit", !.kind = "artifact"])
    /\ UNCHANGED <<events, runStatus, taskStatus, instances, memory, engage, reg,
                   restarts>>

\* writeHeartbeatArtifact: the id is a function of the task and the agent.
PutHeartbeatRecord(w) ==
    /\ wake[w].pc = "record"
    /\ PutRecord(w, Head(wake[w].rest).id,
                 [wake[w] EXCEPT !.pc = "emit", !.kind = "artifact"])
    /\ UNCHANGED <<events, runStatus, taskStatus, instances, memory, engage, reg,
                   restarts>>

\* Bug: the final status is the last heartbeat's.
RecordHeartbeatLastCounts(w) ==
    /\ wake[w].pc = "heartbeat"
    /\ LET me == Head(wake[w].rest).id
       IN  /\ heartbeats' = Append(heartbeats, [wake |-> w, agent |-> me,
                                               failed |-> ~wake[w].ok])
           /\ wake' = [wake EXCEPT ![w].pc = "instance",
                                   ![w].bad = ~wake[w].ok]
    /\ UNCHANGED <<tables, runner, agents, metrics, seq, engage, reg, restarts>>

RecordHeartbeat(w) ==
    /\ wake[w].pc = "heartbeat"
    /\ LET me == Head(wake[w].rest).id
           failed == ~wake[w].ok
       IN  /\ heartbeats' = Append(heartbeats,
                                   [wake |-> w, agent |-> me, failed |-> failed])
           /\ agents' = MapAgents(agents, LAMBDA a :
                IF a.id = me
                THEN Agent(me, IF failed THEN "failed" ELSE "succeeded", a.count + 1)
                ELSE a)
           /\ metrics' = [metrics EXCEPT !.total = @ + 1, !.artifacts = @ + 1,
                                         !.failed = IF failed THEN @ + 1 ELSE @]
           /\ wake' = [wake EXCEPT ![w].pc = "instance",
                                   ![w].bad = @ \/ failed]
    /\ UNCHANGED <<tables, runner, seq, engage, reg, restarts>>

\* The row is written from what memory holds after persistState, if anything.
PersistInstance(w) ==
    /\ wake[w].pc = "instance"
    /\ LET id == Head(wake[w].rest).id
           now == FindAgent(agents, id)
           rest == Tail(wake[w].rest)
       IN  /\ instances' = IF id \in IdsOf(agents)
                           THEN [instances EXCEPT
                                   ![id] = [status |-> now.status,
                                            count |-> now.count]]
                           ELSE instances
           /\ wake' = [wake EXCEPT
                         ![w].pc = "emit", ![w].rest = rest,
                         ![w].kind = IF rest = <<>> THEN "final" ELSE "running"]
    /\ UNCHANGED <<events, runStatus, taskStatus, records, memory, engage, reg,
                   restarts>>

\* An awaited call throws: the server logs it and forgets the wake.
WakeFails(w) ==
    /\ wake[w].pc \notin Ended \union {"adapter"}
    /\ wake' = [wake EXCEPT ![w].pc = "aborted"]
    /\ UNCHANGED <<tables, memory, engage, reg, restarts>>

-----------------------------------------------------------------------------
(***************************************************************************)
(* recordUserEngagement(): an event from outside every wake.  Without a    *)
(* task id it has no sink and is counted but stored nowhere.               *)
(***************************************************************************)
\* Bug: the counter moves on only after the event was stored.
EngageReadsAhead(x, r, hasTask) ==
    /\ engage[x].pc = "idle"
    /\ engage' = [engage EXCEPT ![x] = [pc |-> IF hasTask THEN "put" ELSE "count",
                                        run |-> r, seq |-> seq + 1]]
    /\ UNCHANGED <<tables, memory, wake, reg, restarts>>

Engage(x, r, hasTask) ==
    /\ engage[x].pc = "idle"
    /\ seq' = seq + 1
    /\ engage' = [engage EXCEPT ![x] = [pc |-> IF hasTask THEN "put" ELSE "count",
                                        run |-> r, seq |-> seq + 1]]
    /\ UNCHANGED <<tables, runner, agents, heartbeats, metrics, wake, reg, restarts>>

PutEngagement(x) ==
    /\ engage[x].pc = "put"
    /\ \/ /\ ~Taken(engage[x].run, engage[x].seq)
          /\ events' = events \union
               {[run |-> engage[x].run, seq |-> engage[x].seq,
                 kind |-> "engagement", status |-> None, by |-> x,
                 agent |-> None]}
          /\ engage' = [engage EXCEPT ![x].pc = "count"]
       \/ /\ Taken(engage[x].run, engage[x].seq)
          /\ engage' = [engage EXCEPT ![x].pc = "failed"]
          /\ UNCHANGED events
    /\ UNCHANGED <<runStatus, taskStatus, records, instances, memory, wake, reg,
                   restarts>>

EngagementDone(x) ==
    /\ engage[x].pc = "count"
    /\ engage' = [engage EXCEPT ![x].pc = "done"]
    /\ metrics' = [metrics EXCEPT !.durable = @ + 1]
    /\ UNCHANGED <<tables, runner, agents, heartbeats, seq, wake, reg, restarts>>

-----------------------------------------------------------------------------
(***************************************************************************)
(* registerAgent(): reads the agent, awaits the file system, and writes    *)
(* back what it read.                                                      *)
(***************************************************************************)
RegisterRead(g, id) ==
    /\ reg[g].pc = "idle"
    /\ reg' = [reg EXCEPT ![g] =
                 [pc |-> IF id \in IdsOf(agents) THEN "replace" ELSE "append",
                  agent |-> IF id \in IdsOf(agents) THEN FindAgent(agents, id)
                            ELSE Agent(id, "idle", 0)]]
    /\ UNCHANGED <<tables, memory, wake, engage, restarts>>

RegisterWrite(g) ==
    /\ reg[g].pc \in {"replace", "append"}
    /\ agents' = IF reg[g].pc = "append" THEN Append(agents, reg[g].agent)
                 ELSE MapAgents(agents, LAMBDA a :
                        IF a.id = reg[g].agent.id THEN reg[g].agent ELSE a)
    /\ reg' = [reg EXCEPT ![g].pc = "persist"]
    /\ UNCHANGED <<tables, runner, heartbeats, metrics, seq, wake, engage, restarts>>

RegisterPersist(g) ==
    /\ reg[g].pc = "persist"
    /\ instances' = [instances EXCEPT ![reg[g].agent.id] =
                       [status |-> "idle", count |-> reg[g].agent.count]]
    /\ reg' = [reg EXCEPT ![g].pc = "done"]
    /\ UNCHANGED <<events, runStatus, taskStatus, records, memory, wake, engage,
                   restarts>>

RegisterFails(g) ==
    /\ reg[g].pc \in {"replace", "append", "persist"}
    /\ reg' = [reg EXCEPT ![g].pc = "done"]
    /\ UNCHANGED <<tables, memory, wake, engage, restarts>>

-----------------------------------------------------------------------------
\* The process ends and a new one initializes before its server listens.
Restart ==
    /\ restarts < MaxRestarts
    /\ restarts' = restarts + 1
    /\ runner' = "ready"
    /\ agents' = FreshAgents
    /\ instances' = DefaultInstances(instances)
    /\ heartbeats' = <<>>
    /\ metrics' = ZeroMetrics
    /\ seq' = 1
    /\ wake' = [w \in Wakes |-> IF wake[w].pc \in Ended THEN wake[w]
                                ELSE [wake[w] EXCEPT !.pc = "aborted"]]
    /\ engage' = [x \in Engagements |->
                    IF engage[x].pc \in {"put", "count"}
                    THEN [engage[x] EXCEPT !.pc = "failed"] ELSE engage[x]]
    /\ reg' = [g \in Registrations |->
                 IF reg[g].pc = "idle" THEN reg[g] ELSE [reg[g] EXCEPT !.pc = "done"]]
    /\ UNCHANGED <<events, runStatus, taskStatus, records>>

\* The server waits for requests, and nothing is under way.
Quiescent ==
    /\ \A w \in Wakes : wake[w].pc \in Ended
    /\ \A x \in Engagements : engage[x].pc \in {"idle", "done", "failed"}
    /\ \A g \in Registrations : reg[g].pc \in {"idle", "done"}
    /\ UNCHANGED vars

Wake(w) ==
    \/ MarkInstances(w)
    \/ Emit(w)
    \/ PutEvent(w)
    \/ UpdateRunStatus(w)
    \/ UpdateTaskStatus(w)
    \/ Emitted(w)
    \/ RunAdapter(w)
    \/ PutActionRecord(w)
    \/ PutHeartbeatRecord(w)
    \/ RecordHeartbeat(w)
    \/ PersistInstance(w)

Engagement(x) == PutEngagement(x) \/ EngagementDone(x)

Registration(g) == RegisterWrite(g) \/ RegisterPersist(g)

Next ==
    \/ \E w \in Wakes : \/ \E target \in AgentIds \union {"all"} : Accept(w, target)
                        \/ Wake(w)
                        \/ WakeFails(w)
    \/ \E x \in Engagements : \/ \E r \in Runs, hasTask \in BOOLEAN :
                                   Engage(x, r, hasTask)
                              \/ Engagement(x)
    \/ \E g \in Registrations : \/ \E id \in AgentIds : RegisterRead(g, id)
                                \/ Registration(g)
                                \/ RegisterFails(g)
    \/ Restart
    \/ Quiescent

Spec == Init /\ [][Next]_vars

-----------------------------------------------------------------------------
WakeType ==
    [pc : Ended \union Active,
     kind : Kinds,
     seq : Nat,
     rest : Seq(AgentState),
     chosen : SUBSET AgentIds,
     todo : SUBSET {"run", "task"},
     ok : BOOLEAN,
     action : {"none", "event", "artifact"},
     bad : BOOLEAN]

TypeOK ==
    /\ events \subseteq Event
    /\ runStatus \in [Runs -> Statuses]
    /\ taskStatus \in [Runs -> Statuses]
    /\ records \subseteq Runs \X (AgentIds \union ArtifactIds)
    /\ instances \in [AgentIds ->
                        [status : {None, "idle", "running", "succeeded", "failed"},
                         count : Nat]]
    /\ runner \in {"ready", "running"}
    /\ agents \in Seq(AgentState)
    /\ heartbeats \in Seq([wake : Wakes, agent : AgentIds, failed : BOOLEAN])
    /\ metrics \in [total : Nat, failed : Nat, artifacts : Nat, durable : Nat]
    /\ seq \in Nat
    /\ wake \in [Wakes -> WakeType]
    /\ engage \in [Engagements -> [pc : {"idle", "put", "count", "done", "failed"},
                                   run : Runs \union {None}, seq : Nat]]
    /\ reg \in [Registrations -> [pc : {"idle", "replace", "append", "persist", "done"},
                                  agent : AgentState \union {NoAgent}]]
    /\ restarts \in Nat

(***************************************************************************)
(* Safety.                                                                 *)
(***************************************************************************)

\* A position in a run's log holds one event, although wakes, engagements and a
\* restarted process draw their numbers without asking the table
\* (resident-runner.ts:914, dynamo-event-sink.ts:27-33).
EventIdentity ==
    \A d, e \in events : d.run = e.run /\ d.seq = e.seq => d = e

\* Two emissions in flight never carry the same number: nextSeq and the use of
\* its result are one segment (resident-runner.ts:756, 914-917).
SeqsInFlightDiffer ==
    /\ \A v, w \in Wakes :
         wake[v].pc = "put" /\ wake[w].pc = "put" /\ wake[v].seq = wake[w].seq
         => v = w
    /\ \A x, y \in Engagements :
         engage[x].pc = "put" /\ engage[y].pc = "put" /\ engage[x].seq = engage[y].seq
         => x = y
    /\ \A w \in Wakes, x \in Engagements :
         wake[w].pc = "put" /\ engage[x].pc = "put" => wake[w].seq # engage[x].seq

\* The status columns never run ahead of the log: a status in either table was
\* first recorded as an event of that run, whatever aborts in between
\* (resident-runner.ts:838-845).
StatusBacked ==
    \A r \in Runs :
        /\ \E e \in events : e.run = r /\ e.status = runStatus[r]
        /\ \E e \in events : e.run = r /\ e.status = taskStatus[r]

Told(w, a, kind) == {e \in events : e.by = w /\ e.agent = a /\ e.kind = kind}

\* The wake put an event of one kind about an agent before one of the other.
ToldInOrder(w, a, first, second) ==
    \E e \in Told(w, a, first), f \in Told(w, a, second) : e.seq < f.seq

HeartbeatTold(h) ==
    /\ <<WakeRun[h.wake], h.agent>> \in records
    /\ ToldInOrder(h.wake, h.agent, "artifact", "response")
    /\ h.failed => ToldInOrder(h.wake, h.agent, "broken", "artifact")

\* A heartbeat the process reports left its evidence first: the artifact row,
\* then the artifact and the response event, and before them the failed status
\* when the adapter failed (resident-runner.ts:417-470).
HeartbeatEvidence == \A i \in DOMAIN heartbeats : HeartbeatTold(heartbeats[i])

\* A wake that ends normally told the whole story: a response of every agent it
\* selected, and a last event that says failed exactly when a heartbeat failed
\* (resident-runner.ts:405-495).
DoneWakeTold ==
    \A w \in Wakes :
        wake[w].pc = "done" =>
            LET told == {e \in events : e.by = w}
            IN  /\ \A a \in wake[w].chosen :
                      \E e \in told : e.agent = a /\ e.kind = "response"
                /\ \E f \in told :
                      /\ f.kind = "final"
                      /\ \A e \in told \ {f} : e.seq < f.seq
                      /\ f.status = "failed" <=> \E e \in told : e.kind = "broken"

\* Once its wake is done, a run nobody else woke shows the final status in both
\* tables, although the two updates of every status race each other
\* (resident-runner.ts:841-844).
FinalStatusStored ==
    \A w \in Wakes :
        /\ wake[w].pc = "done"
        /\ \A v \in Wakes \ {w} :
              WakeRun[v] = WakeRun[w] => wake[v].pc \in {"idle", "rejected"}
        => LET final == IF wake[w].bad THEN "failed" ELSE "succeeded"
           IN  runStatus[WakeRun[w]] = final /\ taskStatus[WakeRun[w]] = final

\* An agent is listed once, also when it is registered anew while a wake runs and
\* the list is rewritten under it (resident-runner.ts:342-373).  With two
\* registrations of one new agent in flight it does not hold: checked with one.
AgentsListedOnce ==
    \A i, j \in DOMAIN agents : agents[i].id = agents[j].id => i = j

\* The log of a run that wakes, engagements and restarts write at a time: a
\* position keeps its one event, and no two emissions under way want the same one
\* (nextSeq, persistEvent).
LogSound == TypeOK /\ EventIdentity /\ SeqsInFlightDiffer

\* The runner, its engagements and its restarts implement, for every run, the log
\* that only grows at free positions (EventLog).
Log(r) == INSTANCE EventLog WITH
            First <- {Queued(r)}, log <- {e \in events : e.run = r}

LogSpec == \A r \in Runs : Log(r)!Spec

\* What a wake leaves behind when it is over: the agents it selected, each still
\* listed once and told of, and its final status in both tables (wake).
WakeOutcome == DoneWakeTold /\ FinalStatusStored /\ AgentsListedOnce

(***************************************************************************)
(* The inductive invariant behind the safety properties: what the control  *)
(* state of a wake implies about the numbers, the statuses and the         *)
(* evidence it left.                                                       *)
(***************************************************************************)
Emitting(w) == wake[w].pc \in {"emit", "put", "put done"}

ControlOf(w) ==
    /\ wake[w].pc \in {"idle", "mark"} => wake[w].kind = "planning"
    /\ wake[w].pc \in Active /\ wake[w].kind # "final" => wake[w].rest # <<>>
    /\ wake[w].pc \in Active /\ wake[w].kind = "final" => Emitting(w)
    /\ wake[w].todo # {} => wake[w].pc \in {"put done", "aborted"}

\* The events of a wake under way lie below the counter, and below the number of
\* the event it is about to put.
NumbersOf(w) ==
    /\ \A e \in events :
         e.by = w =>
            /\ wake[w].pc # "idle"
            /\ wake[w].pc \in Active => e.seq <= seq
            /\ wake[w].pc = "put" => e.seq < wake[w].seq
    /\ wake[w].pc = "put" => wake[w].seq <= seq

\* A status update that is still to come has its event.
TodoOf(w) ==
    wake[w].todo # {} =>
        /\ StatusOf(w, wake[w].kind) # None
        /\ \E e \in events : /\ e.run = WakeRun[w]
                             /\ e.status = StatusOf(w, wake[w].kind)

\* The heartbeat under way has passed the adapter and recorded its failure, has
\* written its artifact row, has put its artifact event and its response event.
PastAdapter(w) ==
    \/ wake[w].pc = "put done" /\ wake[w].kind = "broken"
    \/ Emitting(w) /\ wake[w].kind \in {"action", "artifact", "response"}
    \/ wake[w].pc \in {"action record", "record", "heartbeat"}
PastRecord(w) ==
    \/ Emitting(w) /\ wake[w].kind \in {"artifact", "response"}
    \/ wake[w].pc = "heartbeat"
PastArtifact(w) ==
    \/ wake[w].pc = "put done" /\ wake[w].kind = "artifact"
    \/ Emitting(w) /\ wake[w].kind = "response"
    \/ wake[w].pc = "heartbeat"
PastResponse(w) ==
    \/ wake[w].pc = "put done" /\ wake[w].kind = "response"
    \/ wake[w].pc = "heartbeat"

EvidenceOf(w) ==
    LET a == Head(wake[w].rest).id
    IN  /\ PastAdapter(w) /\ ~wake[w].ok => Told(w, a, "broken") # {}
        /\ PastRecord(w) => <<WakeRun[w], a>> \in records
        /\ PastArtifact(w) => Told(w, a, "artifact") # {}
        /\ PastArtifact(w) /\ ~wake[w].ok => ToldInOrder(w, a, "broken", "artifact")
        /\ PastResponse(w) => ToldInOrder(w, a, "artifact", "response")

WakeFacts(w) == ControlOf(w) /\ NumbersOf(w) /\ TodoOf(w) /\ EvidenceOf(w)

EngagementControl ==
    \A x \in Engagements :
        engage[x].pc = "put" => engage[x].seq <= seq /\ engage[x].run \in Runs

RegistrationControl ==
    \A g \in Registrations :
        reg[g].pc \in {"replace", "append", "persist"} => reg[g].agent \in AgentState

\* What holds between a wake's control state and the tables at every point of
\* wake(), recordUserEngagement() and registerAgent() (resident-runner.ts:269-495);
\* inductive, and it implies the properties above that the proofs are about.
IInv ==
    /\ TypeOK
    /\ \A w \in Wakes : WakeFacts(w)
    /\ EngagementControl
    /\ RegistrationControl
    /\ SeqsInFlightDiffer
    /\ EventIdentity
    /\ StatusBacked
    /\ HeartbeatEvidence

(***************************************************************************)
(* Liveness: an awaited call returns or throws, so a wake that can step    *)
(* does; nothing forces a failure, a restart or a new request.             *)
(***************************************************************************)
FairSpec == Spec /\ \A w \in Wakes : WF_vars(Wake(w))

\* An accepted wake comes to an end, whatever it shares its run, its agents and
\* its numbers with: nothing in wake() waits for another wake, and a position
\* that is taken ends it (resident-runner.ts:379-495).
WakesEnd == \A w \in Wakes : wake[w].pc \notin Ended ~> wake[w].pc \in Ended

=============================================================================
