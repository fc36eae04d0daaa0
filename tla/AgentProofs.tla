---------------------------- MODULE AgentProofs ----------------------------
(***************************************************************************)
(* Proofs about two programs of the agent runtime that share nothing: the  *)
(* Hermes adapter, for any number of wakes, agents, registrations, uploads *)
(* and requests and any output, and the local harness, for any number of   *)
(* attempts, run ids and task ids.                                         *)
(***************************************************************************)
EXTENDS HermesAdapter, LocalHarness, FiniteSetTheorems, WellFoundedInduction, TLAPS

-----------------------------------------------------------------------------
(***************************************************************************)
(* The adapter: the inductive invariant.                                   *)
(***************************************************************************)
Printed == Outputs \cup {<<>>}

SessionNames == Wakes \cup Registrations \cup {Null}

WakeRecord ==
    [pc : {"none", "accepted", "running", "settled", "done", "failed"},
     agent : Agents \cup {Null}, resume : SessionNames,
     outcome : {"none", "ok", "exit", "timeout", "fallback", "error"},
     session : SessionNames, output : Printed,
     events : {<<>>} \cup {ExtractActionableAgentEvents(o) : o \in Printed}]

Handed == {"PATH", "HERMES_HOME", "AGENTS_USER_ENGAGEMENT_TOKEN"}

ChildRecord ==
    [phase : {"none", "running", "exited"}, terminated : BOOLEAN,
     run : Wakes \cup {Null}, keys : SUBSET Handed]

RegistrationRecord ==
    [pc : {"none", "writing", "done"}, agent : Agents \cup {Null},
     session : SessionNames, named : BOOLEAN]

\* A wake that was selected and has not failed, and a registration under way,
\* have their agent.
WakesShape ==
    /\ wakes \in [Wakes -> WakeRecord]
    /\ \A w \in Wakes : wakes[w].pc \notin {"none", "failed"} => wakes[w].agent \in Agents

RegistrationsShape ==
    /\ registrations \in [Registrations -> RegistrationRecord]
    /\ \A g \in Registrations :
         registrations[g].pc # "none" => registrations[g].agent \in Agents

Shape ==
    /\ WakesShape /\ RegistrationsShape
    /\ children \in [Wakes -> ChildRecord]
    /\ sessions \in [Agents -> SessionNames] /\ last \in [Agents -> SessionNames]
    /\ auth \subseteq Uploads \cup {"bootstrap"}
    /\ posts \in 0..MaxPosts

\* A heartbeat that is awaited has its process, which works for the wake's run.
ProcessOf ==
    \A w \in Wakes :
        /\ wakes[w].pc = "running" => children[w].phase = "running"
        /\ children[w].phase # "none" => children[w].run = w

\* A process cannot carry the runner's token, and speaks of its own run if it
\* names none; nobody else carries the token for engagements.  Each request is
\* about something that its path is for.
RequestsOf ==
    \A r \in requests :
        /\ r.subject \in Subjects(r.path)
        /\ \/ /\ r.from \in Wakes /\ children[r.from].phase # "none"
              /\ r.bearer \in {Null, "engagement"}
              /\ ~r.named => r.subject = r.from
           \/ r.from = "outside" /\ r.bearer \in {"runner", Null}

IInv ==
    /\ Shape
    /\ ProcessOf
    /\ RequestsOf
    /\ ChildrenOnlyEngage
    /\ EngagementsAskedFor

-----------------------------------------------------------------------------
(***************************************************************************)
(* Steps that do not concern what is proved.                               *)
(***************************************************************************)

\* A process that was started stays started.
Started == \A w \in Wakes : children[w].phase # "none" => children'[w].phase # "none"

LEMMA RequestsStay ==
    ASSUME RequestsOf, requests' \subseteq requests, Started
    PROVE  RequestsOf'
BY DEF RequestsOf, Started

LEMMA EngagementsStay ==
    ASSUME EngagementsAskedFor, engagements' = engagements, Started
    PROVE  EngagementsAskedFor'
BY DEF EngagementsAskedFor, Started

\* A process gets no variable but those on the list.
LEMMA ChildrenStay ==
    ASSUME Shape', ChildrenOnlyEngage, UNCHANGED <<config, accepted>>
    PROVE  ChildrenOnlyEngage'
<1>1. \A w \in Wakes : children'[w].keys \subseteq Handed
  BY DEF Shape, ChildRecord
<1> QED
  BY <1>1 DEF ChildrenOnlyEngage, Handed

\* The environment of a new process.
LEMMA Environment ==
    ASSUME NEW w
    PROVE  /\ BuildAdapterEnvironment(w).run = w
           /\ BuildAdapterEnvironment(w).keys \subseteq Handed
BY DEF BuildAdapterEnvironment, Handed

-----------------------------------------------------------------------------
(***************************************************************************)
(* The initial state and the steps.                                        *)
(***************************************************************************)
LEMMA InitIInv == Init => IInv
<1> SUFFICES ASSUME Init
             PROVE  IInv
  OBVIOUS
<1>1. Shape
  <2>1. NoWake \in WakeRecord
    BY DEF NoWake, WakeRecord, Printed, SessionNames
  <2>2. NoChild \in ChildRecord /\ NoRegistration \in RegistrationRecord
    BY DEF NoChild, ChildRecord, NoRegistration, RegistrationRecord, SessionNames
  <2>3. posts \in 0..MaxPosts
    BY AdapterAssumption DEF Init
  <2>4. WakesShape /\ RegistrationsShape
    BY <2>1, <2>2 DEF Init, WakesShape, RegistrationsShape, NoWake, NoRegistration
  <2> QED
    BY <2>2, <2>3, <2>4 DEF Init, Shape, SessionNames
<1>2. ProcessOf
  BY DEF Init, ProcessOf, NoWake, NoChild
<1>3. RequestsOf /\ EngagementsAskedFor
  BY DEF Init, RequestsOf, EngagementsAskedFor
<1>4. ChildrenOnlyEngage
  BY DEF Init, ChildrenOnlyEngage, NoChild
<1> QED
  BY <1>1, <1>2, <1>3, <1>4 DEF IInv

\* A post only adds a request.
LEMMA PostStep ==
    ASSUME IInv, NEW from, NEW path, NEW bearer, NEW subject, NEW named \in BOOLEAN,
           Post(from, path, bearer, subject, named), subject \in Subjects(path),
           \/ /\ from \in Wakes /\ children[from].phase # "none"
              /\ bearer \in {Null, "engagement"} /\ (~named => subject = from)
           \/ from = "outside" /\ bearer \in {"runner", Null}
    PROVE  IInv'
<1>1. /\ posts' = posts + 1 /\ posts < MaxPosts
      /\ UNCHANGED <<config, wakes, registrations, children, sessions, last, engagements,
                     accepted, auth>>
      /\ requests' = requests \cup {[from |-> from, path |-> path, bearer |-> bearer,
                                     subject |-> subject, named |-> named]}
  BY DEF Post, agents, posted, credentials
<1>2. posts' \in 0..MaxPosts
  BY <1>1, AdapterAssumption DEF IInv, Shape
<1>3. Shape'
  BY <1>1, <1>2 DEF IInv, Shape, WakesShape, RegistrationsShape
<1>4. RequestsOf'
  BY <1>1 DEF IInv, RequestsOf
<1> QED
  BY <1>1, <1>3, <1>4 DEF IInv, ProcessOf, ChildrenOnlyEngage, EngagementsAskedFor

LEMMA ChildPostsStep ==
    ASSUME IInv, NEW w \in Wakes, NEW path, ChildPosts(w, path)
    PROVE  IInv'
<1>1. "RUNNER_API_TOKEN" \notin children[w].keys
  BY DEF IInv, Shape, ChildRecord, Handed
<1>2. children[w].run = w /\ children[w].phase # "none"
  BY DEF IInv, ProcessOf, ChildPosts
<1>3. PICK b \in {Null, "engagement"} :
        \/ \E subject \in Subjects(path) : Post(w, path, b, subject, TRUE)
        \/ path = "/engagement" /\ Post(w, path, b, w, FALSE)
  BY <1>1, <1>2 DEF ChildPosts
<1>4. path = "/engagement" => w \in Subjects(path)
  BY DEF Subjects
<1> QED
  BY <1>2, <1>3, <1>4, PostStep

LEMMA SpawnStep ==
    ASSUME IInv, NEW w \in Wakes, Spawn(w)
    PROVE  IInv'
<1> DEFINE env == BuildAdapterEnvironment(w)
           child == [phase |-> "running", terminated |-> FALSE, run |-> env.run,
                     keys |-> env.keys]
<1>1. env.run = w /\ env.keys \subseteq Handed
  BY Environment
<1>2. child \in ChildRecord
  BY <1>1 DEF ChildRecord
<1>3. \/ /\ wakes' = [wakes EXCEPT ![w].pc = "running"]
         /\ children' = [children EXCEPT ![w] = child]
      \/ /\ wakes' = [wakes EXCEPT ![w].pc = "settled", ![w].outcome = "error"]
         /\ children' = children
  BY DEF Spawn
<1>4. child.phase = "running" /\ child.run = w
  BY <1>1
<1>5. UNCHANGED <<HeartbeatOnly, sessions, last>>
  BY DEF Spawn
<1> HIDE DEF child, env
<1>6. Shape'
  <2>1. children' \in [Wakes -> ChildRecord]
    BY <1>2, <1>3 DEF IInv, Shape
  <2>2. wakes' \in [Wakes -> WakeRecord]
    BY <1>3 DEF IInv, Shape, WakesShape, WakeRecord
  <2>3. \A v \in Wakes : wakes'[v].pc \notin {"none", "failed"} => wakes'[v].agent \in Agents
    BY <1>3 DEF IInv, Shape, WakesShape, WakeRecord, Spawn
  <2> QED
    BY <1>5, <2>1, <2>2, <2>3 DEF IInv, Shape, WakesShape, RegistrationsShape, HeartbeatOnly, credentials
<1>7. ProcessOf' /\ Started
  BY <1>3, <1>4 DEF IInv, Shape, WakesShape, WakeRecord, ProcessOf, Started, Spawn
<1> QED
  BY <1>5, <1>6, <1>7, RequestsStay, EngagementsStay, ChildrenStay DEF IInv, HeartbeatOnly, posted

\* How a heartbeat ends, whatever was printed.
LEMMA SettleStep ==
    ASSUME Shape, NEW w \in Wakes, NEW outcome \in {"ok", "exit", "timeout", "fallback"},
           NEW session \in SessionNames, NEW output \in Printed,
           wakes[w].pc = "running", Settle(w, outcome, session, output)
    PROVE  /\ WakesShape'
           /\ \A v \in Wakes : wakes'[v].pc = "running" => v # w /\ wakes[v].pc = "running"
<1> DEFINE settled == [wakes[w] EXCEPT !.pc = "settled", !.outcome = outcome,
                                       !.session = session, !.output = output]
<1>1. wakes' = [wakes EXCEPT ![w] = settled]
  BY Zenon DEF Settle, Shape, WakesShape
<1>2. wakes[w] \in WakeRecord /\ wakes[w].agent \in Agents
  BY DEF Shape, WakesShape
<1>3. settled \in WakeRecord /\ settled.pc = "settled" /\ settled.agent \in Agents
  BY <1>2 DEF WakeRecord
<1> HIDE DEF settled
<1> QED
  BY <1>1, <1>3 DEF Shape, WakesShape

LEMMA TimeOutStep ==
    ASSUME IInv, NEW w \in Wakes, TimeOut(w)
    PROVE  IInv'
<1>1. /\ children' = [children EXCEPT ![w].terminated = (children[w].phase = "running")]
      /\ UNCHANGED <<HeartbeatOnly, sessions, last>>
  BY DEF TimeOut
<1>2. wakes[w].resume \in SessionNames /\ Null \in SessionNames
  BY DEF IInv, Shape, WakesShape, WakeRecord, SessionNames
<1>3. /\ WakesShape'
      /\ \A v \in Wakes : wakes'[v].pc = "running" => v # w /\ wakes[v].pc = "running"
  <2>1. PICK o \in {"timeout", "fallback"}, s \in SessionNames : Settle(w, o, s, <<>>)
    BY <1>2 DEF TimeOut
  <2> QED
    BY <2>1, SettleStep DEF IInv, TimeOut, Printed
<1>4. Shape'
  <2>1. [children[w] EXCEPT !.terminated = (children[w].phase = "running")] \in ChildRecord
    BY DEF IInv, Shape, ChildRecord
  <2>2. children' \in [Wakes -> ChildRecord]
    BY <1>1, <2>1 DEF IInv, Shape
  <2> QED
    BY <1>1, <1>3, <2>2 DEF IInv, Shape, RegistrationsShape, HeartbeatOnly, credentials
<1>5. ProcessOf' /\ Started
  BY <1>1, <1>3 DEF IInv, Shape, ChildRecord, ProcessOf, Started
<1> QED
  BY <1>1, <1>4, <1>5, RequestsStay, EngagementsStay, ChildrenStay DEF IInv, HeartbeatOnly, posted

LEMMA ExitStep ==
    ASSUME IInv, NEW w \in Wakes, Exit(w)
    PROVE  IInv'
<1>1. /\ children[w].phase = "running"
      /\ children' = [children EXCEPT ![w].phase = "exited"]
      /\ UNCHANGED <<HeartbeatOnly, sessions>>
  BY DEF Exit
<1>2. wakes[w].resume \in SessionNames /\ {w, Null} \subseteq SessionNames
  BY DEF IInv, Shape, WakesShape, WakeRecord, SessionNames
<1>3. /\ WakesShape'
      /\ \A v \in Wakes : wakes'[v].pc = "running" => v # w /\ wakes[v].pc = "running"
  <2>1. CASE wakes[w].pc # "running"
    BY <2>1 DEF IInv, Shape, WakesShape, Exit
  <2>2. CASE wakes[w].pc = "running"
    <3>1. PICK o \in {"ok", "exit"}, s \in SessionNames, p \in Printed : Settle(w, o, s, p)
      BY <1>2, <2>2 DEF Exit, Printed
    <3> QED
      BY <2>2, <3>1, SettleStep DEF IInv
  <2> QED
    BY <2>1, <2>2
<1>4. last' \in [Agents -> SessionNames]
  <2>1. last' = last \/ last' = [last EXCEPT ![wakes[w].agent] = w]
    BY DEF Exit
  <2> QED
    BY <1>2, <2>1 DEF IInv, Shape
<1>5. Shape'
  <2>1. [children[w] EXCEPT !.phase = "exited"] \in ChildRecord
    BY DEF IInv, Shape, ChildRecord
  <2>2. children' \in [Wakes -> ChildRecord]
    BY <1>1, <2>1 DEF IInv, Shape
  <2> QED
    BY <1>1, <1>3, <1>4, <2>2 DEF IInv, Shape, RegistrationsShape, HeartbeatOnly, credentials
<1>6. ProcessOf' /\ Started
  BY <1>1, <1>3 DEF IInv, Shape, ChildRecord, ProcessOf, Started
<1> QED
  BY <1>1, <1>5, <1>6, RequestsStay, EngagementsStay, ChildrenStay DEF IInv, HeartbeatOnly, posted

\* A step in which a wake ends and no process starts.
LEMMA EndStep ==
    ASSUME IInv, NEW w \in Wakes, NEW new \in WakeRecord,
           wakes' = [wakes EXCEPT ![w] = new],
           new.pc = "failed" \/ (new.pc = "done" /\ new.agent \in Agents),
           sessions' \in [Agents -> SessionNames], last' \in [Agents -> SessionNames],
           UNCHANGED <<HeartbeatOnly, children>>
    PROVE  IInv'
<1>1. WakesShape' /\ \A v \in Wakes : wakes'[v].pc = "running" => wakes[v].pc = "running"
  BY DEF IInv, Shape, WakesShape
<1>2. Shape' /\ ProcessOf' /\ Started
  BY <1>1 DEF IInv, Shape, RegistrationsShape, ProcessOf, Started, HeartbeatOnly, credentials
<1> QED
  BY <1>2, RequestsStay, EngagementsStay, ChildrenStay DEF IInv, HeartbeatOnly, posted

LEMMA FinishHeartbeatStep ==
    ASSUME IInv, NEW w \in Wakes, FinishHeartbeat(w)
    PROVE  IInv'
<1> DEFINE read == ExtractActionableAgentEvents(wakes[w].output)
           done == [wakes[w] EXCEPT !.pc = "done", !.events = read]
<1>1. /\ wakes[w].pc = "settled"
      /\ wakes' = [wakes EXCEPT ![w].pc = "done", ![w].events = read]
      /\ last' = last /\ UNCHANGED <<HeartbeatOnly, children>>
  BY DEF FinishHeartbeat
<1>2. read \in {ExtractActionableAgentEvents(o) : o \in Printed}
  BY DEF IInv, Shape, WakesShape, WakeRecord
<1> HIDE DEF read
<1>3. wakes' = [wakes EXCEPT ![w] = done]
  BY <1>1, Zenon DEF IInv, Shape, WakesShape
<1>4. wakes[w] \in WakeRecord /\ wakes[w].agent \in Agents
  BY <1>1 DEF IInv, Shape, WakesShape
<1>5. done \in WakeRecord /\ done.pc = "done" /\ done.agent \in Agents
  BY <1>2, <1>4 DEF WakeRecord
<1>6. sessions' \in [Agents -> SessionNames] /\ last' \in [Agents -> SessionNames]
  BY <1>1, <1>4 DEF IInv, Shape, WakeRecord, FinishHeartbeat
<1> HIDE DEF done
<1> QED
  BY <1>1, <1>3, <1>5, <1>6, EndStep

LEMMA WakeFailsStep ==
    ASSUME IInv, NEW w \in Wakes, WakeFails(w)
    PROVE  IInv'
<1>1. PICK failed : failed = [NoWake EXCEPT !.pc = "failed"]
  OBVIOUS
<1>2. wakes' = [wakes EXCEPT ![w] = failed]
  BY <1>1 DEF WakeFails
<1>3. failed \in WakeRecord /\ failed.pc = "failed"
  BY <1>1 DEF NoWake, WakeRecord, Printed, SessionNames
<1>4. sessions' \in [Agents -> SessionNames] /\ last' \in [Agents -> SessionNames]
  BY DEF IInv, Shape, WakesShape, WakeRecord, WakeFails
<1>5. UNCHANGED <<HeartbeatOnly, children>>
  BY DEF WakeFails
<1> QED
  BY <1>2, <1>3, <1>4, <1>5, EndStep

LEMMA PutAgentStep ==
    ASSUME IInv, NEW g \in Registrations, PutAgent(g)
    PROVE  IInv'
<1>1. registrations[g] \in RegistrationRecord /\ registrations[g].agent \in Agents
  BY DEF IInv, Shape, RegistrationsShape, PutAgent
<1>2. [registrations[g] EXCEPT !.pc = "done"] \in RegistrationRecord
  BY <1>1 DEF RegistrationRecord
<1>3. RegistrationsShape'
  BY <1>1, <1>2 DEF IInv, Shape, RegistrationsShape, PutAgent, RegistrationRecord
<1>4. sessions' \in [Agents -> SessionNames] /\ last' \in [Agents -> SessionNames]
  BY <1>1 DEF IInv, Shape, PutAgent, RegistrationRecord
<1>5. UNCHANGED <<config, requests, posts, wakes, children, accepted, engagements, auth>>
  BY DEF PutAgent, posted, credentials
<1>6. Shape' /\ ProcessOf' /\ Started
  BY <1>3, <1>4, <1>5 DEF IInv, Shape, WakesShape, ProcessOf, Started
<1> QED
  BY <1>5, <1>6, RequestsStay, EngagementsStay, ChildrenStay DEF IInv

LEMMA WriteHermesAuthStep ==
    ASSUME IInv, WriteHermesAuth
    PROVE  IInv'
<1>1. /\ UNCHANGED <<config, requests, posts, wakes, registrations, children, sessions, last,
                     accepted, engagements>>
      /\ auth' \subseteq Uploads \cup {"bootstrap"}
  BY DEF IInv, Shape, WriteHermesAuth, agents, posted
<1>2. Shape' /\ ProcessOf' /\ Started
  BY <1>1 DEF IInv, Shape, WakesShape, RegistrationsShape, ProcessOf, Started
<1> QED
  BY <1>1, <1>2, RequestsStay, EngagementsStay, ChildrenStay DEF IInv

-----------------------------------------------------------------------------
(***************************************************************************)
(* A request that is taken.                                                *)
(***************************************************************************)

\* With a token set, a process passes only as one that asks for an engagement,
\* and nobody else passes as that.
LEMMA WhoPasses ==
    ASSUME RequestsOf, NEW r \in requests, Authorize(r)
    PROVE  /\ r.path = "/engagement" => /\ r.from \in Wakes /\ children[r.from].phase # "none"
                                        /\ ~r.named => r.subject = r.from
           /\ config.token /\ r.from \in Wakes => r.path = "/engagement"
BY AdapterAssumption DEF RequestsOf, Authorize

LEMMA AcceptedStep ==
    ASSUME IInv, NEW r \in requests, Handle(r)
    PROVE  ChildrenOnlyEngage'
<1>1. UNCHANGED <<config, children>>
  BY DEF Handle
<1>2. CASE accepted' = accepted
  BY <1>1, <1>2 DEF IInv, ChildrenOnlyEngage
<1>3. CASE /\ Authorize(r) /\ r.from \in Wakes
           /\ accepted' = accepted \cup {[from |-> r.from, path |-> r.path]}
  BY <1>1, <1>3, WhoPasses DEF IInv, ChildrenOnlyEngage
<1> QED
  BY <1>2, <1>3 DEF Handle, posted

LEMMA EngagedStep ==
    ASSUME IInv, NEW r \in requests, Handle(r)
    PROVE  EngagementsAskedFor'
<1>1. children' = children
  BY DEF Handle
<1>2. CASE engagements' = engagements
  BY <1>1, <1>2, EngagementsStay DEF IInv, Started
<1>3. CASE /\ Authorize(r) /\ r.path = "/engagement"
           /\ engagements' = engagements \cup
                {[run |-> r.subject, from |-> r.from, named |-> r.named]}
  BY <1>1, <1>3, WhoPasses DEF IInv, EngagementsAskedFor
<1> QED
  BY <1>2, <1>3 DEF Handle, posted

LEMMA AcceptWakeStep ==
    ASSUME IInv, NEW w \in Wakes, AcceptWake(w), children' = children
    PROVE  WakesShape' /\ ProcessOf'
<1>1. PICK a \in Agents :
        wakes' = [wakes EXCEPT ![w] = [NoWake EXCEPT !.pc = "accepted", !.agent = a,
                                                     !.resume = sessions[a]]]
  BY DEF AcceptWake
<1> DEFINE taken == [NoWake EXCEPT !.pc = "accepted", !.agent = a, !.resume = sessions[a]]
<1>2. taken \in WakeRecord /\ taken.pc = "accepted" /\ taken.agent \in Agents
  BY <1>1 DEF IInv, Shape, NoWake, WakeRecord, Printed, SessionNames
<1> HIDE DEF taken
<1> QED
  BY <1>1, <1>2 DEF IInv, Shape, WakesShape, ProcessOf, taken

LEMMA RegisterAgentStep ==
    ASSUME IInv, NEW g \in Registrations, RegisterAgent(g)
    PROVE  RegistrationsShape'
<1>1. PICK a \in Agents, named \in BOOLEAN :
        registrations' = [registrations EXCEPT ![g] =
          [pc |-> "writing", agent |-> a, named |-> named,
           session |-> IF named THEN g ELSE sessions[a]]]
  BY DEF RegisterAgent
<1> DEFINE new == [pc |-> "writing", agent |-> a, named |-> named,
                   session |-> IF named THEN g ELSE sessions[a]]
<1>2. new \in RegistrationRecord /\ new.agent \in Agents
  BY <1>1 DEF IInv, Shape, RegistrationRecord, SessionNames
<1> HIDE DEF new
<1> QED
  BY <1>1, <1>2 DEF IInv, Shape, RegistrationsShape, new

LEMMA StoreStep ==
    ASSUME Shape, NEW u \in Uploads, StoreHermesAuth(u)
    PROVE  auth' \subseteq Uploads \cup {"bootstrap"}
BY DEF Shape, StoreHermesAuth

LEMMA HandleStep ==
    ASSUME IInv, NEW r \in requests, Handle(r)
    PROVE  IInv'
<1>1. /\ UNCHANGED <<children, sessions, last, posts>> /\ requests' \subseteq requests
  BY DEF Handle
<1> DEFINE s == r.subject
<1>0. /\ r.path = "/wake" => s \in Wakes
      /\ r.path = "/agents" => s \in Registrations
      /\ r.path = "/credentials/hermes-auth" => s \in Uploads
  BY DEF IInv, RequestsOf, Subjects
<1>2. WakesShape' /\ ProcessOf'
  <2>1. CASE wakes' = wakes
    BY <1>1, <2>1 DEF IInv, Shape, WakesShape, ProcessOf
  <2>2. CASE r.subject \in Wakes /\ AcceptWake(r.subject)
    BY <1>1, <2>2, AcceptWakeStep
  <2> QED
    BY <1>0, <2>1, <2>2 DEF Handle, RegisterAgent
<1>3. RegistrationsShape'
  <2>1. CASE registrations' = registrations
    BY <2>1 DEF IInv, Shape, RegistrationsShape
  <2>2. CASE r.subject \in Registrations /\ RegisterAgent(r.subject)
    BY <2>2, RegisterAgentStep
  <2> QED
    BY <1>0, <2>1, <2>2 DEF Handle, AcceptWake
<1>4. auth' \subseteq Uploads \cup {"bootstrap"}
  <2>1. CASE auth' = auth
    BY <2>1 DEF IInv, Shape
  <2>2. CASE r.subject \in Uploads /\ StoreHermesAuth(r.subject)
    BY <2>2, StoreStep DEF IInv
  <2> QED
    BY <1>0, <2>1, <2>2 DEF Handle, credentials
<1>5. Shape'
  BY <1>1, <1>2, <1>3, <1>4 DEF IInv, Shape
<1>6. RequestsOf'
  BY <1>1, RequestsStay DEF IInv, Started
<1> QED
  BY <1>2, <1>5, <1>6, AcceptedStep, EngagedStep DEF IInv

-----------------------------------------------------------------------------
(***************************************************************************)
(* The theorem.                                                            *)
(***************************************************************************)
LEMMA StepIInv == IInv /\ [Next]_vars => IInv'
<1> SUFFICES ASSUME IInv, [Next]_vars
             PROVE  IInv'
  OBVIOUS
<1>1. ASSUME NEW path \in Paths, OutsidePosts(path)
      PROVE  IInv'
  BY <1>1, PostStep DEF OutsidePosts
<1>2. ASSUME NEW w \in Wakes, NEW path \in Paths, ChildPosts(w, path)
      PROVE  IInv'
  BY <1>2, ChildPostsStep
<1>3. ASSUME NEW r \in requests, Handle(r)
      PROVE  IInv'
  BY <1>3, HandleStep
<1>4. ASSUME NEW w \in Wakes,
             Spawn(w) \/ TimeOut(w) \/ Exit(w) \/ FinishHeartbeat(w) \/ WakeFails(w)
      PROVE  IInv'
  BY <1>4, SpawnStep, TimeOutStep, ExitStep, FinishHeartbeatStep, WakeFailsStep
<1>5. ASSUME NEW g \in Registrations, PutAgent(g)
      PROVE  IInv'
  BY <1>5, PutAgentStep
<1>6. CASE WriteHermesAuth
  BY <1>6, WriteHermesAuthStep
<1>7. CASE UNCHANGED vars
  BY <1>7 DEF vars, agents, posted, credentials, IInv, Shape, WakesShape, RegistrationsShape,
              ProcessOf, RequestsOf, ChildrenOnlyEngage, EngagementsAskedFor
<1> QED
  BY <1>1, <1>2, <1>3, <1>4, <1>5, <1>6, <1>7 DEF Next

LEMMA IInvImpliesPostsSound == IInv => PostsSound
<1> SUFFICES ASSUME IInv
             PROVE  TypeOK
  BY DEF IInv, PostsSound
<1>1. \A w \in Wakes : wakes[w] \in WakeRecord /\ children[w] \in ChildRecord
  BY DEF IInv, Shape, WakesShape
<1>2. \A g \in Registrations : registrations[g] \in RegistrationRecord
  BY DEF IInv, Shape, RegistrationsShape
<1> QED
  BY <1>1, <1>2 DEF IInv, Shape, ProcessOf, TypeOK, WakeRecord, ChildRecord, RegistrationRecord,
                    SessionNames

\* Whatever the child processes post, of whatever run, whenever they end, and
\* however their heartbeats, the registrations, the uploads and a shutdown
\* interleave: with a runner token set they are let in only to ask for an
\* engagement, they hold neither that token nor the task's credentials, only
\* started processes have engagements recorded, and one that names no run has it
\* recorded for its own (resident-runner-server.ts, buildAdapterEnvironment).
THEOREM PostsCorrect == Spec => []PostsSound
<1>1. Init => IInv
  BY InitIInv
<1>2. IInv /\ [Next]_vars => IInv'
  BY StepIInv
<1>3. IInv => PostsSound
  BY IInvImpliesPostsSound
<1> QED
  BY <1>1, <1>2, <1>3, PTL DEF Spec

-----------------------------------------------------------------------------
(***************************************************************************)
(* What is read from an output.  The loop over its blocks is a recursive   *)
(* function: that there is one, and what it comes to, is shown by looking  *)
(* at the least number of blocks for which it would be otherwise.          *)
(***************************************************************************)
LEMMA LeastNatural ==
    ASSUME NEW T, T \subseteq Nat, T # {}
    PROVE  \E i \in T : \A j \in T : i <= j
<1>1. IsWellFoundedOn(OpToRel(<, Nat), Nat)
  BY NatLessThanWellFounded
<1>2. PICK i \in T : \A j \in T : ~(<<j, i>> \in OpToRel(<, Nat))
  BY <1>1, WFMin
<1>3. \A k, j \in Nat : j < k => <<j, k>> \in OpToRel(<, Nat)
  BY DEF OpToRel
<1>4. \A j \in T : ~(j < i)
  BY <1>2, <1>3
<1> QED
  BY <1>4

\* f holds what was read after each of the first n blocks.
Reads(o, f, n) ==
    f = [k \in 0..n |-> IF k = 0 THEN <<>>
                        ELSE IF Usable(o[k]) THEN Append(f[k - 1], Emitted(o[k]))
                        ELSE f[k - 1]]

LEMMA SomethingIsRead ==
    ASSUME NEW o, NEW n \in Nat
    PROVE  \E f : Reads(o, f, n)
<1> DEFINE T == {m \in Nat : ~ \E f : Reads(o, f, m)}
<1>1. SUFFICES ASSUME T # {} PROVE FALSE
  OBVIOUS
<1>2. PICK m \in T : \A j \in T : m <= j
  BY <1>1, LeastNatural
<1>3. CASE m = 0
  <2> DEFINE f == [k \in 0..0 |-> <<>>]
  <2>1. Reads(o, f, 0)
    BY DEF Reads
  <2> QED
    BY <1>3, <2>1
<1>4. CASE m # 0
  <2>1. m - 1 \in Nat /\ m \in Nat /\ m - 1 \notin T
    BY <1>2, <1>4
  <2>2. PICK g : Reads(o, g, m - 1)
    BY <2>1
  <2> DEFINE entry == IF Usable(o[m]) THEN Append(g[m - 1], Emitted(o[m])) ELSE g[m - 1]
             f == [k \in 0..m |-> IF k = m THEN entry ELSE g[k]]
  <2> HIDE DEF entry
  <2>3. \A k \in 0..(m - 1) : f[k] = g[k] /\ k \in 0..m
    BY <2>1
  <2>4. f[m] = entry
    BY <2>1
  <2>5. \A k \in 0..(m - 1) :
          g[k] = IF k = 0 THEN <<>>
                 ELSE IF Usable(o[k]) THEN Append(g[k - 1], Emitted(o[k]))
                 ELSE g[k - 1]
    BY <2>2 DEF Reads
  <2>6. \A k \in 0..m :
          f[k] = IF k = 0 THEN <<>>
                 ELSE IF Usable(o[k]) THEN Append(f[k - 1], Emitted(o[k]))
                 ELSE f[k - 1]
    <3>1. ASSUME NEW k \in 0..m, k # m
          PROVE  f[k] = IF k = 0 THEN <<>>
                        ELSE IF Usable(o[k]) THEN Append(f[k - 1], Emitted(o[k]))
                        ELSE f[k - 1]
      <4>1. k \in 0..(m - 1) /\ (k # 0 => k - 1 \in 0..(m - 1))
        BY <2>1, <3>1
      <4> QED
        BY <2>3, <2>5, <4>1
    <3>2. f[m] = IF Usable(o[m]) THEN Append(f[m - 1], Emitted(o[m])) ELSE f[m - 1]
      <4>1. f[m - 1] = g[m - 1]
        BY <2>1, <2>3
      <4> QED
        BY <2>4, <4>1 DEF entry
    <3> QED
      BY <1>4, <3>1, <3>2
  <2>7. f = [k \in 0..m |-> f[k]]
    OBVIOUS
  <2> HIDE DEF f
  <2>8. Reads(o, f, m)
    BY <2>6, <2>7 DEF Reads
  <2> QED
    BY <1>2, <2>8
<1> QED
  BY <1>3, <1>4

LEMMA ExtractReads ==
    ASSUME NEW o, Len(o) \in Nat
    PROVE  \E f : Reads(o, f, Len(o)) /\ ExtractActionableAgentEvents(o) = f[Len(o)]
<1> DEFINE f == CHOOSE g : Reads(o, g, Len(o))
<1>1. Reads(o, f, Len(o))
  BY SomethingIsRead
<1>2. ExtractActionableAgentEvents(o) = f[Len(o)]
  BY DEF ExtractActionableAgentEvents, Reads
<1> QED
  BY <1>1, <1>2

\* The usable ones among the first k blocks.
UsableTo(o, k) == {j \in 1..k : Usable(o[j])}

LEMMA UsableAreFew ==
    ASSUME NEW o, NEW k \in Nat
    PROVE  IsFiniteSet(UsableTo(o, k)) /\ Cardinality(UsableTo(o, k)) \in Nat
<1>1. IsFiniteSet(1..k)
  BY FS_Interval
<1>2. UsableTo(o, k) \in SUBSET (1..k)
  BY DEF UsableTo
<1>3. IsFiniteSet(UsableTo(o, k))
  BY <1>1, <1>2, FS_Subset
<1> QED
  BY <1>3, FS_CardinalityType

\* After k blocks what was read is every usable one's event, at its place.
Whole(o, f, k) ==
    /\ f[k] \in Seq({Emitted(o[j]) : j \in 1..Len(o)})
    /\ Len(f[k]) = Cardinality(UsableTo(o, k))
    /\ \A j \in 1..k : Usable(o[j]) =>
         /\ Cardinality(UsableTo(o, j)) \in 1..Len(f[k])
         /\ f[k][Cardinality(UsableTo(o, j))] = Emitted(o[j])

LEMMA NextBlock ==
    ASSUME NEW o, Len(o) \in Nat, NEW f, Reads(o, f, Len(o)),
           NEW k \in 1..Len(o), Whole(o, f, k - 1)
    PROVE  Whole(o, f, k)
<1> DEFINE E == {Emitted(o[j]) : j \in 1..Len(o)}
           before == UsableTo(o, k - 1)
<1>1. k - 1 \in Nat /\ k \in Nat /\ k \in 0..Len(o) /\ k # 0
  OBVIOUS
<1>2. f[k] = IF Usable(o[k]) THEN Append(f[k - 1], Emitted(o[k])) ELSE f[k - 1]
  BY <1>1 DEF Reads
<1>3. /\ IsFiniteSet(before) /\ Cardinality(before) \in Nat
  BY <1>1, UsableAreFew
<1>4. /\ f[k - 1] \in Seq(E) /\ Len(f[k - 1]) = Cardinality(before)
      /\ \A j \in 1..(k - 1) : Usable(o[j]) =>
           /\ Cardinality(UsableTo(o, j)) \in 1..Len(f[k - 1])
           /\ f[k - 1][Cardinality(UsableTo(o, j))] = Emitted(o[j])
  BY DEF Whole
<1>5. CASE ~Usable(o[k])
  <2>1. UsableTo(o, k) = before
    BY <1>1, <1>5 DEF UsableTo
  <2>2. \A j \in 1..k : Usable(o[j]) => j \in 1..(k - 1)
    BY <1>1, <1>5
  <2>3. f[k] = f[k - 1]
    BY <1>2, <1>5
  <2> QED
    BY <1>4, <2>1, <2>2, <2>3 DEF Whole
<1>6. CASE Usable(o[k])
  <2> DEFINE event == Emitted(o[k])
             s == f[k - 1]
             n == Cardinality(before)
  <2>1. UsableTo(o, k) = before \cup {k} /\ k \notin before
    BY <1>1, <1>6 DEF UsableTo
  <2>2. Cardinality(UsableTo(o, k)) = n + 1
    BY <1>3, <2>1, FS_AddElement
  <2>3. event \in E
    BY <1>1
  <2>4. s \in Seq(E) /\ Len(s) = n /\ n \in Nat
    BY <1>3, <1>4
  <2>5. ASSUME NEW j \in 1..(k - 1), Usable(o[j])
        PROVE  Cardinality(UsableTo(o, j)) \in 1..n /\ s[Cardinality(UsableTo(o, j))] = Emitted(o[j])
    BY <1>4, <2>4, <2>5
  <2>6. f[k] = Append(s, event)
    BY <1>2, <1>6
  <2> HIDE DEF event, s, n, E
  <2>7. /\ Append(s, event) \in Seq(E) /\ Len(Append(s, event)) = n + 1
        /\ Append(s, event)[n + 1] = event
        /\ \A i \in 1..n : Append(s, event)[i] = s[i]
    BY <2>3, <2>4
  <2>8. ASSUME NEW j \in 1..k, Usable(o[j])
        PROVE  /\ Cardinality(UsableTo(o, j)) \in 1..(n + 1)
               /\ Append(s, event)[Cardinality(UsableTo(o, j))] = Emitted(o[j])
    <3>1. CASE j = k
      BY <2>2, <2>4, <2>7, <3>1 DEF event
    <3>2. CASE j # k
      <4>1. j \in 1..(k - 1)
        BY <1>1, <3>2
      <4>2. Cardinality(UsableTo(o, j)) \in 1..n /\ s[Cardinality(UsableTo(o, j))] = Emitted(o[j])
        BY <2>5, <2>8, <4>1
      <4> QED
        BY <2>4, <2>7, <4>2
    <3> QED
      BY <3>1, <3>2
  <2> QED
    BY <2>2, <2>6, <2>7, <2>8 DEF Whole, E
<1> QED
  BY <1>5, <1>6

\* What extractActionableAgentEvents returns (resident-runner.ts:1148-1172): one
\* event for each usable block, in their order, under a current name.
LEMMA ExtractIsWhole ==
    ASSUME NEW o, o \in Seq({o[k] : k \in DOMAIN o})
    PROVE  LET found == ExtractActionableAgentEvents(o)
           IN  /\ Len(found) = Cardinality({k \in DOMAIN o : Usable(o[k])})
               /\ \A k \in DOMAIN o : Usable(o[k]) =>
                    found[Cardinality({j \in 1..k : Usable(o[j])})] = Emitted(o[k])
               /\ \A k \in DOMAIN found : found[k].type \notin DOMAIN Legacy
<1>1. Len(o) \in Nat /\ DOMAIN o = 1..Len(o)
  OBVIOUS
<1>2. PICK f : Reads(o, f, Len(o)) /\ ExtractActionableAgentEvents(o) = f[Len(o)]
  BY <1>1, ExtractReads
<1>3. Whole(o, f, 0)
  <2>1. f[0] = <<>>
    BY <1>1, <1>2 DEF Reads
  <2>2. UsableTo(o, 0) = {}
    BY DEF UsableTo
  <2>3. Cardinality(UsableTo(o, 0)) = 0
    BY <2>2, FS_EmptySet
  <2>4. f[0] \in Seq({Emitted(o[j]) : j \in 1..Len(o)}) /\ Len(f[0]) = 0
    BY <2>1
  <2> QED
    BY <2>3, <2>4 DEF Whole
<1>4. \A k \in 0..Len(o) : Whole(o, f, k)
  <2> DEFINE T == {k \in 0..Len(o) : ~Whole(o, f, k)}
  <2>1. SUFFICES ASSUME T # {} PROVE FALSE
    OBVIOUS
  <2>2. PICK m \in T : \A j \in T : m <= j
    <3>1. T \subseteq Nat
      BY <1>1
    <3> QED
      BY <2>1, <3>1, LeastNatural
  <2>3. m # 0 /\ m \in 1..Len(o) /\ m - 1 \in 0..Len(o) /\ m - 1 \notin T
    BY <1>1, <1>3, <2>2
  <2>4. Whole(o, f, m - 1)
    BY <2>3
  <2> QED
    BY <1>1, <1>2, <2>2, <2>3, <2>4, NextBlock
<1>5. Whole(o, f, Len(o))
  BY <1>1, <1>4
<1>6. \A j : Emitted(o[j]).type \notin DOMAIN Legacy
  BY DEF Emitted, NormalizeActionableEventType, Legacy
<1> DEFINE found == f[Len(o)]
<1>7. \A k \in DOMAIN found : found[k] \in {Emitted(o[j]) : j \in 1..Len(o)}
  BY <1>5 DEF Whole
<1>8. \A k \in DOMAIN found : found[k].type \notin DOMAIN Legacy
  BY <1>6, <1>7
<1>9. UsableTo(o, Len(o)) = {k \in DOMAIN o : Usable(o[k])}
  BY <1>1 DEF UsableTo
<1>10. \A k \in DOMAIN o : {j \in 1..k : Usable(o[j])} = UsableTo(o, k)
  BY DEF UsableTo
<1> QED
  BY <1>1, <1>2, <1>5, <1>8, <1>9, <1>10 DEF Whole

-----------------------------------------------------------------------------
(***************************************************************************)
(* Wakes, the sessions of their agents, and the credentials.               *)
(***************************************************************************)

\* A heartbeat reports the session it resumed, one of its own, or none; one that
\* was not started or was given up has no output.
Heartbeats ==
    \A w \in Wakes :
        /\ wakes[w].pc \in {"accepted", "running"} =>
             wakes[w].session = Null /\ wakes[w].output = <<>>
        /\ wakes[w].pc = "settled" => wakes[w].session \in {Null, w, wakes[w].resume}
        /\ wakes[w].outcome \in {"timeout", "fallback", "error"} => wakes[w].output = <<>>
        /\ wakes[w].pc = "done" =>
             wakes[w].events = ExtractActionableAgentEvents(wakes[w].output)

\* The process reported a session of its own, which the agent's state does not
\* have yet.
Reported(w) == wakes[w].pc = "settled" /\ wakes[w].session = w

\* An agent has one wake or one registration at a time, the wake resumes the
\* session of its state and the registration writes that back if it has none of
\* its own; and that is the session reported last, but for one just reported.
SessionOf(a) ==
    /\ Active(a) = {} \/ Registering(a) = {}
    /\ \A v, w \in Active(a) : v = w
    /\ \A g, h \in Registering(a) : g = h
    /\ Active(a) = {} => last[a] = sessions[a]
    /\ \A w \in Active(a) : /\ wakes[w].resume = sessions[a]
                            /\ last[a] = IF Reported(w) THEN w ELSE sessions[a]
    /\ \A g \in Registering(a) : ~registrations[g].named => registrations[g].session = sessions[a]

Sessions == \A a \in Agents : a \notin overlapped => SessionOf(a)

\* At most one upload is being written, auth.json is empty for as long, and holds
\* the newest otherwise.
Credentials ==
    /\ uploads \in [Uploads -> {"none", "truncated", "stored", "refused"}]
    /\ "auth" \notin overlapped =>
         /\ \A u, v \in Uploads :
              uploads[u] = "truncated" /\ uploads[v] = "truncated" => u = v
         /\ \A u \in Uploads : uploads[u] = "truncated" => auth = {} /\ newest = u
         /\ (\A u \in Uploads : uploads[u] # "truncated") => auth = {newest}

WInv == IInv /\ Heartbeats /\ Sessions /\ Credentials

LEMMA InitWInv == Init => WInv
<1> SUFFICES ASSUME Init
             PROVE  Heartbeats /\ Sessions /\ Credentials
  BY InitIInv DEF WInv
<1>1. /\ \A w \in Wakes : wakes[w] = NoWake
      /\ \A g \in Registrations : registrations[g] = NoRegistration
  BY DEF Init
<1>2. Heartbeats
  BY <1>1 DEF Heartbeats, NoWake
<1>3. Sessions
  BY <1>1 DEF Init, Sessions, SessionOf, Active, Registering, NoWake, NoRegistration
<1>4. Credentials
  <2>1. \A u \in Uploads : uploads[u] = "none"
    BY DEF Init
  <2>2. auth = {"bootstrap"} /\ newest = "bootstrap" /\ uploads \in [Uploads -> {"none"}]
    BY DEF Init
  <2> QED
    BY <2>1, <2>2 DEF Credentials
<1> QED
  BY <1>2, <1>3, <1>4

LEMMA CredentialsStay ==
    ASSUME Credentials, UNCHANGED credentials, overlapped' = overlapped
    PROVE  Credentials'
BY DEF Credentials, credentials

LEMMA UnmovedWakes ==
    ASSUME Heartbeats, Sessions, UNCHANGED agents, overlapped \subseteq overlapped'
    PROVE  Heartbeats' /\ Sessions'
BY DEF Heartbeats, Sessions, SessionOf, Active, Registering, Reported, agents

\* A step of one wake disturbs no other, if what it makes of that one is right.
LEMMA OthersBeat ==
    ASSUME Shape, Heartbeats, NEW w \in Wakes, NEW new, wakes' = [wakes EXCEPT ![w] = new],
           new.pc \in {"accepted", "running"} => new.session = Null /\ new.output = <<>>,
           new.pc = "settled" => new.session \in {Null, w, new.resume},
           new.outcome \in {"timeout", "fallback", "error"} => new.output = <<>>,
           new.pc = "done" => new.events = ExtractActionableAgentEvents(new.output)
    PROVE  Heartbeats'
<1>1. wakes'[w] = new /\ \A v \in Wakes : v # w => wakes'[v] = wakes[v]
  BY DEF Shape, WakesShape
<1> QED
  BY <1>1 DEF Heartbeats

\* An agent is where it was if its wakes, its registrations and its state are.
LEMMA OtherAgent ==
    ASSUME NEW b, SessionOf(b), sessions'[b] = sessions[b], last'[b] = last[b],
           Active(b)' = Active(b), Registering(b)' = Registering(b),
           \A v \in Active(b) : wakes'[v] = wakes[v],
           \A g \in Registering(b) : registrations'[g] = registrations[g]
    PROVE  SessionOf(b)'
BY DEF SessionOf, Reported

\* A step of an agent's wake leaves the other agents where they were.
LEMMA WakeOfAgent ==
    ASSUME Shape, Sessions, NEW w \in Wakes, NEW new, NEW a,
           wakes' = [wakes EXCEPT ![w] = new], registrations' = registrations,
           wakes[w].agent = a \/ wakes[w].pc = "none", new.agent = a \/ new.pc = "failed",
           \A b \in Agents : b # a => sessions'[b] = sessions[b] /\ last'[b] = last[b],
           overlapped \subseteq overlapped',
           a \in Agents /\ a \notin overlapped' => SessionOf(a)'
    PROVE  Sessions'
<1>1. wakes'[w] = new /\ \A v \in Wakes : v # w => wakes'[v] = wakes[v]
  BY DEF Shape, WakesShape
<1>2. ASSUME NEW b \in Agents, b \notin overlapped', b # a
      PROVE  SessionOf(b)'
  <2>1. SessionOf(b)
    BY <1>2 DEF Sessions
  <2>2. w \notin Active(b) /\ w \notin Active(b)'
    BY <1>1, <1>2 DEF Active
  <2>3. Active(b)' = Active(b)
    BY <1>1, <2>2 DEF Active
  <2>4. \A v \in Active(b) : wakes'[v] = wakes[v]
    BY <1>1, <2>2 DEF Active
  <2>5. Registering(b)' = Registering(b)
    BY DEF Registering
  <2>6. sessions'[b] = sessions[b] /\ last'[b] = last[b]
    BY <1>2
  <2> QED
    BY <2>1, <2>3, <2>4, <2>5, <2>6, OtherAgent
<1> QED
  BY <1>2 DEF Sessions

\* The agent of a wake that is active.
LEMMA ActiveAgent ==
    ASSUME Shape, Sessions, NEW w \in Wakes, NEW a, a = wakes[w].agent,
           wakes[w].pc \in {"accepted", "running", "settled"}, a \notin overlapped
    PROVE  /\ a \in Agents /\ SessionOf(a)
           /\ Active(a) = {w} /\ Registering(a) = {}
           /\ wakes[w].resume = sessions[a]
           /\ last[a] = IF Reported(w) THEN w ELSE sessions[a]
<1>1. a \in Agents
  BY DEF Shape, WakesShape
<1>2. SessionOf(a)
  BY <1>1 DEF Sessions
<1>3. w \in Active(a)
  BY DEF Active
<1> QED
  BY <1>1, <1>2, <1>3 DEF SessionOf

\* A step within a heartbeat: its process starts, or it settles.
LEMMA WithinHeartbeat ==
    ASSUME WInv, IInv', UNCHANGED <<HeartbeatOnly, sessions>>,
           NEW w \in Wakes, wakes[w].pc \in {"accepted", "running"},
           NEW new, wakes' = [wakes EXCEPT ![w] = new],
           new.agent = wakes[w].agent, new.resume = wakes[w].resume,
           \/ new.pc = "running" /\ new.session = Null /\ new.output = <<>>
              /\ new.outcome = wakes[w].outcome /\ last' = last
           \/ /\ new.pc = "settled" /\ new.session \in {Null, wakes[w].resume} /\ last' = last
              /\ new.outcome \in {"timeout", "fallback", "error"} => new.output = <<>>
           \/ /\ new.pc = "settled" /\ new.session = w
              /\ last' = [last EXCEPT ![wakes[w].agent] = w]
              /\ new.outcome \in {"timeout", "fallback", "error"} => new.output = <<>>
    PROVE  WInv'
<1>1. Shape /\ Heartbeats /\ Sessions /\ Credentials
  BY DEF WInv, IInv
<1>2. wakes'[w] = new /\ \A v \in Wakes : v # w => wakes'[v] = wakes[v]
  BY <1>1 DEF Shape, WakesShape
<1>3. UNCHANGED <<registrations, overlapped>> /\ UNCHANGED credentials
  BY DEF HeartbeatOnly
<1>4. Heartbeats'
  <2>1. new.pc \in {"accepted", "running"} => new.session = Null /\ new.output = <<>>
    OBVIOUS
  <2>2. new.pc = "settled" => new.session \in {Null, w, new.resume}
    OBVIOUS
  <2>3. wakes[w].output = <<>>
    BY <1>1 DEF Heartbeats
  <2>4. new.outcome \in {"timeout", "fallback", "error"} => new.output = <<>>
    BY <2>3
  <2>5. new.pc # "done"
    OBVIOUS
  <2> QED
    BY <1>1, <2>1, <2>2, <2>4, <2>5, OthersBeat
<1>11. PICK a : a = wakes[w].agent
  OBVIOUS
<1>5. ASSUME a \notin overlapped'
      PROVE  SessionOf(a)'
  <2>1. /\ a \in Agents /\ SessionOf(a)
        /\ Active(a) = {w} /\ Registering(a) = {} /\ wakes[w].resume = sessions[a]
        /\ last[a] = IF Reported(w) THEN w ELSE sessions[a]
    BY <1>1, <1>3, <1>5, <1>11, ActiveAgent
  <2>2. last[a] = sessions[a] /\ wakes[w].session = Null /\ w # Null
    BY <1>1, <2>1, AdapterAssumption DEF Reported, Heartbeats
  <2>3. Active(a)' = {w}
    BY <1>2, <2>1 DEF Active
  <2>4. Registering(a)' = {}
    BY <1>3, <2>1 DEF Registering
  <2>5. wakes'[w].resume = sessions'[a]
    BY <1>2, <2>1
  <2>6. last'[a] = IF Reported(w)' THEN w ELSE sessions'[a]
    <3>1. last \in [Agents -> SessionNames]
      BY <1>1 DEF Shape
    <3>2. CASE new.session = w /\ new.pc = "settled" /\ last' = [last EXCEPT ![a] = w]
      BY <1>2, <2>1, <3>1, <3>2 DEF Reported
    <3>3. CASE new.pc = "running" /\ new.session = Null /\ last' = last
      BY <1>2, <2>2, <3>3 DEF Reported
    <3>4. CASE new.session \in {Null, wakes[w].resume} /\ last' = last
      BY <1>2, <2>1, <2>2, <3>4 DEF Reported
    <3> QED
      BY <1>11, <3>2, <3>3, <3>4
  <2> QED
    BY <2>3, <2>4, <2>5, <2>6 DEF SessionOf
<1>6. \A b \in Agents : b # a => sessions'[b] = sessions[b] /\ last'[b] = last[b]
  BY <1>1, <1>11 DEF Shape
<1>7. overlapped \subseteq overlapped'
  BY <1>3
<1>8. wakes[w].agent = a /\ new.agent = a
  BY <1>11
<1>9. Sessions'
  BY <1>1, <1>3, <1>5, <1>6, <1>7, <1>8, WakeOfAgent
<1>10. Credentials'
  BY <1>1, <1>3, CredentialsStay
<1> QED
  BY <1>4, <1>9, <1>10 DEF WInv

LEMMA SpawnKeeps ==
    ASSUME WInv, IInv', NEW w \in Wakes, Spawn(w)
    PROVE  WInv'
<1>1. wakes \in [Wakes -> WakeRecord] /\ wakes[w] \in WakeRecord
  BY DEF WInv, IInv, Shape, WakesShape
<1>2. wakes[w].pc = "accepted" /\ wakes[w].session = Null /\ wakes[w].output = <<>>
  BY DEF Spawn, WInv, Heartbeats
<1>3. UNCHANGED <<HeartbeatOnly, sessions>> /\ last' = last
  BY DEF Spawn
<1>4. CASE wakes' = [wakes EXCEPT ![w].pc = "running"]
  <2> DEFINE new == [wakes[w] EXCEPT !.pc = "running"]
  <2>1. wakes' = [wakes EXCEPT ![w] = new]
    BY <1>4, <1>1, Zenon
  <2>2. /\ new.agent = wakes[w].agent /\ new.resume = wakes[w].resume
        /\ new.pc = "running" /\ new.session = Null /\ new.output = <<>>
        /\ new.outcome = wakes[w].outcome
    BY <1>1, <1>2 DEF WakeRecord
  <2> HIDE DEF new
  <2> QED
    BY <1>2, <1>3, <2>1, <2>2, WithinHeartbeat
<1>5. CASE wakes' = [wakes EXCEPT ![w].pc = "settled", ![w].outcome = "error"]
  <2> DEFINE new == [wakes[w] EXCEPT !.pc = "settled", !.outcome = "error"]
  <2>1. wakes' = [wakes EXCEPT ![w] = new]
    BY <1>5, <1>1, Zenon
  <2>2. /\ new.agent = wakes[w].agent /\ new.resume = wakes[w].resume
        /\ new.pc = "settled" /\ new.session = Null /\ new.output = <<>>
    BY <1>1, <1>2 DEF WakeRecord
  <2> HIDE DEF new
  <2> QED
    BY <1>2, <1>3, <2>1, <2>2, WithinHeartbeat
<1> QED
  BY <1>4, <1>5 DEF Spawn

LEMMA SettleKeeps ==
    ASSUME WInv, IInv', UNCHANGED <<HeartbeatOnly, sessions>>,
           NEW w \in Wakes, NEW outcome, NEW session, NEW output,
           wakes[w].pc = "running", Settle(w, outcome, session, output),
           outcome \in {"timeout", "fallback", "error"} => output = <<>>,
           \/ session \in {Null, wakes[w].resume} /\ last' = last
           \/ session = w /\ last' = [last EXCEPT ![wakes[w].agent] = w]
    PROVE  WInv'
<1> DEFINE new == [wakes[w] EXCEPT !.pc = "settled", !.outcome = outcome,
                                   !.session = session, !.output = output]
<1>1. wakes \in [Wakes -> WakeRecord] /\ wakes[w] \in WakeRecord
  BY DEF WInv, IInv, Shape, WakesShape
<1>2. wakes' = [wakes EXCEPT ![w] = new]
  BY <1>1, Zenon DEF Settle
<1>3. /\ new.agent = wakes[w].agent /\ new.resume = wakes[w].resume
      /\ new.pc = "settled" /\ new.session = session
      /\ new.outcome = outcome /\ new.output = output
  BY <1>1 DEF WakeRecord
<1> HIDE DEF new
<1> QED
  BY <1>2, <1>3, WithinHeartbeat

LEMMA TimeOutKeeps ==
    ASSUME WInv, IInv', NEW w \in Wakes, TimeOut(w)
    PROVE  WInv'
<1>1. PICK o \in {"timeout", "fallback"}, s \in {Null, wakes[w].resume} :
        Settle(w, o, s, <<>>)
  BY DEF TimeOut
<1>2. wakes[w].pc = "running" /\ last' = last /\ UNCHANGED <<HeartbeatOnly, sessions>>
  BY DEF TimeOut
<1> QED
  BY <1>1, <1>2, SettleKeeps

LEMMA ExitKeeps ==
    ASSUME WInv, IInv', NEW w \in Wakes, Exit(w)
    PROVE  WInv'
<1>1. UNCHANGED <<HeartbeatOnly, sessions>>
  BY DEF Exit
<1>2. CASE wakes[w].pc # "running"
  <2>1. UNCHANGED agents /\ UNCHANGED credentials /\ overlapped' = overlapped
    BY <1>1, <1>2 DEF Exit, HeartbeatOnly, agents
  <2>2. Heartbeats' /\ Sessions'
    BY <2>1, UnmovedWakes DEF WInv
  <2>3. Credentials'
    BY <2>1, CredentialsStay DEF WInv
  <2> QED
    BY <2>2, <2>3 DEF WInv
<1>3. CASE wakes[w].pc = "running"
  <2>1. PICK o \in {"ok", "exit"}, s \in {Null, w, wakes[w].resume}, p \in Outputs :
          /\ Settle(w, o, s, p)
          /\ \/ s \in {Null, wakes[w].resume} /\ last' = last
             \/ s = w /\ last' = [last EXCEPT ![wakes[w].agent] = w]
    BY <1>3 DEF Exit
  <2>2. o \notin {"timeout", "fallback", "error"}
    OBVIOUS
  <2> QED
    BY <1>1, <1>3, <2>1, <2>2, SettleKeeps
<1> QED
  BY <1>2, <1>3

\* A wake is selected: an agent that has one already is noted as overlapped.
LEMMA AcceptWakeKeeps ==
    ASSUME WInv, NEW w \in Wakes, AcceptWake(w), UNCHANGED <<sessions, last>>
    PROVE  Heartbeats' /\ Sessions'
<1> DEFINE new(a) == [NoWake EXCEPT !.pc = "accepted", !.agent = a, !.resume = sessions[a]]
<1>1. PICK a \in Agents : wakes' = [wakes EXCEPT ![w] = new(a)] /\ NoteOverlap(a)
  BY DEF AcceptWake
<1>2. PICK taken : taken = new(a)
  OBVIOUS
<1>3. /\ taken.pc = "accepted" /\ taken.agent = a /\ taken.resume = sessions[a]
      /\ taken.session = Null /\ taken.output = <<>> /\ taken.outcome = "none"
  BY <1>2 DEF NoWake
<1>4. wakes' = [wakes EXCEPT ![w] = taken]
  BY <1>1, <1>2
<1> HIDE DEF new
<1>5. wakes[w].pc = "none" /\ registrations' = registrations
  BY DEF AcceptWake
<1>6. Shape /\ Heartbeats /\ Sessions
  BY DEF WInv, IInv
<1>7. Heartbeats'
  <2>1. taken.pc \in {"accepted", "running"} => taken.session = Null /\ taken.output = <<>>
    BY <1>3
  <2>2. taken.pc = "settled" => taken.session \in {Null, w, taken.resume}
    BY <1>3
  <2>3. taken.outcome \in {"timeout", "fallback", "error"} => taken.output = <<>>
    BY <1>3
  <2>4. taken.pc # "done"
    BY <1>3
  <2> QED
    BY <1>4, <1>6, <2>1, <2>2, <2>3, <2>4, OthersBeat
<1>8. overlapped \subseteq overlapped'
  BY <1>1 DEF NoteOverlap
<1>9. ASSUME a \notin overlapped'
      PROVE  SessionOf(a)'
  <2>1. Active(a) = {} /\ Registering(a) = {} /\ a \notin overlapped
    BY <1>1, <1>9 DEF NoteOverlap
  <2>2. wakes'[w] = taken /\ \A v \in Wakes : v # w => wakes'[v] = wakes[v]
    BY <1>4, <1>6 DEF Shape, WakesShape
  <2>3. Active(a)' = {w}
    BY <1>3, <2>1, <2>2 DEF Active
  <2>4. Registering(a)' = {}
    BY <1>5, <2>1 DEF Registering
  <2>5. last[a] = sessions[a]
    BY <1>1, <1>6, <2>1 DEF Sessions, SessionOf
  <2>6. ~Reported(w)'
    BY <1>3, <2>2 DEF Reported
  <2>7. wakes'[w].resume = sessions'[a] /\ last'[a] = sessions'[a]
    BY <1>3, <2>2, <2>5
  <2> QED
    BY <2>3, <2>4, <2>6, <2>7 DEF SessionOf
<1>10. Sessions'
  BY <1>3, <1>4, <1>5, <1>6, <1>8, <1>9, WakeOfAgent
<1> QED
  BY <1>7, <1>10

\* A wake that ends leaves its agent without one, with the session reported last.
Ends(w, new, a) ==
    /\ wakes[w].pc \in {"accepted", "settled"} /\ a = wakes[w].agent
    /\ wakes' = [wakes EXCEPT ![w] = new]
    /\ UNCHANGED <<HeartbeatOnly, children>>
    /\ \/ new.pc = "failed"
       \/ new.pc = "done" /\ new.agent = a
          /\ new.events = ExtractActionableAgentEvents(new.output)
    /\ new.outcome \in {"timeout", "fallback", "error"} => new.output = <<>>
    /\ \A b \in Agents : b # a => sessions'[b] = sessions[b] /\ last'[b] = last[b]
    /\ a \notin overlapped => last'[a] = sessions'[a]

LEMMA EndKeeps ==
    ASSUME WInv, IInv', NEW w \in Wakes, NEW new, NEW a, Ends(w, new, a)
    PROVE  WInv'
<1>0. /\ wakes[w].pc \in {"accepted", "settled"} /\ a = wakes[w].agent
      /\ wakes' = [wakes EXCEPT ![w] = new]
      /\ UNCHANGED <<HeartbeatOnly, children>>
      /\ \/ new.pc = "failed"
         \/ new.pc = "done" /\ new.agent = a
            /\ new.events = ExtractActionableAgentEvents(new.output)
      /\ new.outcome \in {"timeout", "fallback", "error"} => new.output = <<>>
      /\ \A b \in Agents : b # a => sessions'[b] = sessions[b] /\ last'[b] = last[b]
      /\ a \notin overlapped => last'[a] = sessions'[a]
  BY DEF Ends
<1>1. Shape /\ Heartbeats /\ Sessions /\ Credentials
  BY DEF WInv, IInv
<1>2. UNCHANGED <<registrations, overlapped>> /\ UNCHANGED credentials
  BY <1>0 DEF HeartbeatOnly
<1>3. Heartbeats'
  <2>1. new.pc \notin {"accepted", "running", "settled"}
    BY <1>0
  <2>2. new.pc = "done" => new.events = ExtractActionableAgentEvents(new.output)
    BY <1>0
  <2> QED
    BY <1>0, <1>1, <2>1, <2>2, OthersBeat
<1>4. ASSUME a \notin overlapped'
      PROVE  SessionOf(a)'
  <2>1. Active(a) = {w} /\ Registering(a) = {}
    BY <1>0, <1>1, <1>2, <1>4, ActiveAgent
  <2>2. wakes'[w] = new /\ \A v \in Wakes : v # w => wakes'[v] = wakes[v]
    BY <1>0, <1>1 DEF Shape, WakesShape
  <2>3. Active(a)' = {}
    BY <1>0, <2>1, <2>2 DEF Active
  <2>4. Registering(a)' = {}
    BY <1>2, <2>1 DEF Registering
  <2>5. last'[a] = sessions'[a]
    BY <1>0, <1>2, <1>4
  <2> QED
    BY <2>3, <2>4, <2>5 DEF SessionOf
<1>5. Sessions'
  <2>1. overlapped \subseteq overlapped' /\ registrations' = registrations
    BY <1>2
  <2>2. new.agent = a \/ new.pc = "failed"
    BY <1>0
  <2>3. wakes[w].agent = a
    BY <1>0
  <2>4. a \in Agents /\ a \notin overlapped' => SessionOf(a)'
    BY <1>4
  <2> QED
    BY <1>0, <1>1, <2>1, <2>2, <2>3, <2>4, WakeOfAgent
<1>6. Credentials'
  BY <1>1, <1>2, CredentialsStay
<1> QED
  BY <1>3, <1>5, <1>6 DEF WInv

\* A heartbeat's session becomes the agent's.
LEMMA FinishKeeps ==
    ASSUME WInv, IInv', NEW w \in Wakes, FinishHeartbeat(w)
    PROVE  WInv'
<1> DEFINE read == ExtractActionableAgentEvents(wakes[w].output)
           new == [wakes[w] EXCEPT !.pc = "done", !.events = read]
           s == wakes[w].session
<1>0. PICK a : a = wakes[w].agent
  OBVIOUS
<1>1. /\ wakes[w].pc = "settled" /\ last' = last
      /\ wakes' = [wakes EXCEPT ![w].pc = "done", ![w].events = read]
      /\ sessions' = IF s = Null THEN sessions ELSE [sessions EXCEPT ![a] = s]
      /\ UNCHANGED <<HeartbeatOnly, children>>
  BY <1>0 DEF FinishHeartbeat
<1>2. /\ wakes \in [Wakes -> WakeRecord] /\ wakes[w] \in WakeRecord /\ a \in Agents
      /\ sessions \in [Agents -> SessionNames]
  BY <1>0, <1>1 DEF WInv, IInv, Shape, WakesShape
<1>3. wakes' = [wakes EXCEPT ![w] = new]
  BY <1>1, <1>2, Zenon
<1>4. PICK taken : taken = new
  OBVIOUS
<1>5. /\ taken.pc = "done" /\ taken.events = read /\ taken.output = wakes[w].output
      /\ taken.agent = a /\ taken.outcome = wakes[w].outcome
  BY <1>0, <1>2, <1>4 DEF WakeRecord
<1>6. taken.events = ExtractActionableAgentEvents(taken.output)
  BY <1>5
<1>7. taken.outcome \in {"timeout", "fallback", "error"} => taken.output = <<>>
  BY <1>5 DEF WInv, Heartbeats
<1>8. s \in {Null, w, wakes[w].resume} /\ w # Null
  BY <1>1, AdapterAssumption DEF WInv, Heartbeats
<1>9. \A b \in Agents : sessions'[b] = IF s # Null /\ b = a THEN s ELSE sessions[b]
  BY <1>1, <1>2
<1>10. a \notin overlapped => last'[a] = sessions'[a]
  <2> SUFFICES ASSUME a \notin overlapped PROVE last'[a] = sessions'[a]
    OBVIOUS
  <2>1. wakes[w].resume = sessions[a] /\ last[a] = IF Reported(w) THEN w ELSE sessions[a]
    BY <1>0, <1>1, ActiveAgent DEF WInv, IInv
  <2>2. Reported(w) <=> s = w
    BY <1>1 DEF Reported
  <2> HIDE DEF s
  <2> QED
    BY <1>1, <1>2, <1>8, <1>9, <2>1, <2>2
<1>11. \A b \in Agents : b # a => sessions'[b] = sessions[b] /\ last'[b] = last[b]
  BY <1>1, <1>9
<1>12. wakes' = [wakes EXCEPT ![w] = taken] /\ a = wakes[w].agent
  BY <1>0, <1>3, <1>4
<1> HIDE DEF new, read, s
<1>13. wakes[w].pc \in {"accepted", "settled"}
  BY <1>1
<1>14. UNCHANGED <<HeartbeatOnly, children>>
  BY <1>1
<1>15. \/ taken.pc = "failed"
       \/ taken.pc = "done" /\ taken.agent = a
          /\ taken.events = ExtractActionableAgentEvents(taken.output)
  BY <1>5, <1>6
<1> QED
  BY <1>7, <1>10, <1>11, <1>12, <1>13, <1>14, <1>15, EndKeeps DEF Ends

\* A wake that is given up keeps nothing of what its process reported.
LEMMA FailsKeeps ==
    ASSUME WInv, IInv', NEW w \in Wakes, WakeFails(w)
    PROVE  WInv'
<1>7. PICK a : a = wakes[w].agent
  OBVIOUS
<1>1. PICK failed : failed = [NoWake EXCEPT !.pc = "failed"]
  OBVIOUS
<1>2. /\ wakes[w].pc \in {"accepted", "settled"}
      /\ wakes' = [wakes EXCEPT ![w] = failed] /\ sessions' = sessions
      /\ last' = IF wakes[w].session = w THEN [last EXCEPT ![a] = wakes[w].resume] ELSE last
      /\ UNCHANGED <<HeartbeatOnly, children>>
  BY <1>1, <1>7 DEF WakeFails
<1>3. failed.pc = "failed" /\ failed.output = <<>>
  BY <1>1 DEF NoWake
<1>4. a \in Agents /\ last \in [Agents -> SessionNames]
  BY <1>2, <1>7 DEF WInv, IInv, Shape, WakesShape
<1>5. \A b \in Agents : b # a => sessions'[b] = sessions[b] /\ last'[b] = last[b]
  BY <1>2, <1>4
<1>6. a \notin overlapped => last'[a] = sessions'[a]
  <2> SUFFICES ASSUME a \notin overlapped PROVE last'[a] = sessions'[a]
    OBVIOUS
  <2>1. wakes[w].resume = sessions[a] /\ last[a] = IF Reported(w) THEN w ELSE sessions[a]
    BY <1>2, <1>7, ActiveAgent DEF WInv, IInv
  <2> QED
    BY <1>2, <1>4, <2>1 DEF Reported
<1>8. wakes[w].pc \in {"accepted", "settled"}
  BY <1>2
<1>9. UNCHANGED <<HeartbeatOnly, children>>
  BY <1>2
<1>10. wakes' = [wakes EXCEPT ![w] = failed]
  BY <1>2
<1>11. failed.outcome \in {"timeout", "fallback", "error"} => failed.output = <<>>
  BY <1>3
<1>12. \/ failed.pc = "failed"
       \/ failed.pc = "done" /\ failed.agent = a
          /\ failed.events = ExtractActionableAgentEvents(failed.output)
  BY <1>3
<1> QED
  BY <1>5, <1>6, <1>7, <1>8, <1>9, <1>10, <1>11, <1>12, EndKeeps DEF Ends

\* A step of an agent's registration leaves the other agents where they were.
LEMMA RegistrationOfAgent ==
    ASSUME Shape, Sessions, NEW g \in Registrations, NEW new, NEW a,
           registrations' = [registrations EXCEPT ![g] = new], wakes' = wakes,
           registrations[g].agent = a \/ registrations[g].pc = "none", new.agent = a,
           \A b \in Agents : b # a => sessions'[b] = sessions[b] /\ last'[b] = last[b],
           overlapped \subseteq overlapped',
           a \in Agents /\ a \notin overlapped' => SessionOf(a)'
    PROVE  Sessions'
<1>1. registrations'[g] = new
      /\ \A h \in Registrations : h # g => registrations'[h] = registrations[h]
  BY DEF Shape, RegistrationsShape
<1>2. ASSUME NEW b \in Agents, b \notin overlapped', b # a
      PROVE  SessionOf(b)'
  <2>1. SessionOf(b)
    BY <1>2 DEF Sessions
  <2>2. g \notin Registering(b) /\ g \notin Registering(b)'
    BY <1>1, <1>2 DEF Registering
  <2>3. Registering(b)' = Registering(b)
    BY <1>1, <2>2 DEF Registering
  <2>4. \A h \in Registering(b) : registrations'[h] = registrations[h]
    BY <1>1, <2>2 DEF Registering
  <2>5. Active(b)' = Active(b) /\ \A v \in Active(b) : wakes'[v] = wakes[v]
    BY DEF Active
  <2>6. sessions'[b] = sessions[b] /\ last'[b] = last[b]
    BY <1>2
  <2> QED
    BY <2>1, <2>3, <2>4, <2>5, <2>6, OtherAgent
<1> QED
  BY <1>2 DEF Sessions

\* A registration begins: an agent that is busy is noted as overlapped.
LEMMA RegisterKeeps ==
    ASSUME WInv, NEW g \in Registrations, RegisterAgent(g), UNCHANGED <<sessions, last>>
    PROVE  Heartbeats' /\ Sessions'
<1> DEFINE new(a, named) == [pc |-> "writing", agent |-> a, named |-> named,
                             session |-> IF named THEN g ELSE sessions[a]]
<1>1. PICK a \in Agents, named \in BOOLEAN :
        registrations' = [registrations EXCEPT ![g] = new(a, named)] /\ NoteOverlap(a)
  BY DEF RegisterAgent
<1>2. PICK taken : taken = new(a, named)
  OBVIOUS
<1>3. /\ taken.pc = "writing" /\ taken.agent = a /\ taken.named = named
      /\ taken.session = IF named THEN g ELSE sessions[a]
  BY <1>2
<1>4. registrations' = [registrations EXCEPT ![g] = taken]
  BY <1>1, <1>2
<1> HIDE DEF new
<1>5. registrations[g].pc = "none" /\ wakes' = wakes
  BY DEF RegisterAgent
<1>6. Shape /\ Heartbeats /\ Sessions
  BY DEF WInv, IInv
<1>7. Heartbeats'
  BY <1>5, <1>6 DEF Heartbeats
<1>8. overlapped \subseteq overlapped'
  BY <1>1 DEF NoteOverlap
<1>9. ASSUME a \notin overlapped'
      PROVE  SessionOf(a)'
  <2>1. Active(a) = {} /\ Registering(a) = {} /\ a \notin overlapped
    BY <1>1, <1>9 DEF NoteOverlap
  <2>2. registrations'[g] = taken
        /\ \A h \in Registrations : h # g => registrations'[h] = registrations[h]
    BY <1>4, <1>6 DEF Shape, RegistrationsShape
  <2>3. Registering(a)' = {g}
    BY <1>3, <2>1, <2>2 DEF Registering
  <2>4. Active(a)' = {}
    BY <1>5, <2>1 DEF Active
  <2>5. last[a] = sessions[a]
    BY <1>1, <1>6, <2>1 DEF Sessions, SessionOf
  <2>6. last'[a] = sessions'[a]
        /\ (~registrations'[g].named => registrations'[g].session = sessions'[a])
    BY <1>3, <2>2, <2>5
  <2> QED
    BY <2>3, <2>4, <2>6 DEF SessionOf
<1>10. Sessions'
  BY <1>3, <1>4, <1>5, <1>6, <1>8, <1>9, RegistrationOfAgent
<1> QED
  BY <1>7, <1>10

\* The agent is replaced by what the registration made of it.
LEMMA PutAgentKeeps ==
    ASSUME WInv, IInv', NEW g \in Registrations, PutAgent(g)
    PROVE  WInv'
<1>0. PICK a, s, named : /\ a = registrations[g].agent /\ s = registrations[g].session
                         /\ named = registrations[g].named
  OBVIOUS
<1>1. Shape /\ Heartbeats /\ Sessions /\ Credentials
  BY DEF WInv, IInv
<1>2. /\ registrations[g].pc = "writing"
      /\ wakes' = wakes /\ overlapped' = overlapped /\ UNCHANGED credentials
      /\ \/ /\ sessions' = [sessions EXCEPT ![a] = s]
            /\ last' = IF named THEN [last EXCEPT ![a] = s] ELSE last
         \/ sessions' = sessions /\ last' = last
  BY <1>0 DEF PutAgent
<1>3. /\ registrations \in [Registrations -> RegistrationRecord]
      /\ registrations[g] \in RegistrationRecord /\ a \in Agents
      /\ sessions \in [Agents -> SessionNames] /\ last \in [Agents -> SessionNames]
  BY <1>0, <1>1, <1>2 DEF Shape, RegistrationsShape
<1>4. PICK taken : taken = [registrations[g] EXCEPT !.pc = "done"]
  OBVIOUS
<1>5. taken.pc = "done" /\ taken.agent = a
  BY <1>0, <1>3, <1>4 DEF RegistrationRecord
<1>6. registrations' = [registrations EXCEPT ![g] = taken]
  <2>1. registrations' = [registrations EXCEPT ![g].pc = "done"]
    BY DEF PutAgent
  <2>2. registrations' = [registrations EXCEPT ![g] = [registrations[g] EXCEPT !.pc = "done"]]
    BY <1>3, <2>1, Zenon
  <2> QED
    BY <1>4, <2>2
<1>7. Heartbeats'
  BY <1>1, <1>2 DEF Heartbeats
<1>8. ASSUME a \notin overlapped'
      PROVE  SessionOf(a)'
  <2>1. SessionOf(a)
    BY <1>1, <1>2, <1>3, <1>8 DEF Sessions
  <2>2. g \in Registering(a)
    BY <1>0, <1>2 DEF Registering
  <2>3. /\ Active(a) = {} /\ Registering(a) = {g} /\ last[a] = sessions[a]
        /\ ~named => s = sessions[a]
    BY <1>0, <2>1, <2>2 DEF SessionOf
  <2>4. registrations'[g] = taken
        /\ \A h \in Registrations : h # g => registrations'[h] = registrations[h]
    BY <1>3, <1>6
  <2>5. Registering(a)' = {}
    BY <1>5, <2>3, <2>4 DEF Registering
  <2>6. Active(a)' = {}
    BY <1>2, <2>3 DEF Active
  <2>7. last'[a] = sessions'[a]
    BY <1>2, <1>3, <2>3
  <2> QED
    BY <2>5, <2>6, <2>7 DEF SessionOf
<1>9. \A b \in Agents : b # a => sessions'[b] = sessions[b] /\ last'[b] = last[b]
  BY <1>2, <1>3
<1>10. overlapped \subseteq overlapped' /\ registrations[g].agent = a
  BY <1>0, <1>2
<1>11. Sessions'
  BY <1>1, <1>2, <1>5, <1>6, <1>8, <1>9, <1>10, RegistrationOfAgent
<1>12. Credentials'
  BY <1>1, <1>2, CredentialsStay
<1> QED
  BY <1>7, <1>11, <1>12 DEF WInv

\* An upload's file is truncated, and written later.
LEMMA StoreKeeps ==
    ASSUME Credentials, NEW u \in Uploads, StoreHermesAuth(u)
    PROVE  Credentials' /\ overlapped \subseteq overlapped'
<1>1. PICK s \in {"truncated", "refused"} :
        /\ uploads' = [uploads EXCEPT ![u] = s]
        /\ auth' = IF s = "truncated" THEN {} ELSE auth
        /\ newest' = IF s = "truncated" THEN u ELSE newest
        /\ overlapped' = IF s = "truncated" /\ "truncated" \in {uploads[o] : o \in Uploads}
                         THEN overlapped \cup {"auth"} ELSE overlapped
  BY DEF StoreHermesAuth, SerializeHermesAuth
<1>2. /\ uploads \in [Uploads -> {"none", "truncated", "stored", "refused"}]
      /\ uploads[u] = "none"
  BY DEF Credentials, StoreHermesAuth
<1>3. /\ uploads' \in [Uploads -> {"none", "truncated", "stored", "refused"}]
      /\ uploads'[u] = s /\ \A v \in Uploads : v # u => uploads'[v] = uploads[v]
  BY <1>1, <1>2
<1>4. overlapped \subseteq overlapped'
  BY <1>1
<1>5. ASSUME "auth" \notin overlapped'
      PROVE  /\ \A t, v \in Uploads :
                  uploads'[t] = "truncated" /\ uploads'[v] = "truncated" => t = v
             /\ \A t \in Uploads : uploads'[t] = "truncated" => auth' = {} /\ newest' = t
             /\ (\A t \in Uploads : uploads'[t] # "truncated") => auth' = {newest'}
  <2>1. "auth" \notin overlapped
    BY <1>4, <1>5
  <2>2. CASE s = "truncated"
    <3>1. \A v \in Uploads : uploads[v] # "truncated"
      BY <1>1, <1>5, <2>2
    <3> QED
      BY <1>1, <1>3, <2>2, <3>1
  <2>3. CASE s = "refused"
    <3>1. /\ \A v \in Uploads : uploads'[v] = "truncated" <=> uploads[v] = "truncated"
          /\ auth' = auth /\ newest' = newest
      BY <1>1, <1>2, <1>3, <2>3
    <3> QED
      BY <2>1, <3>1 DEF Credentials
  <2> QED
    BY <2>2, <2>3
<1> QED
  BY <1>3, <1>4, <1>5 DEF Credentials

LEMMA WriteKeeps ==
    ASSUME WInv, IInv', WriteHermesAuth
    PROVE  WInv'
<1>1. PICK u \in Uploads : /\ uploads[u] = "truncated"
                           /\ uploads' = [uploads EXCEPT ![u] = "stored"]
                           /\ auth' \in {auth \cup {u}, {u}}
  BY DEF WriteHermesAuth
<1>2. uploads \in [Uploads -> {"none", "truncated", "stored", "refused"}]
  BY DEF WInv, Credentials
<1>3. UNCHANGED agents /\ newest' = newest /\ overlapped' = overlapped
  BY DEF WriteHermesAuth
<1>4. /\ uploads' \in [Uploads -> {"none", "truncated", "stored", "refused"}]
      /\ uploads'[u] = "stored" /\ \A v \in Uploads : v # u => uploads'[v] = uploads[v]
  BY <1>1, <1>2
<1>5. "auth" \notin overlapped =>
        auth' = {newest'} /\ \A v \in Uploads : uploads'[v] # "truncated"
  BY <1>1, <1>3, <1>4 DEF WInv, Credentials
<1>6. Credentials'
  BY <1>3, <1>4, <1>5 DEF Credentials
<1>7. Heartbeats' /\ Sessions'
  BY <1>3, UnmovedWakes DEF WInv
<1> QED
  BY <1>6, <1>7 DEF WInv

\* Whether two uploads overlapped is noted by uploads only.
LEMMA CredentialsKept ==
    ASSUME Credentials, UNCHANGED credentials, overlapped \subseteq overlapped'
    PROVE  Credentials'
BY DEF Credentials, credentials

LEMMA HandleKeeps ==
    ASSUME WInv, IInv', NEW r \in requests, Handle(r)
    PROVE  WInv'
<1> DEFINE s == r.subject
<1>1. UNCHANGED <<sessions, last>>
  BY DEF Handle
<1>2. /\ r.path = "/wake" => s \in Wakes
      /\ r.path = "/agents" => s \in Registrations
      /\ r.path = "/credentials/hermes-auth" => s \in Uploads
  BY DEF WInv, IInv, RequestsOf, Subjects
<1>3. CASE UNCHANGED <<wakes, registrations, overlapped>> /\ UNCHANGED credentials
  <2>1. UNCHANGED agents
    BY <1>1, <1>3 DEF agents
  <2> QED
    BY <1>3, <2>1, UnmovedWakes, CredentialsStay DEF WInv
<1>4. CASE s \in Wakes /\ AcceptWake(s) /\ UNCHANGED credentials
  <2>1. overlapped \subseteq overlapped'
    BY <1>4 DEF AcceptWake, NoteOverlap
  <2> QED
    BY <1>1, <1>4, <2>1, AcceptWakeKeeps, CredentialsKept DEF WInv
<1>5. CASE s \in Registrations /\ RegisterAgent(s) /\ UNCHANGED credentials
  <2>1. overlapped \subseteq overlapped'
    BY <1>5 DEF RegisterAgent, NoteOverlap
  <2> QED
    BY <1>1, <1>5, <2>1, RegisterKeeps, CredentialsKept DEF WInv
<1>6. CASE s \in Uploads /\ StoreHermesAuth(s) /\ UNCHANGED <<wakes, registrations>>
  <2>1. Credentials' /\ overlapped \subseteq overlapped'
    BY <1>6, StoreKeeps DEF WInv
  <2>2. UNCHANGED agents
    BY <1>1, <1>6 DEF agents
  <2> QED
    BY <2>1, <2>2, UnmovedWakes DEF WInv
<1> QED
  BY <1>2, <1>3, <1>4, <1>5, <1>6 DEF Handle

LEMMA StepWInv == WInv /\ [Next]_vars => WInv'
<1> SUFFICES ASSUME WInv, [Next]_vars
             PROVE  WInv'
  OBVIOUS
<1>1. IInv'
  BY StepIInv DEF WInv
<1>2. CASE UNCHANGED agents /\ UNCHANGED credentials /\ overlapped' = overlapped
  BY <1>1, <1>2, UnmovedWakes, CredentialsStay DEF WInv
<1>3. ASSUME NEW path \in Paths, OutsidePosts(path)
      PROVE  UNCHANGED agents /\ UNCHANGED credentials /\ overlapped' = overlapped
  BY <1>3 DEF OutsidePosts, Post
<1>4. ASSUME NEW w \in Wakes, NEW path \in Paths, ChildPosts(w, path)
      PROVE  UNCHANGED agents /\ UNCHANGED credentials /\ overlapped' = overlapped
  BY <1>4 DEF ChildPosts, Post
<1>5. ASSUME NEW r \in requests, Handle(r)
      PROVE  WInv'
  BY <1>1, <1>5, HandleKeeps
<1>6. ASSUME NEW w \in Wakes,
             Spawn(w) \/ TimeOut(w) \/ Exit(w) \/ FinishHeartbeat(w) \/ WakeFails(w)
      PROVE  WInv'
  BY <1>1, <1>6, SpawnKeeps, TimeOutKeeps, ExitKeeps, FinishKeeps, FailsKeeps
<1>7. ASSUME NEW g \in Registrations, PutAgent(g)
      PROVE  WInv'
  BY <1>1, <1>7, PutAgentKeeps
<1>8. CASE WriteHermesAuth
  BY <1>1, <1>8, WriteKeeps
<1>9. CASE UNCHANGED vars
  BY <1>2, <1>9 DEF vars
<1> QED
  BY <1>2, <1>3, <1>4, <1>5, <1>6, <1>7, <1>8, <1>9 DEF Next

LEMMA WInvImpliesWakesSound == WInv => WakesSound
<1> SUFFICES ASSUME WInv
             PROVE  SessionContinues /\ AuthWhole /\ EmittedAsPrinted
  BY DEF WakesSound
<1>1. SessionContinues
  BY DEF WInv, Sessions, SessionOf, SessionContinues
<1>2. AuthWhole
  BY DEF WInv, Credentials, AuthWhole
<1>3. EmittedAsPrinted
  <2> SUFFICES ASSUME NEW w \in Wakes, wakes[w].pc = "done",
                      NEW o, o = wakes[w].output, NEW found, found = wakes[w].events
               PROVE  /\ Len(found) = Cardinality({k \in DOMAIN o : Usable(o[k])})
                      /\ \A k \in DOMAIN o : Usable(o[k]) =>
                           found[Cardinality({j \in 1..k : Usable(o[j])})] = Emitted(o[k])
                      /\ \A k \in DOMAIN found : found[k].type \notin DOMAIN Legacy
                      /\ wakes[w].outcome \in {"timeout", "fallback", "error"} => found = <<>>
    BY DEF EmittedAsPrinted
  <2>1. o \in Printed /\ found = ExtractActionableAgentEvents(o)
    BY DEF WInv, IInv, Shape, WakesShape, WakeRecord, Heartbeats
  <2>2. o \in Seq({o[k] : k \in DOMAIN o})
    <3>1. CASE o \in Outputs
      BY <3>1, AdapterAssumption
    <3>2. CASE o = <<>>
      BY <3>2
    <3> QED
      BY <2>1, <3>1, <3>2 DEF Printed
  <2>3. /\ Len(found) = Cardinality({k \in DOMAIN o : Usable(o[k])})
        /\ \A k \in DOMAIN o : Usable(o[k]) =>
             found[Cardinality({j \in 1..k : Usable(o[j])})] = Emitted(o[k])
        /\ \A k \in DOMAIN found : found[k].type \notin DOMAIN Legacy
    <3> DEFINE read == ExtractActionableAgentEvents(o)
    <3>1. /\ Len(read) = Cardinality({k \in DOMAIN o : Usable(o[k])})
          /\ \A k \in DOMAIN o : Usable(o[k]) =>
               read[Cardinality({j \in 1..k : Usable(o[j])})] = Emitted(o[k])
          /\ \A k \in DOMAIN read : read[k].type \notin DOMAIN Legacy
      BY <2>2, ExtractIsWhole
    <3>2. found = read
      BY <2>1
    <3> HIDE DEF read
    <3> QED
      BY <3>1, <3>2
  <2>4. wakes[w].outcome \in {"timeout", "fallback", "error"} => found = <<>>
    <3> SUFFICES ASSUME o = <<>> PROVE found = <<>>
      BY DEF WInv, Heartbeats
    <3>1. Len(o) = 0
      OBVIOUS
    <3>2. PICK f : Reads(o, f, 0) /\ found = f[0]
      BY <2>1, <3>1, ExtractReads
    <3> QED
      BY <3>2 DEF Reads
  <2> QED
    BY <2>3, <2>4
<1> QED
  BY <1>1, <1>2, <1>3

\* Whatever processes print, whenever they end, fail or run out of time, and
\* however agents are registered anew: unless two wakes or registrations of an
\* agent overlapped, its state has and its wakes resume the session that was
\* reported for it last; auth.json is the whole of the last upload taken, unless
\* two overlapped; and the events of a heartbeat are those of the usable blocks of
\* its output, each and in order (registerAgent, runHermesAdapter,
\* extractActionableAgentEvents, storeHermesAuth).
THEOREM WakesCorrect == Spec => []WakesSound
<1>1. WInv => WakesSound
  BY WInvImpliesWakesSound
<1> QED
  BY <1>1, InitWInv, StepWInv, PTL DEF Spec

-----------------------------------------------------------------------------
(***************************************************************************)
(* A scenario as a table: its steps, how many events are written before    *)
(* each of them, and the entries of its log.                               *)
(***************************************************************************)
StepCount(d) == CASE d = "pending" -> 7 [] d = "rejected" -> 13 [] OTHER -> 15

StepOf(d, p) ==
    CASE p = 1 -> "prepare"
      [] p = 2 -> "planning"
      [] p = 3 -> "running"
      [] p = 4 -> "waiting_for_approval"
      [] p = 5 -> "request"
      [] p = 6 /\ d # "pending" -> "decision"
      [] p = 7 /\ d # "pending" -> "running"
      [] p = 8 /\ d # "pending" -> "report"
      [] p = 9 /\ d # "pending" -> "report_event"
      [] p = 10 /\ d = "approved" -> "website"
      [] p = 11 /\ d = "approved" -> "website_event"
      [] p = StepCount(d) - 3 /\ d # "pending" -> "archiving"
      [] p = StepCount(d) - 2 /\ d # "pending" -> "succeeded"
      [] p = StepCount(d) - 1 -> "truncate"
      [] OTHER -> "state"

\* How many events come before step p.
EventsBefore(d, p) ==
    CASE p = 1 -> 0
      [] p > 1 /\ p <= 6 -> p - 2
      [] p > 6 /\ d = "pending" -> 4
      [] p > 6 /\ p <= 8 /\ d # "pending" -> p - 2
      [] p > 8 /\ p <= 10 /\ d # "pending" -> p - 3
      [] p > 10 /\ p < StepCount(d) /\ d = "rejected" -> p - 3
      [] p > 10 /\ p < StepCount(d) /\ d = "approved" -> p - 4
      [] OTHER -> IF d = "rejected" THEN 9 ELSE 10

EventCount(d) == CASE d = "pending" -> 4 [] d = "rejected" -> 9 [] OTHER -> 10

TypeAt(d, k) ==
    CASE k = 4 -> "request"
      [] k = 5 -> "decision"
      [] k = 7 \/ (k = 8 /\ d = "approved") -> "artifact"
      [] OTHER -> "run.status"

AboutAt(d, k) ==
    CASE k = 1 -> "planning"
      [] k = 2 \/ k = 6 -> "running"
      [] k = 3 -> "waiting_for_approval"
      [] k = 4 -> "pending"
      [] k = 5 -> d
      [] k = 7 -> "report"
      [] k = 8 /\ d = "approved" -> "website"
      [] k = EventCount(d) /\ d # "pending" -> "succeeded"
      [] OTHER -> "archiving"

\* The artifacts that step p finds written.
ArtifactsBefore(d, p) ==
    IF p <= 8 THEN {} ELSE IF d = "approved" /\ p > 10 THEN Kinds ELSE {"report"}

\* What an attempt decided, and the k-th entry of its log.
Decided(att, b) == ApprovalDecisionFlag(att[b].word)

Entry(att, b, k) ==
    [by |-> b, run |-> att[b].run, seq |-> k,
     type |-> TypeAt(Decided(att, b), k), about |-> AboutAt(Decided(att, b), k)]

-----------------------------------------------------------------------------
(***************************************************************************)
(* The harness: the inductive invariant, its parts of the attempts att, the scenario c,  *)
(* the log es, the artifacts' files fs, the state file s and the           *)
(* inspection i.                                                           *)
(***************************************************************************)
StepNames ==
    Statuses \cup {"prepare", "request", "decision", "report", "report_event", "website",
                   "website_event", "truncate", "state"}

ToolRecord ==
    [tool : {"plan_task", "summarize_context", "ask_user_question", "register_static_site",
             "artifact.create", "generate_static_site"},
     status : {"completed", "approval_required"} \cup Decisions, gated : BOOLEAN]

HarnessTasks == RunIds \cup TaskFlags

CallRecord ==
    [phase : {"idle", "playing", "ended", "aborted"}, run : RunIds,
     task : HarnessTasks \cup {NoFlag}, decision : Decisions, steps : Seq(StepNames), seq : Nat,
     tools : Seq(ToolRecord), artifacts : SUBSET Kinds]

EventRecord ==
    [by : Nat, run : RunIds, seq : Nat,
     type : {"run.status", "request", "decision", "artifact"},
     about : Statuses \cup Decisions \cup Kinds]

AttemptRecord == [run : RunIds, word : Words]

AttemptsOk(att) ==
    /\ att \in Seq(AttemptRecord)
    /\ Len(att) <= MaxAttempts
    /\ \A b \in 1..Len(att) : Decided(att, b) \in Decisions

\* A log is the beginning of what one attempt writes.
LogOf(att, es) ==
    /\ es \in Seq(EventRecord)
    /\ es # <<>> =>
         /\ es[1].by \in 1..Len(att)
         /\ Len(es) <= EventCount(Decided(att, es[1].by))
         /\ \A k \in 1..Len(es) : es[k] = Entry(att, es[1].by, k)

\* An artifact that is announced has its file.
Announced(es, fs) ==
    \A k \in 1..Len(es) : es[k].type = "artifact" =>
        \E name \in HarnessTasks \X Kinds : name[2] = es[k].about /\ fs[name] = es[k].by

FilesOk(att, fs) ==
    /\ fs \in [HarnessTasks \X Kinds -> 0..Len(att)]
    /\ \A name \in HarnessTasks \X Kinds : name[2] = "website" /\ fs[name] # 0 =>
          Decided(att, fs[name]) = "approved"

\* What is left to write when a scenario that decides d has come to step p.
StepsAt(steps, d, p) ==
    /\ p \in 1..StepCount(d)
    /\ Len(steps) = StepCount(d) + 1 - p
    /\ \A i \in 1..Len(steps) : steps[i] = StepOf(d, p + i - 1)

\* The tools it has noted by then: the fourth is gated.
ToolsAt(tools, d, p) ==
    /\ p <= 2 => tools = <<>>
    /\ p = 3 => Len(tools) = 3 /\ \A k \in 1..3 : ~tools[k].gated
    /\ p >= 4 => /\ Len(tools) >= 4
                 /\ \A k \in 1..Len(tools) : tools[k].gated <=> k = 4
    /\ p >= 7 /\ d # "pending" => tools[4].status = d

FilesAt(n, c, fs) == \A kind \in c.artifacts : fs[<<c.task, kind>>] = n

EventsAt(n, es, seq, p) ==
    p > 1 => /\ Len(es) = seq
             /\ es # <<>> => es[1].by = n

AtStepOf(att, c, es, fs, p) ==
    /\ StepsAt(c.steps, c.decision, p)
    /\ ToolsAt(c.tools, c.decision, p)
    /\ FilesAt(Len(att), c, fs)
    /\ EventsAt(Len(att), es, c.seq, p)
    /\ c.seq = EventsBefore(c.decision, p)
    /\ c.artifacts = ArtifactsBefore(c.decision, p)

\* The scenario that is played is the last attempt's.
OfLast(att, c) ==
    /\ Len(att) > 0
    /\ c.run = att[Len(att)].run
    /\ c.decision = Decided(att, Len(att))
    /\ c.task \in HarnessTasks

Playing(att, c, es, fs) ==
    c.phase = "playing" =>
        /\ OfLast(att, c)
        /\ \E p \in 1..StepCount(c.decision) : AtStepOf(att, c, es, fs, p)

\* A state file that was written to its end sums up the whole of its attempt.
IsState(att, s) ==
    /\ s.kind = "state"
    /\ s.by \in 1..Len(att)
    /\ s.run = att[s.by].run
    /\ s.status = IF Decided(att, s.by) = "pending" THEN "waiting_for_approval" ELSE "succeeded"
    /\ s.metrics.approvalGated = 1
    /\ Decided(att, s.by) # "pending" => Decided(att, s.by) \in DOMAIN s.metrics.byStatus
    /\ s.waitStates = IF Decided(att, s.by) = "pending" THEN 1 ELSE 0
    /\ s.artifacts = ArtifactsBefore(Decided(att, s.by), StepCount(Decided(att, s.by)))
    /\ s.eventCursor = EventCount(Decided(att, s.by))

\* Of the attempt that wrote s the log es has everything or nothing.
Complete(att, s, es) ==
    es # <<>> /\ es[1].by = s.by => Len(es) = EventCount(Decided(att, s.by))

Written(att, c, es, s) ==
    /\ IsState(att, s)
    /\ s.by = Len(att) => c.phase # "playing"
    /\ Complete(att, s, es)

StateOk(att, c, es, s) ==
    \/ s \in {NoFile, Torn}
    \/ /\ Written(att, c, es, s)
       /\ s.by = Len(att) => es # <<>> /\ es[1].by = s.by

InspectionOk(att, c, es, i) ==
    /\ i = [phase |-> i.phase, state |-> i.state, events |-> i.events]
    /\ \/ i.phase \in {"idle", "failed"}
       \/ i.phase = "reading" /\ Written(att, c, es, i.state)
       \/ /\ i.phase = "shown"
          /\ IsState(att, i.state)
          /\ LogOf(att, i.events)
          /\ Complete(att, i.state, i.events)

HarnessInv ==
    /\ AttemptsOk(attempts)
    /\ call \in CallRecord
    /\ LogOf(attempts, events)
    /\ Announced(events, files)
    /\ FilesOk(attempts, files)
    /\ Playing(attempts, call, events, files)
    /\ StateOk(attempts, call, events, stateFile)
    /\ InspectionOk(attempts, call, events, inspection)

-----------------------------------------------------------------------------
(***************************************************************************)
(* The tables.                                                             *)
(***************************************************************************)
Row(q, n) == q \in Seq(StepNames) /\ Len(q) = n

Joins(q, s, n, t, k) ==
    Row(q, k) /\ \A i \in 1..k : q[i] = IF i <= n THEN s[i] ELSE t[i - n]

LEMMA Joined ==
    ASSUME NEW n \in Nat, NEW m \in Nat, NEW s, NEW t, Row(s, n), Row(t, m), NEW k, k = n + m
    PROVE  Joins(s \o t, s, n, t, k)
BY DEF Row, Joins

LEMMA ScenarioIs ==
    ASSUME NEW d \in Decisions
    PROVE  /\ Scenario(d) \in Seq(StepNames) /\ Len(Scenario(d)) = StepCount(d)
           /\ \A p \in 1..StepCount(d) : Scenario(d)[p] = StepOf(d, p)
<1> DEFINE First == <<"prepare", "planning", "running", "waiting_for_approval", "request">>
           Report == <<"decision", "running", "report", "report_event">>
           Site == <<"website", "website_event">>
           Over == <<"archiving", "succeeded">>
           Last == <<"truncate", "state">>
<1>1. Row(First, 5) /\ Row(Report, 4) /\ Row(Site, 2) /\ Row(Over, 2) /\ Row(Last, 2)
  BY DEF StepNames, Statuses, Row
<1>2. /\ First[1] = "prepare" /\ First[2] = "planning" /\ First[3] = "running"
      /\ First[4] = "waiting_for_approval" /\ First[5] = "request"
  OBVIOUS
<1>3. /\ Report[1] = "decision" /\ Report[2] = "running" /\ Report[3] = "report"
      /\ Report[4] = "report_event"
  OBVIOUS
<1>4. /\ Site[1] = "website" /\ Site[2] = "website_event" /\ Over[1] = "archiving"
      /\ Over[2] = "succeeded" /\ Last[1] = "truncate" /\ Last[2] = "state"
  OBVIOUS
<1>5. PICK q : q = Scenario(d)
  OBVIOUS
<1>6. CASE d = "pending"
  <2>1. q = (First \o <<>>) \o Last
    BY <1>5, <1>6 DEF Scenario
  <2> HIDE DEF First, Last
  <2>2. q = First \o Last
    BY <1>1, <2>1 DEF Row
  <2>3. Joins(First \o Last, First, 5, Last, 7)
    BY <1>1, Joined
  <2>4. Joins(q, First, 5, Last, 7)
    BY <2>2, <2>3
  <2>5. StepCount(d) = 7
    BY <1>6 DEF StepCount
  <2>6. ASSUME NEW p \in 1..7 PROVE q[p] = StepOf(d, p)
    BY <1>2, <1>4, <1>6, <2>4, <2>5 DEF StepOf, Joins
  <2> QED
    BY <1>5, <2>4, <2>5, <2>6 DEF Joins, Row
<1>7. CASE d = "rejected"
  <2>1. q = (First \o ((Report \o <<>>) \o Over)) \o Last
    BY <1>5, <1>7 DEF Scenario
  <2> HIDE DEF First, Report, Over, Last
  <2>2. Report \o <<>> = Report
    BY <1>1 DEF Row
  <2>3. PICK middle : middle = Report \o Over
    OBVIOUS
  <2>4. PICK head : head = First \o middle
    OBVIOUS
  <2>5. q = head \o Last
    BY <2>1, <2>2, <2>3, <2>4
  <2>6. Joins(Report \o Over, Report, 4, Over, 6)
    BY <1>1, Joined
  <2>7. Joins(middle, Report, 4, Over, 6)
    BY <2>3, <2>6
  <2>8. Row(middle, 6)
    BY <2>7 DEF Joins
  <2>9. Joins(First \o middle, First, 5, middle, 11)
    BY <1>1, <2>8, Joined
  <2>10. Joins(head, First, 5, middle, 11)
    BY <2>4, <2>9
  <2>11. Row(head, 11)
    BY <2>10 DEF Joins
  <2>12. Joins(head \o Last, head, 11, Last, 13)
    BY <1>1, <2>11, Joined
  <2>13. Joins(q, head, 11, Last, 13)
    BY <2>5, <2>12
  <2>14. StepCount(d) = 13
    BY <1>7 DEF StepCount
  <2>15. /\ \A p \in 1..6 : middle[p] = IF p <= 4 THEN Report[p] ELSE Over[p - 4]
         /\ \A p \in 1..11 : head[p] = IF p <= 5 THEN First[p] ELSE middle[p - 5]
         /\ \A p \in 1..13 : q[p] = IF p <= 11 THEN head[p] ELSE Last[p - 11]
    BY <2>7, <2>10, <2>13 DEF Joins
  <2>16. /\ q[1] = "prepare" /\ q[2] = "planning" /\ q[3] = "running"
         /\ q[4] = "waiting_for_approval" /\ q[5] = "request"
    BY <1>2, <2>15
  <2>17. /\ middle[1] = "decision" /\ middle[2] = "running" /\ middle[3] = "report"
         /\ middle[4] = "report_event" /\ middle[5] = "archiving" /\ middle[6] = "succeeded"
    BY <1>3, <1>4, <2>15
  <2>18. /\ q[6] = "decision" /\ q[7] = "running" /\ q[8] = "report" /\ q[9] = "report_event"
         /\ q[10] = "archiving" /\ q[11] = "succeeded"
    BY <2>15, <2>17
  <2>19. q[12] = "truncate" /\ q[13] = "state"
    BY <1>4, <2>15
  <2>20. ASSUME NEW p \in 1..13 PROVE q[p] = StepOf(d, p)
    BY <1>7, <2>14, <2>16, <2>18, <2>19 DEF StepOf
  <2> QED
    BY <1>5, <2>13, <2>14, <2>20 DEF Joins, Row
<1>8. CASE d = "approved"
  <2>1. q = (First \o ((Report \o Site) \o Over)) \o Last
    BY <1>5, <1>8 DEF Scenario
  <2> HIDE DEF First, Report, Site, Over, Last
  <2>2. PICK made : made = Report \o Site
    OBVIOUS
  <2>3. PICK middle : middle = made \o Over
    OBVIOUS
  <2>4. PICK head : head = First \o middle
    OBVIOUS
  <2>5. q = head \o Last
    BY <2>1, <2>2, <2>3, <2>4
  <2>6. Joins(Report \o Site, Report, 4, Site, 6)
    BY <1>1, Joined
  <2>7. Joins(made, Report, 4, Site, 6)
    BY <2>2, <2>6
  <2>8. Row(made, 6)
    BY <2>7 DEF Joins
  <2>9. Joins(made \o Over, made, 6, Over, 8)
    BY <1>1, <2>8, Joined
  <2>10. Joins(middle, made, 6, Over, 8)
    BY <2>3, <2>9
  <2>11. Row(middle, 8)
    BY <2>10 DEF Joins
  <2>12. Joins(First \o middle, First, 5, middle, 13)
    BY <1>1, <2>11, Joined
  <2>13. Joins(head, First, 5, middle, 13)
    BY <2>4, <2>12
  <2>14. Row(head, 13)
    BY <2>13 DEF Joins
  <2>15. Joins(head \o Last, head, 13, Last, 15)
    BY <1>1, <2>14, Joined
  <2>16. Joins(q, head, 13, Last, 15)
    BY <2>5, <2>15
  <2>17. StepCount(d) = 15
    BY <1>8 DEF StepCount
  <2>18. /\ \A p \in 1..6 : made[p] = IF p <= 4 THEN Report[p] ELSE Site[p - 4]
         /\ \A p \in 1..8 : middle[p] = IF p <= 6 THEN made[p] ELSE Over[p - 6]
         /\ \A p \in 1..13 : head[p] = IF p <= 5 THEN First[p] ELSE middle[p - 5]
         /\ \A p \in 1..15 : q[p] = IF p <= 13 THEN head[p] ELSE Last[p - 13]
    BY <2>7, <2>10, <2>13, <2>16 DEF Joins
  <2>19. /\ q[1] = "prepare" /\ q[2] = "planning" /\ q[3] = "running"
         /\ q[4] = "waiting_for_approval" /\ q[5] = "request"
    BY <1>2, <2>18
  <2>20. /\ middle[1] = "decision" /\ middle[2] = "running" /\ middle[3] = "report"
         /\ middle[4] = "report_event" /\ middle[5] = "website" /\ middle[6] = "website_event"
         /\ middle[7] = "archiving" /\ middle[8] = "succeeded"
    BY <1>3, <1>4, <2>18
  <2>21. /\ q[6] = "decision" /\ q[7] = "running" /\ q[8] = "report" /\ q[9] = "report_event"
         /\ q[10] = "website" /\ q[11] = "website_event" /\ q[12] = "archiving"
         /\ q[13] = "succeeded"
    BY <2>18, <2>20
  <2>22. q[14] = "truncate" /\ q[15] = "state"
    BY <1>4, <2>18
  <2>23. ASSUME NEW p \in 1..15 PROVE q[p] = StepOf(d, p)
    BY <1>8, <2>17, <2>19, <2>21, <2>22 DEF StepOf
  <2> QED
    BY <1>5, <2>16, <2>17, <2>23 DEF Joins, Row
<1> QED
  BY <1>6, <1>7, <1>8 DEF Decisions

\* Where a step is in its scenario.
LEMMA StepPlaces ==
    ASSUME NEW d \in Decisions, NEW p \in 1..StepCount(d)
    PROVE  /\ StepCount(d) \in Nat /\ StepOf(d, p) \in StepNames
           /\ StepOf(d, p) = "prepare" => p = 1
           /\ StepOf(d, p) \in Statuses => p \in {2, 3, 4, 7, StepCount(d) - 3, StepCount(d) - 2}
           /\ StepOf(d, p) = "request" => p = 5
           /\ StepOf(d, p) = "decision" => p = 6 /\ d # "pending"
           /\ StepOf(d, p) = "report" => p = 8 /\ d # "pending"
           /\ StepOf(d, p) = "report_event" => p = 9 /\ d # "pending"
           /\ StepOf(d, p) = "website" => p = 10 /\ d = "approved"
           /\ StepOf(d, p) = "website_event" => p = 11 /\ d = "approved"
           /\ StepOf(d, p) = "truncate" => p = StepCount(d) - 1
           /\ StepOf(d, p) = "state" => p = StepCount(d)
<1>1. CASE d = "pending"
  <2>1. StepCount(d) = 7
    BY <1>1 DEF StepCount
  <2> QED
    BY <1>1, <2>1 DEF StepOf, Statuses, StepNames
<1>2. CASE d = "rejected"
  <2>1. StepCount(d) = 13
    BY <1>2 DEF StepCount
  <2>2. /\ StepOf(d, 1) = "prepare" /\ StepOf(d, 2) = "planning" /\ StepOf(d, 3) = "running"
        /\ StepOf(d, 4) = "waiting_for_approval" /\ StepOf(d, 5) = "request" /\ StepOf(d, 6) = "decision"
        /\ StepOf(d, 7) = "running" /\ StepOf(d, 8) = "report" /\ StepOf(d, 9) = "report_event"
        /\ StepOf(d, 10) = "archiving" /\ StepOf(d, 11) = "succeeded" /\ StepOf(d, 12) = "truncate"
        /\ StepOf(d, 13) = "state"
    BY <1>2, <2>1 DEF StepOf
  <2>3. \/ p = 1 \/ p = 2 \/ p = 3 \/ p = 4 \/ p = 5 \/ p = 6 \/ p = 7 \/ p = 8
        \/ p = 9 \/ p = 10 \/ p = 11 \/ p = 12 \/ p = 13
    BY <2>1
  <2> QED
    BY <1>2, <2>1, <2>2, <2>3 DEF Statuses, StepNames
<1>3. CASE d = "approved"
  <2>1. StepCount(d) = 15
    BY <1>3 DEF StepCount
  <2>2. /\ StepOf(d, 1) = "prepare" /\ StepOf(d, 2) = "planning" /\ StepOf(d, 3) = "running"
        /\ StepOf(d, 4) = "waiting_for_approval" /\ StepOf(d, 5) = "request" /\ StepOf(d, 6) = "decision"
        /\ StepOf(d, 7) = "running" /\ StepOf(d, 8) = "report" /\ StepOf(d, 9) = "report_event"
        /\ StepOf(d, 10) = "website" /\ StepOf(d, 11) = "website_event" /\ StepOf(d, 12) = "archiving"
        /\ StepOf(d, 13) = "succeeded" /\ StepOf(d, 14) = "truncate" /\ StepOf(d, 15) = "state"
    BY <1>3, <2>1 DEF StepOf
  <2>3. \/ p = 1 \/ p = 2 \/ p = 3 \/ p = 4 \/ p = 5 \/ p = 6 \/ p = 7 \/ p = 8
        \/ p = 9 \/ p = 10 \/ p = 11 \/ p = 12 \/ p = 13 \/ p = 14 \/ p = 15
    BY <2>1
  <2> QED
    BY <1>3, <2>1, <2>2, <2>3 DEF Statuses, StepNames
<1> QED
  BY <1>1, <1>2, <1>3 DEF Decisions

\* A step that writes an event.
LEMMA StatusPlaces ==
    ASSUME NEW d \in Decisions, NEW p \in 1..StepCount(d), StepOf(d, p) \in Statuses
    PROVE  /\ p > 1 /\ p < StepCount(d)
           /\ EventsBefore(d, p + 1) = EventsBefore(d, p) + 1
           /\ ArtifactsBefore(d, p + 1) = ArtifactsBefore(d, p)
           /\ EventsBefore(d, p) + 1 <= EventCount(d)
           /\ TypeAt(d, EventsBefore(d, p) + 1) = "run.status"
           /\ AboutAt(d, EventsBefore(d, p) + 1) = StepOf(d, p)
<1>1. p \in {2, 3, 4, 7, StepCount(d) - 3, StepCount(d) - 2}
  BY StepPlaces
<1> QED
  BY <1>1 DEF StepOf, StepCount, EventsBefore, EventCount, TypeAt, AboutAt, ArtifactsBefore,
     Decisions, Statuses

LEMMA OtherPlaces ==
    ASSUME NEW d \in Decisions, NEW p \in 1..StepCount(d),
           StepOf(d, p) \in {"request", "decision", "report_event", "website_event"}
    PROVE  /\ p > 1 /\ p < StepCount(d)
           /\ EventsBefore(d, p + 1) = EventsBefore(d, p) + 1
           /\ ArtifactsBefore(d, p + 1) = ArtifactsBefore(d, p)
           /\ EventsBefore(d, p) + 1 <= EventCount(d)
           /\ TypeAt(d, EventsBefore(d, p) + 1) =
                CASE StepOf(d, p) = "request" -> "request"
                  [] StepOf(d, p) = "decision" -> "decision"
                  [] OTHER -> "artifact"
           /\ AboutAt(d, EventsBefore(d, p) + 1) =
                CASE StepOf(d, p) = "request" -> "pending"
                  [] StepOf(d, p) = "decision" -> d
                  [] StepOf(d, p) = "report_event" -> "report"
                  [] OTHER -> "website"
           /\ StepOf(d, p) = "report_event" => "report" \in ArtifactsBefore(d, p)
           /\ StepOf(d, p) = "website_event" => "website" \in ArtifactsBefore(d, p)
<1>1. CASE StepOf(d, p) = "request"
  <2>1. p = 5
    BY <1>1, StepPlaces
  <2> QED
    BY <1>1, <2>1 DEF StepCount, EventsBefore, EventCount, TypeAt, AboutAt, ArtifactsBefore, Decisions
<1>2. CASE StepOf(d, p) = "decision"
  <2>1. p = 6 /\ d # "pending"
    BY <1>2, StepPlaces
  <2> QED
    BY <1>2, <2>1 DEF StepCount, EventsBefore, EventCount, TypeAt, AboutAt, ArtifactsBefore, Decisions
<1>3. CASE StepOf(d, p) = "report_event"
  <2>1. p = 9 /\ d # "pending"
    BY <1>3, StepPlaces
  <2> QED
    BY <1>3, <2>1 DEF StepCount, EventsBefore, EventCount, TypeAt, AboutAt, ArtifactsBefore, Decisions
<1>4. CASE StepOf(d, p) = "website_event"
  <2>1. p = 11 /\ d = "approved"
    BY <1>4, StepPlaces
  <2> QED
    BY <1>4, <2>1 DEF StepCount, EventsBefore, EventCount, TypeAt, AboutAt, ArtifactsBefore, Kinds
<1> QED
  BY <1>1, <1>2, <1>3, <1>4

LEMMA SilentPlaces ==
    ASSUME NEW d \in Decisions, NEW p \in 1..StepCount(d)
    PROVE  /\ EventsBefore(d, p) \in Nat /\ EventCount(d) \in Nat
           /\ EventsBefore(d, p) <= EventCount(d)
           /\ ArtifactsBefore(d, p) \subseteq Kinds
           /\ EventsBefore(d, 1) = 0 /\ EventsBefore(d, 2) = 0
           /\ ArtifactsBefore(d, 1) = {} /\ ArtifactsBefore(d, 2) = {}
           /\ StepOf(d, p) \in {"report", "website", "truncate"} =>
                EventsBefore(d, p + 1) = EventsBefore(d, p) /\ p > 1 /\ p < StepCount(d)
           /\ StepOf(d, p) = "report" => ArtifactsBefore(d, p + 1) = ArtifactsBefore(d, p) \cup {"report"}
           /\ StepOf(d, p) = "website" => ArtifactsBefore(d, p + 1) = ArtifactsBefore(d, p) \cup {"website"}
           /\ StepOf(d, p) = "truncate" => ArtifactsBefore(d, p + 1) = ArtifactsBefore(d, p)
           /\ StepOf(d, p) = "report" => \A k \in 1..EventsBefore(d, p) : TypeAt(d, k) # "artifact"
           /\ StepOf(d, p) = "website" => \A k \in 1..EventsBefore(d, p) :
                 TypeAt(d, k) = "artifact" => AboutAt(d, k) = "report"
           /\ StepOf(d, p) = "state" => p > 1 /\ EventsBefore(d, p) = EventCount(d)
           /\ EventCount(d) > 0
<1>1. StepOf(d, p) = "report" => p = 8 /\ d # "pending"
  BY StepPlaces
<1>2. StepOf(d, p) = "website" => p = 10 /\ d = "approved"
  BY StepPlaces
<1>3. StepOf(d, p) = "truncate" => p = StepCount(d) - 1
  BY StepPlaces
<1>4. StepOf(d, p) = "state" => p = StepCount(d)
  BY StepPlaces
<1>5. /\ EventsBefore(d, p) \in Nat /\ EventCount(d) \in Nat /\ EventCount(d) > 0
      /\ EventsBefore(d, p) <= EventCount(d)
      /\ ArtifactsBefore(d, p) \subseteq Kinds
      /\ EventsBefore(d, 1) = 0 /\ EventsBefore(d, 2) = 0
      /\ ArtifactsBefore(d, 1) = {} /\ ArtifactsBefore(d, 2) = {}
  BY DEF StepCount, EventsBefore, EventCount, ArtifactsBefore, Decisions, Kinds
<1>6. CASE StepOf(d, p) = "report"
  BY <1>1, <1>5, <1>6 DEF StepCount, EventsBefore, TypeAt, ArtifactsBefore, Decisions, Kinds
<1>7. CASE StepOf(d, p) = "website"
  <2>1. p = 10 /\ d = "approved" /\ EventsBefore(d, p) = 7 /\ EventsBefore(d, p + 1) = 7
    BY <1>2, <1>7 DEF StepCount, EventsBefore
  <2>2. \A k \in 1..7 : TypeAt(d, k) = "artifact" => AboutAt(d, k) = "report"
    BY <2>1 DEF TypeAt, AboutAt, EventCount
  <2>3. p < StepCount(d) /\ ArtifactsBefore(d, p + 1) = ArtifactsBefore(d, p) \cup {"website"}
    BY <2>1 DEF StepCount, ArtifactsBefore, Kinds
  <2> QED
    BY <1>5, <1>7, <2>1, <2>2, <2>3
<1>8. CASE StepOf(d, p) = "truncate"
  BY <1>3, <1>5, <1>8 DEF StepCount, EventsBefore, ArtifactsBefore, Decisions, Kinds
<1>9. CASE StepOf(d, p) = "state"
  BY <1>4, <1>5, <1>9 DEF StepCount, EventsBefore, EventCount, Decisions
<1> QED
  BY <1>5, <1>6, <1>7, <1>8, <1>9

\* What the operator answered decides, wherever it came from.
LEMMA WordDecides ==
    ASSUME NEW flag \in Words, NEW answer \in Words, NEW terminal \in BOOLEAN,
           AskInteractiveQuestions(terminal, answer, flag) \in Decisions
    PROVE  ApprovalDecisionFlag(IF answer = "" THEN flag ELSE answer)
             = AskInteractiveQuestions(terminal, answer, flag)
BY DEF AskInteractiveQuestions, ApprovalDecisionFlag, Decisions

-----------------------------------------------------------------------------
(***************************************************************************)
(* One step of the scenario.                                               *)
(***************************************************************************)

\* Tools are noted on the way to a step.
LEMMA ToolsNext ==
    ASSUME NEW d \in Decisions, NEW p \in 1..StepCount(d), p + 1 <= StepCount(d),
           NEW tools \in Seq(ToolRecord), ToolsAt(tools, d, p)
    PROVE  /\ ToolsBefore(StepOf(d, p + 1), tools, d) \in Seq(ToolRecord)
           /\ ToolsAt(ToolsBefore(StepOf(d, p + 1), tools, d), d, p + 1)
<1> DEFINE step == StepOf(d, p + 1)
<1>1. PICK after : after = ToolsBefore(step, tools, d)
  OBVIOUS
<1>2. StepCount(d) \in Nat /\ p + 1 \in 1..StepCount(d) /\ p \in Nat
  BY DEF StepCount, Decisions
<1>3. /\ p + 1 = 3 => step = "running"
      /\ p + 1 = 4 => step = "waiting_for_approval"
      /\ p + 1 = 7 /\ d # "pending" => step = "running"
      /\ step = "running" => p + 1 = 3 \/ (p + 1 = 7 /\ d # "pending")
      /\ step = "waiting_for_approval" => p + 1 = 4
  BY <1>2 DEF StepOf, StepCount, Decisions
<1> HIDE DEF step
<1>4. CASE p + 1 = 3
  <2>1. step = "running" /\ tools = <<>>
    BY <1>2, <1>3, <1>4 DEF ToolsAt
  <2>2. after = <<Tool("plan_task", "completed"), Tool("summarize_context", "completed"),
                  Tool("ask_user_question", "completed")>>
    BY <1>1, <2>1 DEF ToolsBefore
  <2>3. /\ Tool("plan_task", "completed") \in ToolRecord
        /\ Tool("summarize_context", "completed") \in ToolRecord
        /\ Tool("ask_user_question", "completed") \in ToolRecord
    BY DEF Tool, ToolRecord
  <2>4. after \in Seq(ToolRecord) /\ Len(after) = 3
    BY <2>2, <2>3
  <2>5. ~after[1].gated /\ ~after[2].gated /\ ~after[3].gated
    BY <2>2 DEF Tool
  <2>6. ToolsAt(after, d, p + 1)
    BY <1>2, <1>4, <2>4, <2>5 DEF ToolsAt
  <2> QED
    BY <1>1, <2>4, <2>6 DEF step
<1>5. CASE p + 1 = 4
  <2>1. step = "waiting_for_approval" /\ Len(tools) = 3 /\ \A k \in 1..3 : ~tools[k].gated
    BY <1>2, <1>3, <1>5 DEF ToolsAt
  <2>2. PICK t : t = [tool |-> "register_static_site", status |-> "approval_required",
                      gated |-> TRUE]
    OBVIOUS
  <2>3. after = Append(tools, t)
    BY <1>1, <2>1, <2>2 DEF ToolsBefore
  <2>4. t \in ToolRecord /\ t.gated
    BY <2>2 DEF ToolRecord
  <2>5. /\ after \in Seq(ToolRecord) /\ Len(after) = Len(tools) + 1
        /\ after[Len(tools) + 1] = t /\ \A k \in 1..Len(tools) : after[k] = tools[k]
    BY <2>3, <2>4
  <2>6. after \in Seq(ToolRecord) /\ Len(after) = 4
    BY <2>1, <2>5
  <2>7. \A k \in 1..Len(after) : after[k].gated <=> k = 4
    <3>1. after[4] = t
      BY <2>1, <2>5
    <3>2. \A k \in 1..3 : after[k] = tools[k]
      BY <2>1, <2>5
    <3> QED
      BY <2>1, <2>4, <2>6, <3>1, <3>2
  <2>8. ToolsAt(after, d, p + 1)
    BY <1>2, <1>5, <2>6, <2>7 DEF ToolsAt
  <2> QED
    BY <1>1, <2>6, <2>8 DEF step
<1>6. CASE p + 1 = 7 /\ d # "pending"
  <2>1. /\ step = "running" /\ Len(tools) >= 4
        /\ \A k \in 1..Len(tools) : tools[k].gated <=> k = 4
    BY <1>2, <1>3, <1>6 DEF ToolsAt
  <2>2. tools # <<>> /\ Len(tools) \in Nat /\ DOMAIN tools = 1..Len(tools)
    BY <2>1
  <2>3. after = [k \in DOMAIN tools |->
                   IF tools[k].gated THEN [tools[k] EXCEPT !.status = d] ELSE tools[k]]
    BY <1>1, <2>1, <2>2 DEF ToolsBefore
  <2>4. \A k \in 1..Len(tools) : tools[k] \in ToolRecord
    OBVIOUS
  <2>5. ASSUME NEW t \in ToolRecord
        PROVE  [t EXCEPT !.status = d] \in ToolRecord /\ [t EXCEPT !.status = d].status = d
               /\ [t EXCEPT !.status = d].gated = t.gated
    BY DEF ToolRecord
  <2>6. \A k \in 1..Len(tools) :
          /\ after[k] = IF tools[k].gated THEN [tools[k] EXCEPT !.status = d] ELSE tools[k]
          /\ after[k] \in ToolRecord
          /\ after[k].gated = tools[k].gated
    BY <2>2, <2>3, <2>4, <2>5
  <2>7. after \in Seq(ToolRecord) /\ Len(after) = Len(tools)
    BY <2>2, <2>3, <2>6
  <2>8. \A k \in 1..Len(after) : after[k].gated <=> k = 4
    BY <2>1, <2>6, <2>7
  <2>9. 4 \in 1..Len(tools)
    BY <2>1, <2>2
  <2>10. after[4].status = d
    <3>1. tools[4] \in ToolRecord /\ tools[4].gated
      BY <2>1, <2>4, <2>9
    <3>2. after[4] = [tools[4] EXCEPT !.status = d]
      BY <2>6, <2>9, <3>1
    <3> QED
      BY <2>5, <3>1, <3>2
  <2>11. ToolsAt(after, d, p + 1)
    BY <1>2, <1>6, <2>1, <2>7, <2>8, <2>10 DEF ToolsAt
  <2> QED
    BY <1>1, <2>7, <2>11 DEF step
<1>7. CASE p + 1 > 7 /\ d # "pending" /\ step \in {"report_event", "website"}
  <2>1. PICK t \in ToolRecord : ~t.gated /\ after = Append(tools, t)
    <3>1. CASE step = "report_event"
      <4>1. after = Append(tools, Tool("artifact.create", "completed"))
        BY <1>1, <3>1 DEF ToolsBefore
      <4>2. /\ Tool("artifact.create", "completed") \in ToolRecord
            /\ ~Tool("artifact.create", "completed").gated
        BY DEF Tool, ToolRecord
      <4> QED
        BY <4>1, <4>2
    <3>2. CASE step = "website"
      <4>1. after = Append(tools, Tool("generate_static_site", "completed"))
        BY <1>1, <3>2 DEF ToolsBefore
      <4>2. /\ Tool("generate_static_site", "completed") \in ToolRecord
            /\ ~Tool("generate_static_site", "completed").gated
        BY DEF Tool, ToolRecord
      <4> QED
        BY <4>1, <4>2
    <3> QED
      BY <1>7, <3>1, <3>2
  <2>2. /\ Len(tools) >= 4 /\ \A k \in 1..Len(tools) : tools[k].gated <=> k = 4
        /\ tools[4].status = d
    BY <1>2, <1>7 DEF ToolsAt
  <2>3. /\ after \in Seq(ToolRecord) /\ Len(after) = Len(tools) + 1
        /\ after[Len(tools) + 1] = t /\ \A k \in 1..Len(tools) : after[k] = tools[k]
    BY <2>1
  <2>4. PICK n \in Nat : n = Len(tools)
    OBVIOUS
  <2>5. \A k \in 1..(n + 1) : after[k].gated <=> k = 4
    BY <2>1, <2>2, <2>3, <2>4
  <2>6. after[4].status = d
    BY <2>2, <2>3, <2>4
  <2>7. ToolsAt(after, d, p + 1)
    BY <1>2, <1>7, <2>2, <2>3, <2>4, <2>5, <2>6 DEF ToolsAt
  <2> QED
    BY <1>1, <2>3, <2>7 DEF step
<1>8. CASE /\ p + 1 # 3 /\ p + 1 # 4 /\ ~(p + 1 = 7 /\ d # "pending")
           /\ step \notin {"report_event", "website"}
  <2>1. step # "running" /\ step # "waiting_for_approval"
    BY <1>3, <1>8
  <2>2. after = tools
    BY <1>1, <1>8, <2>1 DEF ToolsBefore
  <2>3. ToolsAt(tools, d, p + 1)
    BY <1>2, <1>8 DEF ToolsAt
  <2> QED
    BY <1>1, <2>2, <2>3 DEF step
<1>9. step \in {"report_event", "website"} => p + 1 > 7 /\ d # "pending"
  BY <1>2, StepPlaces DEF step
<1> QED
  BY <1>4, <1>5, <1>6, <1>7, <1>8, <1>9

\* The call moves on from step p.
Moved(c, n, p) ==
    /\ n \in CallRecord
    /\ n.run = c.run /\ n.task = c.task /\ n.decision = c.decision
    /\ n.seq = c.seq /\ n.artifacts = c.artifacts
    /\ p = StepCount(c.decision) => n.phase = "ended"
    /\ p < StepCount(c.decision) =>
         /\ n.phase = "playing"
         /\ StepsAt(n.steps, n.decision, p + 1)
         /\ ToolsAt(n.tools, n.decision, p + 1)

LEMMA Proceeds ==
    ASSUME NEW c \in CallRecord, c.phase = "playing", NEW p \in 1..StepCount(c.decision),
           StepsAt(c.steps, c.decision, p), ToolsAt(c.tools, c.decision, p)
    PROVE  Moved(c, Proceed(c), p)
<1>1. PICK d \in Decisions : d = c.decision
  BY DEF CallRecord
<1>2. PICK steps \in Seq(StepNames) : steps = c.steps
  BY DEF CallRecord
<1>3. StepCount(d) \in Nat /\ p \in Nat
  BY <1>1 DEF StepCount, Decisions
<1>4. /\ Len(steps) = StepCount(d) + 1 - p /\ p <= StepCount(d)
      /\ \A i \in 1..Len(steps) : steps[i] = StepOf(d, p + i - 1)
  BY <1>1, <1>2, <1>3 DEF StepsAt
<1>5. PICK n \in Nat : n = StepCount(d) - p
  BY <1>3, <1>4
<1>6. PICK rest : rest = Tail(steps)
  OBVIOUS
<1>7. steps # <<>> /\ Len(steps) = n + 1
  BY <1>3, <1>4, <1>5
<1>8. rest \in Seq(StepNames) /\ Len(rest) = n
  BY <1>6, <1>7
<1>9. ASSUME NEW i \in 1..n PROVE rest[i] = StepOf(d, (p + 1) + i - 1)
  <2>1. i + 1 \in 1..Len(steps) /\ p + (i + 1) - 1 = (p + 1) + i - 1
    BY <1>3, <1>7
  <2>2. rest[i] = steps[i + 1]
    BY <1>6, <1>7, <1>8
  <2>3. steps[i + 1] = StepOf(d, p + (i + 1) - 1)
    BY <1>4, <2>1
  <2> QED
    BY <2>1, <2>2, <2>3
<1>10. CASE p = StepCount(d)
  <2>1. rest = <<>>
    BY <1>3, <1>5, <1>8, <1>10
  <2>2. Proceed(c) = [c EXCEPT !.phase = "ended", !.steps = rest]
    BY <1>2, <1>6, <2>1 DEF Proceed
  <2>3. PICK m : m = Proceed(c)
    OBVIOUS
  <2>4. m \in CallRecord
    BY <1>8, <2>2, <2>3 DEF CallRecord
  <2>5. /\ m.run = c.run /\ m.task = c.task /\ m.decision = c.decision
        /\ m.seq = c.seq /\ m.artifacts = c.artifacts /\ m.phase = "ended"
    BY <2>2, <2>3 DEF CallRecord
  <2>6. ~(p < StepCount(c.decision))
    BY <1>1, <1>3, <1>10
  <2> QED
    BY <2>3, <2>4, <2>5, <2>6 DEF Moved
<1>11. CASE p < StepCount(d)
  <2>1. n > 0 /\ rest # <<>> /\ 1 \in 1..n
    BY <1>3, <1>5, <1>8, <1>11
  <2>2. Head(rest) = StepOf(d, p + 1)
    <3>1. Head(rest) = rest[1]
      BY <1>8, <2>1
    <3>2. rest[1] = StepOf(d, (p + 1) + 1 - 1)
      BY <1>9, <2>1
    <3>3. (p + 1) + 1 - 1 = p + 1
      BY <1>3
    <3> QED
      BY <3>1, <3>2, <3>3
  <2>3. PICK tools : tools = ToolsBefore(StepOf(d, p + 1), c.tools, d)
    OBVIOUS
  <2>4. Proceed(c) = [c EXCEPT !.steps = rest, !.tools = tools]
    BY <1>1, <1>2, <1>6, <2>1, <2>2, <2>3 DEF Proceed, CallRecord
  <2>5. c.tools \in Seq(ToolRecord) /\ p + 1 <= StepCount(d)
    BY <1>3, <1>11 DEF CallRecord
  <2>6. tools \in Seq(ToolRecord) /\ ToolsAt(tools, d, p + 1)
    BY <1>1, <2>3, <2>5, ToolsNext
  <2>7. StepsAt(rest, d, p + 1)
    <3>1. p + 1 \in 1..StepCount(d) /\ n = StepCount(d) + 1 - (p + 1)
      BY <1>3, <1>5, <1>11
    <3> QED
      BY <1>8, <1>9, <3>1 DEF StepsAt
  <2>8. PICK m : m = Proceed(c)
    OBVIOUS
  <2>9. m \in CallRecord
    BY <1>8, <2>4, <2>6, <2>8 DEF CallRecord
  <2>10. /\ m.run = c.run /\ m.task = c.task /\ m.decision = d
         /\ m.seq = c.seq /\ m.artifacts = c.artifacts /\ m.phase = "playing"
         /\ m.steps = rest /\ m.tools = tools
    BY <1>1, <2>4, <2>8 DEF CallRecord
  <2>11. ~(p = StepCount(c.decision))
    BY <1>1, <1>3, <1>11
  <2>12. /\ StepsAt(m.steps, m.decision, p + 1)
         /\ ToolsAt(m.tools, m.decision, p + 1)
    BY <2>6, <2>7, <2>10
  <2> QED
    BY <1>1, <2>8, <2>9, <2>10, <2>11, <2>12 DEF Moved
<1> QED
  BY <1>1, <1>3, <1>4, <1>10, <1>11

\* Where the scenario is.
LEMMA AtPlace ==
    ASSUME HarnessInv, NEW S, AtStep(S)
    PROVE  /\ call \in CallRecord /\ call.decision \in Decisions /\ call.phase = "playing"
           /\ OfLast(attempts, call)
           /\ \E p \in 1..StepCount(call.decision) :
                /\ AtStepOf(attempts, call, events, files, p)
                /\ Head(call.steps) = StepOf(call.decision, p) /\ Head(call.steps) \in S
<1>1. /\ call \in CallRecord /\ call.phase = "playing" /\ Head(call.steps) \in S
      /\ Playing(attempts, call, events, files)
  BY DEF HarnessInv, AtStep
<1>2. call.decision \in Decisions /\ call.steps \in Seq(StepNames)
  BY <1>1 DEF CallRecord
<1>3. /\ OfLast(attempts, call)
      /\ \E p \in 1..StepCount(call.decision) : AtStepOf(attempts, call, events, files, p)
  BY <1>1 DEF Playing
<1>4. PICK p \in 1..StepCount(call.decision) : AtStepOf(attempts, call, events, files, p)
  BY <1>3
<1>5. PICK d \in Decisions : d = call.decision
  BY <1>2
<1>6. PICK steps \in Seq(StepNames) : steps = call.steps
  BY <1>2
<1>7. StepsAt(steps, d, p) /\ p \in 1..StepCount(d) /\ StepCount(d) \in Nat
  BY <1>4, <1>5, <1>6 DEF AtStepOf, StepCount, Decisions
<1>8. 1 \in 1..Len(steps) /\ p + 1 - 1 = p
  BY <1>7 DEF StepsAt
<1>9. steps[1] = StepOf(d, p + 1 - 1)
  BY <1>7, <1>8 DEF StepsAt
<1>10. Head(steps) = StepOf(d, p)
  BY <1>8, <1>9
<1> QED
  BY <1>1, <1>2, <1>3, <1>4, <1>5, <1>6, <1>10

\* The scenario after a step, with what the step has left.
LEMMA MovesOn ==
    ASSUME NEW att, NEW c, NEW n, NEW es, NEW fs, NEW p \in 1..StepCount(c.decision),
           c.decision \in Decisions, OfLast(att, c), Moved(c, n, p),
           FilesAt(Len(att), c, fs),
           p < StepCount(c.decision) =>
             /\ EventsAt(Len(att), es, c.seq, p + 1)
             /\ c.seq = EventsBefore(c.decision, p + 1)
             /\ c.artifacts = ArtifactsBefore(c.decision, p + 1)
    PROVE  n \in CallRecord /\ Playing(att, n, es, fs)
<1>1. StepCount(c.decision) \in Nat /\ p \in Nat /\ p <= StepCount(c.decision)
  BY DEF StepCount, Decisions
<1>2. /\ n \in CallRecord /\ n.run = c.run /\ n.task = c.task /\ n.decision = c.decision
      /\ n.seq = c.seq /\ n.artifacts = c.artifacts
  BY DEF Moved
<1>3. CASE p = StepCount(c.decision)
  <2>1. n.phase = "ended"
    BY <1>3 DEF Moved
  <2> QED
    BY <1>2, <2>1 DEF Playing
<1>4. CASE p < StepCount(c.decision)
  <2>1. StepsAt(n.steps, n.decision, p + 1) /\ ToolsAt(n.tools, n.decision, p + 1)
    BY <1>4 DEF Moved
  <2>2. FilesAt(Len(att), n, fs)
    BY <1>2 DEF FilesAt
  <2>3. /\ EventsAt(Len(att), es, n.seq, p + 1)
        /\ n.seq = EventsBefore(n.decision, p + 1)
        /\ n.artifacts = ArtifactsBefore(n.decision, p + 1)
    BY <1>2, <1>4
  <2>4. AtStepOf(att, n, es, fs, p + 1)
    BY <2>1, <2>2, <2>3 DEF AtStepOf
  <2>5. OfLast(att, n)
    BY <1>2 DEF OfLast
  <2>6. p + 1 \in 1..StepCount(n.decision)
    BY <1>1, <1>2, <1>4
  <2> QED
    BY <1>2, <2>4, <2>5, <2>6 DEF Playing
<1>5. p = StepCount(c.decision) \/ p < StepCount(c.decision)
  BY <1>1
<1> QED
  BY <1>3, <1>4, <1>5

\* What an earlier attempt has left is not touched by the one that is played,
\* which writes in a log of its own.
LEMMA OthersKeep ==
    ASSUME NEW att, NEW c, NEW es, NEW n, NEW q, c.phase = "playing",
           q = es \/ (q # <<>> => q[1].by = Len(att))
    PROVE  /\ \A s : Written(att, c, es, s) => Written(att, n, q, s)
           /\ \A s : StateOk(att, c, es, s) => StateOk(att, n, q, s)
           /\ \A i : InspectionOk(att, c, es, i) => InspectionOk(att, n, q, i)
<1>1. ASSUME NEW s, Written(att, c, es, s)
      PROVE  Written(att, n, q, s) /\ s.by # Len(att)
  <2>1. IsState(att, s) /\ s.by # Len(att) /\ Complete(att, s, es)
    BY <1>1 DEF Written
  <2>2. Complete(att, s, q)
    BY <2>1 DEF Complete
  <2> QED
    BY <2>1, <2>2 DEF Written
<1>2. ASSUME NEW s, StateOk(att, c, es, s) PROVE StateOk(att, n, q, s)
  BY <1>1, <1>2 DEF StateOk
<1>3. ASSUME NEW i, InspectionOk(att, c, es, i) PROVE InspectionOk(att, n, q, i)
  BY <1>1, <1>3 DEF InspectionOk
<1> QED
  BY <1>1, <1>2, <1>3

LEMMA InitHarness == ASSUME HarnessInit PROVE HarnessInv
<1> USE HarnessAssumption
<1>1. AttemptsOk(attempts) /\ Len(attempts) = 0
  BY DEF HarnessInit, AttemptsOk
<1>2. call = Idle /\ call.phase = "idle"
  BY DEF HarnessInit, Idle
<1>3. call \in CallRecord
  <2>1. PICK r \in RunIds : r = CHOOSE x \in RunIds : TRUE
    OBVIOUS
  <2>2. <<>> \in Seq(StepNames) /\ <<>> \in Seq(ToolRecord) /\ "pending" \in Decisions
    BY DEF Decisions
  <2>3. call = [phase |-> "idle", run |-> r, task |-> NoFlag,
         decision |-> "pending", steps |-> <<>>, seq |-> 0, tools |-> <<>>,
         artifacts |-> {}]
    BY <1>2, <2>1 DEF Idle
  <2> QED
    BY <2>2, <2>3 DEF CallRecord
<1>4. events = <<>> /\ LogOf(attempts, events) /\ Announced(events, files)
  BY DEF HarnessInit, LogOf, Announced
<1>5. files = [name \in HarnessTasks \X Kinds |-> 0]
  BY DEF HarnessInit, HarnessTasks
<1>6. FilesOk(attempts, files)
  <2>1. 0 \in 0..Len(attempts)
    BY <1>1
  <2>2. \A name \in HarnessTasks \X Kinds : files[name] = 0
    BY <1>5
  <2> QED
    BY <1>5, <2>1, <2>2 DEF FilesOk
<1>7. Playing(attempts, call, events, files)
  BY <1>2 DEF Playing
<1>8. StateOk(attempts, call, events, stateFile)
  BY DEF HarnessInit, StateOk
<1>9. InspectionOk(attempts, call, events, inspection)
  BY DEF HarnessInit, InspectionOk
<1> QED
  BY <1>1, <1>3, <1>4, <1>6, <1>7, <1>8, <1>9 DEF HarnessInv

-----------------------------------------------------------------------------
(***************************************************************************)
(* A scenario is started.                                                  *)
(***************************************************************************)

\* What was said of the attempts so far stays true when there is another.
Longer(att, bs, a, n) ==
    /\ n \in Nat /\ Len(att) = n /\ Len(bs) = n + 1 /\ bs \in Seq(AttemptRecord)
    /\ bs[n + 1] = a /\ Decided(bs, n + 1) = ApprovalDecisionFlag(a.word)
    /\ \A b \in 1..n : bs[b] = att[b] /\ Decided(bs, b) = Decided(att, b)
    /\ \A es : LogOf(att, es) => LogOf(bs, es)
    /\ \A s : IsState(att, s) => IsState(bs, s) /\ s.by # n + 1
    /\ \A s, es : IsState(att, s) /\ Complete(att, s, es) => Complete(bs, s, es)

LEMMA Grows ==
    ASSUME NEW att, AttemptsOk(att), NEW a \in AttemptRecord
    PROVE  \E n : Longer(att, Append(att, a), a, n)
<1>1. att \in Seq(AttemptRecord)
  BY DEF AttemptsOk
<1>2. PICK n \in Nat : n = Len(att)
  BY <1>1
<1>3. PICK bs : bs = Append(att, a)
  OBVIOUS
<1>4. /\ bs \in Seq(AttemptRecord) /\ Len(bs) = n + 1
      /\ bs[n + 1] = a /\ \A b \in 1..n : bs[b] = att[b]
  BY <1>1, <1>2, <1>3
<1>5. \A b \in 1..n : Decided(bs, b) = Decided(att, b)
  BY <1>4 DEF Decided
<1>6. Decided(bs, n + 1) = ApprovalDecisionFlag(a.word)
  BY <1>4 DEF Decided
<1>7. ASSUME NEW es, LogOf(att, es) PROVE LogOf(bs, es)
  <2>1. CASE es = <<>>
    BY <1>7, <2>1 DEF LogOf
  <2>2. CASE es # <<>>
    <3>1. PICK by \in 1..n : by = es[1].by
      BY <1>2, <1>7, <2>2 DEF LogOf
    <3>2. /\ es \in Seq(EventRecord) /\ Len(es) <= EventCount(Decided(att, by))
          /\ \A k \in 1..Len(es) : es[k] = Entry(att, by, k)
      BY <1>7, <2>2, <3>1 DEF LogOf
    <3>3. ASSUME NEW k PROVE Entry(bs, by, k) = Entry(att, by, k)
      BY <1>4, <1>5 DEF Entry
    <3>4. /\ Len(es) <= EventCount(Decided(bs, by))
          /\ \A k \in 1..Len(es) : es[k] = Entry(bs, by, k)
      BY <1>5, <3>2, <3>3
    <3>5. by \in 1..Len(bs)
      BY <1>4
    <3> QED
      BY <3>1, <3>2, <3>4, <3>5 DEF LogOf
  <2> QED
    BY <2>1, <2>2
<1>8. ASSUME NEW s, IsState(att, s) PROVE IsState(bs, s) /\ s.by # n + 1
  <2>1. PICK by \in 1..n : by = s.by
    BY <1>2, <1>8 DEF IsState
  <2>2. Decided(bs, by) = Decided(att, by) /\ bs[by] = att[by] /\ by \in 1..Len(bs)
    BY <1>4, <1>5
  <2>3. by # n + 1
    OBVIOUS
  <2>4. IsState(bs, s)
    BY <1>8, <2>1, <2>2 DEF IsState
  <2> QED
    BY <2>1, <2>3, <2>4
<1>9. ASSUME NEW s, NEW es, IsState(att, s), Complete(att, s, es) PROVE Complete(bs, s, es)
  <2>1. PICK by \in 1..n : by = s.by
    BY <1>2, <1>9 DEF IsState
  <2>2. Decided(bs, by) = Decided(att, by)
    BY <1>5
  <2> QED
    BY <1>9, <2>1, <2>2 DEF Complete
<1>10. Longer(att, bs, a, n)
  BY <1>2, <1>4, <1>5, <1>6, <1>7, <1>8, <1>9 DEF Longer
<1> QED
  BY <1>3, <1>10

LEMMA StartStep ==
    ASSUME HarnessInv, NEW run \in RunIds, NEW flag \in TaskFlags \cup {NoFlag}, NEW word \in Words,
           NEW decision, decision = ApprovalDecisionFlag(word), Start(run, flag, word, decision)
    PROVE  HarnessInv'
<1> USE HarnessAssumption
<1>1. PICK att : att = attempts
  OBVIOUS
<1>2. PICK a : a = [run |-> run, word |-> word]
  OBVIOUS
<1>3. PICK bs : bs = Append(att, a)
  OBVIOUS
<1>4. PICK n : n = [Idle EXCEPT !.phase = "playing", !.run = run, !.task = Task(run, flag),
                      !.decision = decision, !.steps = Scenario(decision)]
  OBVIOUS
<1>5. /\ attempts' = bs /\ call' = n /\ decision \in Decisions /\ Len(att) < MaxAttempts
      /\ events' = events /\ stateFile' = stateFile /\ files' = files
      /\ inspection' = inspection
  BY <1>1, <1>2, <1>3, <1>4 DEF Start
<1>6. a \in AttemptRecord /\ a.run = run /\ a.word = word
  BY <1>2 DEF AttemptRecord
<1>7. AttemptsOk(att) /\ LogOf(att, events) /\ Announced(events, files) /\ FilesOk(att, files)
      /\ StateOk(att, call, events, stateFile) /\ InspectionOk(att, call, events, inspection)
  BY <1>1 DEF HarnessInv
<1>8. \E k : Longer(att, Append(att, a), a, k)
  BY <1>6, <1>7, Grows
<1>9. PICK m : Longer(att, bs, a, m)
  BY <1>3, <1>8
<1>10. /\ m \in Nat /\ Len(att) = m /\ Len(bs) = m + 1 /\ bs \in Seq(AttemptRecord)
       /\ bs[m + 1] = a /\ Decided(bs, m + 1) = ApprovalDecisionFlag(a.word)
       /\ \A b \in 1..m : bs[b] = att[b] /\ Decided(bs, b) = Decided(att, b)
       /\ \A es : LogOf(att, es) => LogOf(bs, es)
       /\ \A s : IsState(att, s) => IsState(bs, s) /\ s.by # m + 1
       /\ \A s, es : IsState(att, s) /\ Complete(att, s, es) => Complete(bs, s, es)
  BY <1>9 DEF Longer
<1>11. Decided(bs, m + 1) = decision
  BY <1>6, <1>10
<1>12. AttemptsOk(bs)
  <2>1. m + 1 <= MaxAttempts
    BY <1>5, <1>10
  <2>2. \A b \in 1..m : Decided(att, b) \in Decisions
    BY <1>7, <1>10 DEF AttemptsOk
  <2>3. ASSUME NEW b \in 1..(m + 1) PROVE Decided(bs, b) \in Decisions
    <3>1. b \in 1..m \/ b = m + 1
      BY <1>10
    <3> QED
      BY <1>5, <1>10, <1>11, <2>2, <3>1
  <2> QED
    BY <1>10, <2>1, <2>3 DEF AttemptsOk
<1>13. LogOf(bs, events)
  BY <1>7, <1>10
<1>14. FilesOk(bs, files)
  <2>1. files \in [HarnessTasks \X Kinds -> 0..m]
    BY <1>7, <1>10 DEF FilesOk
  <2>2. \A name \in HarnessTasks \X Kinds : files[name] \in 0..m
    BY <2>1
  <2>3. \A x \in 0..m : x \in 0..(m + 1)
    BY <1>10
  <2>4. files \in [HarnessTasks \X Kinds -> 0..(m + 1)]
    BY <2>1, <2>3
  <2>5. ASSUME NEW name \in HarnessTasks \X Kinds, name[2] = "website", files[name] # 0
        PROVE  Decided(bs, files[name]) = "approved"
    <3>1. PICK b \in 1..m : b = files[name]
      BY <1>10, <2>2, <2>5
    <3>2. Decided(att, b) = "approved"
      BY <1>7, <2>5, <3>1 DEF FilesOk
    <3> QED
      BY <1>10, <3>1, <3>2
  <2> QED
    BY <1>10, <2>4, <2>5 DEF FilesOk
<1>15. /\ n.phase = "playing" /\ n.run = run /\ n.task = Task(run, flag)
       /\ n.decision = decision /\ n.steps = Scenario(decision) /\ n.seq = 0
       /\ n.tools = <<>> /\ n.artifacts = {}
  BY <1>4 DEF Idle
<1>16. Task(run, flag) \in HarnessTasks
  BY DEF Task, HarnessTasks
<1>17. /\ Scenario(decision) \in Seq(StepNames) /\ Len(Scenario(decision)) = StepCount(decision)
       /\ \A p \in 1..StepCount(decision) : Scenario(decision)[p] = StepOf(decision, p)
  BY <1>5, ScenarioIs
<1>18. n \in CallRecord
  <2>1. <<>> \in Seq(ToolRecord)
    OBVIOUS
  <2>2. n = [phase |-> "playing", run |-> run, task |-> Task(run, flag), decision |-> decision,
             steps |-> Scenario(decision), seq |-> 0, tools |-> <<>>, artifacts |-> {}]
    BY <1>4 DEF Idle
  <2> QED
    BY <1>5, <1>16, <1>17, <2>1, <2>2 DEF CallRecord
<1>19. Playing(bs, n, events, files)
  <2>1. 1 \in 1..StepCount(decision) /\ StepCount(decision) \in Nat
    BY <1>5 DEF StepCount, Decisions
  <2>2. StepsAt(n.steps, decision, 1)
    <3>1. ASSUME NEW i \in 1..StepCount(decision) PROVE Scenario(decision)[i] = StepOf(decision, 1 + i - 1)
      <4>1. 1 + i - 1 = i
        BY <2>1
      <4> QED
        BY <1>17, <4>1
    <3> QED
      BY <1>15, <1>17, <2>1, <3>1 DEF StepsAt
  <2>3. /\ EventsBefore(decision, 1) = 0 /\ ArtifactsBefore(decision, 1) = {}
    BY DEF EventsBefore, ArtifactsBefore
  <2>4. /\ ToolsAt(n.tools, decision, 1) /\ FilesAt(m + 1, n, files)
        /\ EventsAt(m + 1, events, n.seq, 1)
    BY <1>15 DEF ToolsAt, FilesAt, EventsAt
  <2>5. AtStepOf(bs, n, events, files, 1)
    BY <1>10, <1>15, <2>2, <2>3, <2>4 DEF AtStepOf
  <2>6. OfLast(bs, n)
    BY <1>6, <1>10, <1>11, <1>15, <1>16 DEF OfLast
  <2> QED
    BY <1>15, <2>1, <2>5, <2>6 DEF Playing
<1>20. ASSUME NEW s, Written(att, call, events, s)
       PROVE  Written(bs, n, events, s) /\ s.by # m + 1
  BY <1>10, <1>20 DEF Written
<1>21. StateOk(bs, n, events, stateFile)
  BY <1>7, <1>10, <1>20 DEF StateOk
<1>22. InspectionOk(bs, n, events, inspection)
  BY <1>7, <1>10, <1>20 DEF InspectionOk
<1> QED
  BY <1>5, <1>7, <1>12, <1>13, <1>14, <1>18, <1>19, <1>21, <1>22 DEF HarnessInv

LEMMA RunStep == ASSUME HarnessInv, Run PROVE HarnessInv'
<1>1. PICK run \in RunIds, taskFlag \in TaskFlags \cup {NoFlag}, flag \in Words,
           answer \in Words, terminal \in BOOLEAN :
        \/ Start(run, taskFlag, flag, ApprovalDecisionFlag(flag))
        \/ Start(run, taskFlag, IF answer = "" THEN flag ELSE answer,
                 AskInteractiveQuestions(terminal, answer, flag))
  BY DEF Run
<1>2. CASE Start(run, taskFlag, flag, ApprovalDecisionFlag(flag))
  BY <1>2, StartStep
<1>3. CASE Start(run, taskFlag, IF answer = "" THEN flag ELSE answer,
                 AskInteractiveQuestions(terminal, answer, flag))
  <2>1. PICK word \in Words : word = IF answer = "" THEN flag ELSE answer
    OBVIOUS
  <2>2. PICK decision : decision = AskInteractiveQuestions(terminal, answer, flag)
    OBVIOUS
  <2>3. Start(run, taskFlag, word, decision)
    BY <1>3, <2>1, <2>2
  <2>4. decision \in Decisions
    BY <2>3 DEF Start
  <2>5. decision = ApprovalDecisionFlag(word)
    BY <2>1, <2>2, <2>4, WordDecides
  <2> QED
    BY <2>3, <2>5, StartStep
<1> QED
  BY <1>1, <1>2, <1>3

-----------------------------------------------------------------------------
(***************************************************************************)
(* The steps of a scenario.                                                *)
(***************************************************************************)
LEMMA PrepareRootStep == ASSUME HarnessInv, PrepareRoot PROVE HarnessInv'
<1>1. AtStep({"prepare"})
  BY DEF PrepareRoot
<1>2. /\ call \in CallRecord /\ call.decision \in Decisions /\ call.phase = "playing"
      /\ OfLast(attempts, call)
      /\ \E p \in 1..StepCount(call.decision) :
           /\ AtStepOf(attempts, call, events, files, p)
           /\ Head(call.steps) = StepOf(call.decision, p) /\ Head(call.steps) \in {"prepare"}
  BY <1>1, AtPlace
<1>3. PICK p \in 1..StepCount(call.decision) :
        /\ AtStepOf(attempts, call, events, files, p) /\ StepOf(call.decision, p) = "prepare"
  BY <1>2
<1>4. PICK n : n = Proceed(call)
  OBVIOUS
<1>5. /\ attempts' = attempts /\ call' = n /\ events' = <<>> /\ stateFile' = stateFile
      /\ files' = files /\ inspection' = inspection
  BY <1>4 DEF PrepareRoot
<1>6. p = 1
  BY <1>2, <1>3, StepPlaces
<1>7. Moved(call, n, p)
  <2>1. StepsAt(call.steps, call.decision, p) /\ ToolsAt(call.tools, call.decision, p)
    BY <1>3 DEF AtStepOf
  <2> QED
    BY <1>2, <1>4, <2>1, Proceeds
<1>8. n \in CallRecord /\ Playing(attempts, n, <<>>, files)
  <2>1. FilesAt(Len(attempts), call, files)
    BY <1>3 DEF AtStepOf
  <2>2. /\ EventsBefore(call.decision, 1) = 0 /\ EventsBefore(call.decision, 2) = 0
        /\ ArtifactsBefore(call.decision, 1) = {} /\ ArtifactsBefore(call.decision, 2) = {}
    BY <1>2, <1>3, SilentPlaces
  <2>3. call.seq = 0 /\ call.artifacts = {}
    BY <1>3, <1>6, <2>2 DEF AtStepOf
  <2>4. EventsAt(Len(attempts), <<>>, call.seq, p + 1)
    BY <2>3 DEF EventsAt
  <2>5. p + 1 = 2
    BY <1>6
  <2>6. call.seq = EventsBefore(call.decision, p + 1)
        /\ call.artifacts = ArtifactsBefore(call.decision, p + 1)
    BY <2>2, <2>3, <2>5
  <2> QED
    BY <1>2, <1>7, <2>1, <2>4, <2>6, MovesOn
<1>9. LogOf(attempts, <<>>) /\ Announced(<<>>, files)
  BY DEF LogOf, Announced
<1>10. /\ StateOk(attempts, n, <<>>, stateFile) /\ InspectionOk(attempts, n, <<>>, inspection)
  <2>1. /\ StateOk(attempts, call, events, stateFile)
        /\ InspectionOk(attempts, call, events, inspection)
    BY DEF HarnessInv
  <2> QED
    BY <1>2, <2>1, OthersKeep
<1>11. AttemptsOk(attempts) /\ FilesOk(attempts, files)
  BY DEF HarnessInv
<1> QED
  BY <1>5, <1>8, <1>9, <1>10, <1>11 DEF HarnessInv

\* An event e is the next entry, after k others, of the log of attempt b.
IsNext(att, es, k, b, e) ==
    /\ LogOf(att, es) /\ k \in Nat /\ Len(es) = k /\ b \in 1..Len(att)
    /\ es # <<>> => es[1].by = b
    /\ k + 1 <= EventCount(Decided(att, b))
    /\ e \in EventRecord /\ e = Entry(att, b, k + 1)

Grown(att, es, q, k, b, e) ==
    /\ LogOf(att, q) /\ Len(q) = k + 1 /\ q # <<>> /\ q[1].by = b
    /\ \A j \in 1..k : q[j] = es[j]
    /\ q[k + 1] = e

LEMMA LogGrows ==
    ASSUME NEW att, NEW es, NEW k, NEW b, NEW e, IsNext(att, es, k, b, e)
    PROVE  Grown(att, es, Append(es, e), k, b, e)
<1> USE DEF IsNext
<1>1. PICK q : q = Append(es, e)
  OBVIOUS
<1>2. es \in Seq(EventRecord)
  BY DEF LogOf
<1>3. q \in Seq(EventRecord) /\ Len(q) = k + 1 /\ q # <<>>
  BY <1>2, <1>1
<1>4. q[k + 1] = e
  BY <1>2, <1>1
<1>5. \A j \in 1..k : q[j] = es[j]
  BY <1>2, <1>1
<1>6. e.by = b
  BY DEF Entry
<1>7. q[1].by = b
  <2>1. CASE k = 0
    BY <1>4, <1>6, <2>1
  <2>2. CASE k > 0
    <3>1. es # <<>> /\ 1 \in 1..k
      BY <2>2
    <3> QED
      BY <1>5, <3>1
  <2> QED
    BY <2>1, <2>2
<1>8. ASSUME NEW j \in 1..k PROVE es[j] = Entry(att, b, j)
  <2>1. es # <<>>
    OBVIOUS
  <2> QED
    BY <2>1 DEF LogOf
<1>9. ASSUME NEW j \in 1..(k + 1) PROVE q[j] = Entry(att, b, j)
  BY <1>4, <1>5, <1>8
<1>10. LogOf(att, q)
  BY <1>3, <1>7, <1>9 DEF LogOf
<1>11. Grown(att, es, q, k, b, e)
  BY <1>3, <1>4, <1>5, <1>7, <1>10 DEF Grown
<1> QED
  BY <1>1, <1>11

\* A step that writes an event.
LEMMA PutEventStep ==
    ASSUME HarnessInv, NEW p \in 1..StepCount(call.decision), NEW type, NEW about,
           AtStepOf(attempts, call, events, files, p), call.phase = "playing",
           p > 1, p < StepCount(call.decision),
           EventsBefore(call.decision, p + 1) = EventsBefore(call.decision, p) + 1,
           ArtifactsBefore(call.decision, p + 1) = ArtifactsBefore(call.decision, p),
           EventsBefore(call.decision, p) + 1 <= EventCount(call.decision),
           type = TypeAt(call.decision, EventsBefore(call.decision, p) + 1),
           about = AboutAt(call.decision, EventsBefore(call.decision, p) + 1),
           type \in {"run.status", "request", "decision", "artifact"},
           about \in Statuses \cup Decisions \cup Kinds,
           type = "artifact" => about \in call.artifacts /\ about \in Kinds,
           PutEvent(type, about)
    PROVE  HarnessInv'
<1>1. /\ call \in CallRecord /\ Playing(attempts, call, events, files)
      /\ AttemptsOk(attempts) /\ FilesOk(attempts, files) /\ LogOf(attempts, events)
      /\ Announced(events, files)
      /\ StateOk(attempts, call, events, stateFile)
      /\ InspectionOk(attempts, call, events, inspection)
  BY DEF HarnessInv
<1>2. OfLast(attempts, call)
  BY <1>1 DEF Playing
<1>3. PICK d \in Decisions : d = call.decision
  BY <1>1 DEF CallRecord
<1>4. PICK b \in Nat : b = Len(attempts) /\ b > 0
  BY <1>1, <1>2 DEF OfLast, AttemptsOk
<1>5. call.run = attempts[b].run /\ d = Decided(attempts, b) /\ call.task \in HarnessTasks
  BY <1>2, <1>3, <1>4 DEF OfLast
<1>6. PICK k \in Nat : k = EventsBefore(d, p)
  BY <1>3, SilentPlaces
<1>7. call.seq = k /\ Len(events) = k /\ (events # <<>> => events[1].by = b)
  BY <1>3, <1>4, <1>6 DEF AtStepOf, EventsAt
<1>8. PICK e : e = [by |-> b, run |-> call.run, seq |-> k + 1, type |-> type, about |-> about]
  OBVIOUS
<1>9. PICK c : c = [call EXCEPT !.seq = k + 1]
  OBVIOUS
<1>10. PICK n : n = Proceed(c)
  OBVIOUS
<1>11. PICK q : q = Append(events, e)
  OBVIOUS
<1>12. /\ attempts' = attempts /\ call' = n /\ events' = q /\ stateFile' = stateFile
       /\ files' = files /\ inspection' = inspection
  BY <1>4, <1>7, <1>8, <1>9, <1>10, <1>11 DEF PutEvent
<1>13. e \in EventRecord
  <2>1. call.run \in RunIds
    BY <1>1 DEF CallRecord
  <2> QED
    BY <1>8, <2>1 DEF EventRecord
<1>14. e = Entry(attempts, b, k + 1)
  BY <1>3, <1>5, <1>6, <1>8 DEF Entry
<1>15. k + 1 <= EventCount(Decided(attempts, b))
  BY <1>3, <1>5, <1>6
<1>16. b \in 1..Len(attempts)
  BY <1>4
<1>17. /\ LogOf(attempts, q) /\ Len(q) = k + 1 /\ q # <<>> /\ q[1].by = b
       /\ \A j \in 1..k : q[j] = events[j]
       /\ q[k + 1] = e
  <2>1. IsNext(attempts, events, k, b, e)
    BY <1>1, <1>7, <1>13, <1>14, <1>15, <1>16 DEF IsNext
  <2>2. Grown(attempts, events, Append(events, e), k, b, e)
    BY <2>1, LogGrows
  <2> QED
    BY <1>11, <2>2 DEF Grown
<1>18. Announced(q, files)
  <2>1. ASSUME NEW j \in 1..k, q[j].type = "artifact"
        PROVE  \E name \in HarnessTasks \X Kinds : name[2] = q[j].about /\ files[name] = q[j].by
    BY <1>1, <1>7, <1>17, <2>1 DEF Announced
  <2>2. ASSUME e.type = "artifact"
        PROVE  \E name \in HarnessTasks \X Kinds : name[2] = e.about /\ files[name] = e.by
    <3>1. about \in call.artifacts /\ about \in Kinds /\ e.about = about /\ e.by = b
      BY <1>8, <2>2
    <3>2. files[<<call.task, about>>] = b
      BY <1>4, <3>1 DEF AtStepOf, FilesAt
    <3>3. <<call.task, about>> \in HarnessTasks \X Kinds /\ <<call.task, about>>[2] = about
      BY <1>5, <3>1
    <3> QED
      BY <3>1, <3>2, <3>3
  <2>3. ASSUME NEW j \in 1..(k + 1) PROVE j \in 1..k \/ j = k + 1
    OBVIOUS
  <2> QED
    BY <1>17, <2>1, <2>2, <2>3 DEF Announced
<1>19. /\ c \in CallRecord /\ c.phase = "playing" /\ c.decision = d /\ c.seq = k + 1
       /\ c.steps = call.steps /\ c.tools = call.tools /\ c.artifacts = call.artifacts
       /\ c.run = call.run /\ c.task = call.task
  <2>1. k + 1 \in Nat
    OBVIOUS
  <2> QED
    BY <1>1, <1>3, <1>9, <2>1 DEF CallRecord
<1>20. Moved(c, n, p)
  <2>1. StepsAt(c.steps, c.decision, p) /\ ToolsAt(c.tools, c.decision, p)
    BY <1>3, <1>19 DEF AtStepOf
  <2>2. p \in 1..StepCount(c.decision)
    BY <1>3, <1>19
  <2> QED
    BY <1>10, <1>19, <2>1, <2>2, Proceeds
<1>21. n \in CallRecord /\ Playing(attempts, n, q, files)
  <2>1. FilesAt(Len(attempts), c, files)
    BY <1>19 DEF AtStepOf, FilesAt
  <2>2. OfLast(attempts, c)
    BY <1>2, <1>3, <1>19 DEF OfLast
  <2>3. EventsAt(Len(attempts), q, c.seq, p + 1)
    BY <1>4, <1>17, <1>19 DEF EventsAt
  <2>4. /\ c.seq = EventsBefore(c.decision, p + 1)
        /\ c.artifacts = ArtifactsBefore(c.decision, p + 1)
    BY <1>3, <1>6, <1>19 DEF AtStepOf
  <2>5. p \in 1..StepCount(c.decision) /\ c.decision \in Decisions
    BY <1>3, <1>19
  <2> QED
    BY <1>20, <2>1, <2>2, <2>3, <2>4, <2>5, MovesOn
<1>22. StateOk(attempts, n, q, stateFile) /\ InspectionOk(attempts, n, q, inspection)
  BY <1>1, <1>4, <1>17, OthersKeep
<1> QED
  BY <1>1, <1>12, <1>17, <1>18, <1>21, <1>22 DEF HarnessInv

LEMMA PutStatusStep == ASSUME HarnessInv, PutStatus PROVE HarnessInv'
<1>1. AtStep(Statuses) /\ PutEvent("run.status", Head(call.steps))
  BY DEF PutStatus
<1>2. /\ call.decision \in Decisions /\ call.phase = "playing"
      /\ \E p \in 1..StepCount(call.decision) :
           /\ AtStepOf(attempts, call, events, files, p)
           /\ Head(call.steps) = StepOf(call.decision, p) /\ Head(call.steps) \in Statuses
  BY <1>1, AtPlace
<1>3. PICK p \in 1..StepCount(call.decision) :
        /\ AtStepOf(attempts, call, events, files, p)
        /\ Head(call.steps) = StepOf(call.decision, p) /\ StepOf(call.decision, p) \in Statuses
  BY <1>2
<1>4. PICK about : about = StepOf(call.decision, p)
  OBVIOUS
<1>5. /\ p > 1 /\ p < StepCount(call.decision)
      /\ EventsBefore(call.decision, p + 1) = EventsBefore(call.decision, p) + 1
      /\ ArtifactsBefore(call.decision, p + 1) = ArtifactsBefore(call.decision, p)
      /\ EventsBefore(call.decision, p) + 1 <= EventCount(call.decision)
      /\ TypeAt(call.decision, EventsBefore(call.decision, p) + 1) = "run.status"
      /\ AboutAt(call.decision, EventsBefore(call.decision, p) + 1) = StepOf(call.decision, p)
  BY <1>2, <1>3, StatusPlaces
<1>6. PutEvent("run.status", about)
  BY <1>1, <1>3, <1>4
<1>7. about \in Statuses \cup Decisions \cup Kinds
  BY <1>3, <1>4
<1>8. "run.status" \in {"run.status", "request", "decision", "artifact"} /\ "run.status" # "artifact"
  OBVIOUS
<1>9. /\ about = AboutAt(call.decision, EventsBefore(call.decision, p) + 1)
      /\ "run.status" = TypeAt(call.decision, EventsBefore(call.decision, p) + 1)
  BY <1>4, <1>5
<1> QED
  BY <1>2, <1>3, <1>5, <1>6, <1>7, <1>8, <1>9, PutEventStep

LEMMA PutApprovalRequestStep == ASSUME HarnessInv, PutApprovalRequest PROVE HarnessInv'
<1>1. AtStep({"request"}) /\ PutEvent("request", "pending")
  BY DEF PutApprovalRequest
<1>2. /\ call.decision \in Decisions /\ call.phase = "playing"
      /\ \E p \in 1..StepCount(call.decision) :
           /\ AtStepOf(attempts, call, events, files, p)
           /\ Head(call.steps) = StepOf(call.decision, p) /\ Head(call.steps) \in {"request"}
  BY <1>1, AtPlace
<1>3. PICK p \in 1..StepCount(call.decision) :
        /\ AtStepOf(attempts, call, events, files, p) /\ StepOf(call.decision, p) = "request"
  BY <1>2
<1>4. StepOf(call.decision, p) \in {"request", "decision", "report_event", "website_event"}
  BY <1>3
<1>5. /\ p > 1 /\ p < StepCount(call.decision)
      /\ EventsBefore(call.decision, p + 1) = EventsBefore(call.decision, p) + 1
      /\ ArtifactsBefore(call.decision, p + 1) = ArtifactsBefore(call.decision, p)
      /\ EventsBefore(call.decision, p) + 1 <= EventCount(call.decision)
      /\ TypeAt(call.decision, EventsBefore(call.decision, p) + 1) = "request"
      /\ AboutAt(call.decision, EventsBefore(call.decision, p) + 1) = "pending"
  BY <1>2, <1>3, <1>4, OtherPlaces
<1>6. "pending" \in Statuses \cup Decisions \cup Kinds
  BY DEF Decisions
<1>7. "request" \in {"run.status", "request", "decision", "artifact"} /\ "request" # "artifact"
  OBVIOUS
<1>8. /\ "pending" = AboutAt(call.decision, EventsBefore(call.decision, p) + 1)
      /\ "request" = TypeAt(call.decision, EventsBefore(call.decision, p) + 1)
  BY <1>5
<1> QED
  BY <1>1, <1>2, <1>3, <1>5, <1>6, <1>7, <1>8, PutEventStep

LEMMA PutApprovalDecisionStep == ASSUME HarnessInv, PutApprovalDecision PROVE HarnessInv'
<1>1. AtStep({"decision"}) /\ PutEvent("decision", call.decision)
  BY DEF PutApprovalDecision
<1>2. /\ call.decision \in Decisions /\ call.phase = "playing"
      /\ \E p \in 1..StepCount(call.decision) :
           /\ AtStepOf(attempts, call, events, files, p)
           /\ Head(call.steps) = StepOf(call.decision, p) /\ Head(call.steps) \in {"decision"}
  BY <1>1, AtPlace
<1>3. PICK p \in 1..StepCount(call.decision) :
        /\ AtStepOf(attempts, call, events, files, p) /\ StepOf(call.decision, p) = "decision"
  BY <1>2
<1>4. StepOf(call.decision, p) \in {"request", "decision", "report_event", "website_event"}
  BY <1>3
<1>5. /\ p > 1 /\ p < StepCount(call.decision)
      /\ EventsBefore(call.decision, p + 1) = EventsBefore(call.decision, p) + 1
      /\ ArtifactsBefore(call.decision, p + 1) = ArtifactsBefore(call.decision, p)
      /\ EventsBefore(call.decision, p) + 1 <= EventCount(call.decision)
      /\ TypeAt(call.decision, EventsBefore(call.decision, p) + 1) = "decision"
      /\ AboutAt(call.decision, EventsBefore(call.decision, p) + 1) = call.decision
  BY <1>2, <1>3, <1>4, OtherPlaces
<1>6. call.decision \in Statuses \cup Decisions \cup Kinds
  BY <1>2
<1>7. "decision" \in {"run.status", "request", "decision", "artifact"} /\ "decision" # "artifact"
  OBVIOUS
<1>8. /\ call.decision = AboutAt(call.decision, EventsBefore(call.decision, p) + 1)
      /\ "decision" = TypeAt(call.decision, EventsBefore(call.decision, p) + 1)
  BY <1>5
<1> QED
  BY <1>1, <1>2, <1>3, <1>5, <1>6, <1>7, <1>8, PutEventStep

LEMMA PutArtifactEventStep == ASSUME HarnessInv, PutArtifactEvent PROVE HarnessInv'
<1>1. PICK kind \in Kinds, step \in {"report_event", "website_event"} :
        /\ (kind = "report" /\ step = "report_event") \/ (kind = "website" /\ step = "website_event")
        /\ AtStep({step}) /\ PutEvent("artifact", kind)
  BY DEF PutArtifactEvent, Kinds
<1>3. (kind = "report" /\ step = "report_event") \/ (kind = "website" /\ step = "website_event")
  BY <1>1
<1>4. AtStep({step})
  BY <1>1
<1>5. /\ call.decision \in Decisions /\ call.phase = "playing"
      /\ \E p \in 1..StepCount(call.decision) :
           /\ AtStepOf(attempts, call, events, files, p)
           /\ Head(call.steps) = StepOf(call.decision, p) /\ Head(call.steps) \in {step}
  BY <1>4, AtPlace
<1>6. PICK p \in 1..StepCount(call.decision) :
        /\ AtStepOf(attempts, call, events, files, p) /\ StepOf(call.decision, p) = step
  BY <1>5
<1>7. StepOf(call.decision, p) \in {"request", "decision", "report_event", "website_event"}
  BY <1>3, <1>6
<1>8. /\ p > 1 /\ p < StepCount(call.decision)
      /\ EventsBefore(call.decision, p + 1) = EventsBefore(call.decision, p) + 1
      /\ ArtifactsBefore(call.decision, p + 1) = ArtifactsBefore(call.decision, p)
      /\ EventsBefore(call.decision, p) + 1 <= EventCount(call.decision)
      /\ TypeAt(call.decision, EventsBefore(call.decision, p) + 1) =
                CASE StepOf(call.decision, p) = "request" -> "request"
                  [] StepOf(call.decision, p) = "decision" -> "decision"
                  [] OTHER -> "artifact"
      /\ AboutAt(call.decision, EventsBefore(call.decision, p) + 1) =
                CASE StepOf(call.decision, p) = "request" -> "pending"
                  [] StepOf(call.decision, p) = "decision" -> call.decision
                  [] StepOf(call.decision, p) = "report_event" -> "report"
                  [] OTHER -> "website"
      /\ StepOf(call.decision, p) = "report_event" => "report" \in ArtifactsBefore(call.decision, p)
      /\ StepOf(call.decision, p) = "website_event" => "website" \in ArtifactsBefore(call.decision, p)
  BY <1>5, <1>6, <1>7, OtherPlaces
<1>9. /\ kind = AboutAt(call.decision, EventsBefore(call.decision, p) + 1)
      /\ "artifact" = TypeAt(call.decision, EventsBefore(call.decision, p) + 1)
      /\ kind \in ArtifactsBefore(call.decision, p)
  BY <1>3, <1>6, <1>8
<1>10. kind \in call.artifacts
  BY <1>6, <1>9 DEF AtStepOf
<1>11. kind \in Statuses \cup Decisions \cup Kinds
  OBVIOUS
<1>12. "artifact" \in {"run.status", "request", "decision", "artifact"}
  OBVIOUS
<1> QED
  BY <1>1, <1>5, <1>6, <1>8, <1>9, <1>10, <1>11, <1>12, PutEventStep

\* A step that writes an artifact's file.
LEMMA WriteArtifactStep ==
    ASSUME HarnessInv, NEW kind \in Kinds, WriteArtifact(kind)
    PROVE  HarnessInv'
<1>1. AtStep({kind})
  BY DEF WriteArtifact
<1>2. /\ call \in CallRecord /\ call.decision \in Decisions /\ call.phase = "playing"
      /\ OfLast(attempts, call)
      /\ \E p \in 1..StepCount(call.decision) :
           /\ AtStepOf(attempts, call, events, files, p)
           /\ Head(call.steps) = StepOf(call.decision, p) /\ Head(call.steps) \in {kind}
  BY <1>1, AtPlace
<1>3. PICK d \in Decisions : d = call.decision
  BY <1>2
<1>4. PICK p \in 1..StepCount(d) :
        /\ AtStepOf(attempts, call, events, files, p) /\ StepOf(d, p) = kind
  BY <1>2, <1>3
<1>5. /\ AttemptsOk(attempts) /\ FilesOk(attempts, files) /\ LogOf(attempts, events)
      /\ Announced(events, files)
      /\ StateOk(attempts, call, events, stateFile)
      /\ InspectionOk(attempts, call, events, inspection)
  BY DEF HarnessInv
<1>6. PICK b \in Nat : b = Len(attempts) /\ b > 0
  BY <1>2, <1>5 DEF OfLast, AttemptsOk
<1>7. kind = "report" \/ kind = "website"
  BY DEF Kinds
<1>8. /\ EventsBefore(d, p + 1) = EventsBefore(d, p) /\ p > 1 /\ p < StepCount(d)
      /\ ArtifactsBefore(d, p + 1) = ArtifactsBefore(d, p) \cup {kind}
  <2>1. kind \in {"report", "website", "truncate"}
    BY <1>7
  <2>2. EventsBefore(d, p + 1) = EventsBefore(d, p) /\ p > 1 /\ p < StepCount(d)
    BY <1>4, <2>1, SilentPlaces
  <2>3. CASE kind = "report"
    BY <1>4, <2>2, <2>3, SilentPlaces
  <2>4. CASE kind = "website"
    BY <1>4, <2>2, <2>4, SilentPlaces
  <2> QED
    BY <1>7, <2>3, <2>4
<1>9. PICK name \in HarnessTasks \X Kinds : name = <<call.task, kind>>
  BY <1>2 DEF OfLast
<1>10. PICK fs : fs = [files EXCEPT ![name] = b]
  OBVIOUS
<1>11. PICK c : c = [call EXCEPT !.artifacts = @ \cup {kind}]
  OBVIOUS
<1>12. PICK n : n = Proceed(c)
  OBVIOUS
<1>13. /\ attempts' = attempts /\ call' = n /\ events' = events /\ stateFile' = stateFile
       /\ files' = fs /\ inspection' = inspection
  BY <1>6, <1>9, <1>10, <1>11, <1>12 DEF WriteArtifact
<1>14. files \in [HarnessTasks \X Kinds -> 0..b]
  BY <1>5, <1>6 DEF FilesOk
<1>15. /\ fs \in [HarnessTasks \X Kinds -> 0..b] /\ fs[name] = b
       /\ \A x \in HarnessTasks \X Kinds : x # name => fs[x] = files[x]
  BY <1>6, <1>10, <1>14
<1>16. FilesOk(attempts, fs)
  <2>1. ASSUME NEW x \in HarnessTasks \X Kinds, x[2] = "website", fs[x] # 0
        PROVE  Decided(attempts, fs[x]) = "approved"
    <3>1. CASE x = name
      <4>1. kind = "website"
        BY <1>9, <2>1, <3>1
      <4>2. d = "approved"
        BY <1>4, <4>1, StepPlaces
      <4> QED
        BY <1>2, <1>3, <1>6, <1>15, <3>1, <4>2 DEF OfLast
    <3>2. CASE x # name
      BY <1>5, <1>15, <2>1, <3>2 DEF FilesOk
    <3> QED
      BY <3>1, <3>2
  <2> QED
    BY <1>6, <1>15, <2>1 DEF FilesOk
<1>17. events # <<>> => events[1].by = b
  BY <1>4, <1>6, <1>8 DEF AtStepOf, EventsAt
<1>18. Announced(events, fs)
  <2>1. ASSUME NEW j \in 1..Len(events), events[j].type = "artifact"
        PROVE  \E x \in HarnessTasks \X Kinds : x[2] = events[j].about /\ fs[x] = events[j].by
    <3>1. PICK x \in HarnessTasks \X Kinds : x[2] = events[j].about /\ files[x] = events[j].by
      BY <1>5, <2>1 DEF Announced
    <3>2. CASE x = name
      <4>1. events # <<>> /\ events \in Seq(EventRecord)
        BY <1>5, <2>1 DEF LogOf
      <4>2. events[j] = Entry(attempts, events[1].by, j)
        BY <1>5, <4>1 DEF LogOf
      <4>3. events[j].by = b
        BY <1>17, <4>1, <4>2 DEF Entry
      <4> QED
        BY <1>15, <3>1, <3>2, <4>3
    <3>3. CASE x # name
      BY <1>15, <3>1, <3>3
    <3> QED
      BY <3>2, <3>3
  <2> QED
    BY <2>1 DEF Announced
<1>19. /\ c \in CallRecord /\ c.phase = "playing" /\ c.decision = d /\ c.seq = call.seq
       /\ c.steps = call.steps /\ c.tools = call.tools /\ c.artifacts = call.artifacts \cup {kind}
       /\ c.run = call.run /\ c.task = call.task
  <2>1. call.artifacts \cup {kind} \in SUBSET Kinds
    BY <1>2 DEF CallRecord
  <2> QED
    BY <1>2, <1>3, <1>11, <2>1 DEF CallRecord
<1>20. Moved(c, n, p)
  <2>1. StepsAt(c.steps, c.decision, p) /\ ToolsAt(c.tools, c.decision, p)
    BY <1>3, <1>4, <1>19 DEF AtStepOf
  <2>2. p \in 1..StepCount(c.decision)
    BY <1>19
  <2> QED
    BY <1>12, <1>19, <2>1, <2>2, Proceeds
<1>21. n \in CallRecord /\ Playing(attempts, n, events, fs)
  <2>1. FilesAt(Len(attempts), c, fs)
    <3>1. ASSUME NEW k \in c.artifacts PROVE fs[<<call.task, k>>] = b
      <4>1. k \in Kinds /\ <<call.task, k>> \in HarnessTasks \X Kinds
        BY <1>2, <1>19 DEF OfLast, CallRecord
      <4>2. CASE k = kind
        BY <1>9, <1>15, <4>2
      <4>3. CASE k # kind
        <5>1. <<call.task, k>> # name
          BY <1>9, <4>3
        <5>2. files[<<call.task, k>>] = b
          BY <1>4, <1>6, <1>19, <4>3 DEF AtStepOf, FilesAt
        <5> QED
          BY <1>15, <4>1, <5>1, <5>2
      <4> QED
        BY <4>2, <4>3
    <3> QED
      BY <1>6, <1>19, <3>1 DEF FilesAt
  <2>2. OfLast(attempts, c)
    BY <1>2, <1>3, <1>19 DEF OfLast
  <2>3. EventsAt(Len(attempts), events, c.seq, p + 1)
    BY <1>4, <1>8, <1>19 DEF AtStepOf, EventsAt
  <2>4. /\ c.seq = EventsBefore(c.decision, p + 1)
        /\ c.artifacts = ArtifactsBefore(c.decision, p + 1)
    BY <1>3, <1>4, <1>8, <1>19 DEF AtStepOf
  <2>5. p \in 1..StepCount(c.decision) /\ c.decision \in Decisions
    BY <1>19
  <2> QED
    BY <1>20, <2>1, <2>2, <2>3, <2>4, <2>5, MovesOn
<1>22. StateOk(attempts, n, events, stateFile) /\ InspectionOk(attempts, n, events, inspection)
  BY <1>2, <1>5, OthersKeep
<1> QED
  BY <1>5, <1>13, <1>16, <1>18, <1>21, <1>22 DEF HarnessInv

\* The state that is written at the end sums up the attempt.
LEMMA StateIsWritten ==
    ASSUME HarnessInv, call.phase = "playing", NEW p \in 1..StepCount(call.decision),
           AtStepOf(attempts, call, events, files, p), StepOf(call.decision, p) = "state",
           NEW s, s = BuildState(IF call.decision = "pending"
                                 THEN "waiting_for_approval" ELSE "succeeded")
    PROVE  /\ IsState(attempts, s) /\ s.by = Len(attempts) /\ Complete(attempts, s, events)
           /\ events # <<>> /\ events[1].by = s.by
<1>1. /\ call \in CallRecord /\ Playing(attempts, call, events, files) /\ AttemptsOk(attempts)
  BY DEF HarnessInv
<1>2. OfLast(attempts, call)
  BY <1>1 DEF Playing
<1>3. PICK d \in Decisions : d = call.decision
  BY <1>1 DEF CallRecord
<1>4. PICK b \in Nat : b = Len(attempts) /\ b > 0
  BY <1>1, <1>2 DEF OfLast, AttemptsOk
<1>5. call.run = attempts[b].run /\ d = Decided(attempts, b)
  BY <1>2, <1>3, <1>4 DEF OfLast
<1>6. p = StepCount(d) /\ p > 1 /\ EventsBefore(d, p) = EventCount(d) /\ EventCount(d) > 0
      /\ EventCount(d) \in Nat
  BY <1>3, StepPlaces, SilentPlaces
<1>7. call.seq = EventCount(d) /\ call.artifacts = ArtifactsBefore(d, StepCount(d))
  BY <1>3, <1>6 DEF AtStepOf
<1>8. Len(events) = EventCount(d) /\ events # <<>> /\ events[1].by = b
  <2>1. Len(events) = EventCount(d) /\ (events # <<>> => events[1].by = b)
    BY <1>4, <1>6, <1>7 DEF AtStepOf, EventsAt
  <2>2. events # <<>>
    BY <1>6, <2>1
  <2> QED
    BY <2>1, <2>2
<1>9. PICK tools \in Seq(ToolRecord) : tools = call.tools
  BY <1>1 DEF CallRecord
<1>10. p >= 7
  BY <1>3, <1>6 DEF StepCount, Decisions
<1>11. /\ Len(tools) >= 4 /\ \A k \in 1..Len(tools) : tools[k].gated <=> k = 4
       /\ d # "pending" => tools[4].status = d
  BY <1>3, <1>9, <1>10 DEF AtStepOf, ToolsAt
<1>12. PICK m : m = BuildToolMetrics(tools)
  OBVIOUS
<1>13. m.approvalGated = 1
  <2>1. DOMAIN tools = 1..Len(tools) /\ 4 \in 1..Len(tools)
    BY <1>11
  <2>2. {k \in DOMAIN tools : tools[k].gated} = {4}
    BY <1>11, <2>1
  <2>3. m.approvalGated = Cardinality({k \in DOMAIN tools : tools[k].gated})
    BY <1>12 DEF BuildToolMetrics
  <2>4. Cardinality({4}) = 1
    BY FS_Singleton
  <2> QED
    BY <2>2, <2>3, <2>4
<1>14. d # "pending" => d \in DOMAIN m.byStatus
  <2>1. DOMAIN m.byStatus = {tools[k].status : k \in DOMAIN tools}
    BY <1>12 DEF BuildToolMetrics
  <2>2. 4 \in DOMAIN tools
    BY <1>11
  <2> QED
    BY <1>11, <2>1, <2>2
<1>15. PICK status : status = IF d = "pending" THEN "waiting_for_approval" ELSE "succeeded"
  OBVIOUS
<1>16. s = BuildState(status)
  BY <1>3, <1>15
<1>17. /\ s.kind = "state" /\ s.by = b /\ s.run = call.run /\ s.status = status
       /\ s.metrics = m /\ s.artifacts = call.artifacts /\ s.eventCursor = call.seq
       /\ s.waitStates = IF status = "waiting_for_approval" THEN 1 ELSE 0
  BY <1>4, <1>9, <1>12, <1>16 DEF BuildState
<1>18. IsState(attempts, s)
  <2>1. s.by \in 1..Len(attempts) /\ s.run = attempts[s.by].run /\ Decided(attempts, s.by) = d
    BY <1>4, <1>5, <1>17
  <2>2. s.waitStates = IF d = "pending" THEN 1 ELSE 0
    BY <1>15, <1>17
  <2> QED
    BY <1>7, <1>13, <1>14, <1>15, <1>17, <2>1, <2>2 DEF IsState
<1>19. Complete(attempts, s, events)
  BY <1>5, <1>8, <1>17 DEF Complete
<1> QED
  BY <1>4, <1>8, <1>17, <1>18, <1>19

LEMMA WriteStateStep == ASSUME HarnessInv, WriteState PROVE HarnessInv'
<1>1. AtStep({"truncate", "state"})
  BY DEF WriteState
<1>2. /\ call \in CallRecord /\ call.decision \in Decisions /\ call.phase = "playing"
      /\ OfLast(attempts, call)
      /\ \E p \in 1..StepCount(call.decision) :
           /\ AtStepOf(attempts, call, events, files, p)
           /\ Head(call.steps) = StepOf(call.decision, p)
           /\ Head(call.steps) \in {"truncate", "state"}
  BY <1>1, AtPlace
<1>3. PICK p \in 1..StepCount(call.decision) :
        /\ AtStepOf(attempts, call, events, files, p)
        /\ Head(call.steps) = StepOf(call.decision, p)
        /\ StepOf(call.decision, p) \in {"truncate", "state"}
  BY <1>2
<1>4. PICK n : n = Proceed(call)
  OBVIOUS
<1>5. PICK s : s = IF StepOf(call.decision, p) = "truncate" THEN Torn
                   ELSE BuildState(IF call.decision = "pending"
                                   THEN "waiting_for_approval" ELSE "succeeded")
  OBVIOUS
<1>6. /\ attempts' = attempts /\ call' = n /\ events' = events /\ stateFile' = s
      /\ files' = files /\ inspection' = inspection
  BY <1>3, <1>4, <1>5 DEF WriteState
<1>7. /\ AttemptsOk(attempts) /\ FilesOk(attempts, files) /\ LogOf(attempts, events)
      /\ Announced(events, files)
      /\ InspectionOk(attempts, call, events, inspection)
  BY DEF HarnessInv
<1>8. Moved(call, n, p)
  <2>1. StepsAt(call.steps, call.decision, p) /\ ToolsAt(call.tools, call.decision, p)
    BY <1>3 DEF AtStepOf
  <2> QED
    BY <1>2, <1>4, <2>1, Proceeds
<1>9. InspectionOk(attempts, n, events, inspection)
  BY <1>2, <1>7, OthersKeep
<1>10. FilesAt(Len(attempts), call, files)
  BY <1>3 DEF AtStepOf
<1>11. CASE StepOf(call.decision, p) = "truncate"
  <2>1. EventsBefore(call.decision, p + 1) = EventsBefore(call.decision, p) /\ p > 1
        /\ ArtifactsBefore(call.decision, p + 1) = ArtifactsBefore(call.decision, p)
    BY <1>2, <1>11, SilentPlaces
  <2>2. /\ EventsAt(Len(attempts), events, call.seq, p + 1)
        /\ call.seq = EventsBefore(call.decision, p + 1)
        /\ call.artifacts = ArtifactsBefore(call.decision, p + 1)
    BY <1>3, <2>1 DEF AtStepOf, EventsAt
  <2>3. n \in CallRecord /\ Playing(attempts, n, events, files)
    BY <1>2, <1>8, <1>10, <2>2, MovesOn
  <2>4. StateOk(attempts, n, events, s)
    BY <1>5, <1>11 DEF StateOk
  <2> QED
    BY <1>6, <1>7, <1>9, <2>3, <2>4 DEF HarnessInv
<1>12. CASE StepOf(call.decision, p) = "state"
  <2>1. p = StepCount(call.decision)
    BY <1>2, <1>12, StepPlaces
  <2>2. n.phase = "ended" /\ n \in CallRecord
    BY <1>8, <2>1 DEF Moved
  <2>3. Playing(attempts, n, events, files)
    BY <2>2 DEF Playing
  <2>4. s = BuildState(IF call.decision = "pending" THEN "waiting_for_approval" ELSE "succeeded")
    BY <1>5, <1>12
  <2>5. /\ IsState(attempts, s) /\ s.by = Len(attempts) /\ Complete(attempts, s, events)
        /\ events # <<>> /\ events[1].by = s.by
    BY <1>2, <1>3, <1>12, <2>4, StateIsWritten
  <2>6. Written(attempts, n, events, s)
    BY <2>2, <2>5 DEF Written
  <2>7. StateOk(attempts, n, events, s)
    BY <2>5, <2>6 DEF StateOk
  <2> QED
    BY <1>6, <1>7, <1>9, <2>2, <2>3, <2>7 DEF HarnessInv
<1> QED
  BY <1>3, <1>11, <1>12

LEMMA AbortStep == ASSUME HarnessInv, Abort PROVE HarnessInv'
<1>1. /\ call \in CallRecord /\ AttemptsOk(attempts) /\ FilesOk(attempts, files)
      /\ LogOf(attempts, events) /\ Announced(events, files)
      /\ StateOk(attempts, call, events, stateFile)
      /\ InspectionOk(attempts, call, events, inspection)
  BY DEF HarnessInv
<1>2. PICK n : n = [call EXCEPT !.phase = "aborted", !.steps = <<>>]
  OBVIOUS
<1>3. /\ attempts' = attempts /\ call' = n /\ events' = events /\ stateFile' = stateFile
      /\ files' = files /\ inspection' = inspection /\ call.phase = "playing"
  BY <1>2 DEF Abort
<1>4. n \in CallRecord /\ n.phase = "aborted"
  <2>1. <<>> \in Seq(StepNames)
    OBVIOUS
  <2> QED
    BY <1>1, <1>2, <2>1 DEF CallRecord
<1>5. Playing(attempts, n, events, files)
  BY <1>4 DEF Playing
<1>6. StateOk(attempts, n, events, stateFile) /\ InspectionOk(attempts, n, events, inspection)
  BY <1>1, <1>3, OthersKeep
<1> QED
  BY <1>1, <1>3, <1>4, <1>5, <1>6 DEF HarnessInv

\* An inspection holds what was in the files when it read them.
LEMMA InspectStep == ASSUME HarnessInv, InspectLocalHarness PROVE HarnessInv'
<1>1. /\ call \in CallRecord /\ AttemptsOk(attempts) /\ FilesOk(attempts, files)
      /\ LogOf(attempts, events) /\ Announced(events, files)
      /\ Playing(attempts, call, events, files)
      /\ StateOk(attempts, call, events, stateFile)
      /\ InspectionOk(attempts, call, events, inspection)
  BY DEF HarnessInv
<1>2. /\ attempts' = attempts /\ call' = call /\ events' = events /\ stateFile' = stateFile
      /\ files' = files
  BY DEF InspectLocalHarness, ReadState, ReadEvents
<1>3. PICK i : i = inspection'
  OBVIOUS
<1>4. InspectionOk(attempts, call, events, i)
  <2>1. CASE ReadState
    <3>1. CASE stateFile \in {NoFile, Torn}
      <4>1. /\ i.phase = "failed"
            /\ i = [phase |-> i.phase, state |-> i.state, events |-> i.events]
        BY <1>3, <2>1, <3>1 DEF ReadState
      <4> QED
        BY <4>1 DEF InspectionOk
    <3>2. CASE stateFile \notin {NoFile, Torn}
      <4>1. /\ i.phase = "reading" /\ i.state = stateFile
            /\ i = [phase |-> i.phase, state |-> i.state, events |-> i.events]
        BY <1>3, <2>1, <3>2 DEF ReadState
      <4>2. Written(attempts, call, events, stateFile)
        BY <1>1, <3>2 DEF StateOk
      <4> QED
        BY <4>1, <4>2 DEF InspectionOk
    <3> QED
      BY <3>1, <3>2
  <2>2. CASE ReadEvents
    <3>1. Written(attempts, call, events, inspection.state)
      BY <1>1, <2>2 DEF ReadEvents, InspectionOk
    <3>2. i = [inspection EXCEPT !.phase = "shown", !.events = events]
      BY <1>3, <2>2 DEF ReadEvents
    <3>3. inspection = [phase |-> inspection.phase, state |-> inspection.state,
                        events |-> inspection.events]
      BY <1>1 DEF InspectionOk
    <3>4. PICK ph, st, ev : ph = inspection.phase /\ st = inspection.state /\ ev = inspection.events
      OBVIOUS
    <3>5. inspection = [phase |-> ph, state |-> st, events |-> ev]
      BY <3>3, <3>4
    <3>6. i = [phase |-> "shown", state |-> st, events |-> events]
      BY <3>2, <3>5
    <3>7. i.phase = "shown" /\ i.state = inspection.state /\ i.events = events
          /\ i = [phase |-> i.phase, state |-> i.state, events |-> i.events]
      BY <3>4, <3>6
    <3>8. IsState(attempts, i.state) /\ Complete(attempts, i.state, i.events)
      BY <3>1, <3>7 DEF Written
    <3> QED
      BY <1>1, <3>7, <3>8 DEF InspectionOk
  <2> QED
    BY <2>1, <2>2 DEF InspectLocalHarness
<1> QED
  BY <1>1, <1>2, <1>3, <1>4 DEF HarnessInv

LEMMA StepHarness == ASSUME HarnessInv, [HarnessNext]_harnessVars PROVE HarnessInv'
<1>1. CASE Run
  BY <1>1, RunStep
<1>2. CASE PrepareRoot
  BY <1>2, PrepareRootStep
<1>3. CASE PutStatus
  BY <1>3, PutStatusStep
<1>4. CASE PutApprovalRequest
  BY <1>4, PutApprovalRequestStep
<1>5. CASE PutApprovalDecision
  BY <1>5, PutApprovalDecisionStep
<1>6. CASE WriteReportArtifact
  <2>1. "report" \in Kinds /\ WriteArtifact("report")
    BY <1>6 DEF WriteReportArtifact, Kinds
  <2> QED
    BY <2>1, WriteArtifactStep
<1>7. CASE WriteWebsiteArtifact
  <2>1. "website" \in Kinds /\ WriteArtifact("website")
    BY <1>7 DEF WriteWebsiteArtifact, Kinds
  <2> QED
    BY <2>1, WriteArtifactStep
<1>8. CASE PutArtifactEvent
  BY <1>8, PutArtifactEventStep
<1>9. CASE WriteState
  BY <1>9, WriteStateStep
<1>10. CASE Abort
  BY <1>10, AbortStep
<1>11. CASE InspectLocalHarness
  BY <1>11, InspectStep
<1>12. CASE UNCHANGED harnessVars
  BY <1>12 DEF HarnessInv, harnessVars
<1> QED
  BY <1>1, <1>2, <1>3, <1>4, <1>5, <1>6, <1>7, <1>8, <1>9, <1>10, <1>11, <1>12 DEF HarnessNext, Play

\* The invariant holds in every state.
THEOREM HarnessInvariance == HarnessSpec => []HarnessInv
<1>1. HarnessInit => HarnessInv
  BY InitHarness
<1>2. HarnessInv /\ [HarnessNext]_harnessVars => HarnessInv'
  BY StepHarness
<1> QED
  BY <1>1, <1>2, PTL DEF HarnessSpec

-----------------------------------------------------------------------------
(***************************************************************************)
(* What the invariant says of the directory.                               *)
(***************************************************************************)

\* Where an entry is in the log of its attempt.
LEMMA EntryPlaces ==
    ASSUME NEW d \in Decisions, NEW k \in 1..EventCount(d)
    PROVE  /\ EventCount(d) \in Nat
           /\ TypeAt(d, k) = "request" <=> k = 4
           /\ AboutAt(d, 4) = "pending"
           /\ TypeAt(d, k) = "decision" <=> k = 5
           /\ AboutAt(d, 5) = d
           /\ TypeAt(d, k) = "artifact" <=> k = 7 \/ (k = 8 /\ d = "approved")
           /\ AboutAt(d, 7) = "report"
           /\ d = "approved" => AboutAt(d, 8) = "website"
<1>1. d = "pending" \/ d = "rejected" \/ d = "approved"
  BY DEF Decisions
<1>2. EventCount(d) = IF d = "pending" THEN 4 ELSE IF d = "rejected" THEN 9 ELSE 10
  BY <1>1 DEF EventCount
<1>3. /\ TypeAt(d, k) = "request" <=> k = 4
      /\ TypeAt(d, k) = "decision" <=> k = 5
      /\ TypeAt(d, k) = "artifact" <=> k = 7 \/ (k = 8 /\ d = "approved")
  BY <1>1, <1>2 DEF TypeAt
<1>4. AboutAt(d, 4) = "pending" /\ AboutAt(d, 5) = d /\ AboutAt(d, 7) = "report"
  BY <1>1, <1>2 DEF AboutAt
<1>5. d = "approved" => AboutAt(d, 8) = "website"
  BY <1>1, <1>2 DEF AboutAt
<1>6. EventCount(d) \in Nat
  BY <1>1, <1>2
<1> QED
  BY <1>3, <1>4, <1>5, <1>6

\* A log that is not empty is of attempt b, which decided d.
LogBy(att, es, b, d) ==
    /\ b \in 1..Len(att) /\ d \in Decisions /\ d = Decided(att, b)
    /\ Len(es) \in 1..EventCount(d) /\ DOMAIN es = 1..Len(es) /\ es[1].by = b
    /\ \A k \in 1..Len(es) :
         /\ k \in 1..EventCount(d) /\ es[k] \in EventRecord
         /\ es[k].by = b /\ es[k].run = att[b].run /\ es[k].seq = k
         /\ es[k].type = TypeAt(d, k) /\ es[k].about = AboutAt(d, k)

LEMMA LogFacts ==
    ASSUME NEW att, AttemptsOk(att), NEW es, LogOf(att, es), es # <<>>
    PROVE  LogBy(att, es, es[1].by, Decided(att, es[1].by))
<1>1. PICK b \in 1..Len(att) : b = es[1].by
  BY DEF LogOf
<1>2. PICK d \in Decisions : d = Decided(att, b)
  BY DEF AttemptsOk
<1>3. PICK m \in Nat : m = EventCount(d)
  BY DEF EventCount
<1>4. /\ es \in Seq(EventRecord) /\ Len(es) <= m
      /\ \A k \in 1..Len(es) : es[k] = Entry(att, b, k)
  BY <1>1, <1>2, <1>3 DEF LogOf
<1>5. PICK n \in Nat : n = Len(es)
  BY <1>4
<1>6. n \in 1..m /\ DOMAIN es = 1..n /\ \A k \in 1..n : es[k] \in EventRecord /\ k \in 1..m
  BY <1>3, <1>4, <1>5
<1>7. ASSUME NEW k \in 1..n
      PROVE  /\ es[k].by = b /\ es[k].run = att[b].run /\ es[k].seq = k
             /\ es[k].type = TypeAt(d, k) /\ es[k].about = AboutAt(d, k)
  <2>1. es[k] = Entry(att, b, k)
    BY <1>4, <1>5
  <2> QED
    BY <1>2, <2>1 DEF Entry
<1>8. LogBy(att, es, b, d)
  BY <1>1, <1>2, <1>3, <1>5, <1>6, <1>7 DEF LogBy
<1> QED
  BY <1>1, <1>2, <1>8

LEMMA Consented ==
    ASSUME NEW word \in Words, ApprovalDecisionFlag(word) = "approved"
    PROVE  word \in Consents
BY DEF ApprovalDecisionFlag, ParseApprovalDecision, Words, Consents

LEMMA PublicationFromInv == HarnessInv => PublishedAfterApproval
<1> SUFFICES ASSUME HarnessInv PROVE PublishedAfterApproval
  OBVIOUS
<1>1. /\ AttemptsOk(attempts) /\ LogOf(attempts, events) /\ FilesOk(attempts, files)
      /\ attempts \in Seq(AttemptRecord)
  BY DEF HarnessInv, AttemptsOk
<1>2. ASSUME NEW b \in 1..Len(attempts), Decided(attempts, b) = "approved"
      PROVE  attempts[b].word \in Consents
  <2>1. attempts[b] \in AttemptRecord
    BY <1>1
  <2>2. attempts[b].word \in Words
    BY <2>1 DEF AttemptRecord
  <2>3. ApprovalDecisionFlag(attempts[b].word) = "approved"
    BY <1>2 DEF Decided
  <2> QED
    BY <2>2, <2>3, Consented
<1>3. ASSUME NEW k \in Indices("artifact", "website")
      PROVE  /\ \E d \in Indices("decision", "approved"), r \in Indices("request", "pending") :
                  r < d /\ d < k /\ events[d].by = events[k].by /\ events[r].by = events[k].by
             /\ attempts[events[k].by].word \in Consents
  <2>1. k \in DOMAIN events /\ events[k].type = "artifact" /\ events[k].about = "website"
    BY DEF Indices
  <2>2. events # <<>>
    BY <1>1, <2>1 DEF LogOf
  <2>3. PICK b, d : LogBy(attempts, events, b, d)
    BY <1>1, <2>2, LogFacts
  <2>4. PICK n \in Nat : n = Len(events)
    BY <1>1 DEF LogOf
  <2>5. /\ d \in Decisions /\ DOMAIN events = 1..n
        /\ b \in 1..Len(attempts) /\ d = Decided(attempts, b)
        /\ \A j \in 1..n : /\ j \in 1..EventCount(d) /\ events[j].by = b
                           /\ events[j].type = TypeAt(d, j) /\ events[j].about = AboutAt(d, j)
    BY <2>3, <2>4 DEF LogBy
  <2>6. TypeAt(d, k) = "artifact" /\ AboutAt(d, k) = "website" /\ k \in 1..EventCount(d)
    BY <2>1, <2>5
  <2>7. k = 8 /\ d = "approved"
    BY <2>5, <2>6, EntryPlaces
  <2>8. 4 \in 1..n /\ 5 \in 1..n
    BY <2>1, <2>5, <2>7
  <2>9. TypeAt(d, 4) = "request" /\ AboutAt(d, 4) = "pending"
    BY <2>5, <2>8, EntryPlaces
  <2>10. TypeAt(d, 5) = "decision" /\ AboutAt(d, 5) = "approved"
    BY <2>5, <2>7, <2>8, EntryPlaces
  <2>11. 4 \in Indices("request", "pending") /\ 5 \in Indices("decision", "approved")
    BY <2>5, <2>8, <2>9, <2>10 DEF Indices
  <2>12. events[4].by = events[k].by /\ events[5].by = events[k].by /\ events[k].by = b
    BY <2>1, <2>5, <2>8
  <2>13. attempts[events[k].by].word \in Consents
    BY <1>2, <2>5, <2>7, <2>12
  <2>14. 4 < 5 /\ 5 < k
    BY <2>7
  <2> QED
    BY <2>11, <2>12, <2>13, <2>14
<1>4. ASSUME NEW name \in DOMAIN files, name[2] = "website", files[name] # 0
      PROVE  attempts[files[name]].word \in Consents
  <2>1. name \in HarnessTasks \X Kinds /\ files[name] \in 0..Len(attempts)
    BY <1>1 DEF FilesOk
  <2>2. files[name] \in 1..Len(attempts)
    BY <1>1, <1>4, <2>1
  <2>3. Decided(attempts, files[name]) = "approved"
    BY <1>1, <1>4, <2>1 DEF FilesOk
  <2> QED
    BY <1>2, <2>2, <2>3
<1> QED
  BY <1>3, <1>4 DEF PublishedAfterApproval

LEMMA TypesFromInv == HarnessInv => HarnessTypeOK
<1> SUFFICES ASSUME HarnessInv PROVE HarnessTypeOK
  OBVIOUS
<1>1. /\ AttemptsOk(attempts) /\ LogOf(attempts, events) /\ FilesOk(attempts, files)
      /\ call \in CallRecord /\ StateOk(attempts, call, events, stateFile)
      /\ InspectionOk(attempts, call, events, inspection)
  BY DEF HarnessInv
<1>2. Len(attempts) <= MaxAttempts /\ Len(attempts) \in Nat
  BY <1>1 DEF AttemptsOk
<1>3. /\ call.phase \in {"idle", "playing", "ended", "aborted"}
      /\ call.decision \in Decisions /\ call.artifacts \subseteq Kinds
      /\ call.run \in RunIds /\ call.task \in RunIds \cup TaskFlags \cup {NoFlag}
  BY <1>1 DEF CallRecord, HarnessTasks
<1>4. ASSUME NEW k \in DOMAIN events
      PROVE  events[k].type \in {"run.status", "request", "decision", "artifact"}
  <2>1. events[k] \in EventRecord
    BY <1>1 DEF LogOf
  <2> QED
    BY <2>1 DEF EventRecord
<1>5. stateFile \in {NoFile, Torn} \/ stateFile.status \in Statuses
  BY <1>1 DEF StateOk, Written, IsState, Statuses
<1>6. files \in [(RunIds \cup TaskFlags) \X Kinds -> 0..MaxAttempts]
  <2>1. files \in [HarnessTasks \X Kinds -> 0..Len(attempts)]
    BY <1>1 DEF FilesOk
  <2>2. \A x \in 0..Len(attempts) : x \in 0..MaxAttempts
    BY <1>2, HarnessAssumption
  <2>3. files \in [HarnessTasks \X Kinds -> 0..MaxAttempts]
    BY <2>1, <2>2
  <2> QED
    BY <2>3 DEF HarnessTasks
<1>7. inspection.phase \in {"idle", "failed", "reading", "shown"}
  BY <1>1 DEF InspectionOk
<1> QED
  BY <1>2, <1>3, <1>4, <1>5, <1>6, <1>7 DEF HarnessTypeOK

LEMMA OneScenarioFromInv == HarnessInv => LogOfOneScenario
<1> SUFFICES ASSUME HarnessInv, NEW k \in DOMAIN events
             PROVE  /\ events[k].seq = k
                    /\ events[k].by = events[1].by
                    /\ events[k].type = "artifact" =>
                         \E name \in DOMAIN files :
                           name[2] = events[k].about /\ files[name] = events[k].by
  BY DEF LogOfOneScenario
<1>1. /\ AttemptsOk(attempts) /\ LogOf(attempts, events) /\ FilesOk(attempts, files)
      /\ Announced(events, files)
  BY DEF HarnessInv
<1>2. events # <<>>
  BY <1>1 DEF LogOf
<1>3. PICK b, d : LogBy(attempts, events, b, d)
  BY <1>1, <1>2, LogFacts
<1>4. k \in 1..Len(events) /\ events[k].seq = k /\ events[k].by = b /\ events[1].by = b
  BY <1>3 DEF LogBy
<1>5. DOMAIN files = HarnessTasks \X Kinds
  BY <1>1 DEF FilesOk
<1> QED
  BY <1>1, <1>4, <1>5 DEF Announced

\* The whole log of an attempt that decided d.
LEMMA WholeLog ==
    ASSUME HarnessInv, NEW b, NEW d, LogBy(attempts, events, b, d), Len(events) = EventCount(d)
    PROVE  /\ Indices("request", "pending") = {4}
           /\ \A x : Indices("decision", x) # {} <=> d # "pending" /\ x = d
           /\ \A kind \in Kinds : Indices("artifact", kind) # {} <=>
                kind \in ArtifactsBefore(d, StepCount(d))
           /\ \E k \in Indices("run.status", IF d = "pending" THEN "waiting_for_approval"
                                             ELSE "succeeded") :
                \A j \in DOMAIN events : events[j].type = "run.status" => j <= k
<1>1. /\ d \in Decisions /\ DOMAIN events = 1..EventCount(d)
      /\ \A k \in 1..EventCount(d) :
           events[k].type = TypeAt(d, k) /\ events[k].about = AboutAt(d, k)
  BY DEF LogBy
<1>2. EventCount(d) = IF d = "pending" THEN 4 ELSE IF d = "rejected" THEN 9 ELSE 10
  BY <1>1 DEF EventCount, Decisions
<1>3. ASSUME NEW t, NEW x
      PROVE  Indices(t, x) = {k \in 1..EventCount(d) : TypeAt(d, k) = t /\ AboutAt(d, k) = x}
  BY <1>1 DEF Indices
<1>4. Indices("request", "pending") = {4}
  <2>1. \A k \in 1..EventCount(d) : TypeAt(d, k) = "request" <=> k = 4
    BY <1>1, EntryPlaces
  <2>2. AboutAt(d, 4) = "pending" /\ 4 \in 1..EventCount(d)
    BY <1>2 DEF AboutAt
  <2>3. Indices("request", "pending") =
          {k \in 1..EventCount(d) : TypeAt(d, k) = "request" /\ AboutAt(d, k) = "pending"}
    BY <1>3
  <2> QED
    BY <2>1, <2>2, <2>3
<1>5. ASSUME NEW x PROVE Indices("decision", x) # {} <=> d # "pending" /\ x = d
  <2>1. \A k \in 1..EventCount(d) : TypeAt(d, k) = "decision" <=> k = 5
    BY <1>1, EntryPlaces
  <2>2. 5 \in 1..EventCount(d) <=> d # "pending"
    BY <1>2
  <2>3. 5 \in 1..EventCount(d) => AboutAt(d, 5) = d
    BY <1>1, EntryPlaces
  <2>4. Indices("decision", x) =
          {k \in 1..EventCount(d) : TypeAt(d, k) = "decision" /\ AboutAt(d, k) = x}
    BY <1>3
  <2> QED
    BY <2>1, <2>2, <2>3, <2>4
<1>6. ASSUME NEW kind \in Kinds
      PROVE  Indices("artifact", kind) # {} <=> kind \in ArtifactsBefore(d, StepCount(d))
  <2>1. \A k \in 1..EventCount(d) :
          TypeAt(d, k) = "artifact" <=> k = 7 \/ (k = 8 /\ d = "approved")
    BY <1>1, EntryPlaces
  <2>2. 7 \in 1..EventCount(d) <=> d # "pending"
    BY <1>2
  <2>3. d = "approved" => 8 \in 1..EventCount(d)
    BY <1>2
  <2>4. AboutAt(d, 7) = "report" /\ (d = "approved" => AboutAt(d, 8) = "website")
    <3>1. 1 \in 1..EventCount(d)
      BY <1>2
    <3> QED
      BY <1>1, <3>1, EntryPlaces
  <2>5. ArtifactsBefore(d, StepCount(d)) =
          IF d = "pending" THEN {} ELSE IF d = "approved" THEN Kinds ELSE {"report"}
    BY <1>1 DEF ArtifactsBefore, StepCount, Decisions
  <2>6. Indices("artifact", kind) =
          {k \in 1..EventCount(d) : TypeAt(d, k) = "artifact" /\ AboutAt(d, k) = kind}
    BY <1>3
  <2>7. kind = "report" \/ kind = "website"
    BY DEF Kinds
  <2>8. CASE d = "pending"
    BY <2>1, <2>2, <2>5, <2>6, <2>8
  <2>9. CASE d = "rejected"
    BY <1>2, <2>1, <2>2, <2>4, <2>5, <2>6, <2>7, <2>9
  <2>10. CASE d = "approved"
    BY <1>2, <2>1, <2>2, <2>3, <2>4, <2>5, <2>6, <2>7, <2>10
  <2> QED
    BY <1>1, <2>8, <2>9, <2>10 DEF Decisions
<1>7. \E k \in Indices("run.status", IF d = "pending" THEN "waiting_for_approval"
                                     ELSE "succeeded") :
        \A j \in DOMAIN events : events[j].type = "run.status" => j <= k
  <2>1. CASE d = "pending"
    <3>1. TypeAt(d, 3) = "run.status" /\ AboutAt(d, 3) = "waiting_for_approval"
          /\ TypeAt(d, 4) = "request"
      BY <2>1 DEF TypeAt, AboutAt, EventCount
    <3>2. 3 \in Indices("run.status", "waiting_for_approval")
      BY <1>1, <1>2, <2>1, <3>1 DEF Indices
    <3>3. ASSUME NEW j \in DOMAIN events, events[j].type = "run.status" PROVE j <= 3
      BY <1>1, <1>2, <2>1, <3>1, <3>3
    <3> QED
      BY <2>1, <3>2, <3>3
  <2>2. CASE d # "pending"
    <3>1. PICK m \in Nat : m = EventCount(d) /\ m > 8
      BY <1>2, <2>2
    <3>2. TypeAt(d, m) = "run.status" /\ AboutAt(d, m) = "succeeded"
      BY <1>1, <1>2, <2>2, <3>1 DEF TypeAt, AboutAt, Decisions
    <3>3. m \in Indices("run.status", "succeeded")
      BY <1>1, <3>1, <3>2 DEF Indices
    <3>4. ASSUME NEW j \in DOMAIN events PROVE j <= m
      BY <1>1, <3>1
    <3> QED
      BY <2>2, <3>3, <3>4
  <2> QED
    BY <2>1, <2>2
<1> QED
  BY <1>4, <1>5, <1>6, <1>7

LEMMA StateFromInv == HarnessInv => StateSumsUpLog
<1> SUFFICES ASSUME HarnessInv, stateFile.kind = "state", stateFile.by = Len(attempts)
             PROVE  /\ stateFile.eventCursor = Len(events)
                    /\ \E k \in Indices("run.status", stateFile.status) :
                         \A j \in DOMAIN events : events[j].type = "run.status" => j <= k
                    /\ stateFile.artifacts = {kind \in Kinds : Indices("artifact", kind) # {}}
                    /\ stateFile.metrics.approvalGated = Cardinality(Indices("request", "pending"))
                    /\ (stateFile.waitStates = 1)
                         <=> (\A d \in Decisions : Indices("decision", d) = {})
                    /\ (stateFile.waitStates = 0) =>
                         \E s \in DOMAIN stateFile.metrics.byStatus : Indices("decision", s) # {}
  BY DEF StateSumsUpLog
<1>1. /\ AttemptsOk(attempts) /\ LogOf(attempts, events)
      /\ StateOk(attempts, call, events, stateFile)
  BY DEF HarnessInv
<1>2. PICK s : s = stateFile
  OBVIOUS
<1>3. s # NoFile /\ s # Torn
  BY <1>2 DEF NoFile, Torn
<1>4. /\ IsState(attempts, s) /\ Complete(attempts, s, events)
      /\ events # <<>> /\ events[1].by = s.by
  BY <1>1, <1>2, <1>3 DEF StateOk, Written
<1>5. LogBy(attempts, events, events[1].by, Decided(attempts, events[1].by))
  BY <1>1, <1>4, LogFacts
<1>6. PICK b : b = s.by
  OBVIOUS
<1>7. PICK d \in Decisions : d = Decided(attempts, b)
  BY <1>4, <1>5, <1>6 DEF LogBy
<1>8. LogBy(attempts, events, b, d) /\ Len(events) = EventCount(d)
  BY <1>4, <1>5, <1>6, <1>7 DEF Complete
<1>9. /\ Indices("request", "pending") = {4}
      /\ \A x : Indices("decision", x) # {} <=> d # "pending" /\ x = d
      /\ \A kind \in Kinds : Indices("artifact", kind) # {} <=>
           kind \in ArtifactsBefore(d, StepCount(d))
      /\ \E k \in Indices("run.status", IF d = "pending" THEN "waiting_for_approval"
                                        ELSE "succeeded") :
           \A j \in DOMAIN events : events[j].type = "run.status" => j <= k
  BY <1>8, WholeLog
<1>10. /\ s.status = IF d = "pending" THEN "waiting_for_approval" ELSE "succeeded"
       /\ s.metrics.approvalGated = 1
       /\ d # "pending" => d \in DOMAIN s.metrics.byStatus
       /\ s.waitStates = IF d = "pending" THEN 1 ELSE 0
       /\ s.artifacts = ArtifactsBefore(d, StepCount(d))
       /\ s.eventCursor = EventCount(d)
  BY <1>4, <1>6, <1>7 DEF IsState
<1>11. s.eventCursor = Len(events)
  BY <1>8, <1>10
<1>12. \E k \in Indices("run.status", s.status) :
         \A j \in DOMAIN events : events[j].type = "run.status" => j <= k
  BY <1>9, <1>10
<1>13. s.artifacts = {kind \in Kinds : Indices("artifact", kind) # {}}
  <2>1. ArtifactsBefore(d, StepCount(d)) \subseteq Kinds
    BY DEF ArtifactsBefore, Kinds
  <2> QED
    BY <1>9, <1>10, <2>1
<1>14. s.metrics.approvalGated = Cardinality(Indices("request", "pending"))
  <2>1. Cardinality({4}) = 1
    BY FS_Singleton
  <2> QED
    BY <1>9, <1>10, <2>1
<1>15. (s.waitStates = 1) <=> (\A x \in Decisions : Indices("decision", x) = {})
  BY <1>7, <1>9, <1>10
<1>16. (s.waitStates = 0) => \E x \in DOMAIN s.metrics.byStatus : Indices("decision", x) # {}
  BY <1>7, <1>9, <1>10
<1> QED
  BY <1>2, <1>11, <1>12, <1>13, <1>14, <1>15, <1>16

\* A run id that was used once names one attempt.
LEMMA OnceIsOne ==
    ASSUME AttemptsOk(attempts), NEW run, UsedOnce(run),
           NEW a \in 1..Len(attempts), attempts[a].run = run,
           NEW b \in 1..Len(attempts), attempts[b].run = run
    PROVE  a = b
<1>1. DOMAIN attempts = 1..Len(attempts) /\ Len(attempts) \in Nat
  BY DEF AttemptsOk
<1>2. PICK S : S = {n \in DOMAIN attempts : attempts[n].run = run}
  OBVIOUS
<1>3. IsFiniteSet(1..Len(attempts)) /\ S \subseteq 1..Len(attempts)
  BY <1>1, <1>2, FS_Interval
<1>4. IsFiniteSet(S)
  BY <1>3, FS_Subset
<1>5. Cardinality(S) = 1
  BY <1>2 DEF UsedOnce
<1>6. \E x : S = {x}
  BY <1>4, <1>5, FS_Singleton
<1>7. a \in S /\ b \in S
  BY <1>1, <1>2
<1> QED
  BY <1>6, <1>7

LEMMA InspectionFromInv == HarnessInv => InspectionAgrees
<1> SUFFICES ASSUME HarnessInv, inspection.phase = "shown", inspection.events # <<>>,
                    UsedOnce(RenderInspection.run),
                    inspection.events[1].run = RenderInspection.run
             PROVE  /\ RenderInspection.events = inspection.state.eventCursor
                    /\ (RenderInspection.runStatus = "succeeded")
                         => "decision" \in RenderInspection.eventTypes
                    /\ (RenderInspection.artifacts > 0)
                         => "artifact" \in RenderInspection.eventTypes
  BY DEF InspectionAgrees
<1>1. AttemptsOk(attempts) /\ InspectionOk(attempts, call, events, inspection)
  BY DEF HarnessInv
<1>2. PICK s : s = inspection.state
  OBVIOUS
<1>3. PICK es : es = inspection.events
  OBVIOUS
<1>4. IsState(attempts, s) /\ LogOf(attempts, es) /\ Complete(attempts, s, es) /\ es # <<>>
  BY <1>1, <1>2, <1>3 DEF InspectionOk
<1>5. /\ RenderInspection.run = s.run /\ RenderInspection.runStatus = s.status
      /\ RenderInspection.artifacts = Cardinality(s.artifacts)
      /\ RenderInspection.events = Len(es)
      /\ RenderInspection.eventTypes = {es[k].type : k \in DOMAIN es}
  BY <1>2, <1>3 DEF RenderInspection
<1>6. PICK b, d : LogBy(attempts, es, b, d)
  BY <1>1, <1>4, LogFacts
<1>7. /\ b \in 1..Len(attempts) /\ d \in Decisions /\ d = Decided(attempts, b)
      /\ DOMAIN es = 1..Len(es) /\ es[1].by = b
      /\ 1 \in 1..Len(es)
      /\ \A k \in 1..Len(es) : es[k].run = attempts[b].run /\ es[k].type = TypeAt(d, k)
  BY <1>6 DEF LogBy
<1>8. s.by \in 1..Len(attempts) /\ attempts[s.by].run = s.run
  BY <1>4 DEF IsState
<1>9. attempts[b].run = s.run /\ UsedOnce(s.run)
  BY <1>3, <1>5, <1>7
<1>10. s.by = b
  BY <1>1, <1>7, <1>8, <1>9, OnceIsOne
<1>11. Len(es) = EventCount(d) /\ s.eventCursor = EventCount(d)
  BY <1>4, <1>7, <1>10 DEF Complete, IsState
<1>12. /\ s.status = IF d = "pending" THEN "waiting_for_approval" ELSE "succeeded"
       /\ s.artifacts = ArtifactsBefore(d, StepCount(d))
  BY <1>4, <1>7, <1>10 DEF IsState
<1>13. ASSUME d # "pending"
       PROVE  "decision" \in {es[k].type : k \in DOMAIN es}
              /\ "artifact" \in {es[k].type : k \in DOMAIN es}
  <2>1. 5 \in 1..EventCount(d) /\ 7 \in 1..EventCount(d)
    BY <1>7, <1>13 DEF EventCount, Decisions
  <2>2. TypeAt(d, 5) = "decision" /\ TypeAt(d, 7) = "artifact"
    BY <1>7, <2>1, EntryPlaces
  <2>3. 5 \in DOMAIN es /\ 7 \in DOMAIN es /\ es[5].type = "decision" /\ es[7].type = "artifact"
    BY <1>7, <1>11, <2>1, <2>2
  <2> QED
    BY <2>3
<1>14. Cardinality(s.artifacts) > 0 => d # "pending"
  <2>1. ASSUME d = "pending" PROVE Cardinality(s.artifacts) = 0
    <3>1. s.artifacts = {}
      BY <1>12, <2>1 DEF ArtifactsBefore, StepCount
    <3>2. Cardinality({}) = 0
      BY FS_EmptySet
    <3> QED
      BY <3>1, <3>2
  <2>2. Cardinality(s.artifacts) = 0 => ~(Cardinality(s.artifacts) > 0)
    OBVIOUS
  <2> QED
    BY <2>1, <2>2
<1> QED
  BY <1>2, <1>5, <1>11, <1>12, <1>13, <1>14

\* A website is published only after it was asked for and granted.
THEOREM PublicationCorrect == HarnessSpec => []PublishedAfterApproval
BY HarnessInvariance, PublicationFromInv, PTL

\* The log, the state file and what an inspection shows of them agree.
THEOREM DirectoryCorrect == HarnessSpec => []DirectoryAgrees
<1>1. HarnessInv => DirectoryAgrees
  BY TypesFromInv, OneScenarioFromInv, StateFromInv, InspectionFromInv DEF DirectoryAgrees
<1> QED
  BY <1>1, HarnessInvariance, PTL

=============================================================================
