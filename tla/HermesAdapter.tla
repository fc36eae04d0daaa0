---- MODULE HermesAdapter ----
(***************************************************************************)
(* The resident runner's container around the wakes of ResidentRunner: its *)
(* HTTP server with the two bearer tokens, the Hermes child process of a   *)
(* heartbeat with its time limit, environment and output, the tool with    *)
(* which that process asks for the user's attention, the session an agent  *)
(* resumes, how a registration replaces it, and the credentials file.  A   *)
(* wake has one heartbeat here, of an agent that was registered before;    *)
(* its events and records are ResidentRunner's.                            *)
(***************************************************************************)
EXTENDS Naturals, Sequences, FiniteSets

CONSTANTS
  Wakes,          \* the wakes; one that starts a session names it by itself
  Agents, Null,
  Registrations,  \* registrations of an agent that is there; one may name a session
  Uploads,        \* uploads of credentials
  Outputs,        \* what a process may print: sequences of blocks [type, payload]
  Traffic,        \* bound: the sets of paths that are used together
  MaxPosts,       \* bound: requests in all
  MaxWaiting      \* bound: requests on their way at once

\* A process is not taken for one of those outside, nor what is absent for a
\* token or a session, nor what auth.json was started with for an upload.
ASSUME AdapterAssumption ==
  /\ "outside" \notin Wakes
  /\ Null \notin {"runner", "engagement"} \cup Wakes \cup Registrations
  /\ "bootstrap" \notin Uploads
  /\ \A output \in Outputs : output \in Seq({output[k] : k \in DOMAIN output})
  /\ MaxPosts \in Nat

VARIABLES
  config,         \* which variables the container was started with, and the paths in use
  listening,      \* whether the server takes new requests
  requests,       \* requests on their way; posts counts them
  posts,
  wakes,          \* of each wake, how far its heartbeat is and what came of it
  children,       \* of each wake, its process
  registrations,  \* of each registration, how far it is and what it will write
  sessions,       \* the session each agent's state holds
  last,           \* history: the session reported last for each agent, not counting
                  \* wakes and registrations that failed
  engagements,    \* the engagements recorded: for which run, who asked, and whether
                  \* the run was named or taken from the environment
  accepted,       \* the requests of processes that passed: by whom, for which path
  auth,           \* auth.json: the uploads whose bytes it holds
  uploads,        \* of each upload: "none", "truncated", "stored" or "refused"
  newest,         \* history: the upload taken last
  overlapped      \* the agents of which two wakes or registrations overlapped,
                  \* and "auth" if two uploads did

agents == <<wakes, registrations, sessions, last>>
credentials == <<auth, uploads, newest>>
posted == <<engagements, accepted>>
vars == <<config, listening, requests, posts, agents, children, posted, credentials,
          overlapped>>

-----------------------------------------------------------------------------
(* Output.                                                                 *)

Legacy == [t \in {"work_item.created", "work_item.assigned"} |->
             IF t = "work_item.created" THEN "work.item.created" ELSE "work.item.assigned"]

ActionableAgentEventTypes ==
  {"agent.delegated", "agent.profile.requested", "agent.profile.revision_proposed",
   "agent.profile.promoted", "work.item.created", "work.item.assigned",
   "review.session.created", "review.feedback.recorded", "webpage.published",
   "artifact.created", "client.control.requested", "browser.control.requested"}
  \cup DOMAIN Legacy

NormalizeActionableEventType(type) == IF type \in DOMAIN Legacy THEN Legacy[type] ELSE type

\* Three types have fields of their own, each from a list or an address; text
\* longer than the limit is cut.  Other payloads pass as they are.
NormalizeActionEventPayload(type, payload) ==
  CASE type \notin {"artifact.created", "client.control.requested", "browser.control.requested"} -> payload
    [] payload = "invalid" -> "dropped"
    [] payload = "long" -> "cut"
    [] OTHER -> payload

Usable(b) ==
  /\ b.type \in ActionableAgentEventTypes
  /\ NormalizeActionEventPayload(b.type, b.payload) # "dropped"

Emitted(b) == [type |-> NormalizeActionableEventType(b.type),
               payload |-> NormalizeActionEventPayload(b.type, b.payload)]

\* Blocks are read in order; those that are no JSON, of another type or with an
\* invalid payload are passed over.
ExtractActionableAgentEvents(output) ==
  LET events[k \in 0..Len(output)] ==    \* those of the first k blocks
        IF k = 0 THEN <<>>
        ELSE IF Usable(output[k]) THEN Append(events[k - 1], Emitted(output[k]))
        ELSE events[k - 1]
  IN  events[Len(output)]

-----------------------------------------------------------------------------
(* The environment of a child process.                                     *)

ContainerEnvironment ==
  {"PATH", "HERMES_HOME", "AGENTS_USER_ENGAGEMENT_TOKEN", "ECS_CREDENTIALS"}
  \cup (IF config.token THEN {"RUNNER_API_TOKEN"} ELSE {})

\* Bug: the variables are built once and used for every process.
CachedEnvironment(w) ==
  LET started == {v \in Wakes : children[v].phase # "none"}
  IN  [run |-> IF started = {} THEN w ELSE CHOOSE v \in started : TRUE,
       keys |-> {"PATH", "HERMES_HOME", "AGENTS_USER_ENGAGEMENT_TOKEN"}]

\* The run of the wake it is started for, and the variables on the list (the
\* provider keys, which one more variable adds, are left out).
BuildAdapterEnvironment(w) ==
  [run |-> w,
   keys |-> ContainerEnvironment \cap {"PATH", "HERMES_HOME", "AGENTS_USER_ENGAGEMENT_TOKEN"}]

NoChild == [phase |-> "none", terminated |-> FALSE, run |-> Null, keys |-> {}]
NoWake == [pc |-> "none", agent |-> Null, resume |-> Null, outcome |-> "none",
           session |-> Null, output |-> <<>>, events |-> <<>>]
NoRegistration == [pc |-> "none", agent |-> Null, session |-> Null, named |-> FALSE]

Init ==
  /\ config \in [token : BOOLEAN, fallback : BOOLEAN, paths : Traffic]
  /\ listening = TRUE /\ requests = {} /\ posts = 0
  /\ wakes = [w \in Wakes |-> NoWake] /\ children = [w \in Wakes |-> NoChild]
  /\ registrations = [g \in Registrations |-> NoRegistration]
  /\ sessions = [a \in Agents |-> Null] /\ last = sessions
  /\ engagements = {} /\ accepted = {}
  /\ auth = {"bootstrap"} /\ uploads = [u \in Uploads |-> "none"] /\ newest = "bootstrap"
  /\ overlapped = {}

-----------------------------------------------------------------------------
(* The server.                                                             *)

\* /engagement stands for its two paths, which differ in the kind of the event.
Paths == {"/wake", "/agents", "/credentials/hermes-auth", "/engagement", "/shutdown"}

\* What a request may be about.
Subjects(path) ==
  CASE path \in {"/wake", "/engagement"} -> Wakes
    [] path = "/agents" -> Registrations
    [] path = "/credentials/hermes-auth" -> Uploads
    [] path = "/shutdown" -> {Null}

Authorize(r) ==
  IF r.path = "/engagement" THEN r.bearer = "engagement"
  ELSE config.token => r.bearer = "runner"

Post(from, path, bearer, subject, named) ==
  /\ listening /\ path \in config.paths
  /\ posts < MaxPosts /\ Cardinality(requests) < MaxWaiting
  /\ requests' = requests \cup {[from |-> from, path |-> path, bearer |-> bearer,
                                 subject |-> subject, named |-> named]}
  /\ posts' = posts + 1
  /\ UNCHANGED <<config, listening, agents, children, posted, credentials, overlapped>>

\* The control plane posts with the token it holds, if any; so may anybody else
\* who reaches the port, without one.
OutsidePosts(path) ==
  \E bearer \in {"runner", Null}, subject \in Subjects(path) :
    Post("outside", path, bearer, subject, TRUE)

\* A process posts what it likes, with the tokens that it finds in its
\* environment, also after its wake ended, if it did not heed the signal.  With
\* the tool it asks for an engagement of the run in its environment, or of the
\* run that it names.
ChildPosts(w, path) ==
  /\ children[w].phase = "running"
  /\ \E bearer \in {Null}
          \cup (IF "AGENTS_USER_ENGAGEMENT_TOKEN" \in children[w].keys THEN {"engagement"} ELSE {})
          \cup (IF "RUNNER_API_TOKEN" \in children[w].keys THEN {"runner"} ELSE {}) :
       \/ \E subject \in Subjects(path) : Post(w, path, bearer, subject, TRUE)
       \/ path = "/engagement" /\ Post(w, path, bearer, children[w].run, FALSE)

Active(a) == {w \in Wakes : wakes[w].agent = a /\ wakes[w].pc \in {"accepted", "running", "settled"}}
Registering(a) == {g \in Registrations : registrations[g].agent = a /\ registrations[g].pc = "writing"}

\* overlapped', when a wake or a registration of the agent begins.
NoteOverlap(a) ==
  overlapped' = IF Active(a) = {} /\ Registering(a) = {} THEN overlapped ELSE overlapped \cup {a}

\* The agent is selected as its state is now.
AcceptWake(w) ==
  /\ wakes[w].pc = "none"
  /\ \E a \in Agents :
       /\ wakes' = [wakes EXCEPT ![w] = [NoWake EXCEPT !.pc = "accepted", !.agent = a,
                                                       !.resume = sessions[a]]]
       /\ NoteOverlap(a)
  /\ UNCHANGED registrations

\* registerAgent up to its first await: the session that the profile names (of
\* this registration: g), or the one that the agent has now.
RegisterAgent(g) ==
  /\ registrations[g].pc = "none"
  /\ \E a \in Agents :
       /\ \E named \in BOOLEAN :
            registrations' = [registrations EXCEPT ![g] =
              [pc |-> "writing", agent |-> a, named |-> named,
               session |-> IF named THEN g ELSE sessions[a]]]
       /\ NoteOverlap(a)
  /\ UNCHANGED wakes

\* After the profile's directory and file: the agent is replaced by what was
\* made of it before, or one of the two failed.
PutAgent(g) ==
  /\ registrations[g].pc = "writing"
  /\ registrations' = [registrations EXCEPT ![g].pc = "done"]
  /\ LET new == registrations[g] IN
     \/ /\ sessions' = [sessions EXCEPT ![new.agent] = new.session]
        /\ last' = IF new.named THEN [last EXCEPT ![new.agent] = new.session] ELSE last
     \/ UNCHANGED <<sessions, last>>
  /\ UNCHANGED <<config, listening, requests, posts, wakes, children, posted, credentials,
                 overlapped>>

\* authJson must be an object, or text that holds one; otherwise nothing is written.
SerializeHermesAuth(u) == {"truncated", "refused"}

\* auth.json is truncated first and written after that.
StoreHermesAuth(u) ==
  /\ uploads[u] = "none"
  /\ \E s \in SerializeHermesAuth(u) :
       /\ uploads' = [uploads EXCEPT ![u] = s]
       /\ auth' = IF s = "truncated" THEN {} ELSE auth
       /\ newest' = IF s = "truncated" THEN u ELSE newest
       /\ overlapped' = IF s = "truncated" /\ "truncated" \in {uploads[o] : o \in Uploads}
                        THEN overlapped \cup {"auth"} ELSE overlapped

\* Over a longer text that another upload wrote meanwhile its end is left.
WriteHermesAuth ==
  /\ \E u \in Uploads : /\ uploads[u] = "truncated"
                        /\ uploads' = [uploads EXCEPT ![u] = "stored"]
                        /\ auth' \in {auth \cup {u}, {u}}
  /\ UNCHANGED <<config, listening, requests, posts, agents, children, posted, newest,
                 overlapped>>

\* A body that is too large, no JSON or not acceptable is refused (the last
\* disjunct); reading the state or the events changes nothing.
Handle(r) ==
  /\ requests' = requests \ {r}
  /\ \/ /\ Authorize(r)
        /\ accepted' = IF r.from \in Wakes THEN accepted \cup {[from |-> r.from, path |-> r.path]}
                       ELSE accepted
        /\ \/ /\ r.path = "/engagement"
              /\ engagements' = engagements \cup
                   {[run |-> r.subject, from |-> r.from, named |-> r.named]}
              /\ UNCHANGED <<wakes, registrations, credentials, listening, overlapped>>
           \/ /\ r.path = "/wake" /\ AcceptWake(r.subject)
              /\ UNCHANGED <<engagements, credentials, listening>>
           \/ /\ r.path = "/agents" /\ RegisterAgent(r.subject)
              /\ UNCHANGED <<engagements, credentials, listening>>
           \/ /\ r.path = "/credentials/hermes-auth" /\ config.token
              /\ StoreHermesAuth(r.subject)
              /\ UNCHANGED <<engagements, wakes, registrations, listening>>
           \/ /\ r.path = "/shutdown" /\ listening' = FALSE
              /\ UNCHANGED <<engagements, wakes, registrations, credentials, overlapped>>
     \/ UNCHANGED <<posted, wakes, registrations, credentials, listening, overlapped>>
  /\ UNCHANGED <<config, posts, children, sessions, last>>

-----------------------------------------------------------------------------
(* A heartbeat's process.                                                  *)

HeartbeatOnly == <<config, listening, requests, posts, registrations, posted, credentials,
                   overlapped>>

\* The prompt and the arguments carry the agent's session as it was selected.
Spawn(w) ==
  /\ wakes[w].pc = "accepted"
  /\ \/ /\ wakes' = [wakes EXCEPT ![w].pc = "running"]
        /\ children' = [children EXCEPT ![w] =
             [phase |-> "running", terminated |-> FALSE,
              run |-> BuildAdapterEnvironment(w).run, keys |-> BuildAdapterEnvironment(w).keys]]
     \/ /\ wakes' = [wakes EXCEPT ![w].pc = "settled", ![w].outcome = "error"]
        /\ UNCHANGED children
  /\ UNCHANGED <<HeartbeatOnly, sessions, last>>

Settle(w, outcome, session, output) ==
  wakes' = [wakes EXCEPT ![w].pc = "settled", ![w].outcome = outcome, ![w].session = session,
                         ![w].output = output]

\* Bug: the signal is sent, and the process's end is awaited.
SignalAndWait(w) ==
  /\ wakes[w].pc = "running" /\ ~children[w].terminated
  /\ children' = [children EXCEPT ![w].terminated = TRUE]
  /\ UNCHANGED <<HeartbeatOnly, wakes, sessions, last>>

\* The time limit: the process is sent a signal, and the heartbeat goes on
\* without waiting for it; with the fallback it counts as succeeded.
TimeOut(w) ==
  /\ wakes[w].pc = "running"
  /\ children' = [children EXCEPT ![w].terminated = (children[w].phase = "running")]
  /\ Settle(w, IF config.fallback THEN "fallback" ELSE "timeout",
            IF config.fallback THEN wakes[w].resume ELSE Null, <<>>)
  /\ UNCHANGED <<HeartbeatOnly, sessions, last>>

\* The process ends.  If the heartbeat still waits, its output is read: the
\* standard output when the code is zero, else the message with the error output.
\* Without a session line the resumed session is kept.
Exit(w) ==
  /\ children[w].phase = "running"
  /\ children' = [children EXCEPT ![w].phase = "exited"]
  /\ IF wakes[w].pc # "running" THEN UNCHANGED <<wakes, last>>
     ELSE \E output \in Outputs :
            \/ Settle(w, "exit", Null, output) /\ UNCHANGED last
            \/ Settle(w, "ok", wakes[w].resume, output) /\ UNCHANGED last
            \/ Settle(w, "ok", w, output) /\ last' = [last EXCEPT ![wakes[w].agent] = w]
  /\ UNCHANGED <<HeartbeatOnly, sessions>>

\* Bug: a heartbeat without a session forgets the agent's.
ForgetSession(w) ==
  /\ wakes[w].pc = "settled"
  /\ wakes' = [wakes EXCEPT ![w].pc = "done",
                            ![w].events = ExtractActionableAgentEvents(wakes[w].output)]
  /\ sessions' = [sessions EXCEPT ![wakes[w].agent] = wakes[w].session]
  /\ UNCHANGED <<HeartbeatOnly, children, last>>

\* The output's events are emitted, and the agent's state takes the session.
FinishHeartbeat(w) ==
  /\ wakes[w].pc = "settled"
  /\ wakes' = [wakes EXCEPT ![w].pc = "done",
                            ![w].events = ExtractActionableAgentEvents(wakes[w].output)]
  /\ sessions' = IF wakes[w].session = Null THEN sessions
                 ELSE [sessions EXCEPT ![wakes[w].agent] = wakes[w].session]
  /\ UNCHANGED <<HeartbeatOnly, children, last>>

\* A call before the process or after it throws, and the wake is given up: the
\* session that its process reported is not kept.
WakeFails(w) ==
  /\ wakes[w].pc \in {"accepted", "settled"}
  /\ wakes' = [wakes EXCEPT ![w] = [NoWake EXCEPT !.pc = "failed"]]
  /\ last' = IF wakes[w].session = w THEN [last EXCEPT ![wakes[w].agent] = wakes[w].resume]
             ELSE last
  /\ UNCHANGED <<HeartbeatOnly, children, sessions>>

Next ==
  \/ \E path \in Paths : OutsidePosts(path) \/ \E w \in Wakes : ChildPosts(w, path)
  \/ \E r \in requests : Handle(r)
  \/ \E w \in Wakes : Spawn(w) \/ TimeOut(w) \/ Exit(w) \/ FinishHeartbeat(w) \/ WakeFails(w)
  \/ \E g \in Registrations : PutAgent(g)
  \/ WriteHermesAuth

\* The runner's own steps and its timers go on; a process need not end.
Spec == /\ Init /\ [][Next]_vars
        /\ \A w \in Wakes : WF_vars(Spawn(w)) /\ WF_vars(FinishHeartbeat(w))
                            /\ WF_vars(TimeOut(w))

-----------------------------------------------------------------------------
(* Properties.                                                             *)

\* Every variable keeps its shape.
TypeOK ==
  /\ \A w \in Wakes :
       /\ wakes[w].pc \in {"none", "accepted", "running", "settled", "done", "failed"}
       /\ wakes[w].outcome \in {"none", "ok", "exit", "timeout", "fallback", "error"}
       /\ {wakes[w].resume, wakes[w].session} \subseteq Wakes \cup Registrations \cup {Null}
       /\ children[w].phase \in {"none", "running", "exited"}
       /\ wakes[w].pc = "running" => children[w].phase = "running"
  /\ \A g \in Registrations : registrations[g].pc \in {"none", "writing", "done"}
  /\ sessions \in [Agents -> Wakes \cup Registrations \cup {Null}]
  /\ auth \subseteq Uploads \cup {"bootstrap"} /\ posts \in 0..MaxPosts

\* With a runner token set, what a child process posts is accepted only as an
\* engagement, whatever it posts and however long it outlives its wake, and no
\* child is given the token or the task's credentials
\* (resident-runner-server.ts:110-118, buildAdapterEnvironment).
ChildrenOnlyEngage ==
  /\ config.token => \A p \in accepted : p.from \in Wakes => p.path = "/engagement"
  /\ \A w \in Wakes : children[w].keys \cap {"RUNNER_API_TOKEN", "ECS_CREDENTIALS"} = {}

\* Only processes that were started have engagements recorded, nobody with the
\* runner's token or with none; and one that names no run has it recorded for
\* the run of its own wake, however many processes run (agents-cloud-user.mjs:17,
\* resident-runner-server.ts:110-113).  One that names another run has it
\* recorded for that one: no run is checked (resident-runner.ts:269-283).
EngagementsAskedFor ==
  \A e \in engagements :
    /\ e.from \in Wakes /\ children[e.from].phase # "none"
    /\ ~e.named => e.run = e.from

\* As long as no two wakes or registrations of an agent overlapped, its state has
\* the session that was reported last, by a process of a wake that did not fail or
\* by a registration that named one, whichever wakes failed, ran out of time or
\* reported none since, and whoever registered it without one; and a wake resumes
\* that one (resident-runner.ts:355, 456, 538-539).
SessionContinues ==
  \A a \in Agents \ overlapped :
    /\ Active(a) \cup Registering(a) = {} => sessions[a] = last[a]
    /\ \A w \in Active(a) : /\ wakes[w].resume = sessions[a]
                            /\ last[a] \in {wakes[w].resume, w}

\* The events emitted for an output are the usable blocks of it, in their order
\* and under current names: one that is unusable takes no other with it, and a
\* process that was not started or was given up emits none (extractActionableAgentEvents).
EmittedAsPrinted ==
  \A w \in Wakes : wakes[w].pc = "done" =>
    LET printed == wakes[w].output
        events == wakes[w].events
    IN  /\ Len(events) = Cardinality({k \in DOMAIN printed : Usable(printed[k])})
        /\ \A k \in DOMAIN printed : Usable(printed[k]) =>
             events[Cardinality({j \in 1..k : Usable(printed[j])})] = Emitted(printed[k])
        /\ \A k \in DOMAIN events : events[k].type \notin DOMAIN Legacy
        /\ wakes[w].outcome \in {"timeout", "fallback", "error"} => events = <<>>

\* Unless two uploads overlapped, auth.json is, whenever none is being written,
\* the whole of the last upload that was taken, or what it was started with; one
\* that is refused leaves it as it was (resident-runner-server.ts:155-162).
AuthWhole ==
  "auth" \notin overlapped /\ (\A u \in Uploads : uploads[u] # "truncated") => auth = {newest}

\* What the child processes may do to the runner that started them: ask for
\* engagements, as nobody else may, and nothing else.
PostsSound == TypeOK /\ ChildrenOnlyEngage /\ EngagementsAskedFor

\* What a wake takes from the wakes and uploads before it, and what is made of
\* its output.
WakesSound == SessionContinues /\ AuthWhole /\ EmittedAsPrinted

\* A wake that was accepted comes to its end, or to a call that throws, even if
\* its process ignores the signal it is sent and never ends, and also after a
\* shutdown.
WakesSettle == \A w \in Wakes : wakes[w].pc = "accepted" ~> wakes[w].pc \in {"done", "failed"}
====
