---------------------------- MODULE PreviewTunnel ----------------------------
(***************************************************************************)
(* A preview tunnel: the registry entry that the tunnel API keeps in KV,   *)
(* the Durable Object that holds the runner's WebSocket and the streams of *)
(* the viewers, and the agents at the other end, which forward requests to *)
(* a local web server.  An agent k is one connection, a viewer v is one    *)
(* HTTP request.  A frame names, for the properties, the request that it   *)
(* belongs to; the code sees its stream id only.                           *)
(***************************************************************************)
EXTENDS Integers, FiniteSets, Sequences

CONSTANTS
    Agents,         \* connections of runners to the tunnel
    Viewers,        \* requests to the preview URL
    Posts,          \* those of them that have a body: a chunk, and its end
    ConnectHosts,   \* hosts that agents connect to
    ApiHost,        \* the one that belongs to the tunnel API
    MaxStreams,     \* MAX_CONCURRENT_STREAMS
    MaxLives,       \* how often the object may be hibernated
    None

ASSUME TunnelAssumption ==
    /\ IsFiniteSet(Viewers)
    /\ Posts \subseteq Viewers
    /\ None \notin Agents \union Viewers \union {"created", "connected", "disconnected"}
    /\ MaxStreams \in Nat /\ MaxLives \in Nat

StreamIds == 1..Cardinality(Viewers)

VARIABLES
    creator,        \* a POST /api/tunnels request
    registry,       \* the status in the tunnel's KV entry, or None
    runKey,         \* whether the run's list of tunnels has it
    expired,        \* whether expiresAt has passed
    deleter,        \* a DELETE request to the tunnel API
    conn,           \* conn[k]: where the connection is
    down, up,       \* frames under way to the agent and to the object
    heads, bodies,  \* streamHeads and pendingBodies of an agent
    tasks,          \* the requests it has made to the local server
    runner,         \* runnerWs
    streams, nextStreamId,
    lives,          \* how often the object was hibernated
    closer,         \* closer[k]: webSocketClose for that connection
    viewer,         \* viewer[v]: where the request is
    served          \* served[v]: how often the local server got it

kv == <<creator, registry, runKey, expired, deleter>>
agent == <<heads, bodies, tasks, served>>
session == <<runner, streams, nextStreamId, lives>>
vars == <<kv, conn, down, up, agent, session, closer, viewer>>

-----------------------------------------------------------------------------
(***************************************************************************)
(* The registry.  KV may answer with an older value, and createTunnel was  *)
(* long ago, so what is there is seen and what is gone may still be.       *)
(***************************************************************************)
Present == IF expired THEN {FALSE} ELSE {TRUE} \union {registry # None}

\* readMetadata deletes an entry that has expired.
ReadMetadata == registry' = IF expired THEN None ELSE registry

\* createTunnel puts the entry and the run's key, and then answers the token.
CreateTunnel ==
    /\ \/ /\ creator = "none"
          /\ registry' = "created"
          /\ creator' = "key"
          /\ UNCHANGED runKey
       \/ /\ creator = "key"
          /\ runKey' = TRUE
          /\ creator' = "done"
          /\ UNCHANGED registry
    /\ UNCHANGED <<expired, deleter, conn, down, up, agent, session, closer, viewer>>

Expire ==
    /\ ~expired
    /\ expired' = TRUE
    /\ UNCHANGED <<creator, registry, runKey, deleter, conn, down, up, agent, session, closer, viewer>>

DeleteTunnel ==
    /\ creator = "done"
    /\ \/ /\ deleter = "none"
          /\ ReadMetadata
          /\ deleter' \in {IF found THEN "key" ELSE "delete" : found \in Present}
          /\ UNCHANGED runKey
       \/ /\ deleter = "key"
          /\ runKey' = FALSE
          /\ deleter' = "delete"
          /\ UNCHANGED registry
       \/ /\ deleter = "delete"
          /\ registry' = None
          /\ deleter' = "done"
          /\ UNCHANGED runKey
    /\ UNCHANGED <<creator, expired, conn, down, up, agent, session, closer, viewer>>

-----------------------------------------------------------------------------
(***************************************************************************)
(* An agent connects.  A connection is open, or closing: the object has    *)
(* closed it and the agent does not know; or ended: the agent's side is    *)
(* closed and the object does not know; or closed.                         *)
(***************************************************************************)
Goto(k, pc) == conn' = [conn EXCEPT ![k] = pc]

\* The token holds the tunnel's expiresAt.
ValidateTunnelToken == ~expired

\* The API's host is routed to handleTunnelApi, which has no /connect.
Connect(k) ==
    /\ conn[k] = "none" /\ creator = "done"
    /\ \E host \in ConnectHosts :
         Goto(k, IF host # ApiHost /\ ValidateTunnelToken THEN "metadata" ELSE "refused")
    /\ UNCHANGED <<kv, down, up, agent, session, closer, viewer>>

\* handleRunnerConnect reads the entry, and updateTunnelStatus reads it again
\* and puts it with the new status.
ConnectStatus(k) ==
    /\ \/ /\ conn[k] = "metadata"
          /\ ReadMetadata
          /\ \E found \in Present : Goto(k, IF found THEN "status" ELSE "refused")
       \/ /\ conn[k] = "status"
          /\ ReadMetadata
          /\ \E found \in Present : Goto(k, IF found THEN "put" ELSE "attach")
       \/ conn[k] = "put" /\ registry' = "connected" /\ Goto(k, "attach")
       \/ /\ conn[k] \in {"metadata", "status", "put", "attach"}
          /\ Goto(k, "refused")
          /\ UNCHANGED registry
    /\ UNCHANGED <<creator, runKey, expired, deleter, down, up, agent, session, closer, viewer>>

\* handleRunnerConnection: the newest runner replaces the one before.
Attach(k) ==
    /\ conn[k] = "attach"
    /\ conn' = [j \in Agents |-> IF j = k THEN "open"
                                 ELSE IF j = runner /\ conn[j] = "open" THEN "closing"
                                 ELSE conn[j]]
    /\ runner' = k
    /\ UNCHANGED <<kv, down, up, agent, streams, nextStreamId, lives, closer, viewer>>

-----------------------------------------------------------------------------
(***************************************************************************)
(* The agent: handleFrame runs at each frame up to its first await.        *)
(***************************************************************************)
Frame(type, id, v) == [type |-> type, id |-> id, of |-> v]

NoHeads == [id \in StreamIds |-> None]
NoBodies == [id \in StreamIds |-> {}]

Connected(k) == conn[k] \in {"open", "closing"}

\* proxyRequest, for a head and the chunks that have come.
ProxyRequest(k, id, at, v, body) ==
    /\ tasks' = [tasks EXCEPT ![k] = @ \union
                   {[id |-> id, at |-> at, of |-> v, body |-> body]}]
    /\ served' = [served EXCEPT ![v] = @ + 1]

SendUp(k, frame) == up' = [up EXCEPT ![k] = Append(@, frame)]

RequestHead(k, f) ==
    /\ f.type = "req_head"
    /\ heads' = [heads EXCEPT ![k][f.id] = f.of]
    /\ bodies' = [bodies EXCEPT ![k][f.id] = {}]
    /\ IF f.of \notin Posts THEN ProxyRequest(k, f.id, "head", f.of, {})
       ELSE UNCHANGED <<tasks, served>>
    /\ UNCHANGED up

RequestChunk(k, f) ==
    /\ f.type = "req_body"
    /\ bodies' = [bodies EXCEPT ![k][f.id] = @ \union {f.of}]
    /\ UNCHANGED <<heads, tasks, served, up>>

\* A GET whose answer is still awaited is forwarded a second time.
RequestEnd(k, f) ==
    /\ f.type = "req_last"
    /\ IF heads[k][f.id] = None
       THEN SendUp(k, Frame("error", f.id, f.of)) /\ UNCHANGED <<tasks, served>>
       ELSE /\ ProxyRequest(k, f.id, "last", heads[k][f.id], bodies[k][f.id])
            /\ UNCHANGED up
    /\ UNCHANGED <<heads, bodies>>

HandleFrame(k) ==
    /\ Connected(k)
    /\ down[k] # <<>>
    /\ down' = [down EXCEPT ![k] = Tail(@)]
    /\ \E f \in {Head(down[k])} :
         RequestHead(k, f) \/ RequestChunk(k, f) \/ RequestEnd(k, f)
    /\ UNCHANGED <<kv, conn, session, closer, viewer>>

\* The local server answers, or the request to it fails or times out.
LocalAnswer(k) ==
    /\ Connected(k)
    /\ \E t \in tasks[k], type \in {"response", "error"} :
         /\ tasks' = [tasks EXCEPT ![k] = @ \ {t}]
         /\ SendUp(k, Frame(type, t.id, t.of))
         /\ heads' = [heads EXCEPT ![k][t.id] = None]
         /\ bodies' = [bodies EXCEPT ![k][t.id] = {}]
    /\ UNCHANGED <<kv, conn, down, served, session, closer, viewer>>

\* The process ends, loses its connection, or hears that it was closed.
AgentEnds(k) ==
    /\ Connected(k)
    /\ Goto(k, "ended")
    /\ down' = [down EXCEPT ![k] = <<>>]
    /\ up' = up \/ up' = [up EXCEPT ![k] = <<>>]
    /\ heads' = [heads EXCEPT ![k] = NoHeads]
    /\ bodies' = [bodies EXCEPT ![k] = NoBodies]
    /\ tasks' = [tasks EXCEPT ![k] = {}]
    /\ UNCHANGED <<kv, served, session, closer, viewer>>

-----------------------------------------------------------------------------
(***************************************************************************)
(* A viewer's request.                                                     *)
(***************************************************************************)
Answer(v, result) == viewer' = [viewer EXCEPT ![v].pc = "answered", ![v].result = result]

Says(what) == [what |-> what, of |-> None]

\* A path below /api/ is routed to the tunnel API, on whatever host.
Request(v) ==
    /\ viewer[v].pc = "idle" /\ creator = "done"
    /\ \/ viewer' = [viewer EXCEPT ![v].pc = "metadata"]
       \/ Answer(v, Says("not found"))
    /\ UNCHANGED <<kv, conn, down, up, agent, session, closer>>

ViewerMetadata(v) ==
    /\ viewer[v].pc = "metadata"
    /\ ReadMetadata
    /\ \E found \in Present :
         IF found THEN viewer' = [viewer EXCEPT ![v].pc = "fetch"]
         ELSE Answer(v, Says("not found"))
    /\ UNCHANGED <<creator, runKey, expired, deleter, conn, down, up, agent, session, closer>>

Refusal ==
    IF runner = None THEN "offline"
    ELSE IF expired THEN "expired"
    ELSE IF Cardinality({id \in StreamIds : streams[id] # None}) >= MaxStreams THEN "busy"
    ELSE "none"

\* A send to a connection that the object closed throws; one whose agent is
\* gone may throw, too, or the frames are lost.
Throws == IF runner = None THEN {TRUE}
          ELSE CASE conn[runner] = "open" -> {FALSE}
                 [] conn[runner] = "ended" -> {TRUE, FALSE}
                 [] OTHER -> {TRUE}

SendDown(frames) ==
    down' = IF conn[runner] = "open" THEN [down EXCEPT ![runner] = @ \o frames] ELSE down

\* Bug: a stream is numbered by how many there are.
NewStreamIdByCount == Cardinality({id \in StreamIds : streams[id] # None}) + 1

NewStreamId == nextStreamId

\* handleViewerRequest and proxyHttpRequest up to its first await.
OpenStream(v) ==
    /\ viewer[v].pc = "fetch"
    /\ IF Refusal # "none"
       THEN /\ Answer(v, Says(Refusal))
            /\ UNCHANGED <<down, streams, nextStreamId>>
       ELSE /\ nextStreamId' = nextStreamId + 1
            /\ \E throws \in Throws :
                 IF throws THEN Answer(v, Says("send failed")) /\ UNCHANGED <<down, streams>>
                 ELSE /\ streams' = [streams EXCEPT ![NewStreamId] = v]
                      /\ viewer' = [viewer EXCEPT
                           ![v].pc = IF v \in Posts THEN "chunk" ELSE "waiting",
                           ![v].id = NewStreamId, ![v].life = lives]
                      /\ SendDown(IF v \in Posts THEN <<Frame("req_head", NewStreamId, v)>>
                                  ELSE <<Frame("req_head", NewStreamId, v),
                                         Frame("req_last", NewStreamId, v)>>)
    /\ UNCHANGED <<kv, conn, up, agent, runner, lives, closer>>

\* The body is sent as it is read, to whatever runner is connected by then.
SendBody(v) ==
    LET id == viewer[v].id
    IN  /\ viewer[v].pc \in {"chunk", "last"}
        /\ \/ /\ FALSE \in Throws
              /\ viewer' = [viewer EXCEPT ![v].pc = IF @ = "chunk" THEN "last" ELSE "waiting"]
              /\ SendDown(<<Frame(IF viewer[v].pc = "chunk" THEN "req_body" ELSE "req_last", id, v)>>)
              /\ UNCHANGED streams
           \/ /\ Answer(v, Says("send failed"))
              /\ streams' = [streams EXCEPT ![id] = None]
              /\ UNCHANGED down
        /\ UNCHANGED <<kv, conn, up, agent, runner, nextStreamId, lives, closer>>

\* A promise is settled once; the stream is forgotten with it.
Settle(ids, result) ==
    /\ streams' = [id \in StreamIds |-> IF id \in ids THEN None ELSE streams[id]]
    /\ viewer' = [v \in Viewers |-> IF \E id \in ids : streams[id] = v
                                    THEN [viewer[v] EXCEPT !.result = result] ELSE viewer[v]]

AwaitResponse(v) ==
    /\ viewer[v].pc = "waiting"
    /\ viewer[v].result # None
    /\ viewer' = [viewer EXCEPT ![v].pc = "answered"]
    /\ UNCHANGED <<kv, conn, down, up, agent, session, closer>>

Timeout(v) ==
    /\ \E id \in StreamIds : streams[id] = v /\ Settle({id}, Says("timeout"))
    /\ UNCHANGED <<kv, conn, down, up, agent, runner, nextStreamId, lives, closer>>

-----------------------------------------------------------------------------
(***************************************************************************)
(* The object hears from its connections.                                  *)
(***************************************************************************)

\* res_head and res_body, which an agent sends together, or an error frame.
WebSocketMessage(k) ==
    /\ conn[k] \in {"open", "closing", "ended"}
    /\ up[k] # <<>>
    /\ up' = [up EXCEPT ![k] = Tail(@)]
    /\ LET f == Head(up[k])
       IN  Settle({f.id}, [what |-> f.type, of |-> f.of])
    /\ UNCHANGED <<kv, conn, down, agent, runner, nextStreamId, lives, closer>>

\* Bug: the status stays as it is.
CloseStatusKept(k) ==
    /\ closer[k] = "read"
    /\ closer' = [closer EXCEPT ![k] = "clear"]
    /\ UNCHANGED <<kv, conn, down, up, agent, session, viewer>>

\* The first part of webSocketClose, for whichever connection it is.  An object
\* that found no connection when it woke up does not know its tunnel.
WebSocketClose(k) ==
    /\ conn[k] = "ended" /\ up[k] = <<>>
    /\ Goto(k, "closed")
    /\ runner' = None
    /\ \/ closer' = [closer EXCEPT ![k] = "read"]
       \/ lives > 0 /\ runner = None /\ closer' = [closer EXCEPT ![k] = "clear"]
    /\ UNCHANGED <<kv, down, up, agent, streams, nextStreamId, lives, viewer>>

CloseStatus(k) ==
    /\ \/ /\ closer[k] = "read"
          /\ ReadMetadata
          /\ \E found \in Present :
               closer' = [closer EXCEPT ![k] = IF found THEN "put" ELSE "clear"]
       \/ /\ closer[k] = "put"
          /\ registry' = "disconnected"
          /\ closer' = [closer EXCEPT ![k] = "clear"]
       \/ /\ closer[k] \in {"read", "put"}
          /\ closer' = [closer EXCEPT ![k] = "failed"]
          /\ UNCHANGED registry
    /\ UNCHANGED <<creator, runKey, expired, deleter, conn, down, up, agent, session, viewer>>

\* Bug: the streams are dropped and their viewers are not told.
CloseStreamsQuietly(k) ==
    /\ closer[k] = "clear"
    /\ closer' = [closer EXCEPT ![k] = "done"]
    /\ streams' = NoHeads
    /\ UNCHANGED <<kv, conn, down, up, agent, runner, nextStreamId, lives, viewer>>

CloseStreams(k) ==
    /\ closer[k] = "clear"
    /\ closer' = [closer EXCEPT ![k] = "done"]
    /\ Settle({id \in StreamIds : streams[id] # None}, Says("disconnected"))
    /\ UNCHANGED <<kv, conn, down, up, agent, runner, nextStreamId, lives>>

\* With nothing under way the object is dropped from memory, and its
\* constructor restores the runner from the connections, in whatever order.
Hibernate ==
    /\ lives < MaxLives
    /\ \A v \in Viewers : viewer[v].pc \notin {"chunk", "last", "waiting"}
    /\ \A k \in Agents : closer[k] \notin {"read", "put", "clear"}
    /\ lives' = lives + 1
    /\ nextStreamId' = 1
    /\ LET listed == {k \in Agents : Connected(k)}
       IN  runner' \in IF listed = {} THEN {None} ELSE listed
    /\ UNCHANGED <<kv, conn, down, up, agent, streams, closer, viewer>>

-----------------------------------------------------------------------------
Init ==
    /\ creator = "none" /\ registry = None /\ runKey = FALSE
    /\ expired = FALSE /\ deleter = "none"
    /\ conn = [k \in Agents |-> "none"]
    /\ down = [k \in Agents |-> <<>>]
    /\ up = [k \in Agents |-> <<>>]
    /\ heads = [k \in Agents |-> NoHeads]
    /\ bodies = [k \in Agents |-> NoBodies]
    /\ tasks = [k \in Agents |-> {}]
    /\ runner = None
    /\ streams = NoHeads
    /\ nextStreamId = 1
    /\ lives = 0
    /\ closer = [k \in Agents |-> "none"]
    /\ viewer = [v \in Viewers |-> [pc |-> "idle", id |-> 0, life |-> 0, result |-> None]]
    /\ served = [v \in Viewers |-> 0]

Handler(v) ==
    \/ ViewerMetadata(v)
    \/ OpenStream(v)
    \/ SendBody(v)
    \/ AwaitResponse(v)

Next ==
    \/ CreateTunnel \/ Expire \/ DeleteTunnel \/ Hibernate
    \/ \E k \in Agents :
         \/ Connect(k) \/ ConnectStatus(k) \/ Attach(k)
         \/ HandleFrame(k) \/ LocalAnswer(k) \/ AgentEnds(k)
         \/ WebSocketMessage(k) \/ WebSocketClose(k) \/ CloseStatus(k) \/ CloseStreams(k)
    \/ \E v \in Viewers : Request(v) \/ Handler(v) \/ Timeout(v)

Spec == Init /\ [][Next]_vars

FairSpec == Spec /\ \A v \in Viewers : WF_vars(Handler(v)) /\ WF_vars(Timeout(v))

-----------------------------------------------------------------------------
Streams == {id \in StreamIds : streams[id] # None}

Frames == [type : {"req_head", "req_body", "req_last", "response", "error"},
           id : StreamIds, of : Viewers]

Tasks == [id : StreamIds, at : {"head", "last"}, of : Viewers, body : SUBSET Viewers]

Results == [what : {"not found", "offline", "expired", "busy", "send failed", "timeout",
                    "disconnected", "response", "error"},
            of : Viewers \union {None}]

TypeOK ==
    /\ creator \in {"none", "key", "done"}
    /\ registry \in {None, "created", "connected", "disconnected"}
    /\ runKey \in BOOLEAN /\ expired \in BOOLEAN
    /\ deleter \in {"none", "key", "delete", "done"}
    /\ conn \in [Agents -> {"none", "refused", "metadata", "status", "put", "attach",
                            "open", "closing", "ended", "closed"}]
    /\ down \in [Agents -> Seq(Frames)] /\ up \in [Agents -> Seq(Frames)]
    /\ heads \in [Agents -> [StreamIds -> Viewers \union {None}]]
    /\ bodies \in [Agents -> [StreamIds -> SUBSET Viewers]]
    /\ tasks \in [Agents -> SUBSET Tasks]
    /\ runner \in Agents \union {None}
    /\ streams \in [StreamIds -> Viewers \union {None}]
    /\ nextStreamId \in 1..(Cardinality(Viewers) + 1)
    /\ lives \in 0..MaxLives
    /\ closer \in [Agents -> {"none", "read", "put", "clear", "failed", "done"}]
    /\ viewer \in [Viewers -> [pc : {"idle", "metadata", "fetch", "chunk", "last", "waiting",
                                     "answered"},
                               id : StreamIds \union {0}, life : 0..MaxLives,
                               result : Results \union {None}]]
    /\ served \in [Viewers -> 0..2]

\* A viewer is answered with its own response, whatever runners came and went,
\* except with that of a request from before the object was last hibernated:
\* stream ids start at 1 again, and an agent may still answer the old ones.
OwnAnswer ==
    \A v \in Viewers : viewer[v].result # None =>
        \/ viewer[v].result.of \in {v, None}
        \/ viewer[viewer[v].result.of].life < viewer[v].life

\* What an agent asks of the local server is a request with all of its body and
\* nothing of another's, although head, chunks and end may go to different agents.
ForwardedWhole ==
    \A k \in Agents : \A t \in tasks[k] : t.body = {t.of} \intersect Posts

\* A request with a body reaches the local server at most once.
PostOnce == \A v \in Posts : served[v] <= 1

\* Viewers that wait while no runner is connected are about to be told, unless
\* the handler that would tell them failed at the registry.
WaitersAreTold ==
    runner = None /\ Streams # {} => \E k \in Agents : closer[k] \in {"read", "put", "clear", "failed"}

\* What the registry calls connected has a runner, unless a handler failed in
\* between, or the object was dropped from memory and forgot its tunnel.
StatusShown ==
    \/ registry = "connected" => runner # None
    \/ lives > 0
    \/ \E k \in Agents : conn[k] \in {"attach", "refused"} \/ closer[k] \in {"read", "put", "failed"}

\* A tunnel that was deleted comes back only by a status update that had read
\* it before.
DeletionStays ==
    [][deleter = "done" /\ registry = None /\ registry' # None =>
         \E k \in Agents : conn[k] = "put" \/ closer[k] = "put"]_vars

\* What a viewer gets is the whole answer to their own request, and what the
\* workspace's server gets is the whole request, a form no more than once.
AnswersSound == TypeOK /\ OwnAnswer /\ ForwardedWhole /\ PostOnce

\* The registry follows the runner's connections: who waits for a runner that is
\* gone was told, the status is one that the connections account for, and a
\* deleted tunnel is revived by nothing but a status update already under way.
RegistryFollows == [](WaitersAreTold /\ StatusShown) /\ DeletionStays

\* Every request to the preview URL is answered, whatever becomes of the runner.
ViewersAnswered ==
    \A v \in Viewers : viewer[v].pc = "metadata" ~> viewer[v].pc = "answered"

=============================================================================
