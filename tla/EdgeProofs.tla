------------------------------ MODULE EdgeProofs ------------------------------
(***************************************************************************)
(* Proofs about two components that a browser meets beside the control     *)
(* API and that share nothing: the preview tunnel, for any number of       *)
(* agents, requests, streams and hibernations, and the relay of            *)
(* realtime-api, for any number of connections, users, runs, messages,     *)
(* events, failures and repetitions.                                       *)
(***************************************************************************)
EXTENDS PreviewTunnel, RealtimeRelay, FiniteSetTheorems, TLAPS

-----------------------------------------------------------------------------
(***************************************************************************)
(* The tunnel: the inductive invariant.                                    *)
(***************************************************************************)
Early == {"idle", "metadata", "fetch"}
Sending == {"chunk", "last"}
Under == Sending \union {"waiting"}

ConnType == [Agents -> {"none", "refused", "metadata", "status", "put", "attach",
                        "open", "closing", "ended", "closed"}]
CloserType == [Agents -> {"none", "read", "put", "clear", "failed", "done"}]
ViewerRecord ==
    [pc : Early \union Under \union {"answered"}, id : StreamIds \union {0},
     life : 0..MaxLives, result : Results \union {None}]

KvShape ==
    /\ creator \in {"none", "key", "done"}
    /\ registry \in {None, "created", "connected", "disconnected"}
    /\ runKey \in BOOLEAN /\ expired \in BOOLEAN
    /\ deleter \in {"none", "key", "delete", "done"}
    /\ deleter # "none" => creator = "done"
    /\ conn \in ConnType /\ closer \in CloserType

AgentShape ==
    /\ down \in [Agents -> Seq(Frames)] /\ up \in [Agents -> Seq(Frames)]
    /\ heads \in [Agents -> [StreamIds -> Viewers \union {None}]]
    /\ bodies \in [Agents -> [StreamIds -> SUBSET Viewers]]
    /\ tasks \in [Agents -> SUBSET Tasks]
    /\ served \in [Viewers -> Nat]

ObjectShape ==
    /\ runner \in Agents \union {None}
    /\ streams \in [StreamIds -> Viewers \union {None}]
    /\ nextStreamId \in Nat \ {0}
    /\ lives \in 0..MaxLives
    /\ viewer \in [Viewers -> ViewerRecord]

\* A request that has not been let through has no stream; one that is under way
\* has one of the object's present life.
ViewerOf(v) ==
    /\ viewer[v].pc \in Early =>
         viewer[v].id = 0 /\ viewer[v].result = None /\ served[v] = 0
    /\ viewer[v].pc \in Under => viewer[v].id # 0 /\ viewer[v].life = lives
    /\ viewer[v].pc \in Sending => v \in Posts /\ served[v] = 0
    /\ viewer[v].life <= lives
    /\ viewer[v].id # 0 /\ viewer[v].life = lives => viewer[v].id < nextStreamId

\* A life of the object numbers its streams one after the other, and there are
\* no more of them than requests that were let through.
IdsDiffer ==
    \A u, v \in Viewers :
        viewer[u].id # 0 /\ viewer[u].id = viewer[v].id /\ viewer[u].life = viewer[v].life
        => u = v

LetThrough == {v \in Viewers : viewer[v].pc \notin Early}
IdsEnough == nextStreamId <= Cardinality(LetThrough) + 1

\* An open stream is of a request that waits for it and has no answer.
StreamsAwaited ==
    \A id \in StreamIds : streams[id] # None =>
        /\ viewer[streams[id]].id = id
        /\ viewer[streams[id]].pc \in Under
        /\ viewer[streams[id]].result = None

\* What came back to one request came from another that had a stream.
ResultsOpened ==
    \A v \in Viewers : viewer[v].result # None /\ viewer[v].result.of # None =>
        viewer[viewer[v].result.of].id # 0

\* Whatever an agent or a connection holds under an id is of a request that had
\* that id.
Had(v, id) == viewer[v].id = id
HeldOf(k) ==
    /\ \A i \in DOMAIN down[k] :
         /\ down[k][i].type \in {"req_head", "req_body", "req_last"}
         /\ Had(down[k][i].of, down[k][i].id)
    /\ \A i \in DOMAIN up[k] :
         /\ up[k][i].type \in {"response", "error"}
         /\ Had(up[k][i].of, up[k][i].id)
    /\ \A id \in StreamIds : heads[k][id] # None => Had(heads[k][id], id)
    /\ \A t \in tasks[k] : Had(t.of, t.id) /\ t.body = {t.of} \intersect Posts
    /\ ~Connected(k) => /\ down[k] = <<>> /\ heads[k] = NoHeads
                        /\ tasks[k] = {}

\* The frame g is what the agent expects after the frames 1..n under way to it:
\* the part after f of one request, or the first of its id, where the agent has
\* no head for it or exactly the part before g.
Continues(f, g) ==
    /\ g.of = f.of /\ g.id = f.id
    /\ \/ f.type = "req_head" /\ g.type = "req_last" /\ g.of \notin Posts
       \/ f.type = "req_head" /\ g.type = "req_body" /\ g.of \in Posts
       \/ f.type = "req_body" /\ g.type = "req_last" /\ g.of \in Posts

AtAgent(k, g) ==
    \/ heads[k][g.id] = None
    \/ /\ heads[k][g.id] = g.of
       /\ bodies[k][g.id] = IF g.type = "req_last" THEN {g.of} \intersect Posts ELSE {}
       /\ g.type = "req_body" => g.of \in Posts

Follows(k, n, g) ==
    \/ \E j \in 1..n : /\ Continues(down[k][j], g)
                       /\ \A m \in j + 1..n : down[k][m].id # g.id
    \/ (\A j \in 1..n : down[k][j].id # g.id) /\ AtAgent(k, g)

QueueOf(k) ==
    \A i \in DOMAIN down[k] : down[k][i].type # "req_head" => Follows(k, i - 1, down[k][i])

\* What a request whose body is still being sent sends next.
Rest(v) == Frame(IF viewer[v].pc = "chunk" THEN "req_body" ELSE "req_last", viewer[v].id, v)

Expected ==
    runner # None => \A v \in Viewers : viewer[v].pc \in Sending =>
        Follows(runner, Len(down[runner]), Rest(v))

\* Of each request there is one frame of a kind; how often it was forwarded goes
\* with those still under way.
FramesOnce ==
    \A k, l \in Agents : \A i \in DOMAIN down[k], j \in DOMAIN down[l] :
        /\ down[k][i].of = down[l][j].of /\ down[k][i].type = down[l][j].type
           => k = l /\ i = j
        /\ down[k][i].of = down[l][j].of /\ down[k][i].of \notin Posts
              /\ down[k][i].type = "req_head" /\ down[l][j].type = "req_last"
           => k = l /\ i < j

FrameCount(f) ==
    /\ f.of \notin Posts => f.type \in {"req_head", "req_last"}
    /\ f.type = "req_head" /\ f.of \notin Posts => served[f.of] = 0
    /\ f.type = "req_body" => viewer[f.of].pc # "chunk"
    /\ f.type = "req_last" =>
         /\ viewer[f.of].pc \notin Sending
         /\ served[f.of] <= IF f.of \in Posts THEN 0 ELSE 1

ServedOf ==
    /\ \A v \in Viewers : served[v] <= 2 /\ (v \in Posts => served[v] <= 1)
    /\ \A k \in Agents : \A i \in DOMAIN down[k] : FrameCount(down[k][i])

Requests ==
    /\ \A v \in Viewers : ViewerOf(v)
    /\ IdsDiffer /\ IdsEnough /\ StreamsAwaited /\ ResultsOpened /\ OwnAnswer

Queues ==
    /\ \A k \in Agents : HeldOf(k) /\ QueueOf(k)
    /\ Expected /\ FramesOnce /\ ServedOf

IInv ==
    /\ KvShape /\ AgentShape /\ ObjectShape
    /\ Requests /\ Queues /\ WaitersAreTold /\ StatusShown

-----------------------------------------------------------------------------
(***************************************************************************)
(* What a step that leaves a part of the state alone keeps.                *)
(***************************************************************************)
LEMMA FrameTypes ==
    ASSUME AgentShape, NEW k \in Agents, NEW i \in DOMAIN down[k]
    PROVE  /\ down[k] \in Seq(Frames) /\ down[k][i] \in Frames
           /\ down[k][i].of \in Viewers /\ down[k][i].id \in StreamIds
           /\ i \in 1..Len(down[k]) /\ Len(down[k]) \in Nat
<1>1. down[k] \in Seq(Frames)
  BY DEF AgentShape
<1>2. down[k][i] \in Frames /\ i \in 1..Len(down[k]) /\ Len(down[k]) \in Nat
  BY <1>1
<1> QED
  BY <1>1, <1>2 DEF Frames

\* The queues, when no frame is added and the agents do nothing.
LEMMA QueuesKept ==
    ASSUME AgentShape, ObjectShape, Queues, UNCHANGED <<down, heads, bodies, tasks, served>>,
           Requests, \A k \in Agents : Connected(k) => Connected(k)',
           \A k \in Agents : \A i \in DOMAIN up'[k] : \E j \in DOMAIN up[k] : up'[k][i] = up[k][j],
           \A v \in Viewers : /\ viewer[v].id # 0 => viewer'[v].id = viewer[v].id
                              /\ viewer'[v].pc \in Sending =>
                                   viewer'[v].pc = viewer[v].pc /\ viewer'[v].id = viewer[v].id,
           runner' # None => \/ runner' = runner
                             \/ runner' \in Agents /\ ~Connected(runner')
                             \/ \A v \in Viewers : viewer'[v].pc \notin Sending
    PROVE  Queues'
<1>1. \A n \in StreamIds : n # 0
  BY DEF StreamIds
<1>2. ASSUME NEW k \in Agents PROVE HeldOf(k)'
  <2>1. \A i \in DOMAIN down[k] : viewer'[down[k][i].of].id = down[k][i].id
    BY <1>1, FrameTypes DEF Queues, HeldOf, Had
  <2>2. \A i \in DOMAIN up'[k] : /\ up'[k][i].type \in {"response", "error"}
                                 /\ viewer'[up'[k][i].of].id = up'[k][i].id
    <3>1. ASSUME NEW j \in DOMAIN up[k]
          PROVE  up[k][j].of \in Viewers /\ up[k][j].id \in StreamIds
      <4>1. up[k] \in Seq(Frames)
        BY DEF AgentShape
      <4>2. up[k][j] \in Frames
        BY <4>1
      <4> QED
        BY <4>2 DEF Frames
    <3>2. ASSUME NEW i \in DOMAIN up'[k]
          PROVE  /\ up'[k][i].type \in {"response", "error"}
                 /\ viewer'[up'[k][i].of].id = up'[k][i].id
      <4>1. PICK j \in DOMAIN up[k] : up'[k][i] = up[k][j]
        OBVIOUS
      <4>2. up[k][j].type \in {"response", "error"} /\ Had(up[k][j].of, up[k][j].id)
        BY DEF Queues, HeldOf
      <4> QED
        BY <1>1, <3>1, <4>1, <4>2 DEF Had
    <3> QED
      BY <3>2
  <2>3. \A id \in StreamIds : heads'[k][id] # None => viewer'[heads[k][id]].id = id
    <3>1. \A id \in StreamIds : heads[k][id] \in Viewers \union {None}
      BY DEF AgentShape
    <3> QED
      BY <1>1, <3>1 DEF Queues, HeldOf, Had
  <2>4. \A t \in tasks'[k] : viewer'[t.of].id = t.id /\ t.body = {t.of} \intersect Posts
    <3>1. \A t \in tasks[k] : t.of \in Viewers /\ t.id \in StreamIds
      BY DEF AgentShape, Tasks
    <3> QED
      BY <1>1, <3>1 DEF Queues, HeldOf, Had
  <2>5. ~Connected(k)' => down'[k] = <<>> /\ heads'[k] = NoHeads /\ tasks'[k] = {}
    BY DEF Queues, HeldOf
  <2>6. \A i \in DOMAIN down'[k] : down'[k][i].type \in {"req_head", "req_body", "req_last"}
    BY DEF Queues, HeldOf
  <2> QED
    BY <2>1, <2>2, <2>3, <2>4, <2>5, <2>6 DEF HeldOf, Had, NoHeads
<1>3. ASSUME NEW k, NEW n, NEW g, Follows(k, n, g) PROVE Follows(k, n, g)'
  BY <1>3 DEF Follows, AtAgent, Continues
<1>4. ASSUME NEW k \in Agents PROVE QueueOf(k)'
  BY <1>3 DEF Queues, QueueOf
<1>5. Expected'
  <2>1. \A v \in Viewers : viewer'[v].pc \in Sending =>
                             viewer[v].pc \in Sending /\ Rest(v)' = Rest(v)
    BY DEF Rest
  <2>2. CASE runner' = runner
    BY <1>3, <2>1, <2>2 DEF Queues, Expected
  <2>3. ASSUME NEW k \in Agents, ~Connected(k), NEW v \in Viewers, viewer'[v].pc \in Sending
        PROVE  Follows(k, Len(down[k]), Rest(v))
    <3>1. viewer[v].id \in StreamIds /\ Rest(v).id = viewer[v].id
      BY <2>1, <2>3 DEF Rest, Frame, Requests, ViewerOf, ObjectShape, ViewerRecord, Under
    <3>2. down[k] = <<>> /\ heads[k] = NoHeads
      BY <2>3 DEF Queues, HeldOf
    <3> QED
      BY <3>1, <3>2 DEF Follows, AtAgent, NoHeads
  <2>4. CASE runner' \in Agents /\ ~Connected(runner')
    <3>1. PICK k \in Agents : runner' = k
      BY <2>4
    <3>2. ~Connected(k)
      BY <2>4, <3>1
    <3> QED
      BY <1>3, <2>1, <2>3, <3>1, <3>2 DEF Expected
  <2>5. CASE \A v \in Viewers : viewer'[v].pc \notin Sending
    BY <2>5 DEF Expected
  <2>6. CASE runner' = None
    BY <2>6 DEF Expected
  <2> QED
    BY <2>2, <2>4, <2>5, <2>6
<1>6. FramesOnce'
  BY DEF Queues, FramesOnce
<1>7. ServedOf'
  <2>1. ASSUME NEW k \in Agents, NEW i \in DOMAIN down[k] PROVE FrameCount(down[k][i])'
    BY <2>1, FrameTypes DEF Queues, ServedOf, FrameCount, Sending
  <2> QED
    BY <2>1 DEF Queues, ServedOf
<1> QED
  BY <1>2, <1>4, <1>5, <1>6, <1>7 DEF Queues

LEMMA RequestsKept ==
    ASSUME Requests, UNCHANGED <<viewer, streams, nextStreamId, lives, served>>
    PROVE  Requests'
BY DEF Requests, ViewerOf, IdsDiffer, IdsEnough, LetThrough, StreamsAwaited, ResultsOpened, OwnAnswer

-----------------------------------------------------------------------------
(***************************************************************************)
(* Steps of requests.                                                      *)
(***************************************************************************)

\* A promise is settled: requests keep all but their result.
LEMMA Settles ==
    ASSUME ObjectShape, Requests, NEW ids \in SUBSET StreamIds, NEW result \in Results,
           Settle(ids, result), UNCHANGED <<nextStreamId, lives, served>>,
           result.of # None => viewer[result.of].id # 0,
           \A id \in ids : streams[id] # None =>
              \/ result.of \in {streams[id], None}
              \/ viewer[result.of].life < viewer[streams[id]].life
    PROVE  /\ Requests'
           /\ streams' \in [StreamIds -> Viewers \union {None}]
           /\ viewer' \in [Viewers -> ViewerRecord]
           /\ \A v \in Viewers : viewer'[v].pc = viewer[v].pc /\ viewer'[v].id = viewer[v].id
           /\ Streams' = Streams \ ids
<1>1. ASSUME NEW v \in Viewers, NEW q, q = [viewer[v] EXCEPT !.result = result]
      PROVE  /\ q \in ViewerRecord /\ q.pc = viewer[v].pc /\ q.id = viewer[v].id
             /\ q.life = viewer[v].life /\ q.result = result
  BY <1>1 DEF ObjectShape, ViewerRecord
<1>2. /\ viewer' \in [Viewers -> ViewerRecord]
      /\ \A v \in Viewers : /\ viewer'[v].pc = viewer[v].pc /\ viewer'[v].id = viewer[v].id
                            /\ viewer'[v].life = viewer[v].life
                            /\ \/ viewer'[v].result = viewer[v].result
                               \/ /\ viewer'[v].result = result
                                  /\ \E id \in ids : streams[id] = v
                            /\ (\A id \in ids : streams[id] # v) =>
                                  viewer'[v].result = viewer[v].result
  <2>1. \A v \in Viewers : viewer'[v] = IF \E id \in ids : streams[id] = v
                                        THEN [viewer[v] EXCEPT !.result = result] ELSE viewer[v]
    BY DEF Settle
  <2>2. viewer' = [v \in Viewers |-> viewer'[v]]
    BY DEF Settle
  <2>3. ASSUME NEW v \in Viewers
        PROVE  /\ viewer'[v] \in ViewerRecord
               /\ viewer'[v].pc = viewer[v].pc /\ viewer'[v].id = viewer[v].id
               /\ viewer'[v].life = viewer[v].life
               /\ viewer'[v] = viewer[v] \/ viewer'[v].result = result
    <3>1. CASE \E id \in ids : streams[id] = v
      <4>1. viewer'[v] = [viewer[v] EXCEPT !.result = result]
        BY <2>1, <3>1
      <4> QED
        BY <1>1, <4>1
    <3>2. CASE ~\E id \in ids : streams[id] = v
      BY <2>1, <3>2 DEF ObjectShape
    <3> QED
      BY <3>1, <3>2
  <2> QED
    BY <2>1, <2>2, <2>3
<1>3. /\ streams' \in [StreamIds -> Viewers \union {None}]
      /\ \A id \in StreamIds : streams'[id] = IF id \in ids THEN None ELSE streams[id]
  BY DEF Settle, ObjectShape
<1>4. \A v \in Viewers : ViewerOf(v)'
  <2>1. ASSUME NEW v \in Viewers, viewer[v].pc \in Early
        PROVE  viewer'[v].result = viewer[v].result
    <3>1. ASSUME NEW id \in ids, streams[id] = v PROVE FALSE
      <4>1. streams[id] # None
        BY <3>1, TunnelAssumption
      <4> QED
        BY <2>1, <3>1, <4>1 DEF Requests, StreamsAwaited, Early, Under, Sending
    <3> QED
      BY <1>2, <3>1
  <2> QED
    BY <1>2, <2>1 DEF Requests, ViewerOf
<1>5. IdsDiffer'
  BY <1>2 DEF Requests, IdsDiffer
<1>6. IdsEnough'
  BY <1>2 DEF Requests, IdsEnough, LetThrough
<1>7. StreamsAwaited'
  <2>1. ASSUME NEW id \in StreamIds, streams'[id] # None
        PROVE  /\ viewer'[streams'[id]].id = id
               /\ viewer'[streams'[id]].pc \in Under
               /\ viewer'[streams'[id]].result = None
    <3>1. id \notin ids /\ streams'[id] = streams[id] /\ streams[id] \in Viewers
      BY <1>3, <2>1 DEF ObjectShape
    <3>2. /\ viewer[streams[id]].id = id /\ viewer[streams[id]].pc \in Under
          /\ viewer[streams[id]].result = None
      BY <2>1, <3>1 DEF Requests, StreamsAwaited
    <3>3. \A n \in ids : streams[n] # streams[id]
      BY <2>1, <3>1, <3>2 DEF Requests, StreamsAwaited
    <3> QED
      BY <1>2, <3>1, <3>2, <3>3
  <2> QED
    BY <2>1 DEF StreamsAwaited
<1>8. OwnAnswer'
  <2>1. ASSUME NEW v \in Viewers, viewer'[v].result # None
        PROVE  \/ viewer'[v].result.of \in {v, None}
               \/ viewer'[viewer'[v].result.of].life < viewer'[v].life
    <3>1. viewer'[v].result \in Results /\ viewer'[v].result.of \in Viewers \union {None}
      BY <1>2, <2>1 DEF ViewerRecord, Results
    <3>2. CASE viewer'[v].result = viewer[v].result
      BY <1>2, <2>1, <3>1, <3>2 DEF Requests, OwnAnswer
    <3>3. CASE viewer'[v].result = result /\ \E id \in ids : streams[id] = v
      <4>1. v # None
        BY TunnelAssumption
      <4> QED
        BY <1>2, <2>1, <3>1, <3>3, <4>1
    <3> QED
      BY <1>2, <3>2, <3>3
  <2> QED
    BY <2>1 DEF OwnAnswer
<1>9. ResultsOpened'
  <2>1. ASSUME NEW v \in Viewers, viewer'[v].result # None, viewer'[v].result.of # None
        PROVE  viewer'[viewer'[v].result.of].id # 0
    <3>1. viewer'[v].result \in Results /\ viewer'[v].result.of \in Viewers
      BY <1>2, <2>1 DEF ViewerRecord, Results
    <3> QED
      BY <1>2, <2>1, <3>1 DEF Requests, ResultsOpened
  <2> QED
    BY <2>1 DEF ResultsOpened
<1>10. Streams' = Streams \ ids
  BY <1>3 DEF Streams
<1> QED
  BY <1>2, <1>3, <1>4, <1>5, <1>6, <1>7, <1>8, <1>9, <1>10 DEF Requests

\* One request moves on under the id it has.
LEMMA RequestMoves ==
    ASSUME ObjectShape, Requests, NEW v \in Viewers, NEW q \in ViewerRecord,
           viewer' = [viewer EXCEPT ![v] = q], UNCHANGED <<lives, served>>,
           \/ nextStreamId' = nextStreamId
           \/ nextStreamId' = nextStreamId + 1 /\ viewer[v].pc \in Early /\ q.pc \notin Early,
           q.id = viewer[v].id, q.life = viewer[v].life,
           q.pc \in Early => viewer[v].pc \in Early /\ q.result = None,
           q.pc \in Under => viewer[v].pc \in Under,
           q.pc \in Sending => viewer[v].pc \in Sending,
           q.result # None => q.result = viewer[v].result \/ q.result.of = None,
           \A id \in StreamIds : streams'[id] \in {streams[id], None},
           \A id \in StreamIds : streams'[id] = v => q.pc \in Under /\ q.result = None
    PROVE  Requests' /\ viewer' \in [Viewers -> ViewerRecord]
<1>1. /\ viewer' \in [Viewers -> ViewerRecord] /\ viewer'[v] = q
      /\ \A u \in Viewers \ {v} : viewer'[u] = viewer[u]
  BY DEF ObjectShape
<1>2. \A u \in Viewers : viewer'[u].id = viewer[u].id /\ viewer'[u].life = viewer[u].life
  BY <1>1
<1>3. \A u \in Viewers : ViewerOf(u)'
  <2>1. ViewerOf(v)'
    BY <1>1 DEF Requests, ViewerOf
  <2>2. ASSUME NEW u \in Viewers \ {v} PROVE ViewerOf(u)'
    <3>1. viewer'[u] = viewer[u] /\ viewer[u].id \in Nat
      BY <1>1 DEF ObjectShape, ViewerRecord, StreamIds
    <3>2. nextStreamId \in Nat /\ nextStreamId' \in {nextStreamId, nextStreamId + 1}
      BY DEF ObjectShape
    <3> QED
      BY <3>1, <3>2 DEF Requests, ViewerOf
  <2> QED
    BY <2>1, <2>2
<1>4. IdsDiffer'
  BY <1>2 DEF Requests, IdsDiffer
<1>5. IdsEnough'
  <2>1. LetThrough \subseteq LetThrough' /\ LetThrough' \subseteq Viewers
    BY <1>1 DEF LetThrough
  <2>2. /\ Cardinality(LetThrough) <= Cardinality(LetThrough')
        /\ Cardinality(LetThrough) \in Nat /\ Cardinality(LetThrough') \in Nat
    BY <2>1, FS_Subset, FS_CardinalityType, TunnelAssumption
  <2>3. ASSUME viewer[v].pc \in Early, q.pc \notin Early
        PROVE  Cardinality(LetThrough') = Cardinality(LetThrough) + 1
    <3>1. LetThrough' = LetThrough \union {v} /\ v \notin LetThrough
      BY <1>1, <2>3 DEF LetThrough
    <3>2. IsFiniteSet(LetThrough)
      BY <2>1, FS_Subset, TunnelAssumption
    <3> QED
      BY <3>1, <3>2, FS_AddElement
  <2> QED
    BY <2>2, <2>3 DEF Requests, IdsEnough, ObjectShape
<1>6. StreamsAwaited'
  <2>1. ASSUME NEW id \in StreamIds, streams'[id] # None
        PROVE  /\ viewer'[streams'[id]].id = id
               /\ viewer'[streams'[id]].pc \in Under
               /\ viewer'[streams'[id]].result = None
    <3>1. streams'[id] = streams[id] /\ streams[id] \in Viewers
      BY <2>1 DEF ObjectShape
    <3>2. /\ viewer[streams[id]].id = id /\ viewer[streams[id]].pc \in Under
          /\ viewer[streams[id]].result = None
      BY <2>1, <3>1 DEF Requests, StreamsAwaited
    <3> QED
      BY <1>1, <3>1, <3>2
  <2> QED
    BY <2>1 DEF StreamsAwaited
<1>7. OwnAnswer'
  BY <1>1, <1>2 DEF Requests, OwnAnswer
<1>8. ResultsOpened'
  BY <1>1, <1>2 DEF Requests, ResultsOpened
<1> QED
  BY <1>1, <1>3, <1>4, <1>5, <1>6, <1>7, <1>8 DEF Requests

-----------------------------------------------------------------------------
(***************************************************************************)
(* Steps that leave requests and frames alone.                             *)
(***************************************************************************)
LEMMA RestStays ==
    ASSUME AgentShape, ObjectShape, Requests, Queues,
           UNCHANGED <<down, up, agent, session, viewer>>,
           \A k \in Agents : Connected(k) => Connected(k)'
    PROVE  AgentShape' /\ ObjectShape' /\ Requests' /\ Queues'
<1>1. AgentShape' /\ ObjectShape'
  BY DEF AgentShape, ObjectShape, agent, session
<1>2. Requests'
  BY RequestsKept DEF agent, session
<1>3. Queues'
  BY QueuesKept DEF agent, session
<1> QED
  BY <1>1, <1>2, <1>3

LEMMA RegistrySteps ==
    ASSUME IInv, CreateTunnel \/ Expire \/ DeleteTunnel
    PROVE  IInv'
<1>1. /\ UNCHANGED <<down, up, agent, session, viewer, conn, closer>>
      /\ \A k \in Agents : Connected(k) <=> Connected(k)'
  BY DEF CreateTunnel, Expire, DeleteTunnel, Connected
<1>2. AgentShape' /\ ObjectShape' /\ Requests' /\ Queues'
  BY <1>1, RestStays DEF IInv
<1>3. KvShape'
  BY <1>1 DEF IInv, KvShape, CreateTunnel, Expire, DeleteTunnel, ReadMetadata, Present
<1>4. WaitersAreTold'
  BY <1>1 DEF IInv, WaitersAreTold, Streams, session
<1>5. registry' = "connected" => registry = "connected"
  BY TunnelAssumption DEF CreateTunnel, Expire, DeleteTunnel, ReadMetadata, Present
<1>6. StatusShown'
  BY <1>1, <1>5 DEF IInv, StatusShown, session
<1> QED
  BY <1>2, <1>3, <1>4, <1>6 DEF IInv

LEMMA ConnectSteps ==
    ASSUME IInv, NEW k \in Agents, Connect(k) \/ ConnectStatus(k)
    PROVE  IInv'
<1>1. /\ UNCHANGED <<down, up, agent, session, viewer, closer, creator, runKey, expired, deleter>>
      /\ \E pc \in {"refused", "metadata", "status", "put", "attach"} :
           /\ conn' = [conn EXCEPT ![k] = pc]
           /\ registry' = "connected" => registry = "connected" \/ pc = "attach"
           /\ conn[k] \in {"refused", "attach"} => pc \in {"refused", "attach"}
      /\ conn[k] \in {"none", "metadata", "status", "put", "attach"}
      /\ registry' \in {registry, None, "connected"}
  <2>1. CASE Connect(k)
    BY <2>1 DEF Connect, Goto, kv
  <2>2. CASE ConnectStatus(k)
    BY <2>2, TunnelAssumption DEF ConnectStatus, Goto, ReadMetadata, Present
  <2> QED
    BY <2>1, <2>2
<1>2. PICK pc \in {"refused", "metadata", "status", "put", "attach"} :
           /\ conn' = [conn EXCEPT ![k] = pc]
           /\ registry' = "connected" => registry = "connected" \/ pc = "attach"
           /\ conn[k] \in {"refused", "attach"} => pc \in {"refused", "attach"}
  BY <1>1
<1>3. /\ conn' \in ConnType /\ conn'[k] = pc
      /\ \A j \in Agents \ {k} : conn'[j] = conn[j]
  BY <1>2 DEF ConnType, IInv, KvShape
<1>4. \A j \in Agents : Connected(j) => Connected(j)'
  BY <1>1, <1>3 DEF Connected
<1>5. AgentShape' /\ ObjectShape' /\ Requests' /\ Queues'
  BY <1>1, <1>4, RestStays DEF IInv
<1>6. KvShape'
  BY <1>1, <1>3 DEF IInv, KvShape
<1>7. WaitersAreTold'
  BY <1>1 DEF IInv, WaitersAreTold, Streams, session
<1>8. StatusShown'
  BY <1>1, <1>2, <1>3 DEF IInv, StatusShown, session
<1> QED
  BY <1>5, <1>6, <1>7, <1>8 DEF IInv

LEMMA AttachStep ==
    ASSUME IInv, NEW k \in Agents, Attach(k)
    PROVE  IInv'
<1>1. /\ conn' \in ConnType
      /\ conn'[k] = "open" /\ conn[k] = "attach"
      /\ \A j \in Agents \ {k} : conn'[j] \in {"closing", conn[j]} /\ (Connected(j) <=> Connected(j)')
  BY DEF Attach, IInv, KvShape, ConnType, Connected
<1>2. \A j \in Agents : Connected(j) => Connected(j)'
  BY <1>1 DEF Connected
<1>3. UNCHANGED <<down, up, agent, streams, nextStreamId, lives, viewer, kv, closer>> /\ runner' = k
  BY DEF Attach
<1>4. ~Connected(k)
  BY <1>1 DEF Connected
<1>5. AgentShape' /\ ObjectShape' /\ Requests'
  BY <1>3, RequestsKept DEF IInv, AgentShape, ObjectShape, agent
<1>6. Queues'
  BY <1>2, <1>3, <1>4, QueuesKept DEF agent, IInv
<1>7. KvShape'
  BY <1>1, <1>3 DEF IInv, KvShape, kv
<1>8. WaitersAreTold' /\ StatusShown'
  BY <1>3, TunnelAssumption DEF WaitersAreTold, StatusShown
<1> QED
  BY <1>5, <1>6, <1>7, <1>8 DEF IInv

LEMMA CloseStatusStep ==
    ASSUME IInv, NEW k \in Agents, CloseStatus(k)
    PROVE  IInv'
<1>1. /\ UNCHANGED <<down, up, agent, session, viewer, conn, creator, runKey, expired, deleter>>
      /\ closer[k] \in {"read", "put"}
      /\ \E pc \in {"put", "clear", "failed"} :
           /\ closer' = [closer EXCEPT ![k] = pc]
           /\ pc = "clear" => registry' # "connected"
      /\ registry' = "connected" => registry = "connected"
      /\ registry' \in {registry, None, "disconnected"}
  BY TunnelAssumption DEF CloseStatus, ReadMetadata, Present
<1>2. PICK pc \in {"put", "clear", "failed"} :
           /\ closer' = [closer EXCEPT ![k] = pc]
           /\ pc = "clear" => registry' # "connected"
  BY <1>1
<1>3. /\ closer' \in CloserType /\ closer'[k] = pc
      /\ \A j \in Agents \ {k} : closer'[j] = closer[j]
  BY <1>2 DEF CloserType, IInv, KvShape
<1>4. \A j \in Agents : Connected(j) <=> Connected(j)'
  BY <1>1 DEF Connected
<1>5. AgentShape' /\ ObjectShape' /\ Requests' /\ Queues'
  BY <1>1, <1>4, RestStays DEF IInv
<1>6. KvShape'
  BY <1>1, <1>3 DEF IInv, KvShape
<1>7. WaitersAreTold'
  BY <1>1, <1>3 DEF IInv, WaitersAreTold, Streams, session
<1>8. StatusShown'
  BY <1>1, <1>2, <1>3 DEF IInv, StatusShown, session
<1> QED
  BY <1>5, <1>6, <1>7, <1>8 DEF IInv

LEMMA WebSocketCloseStep ==
    ASSUME IInv, NEW k \in Agents, WebSocketClose(k)
    PROVE  IInv'
<1>1. /\ UNCHANGED <<kv, down, up, agent, streams, nextStreamId, lives, viewer>>
      /\ conn[k] = "ended" /\ conn' = [conn EXCEPT ![k] = "closed"]
      /\ runner' = None
      /\ \E pc \in {"read", "clear"} :
           /\ closer' = [closer EXCEPT ![k] = pc]
           /\ pc = "clear" => lives > 0
  BY DEF WebSocketClose, Goto
<1>2. PICK pc \in {"read", "clear"} :
           /\ closer' = [closer EXCEPT ![k] = pc]
           /\ pc = "clear" => lives > 0
  BY <1>1
<1>3. /\ closer' \in CloserType /\ closer'[k] = pc
  BY <1>2 DEF CloserType, IInv, KvShape
<1>4. /\ conn' \in ConnType
      /\ \A j \in Agents : Connected(j) <=> Connected(j)'
  BY <1>1 DEF Connected, ConnType, IInv, KvShape
<1>5. AgentShape' /\ ObjectShape' /\ Requests'
  BY <1>1, RequestsKept DEF IInv, AgentShape, ObjectShape, agent
<1>6. Queues'
  BY <1>1, <1>4, QueuesKept DEF agent, IInv
<1>7. KvShape'
  BY <1>1, <1>3, <1>4 DEF IInv, KvShape, kv
<1>8. WaitersAreTold' /\ StatusShown'
  BY <1>1, <1>2, <1>3 DEF WaitersAreTold, StatusShown
<1> QED
  BY <1>5, <1>6, <1>7, <1>8 DEF IInv

LEMMA HibernateStep ==
    ASSUME IInv, Hibernate
    PROVE  IInv'
<1>1. /\ UNCHANGED <<kv, conn, down, up, agent, streams, closer, viewer>>
      /\ lives' = lives + 1 /\ lives' \in 0..MaxLives /\ nextStreamId' = 1
      /\ lives \in 0..MaxLives
      /\ runner' \in Agents \union {None}
      /\ \A v \in Viewers : viewer[v].pc \notin Under
  BY TunnelAssumption DEF Hibernate, IInv, ObjectShape, Under, Sending
<1>2. Streams = {} /\ Streams' = {}
  BY <1>1 DEF Streams, IInv, Requests, StreamsAwaited, ObjectShape
<1>3. AgentShape' /\ ObjectShape' /\ KvShape'
  BY <1>1 DEF IInv, AgentShape, ObjectShape, KvShape, agent, kv
<1>4. Requests'
  <2>1. \A v \in Viewers : viewer[v].life \in Nat /\ viewer[v].life <= lives
    BY DEF IInv, Requests, ViewerOf, ObjectShape, ViewerRecord
  <2>2. \A v \in Viewers : ViewerOf(v)'
    BY <1>1, <2>1 DEF IInv, Requests, ViewerOf, agent, Under
  <2>3. IdsEnough'
    <3>1. LetThrough' \subseteq Viewers
      BY DEF LetThrough
    <3>2. Cardinality(LetThrough') \in Nat
      BY <3>1, FS_Subset, FS_CardinalityType, TunnelAssumption
    <3> QED
      BY <1>1, <3>2 DEF IdsEnough
  <2>4. StreamsAwaited'
    BY <1>2 DEF StreamsAwaited, Streams
  <2>5. IdsDiffer' /\ ResultsOpened' /\ OwnAnswer'
    BY <1>1 DEF IInv, Requests, IdsDiffer, ResultsOpened, OwnAnswer
  <2> QED
    BY <2>2, <2>3, <2>4, <2>5 DEF Requests
<1>5. Queues'
  <2>1. \A k \in Agents : Connected(k) => Connected(k)'
    BY <1>1 DEF Connected
  <2> QED
    BY <1>1, <2>1, QueuesKept DEF agent, IInv, Under
<1>6. WaitersAreTold' /\ StatusShown'
  BY <1>1, <1>2 DEF WaitersAreTold, StatusShown
<1> QED
  BY <1>3, <1>4, <1>5, <1>6 DEF IInv

-----------------------------------------------------------------------------
(***************************************************************************)
(* Steps of requests that send nothing.                                    *)
(***************************************************************************)
LEMMA MovesOn ==
    ASSUME IInv, NEW v \in Viewers, NEW q \in ViewerRecord,
           viewer' = [viewer EXCEPT ![v] = q],
           UNCHANGED <<conn, closer, down, up, agent, runner, lives, creator, runKey, expired, deleter>>,
           registry' \in {registry, None},
           \/ nextStreamId' = nextStreamId
           \/ nextStreamId' = nextStreamId + 1 /\ viewer[v].pc \in Early /\ q.pc \notin Early,
           q.id = viewer[v].id, q.life = viewer[v].life,
           q.pc \in Early => viewer[v].pc \in Early /\ q.result = None,
           q.pc \in Under => viewer[v].pc \in Under,
           q.pc \in Sending => q.pc = viewer[v].pc,
           q.result # None => q.result = viewer[v].result \/ q.result.of = None,
           streams' \in [StreamIds -> Viewers \union {None}],
           \A id \in StreamIds : streams'[id] \in {streams[id], None},
           \A id \in StreamIds : streams'[id] = v => q.pc \in Under /\ q.result = None
    PROVE  IInv'
<1>1. Requests' /\ viewer' \in [Viewers -> ViewerRecord]
  BY RequestMoves DEF IInv, agent
<1>2. ObjectShape' /\ AgentShape'
  BY <1>1 DEF IInv, ObjectShape, AgentShape, agent
<1>3. /\ viewer'[v] = q
      /\ \A u \in Viewers \ {v} : viewer'[u] = viewer[u]
  BY DEF IInv, ObjectShape
<1>4. \A k \in Agents : Connected(k) => Connected(k)'
  BY DEF Connected
<1>5. Queues'
  BY <1>3, <1>4, QueuesKept DEF IInv, agent
<1>6. KvShape'
  BY DEF IInv, KvShape
<1>7. Streams' \subseteq Streams
  BY DEF Streams
<1>8. WaitersAreTold'
  BY <1>7 DEF IInv, WaitersAreTold
<1>9. StatusShown'
  BY TunnelAssumption DEF IInv, StatusShown
<1> QED
  BY <1>1, <1>2, <1>5, <1>6, <1>8, <1>9 DEF IInv

\* A request is answered before anything came back for it.
LEMMA AnswerMoves ==
    ASSUME ObjectShape, NEW v \in Viewers, NEW what,
           what \in {"not found", "offline", "expired", "busy", "send failed"},
           Answer(v, Says(what))
    PROVE  \E q \in ViewerRecord :
               /\ viewer' = [viewer EXCEPT ![v] = q]
               /\ q.id = viewer[v].id /\ q.life = viewer[v].life
               /\ q.pc = "answered" /\ q.result.of = None
<1>1. PICK r : r = Says(what)
  OBVIOUS
<1>2. r \in Results /\ r.of = None
  BY <1>1 DEF Says, Results
<1>3. PICK q : q = [viewer[v] EXCEPT !.pc = "answered", !.result = r]
  OBVIOUS
<1>4. /\ q \in ViewerRecord /\ q.id = viewer[v].id /\ q.life = viewer[v].life
      /\ q.pc = "answered" /\ q.result = r
  BY <1>2, <1>3 DEF ViewerRecord, ObjectShape
<1>5. viewer' = [viewer EXCEPT ![v] = q]
  BY <1>1, <1>3 DEF Answer
<1> QED
  BY <1>2, <1>4, <1>5

LEMMA RequestStep ==
    ASSUME IInv, NEW v \in Viewers, Request(v) \/ ViewerMetadata(v)
    PROVE  IInv'
<1>1. UNCHANGED <<conn, closer, down, up, agent, session, creator, runKey, expired, deleter>>
  BY DEF Request, ViewerMetadata, kv
<1>2. registry' \in {registry, None}
  BY DEF Request, ViewerMetadata, kv, ReadMetadata
<1>3. viewer[v] \in ViewerRecord /\ viewer[v].pc \in Early /\ viewer[v].result = None
  BY DEF Request, ViewerMetadata, IInv, ObjectShape, Requests, ViewerOf, Early
<1>4. \A id \in StreamIds : streams[id] # v
  BY <1>3, TunnelAssumption DEF IInv, Requests, StreamsAwaited, ObjectShape, Early, Under, Sending
<1>5. \/ \E pc \in {"metadata", "fetch"} : viewer' = [viewer EXCEPT ![v].pc = pc]
      \/ Answer(v, Says("not found"))
  BY DEF Request, ViewerMetadata
<1>6. PICK q : /\ viewer' = [viewer EXCEPT ![v] = q] /\ q \in ViewerRecord
               /\ q.id = viewer[v].id /\ q.life = viewer[v].life
               /\ \/ q.pc \in {"metadata", "fetch"} /\ q.result = None
                  \/ q.pc = "answered" /\ q.result.of = None
  <2>1. ASSUME NEW pc \in {"metadata", "fetch"}, viewer' = [viewer EXCEPT ![v].pc = pc]
        PROVE  \E q : /\ viewer' = [viewer EXCEPT ![v] = q] /\ q \in ViewerRecord
                      /\ q.id = viewer[v].id /\ q.life = viewer[v].life
                      /\ q.pc \in {"metadata", "fetch"} /\ q.result = None
    <3>1. PICK q : q = [viewer[v] EXCEPT !.pc = pc]
      OBVIOUS
    <3>2. /\ q \in ViewerRecord /\ q.id = viewer[v].id /\ q.life = viewer[v].life
          /\ q.pc = pc /\ q.result = None
      BY <1>3, <3>1 DEF ViewerRecord, Early
    <3>3. viewer' = [viewer EXCEPT ![v] = q]
      BY <2>1, <3>1
    <3> QED
      BY <3>2, <3>3
  <2>2. ASSUME Answer(v, Says("not found"))
        PROVE  \E q : /\ viewer' = [viewer EXCEPT ![v] = q] /\ q \in ViewerRecord
                      /\ q.id = viewer[v].id /\ q.life = viewer[v].life
                      /\ q.pc = "answered" /\ q.result.of = None
    BY <2>2, AnswerMoves DEF IInv
  <2> QED
    BY <1>5, <2>1, <2>2
<1>7. q.pc \notin Under
  BY <1>6 DEF Under, Sending
<1> QED
  BY <1>1, <1>2, <1>3, <1>4, <1>6, <1>7, MovesOn DEF session, IInv, ObjectShape, Under, Early

LEMMA AwaitResponseStep ==
    ASSUME IInv, NEW v \in Viewers, AwaitResponse(v)
    PROVE  IInv'
<1>1. UNCHANGED <<kv, conn, closer, down, up, agent, session>>
  BY DEF AwaitResponse
<1>2. viewer[v] \in ViewerRecord /\ viewer[v].result # None /\ viewer[v].pc = "waiting"
  BY DEF AwaitResponse, IInv, ObjectShape
<1>3. \A id \in StreamIds : streams[id] # v
  BY <1>2, TunnelAssumption DEF IInv, Requests, StreamsAwaited
<1>4. PICK q : q = [viewer[v] EXCEPT !.pc = "answered"]
  OBVIOUS
<1>5. /\ q \in ViewerRecord /\ q.id = viewer[v].id /\ q.life = viewer[v].life
      /\ q.pc = "answered" /\ q.result = viewer[v].result
  BY <1>2, <1>4 DEF ViewerRecord
<1>6. viewer' = [viewer EXCEPT ![v] = q]
  BY <1>4 DEF AwaitResponse
<1> QED
  BY <1>1, <1>3, <1>5, <1>6, MovesOn DEF session, kv, IInv, ObjectShape, Under, Sending, Early

-----------------------------------------------------------------------------
(***************************************************************************)
(* Steps that settle what requests wait for.                               *)
(***************************************************************************)
LEMMA PromisesSettled ==
    ASSUME IInv, NEW ids \in SUBSET StreamIds, NEW result \in Results,
           Settle(ids, result),
           UNCHANGED <<kv, conn, down, agent, runner, nextStreamId, lives>>,
           up' \in [Agents -> Seq(Frames)],
           \A k \in Agents : \A i \in DOMAIN up'[k] : \E j \in DOMAIN up[k] : up'[k][i] = up[k][j],
           closer' \in CloserType,
           closer' = closer \/ ids = Streams,
           \A k \in Agents : closer[k] \in {"read", "put", "failed"} => closer'[k] = closer[k],
           result.of # None => viewer[result.of].id # 0,
           \A id \in ids : streams[id] # None =>
              \/ result.of \in {streams[id], None}
              \/ viewer[result.of].life < viewer[streams[id]].life
    PROVE  IInv'
<1>1. /\ Requests'
      /\ streams' \in [StreamIds -> Viewers \union {None}]
      /\ viewer' \in [Viewers -> ViewerRecord]
      /\ \A v \in Viewers : viewer'[v].pc = viewer[v].pc /\ viewer'[v].id = viewer[v].id
      /\ Streams' = Streams \ ids
  BY Settles DEF IInv, agent
<1>2. ObjectShape' /\ AgentShape'
  BY <1>1 DEF IInv, ObjectShape, AgentShape, agent
<1>3. \A k \in Agents : Connected(k) => Connected(k)'
  BY DEF Connected
<1>4. Queues'
  BY <1>1, <1>3, QueuesKept DEF IInv, agent
<1>5. KvShape'
  BY DEF IInv, KvShape, kv
<1>6. WaitersAreTold'
  BY <1>1 DEF IInv, WaitersAreTold
<1>7. StatusShown'
  BY DEF IInv, StatusShown, kv
<1> QED
  BY <1>1, <1>2, <1>4, <1>5, <1>6, <1>7 DEF IInv

LEMMA TimeoutStep ==
    ASSUME IInv, NEW v \in Viewers, Timeout(v)
    PROVE  IInv'
<1>1. PICK id \in StreamIds : Settle({id}, Says("timeout"))
  BY DEF Timeout
<1>2. PICK r : r = Says("timeout")
  OBVIOUS
<1>3. r \in Results /\ r.of = None
  BY <1>2 DEF Says, Results
<1>4. UNCHANGED <<kv, conn, down, up, agent, runner, nextStreamId, lives, closer>>
  BY DEF Timeout
<1>5. PICK ids : ids = {id}
  OBVIOUS
<1>6. Settle(ids, r) /\ ids \in SUBSET StreamIds
  BY <1>1, <1>2, <1>5
<1> QED
  BY <1>3, <1>4, <1>6, PromisesSettled DEF IInv, AgentShape, KvShape

LEMMA CloseStreamsStep ==
    ASSUME IInv, NEW k \in Agents, CloseStreams(k)
    PROVE  IInv'
<1>1. PICK r : r = Says("disconnected")
  OBVIOUS
<1>2. r \in Results /\ r.of = None
  BY <1>1 DEF Says, Results
<1>3. UNCHANGED <<kv, conn, down, up, agent, runner, nextStreamId, lives>>
  BY DEF CloseStreams
<1>4. closer' = [closer EXCEPT ![k] = "done"] /\ closer[k] = "clear"
  BY DEF CloseStreams
<1>5. PICK ids : ids = Streams
  OBVIOUS
<1>6. Settle(ids, r) /\ ids \in SUBSET StreamIds
  BY <1>1, <1>5 DEF CloseStreams, Streams
<1>7. /\ closer' \in CloserType
      /\ \A j \in Agents : closer[j] \in {"read", "put", "failed"} => closer'[j] = closer[j]
  BY <1>4 DEF IInv, KvShape, CloserType
<1> QED
  BY <1>2, <1>3, <1>5, <1>6, <1>7, PromisesSettled DEF IInv, AgentShape

LEMMA WebSocketMessageStep ==
    ASSUME IInv, NEW k \in Agents, WebSocketMessage(k)
    PROVE  IInv'
<1>1. UNCHANGED <<kv, conn, down, agent, runner, nextStreamId, lives, closer>>
  BY DEF WebSocketMessage
<1>2. up[k] # <<>> /\ up[k] \in Seq(Frames) /\ up' = [up EXCEPT ![k] = Tail(@)]
  BY DEF WebSocketMessage, IInv, AgentShape
<1>3. PICK f : f = Head(up[k])
  OBVIOUS
<1>4. f = up[k][1] /\ 1 \in DOMAIN up[k] /\ f \in Frames
  BY <1>2, <1>3
<1>5. f.type \in {"response", "error"} /\ viewer[f.of].id = f.id
  BY <1>4 DEF IInv, Queues, HeldOf, Had
<1>6. f.id \in StreamIds /\ f.of \in Viewers
  BY <1>4 DEF Frames
<1>7. PICK r : r = [what |-> f.type, of |-> f.of]
  OBVIOUS
<1>8. r \in Results /\ r.of = f.of
  BY <1>5, <1>6, <1>7 DEF Results
<1>9. PICK ids : ids = {f.id}
  OBVIOUS
<1>10. Settle(ids, r) /\ ids \in SUBSET StreamIds
  BY <1>3, <1>6, <1>7, <1>9 DEF WebSocketMessage
<1>11. f.id # 0
  BY <1>6 DEF StreamIds
<1>12. \A id \in ids : streams[id] # None =>
              \/ r.of \in {streams[id], None}
              \/ viewer[r.of].life < viewer[streams[id]].life
  <2> SUFFICES ASSUME streams[f.id] # None
               PROVE  f.of = streams[f.id] \/ viewer[f.of].life < viewer[streams[f.id]].life
    BY <1>8, <1>9
  <2>1. streams[f.id] \in Viewers
    BY <1>6 DEF IInv, ObjectShape
  <2>2. viewer[streams[f.id]].id = f.id /\ viewer[streams[f.id]].pc \in Under
    BY <1>6 DEF IInv, Requests, StreamsAwaited
  <2>3. viewer[streams[f.id]].life = lives /\ viewer[f.of].life <= lives
    BY <1>6, <2>1, <2>2 DEF IInv, Requests, ViewerOf
  <2>4. viewer[f.of].life \in Nat /\ lives \in Nat
    BY <1>6 DEF IInv, ObjectShape, ViewerRecord
  <2> QED
    BY <1>5, <1>6, <1>11, <2>1, <2>2, <2>3, <2>4 DEF IInv, Requests, IdsDiffer
<1>13. /\ up' \in [Agents -> Seq(Frames)]
       /\ \A l \in Agents : \A i \in DOMAIN up'[l] : \E j \in DOMAIN up[l] : up'[l][i] = up[l][j]
  <2>1. up \in [Agents -> Seq(Frames)] /\ \A l \in Agents \ {k} : up'[l] = up[l]
    BY <1>2 DEF IInv, AgentShape
  <2>2. up'[k] = Tail(up[k]) /\ Tail(up[k]) \in Seq(Frames)
    BY <1>2, <2>1
  <2>3. \A i \in DOMAIN Tail(up[k]) : i + 1 \in DOMAIN up[k] /\ Tail(up[k])[i] = up[k][i + 1]
    BY <1>2
  <2>4. up' \in [Agents -> Seq(Frames)]
    BY <1>2, <2>1, <2>2
  <2> QED
    BY <2>1, <2>2, <2>3, <2>4
<1> QED
  BY <1>1, <1>5, <1>8, <1>10, <1>11, <1>12, <1>13, PromisesSettled DEF IInv, KvShape

-----------------------------------------------------------------------------
(***************************************************************************)
(* Steps of an agent.                                                      *)
(***************************************************************************)

\* What a step does to the connection of one agent only.
LEMMA OthersStay ==
    ASSUME NEW k \in Agents, NEW l \in Agents, l # k, HeldOf(l), QueueOf(l),
           UNCHANGED <<viewer, conn[l], down[l], up[l], heads[l], bodies[l], tasks[l]>>
    PROVE  HeldOf(l)' /\ QueueOf(l)' /\ \A n, g : Follows(l, n, g) => Follows(l, n, g)'
<1>1. HeldOf(l)'
  BY DEF HeldOf, Had, Connected, NoHeads
<1>2. ASSUME NEW n, NEW g, Follows(l, n, g) PROVE Follows(l, n, g)'
  <2>1. AtAgent(l, g) => AtAgent(l, g)'
    BY DEF AtAgent
  <2>2. CASE \E j \in 1..n : /\ Continues(down[l][j], g)
                             /\ \A m \in j + 1..n : down[l][m].id # g.id
    BY <2>2 DEF Follows, Continues
  <2>3. CASE (\A j \in 1..n : down[l][j].id # g.id) /\ AtAgent(l, g)
    BY <2>1, <2>3 DEF Follows
  <2> QED
    BY <1>2, <2>2, <2>3 DEF Follows
<1>3. QueueOf(l)'
  BY <1>2 DEF QueueOf
<1> QED
  BY <1>1, <1>2, <1>3

LEMMA AgentEndsStep ==
    ASSUME IInv, NEW k \in Agents, AgentEnds(k)
    PROVE  IInv'
<1>1. /\ Connected(k) /\ conn' = [conn EXCEPT ![k] = "ended"]
      /\ down' = [down EXCEPT ![k] = <<>>]
      /\ up' = up \/ up' = [up EXCEPT ![k] = <<>>]
      /\ heads' = [heads EXCEPT ![k] = NoHeads]
      /\ bodies' = [bodies EXCEPT ![k] = NoBodies]
      /\ tasks' = [tasks EXCEPT ![k] = {}]
      /\ UNCHANGED <<kv, served, session, closer, viewer>>
  BY DEF AgentEnds, Goto
<1>2. AgentShape /\ ObjectShape /\ KvShape /\ Requests /\ Queues
  BY DEF IInv
<1>3. /\ conn' \in ConnType /\ conn'[k] = "ended"
      /\ \A l \in Agents \ {k} : conn'[l] = conn[l]
  BY <1>1, <1>2 DEF KvShape, ConnType
<1>4. NoHeads \in [StreamIds -> Viewers \union {None}] /\ NoBodies \in [StreamIds -> SUBSET Viewers]
  BY DEF NoHeads, NoBodies
<1>5. /\ down' \in [Agents -> Seq(Frames)] /\ down'[k] = <<>>
      /\ \A l \in Agents \ {k} : down'[l] = down[l]
  BY <1>1, <1>2 DEF AgentShape
<1>6. /\ up' \in [Agents -> Seq(Frames)] /\ up'[k] \in {up[k], <<>>}
      /\ \A l \in Agents \ {k} : up'[l] = up[l]
  <2>1. <<>> \in Seq(Frames)
    OBVIOUS
  <2> QED
    BY <1>1, <1>2, <2>1 DEF AgentShape
<1>7. /\ heads' \in [Agents -> [StreamIds -> Viewers \union {None}]] /\ heads'[k] = NoHeads
      /\ bodies' \in [Agents -> [StreamIds -> SUBSET Viewers]]
      /\ \A l \in Agents \ {k} : heads'[l] = heads[l] /\ bodies'[l] = bodies[l]
  BY <1>1, <1>2, <1>4 DEF AgentShape
<1>8. /\ tasks' \in [Agents -> SUBSET Tasks] /\ tasks'[k] = {}
      /\ \A l \in Agents \ {k} : tasks'[l] = tasks[l]
  BY <1>1, <1>2 DEF AgentShape
<1>9. AgentShape' /\ ObjectShape' /\ KvShape' /\ Requests'
  <2>1. AgentShape'
    BY <1>1, <1>2, <1>5, <1>6, <1>7, <1>8 DEF AgentShape
  <2>2. ObjectShape' /\ KvShape'
    BY <1>1, <1>2, <1>3 DEF ObjectShape, KvShape, kv, session
  <2>3. Requests'
    BY <1>1, <1>2, RequestsKept DEF session
  <2> QED
    BY <2>1, <2>2, <2>3
<1>10. \A l \in Agents \ {k} : HeldOf(l)' /\ QueueOf(l)'
  BY <1>1, <1>2, <1>3, <1>5, <1>6, <1>7, <1>8, OthersStay DEF Queues
<1>11. HeldOf(k)' /\ QueueOf(k)'
  <2>1. \A i \in DOMAIN up'[k] : up'[k] = up[k]
    BY <1>6
  <2> QED
    BY <1>1, <1>2, <1>5, <1>7, <1>8, <2>1 DEF HeldOf, QueueOf, Queues, Had, NoHeads
<1>12. Expected'
  <2>1. runner' = runner /\ viewer' = viewer
    BY <1>1 DEF session
  <2>2. CASE runner = k
    <3>1. ASSUME NEW v \in Viewers, viewer[v].pc \in Sending
          PROVE  Rest(v).id \in StreamIds /\ Rest(v)' = Rest(v)
      BY <1>1, <1>2, <3>1 DEF Rest, Frame, Requests, ViewerOf, ObjectShape, ViewerRecord, Under
    <3> QED
      BY <1>5, <1>7, <2>1, <2>2, <3>1 DEF Expected, Follows, AtAgent, NoHeads
  <2>3. ASSUME NEW l \in Agents \ {k} PROVE \A n, g : Follows(l, n, g) => Follows(l, n, g)'
    BY <1>1, <1>2, <1>3, <1>5, <1>6, <1>7, <1>8, OthersStay DEF Queues
  <2>4. CASE runner # k
    <3>1. \A v \in Viewers : Rest(v)' = Rest(v)
      BY <2>1 DEF Rest
    <3>2. runner # None => runner \in Agents \ {k}
      BY <1>2, <2>4 DEF ObjectShape
    <3> QED
      BY <1>2, <1>5, <2>1, <2>3, <3>1, <3>2 DEF Expected, Queues
  <2> QED
    BY <2>2, <2>4
<1>13. \A l \in Agents : \A i \in DOMAIN down'[l] : i \in DOMAIN down[l] /\ down'[l][i] = down[l][i]
  BY <1>5
<1>14. FramesOnce'
  BY <1>2, <1>13 DEF FramesOnce, Queues
<1>15. ServedOf'
  BY <1>1, <1>2, <1>13 DEF ServedOf, FrameCount, Queues
<1>16. WaitersAreTold' /\ StatusShown'
  BY <1>1, <1>3 DEF IInv, WaitersAreTold, StatusShown, Streams, session, kv, Connected
<1> QED
  BY <1>9, <1>10, <1>11, <1>12, <1>14, <1>15, <1>16 DEF IInv, Queues

LEMMA LocalAnswerStep ==
    ASSUME IInv, NEW k \in Agents, LocalAnswer(k)
    PROVE  IInv'
<1>1. PICK t \in tasks[k], type \in {"response", "error"} :
         /\ tasks' = [tasks EXCEPT ![k] = @ \ {t}]
         /\ SendUp(k, Frame(type, t.id, t.of))
         /\ heads' = [heads EXCEPT ![k][t.id] = None]
         /\ bodies' = [bodies EXCEPT ![k][t.id] = {}]
  BY DEF LocalAnswer
<1>2. Connected(k) /\ UNCHANGED <<kv, conn, down, served, session, closer, viewer>>
  BY DEF LocalAnswer
<1>3. AgentShape /\ ObjectShape /\ KvShape /\ Requests /\ Queues
  BY DEF IInv
<1>4. t.id \in StreamIds /\ t.of \in Viewers /\ viewer[t.of].id = t.id
  BY <1>3 DEF AgentShape, Tasks, Queues, HeldOf, Had
<1>5. PICK f : f = Frame(type, t.id, t.of)
  OBVIOUS
<1>6. f \in Frames /\ f.type \in {"response", "error"} /\ f.id = t.id /\ f.of = t.of
  BY <1>4, <1>5 DEF Frame, Frames
<1>7. /\ up' \in [Agents -> Seq(Frames)] /\ up'[k] = Append(up[k], f)
      /\ \A l \in Agents \ {k} : up'[l] = up[l]
  BY <1>1, <1>3, <1>5, <1>6 DEF AgentShape, SendUp
<1>8. \A i \in DOMAIN up'[k] : (i \in DOMAIN up[k] /\ up'[k][i] = up[k][i]) \/ up'[k][i] = f
  BY <1>3, <1>6, <1>7 DEF AgentShape
<1>9. /\ heads' \in [Agents -> [StreamIds -> Viewers \union {None}]]
      /\ bodies' \in [Agents -> [StreamIds -> SUBSET Viewers]]
      /\ heads'[k][t.id] = None
      /\ \A id \in StreamIds \ {t.id} : heads'[k][id] = heads[k][id] /\ bodies'[k][id] = bodies[k][id]
      /\ \A l \in Agents \ {k} : heads'[l] = heads[l] /\ bodies'[l] = bodies[l]
  BY <1>1, <1>3, <1>4 DEF AgentShape
<1>10. /\ tasks' \in [Agents -> SUBSET Tasks] /\ tasks'[k] \subseteq tasks[k]
       /\ \A l \in Agents \ {k} : tasks'[l] = tasks[l]
  BY <1>1, <1>3 DEF AgentShape
<1>11. AgentShape' /\ ObjectShape' /\ KvShape' /\ Requests'
  <2>1. AgentShape'
    BY <1>2, <1>3, <1>7, <1>9, <1>10 DEF AgentShape
  <2>2. ObjectShape' /\ KvShape'
    BY <1>2, <1>3 DEF ObjectShape, KvShape, kv, session
  <2>3. Requests'
    BY <1>2, <1>3, RequestsKept DEF session
  <2> QED
    BY <2>1, <2>2, <2>3
<1>12. ASSUME NEW l \in Agents, NEW n, NEW g, g.id \in StreamIds, Follows(l, n, g)
       PROVE  Follows(l, n, g)'
  <2>1. AtAgent(l, g) => AtAgent(l, g)'
    <3>1. CASE l # k
      BY <1>9, <3>1 DEF AtAgent
    <3>2. CASE l = k /\ g.id = t.id
      BY <1>9, <3>2 DEF AtAgent
    <3>3. CASE l = k /\ g.id # t.id
      BY <1>9, <1>12, <3>3 DEF AtAgent
    <3> QED
      BY <3>1, <3>2, <3>3
  <2>2. down' = down
    BY <1>2
  <2> QED
    BY <1>12, <2>1, <2>2 DEF Follows, Continues
<1>13. \A l \in Agents : QueueOf(l)'
  <2>1. \A l \in Agents : \A i \in DOMAIN down[l] : down[l][i].id \in StreamIds
    BY <1>3, FrameTypes
  <2> QED
    BY <1>2, <1>3, <1>12, <2>1 DEF Queues, QueueOf
<1>14. Expected'
  <2>1. runner' = runner /\ viewer' = viewer /\ down' = down
    BY <1>2 DEF session
  <2>2. ASSUME NEW v \in Viewers, viewer[v].pc \in Sending
        PROVE  Rest(v).id \in StreamIds /\ Rest(v)' = Rest(v)
    BY <1>3, <2>1, <2>2 DEF Rest, Frame, Requests, ViewerOf, ObjectShape, ViewerRecord, Under
  <2>3. runner # None => runner \in Agents
    BY <1>3 DEF ObjectShape
  <2> QED
    BY <1>3, <1>12, <2>1, <2>2, <2>3 DEF Expected, Queues
<1>15. FramesOnce' /\ ServedOf'
  BY <1>2, <1>3 DEF FramesOnce, ServedOf, FrameCount, Queues
<1>16. ASSUME NEW l \in Agents PROVE HeldOf(l)'
  <2>1. HeldOf(l)
    BY <1>3 DEF Queues
  <2>2. \A i \in DOMAIN up'[l] : up'[l][i].type \in {"response", "error"}
                                 /\ viewer[up'[l][i].of].id = up'[l][i].id
    BY <1>4, <1>6, <1>7, <1>8, <2>1 DEF HeldOf, Had
  <2>3. \A id \in StreamIds : heads'[l][id] # None => viewer[heads'[l][id]].id = id
    BY <1>9, <2>1 DEF HeldOf, Had
  <2>4. \A u \in tasks'[l] : u \in tasks[l]
    BY <1>10
  <2>5. ~Connected(l) => l # k
    BY <1>2
  <2> QED
    BY <1>2, <1>9, <1>10, <2>1, <2>2, <2>3, <2>4, <2>5 DEF HeldOf, Had, Connected, NoHeads
<1>17. WaitersAreTold' /\ StatusShown'
  BY <1>2 DEF IInv, WaitersAreTold, StatusShown, Streams, session, kv
<1> QED
  BY <1>11, <1>13, <1>14, <1>15, <1>16, <1>17 DEF IInv, Queues

\* An agent takes the first frame f, which leaves it with the heads H and the
\* bodies B; the requests s, none or that of the frame, are forwarded.
LEMMA TakesFrame ==
    ASSUME IInv, NEW k \in Agents, NEW f, NEW H \in [StreamIds -> Viewers \union {None}],
           NEW B \in [StreamIds -> SUBSET Viewers], NEW s \in SUBSET Viewers,
           Connected(k), down[k] # <<>>, f = Head(down[k]),
           down' = [down EXCEPT ![k] = Tail(@)],
           heads' = [heads EXCEPT ![k] = H], bodies' = [bodies EXCEPT ![k] = B],
           UNCHANGED <<kv, conn, session, closer, viewer>>,
           \A id \in StreamIds \ {f.id} : H[id] = heads[k][id] /\ B[id] = bodies[k][id],
           H[f.id] \in {heads[k][f.id], f.of},
           \A g : Continues(f, g) =>
              \/ H[g.id] = None
              \/ /\ H[g.id] = g.of
                 /\ B[g.id] = IF g.type = "req_last" THEN {g.of} \intersect Posts ELSE {},
           up' \in [Agents -> Seq(Frames)],
           \A l \in Agents \ {k} : up'[l] = up[l],
           \A i \in DOMAIN up'[k] :
              \/ i \in DOMAIN up[k] /\ up'[k][i] = up[k][i]
              \/ up'[k][i].type = "error" /\ up'[k][i].of = f.of /\ up'[k][i].id = f.id,
           tasks' \in [Agents -> SUBSET Tasks],
           \A l \in Agents \ {k} : tasks'[l] = tasks[l],
           \A t \in tasks'[k] : t \in tasks[k] \/ /\ t.of = f.of /\ t.id = f.id
                                                  /\ t.body = {t.of} \intersect Posts,
           served' = [v \in Viewers |-> IF v \in s THEN served[v] + 1 ELSE served[v]],
           s \subseteq {f.of},
           s # {} => f.type = "req_last" \/ (f.type = "req_head" /\ f.of \notin Posts)
    PROVE  IInv'
<1>1. AgentShape /\ ObjectShape /\ KvShape /\ Requests /\ Queues
  BY DEF IInv
<1>2. /\ down[k] \in Seq(Frames) /\ 1 \in DOMAIN down[k] /\ f = down[k][1]
      /\ f \in Frames /\ f.id \in StreamIds /\ f.of \in Viewers
  <2>1. down[k] \in Seq(Frames)
    BY <1>1 DEF AgentShape
  <2>2. f = down[k][1] /\ 1 \in DOMAIN down[k]
    BY <2>1
  <2>3. f \in Frames
    BY <2>1, <2>2
  <2> QED
    BY <2>1, <2>2, <2>3 DEF Frames
<1>3. /\ down' \in [Agents -> Seq(Frames)]
      /\ \A l \in Agents \ {k} : down'[l] = down[l]
      /\ Len(down[k]) \in Nat /\ Len(down'[k]) = Len(down[k]) - 1
      /\ \A i \in 1..Len(down[k]) - 1 : down'[k][i] = down[k][i + 1]
      /\ DOMAIN down'[k] = 1..Len(down[k]) - 1 /\ DOMAIN down[k] = 1..Len(down[k])
  <2>1. down'[k] = Tail(down[k]) /\ \A l \in Agents \ {k} : down'[l] = down[l]
    BY <1>1 DEF AgentShape
  <2>2. Tail(down[k]) \in Seq(Frames)
    BY <1>2
  <2>3. down' \in [Agents -> Seq(Frames)]
    BY <1>1, <2>2 DEF AgentShape
  <2> QED
    BY <1>2, <2>1, <2>3
<1>4. /\ heads' \in [Agents -> [StreamIds -> Viewers \union {None}]] /\ heads'[k] = H
      /\ bodies' \in [Agents -> [StreamIds -> SUBSET Viewers]] /\ bodies'[k] = B
      /\ \A l \in Agents \ {k} : heads'[l] = heads[l] /\ bodies'[l] = bodies[l]
  BY <1>1 DEF AgentShape
<1>5. /\ served' \in [Viewers -> Nat]
      /\ \A v \in Viewers : served'[v] = IF v \in s THEN served[v] + 1 ELSE served[v]
  BY <1>1 DEF AgentShape
<1>6. /\ f.type \in {"req_head", "req_body", "req_last"} /\ viewer[f.of].id = f.id
      /\ FrameCount(f)
  BY <1>1, <1>2 DEF Queues, HeldOf, Had, ServedOf
<1>7. AgentShape' /\ ObjectShape' /\ KvShape'
  <2>1. AgentShape'
    BY <1>3, <1>4, <1>5 DEF AgentShape
  <2> QED
    BY <1>1, <2>1 DEF ObjectShape, KvShape, kv, session
<1>8. Requests'
  <2>1. ASSUME NEW v \in Viewers PROVE ViewerOf(v)'
    <3>1. CASE v \notin s
      BY <1>1, <1>5, <3>1 DEF Requests, ViewerOf, session
    <3>2. CASE v \in s
      <4>1. v = f.of /\ viewer[v].id # 0
        BY <1>2, <1>6, <3>2 DEF StreamIds
      <4>2. viewer[v].pc \notin Early
        BY <1>1, <4>1 DEF Requests, ViewerOf
      <4>3. viewer[v].pc \notin Sending
        BY <1>1, <1>6, <3>2, <4>1 DEF FrameCount, Requests, ViewerOf
      <4> QED
        BY <1>1, <4>2, <4>3 DEF Requests, ViewerOf, session
    <3> QED
      BY <3>1, <3>2
  <2>2. IdsDiffer' /\ IdsEnough' /\ StreamsAwaited' /\ ResultsOpened' /\ OwnAnswer'
    BY <1>1 DEF Requests, IdsDiffer, IdsEnough, LetThrough, StreamsAwaited, ResultsOpened,
                OwnAnswer, session
  <2> QED
    BY <2>1, <2>2 DEF Requests
<1>9. ASSUME NEW l \in Agents PROVE HeldOf(l)'
  <2>1. HeldOf(l) /\ viewer' = viewer /\ conn' = conn
    BY <1>1 DEF Queues
  <2>2. CASE l # k
    <3>1. UNCHANGED <<viewer, conn[l], down[l], up[l], heads[l], bodies[l], tasks[l]>> /\ QueueOf(l)
      BY <1>1, <1>3, <1>4, <2>1, <2>2 DEF Queues
    <3> QED
      BY <2>1, <2>2, <3>1, OthersStay
  <2>3. CASE l = k
    <3>1. \A i \in DOMAIN down'[k] : /\ down'[k][i].type \in {"req_head", "req_body", "req_last"}
                                     /\ viewer[down'[k][i].of].id = down'[k][i].id
      <4>1. \A i \in DOMAIN down'[k] : i + 1 \in DOMAIN down[k] /\ down'[k][i] = down[k][i + 1]
        BY <1>3
      <4> QED
        BY <2>1, <2>3, <4>1 DEF HeldOf, Had
    <3>2. \A i \in DOMAIN up'[k] : /\ up'[k][i].type \in {"response", "error"}
                                   /\ viewer[up'[k][i].of].id = up'[k][i].id
      <4>1. \A i \in DOMAIN up[k] : /\ up[k][i].type \in {"response", "error"}
                                    /\ viewer[up[k][i].of].id = up[k][i].id
        BY <2>1, <2>3 DEF HeldOf, Had
      <4> QED
        BY <1>6, <4>1
    <3>3. \A id \in StreamIds : H[id] # None => viewer[H[id]].id = id
      <4>1. \A id \in StreamIds : heads[k][id] # None => viewer[heads[k][id]].id = id
        BY <2>1, <2>3 DEF HeldOf, Had
      <4>2. H[f.id] # None => viewer[H[f.id]].id = f.id
        BY <1>2, <1>6, <4>1
      <4> QED
        BY <4>1, <4>2
    <3>4. \A t \in tasks'[k] : viewer[t.of].id = t.id /\ t.body = {t.of} \intersect Posts
      BY <1>6, <2>1, <2>3 DEF HeldOf, Had
    <3> QED
      BY <1>4, <2>1, <2>3, <3>1, <3>2, <3>3, <3>4 DEF HeldOf, Had, Connected
  <2> QED
    BY <2>2, <2>3
<1>10. ASSUME NEW l \in Agents \ {k}, NEW n, NEW g, Follows(l, n, g) PROVE Follows(l, n, g)'
  <2>1. down'[l] = down[l] /\ heads'[l] = heads[l] /\ bodies'[l] = bodies[l]
    BY <1>3, <1>4
  <2>2. AtAgent(l, g) => AtAgent(l, g)'
    BY <2>1 DEF AtAgent
  <2> QED
    BY <1>10, <2>1, <2>2 DEF Follows, Continues
<1>11. ASSUME NEW n \in Nat, n + 1 <= Len(down[k]), NEW g, g.id \in StreamIds, Follows(k, n + 1, g)
       PROVE  Follows(k, n, g)'
  <2>1. \A m \in 1..n : down'[k][m] = down[k][m + 1]
    BY <1>3, <1>11
  <2>2. CASE \E j \in 1..n + 1 : /\ Continues(down[k][j], g)
                                 /\ \A m \in j + 1..n + 1 : down[k][m].id # g.id
    <3>1. PICK j \in 1..n + 1 : /\ Continues(down[k][j], g)
                                /\ \A m \in j + 1..n + 1 : down[k][m].id # g.id
      BY <2>2
    <3>2. CASE j = 1
      <4>1. Continues(f, g)
        BY <1>2, <3>1, <3>2
      <4>2. AtAgent(k, g)'
        BY <1>4, <4>1 DEF AtAgent, Continues
      <4>3. ASSUME NEW m \in 1..n PROVE down'[k][m].id # g.id
        <5>1. m + 1 \in j + 1..n + 1
          BY <3>2
        <5> QED
          BY <2>1, <3>1, <5>1
      <4> QED
        BY <4>2, <4>3 DEF Follows
    <3>3. CASE j # 1
      <4>1. PICK i \in 1..n : i + 1 = j
        BY <3>3
      <4>2. Continues(down'[k][i], g)
        BY <2>1, <3>1, <4>1
      <4>3. ASSUME NEW m \in i + 1..n PROVE down'[k][m].id # g.id
        <5>1. m + 1 \in j + 1..n + 1 /\ m \in 1..n
          BY <4>1
        <5> QED
          BY <2>1, <3>1, <5>1
      <4> QED
        BY <4>2, <4>3 DEF Follows, Continues
    <3> QED
      BY <3>2, <3>3
  <2>3. CASE (\A j \in 1..n + 1 : down[k][j].id # g.id) /\ AtAgent(k, g)
    <3>1. f.id # g.id
      <4>1. 1 \in 1..n + 1
        OBVIOUS
      <4> QED
        BY <1>2, <2>3, <4>1
    <3>2. AtAgent(k, g)'
      BY <1>4, <1>11, <2>3, <3>1 DEF AtAgent
    <3>3. ASSUME NEW m \in 1..n PROVE down'[k][m].id # g.id
      <4>1. m + 1 \in 1..n + 1
        OBVIOUS
      <4> QED
        BY <2>1, <2>3, <4>1
    <3> QED
      BY <3>2, <3>3 DEF Follows
  <2> QED
    BY <1>11, <2>2, <2>3 DEF Follows
<1>12. \A l \in Agents \ {k} : QueueOf(l)'
  <2>1. \A l \in Agents \ {k} : QueueOf(l) /\ down'[l] = down[l]
    BY <1>1, <1>3 DEF Queues
  <2> QED
    BY <1>10, <2>1 DEF QueueOf
<1>13. QueueOf(k)'
  <2>1. ASSUME NEW i \in DOMAIN down'[k], down'[k][i].type # "req_head"
        PROVE  Follows(k, i - 1, down[k][i])'
    <3>1. /\ i \in Nat /\ i - 1 \in Nat /\ i <= Len(down[k]) - 1
          /\ i + 1 \in DOMAIN down[k] /\ down'[k][i] = down[k][i + 1] /\ (i + 1) - 1 = i
      BY <1>3
    <3>2. PICK g : g = down[k][i + 1]
      OBVIOUS
    <3>3. Follows(k, i, g)
      BY <1>1, <2>1, <3>1, <3>2 DEF Queues, QueueOf
    <3>4. g.id \in StreamIds
      BY <1>1, <3>1, <3>2, FrameTypes
    <3>5. PICK n \in Nat : n = i - 1 /\ n + 1 = i /\ n + 1 <= Len(down[k])
      BY <1>3, <3>1
    <3>6. Follows(k, n, g)'
      BY <1>11, <3>3, <3>4, <3>5
    <3> QED
      BY <3>1, <3>2, <3>5, <3>6
  <2> QED
    BY <2>1 DEF QueueOf
<1>14. Expected'
  <2>1. runner' = runner /\ viewer' = viewer /\ \A v \in Viewers : Rest(v)' = Rest(v)
    BY DEF session, Rest
  <2>2. ASSUME NEW v \in Viewers, viewer[v].pc \in Sending
        PROVE  Rest(v).id \in StreamIds
    BY <1>1, <2>2 DEF Rest, Frame, Requests, ViewerOf, ObjectShape, ViewerRecord, Under
  <2>3. CASE runner = k
    <3>1. PICK n \in Nat : n = Len(down'[k]) /\ n + 1 = Len(down[k])
      <4>1. Len(down[k]) # 0
        BY <1>2, <1>3
      <4>2. Len(down[k]) \in Nat /\ Len(down'[k]) = Len(down[k]) - 1
        BY <1>3
      <4> QED
        BY <4>1, <4>2
    <3>2. k # None
      BY TunnelAssumption
    <3>3. \A v \in Viewers : viewer[v].pc \in Sending => Follows(k, n + 1, Rest(v))
      BY <1>1, <2>3, <3>1, <3>2 DEF Queues, Expected
    <3>4. ASSUME NEW v \in Viewers, viewer[v].pc \in Sending, NEW g, g = Rest(v)
          PROVE  Follows(k, n, g)'
      <4>1. n + 1 <= Len(down[k])
        BY <3>1
      <4>2. g.id \in StreamIds /\ Follows(k, n + 1, g)
        BY <2>2, <3>3, <3>4
      <4> QED
        BY <1>11, <4>1, <4>2
    <3> QED
      BY <2>1, <2>3, <3>1, <3>4 DEF Expected
  <2>4. CASE runner # k /\ runner # None
    <3>1. runner \in Agents \ {k} /\ down'[runner] = down[runner]
      BY <1>1, <1>3, <2>4 DEF ObjectShape
    <3> QED
      BY <1>1, <1>10, <2>1, <2>4, <3>1 DEF Expected, Queues
  <2> QED
    BY <2>1, <2>3, <2>4 DEF Expected
<1>15. ASSUME NEW l \in Agents, NEW i \in DOMAIN down'[l]
       PROVE  \E j \in DOMAIN down[l] : /\ down'[l][i] = down[l][j]
                                        /\ l = k => j = i + 1
                                        /\ l # k => j = i
  <2>1. CASE l = k
    <3>1. i + 1 \in DOMAIN down[k] /\ down'[k][i] = down[k][i + 1]
      BY <1>3, <2>1
    <3> QED
      BY <2>1, <3>1
  <2>2. CASE l # k
    BY <1>3, <2>2
  <2> QED
    BY <2>1, <2>2
<1>16. FramesOnce'
  <2>1. ASSUME NEW l \in Agents, NEW m \in Agents, NEW i \in DOMAIN down'[l], NEW j \in DOMAIN down'[m]
        PROVE  /\ down'[l][i].of = down'[m][j].of /\ down'[l][i].type = down'[m][j].type
                  => l = m /\ i = j
               /\ down'[l][i].of = down'[m][j].of /\ down'[l][i].of \notin Posts
                     /\ down'[l][i].type = "req_head" /\ down'[m][j].type = "req_last"
                  => l = m /\ i < j
    <3>1. PICK x \in DOMAIN down[l] : /\ down'[l][i] = down[l][x]
                                      /\ l = k => x = i + 1
                                      /\ l # k => x = i
      BY <1>15
    <3>2. PICK y \in DOMAIN down[m] : /\ down'[m][j] = down[m][y]
                                      /\ m = k => y = j + 1
                                      /\ m # k => y = j
      BY <1>15
    <3>3. i \in Nat /\ j \in Nat
      BY <1>3, <1>7 DEF AgentShape
    <3>4. /\ down[l][x].of = down[m][y].of /\ down[l][x].type = down[m][y].type
             => l = m /\ x = y
          /\ down[l][x].of = down[m][y].of /\ down[l][x].of \notin Posts
                /\ down[l][x].type = "req_head" /\ down[m][y].type = "req_last"
             => l = m /\ x < y
      BY <1>1 DEF Queues, FramesOnce
    <3> QED
      BY <3>1, <3>2, <3>3, <3>4
  <2> QED
    BY <2>1 DEF FramesOnce
<1>17. ServedOf'
  <2>1. \A v \in Viewers : served[v] \in Nat /\ served[v] <= 2 /\ (v \in Posts => served[v] <= 1)
    BY <1>1 DEF AgentShape, Queues, ServedOf
  <2>2. ASSUME NEW v \in Viewers PROVE served'[v] <= 2 /\ (v \in Posts => served'[v] <= 1)
    BY <1>5, <1>6, <2>1 DEF FrameCount
  <2>3. ASSUME NEW l \in Agents, NEW i \in DOMAIN down'[l] PROVE FrameCount(down[l][i])'
    <3>1. PICK j \in DOMAIN down[l] : /\ down'[l][i] = down[l][j]
                                      /\ l = k => j = i + 1
                                      /\ l # k => j = i
      BY <1>15
    <3>2. PICK g : g = down[l][j]
      OBVIOUS
    <3>3. FrameCount(g) /\ g.of \in Viewers
      BY <1>1, <3>2, FrameTypes DEF Queues, ServedOf
    <3>4. l = k => j # 1
      BY <1>3, <3>1
    <3>5. g.of = f.of => g.type # f.type
      BY <1>1, <1>2, <3>2, <3>4 DEF Queues, FramesOnce
    <3>6. g.of = f.of /\ f.of \notin Posts => ~(g.type = "req_head" /\ f.type = "req_last")
      <4>1. SUFFICES ASSUME g.of = f.of, f.of \notin Posts, g.type = "req_head", f.type = "req_last"
                     PROVE  FALSE
        OBVIOUS
      <4>2. l = k /\ j < 1
        BY <1>1, <1>2, <3>2, <4>1 DEF Queues, FramesOnce
      <4> QED
        BY <1>3, <4>2
    <3>7. served[g.of] \in Nat
      BY <2>1, <3>3
    <3>8. FrameCount(g)'
      <4>1. CASE g.of \notin s
        BY <1>5, <3>3, <4>1 DEF FrameCount
      <4>2. CASE g.of \in s
        <5>1. g.of = f.of /\ served'[g.of] = served[g.of] + 1 /\ viewer' = viewer
          BY <1>5, <3>3, <4>2
        <5>2. CASE f.type = "req_last"
          <6>1. g.type # "req_last" /\ ~(g.type = "req_head" /\ g.of \notin Posts)
            BY <3>5, <3>6, <5>1, <5>2
          <6> QED
            BY <3>3, <5>1, <6>1 DEF FrameCount
        <5>3. CASE f.type = "req_head" /\ f.of \notin Posts
          <6>1. g.type # "req_head" /\ served[f.of] = 0
            BY <1>6, <3>5, <5>1, <5>3 DEF FrameCount
          <6> QED
            BY <3>3, <5>1, <5>3, <6>1 DEF FrameCount
        <5> QED
          BY <4>2, <5>2, <5>3
      <4> QED
        BY <4>1, <4>2
    <3> QED
      BY <3>1, <3>2, <3>8
  <2> QED
    BY <2>2, <2>3 DEF ServedOf
<1>18. WaitersAreTold' /\ StatusShown'
  BY DEF IInv, WaitersAreTold, StatusShown, Streams, session, kv
<1> QED
  BY <1>7, <1>8, <1>9, <1>12, <1>13, <1>14, <1>16, <1>17, <1>18 DEF IInv, Queues

LEMMA RequestHeadStep ==
    ASSUME IInv, NEW k \in Agents, HandleFrame(k), NEW f, f = Head(down[k]), RequestHead(k, f)
    PROVE  IInv'
<1>1. AgentShape /\ Queues /\ down[k] \in Seq(Frames) /\ down[k] # <<>> /\ Connected(k)
  BY DEF HandleFrame, IInv, AgentShape
<1>2. f \in Frames /\ f.id \in StreamIds /\ f.of \in Viewers /\ f.type = "req_head"
  <2>1. f = down[k][1] /\ 1 \in DOMAIN down[k]
    BY <1>1
  <2>2. f \in Frames
    BY <1>1, <2>1
  <2> QED
    BY <2>2 DEF Frames, RequestHead
<1>3. PICK H : H = [heads[k] EXCEPT ![f.id] = f.of]
  OBVIOUS
<1>4. /\ H \in [StreamIds -> Viewers \union {None}] /\ H[f.id] = f.of
      /\ \A id \in StreamIds \ {f.id} : H[id] = heads[k][id]
      /\ heads' = [heads EXCEPT ![k] = H]
  BY <1>1, <1>2, <1>3 DEF AgentShape, RequestHead
<1>5. PICK B : B = [bodies[k] EXCEPT ![f.id] = {}]
  OBVIOUS
<1>6. /\ B \in [StreamIds -> SUBSET Viewers] /\ B[f.id] = {}
      /\ \A id \in StreamIds \ {f.id} : B[id] = bodies[k][id]
      /\ bodies' = [bodies EXCEPT ![k] = B]
  BY <1>1, <1>2, <1>5 DEF AgentShape, RequestHead
<1>7. \A g : Continues(f, g) =>
              \/ H[g.id] = None
              \/ /\ H[g.id] = g.of
                 /\ B[g.id] = IF g.type = "req_last" THEN {g.of} \intersect Posts ELSE {}
  BY <1>2, <1>4, <1>6 DEF Continues
<1>8. up' = up /\ down' = [down EXCEPT ![k] = Tail(@)]
      /\ UNCHANGED <<kv, conn, session, closer, viewer>>
  BY DEF RequestHead, HandleFrame
<1>9. CASE f.of \in Posts
  <2>1. tasks' = tasks /\ served' = served
    BY <1>9 DEF RequestHead
  <2>2. served' = [v \in Viewers |-> IF v \in {} THEN served[v] + 1 ELSE served[v]]
    BY <1>1, <2>1 DEF AgentShape
  <2>3. {} \in SUBSET Viewers
    OBVIOUS
  <2> QED
    BY <1>1, <1>2, <1>4, <1>6, <1>7, <1>8, <2>1, <2>2, <2>3, TakesFrame DEF AgentShape
<1>10. CASE f.of \notin Posts
  <2>1. ProxyRequest(k, f.id, "head", f.of, {})
    BY <1>10 DEF RequestHead
  <2>2. served' = [v \in Viewers |-> IF v \in {f.of} THEN served[v] + 1 ELSE served[v]]
    BY <1>1, <1>2, <2>1 DEF AgentShape, ProxyRequest
  <2>3. PICK t : t = [id |-> f.id, at |-> "head", of |-> f.of, body |-> {}]
    OBVIOUS
  <2>4. t \in Tasks /\ t.of = f.of /\ t.id = f.id /\ t.body = {t.of} \intersect Posts
    BY <1>2, <1>10, <2>3 DEF Tasks
  <2>5. tasks' = [tasks EXCEPT ![k] = @ \union {t}]
    BY <2>1, <2>3 DEF ProxyRequest
  <2>6. /\ tasks' \in [Agents -> SUBSET Tasks]
        /\ \A l \in Agents \ {k} : tasks'[l] = tasks[l]
        /\ \A u \in tasks'[k] : u \in tasks[k] \/ /\ u.of = f.of /\ u.id = f.id
                                                  /\ u.body = {u.of} \intersect Posts
    BY <1>1, <2>4, <2>5 DEF AgentShape
  <2>7. {f.of} \in SUBSET Viewers
    BY <1>2
  <2> QED
    BY <1>1, <1>2, <1>4, <1>6, <1>7, <1>8, <1>10, <2>2, <2>6, <2>7, TakesFrame DEF AgentShape
<1> QED
  BY <1>9, <1>10

LEMMA RequestChunkStep ==
    ASSUME IInv, NEW k \in Agents, HandleFrame(k), NEW f, f = Head(down[k]), RequestChunk(k, f)
    PROVE  IInv'
<1>1. AgentShape /\ Queues /\ down[k] \in Seq(Frames) /\ down[k] # <<>> /\ Connected(k)
  BY DEF HandleFrame, IInv, AgentShape
<1>2. /\ f \in Frames /\ f.id \in StreamIds /\ f.of \in Viewers /\ f.type = "req_body"
      /\ f = down[k][1] /\ 1 \in DOMAIN down[k]
  <2>1. f = down[k][1] /\ 1 \in DOMAIN down[k]
    BY <1>1
  <2>2. f \in Frames
    BY <1>1, <2>1
  <2> QED
    BY <2>1, <2>2 DEF Frames, RequestChunk
<1>3. AtAgent(k, f)
  <2>1. Follows(k, 0, f)
    BY <1>1, <1>2 DEF Queues, QueueOf
  <2> QED
    BY <2>1 DEF Follows
<1>4. PICK B : B = [bodies[k] EXCEPT ![f.id] = @ \union {f.of}]
  OBVIOUS
<1>5. /\ B \in [StreamIds -> SUBSET Viewers] /\ B[f.id] = bodies[k][f.id] \union {f.of}
      /\ \A id \in StreamIds \ {f.id} : B[id] = bodies[k][id]
      /\ bodies' = [bodies EXCEPT ![k] = B]
  BY <1>1, <1>2, <1>4 DEF AgentShape, RequestChunk
<1>6. heads[k] \in [StreamIds -> Viewers \union {None}] /\ heads' = [heads EXCEPT ![k] = heads[k]]
  BY <1>1 DEF AgentShape, RequestChunk
<1>7. \A g : Continues(f, g) =>
              \/ heads[k][g.id] = None
              \/ /\ heads[k][g.id] = g.of
                 /\ B[g.id] = IF g.type = "req_last" THEN {g.of} \intersect Posts ELSE {}
  BY <1>2, <1>3, <1>5 DEF Continues, AtAgent
<1>8. up' = up /\ tasks' = tasks /\ served' = served /\ down' = [down EXCEPT ![k] = Tail(@)]
      /\ UNCHANGED <<kv, conn, session, closer, viewer>>
  BY DEF RequestChunk, HandleFrame
<1>9. served' = [v \in Viewers |-> IF v \in {} THEN served[v] + 1 ELSE served[v]]
  BY <1>1, <1>8 DEF AgentShape
<1>10. {} \in SUBSET Viewers
  OBVIOUS
<1> QED
  BY <1>1, <1>2, <1>5, <1>6, <1>7, <1>8, <1>9, <1>10, TakesFrame DEF AgentShape

LEMMA RequestEndStep ==
    ASSUME IInv, NEW k \in Agents, HandleFrame(k), NEW f, f = Head(down[k]), RequestEnd(k, f)
    PROVE  IInv'
<1>1. AgentShape /\ Queues /\ down[k] \in Seq(Frames) /\ down[k] # <<>> /\ Connected(k)
  BY DEF HandleFrame, IInv, AgentShape
<1>2. /\ f \in Frames /\ f.id \in StreamIds /\ f.of \in Viewers /\ f.type = "req_last"
      /\ f = down[k][1] /\ 1 \in DOMAIN down[k]
  <2>1. f = down[k][1] /\ 1 \in DOMAIN down[k]
    BY <1>1
  <2>2. f \in Frames
    BY <1>1, <2>1
  <2> QED
    BY <2>1, <2>2 DEF Frames, RequestEnd
<1>3. AtAgent(k, f)
  <2>1. Follows(k, 0, f)
    BY <1>1, <1>2 DEF Queues, QueueOf
  <2> QED
    BY <2>1 DEF Follows
<1>4. PICK B \in [StreamIds -> SUBSET Viewers] : B = bodies[k] /\ bodies' = [bodies EXCEPT ![k] = B]
  BY <1>1 DEF AgentShape, RequestEnd
<1>5. PICK H \in [StreamIds -> Viewers \union {None}] : H = heads[k] /\ heads' = [heads EXCEPT ![k] = H]
  BY <1>1 DEF AgentShape, RequestEnd
<1>6. \A g : ~Continues(f, g)
  BY <1>2 DEF Continues
<1>7. down' = [down EXCEPT ![k] = Tail(@)] /\ UNCHANGED <<kv, conn, session, closer, viewer>>
  BY DEF HandleFrame
<1>8. CASE heads[k][f.id] = None
  <2>1. SendUp(k, Frame("error", f.id, f.of)) /\ tasks' = tasks /\ served' = served
    BY <1>8 DEF RequestEnd
  <2>2. served' = [v \in Viewers |-> IF v \in {} THEN served[v] + 1 ELSE served[v]]
    BY <1>1, <2>1 DEF AgentShape
  <2>3. PICK e : e = Frame("error", f.id, f.of)
    OBVIOUS
  <2>4. e \in Frames /\ e.type = "error" /\ e.of = f.of /\ e.id = f.id
    BY <1>2, <2>3 DEF Frame, Frames
  <2>5. up' = [up EXCEPT ![k] = Append(@, e)]
    BY <2>1, <2>3 DEF SendUp
  <2>6. /\ up' \in [Agents -> Seq(Frames)] /\ up'[k] = Append(up[k], e)
        /\ \A l \in Agents \ {k} : up'[l] = up[l]
    BY <1>1, <2>4, <2>5 DEF AgentShape
  <2>7. \A i \in DOMAIN up'[k] : (i \in DOMAIN up[k] /\ up'[k][i] = up[k][i]) \/ up'[k][i] = e
    BY <1>1, <2>4, <2>6 DEF AgentShape
  <2>8. {} \in SUBSET Viewers
    OBVIOUS
  <2> QED
    BY <1>1, <1>2, <1>4, <1>5, <1>6, <1>7, <2>1, <2>2, <2>4, <2>6, <2>7, <2>8, TakesFrame DEF AgentShape
<1>9. CASE heads[k][f.id] # None
  <2>1. heads[k][f.id] = f.of /\ bodies[k][f.id] = {f.of} \intersect Posts
    BY <1>2, <1>3, <1>9 DEF AtAgent
  <2>2. ProxyRequest(k, f.id, "last", f.of, {f.of} \intersect Posts) /\ up' = up
    BY <1>9, <2>1 DEF RequestEnd
  <2>3. served' = [v \in Viewers |-> IF v \in {f.of} THEN served[v] + 1 ELSE served[v]]
    BY <1>1, <1>2, <2>2 DEF AgentShape, ProxyRequest
  <2>4. PICK t : t = [id |-> f.id, at |-> "last", of |-> f.of, body |-> {f.of} \intersect Posts]
    OBVIOUS
  <2>5. t \in Tasks /\ t.of = f.of /\ t.id = f.id /\ t.body = {t.of} \intersect Posts
    BY <1>2, <2>4 DEF Tasks
  <2>6. tasks' = [tasks EXCEPT ![k] = @ \union {t}]
    BY <2>2, <2>4 DEF ProxyRequest
  <2>7. /\ tasks' \in [Agents -> SUBSET Tasks]
        /\ \A l \in Agents \ {k} : tasks'[l] = tasks[l]
        /\ \A u \in tasks'[k] : u \in tasks[k] \/ /\ u.of = f.of /\ u.id = f.id
                                                  /\ u.body = {u.of} \intersect Posts
    BY <1>1, <2>5, <2>6 DEF AgentShape
  <2>8. PICK s \in SUBSET Viewers : s = {f.of}
    BY <1>2
  <2>9. /\ up' \in [Agents -> Seq(Frames)]
        /\ \A l \in Agents \ {k} : up'[l] = up[l]
        /\ \A i \in DOMAIN up'[k] : i \in DOMAIN up[k] /\ up'[k][i] = up[k][i]
    BY <1>1, <2>2 DEF AgentShape
  <2>10. /\ \A id \in StreamIds \ {f.id} : H[id] = heads[k][id] /\ B[id] = bodies[k][id]
         /\ H[f.id] \in {heads[k][f.id], f.of}
    BY <1>4, <1>5
  <2>11. /\ served' = [v \in Viewers |-> IF v \in s THEN served[v] + 1 ELSE served[v]]
         /\ s \subseteq {f.of}
    BY <2>3, <2>8
  <2>12. f.type = "req_last"
    BY <1>2
  <2>13. heads' = [heads EXCEPT ![k] = H] /\ bodies' = [bodies EXCEPT ![k] = B]
    BY <1>4, <1>5
  <2>14. Connected(k) /\ down[k] # <<>>
    BY <1>1
  <2>15. \A i \in DOMAIN up'[k] :
              \/ i \in DOMAIN up[k] /\ up'[k][i] = up[k][i]
              \/ up'[k][i].type = "error" /\ up'[k][i].of = f.of /\ up'[k][i].id = f.id
    BY <2>9, Zenon
  <2>16. \A g : Continues(f, g) =>
              \/ H[g.id] = None
              \/ /\ H[g.id] = g.of
                 /\ B[g.id] = IF g.type = "req_last" THEN {g.of} \intersect Posts ELSE {}
    BY <1>6, Zenon
  <2>17. s # {} => f.type = "req_last" \/ (f.type = "req_head" /\ f.of \notin Posts)
    BY <2>12
  <2> QED
    BY <1>7, <2>7, <2>9, <2>10, <2>11, <2>13, <2>14, <2>15, <2>16, <2>17, TakesFrame
<1> QED
  BY <1>8, <1>9

LEMMA HandleFrameStep ==
    ASSUME IInv, NEW k \in Agents, HandleFrame(k)
    PROVE  IInv'
<1>1. PICK f \in {Head(down[k])} : RequestHead(k, f) \/ RequestChunk(k, f) \/ RequestEnd(k, f)
  BY DEF HandleFrame
<1> QED
  BY <1>1, RequestHeadStep, RequestChunkStep, RequestEndStep

-----------------------------------------------------------------------------
(***************************************************************************)
(* Steps that send frames to the agent.                                    *)
(***************************************************************************)

\* What is expected after a queue is, after more frames of other ids.
LEMMA Grows ==
    ASSUME AgentShape, NEW r \in Agents, NEW fs \in Seq(Frames),
           down' = [down EXCEPT ![r] = @ \o fs], UNCHANGED <<heads, bodies>>
    PROVE  /\ down' \in [Agents -> Seq(Frames)]
           /\ \A l \in Agents \ {r} : down'[l] = down[l]
           /\ Len(down[r]) \in Nat /\ Len(fs) \in Nat
           /\ Len(down'[r]) = Len(down[r]) + Len(fs)
           /\ DOMAIN down[r] = 1..Len(down[r]) /\ DOMAIN fs = 1..Len(fs)
           /\ DOMAIN down'[r] = 1..Len(down[r]) + Len(fs)
           /\ \A i \in 1..Len(down[r]) : down'[r][i] = down[r][i]
           /\ \A i \in 1..Len(fs) : down'[r][Len(down[r]) + i] = fs[i]
           /\ \A l \in Agents, n \in Nat : \A g :
                 l # r \/ n <= Len(down[r]) => (Follows(l, n, g) => Follows(l, n, g)')
           /\ \A n, p \in Nat : \A g :
                 n = Len(down[r]) /\ p = n + Len(fs) /\ (\A i \in 1..Len(fs) : fs[i].id # g.id) =>
                 (Follows(r, n, g) => Follows(r, p, g)')
<1>1. down[r] \in Seq(Frames) /\ down[r] \o fs \in Seq(Frames)
  BY DEF AgentShape
<1>2. down'[r] = down[r] \o fs /\ \A l \in Agents \ {r} : down'[l] = down[l]
  BY DEF AgentShape
<1>3. down' \in [Agents -> Seq(Frames)]
  BY <1>1 DEF AgentShape
<1>4. /\ Len(down[r]) \in Nat /\ Len(fs) \in Nat
      /\ Len(down'[r]) = Len(down[r]) + Len(fs)
      /\ DOMAIN down[r] = 1..Len(down[r]) /\ DOMAIN fs = 1..Len(fs)
      /\ DOMAIN down'[r] = 1..Len(down[r]) + Len(fs)
      /\ \A i \in 1..Len(down[r]) : down'[r][i] = down[r][i]
      /\ \A i \in 1..Len(fs) : down'[r][Len(down[r]) + i] = fs[i]
  BY <1>1, <1>2
<1>5. ASSUME NEW l \in Agents, NEW n \in Nat, NEW g, l # r \/ n <= Len(down[r]), Follows(l, n, g)
      PROVE  Follows(l, n, g)'
  <2>1. \A i \in 1..n : down'[l][i] = down[l][i]
    BY <1>2, <1>4, <1>5
  <2>2. CASE \E j \in 1..n : /\ Continues(down[l][j], g)
                             /\ \A m \in j + 1..n : down[l][m].id # g.id
    <3>1. PICK j \in 1..n : /\ Continues(down[l][j], g)
                            /\ \A m \in j + 1..n : down[l][m].id # g.id
      BY <2>2
    <3>2. Continues(down'[l][j], g)
      BY <2>1, <3>1
    <3>3. \A m \in j + 1..n : m \in 1..n
      OBVIOUS
    <3>4. \A m \in j + 1..n : down'[l][m].id # g.id
      BY <2>1, <3>1, <3>3
    <3> QED
      BY <3>2, <3>4 DEF Follows, Continues
  <2>3. CASE (\A j \in 1..n : down[l][j].id # g.id) /\ AtAgent(l, g)
    BY <2>1, <2>3 DEF Follows, AtAgent
  <2> QED
    BY <1>5, <2>2, <2>3 DEF Follows
<1>6. ASSUME NEW g, \A i \in 1..Len(fs) : fs[i].id # g.id, NEW n \in Nat, n = Len(down[r]),
             NEW p \in Nat, p = n + Len(fs), Follows(r, n, g)
      PROVE  Follows(r, p, g)'
  <2>1. ASSUME NEW m \in n + 1..p PROVE down'[r][m].id # g.id
    <3>1. PICK i \in 1..Len(fs) : m = n + i
      BY <1>4, <1>6
    <3> QED
      BY <1>4, <1>6, <3>1
  <2>2. \A i \in 1..n : down'[r][i] = down[r][i]
    BY <1>4, <1>6
  <2>3. n <= p
    BY <1>4, <1>6
  <2>4. CASE \E j \in 1..n : /\ Continues(down[r][j], g)
                             /\ \A m \in j + 1..n : down[r][m].id # g.id
    <3>1. PICK j \in 1..n : /\ Continues(down[r][j], g)
                            /\ \A m \in j + 1..n : down[r][m].id # g.id
      BY <2>4
    <3>2. Continues(down'[r][j], g)
      BY <2>2, <3>1
    <3>4. j \in 1..p
      BY <2>3
    <3>3. ASSUME NEW m \in j + 1..p PROVE down'[r][m].id # g.id
      <4>1. CASE m <= n
        <5>1. m \in j + 1..n /\ m \in 1..n
          BY <4>1
        <5> QED
          BY <2>2, <3>1, <5>1
      <4>2. CASE ~(m <= n)
        <5>1. m \in n + 1..p
          BY <4>2
        <5> QED
          BY <2>1, <5>1
      <4> QED
        BY <4>1, <4>2
    <3> QED
      BY <3>2, <3>3, <3>4 DEF Follows, Continues
  <2>5. CASE (\A j \in 1..n : down[r][j].id # g.id) /\ AtAgent(r, g)
    <3>1. ASSUME NEW m \in 1..p PROVE down'[r][m].id # g.id
      <4>1. m \in 1..n \/ m \in n + 1..p
        OBVIOUS
      <4> QED
        BY <2>1, <2>2, <2>5, <4>1
    <3> QED
      BY <2>5, <3>1 DEF Follows, AtAgent
  <2> QED
    BY <1>6, <2>4, <2>5 DEF Follows
<1> QED
  BY <1>2, <1>3, <1>4, <1>5, <1>6

\* Request v sends the frames fs, or loses them, and goes on as q; R is what it
\* sends next, if anything.
NewFrames(r, v, q, fs) ==
    \A i \in 1..Len(fs) :
        /\ fs[i].of = v /\ fs[i].id = q.id
        /\ fs[i].type \in {"req_head", "req_body", "req_last"}
        /\ fs[i].type # "req_head" =>
              \/ i = 1 /\ Follows(r, Len(down[r]), fs[1])
              \/ i > 1 /\ Continues(fs[i - 1], fs[i])
        /\ v \notin Posts => fs[i].type # "req_body" /\ served[v] = 0
        /\ fs[i].type = "req_body" => q.pc # "chunk"
        /\ fs[i].type = "req_last" => q.pc \notin Sending /\ served[v] = 0
        /\ \A j \in 1..Len(fs) :
              /\ fs[i].type = fs[j].type => i = j
              /\ fs[i].type = "req_head" /\ fs[j].type = "req_last" => i < j

OldFrames(v, q, fs) ==
    \A l \in Agents : \A i \in DOMAIN down[l] : down[l][i].of = v =>
        /\ v \in Posts
        /\ \A j \in 1..Len(fs) : fs[j].type # down[l][i].type
        /\ down[l][i].type = "req_body" => q.pc # "chunk"
        /\ down[l][i].type = "req_last" => q.pc \notin Sending

SendsAs(r, v, q, fs, R) ==
    /\ r = runner /\ viewer' = [viewer EXCEPT ![v] = q]
    /\ down' = [down EXCEPT ![r] = @ \o fs]
    /\ UNCHANGED <<up, agent, conn, runner, lives>>
    /\ R = Frame(IF q.pc = "chunk" THEN "req_body" ELSE "req_last", q.id, v)
    /\ Len(fs) = 0 => ~Connected(r)
    /\ Len(fs) # 0 => Connected(r)
    /\ viewer[v].id \in {0, q.id} /\ q.id \in StreamIds /\ q.life = lives
    /\ viewer[v].pc \in Early => viewer[v].id = 0
    /\ IdsDiffer'
    /\ NewFrames(r, v, q, fs) /\ OldFrames(v, q, fs)
    /\ Len(fs) # 0 /\ q.pc \in Sending => Continues(fs[Len(fs)], R)

LEMMA Sends ==
    ASSUME AgentShape, ObjectShape, Requests, Queues, NEW r \in Agents, NEW v \in Viewers,
           NEW q \in ViewerRecord, NEW fs \in Seq(Frames), NEW R, SendsAs(r, v, q, fs, R)
    PROVE  Queues' /\ AgentShape'
<1> USE DEF SendsAs, NewFrames, OldFrames
<1>1. /\ viewer' \in [Viewers -> ViewerRecord] /\ viewer'[v] = q
      /\ \A u \in Viewers \ {v} : viewer'[u] = viewer[u]
  BY DEF ObjectShape
<1>2. PICK n0 \in Nat, m0 \in Nat :
         /\ n0 = Len(down[r]) /\ m0 = Len(fs)
         /\ DOMAIN down[r] = 1..n0 /\ DOMAIN fs = 1..m0 /\ DOMAIN down'[r] = 1..n0 + m0
         /\ Len(down'[r]) = n0 + m0
         /\ \A i \in 1..n0 : down'[r][i] = down[r][i]
         /\ \A i \in 1..m0 : down'[r][n0 + i] = fs[i]
  <2>1. /\ Len(down[r]) \in Nat /\ Len(fs) \in Nat
        /\ Len(down'[r]) = Len(down[r]) + Len(fs)
        /\ DOMAIN down[r] = 1..Len(down[r]) /\ DOMAIN fs = 1..Len(fs)
        /\ DOMAIN down'[r] = 1..Len(down[r]) + Len(fs)
        /\ \A i \in 1..Len(down[r]) : down'[r][i] = down[r][i]
        /\ \A i \in 1..Len(fs) : down'[r][Len(down[r]) + i] = fs[i]
    BY Grows DEF agent
  <2> QED
    BY <2>1
<1>13. /\ down' \in [Agents -> Seq(Frames)]
       /\ \A l \in Agents \ {r} : down'[l] = down[l]
  BY Grows DEF agent
<1>14. /\ \A l \in Agents, n \in Nat : \A g :
             l # r \/ n <= n0 => (Follows(l, n, g) => Follows(l, n, g)')
       /\ \A p \in Nat : \A g :
             p = n0 + m0 /\ (\A i \in 1..m0 : fs[i].id # g.id) =>
             (Follows(r, n0, g) => Follows(r, p, g)')
  BY <1>2, Grows DEF agent
<1>3. AgentShape'
  BY <1>13 DEF AgentShape, agent
\* A frame is an old one at its place, or a new one.
<1>4. ASSUME NEW l \in Agents, NEW i \in DOMAIN down'[l]
      PROVE  \/ i \in DOMAIN down[l] /\ down'[l][i] = down[l][i]
             \/ /\ l = r
                /\ \E j \in 1..m0 : i = n0 + j /\ down'[l][i] = fs[j]
  <2>1. CASE l # r
    BY <1>13, <2>1
  <2>2. CASE l = r /\ i <= n0
    BY <1>2, <2>2
  <2>3. CASE l = r /\ ~(i <= n0)
    <3>1. i \in 1..n0 + m0
      BY <1>2, <2>3
    <3>2. i - n0 \in 1..m0 /\ i = n0 + (i - n0)
      BY <2>3, <3>1, <1>2
    <3>3. PICK j \in 1..m0 : i = n0 + j
      BY <3>2
    <3> QED
      BY <1>2, <2>3, <3>3
  <2> QED
    BY <2>1, <2>2, <2>3
<1>5. \A l \in Agents : DOMAIN down[l] \in SUBSET Nat
  <2>1. \A l \in Agents : DOMAIN down[l] = 1..Len(down[l])
    BY DEF AgentShape
  <2> QED
    BY <2>1
<1>6. \A u \in Viewers : viewer[u].id # 0 => viewer'[u].id = viewer[u].id
  BY <1>1
<1>7. \A n \in StreamIds : n # 0
  BY DEF StreamIds
<1>8. ASSUME NEW l \in Agents PROVE HeldOf(l)'
  <2>1. HeldOf(l) /\ UNCHANGED <<up, heads, bodies, tasks, conn>>
    BY DEF Queues, agent
  <2>2. \A i \in DOMAIN down'[l] : /\ down'[l][i].type \in {"req_head", "req_body", "req_last"}
                                   /\ viewer'[down'[l][i].of].id = down'[l][i].id
    <3>1. ASSUME NEW i \in DOMAIN down'[l], i \in DOMAIN down[l], down'[l][i] = down[l][i]
          PROVE  /\ down'[l][i].type \in {"req_head", "req_body", "req_last"}
                 /\ viewer'[down'[l][i].of].id = down'[l][i].id
      <4>1. /\ down[l][i].type \in {"req_head", "req_body", "req_last"}
            /\ viewer[down[l][i].of].id = down[l][i].id
        BY <2>1, <3>1 DEF HeldOf, Had
      <4>2. down[l][i].of \in Viewers /\ down[l][i].id \in StreamIds
        BY <3>1, FrameTypes
      <4> QED
        BY <1>6, <1>7, <3>1, <4>1, <4>2
    <3>2. ASSUME NEW i \in DOMAIN down'[l], NEW j \in 1..m0, down'[l][i] = fs[j]
          PROVE  /\ down'[l][i].type \in {"req_head", "req_body", "req_last"}
                 /\ viewer'[down'[l][i].of].id = down'[l][i].id
      BY <1>1, <1>2, <3>2
    <3>3. ASSUME NEW i \in DOMAIN down'[l]
          PROVE  /\ down'[l][i].type \in {"req_head", "req_body", "req_last"}
                 /\ viewer'[down'[l][i].of].id = down'[l][i].id
      <4>1. CASE i \in DOMAIN down[l] /\ down'[l][i] = down[l][i]
        BY <3>1, <4>1
      <4>2. CASE \E j \in 1..m0 : down'[l][i] = fs[j]
        BY <3>2, <4>2
      <4> QED
        BY <1>4, <4>1, <4>2
    <3> QED
      BY <3>3
  <2>3. \A i \in DOMAIN up[l] : /\ up[l][i].type \in {"response", "error"}
                                /\ viewer'[up[l][i].of].id = up[l][i].id
    <3>1. ASSUME NEW i \in DOMAIN up[l]
          PROVE  up[l][i].of \in Viewers /\ up[l][i].id \in StreamIds
      <4>1. up[l] \in Seq(Frames)
        BY DEF AgentShape
      <4>2. up[l][i] \in Frames
        BY <4>1
      <4> QED
        BY <4>2 DEF Frames
    <3> QED
      BY <1>6, <1>7, <2>1, <3>1 DEF HeldOf, Had
  <2>4. \A id \in StreamIds : heads[l][id] # None => viewer'[heads[l][id]].id = id
    <3>1. \A id \in StreamIds : heads[l][id] \in Viewers \union {None}
      BY DEF AgentShape
    <3> QED
      BY <1>6, <1>7, <2>1, <3>1 DEF HeldOf, Had
  <2>5. \A t \in tasks[l] : viewer'[t.of].id = t.id /\ t.body = {t.of} \intersect Posts
    <3>1. \A t \in tasks[l] : t.of \in Viewers /\ t.id \in StreamIds
      BY DEF AgentShape, Tasks
    <3> QED
      BY <1>6, <1>7, <2>1, <3>1 DEF HeldOf, Had
  <2>6. ~Connected(l) => down'[l] = <<>> /\ heads[l] = NoHeads /\ tasks[l] = {}
    <3>1. ~Connected(l) => down[l] = <<>> /\ heads[l] = NoHeads /\ tasks[l] = {}
      BY <2>1 DEF HeldOf
    <3>2. CASE l # r
      BY <1>13, <3>1, <3>2
    <3>3. CASE l = r /\ ~Connected(l)
      <4>1. m0 = 0 /\ down[r] = <<>>
        BY <1>2, <3>1, <3>3
      <4>3. Len(down'[r]) = 0
        BY <1>2, <4>1
      <4>2. down'[r] \in Seq(Frames)
        BY <1>13
      <4> QED
        BY <3>1, <3>3, <4>1, <4>2, <4>3
    <3> QED
      BY <3>2, <3>3
  <2> QED
    BY <2>1, <2>2, <2>3, <2>4, <2>5, <2>6 DEF HeldOf, Had, Connected, NoHeads
<1>9. ASSUME NEW l \in Agents PROVE QueueOf(l)'
  <2>1. ASSUME NEW i \in DOMAIN down'[l], down'[l][i].type # "req_head", NEW n, n = i - 1,
               NEW g, g = down'[l][i]
        PROVE  Follows(l, n, g)'
    <3>1. CASE i \in DOMAIN down[l] /\ down'[l][i] = down[l][i]
      <4>1. Follows(l, i - 1, down[l][i])
        BY <2>1, <3>1 DEF Queues, QueueOf
      <4>2. n \in Nat /\ (l # r \/ n <= n0)
        <5>1. DOMAIN down[l] = 1..Len(down[l])
          BY DEF AgentShape
        <5>2. i \in 1..Len(down[l])
          BY <3>1, <5>1
        <5>3. Len(down[l]) \in Nat /\ (l = r => Len(down[l]) = n0)
          BY <1>2 DEF AgentShape
        <5> QED
          BY <2>1, <5>2, <5>3
      <4> QED
        BY <1>14, <2>1, <3>1, <4>1, <4>2
    <3>2. CASE l = r /\ \E j \in 1..m0 : i = n0 + j /\ down'[l][i] = fs[j]
      <4>1. PICK j \in 1..m0 : i = n0 + j /\ down'[l][i] = fs[j]
        BY <3>2
      <4>2. n = n0 + (j - 1) /\ n \in Nat /\ g = fs[j]
        BY <1>2, <2>1, <4>1
      <4>3. CASE j = 1 /\ Follows(r, n0, fs[1])
        <5>1. n = n0 /\ Follows(r, n, g)
          BY <1>2, <4>2, <4>3
        <5> QED
          BY <1>14, <3>2, <4>2, <5>1
      <4>4. CASE j > 1 /\ Continues(fs[j - 1], fs[j])
        <5>1. j - 1 \in 1..m0 /\ n \in 1..n /\ n + 1..n = {}
          BY <1>2, <4>2, <4>4
        <5>2. down'[r][n] = fs[j - 1]
          BY <1>2, <4>2, <5>1
        <5>3. Continues(down'[r][n], g)
          BY <4>2, <4>4, <5>2
        <5>4. \E m \in 1..n : /\ Continues(down'[r][m], g)
                              /\ \A x \in m + 1..n : down'[r][x].id # g.id
          BY <5>1, <5>3
        <5>5. Follows(r, n, g)'
          BY <5>4 DEF Follows, Continues
        <5> QED
          BY <3>2, <5>5
      <4> QED
        BY <1>2, <2>1, <4>1, <4>3, <4>4
    <3> QED
      BY <1>4, <3>1, <3>2
  <2> QED
    BY <2>1 DEF QueueOf
<1>10. Expected'
  <2>1. ASSUME NEW u \in Viewers, viewer'[u].pc \in Sending, NEW g, g = Rest(u)',
               NEW p, p = Len(down'[r])
        PROVE  Follows(r, p, g)'
    <3>1. p \in Nat /\ p = n0 + m0
      BY <1>2, <2>1
    <3>2. r # None
      BY TunnelAssumption
    <3>3. CASE u # v
      <4>1. viewer'[u] = viewer[u] /\ g = Rest(u)
        BY <1>1, <2>1, <3>3 DEF Rest
      <4>2. Follows(r, n0, g)
        BY <1>2, <2>1, <3>2, <4>1 DEF Queues, Expected
      <4>3. g.id = viewer'[u].id /\ viewer'[u].id # 0 /\ viewer'[u].life = lives
        BY <2>1, <4>1 DEF Rest, Frame, Requests, ViewerOf, Under
      <4>4. q.id # g.id
        BY <1>1, <3>3, <4>3 DEF IdsDiffer
      <4>5. \A i \in 1..m0 : fs[i].id # g.id
        BY <1>2, <4>4
      <4> QED
        BY <1>2, <1>14, <3>1, <4>2, <4>5
    <3>4. CASE u = v
      <4>1. g = R /\ q.pc \in Sending
        BY <1>1, <2>1, <3>4 DEF Rest, Frame
      <4>2. CASE m0 # 0
        <5>1. m0 \in 1..m0 /\ p \in 1..p /\ p + 1..p = {}
          BY <1>2, <3>1, <4>2
        <5>2. down'[r][p] = fs[m0]
          BY <1>2, <3>1, <5>1
        <5>3. Continues(down'[r][p], g)
          BY <1>2, <4>1, <4>2, <5>2
        <5>4. \E m \in 1..p : /\ Continues(down'[r][m], g)
                              /\ \A x \in m + 1..p : down'[r][x].id # g.id
          BY <5>1, <5>3
        <5> QED
          BY <5>4 DEF Follows, Continues
      <4>3. CASE m0 = 0
        <5>1. down[r] = <<>> /\ heads[r] = NoHeads
          BY <1>2, <4>3 DEF Queues, HeldOf
        <5>2. p = 0 /\ heads' = heads
          BY <1>2, <3>1, <4>3, <5>1 DEF agent
        <5>3. g.id \in StreamIds
          BY <4>1 DEF Frame
        <5> QED
          BY <5>1, <5>2, <5>3 DEF Follows, AtAgent, NoHeads
      <4> QED
        BY <4>2, <4>3
    <3> QED
      BY <3>3, <3>4
  <2>2. runner' = r
    OBVIOUS
  <2> QED
    BY <2>1, <2>2 DEF Expected
<1>11. FramesOnce'
  <2>1. ASSUME NEW l \in Agents, NEW m \in Agents, NEW i \in DOMAIN down'[l], NEW j \in DOMAIN down'[m]
        PROVE  /\ down'[l][i].of = down'[m][j].of /\ down'[l][i].type = down'[m][j].type
                  => l = m /\ i = j
               /\ down'[l][i].of = down'[m][j].of /\ down'[l][i].of \notin Posts
                     /\ down'[l][i].type = "req_head" /\ down'[m][j].type = "req_last"
                  => l = m /\ i < j
    <3> DEFINE Old(a, x) == x \in DOMAIN down[a] /\ down'[a][x] = down[a][x]
               New(a, x) == /\ a = r
                            /\ \E y \in 1..m0 : x = n0 + y /\ down'[a][x] = fs[y]
    <3>1. (Old(l, i) \/ New(l, i)) /\ (Old(m, j) \/ New(m, j))
      BY <1>4
    <3>2. CASE Old(l, i) /\ Old(m, j)
      BY <3>2 DEF Queues, FramesOnce
    <3>3. CASE Old(l, i) /\ New(m, j)
      <4>1. PICK y \in 1..m0 : down'[m][j] = fs[y]
        BY <3>3
      <4> QED
        BY <1>2, <3>3, <4>1
    <3>4. CASE New(l, i) /\ Old(m, j)
      <4>1. PICK y \in 1..m0 : down'[l][i] = fs[y]
        BY <3>4
      <4> QED
        <5>1. fs[y].of = v /\ DOMAIN fs = 1..m0
          BY <1>2
        <5>2. down[m][j].of = v => v \in Posts /\ fs[y].type # down[m][j].type
          BY <1>2, <3>4
        <5> QED
          BY <3>4, <4>1, <5>1, <5>2
    <3>5. CASE New(l, i) /\ New(m, j)
      <4>1. PICK x \in 1..m0 : i = n0 + x /\ down'[l][i] = fs[x]
        BY <3>5
      <4>2. PICK y \in 1..m0 : j = n0 + y /\ down'[m][j] = fs[y]
        BY <3>5
      <4>3. l = m
        BY <3>5
      <4> QED
        BY <1>2, <4>1, <4>2, <4>3
    <3> QED
      BY <3>1, <3>2, <3>3, <3>4, <3>5
  <2> QED
    BY <2>1 DEF FramesOnce
<1>12. ServedOf'
  <2>1. served' = served
    BY DEF agent
  <2>2. ASSUME NEW l \in Agents, NEW i \in DOMAIN down'[l], NEW g, g = down'[l][i]
        PROVE  FrameCount(g)'
    <3>1. CASE i \in DOMAIN down[l] /\ down'[l][i] = down[l][i]
      <4>1. FrameCount(g) /\ g.of \in Viewers
        BY <2>2, <3>1, FrameTypes DEF Queues, ServedOf
      <4>2. CASE g.of # v
        BY <1>1, <2>1, <4>1, <4>2 DEF FrameCount
      <4>3. CASE g.of = v
        BY <1>1, <2>1, <2>2, <3>1, <4>1, <4>3 DEF FrameCount
      <4> QED
        BY <4>2, <4>3
    <3>2. CASE \E j \in 1..m0 : down'[l][i] = fs[j]
      <4>1. PICK j \in 1..m0 : g = fs[j]
        BY <2>2, <3>2
      <4>2. served[v] \in Nat
        BY DEF AgentShape
      <4> QED
        BY <1>1, <1>2, <2>1, <4>1, <4>2 DEF FrameCount
    <3> QED
      BY <1>4, <3>1, <3>2
  <2> QED
    BY <2>1, <2>2 DEF Queues, ServedOf
<1> QED
  BY <1>3, <1>8, <1>9, <1>10, <1>11, <1>12 DEF Queues

\* A request that is answered without a stream.
LEMMA Refuses ==
    ASSUME IInv, NEW v \in Viewers, viewer[v].pc \in Early \union Sending,
           NEW what \in {"offline", "expired", "busy", "send failed"}, Answer(v, Says(what)),
           UNCHANGED <<kv, conn, closer, down, up, agent, runner, lives>>,
           \/ nextStreamId' = nextStreamId
           \/ nextStreamId' = nextStreamId + 1 /\ viewer[v].pc \in Early,
           streams' \in [StreamIds -> Viewers \union {None}],
           \A id \in StreamIds : streams'[id] \in {streams[id], None},
           \A id \in StreamIds : streams'[id] # v
    PROVE  IInv'
<1>1. PICK q \in ViewerRecord :
               /\ viewer' = [viewer EXCEPT ![v] = q]
               /\ q.id = viewer[v].id /\ q.life = viewer[v].life
               /\ q.pc = "answered" /\ q.result.of = None
  BY AnswerMoves DEF IInv
<1>2. q.pc \notin Early /\ q.pc \notin Under /\ q.pc \notin Sending
  BY <1>1 DEF Early, Under, Sending
<1>3. UNCHANGED <<creator, registry, runKey, expired, deleter>>
  BY DEF kv
<1> QED
  BY <1>1, <1>2, <1>3, MovesOn

\* Only a request that waits is in the table of streams.
LEMMA NoStream ==
    ASSUME IInv, NEW v \in Viewers, NEW id \in StreamIds, streams[id] = v
    PROVE  viewer[v].id = id /\ viewer[v].pc \in Under /\ viewer[v].result = None
BY TunnelAssumption DEF IInv, Requests, StreamsAwaited

LEMMA OpenStreamStep ==
    ASSUME IInv, NEW v \in Viewers, OpenStream(v)
    PROVE  IInv'
<1>1. /\ viewer[v].pc = "fetch" /\ viewer[v].pc \in Early
      /\ viewer[v].id = 0 /\ viewer[v].result = None /\ served[v] = 0
      /\ viewer[v] \in ViewerRecord
  BY DEF OpenStream, IInv, Requests, ViewerOf, Early, ObjectShape
<1>2. AgentShape /\ ObjectShape /\ KvShape /\ Requests /\ Queues
  BY DEF IInv
<1>3. UNCHANGED <<kv, conn, up, agent, runner, lives, closer>>
  BY DEF OpenStream
<1>4. \A id \in StreamIds : streams[id] # v
  BY <1>1, NoStream DEF Under, Sending
<1>5. CASE Refusal # "none"
  <2>1. PICK what : what = Refusal
    OBVIOUS
  <2>2. what \in {"offline", "expired", "busy"} /\ Answer(v, Says(what))
        /\ UNCHANGED <<down, streams, nextStreamId>>
    BY <1>5, <2>1 DEF Refusal, OpenStream
  <2> QED
    BY <1>1, <1>2, <1>3, <1>4, <2>2, Refuses DEF ObjectShape
<1>6. CASE Refusal = "none" /\ Answer(v, Says("send failed")) /\ UNCHANGED <<down, streams>>
                            /\ nextStreamId' = nextStreamId + 1
  <2>1. PICK what : what = "send failed"
    OBVIOUS
  <2>2. Answer(v, Says(what)) /\ what \in {"offline", "expired", "busy", "send failed"}
    BY <1>6, <2>1
  <2> QED
    BY <1>1, <1>2, <1>3, <1>4, <1>6, <2>2, Refuses DEF ObjectShape
<1>7. CASE /\ Refusal = "none" /\ nextStreamId' = nextStreamId + 1 /\ FALSE \in Throws
           /\ streams' = [streams EXCEPT ![NewStreamId] = v]
           /\ viewer' = [viewer EXCEPT
                ![v].pc = IF v \in Posts THEN "chunk" ELSE "waiting",
                ![v].id = NewStreamId, ![v].life = lives]
           /\ SendDown(IF v \in Posts THEN <<Frame("req_head", NewStreamId, v)>>
                       ELSE <<Frame("req_head", NewStreamId, v),
                              Frame("req_last", NewStreamId, v)>>)
  <2>1. PICK n : n = nextStreamId
    OBVIOUS
  <2>2. n \in Nat \ {0} /\ n \in StreamIds
    <3>1. LetThrough \subseteq Viewers \ {v}
      BY <1>1 DEF LetThrough
    <3>2. /\ IsFiniteSet(Viewers \ {v}) /\ Cardinality(Viewers \ {v}) = Cardinality(Viewers) - 1
          /\ Cardinality(Viewers) \in Nat
      BY TunnelAssumption, FS_RemoveElement, FS_CardinalityType
    <3>3. Cardinality(LetThrough) <= Cardinality(Viewers \ {v}) /\ Cardinality(LetThrough) \in Nat
      BY <3>1, <3>2, FS_Subset, FS_CardinalityType
    <3>4. n <= Cardinality(LetThrough) + 1 /\ n \in Nat \ {0}
      BY <1>2, <2>1 DEF Requests, IdsEnough, ObjectShape
    <3> QED
      BY <3>2, <3>3, <3>4 DEF StreamIds
  <2>3. PICK r \in Agents : r = runner
    BY <1>2, <1>7 DEF Refusal, ObjectShape
  <2>4. PICK pc : pc = IF v \in Posts THEN "chunk" ELSE "waiting"
    OBVIOUS
  <2>5. PICK q : q = [viewer[v] EXCEPT !.pc = pc, !.id = n, !.life = lives]
    OBVIOUS
  <2>6. /\ q \in ViewerRecord /\ q.pc = pc /\ q.id = n /\ q.life = lives /\ q.result = None
    BY <1>1, <1>2, <2>2, <2>4, <2>5 DEF ViewerRecord, Under, Sending, ObjectShape
  <2>7. viewer' = [viewer EXCEPT ![v] = q]
    BY <1>7, <2>1, <2>4, <2>5 DEF NewStreamId
  <2>8. /\ viewer' \in [Viewers -> ViewerRecord] /\ viewer'[v] = q
        /\ \A u \in Viewers \ {v} : viewer'[u] = viewer[u]
    BY <1>2, <2>6, <2>7 DEF ObjectShape
  <2>9. /\ streams' \in [StreamIds -> Viewers \union {None}] /\ streams'[n] = v
        /\ \A id \in StreamIds \ {n} : streams'[id] = streams[id]
    BY <1>2, <1>7, <2>1, <2>2 DEF ObjectShape, NewStreamId
  <2>10. \A u \in Viewers : viewer[u].id # 0 /\ viewer[u].life = lives => viewer[u].id < n
    BY <1>2, <2>1 DEF Requests, ViewerOf
  <2>11. \A u \in Viewers : viewer[u].id \in Nat /\ viewer[u].life \in Nat
    BY <1>2 DEF ObjectShape, ViewerRecord, StreamIds
  <2>12. q.pc \in Under /\ q.pc \notin Early /\ (q.pc \in Sending <=> v \in Posts)
    BY <2>4, <2>6 DEF Under, Sending, Early
  <2>13. IdsDiffer'
    <3>1. ASSUME NEW u \in Viewers \ {v}
          PROVE  ~(viewer[u].id = n /\ viewer[u].life = lives)
      BY <2>2, <2>10, <2>11
    <3>2. ASSUME NEW u \in Viewers, NEW w \in Viewers, viewer'[u].id # 0,
                 viewer'[u].id = viewer'[w].id, viewer'[u].life = viewer'[w].life
          PROVE  u = w
      <4>1. CASE u = v \/ w = v
        BY <2>6, <2>8, <3>1, <3>2, <4>1
      <4>2. CASE u # v /\ w # v
        BY <1>2, <2>8, <3>2, <4>2 DEF Requests, IdsDiffer
      <4> QED
        BY <4>1, <4>2
    <3> QED
      BY <3>2 DEF IdsDiffer
  <2>14. Requests'
    <3>1. ASSUME NEW u \in Viewers PROVE ViewerOf(u)'
      <4>1. n \in Nat /\ nextStreamId' = n + 1 /\ lives' = lives /\ lives \in Nat /\ served' = served
        BY <1>2, <1>3, <1>7, <2>1, <2>2 DEF agent, ObjectShape
      <4>2. CASE u = v
        BY <1>1, <2>2, <2>6, <2>8, <2>12, <4>1, <4>2 DEF ViewerOf
      <4>3. CASE u # v
        <5>1. ViewerOf(u) /\ viewer'[u] = viewer[u] /\ viewer[u].id \in Nat
          BY <1>2, <2>8, <2>11, <4>3 DEF Requests
        <5> QED
          BY <2>1, <4>1, <5>1 DEF ViewerOf
      <4> QED
        BY <4>2, <4>3
    <3>2. IdsEnough'
      <4>1. LetThrough' = LetThrough \union {v} /\ v \notin LetThrough /\ LetThrough \subseteq Viewers
        BY <1>1, <2>8, <2>12 DEF LetThrough
      <4>2. /\ Cardinality(LetThrough') = Cardinality(LetThrough) + 1
            /\ Cardinality(LetThrough) \in Nat
        BY <4>1, FS_Subset, FS_AddElement, FS_CardinalityType, TunnelAssumption
      <4>3. n <= Cardinality(LetThrough) + 1
        BY <1>2, <2>1 DEF Requests, IdsEnough
      <4> QED
        BY <1>7, <2>1, <2>2, <4>2, <4>3 DEF IdsEnough
    <3>3. StreamsAwaited'
      <4>1. ASSUME NEW id \in StreamIds, streams'[id] # None
            PROVE  /\ viewer'[streams'[id]].id = id
                   /\ viewer'[streams'[id]].pc \in Under
                   /\ viewer'[streams'[id]].result = None
        <5>1. CASE id = n
          BY <2>6, <2>8, <2>9, <2>12, <5>1
        <5>2. CASE id # n
          <6>1. streams'[id] = streams[id] /\ streams[id] \in Viewers \ {v}
            BY <1>2, <1>4, <2>9, <4>1, <5>2 DEF ObjectShape
          <6> QED
            BY <1>2, <2>8, <4>1, <6>1 DEF Requests, StreamsAwaited
        <5> QED
          BY <5>1, <5>2
      <4> QED
        BY <4>1 DEF StreamsAwaited
    <3>4. ResultsOpened' /\ OwnAnswer'
      <4>1. ASSUME NEW u \in Viewers, viewer'[u].result # None, viewer'[u].result.of # None
            PROVE  /\ viewer'[viewer'[u].result.of].id # 0
                   /\ \/ viewer'[u].result.of = u
                      \/ viewer'[viewer'[u].result.of].life < viewer'[u].life
        <5>1. u # v /\ viewer'[u] = viewer[u]
          BY <2>6, <2>8, <4>1
        <5>2. viewer[u].result.of \in Viewers
          BY <1>2, <4>1, <5>1 DEF ObjectShape, ViewerRecord, Results
        <5>3. viewer[viewer[u].result.of].id # 0
          BY <1>2, <4>1, <5>1 DEF Requests, ResultsOpened
        <5>4. viewer[u].result.of # v
          BY <1>1, <5>3
        <5>5. viewer'[viewer[u].result.of] = viewer[viewer[u].result.of]
          BY <2>8, <5>2, <5>4
        <5> QED
          BY <1>2, <4>1, <5>1, <5>3, <5>5 DEF Requests, OwnAnswer
      <4> QED
        BY <4>1 DEF ResultsOpened, OwnAnswer
    <3> QED
      BY <2>13, <3>1, <3>2, <3>3, <3>4 DEF Requests
  <2>15. PICK R : R = Frame(IF q.pc = "chunk" THEN "req_body" ELSE "req_last", q.id, v)
    OBVIOUS
  <2>16. PICK head, last : /\ head = Frame("req_head", n, v) /\ last = Frame("req_last", n, v)
    OBVIOUS
  <2>17. /\ head \in Frames /\ head.type = "req_head" /\ head.of = v /\ head.id = n
         /\ last \in Frames /\ last.type = "req_last" /\ last.of = v /\ last.id = n
    BY <2>2, <2>16 DEF Frame, Frames
  <2>18. PICK fs : fs = IF conn[r] = "open" THEN IF v \in Posts THEN <<head>> ELSE <<head, last>>
                        ELSE <<>>
    OBVIOUS
  <2>19. fs \in Seq(Frames) /\ down' = [down EXCEPT ![r] = @ \o fs]
    <3>1. fs \in Seq(Frames)
      BY <2>17, <2>18
    <3>2. CASE conn[r] = "open"
      <4>1. SendDown(fs)
        <5>1. CASE v \in Posts
          <6>1. fs = <<Frame("req_head", NewStreamId, v)>>
            BY <2>1, <2>16, <2>18, <3>2, <5>1 DEF NewStreamId
          <6> QED
            BY <1>7, <5>1, <6>1
        <5>2. CASE v \notin Posts
          <6>1. fs = <<Frame("req_head", NewStreamId, v), Frame("req_last", NewStreamId, v)>>
            BY <2>1, <2>16, <2>18, <3>2, <5>2 DEF NewStreamId
          <6> QED
            BY <1>7, <5>2, <6>1
        <5> QED
          BY <5>1, <5>2
      <4> QED
        BY <2>3, <3>1, <3>2, <4>1 DEF SendDown
    <3>3. CASE conn[r] # "open"
      <4>1. down' = down /\ fs = <<>> /\ down[r] \in Seq(Frames)
        BY <1>2, <1>7, <2>3, <2>18, <3>3 DEF SendDown, AgentShape
      <4>2. down[r] \o fs = down[r]
        BY <4>1
      <4> QED
        BY <1>2, <3>1, <4>1, <4>2 DEF AgentShape
    <3> QED
      BY <3>1, <3>2, <3>3
  <2>20. /\ Len(fs) = 0 => ~Connected(r)
         /\ Len(fs) # 0 => Connected(r)
    <3>1. conn[r] = "open" \/ conn[r] = "ended"
      BY <1>7, <2>3 DEF Throws
    <3> QED
      BY <2>18, <3>1 DEF Connected
  <2>21. \A l \in Agents : \A i \in DOMAIN down[l] : down[l][i].of # v
    <3>1. ASSUME NEW l \in Agents, NEW i \in DOMAIN down[l] PROVE down[l][i].of # v
      <4>1. viewer[down[l][i].of].id = down[l][i].id /\ down[l][i].id \in StreamIds
        BY <1>2, FrameTypes DEF Queues, HeldOf, Had
      <4> QED
        BY <1>1, <4>1 DEF StreamIds
    <3> QED
      BY <3>1
  <2>22. ASSUME NEW i \in 1..Len(fs)
         PROVE  /\ fs[i].of = v /\ fs[i].id = q.id
                /\ fs[i].type \in {"req_head", "req_body", "req_last"}
                /\ fs[i].type # "req_head" =>
                      \/ i = 1 /\ Follows(r, Len(down[r]), fs[1])
                      \/ i > 1 /\ Continues(fs[i - 1], fs[i])
                /\ v \notin Posts => fs[i].type # "req_body" /\ served[v] = 0
                /\ fs[i].type = "req_body" => q.pc # "chunk"
                /\ fs[i].type = "req_last" => q.pc \notin Sending /\ served[v] = 0
                /\ \A j \in 1..Len(fs) :
                      /\ fs[i].type = fs[j].type => i = j
                      /\ fs[i].type = "req_head" /\ fs[j].type = "req_last" => i < j
    <3>1. CASE fs = <<head>>
      <4>1. Len(fs) = 1 /\ fs[1] = head /\ i = 1
        BY <2>22, <3>1
      <4>2. \A j \in 1..Len(fs) : j = 1
        BY <4>1
      <4>3. v \notin Posts => served[v] = 0
        BY <1>1
      <4>4. fs[i] = head /\ head.type # "req_body" /\ head.type # "req_last"
        BY <2>17, <4>1
      <4> QED
        BY <2>6, <2>17, <4>1, <4>2, <4>3, <4>4
    <3>2. CASE fs = <<head, last>> /\ v \notin Posts
      <4>1. Continues(head, last)
        BY <2>17, <3>2 DEF Continues
      <4>2. Len(fs) = 2 /\ fs[1] = head /\ fs[2] = last
        BY <3>2
      <4>3. i = 1 \/ (i = 2 /\ i - 1 = 1)
        BY <2>22, <4>2
      <4> QED
        BY <1>1, <2>6, <2>12, <2>17, <3>2, <4>1, <4>2, <4>3
    <3>3. CASE fs = <<>>
      BY <2>22, <3>3
    <3> QED
      BY <2>18, <3>1, <3>2, <3>3
  <2>23. Len(fs) # 0 /\ q.pc \in Sending => Continues(fs[Len(fs)], R)
    <3>1. ASSUME Len(fs) # 0, v \in Posts PROVE Continues(fs[Len(fs)], R)
      <4>1. fs = <<head>>
        BY <2>18, <3>1
      <4>2. q.pc = "chunk" /\ R.type = "req_body" /\ R.id = n /\ R.of = v
        BY <2>4, <2>6, <2>15, <3>1 DEF Frame
      <4>3. Len(fs) = 1 /\ fs[1] = head
        BY <4>1
      <4> QED
        BY <2>17, <3>1, <4>2, <4>3 DEF Continues
    <3> QED
      BY <2>12, <3>1
  <2>27. NewFrames(r, v, q, fs)
    BY <2>22 DEF NewFrames
  <2>28. OldFrames(v, q, fs)
    BY <2>21 DEF OldFrames
  <2>24. Queues' /\ AgentShape'
    <3>2. UNCHANGED <<up, agent, conn, runner, lives>>
      BY <1>3
    <3>3. viewer[v].id \in {0, q.id} /\ q.id \in StreamIds /\ q.life = lives
      BY <1>1, <2>2, <2>6
    <3>4. SendsAs(r, v, q, fs, R)
      BY <1>1, <2>3, <2>7, <2>13, <2>15, <2>19, <2>20, <2>23, <2>27, <2>28, <3>2, <3>3
         DEF SendsAs
    <3> QED
      BY <1>2, <2>6, <2>19, <3>4, Sends
  <2>25. ObjectShape' /\ KvShape'
    <3>1. nextStreamId' \in Nat \ {0}
      BY <1>7, <2>1, <2>2
    <3> QED
      BY <1>2, <1>3, <2>8, <2>9, <3>1 DEF ObjectShape, KvShape, kv
  <2>26. WaitersAreTold' /\ StatusShown'
    <3>1. runner' = r /\ r # None
      BY <1>3, <2>3, TunnelAssumption
    <3> QED
      BY <3>1 DEF WaitersAreTold, StatusShown
  <2> QED
    BY <2>14, <2>24, <2>25, <2>26 DEF IInv
<1>8. CASE Refusal = "none"
  <2>1. /\ nextStreamId' = nextStreamId + 1
        /\ \E throws \in Throws :
             IF throws THEN Answer(v, Says("send failed")) /\ UNCHANGED <<down, streams>>
             ELSE /\ streams' = [streams EXCEPT ![NewStreamId] = v]
                  /\ viewer' = [viewer EXCEPT
                       ![v].pc = IF v \in Posts THEN "chunk" ELSE "waiting",
                       ![v].id = NewStreamId, ![v].life = lives]
                  /\ SendDown(IF v \in Posts THEN <<Frame("req_head", NewStreamId, v)>>
                              ELSE <<Frame("req_head", NewStreamId, v),
                                     Frame("req_last", NewStreamId, v)>>)
    BY <1>8 DEF OpenStream
  <2>2. Throws \subseteq BOOLEAN
    BY DEF Throws
  <2>3. PICK throws \in Throws :
             IF throws THEN Answer(v, Says("send failed")) /\ UNCHANGED <<down, streams>>
             ELSE /\ streams' = [streams EXCEPT ![NewStreamId] = v]
                  /\ viewer' = [viewer EXCEPT
                       ![v].pc = IF v \in Posts THEN "chunk" ELSE "waiting",
                       ![v].id = NewStreamId, ![v].life = lives]
                  /\ SendDown(IF v \in Posts THEN <<Frame("req_head", NewStreamId, v)>>
                              ELSE <<Frame("req_head", NewStreamId, v),
                                     Frame("req_last", NewStreamId, v)>>)
    BY <2>1, Zenon
  <2>4. CASE throws = TRUE
    BY <1>6, <1>8, <2>1, <2>3, <2>4, Zenon
  <2>5. CASE throws = FALSE
    BY <1>7, <1>8, <2>1, <2>3, <2>5, Zenon
  <2> QED
    BY <2>2, <2>3, <2>4, <2>5
<1> QED
  BY <1>5, <1>8

LEMMA SendBodyStep ==
    ASSUME IInv, NEW v \in Viewers, SendBody(v)
    PROVE  IInv'
<1>1. /\ AgentShape /\ ObjectShape /\ KvShape /\ Requests /\ Queues
      /\ viewer[v] \in ViewerRecord
  BY DEF IInv, ObjectShape
<1>2. PICK id : id = viewer[v].id
  OBVIOUS
<1>3. /\ viewer[v].pc \in {"chunk", "last"} /\ viewer[v].pc \in Sending /\ viewer[v].pc \in Under
      /\ UNCHANGED <<kv, conn, up, agent, runner, nextStreamId, lives, closer>>
  BY DEF SendBody, Sending, Under
<1>4. /\ id \in StreamIds /\ viewer[v].life = lives /\ v \in Posts /\ served[v] = 0
  BY <1>1, <1>2, <1>3 DEF Requests, ViewerOf, ViewerRecord
<1>5. \A x \in StreamIds : streams[x] = v => x = id /\ viewer[v].result = None
  BY <1>2, NoStream
<1>6. CASE Answer(v, Says("send failed")) /\ streams' = [streams EXCEPT ![id] = None] /\ UNCHANGED down
  <2>1. PICK what : what = "send failed"
    OBVIOUS
  <2>2. Answer(v, Says(what)) /\ what \in {"offline", "expired", "busy", "send failed"}
    BY <1>6, <2>1
  <2>3. /\ streams' \in [StreamIds -> Viewers \union {None}]
        /\ \A x \in StreamIds : streams'[x] \in {streams[x], None}
        /\ \A x \in StreamIds : streams'[x] # v
    BY <1>1, <1>4, <1>5, <1>6, TunnelAssumption DEF ObjectShape
  <2> QED
    BY <1>3, <1>6, <2>2, <2>3, Refuses
<1>7. CASE /\ FALSE \in Throws
           /\ viewer' = [viewer EXCEPT ![v].pc = IF @ = "chunk" THEN "last" ELSE "waiting"]
           /\ SendDown(<<Frame(IF viewer[v].pc = "chunk" THEN "req_body" ELSE "req_last", id, v)>>)
           /\ UNCHANGED streams
  <2>1. PICK r \in Agents : r = runner
    BY <1>1, <1>7 DEF Throws, ObjectShape
  <2>2. conn[r] = "open" \/ conn[r] = "ended"
    BY <1>7, <2>1, TunnelAssumption DEF Throws
  <2>3. PICK pc : pc = IF viewer[v].pc = "chunk" THEN "last" ELSE "waiting"
    OBVIOUS
  <2>4. PICK q : q = [viewer[v] EXCEPT !.pc = pc]
    OBVIOUS
  <2>5. /\ q \in ViewerRecord /\ q.pc = pc /\ q.id = id /\ q.life = lives
        /\ q.result = viewer[v].result
    BY <1>1, <1>2, <1>4, <2>3, <2>4 DEF ViewerRecord, Under, Sending
  <2>6. viewer' = [viewer EXCEPT ![v] = q]
    BY <1>7, <2>3, <2>4
  <2>7. /\ q.pc \in Under /\ q.pc \notin Early /\ q.pc # "chunk"
        /\ q.pc \in Sending <=> viewer[v].pc = "chunk"
    BY <1>3, <2>3, <2>5 DEF Under, Sending, Early
  <2>8. Requests' /\ viewer' \in [Viewers -> ViewerRecord]
    <3>1. /\ nextStreamId' = nextStreamId /\ lives' = lives /\ served' = served
          /\ q.id = viewer[v].id /\ q.life = viewer[v].life
      BY <1>2, <1>3, <1>4, <2>5 DEF agent
    <3>2. /\ q.pc \in Early => viewer[v].pc \in Early /\ q.result = None
          /\ q.pc \in Under => viewer[v].pc \in Under
          /\ q.pc \in Sending => viewer[v].pc \in Sending
          /\ q.result # None => q.result = viewer[v].result \/ q.result.of = None
      BY <1>3, <2>5, <2>7
    <3>3. /\ \A x \in StreamIds : streams'[x] \in {streams[x], None}
          /\ \A x \in StreamIds : streams'[x] = v => q.pc \in Under /\ q.result = None
      BY <1>5, <1>7, <2>5, <2>7
    <3> QED
      BY <1>1, <2>5, <2>6, <3>1, <3>2, <3>3, RequestMoves
  <2>9. PICK f : f = Rest(v)
    OBVIOUS
  <2>10. /\ f \in Frames /\ f.of = v /\ f.id = id
         /\ f.type = IF viewer[v].pc = "chunk" THEN "req_body" ELSE "req_last"
         /\ f = Frame(IF viewer[v].pc = "chunk" THEN "req_body" ELSE "req_last", id, v)
    BY <1>2, <1>4, <2>9 DEF Rest, Frame, Frames
  <2>11. PICK fs : fs = IF conn[r] = "open" THEN <<f>> ELSE <<>>
    OBVIOUS
  <2>12. fs \in Seq(Frames) /\ down' = [down EXCEPT ![r] = @ \o fs]
    <3>1. fs \in Seq(Frames)
      BY <2>10, <2>11
    <3>2. CASE conn[r] = "open"
      BY <1>7, <2>1, <2>10, <2>11, <3>2 DEF SendDown
    <3>3. CASE conn[r] # "open"
      <4>1. down' = down /\ fs = <<>> /\ down[r] \in Seq(Frames)
        BY <1>1, <1>7, <2>1, <2>11, <3>3 DEF SendDown, AgentShape
      <4>2. down[r] \o fs = down[r]
        BY <4>1
      <4> QED
        BY <1>1, <3>1, <4>1, <4>2 DEF AgentShape
    <3> QED
      BY <3>1, <3>2, <3>3
  <2>13. /\ Len(fs) = 0 => ~Connected(r)
         /\ Len(fs) # 0 => Connected(r)
    BY <2>2, <2>11 DEF Connected
  <2>14. PICK R : R = Frame(IF q.pc = "chunk" THEN "req_body" ELSE "req_last", q.id, v)
    OBVIOUS
  <2>15. Follows(r, Len(down[r]), f)
    BY <1>1, <1>3, <2>1, <2>9, TunnelAssumption DEF Queues, Expected
  <2>16. NewFrames(r, v, q, fs)
    <3>1. ASSUME NEW i \in 1..Len(fs) PROVE i = 1 /\ Len(fs) = 1 /\ fs[i] = f /\ fs[1] = f
      BY <2>11, <3>1
    <3>2. f.type = "req_last" => q.pc \notin Sending
      BY <2>7, <2>10
    <3>3. f.type \in {"req_body", "req_last"}
      BY <2>10
    <3> QED
      BY <1>4, <2>5, <2>7, <2>10, <2>15, <3>1, <3>2, <3>3 DEF NewFrames
  <2>17. OldFrames(v, q, fs)
    <3>1. ASSUME NEW l \in Agents, NEW i \in DOMAIN down[l], down[l][i].of = v
          PROVE  /\ down[l][i].type = "req_body" => viewer[v].pc # "chunk"
                 /\ down[l][i].type # "req_last"
      <4>1. FrameCount(down[l][i])
        BY <1>1 DEF Queues, ServedOf
      <4> QED
        BY <1>3, <3>1, <4>1 DEF FrameCount
    <3>2. ASSUME NEW j \in 1..Len(fs) PROVE fs[j] = f
      BY <2>11, <3>2
    <3> QED
      BY <1>4, <2>7, <2>10, <3>1, <3>2 DEF OldFrames
  <2>18. Len(fs) # 0 /\ q.pc \in Sending => Continues(fs[Len(fs)], R)
    <3>1. ASSUME Len(fs) # 0, viewer[v].pc = "chunk" PROVE Continues(fs[Len(fs)], R)
      <4>1. Len(fs) = 1 /\ fs[1] = f
        BY <2>11, <3>1
      <4>2. R.type = "req_last" /\ R.id = id /\ R.of = v
        BY <2>5, <2>7, <2>14 DEF Frame
      <4> QED
        BY <1>4, <2>10, <3>1, <4>1, <4>2 DEF Continues
    <3> QED
      BY <2>7, <3>1
  <2>19. Queues' /\ AgentShape'
    <3>1. UNCHANGED <<up, agent, conn, runner, lives>>
      BY <1>3
    <3>2. viewer[v].id \in {0, q.id} /\ q.id \in StreamIds /\ q.life = lives
      BY <1>2, <1>4, <2>5
    <3>3. viewer[v].pc \notin Early /\ IdsDiffer'
      BY <1>3, <2>8 DEF Early, Requests
    <3>4. SendsAs(r, v, q, fs, R)
      BY <2>1, <2>6, <2>12, <2>13, <2>14, <2>16, <2>17, <2>18, <3>1, <3>2, <3>3 DEF SendsAs
    <3> QED
      BY <1>1, <2>5, <2>12, <3>4, Sends
  <2>20. ObjectShape' /\ KvShape'
    BY <1>1, <1>3, <1>7, <2>8 DEF ObjectShape, KvShape, kv
  <2>21. WaitersAreTold' /\ StatusShown'
    <3>1. runner' = r /\ r # None
      BY <1>3, <2>1, TunnelAssumption
    <3> QED
      BY <3>1 DEF WaitersAreTold, StatusShown
  <2> QED
    BY <2>8, <2>19, <2>20, <2>21 DEF IInv
<1> QED
  BY <1>2, <1>6, <1>7 DEF SendBody

-----------------------------------------------------------------------------
(***************************************************************************)
(* The tunnel: its invariant, and what follows from it.                    *)
(***************************************************************************)
LEMMA InitIInv == Init => IInv
<1> SUFFICES ASSUME Init PROVE IInv
  OBVIOUS
<1>1. KvShape
  BY DEF Init, KvShape, ConnType, CloserType
<1>2. AgentShape
  <2>1. NoHeads \in [StreamIds -> Viewers \union {None}] /\ NoBodies \in [StreamIds -> SUBSET Viewers]
    BY DEF NoHeads, NoBodies
  <2> QED
    BY <2>1 DEF Init, AgentShape
<1>3. ObjectShape
  <2>1. \A r : r = [pc |-> "idle", id |-> 0, life |-> 0, result |-> None] => r \in ViewerRecord
    BY TunnelAssumption DEF ViewerRecord, Early
  <2>2. NoHeads \in [StreamIds -> Viewers \union {None}]
    BY DEF NoHeads
  <2>3. viewer \in [Viewers -> ViewerRecord]
    BY <2>1 DEF Init
  <2>4. lives \in 0..MaxLives
    BY TunnelAssumption DEF Init
  <2> QED
    BY <2>2, <2>3, <2>4 DEF Init, ObjectShape
<1>4. \A v \in Viewers : /\ viewer[v].pc = "idle" /\ viewer[v].id = 0 /\ viewer[v].life = 0
                         /\ viewer[v].result = None /\ served[v] = 0
  BY DEF Init
<1>5. \A id \in StreamIds : streams[id] = None
  BY DEF Init, NoHeads
<1>6. Requests
  <2>1. \A v \in Viewers : ViewerOf(v)
    BY <1>4 DEF ViewerOf, Early, Under, Sending, Init
  <2>2. IdsEnough
    <3>1. LetThrough = {} /\ nextStreamId = 1
      BY <1>4 DEF LetThrough, Early, Init
    <3> QED
      BY <3>1, FS_EmptySet DEF IdsEnough
  <2> QED
    BY <1>4, <1>5, <2>1, <2>2 DEF Requests, IdsDiffer, StreamsAwaited, ResultsOpened, OwnAnswer
<1>7. \A k \in Agents : /\ down[k] = <<>> /\ up[k] = <<>> /\ heads[k] = NoHeads /\ tasks[k] = {}
                        /\ DOMAIN down[k] = {} /\ DOMAIN up[k] = {}
  BY DEF Init
<1>8. Queues
  <2>1. \A k \in Agents : HeldOf(k)
    BY <1>7 DEF HeldOf, NoHeads
  <2>2. Expected
    BY DEF Init, Expected
  <2>3. ServedOf
    BY <1>4, <1>7 DEF ServedOf
  <2> QED
    BY <1>7, <2>1, <2>2, <2>3 DEF Queues, QueueOf, FramesOnce
<1>9. WaitersAreTold /\ StatusShown
  <2>1. registry # "connected"
    BY TunnelAssumption DEF Init
  <2> QED
    BY <1>5, <2>1 DEF WaitersAreTold, StatusShown, Streams
<1> QED
  BY <1>1, <1>2, <1>3, <1>6, <1>8, <1>9 DEF IInv

LEMMA StepIInv == IInv /\ [Next]_vars => IInv'
<1> SUFFICES ASSUME IInv, [Next]_vars PROVE IInv'
  OBVIOUS
<1>1. CASE CreateTunnel \/ Expire \/ DeleteTunnel
  BY <1>1, RegistrySteps
<1>2. CASE Hibernate
  BY <1>2, HibernateStep
<1>3. ASSUME NEW k \in Agents,
             \/ Connect(k) \/ ConnectStatus(k) \/ Attach(k)
             \/ HandleFrame(k) \/ LocalAnswer(k) \/ AgentEnds(k)
             \/ WebSocketMessage(k) \/ WebSocketClose(k) \/ CloseStatus(k) \/ CloseStreams(k)
      PROVE  IInv'
  BY <1>3, ConnectSteps, AttachStep, HandleFrameStep, LocalAnswerStep, AgentEndsStep,
     WebSocketMessageStep, WebSocketCloseStep, CloseStatusStep, CloseStreamsStep
<1>4. ASSUME NEW v \in Viewers, Request(v) \/ Handler(v) \/ Timeout(v) PROVE IInv'
  BY <1>4, RequestStep, OpenStreamStep, SendBodyStep, AwaitResponseStep, TimeoutStep DEF Handler
<1>5. CASE UNCHANGED vars
  <2>1. UNCHANGED <<kv, conn, down, up, agent, session, closer, viewer>>
    BY <1>5 DEF vars
  <2>2. AgentShape' /\ ObjectShape' /\ Requests' /\ Queues'
    <3>1. \A k \in Agents : Connected(k) => Connected(k)'
      BY <2>1 DEF Connected
    <3> QED
      BY <2>1, <3>1, RestStays DEF IInv
  <2> QED
    BY <2>1, <2>2 DEF IInv, KvShape, WaitersAreTold, StatusShown, Streams, kv, session
<1> QED
  BY <1>1, <1>2, <1>3, <1>4, <1>5 DEF Next

LEMMA Invariance == Spec => []IInv
BY InitIInv, StepIInv, PTL DEF Spec

LEMMA SoundFromIInv == IInv => AnswersSound
<1> SUFFICES ASSUME IInv PROVE AnswersSound
  OBVIOUS
<1>1. nextStreamId \in 1..Cardinality(Viewers) + 1
  <2>1. LetThrough \subseteq Viewers
    BY DEF LetThrough
  <2>2. /\ Cardinality(LetThrough) <= Cardinality(Viewers)
        /\ Cardinality(LetThrough) \in Nat /\ Cardinality(Viewers) \in Nat
    BY <2>1, FS_Subset, FS_CardinalityType, TunnelAssumption
  <2> QED
    BY <2>2 DEF IInv, ObjectShape, Requests, IdsEnough
<1>2. served \in [Viewers -> 0..2]
  <2>1. \A v \in Viewers : served[v] \in Nat /\ served[v] <= 2
    BY DEF IInv, AgentShape, Queues, ServedOf
  <2> QED
    BY <2>1 DEF IInv, AgentShape
<1>3. viewer \in [Viewers -> [pc : {"idle", "metadata", "fetch", "chunk", "last", "waiting",
                                    "answered"},
                              id : StreamIds \union {0}, life : 0..MaxLives,
                              result : Results \union {None}]]
  <2>1. Early \union Under \union {"answered"}
          = {"idle", "metadata", "fetch", "chunk", "last", "waiting", "answered"}
    BY DEF Early, Under, Sending
  <2> QED
    BY <2>1 DEF IInv, ObjectShape, ViewerRecord
<1>4. TypeOK
  BY <1>1, <1>2, <1>3
     DEF IInv, TypeOK, KvShape, AgentShape, ObjectShape, ConnType, CloserType
<1>5. OwnAnswer
  BY DEF IInv, Requests
<1>6. ForwardedWhole
  BY DEF IInv, Queues, HeldOf, ForwardedWhole
<1>7. PostOnce
  BY TunnelAssumption DEF IInv, Queues, ServedOf, PostOnce
<1> QED
  BY <1>4, <1>5, <1>6, <1>7 DEF AnswersSound

\* However runners replace each other, hibernations restart the numbering of
\* streams, frames are lost and connections end: a viewer gets the answer to
\* their own request, or to one from before the object was last hibernated, and
\* an agent asks the local server for whole requests, a form no more than once
\* (tunnel-session.ts, preview-tunnel-agent.ts).
THEOREM AnswersCorrect == Spec => []AnswersSound
<1> QED
  BY Invariance, SoundFromIInv, PTL

\* A step that brings a deleted tunnel's entry back is a status update.
Revived == deleter = "done" /\ registry = None /\ registry' # None =>
             \E k \in Agents : conn[k] = "put" \/ closer[k] = "put"

LEMMA RevivedByUpdate == IInv /\ [Next]_vars => Revived
<1> SUFFICES ASSUME IInv, [Next]_vars, deleter = "done", registry = None, registry' # None
             PROVE  \E k \in Agents : conn[k] = "put" \/ closer[k] = "put"
  BY DEF Revived
<1>1. creator = "done"
  BY DEF IInv, KvShape
<1>2. ASSUME UNCHANGED kv PROVE FALSE
  BY <1>2 DEF kv
<1>3. CASE CreateTunnel \/ Expire \/ DeleteTunnel
  BY <1>1, <1>3 DEF CreateTunnel, Expire, DeleteTunnel, ReadMetadata
<1>4. ASSUME NEW k \in Agents, ConnectStatus(k) \/ CloseStatus(k)
      PROVE  conn[k] = "put" \/ closer[k] = "put"
  BY <1>4 DEF ConnectStatus, CloseStatus, ReadMetadata
<1>5. ASSUME NEW k \in Agents,
             \/ Connect(k) \/ Attach(k) \/ HandleFrame(k) \/ LocalAnswer(k) \/ AgentEnds(k)
             \/ WebSocketMessage(k) \/ WebSocketClose(k) \/ CloseStreams(k)
      PROVE  UNCHANGED kv
  BY <1>5 DEF Connect, Attach, HandleFrame, LocalAnswer, AgentEnds, WebSocketMessage,
     WebSocketClose, CloseStreams
<1>6. ASSUME NEW v \in Viewers, Request(v) \/ Handler(v) \/ Timeout(v)
      PROVE  UNCHANGED kv \/ registry' \in {registry, None}
  BY <1>6 DEF Request, Handler, ViewerMetadata, ReadMetadata, OpenStream, SendBody,
     AwaitResponse, Timeout
<1>7. CASE Hibernate
  BY <1>2, <1>7 DEF Hibernate
<1>8. CASE UNCHANGED vars
  BY <1>2, <1>8 DEF vars
<1> QED
  BY <1>2, <1>3, <1>4, <1>5, <1>6, <1>7, <1>8 DEF Next

\* Whoever waits when the runner is gone is about to be told, the registry says
\* connected of a tunnel without a runner only where a handler is between two
\* calls or failed, and after a deletion only such an update revives the entry
\* (tunnel-session.ts, tunnel-api.ts).
THEOREM RegistryCorrect == Spec => RegistryFollows
<1>1. IInv => WaitersAreTold /\ StatusShown
  BY DEF IInv
<1>2. Spec => [](WaitersAreTold /\ StatusShown)
  BY <1>1, Invariance, PTL
<1>3. Spec => [][Revived]_vars
  BY Invariance, RevivedByUpdate, PTL DEF Spec
<1>4. Spec => DeletionStays
  BY <1>3 DEF DeletionStays, Revived
<1> QED
  BY <1>2, <1>4, PTL DEF RegistryFollows

-----------------------------------------------------------------------------
(***************************************************************************)
(* The relay: the inductive invariant.                                     *)
(***************************************************************************)
ClientShape ==
    /\ socket \in [Conns -> {"none", "open", "closed"}]
    /\ user \in [Conns -> Users \cup {Null}]
    /\ asked \in [Conns -> SUBSET Runs]
    /\ acked \in [Conns -> SUBSET Runs]

Message ==
    [conn : Conns, action : {"subscribeRun", "unsubscribeRun"}, run : Runs,
     workspace : Workspaces, phase : {"received", "checked"}]

DeletionRecord == [conn : Conns, keys : {Null} \cup SUBSET Keys, by : {"client", "relay"}]

DeletionOf(d) ==
    d \in DeletionRecord /\ (d.keys = Null \/ d.keys \subseteq KeysOf(d.conn, Keys))

TableShape ==
    /\ table \subseteq Keys /\ behind \subseteq Keys /\ listed \subseteq Runs
    /\ messages \subseteq Message
    /\ \A d \in deletes : DeletionOf(d)

RelayRecord ==
    [phase : {"idle", "next", "posting"}, first : Nat, at : Nat, last : Nat,
     attempt : 1..RetryAttempts + 1, targets : SUBSET Conns, due : SUBSET Conns]

StreamRecord ==
    [name : {"INSERT", "MODIFY", "REMOVE"}, run : Runs, user : Users \cup {Null}]

BatchShape ==
    /\ stream \in Seq(StreamRecord)
    /\ relay \in RelayRecord
    /\ relay.first \in 1..Len(stream) + 1 /\ relay.last \in 0..Len(stream)
    /\ relay.phase # "idle" => relay.at \in relay.first..relay.last + 1
    /\ relay.phase = "posting" => relay.at <= relay.last
    /\ dropped \subseteq 1..Len(stream)
    /\ received \in [Conns -> SUBSET (1..Len(stream))]

Theirs(c, r) == r \in asked[c] /\ RunUser[r] = user[c]

\* A client is told of nothing it did not ask for, and it asks over a socket.
\* The connection's own row is there as long as the socket is open.
Clients ==
    \A c \in Conns :
        /\ acked[c] \subseteq asked[c]
        /\ asked[c] # {} => socket[c] # "none"
        /\ socket[c] = "open" => Meta(c) \in table

\* Every subscription's row is of the client that asked for it and may have it.
Rows == \A c \in Conns, r \in Runs : Topic(r, c) \in table \cup behind => Theirs(c, r)

\* A message that passed its check may subscribe; a client that unsubscribes
\* does not count on the subscription any more.
Pending ==
    \A m \in messages :
        /\ m.action = "subscribeRun" => m.run \in asked[m.conn]
        /\ m.phase = "checked" => m.action = "subscribeRun" /\ Theirs(m.conn, m.run)
        /\ m.action = "unsubscribeRun" => m.run \notin acked[m.conn]

\* Only connections whose socket has closed are deleted.
Deletions == \A d \in deletes : socket[d.conn] = "closed"

\* An event names the run's owner or nobody.
Records == \A n \in DOMAIN stream : stream[n].user \in {RunUser[stream[n].run], Null}

\* The connections of the record that is posted.
Posting ==
    relay.phase = "posting" =>
        /\ \A c \in relay.targets : Theirs(c, stream[relay.at].run)
        /\ \A c \in relay.due : asked[c] # {}

AckedStays == \A c \in Conns : socket[c] = "open" => \A r \in acked[c] : Topic(r, c) \in table

Delivered ==
    relay.phase = "posting" =>
        \A c \in relay.due \ relay.targets : socket[c] = "open" => relay.at \in received[c]

RelayInv ==
    /\ ClientShape /\ TableShape /\ BatchShape
    /\ Clients /\ Rows /\ Pending /\ Deletions
    /\ Records /\ Posting
    /\ OwnEventsOnly /\ AckedStays /\ Delivered

-----------------------------------------------------------------------------
(***************************************************************************)
(* Keys.                                                                   *)
(***************************************************************************)
LEMMA KeysDiffer ==
    ASSUME NEW c \in Conns, NEW d \in Conns, NEW r \in Runs, NEW q \in Runs
    PROVE  /\ Meta(c) \in Keys /\ Topic(r, c) \in Keys
           /\ Meta(c) # Topic(r, d)
           /\ Meta(c) = Meta(d) => c = d
           /\ Topic(r, c) = Topic(q, d) => r = q /\ c = d
BY RelayAssumption DEF Meta, Topic, Keys

\* The keys of one connection are no keys of another.
LEMMA KeysApart ==
    ASSUME NEW c \in Conns, NEW d \in Conns, c # d, NEW view
    PROVE  /\ Meta(c) \notin KeysOf(d, view)
           /\ \A r \in Runs : Topic(r, c) \notin KeysOf(d, view)
BY DEF Meta, Topic, KeysOf

-----------------------------------------------------------------------------
(***************************************************************************)
(* What stays when clients only gain.                                      *)
(***************************************************************************)
ClientsGain ==
    \A c \in Conns :
        /\ asked[c] \subseteq asked'[c]
        /\ asked[c] # {} => user'[c] = user[c]
        /\ socket[c] = "closed" => socket'[c] = "closed"
        /\ asked[c] # {} /\ socket'[c] = "open" => socket[c] = "open"

LEMMA SameClients == UNCHANGED client => ClientsGain
BY DEF client, ClientsGain

LEMMA TheirsStays ==
    ASSUME ClientsGain, NEW c \in Conns, NEW r, Theirs(c, r)
    PROVE  Theirs(c, r)'
BY DEF ClientsGain, Theirs

LEMMA RowsStay ==
    ASSUME Rows, ClientsGain, table' \cup behind' \subseteq table \cup behind
    PROVE  Rows'
BY TheirsStays DEF Rows, Topic

LEMMA DeletionsStay ==
    ASSUME TableShape, Deletions, ClientsGain, deletes' \subseteq deletes
    PROVE  Deletions'
BY DEF TableShape, DeletionOf, DeletionRecord, Deletions, ClientsGain

LEMMA PendingStays ==
    ASSUME TableShape, Pending, ClientsGain, messages' \subseteq messages,
           \A c \in Conns : acked'[c] \subseteq acked[c]
    PROVE  Pending'
<1> SUFFICES ASSUME NEW m \in messages'
             PROVE  /\ m.action = "subscribeRun" => m.run \in asked'[m.conn]
                    /\ m.phase = "checked" => m.action = "subscribeRun" /\ Theirs(m.conn, m.run)'
                    /\ m.action = "unsubscribeRun" => m.run \notin acked'[m.conn]
  BY DEF Pending
<1>1. m \in messages /\ m.conn \in Conns
  BY DEF TableShape, Message
<1>2. m.phase = "checked" => m.action = "subscribeRun" /\ Theirs(m.conn, m.run)'
  BY <1>1, TheirsStays DEF Pending
<1> QED
  BY <1>1, <1>2 DEF Pending, ClientsGain

\* The relay is where it was.
LEMMA RelayStays ==
    ASSUME BatchShape, Records, Posting, OwnEventsOnly, Delivered, ClientsGain,
           UNCHANGED <<stream, relay, received>>
    PROVE  Records' /\ Posting' /\ OwnEventsOnly' /\ Delivered'
<1>1. \A c \in Conns : asked[c] # {} => asked'[c] # {} /\ user'[c] = user[c]
  BY DEF ClientsGain
<1>2. relay.targets \subseteq Conns /\ relay.due \subseteq Conns
  BY DEF BatchShape, RelayRecord
<1>3. Records'
  BY DEF Records
<1>4. Posting'
  BY <1>1, <1>2, TheirsStays DEF Posting
<1>5. OwnEventsOnly'
  BY TheirsStays DEF OwnEventsOnly, Theirs
<1>6. Delivered'
  BY <1>2 DEF Delivered, Posting, ClientsGain
<1> QED
  BY <1>3, <1>4, <1>5, <1>6

LEMMA BatchShapeStays ==
    ASSUME BatchShape, UNCHANGED <<stream, relay, dropped, received>>
    PROVE  BatchShape'
BY DEF BatchShape

\* Rows that are only added, or that are removed of a closed connection.
LEMMA AckedStaysIf ==
    ASSUME AckedStays, UNCHANGED <<socket, acked>>,
           \A c \in Conns, r \in Runs :
             socket[c] = "open" /\ r \in acked[c] /\ Topic(r, c) \in table => Topic(r, c) \in table',
           ClientShape
    PROVE  AckedStays'
BY DEF AckedStays, ClientShape, Topic

LEMMA ClientsStay ==
    ASSUME Clients, UNCHANGED client,
           \A c \in Conns : socket[c] = "open" /\ Meta(c) \in table => Meta(c) \in table'
    PROVE  Clients'
BY DEF Clients, client, Meta

LEMMA ClientShapeStays ==
    ASSUME ClientShape, UNCHANGED client
    PROVE  ClientShape'
BY DEF ClientShape, client

-----------------------------------------------------------------------------
(***************************************************************************)
(* The initial state.                                                      *)
(***************************************************************************)
LEMMA InitRelayInv == RelayInit => RelayInv
<1> SUFFICES ASSUME RelayInit
             PROVE  RelayInv
  OBVIOUS
<1>1. ClientShape /\ TableShape
  BY DEF RelayInit, ClientShape, TableShape
<1>2. BatchShape
  <2>1. stream \in Seq(StreamRecord) /\ Len(stream) = 0 /\ stream = <<>>
    BY DEF RelayInit
  <2>2. /\ relay \in RelayRecord
        /\ relay.first = 1 /\ relay.last = 0 /\ relay.phase = "idle"
    BY RelayAssumption DEF RelayInit, Reading, RelayRecord
  <2> QED
    BY <2>1, <2>2 DEF RelayInit, BatchShape
<1>3. Clients /\ Rows /\ Pending /\ Deletions /\ AckedStays
  BY DEF RelayInit, Clients, Rows, Pending, Deletions, AckedStays
<1>4. Records /\ Posting /\ OwnEventsOnly /\ Delivered
  BY DEF RelayInit, Records, Posting, OwnEventsOnly, Delivered, Reading
<1> QED
  BY <1>1, <1>2, <1>3, <1>4 DEF RelayInv

-----------------------------------------------------------------------------
(***************************************************************************)
(* The table's readers, clients and messages.                              *)
(***************************************************************************)
LEMMA CatchUpStep ==
    ASSUME RelayInv, CatchUp \/ ListRun
    PROVE  RelayInv'
<1>1. /\ UNCHANGED client /\ UNCHANGED <<table, messages, deletes>>
      /\ UNCHANGED <<stream, relay, dropped, received>>
      /\ behind' \subseteq table \cup behind /\ listed' \subseteq Runs
  BY DEF CatchUp, ListRun, RelayInv, TableShape
<1>2. ClientsGain /\ UNCHANGED <<socket, user, asked, acked>>
  BY <1>1, SameClients DEF client
<1>3. ClientShape' /\ BatchShape' /\ Clients'
  BY <1>1, ClientShapeStays, BatchShapeStays, ClientsStay DEF RelayInv
<1>4. TableShape'
  BY <1>1 DEF RelayInv, TableShape
<1>5. Rows' /\ Pending' /\ Deletions' /\ AckedStays'
  BY <1>1, <1>2, RowsStay, PendingStays, DeletionsStay, AckedStaysIf DEF RelayInv
<1> QED
  BY <1>1, <1>2, <1>3, <1>4, <1>5, RelayStays DEF RelayInv

LEMMA HandleConnectStep ==
    ASSUME RelayInv, NEW c \in Conns, NEW u \in Users \cup {Null}, HandleConnect(c, u)
    PROVE  RelayInv'
<1>1. /\ socket[c] = "none"
      /\ UNCHANGED <<asked, acked, behind, listed, messages, deletes>>
      /\ UNCHANGED <<stream, relay, dropped, received>>
  BY DEF HandleConnect
<1>2. \/ /\ \E s \in {"open", "closed"} : socket' = [socket EXCEPT ![c] = s]
         /\ user' = [user EXCEPT ![c] = u] /\ table' = table \cup {Meta(c)}
      \/ /\ socket' = [socket EXCEPT ![c] = "closed"] /\ UNCHANGED <<user, table>>
  BY DEF HandleConnect
<1>3. asked[c] = {} /\ acked[c] = {}
  BY <1>1 DEF RelayInv, Clients
<1>4. ClientShape'
  BY <1>1, <1>2 DEF RelayInv, ClientShape
<1>5. ClientsGain
  BY <1>1, <1>2, <1>3 DEF RelayInv, ClientShape, ClientsGain
<1>6. TableShape'
  BY <1>1, <1>2 DEF RelayInv, TableShape, Keys, Meta
<1>7. Clients'
  BY <1>1, <1>2, <1>3 DEF RelayInv, ClientShape, Clients
<1>8. Rows'
  <2> SUFFICES ASSUME NEW d \in Conns, NEW r \in Runs, Topic(r, d) \in table' \cup behind'
               PROVE  Theirs(d, r)'
    BY DEF Rows, Topic
  <2>1. Topic(r, d) \in table \cup behind
    BY <1>1, <1>2, KeysDiffer
  <2> QED
    BY <1>5, <2>1, TheirsStays DEF RelayInv, Rows
<1>9. Pending' /\ Deletions'
  BY <1>1, <1>5, PendingStays, DeletionsStay DEF RelayInv
<1>10. AckedStays'
  BY <1>1, <1>2, <1>3 DEF RelayInv, ClientShape, AckedStays, Topic
<1> QED
  BY <1>1, <1>4, <1>5, <1>6, <1>7, <1>8, <1>9, <1>10, RelayStays, BatchShapeStays DEF RelayInv

LEMMA CloseSocketStep ==
    ASSUME RelayInv, NEW c \in Conns, CloseSocket(c)
    PROVE  RelayInv'
<1>1. /\ socket' = [socket EXCEPT ![c] = "closed"]
      /\ UNCHANGED <<user, asked, acked, table, behind, listed, messages>>
      /\ UNCHANGED <<stream, relay, dropped, received>>
      /\ deletes' \subseteq deletes \cup {Deletion(c, "client")}
  BY DEF CloseSocket
<1>2. ClientShape'
  BY <1>1 DEF RelayInv, ClientShape
<1>3. ClientsGain
  BY <1>1 DEF RelayInv, ClientShape, ClientsGain
<1>4. TableShape'
  BY <1>1 DEF RelayInv, TableShape, DeletionOf, DeletionRecord, Deletion
<1>5. Clients'
  BY <1>1 DEF RelayInv, ClientShape, Clients
<1>6. Rows' /\ Pending'
  BY <1>1, <1>3, RowsStay, PendingStays DEF RelayInv
<1>7. Deletions'
  BY <1>1 DEF RelayInv, ClientShape, TableShape, DeletionOf, DeletionRecord, Deletions, Deletion
<1>8. AckedStays'
  BY <1>1 DEF RelayInv, ClientShape, AckedStays, Topic
<1> QED
  BY <1>1, <1>2, <1>3, <1>4, <1>5, <1>6, <1>7, <1>8, RelayStays, BatchShapeStays DEF RelayInv

LEMMA SendMessageStep ==
    ASSUME RelayInv, NEW c \in Conns, NEW a \in {"subscribeRun", "unsubscribeRun"},
           NEW r \in Runs, NEW w \in Workspaces, SendMessage(c, a, r, w)
    PROVE  RelayInv'
<1> DEFINE m == [conn |-> c, action |-> a, run |-> r, workspace |-> w, phase |-> "received"]
<1>1. /\ socket[c] = "open" /\ messages' = messages \cup {m}
      /\ UNCHANGED <<socket, user, table, behind, listed, deletes>>
      /\ UNCHANGED <<stream, relay, dropped, received>>
  BY DEF SendMessage
<1>2. \/ /\ a = "subscribeRun"
         /\ asked' = [asked EXCEPT ![c] = @ \cup {r}] /\ acked' = acked
      \/ /\ a = "unsubscribeRun"
         /\ acked' = [acked EXCEPT ![c] = @ \ {r}] /\ asked' = asked
  BY DEF SendMessage
<1>3. ClientShape'
  BY <1>1, <1>2 DEF RelayInv, ClientShape
<1>4. ClientsGain
  BY <1>1, <1>2 DEF RelayInv, ClientShape, ClientsGain, Clients
<1>5. TableShape'
  BY <1>1 DEF RelayInv, TableShape, Message
<1>6. Clients'
  BY <1>1, <1>2 DEF RelayInv, ClientShape, Clients, Meta
<1>7. Rows' /\ Deletions'
  BY <1>1, <1>4, RowsStay, DeletionsStay DEF RelayInv
<1>8. \A d \in Conns : acked'[d] \subseteq acked[d]
  BY <1>2 DEF RelayInv, ClientShape
<1>9. Pending'
  <2> SUFFICES ASSUME NEW o \in messages'
               PROVE  /\ o.action = "subscribeRun" => o.run \in asked'[o.conn]
                      /\ o.phase = "checked" => o.action = "subscribeRun"
                                                /\ Theirs(o.conn, o.run)'
                      /\ o.action = "unsubscribeRun" => o.run \notin acked'[o.conn]
    BY DEF Pending
  <2>1. CASE o \in messages
    <3>1. o.conn \in Conns
      BY <2>1 DEF RelayInv, TableShape, Message
    <3>2. o.phase = "checked" => o.action = "subscribeRun" /\ Theirs(o.conn, o.run)'
      BY <1>4, <2>1, <3>1, TheirsStays DEF RelayInv, Pending
    <3> QED
      BY <1>4, <1>8, <2>1, <3>1, <3>2 DEF RelayInv, Pending, ClientsGain
  <2>2. CASE o = m
    BY <1>2, <2>2 DEF RelayInv, ClientShape
  <2> QED
    BY <1>1, <2>1, <2>2
<1>10. AckedStays'
  BY <1>1, <1>8 DEF RelayInv, AckedStays, Topic
<1> QED
  BY <1>1, <1>3, <1>4, <1>5, <1>6, <1>7, <1>9, <1>10, RelayStays, BatchShapeStays DEF RelayInv

LEMMA CheckRunStep ==
    ASSUME RelayInv, NEW m \in messages, CheckRun(m)
    PROVE  RelayInv'
<1>1. /\ UNCHANGED <<socket, user, asked, acked, table, behind, listed, deletes>>
      /\ UNCHANGED <<stream, relay, dropped, received>> /\ UNCHANGED client
      /\ m.action = "subscribeRun"
  BY DEF CheckRun, client
<1>2. m \in Message /\ ClientsGain
  BY <1>1, SameClients DEF RelayInv, TableShape
<1> DEFINE checked == [m EXCEPT !.phase = "checked"]
<1>3. messages' \subseteq messages \/
        (MaySubscribe(m, GetRunById(m.run)) /\ messages' \subseteq messages \cup {checked})
  BY DEF CheckRun
<1>4. /\ checked \in Message /\ checked.conn = m.conn /\ checked.run = m.run
      /\ checked.action = m.action
  BY <1>2 DEF Message
<1> HIDE DEF checked
<1>5. ClientShape' /\ BatchShape' /\ Clients' /\ Rows' /\ Deletions' /\ AckedStays'
  BY <1>1, <1>2, ClientShapeStays, BatchShapeStays, ClientsStay, RowsStay, DeletionsStay,
     AckedStaysIf DEF RelayInv
<1>6. TableShape'
  BY <1>1, <1>3, <1>4 DEF RelayInv, TableShape
<1>7. Pending'
  <2>1. CASE messages' \subseteq messages
    BY <1>1, <1>2, <2>1, PendingStays DEF RelayInv
  <2>2. CASE MaySubscribe(m, GetRunById(m.run)) /\ messages' \subseteq messages \cup {checked}
    <3>1. RunUser[m.run] = user[m.conn]
      BY <2>2 DEF MaySubscribe, GetRunById
    <3>2. Theirs(m.conn, m.run)
      BY <1>1, <3>1 DEF RelayInv, Pending, Theirs
    <3> QED
      BY <1>1, <1>4, <2>2, <3>2 DEF RelayInv, Pending, Theirs
  <2> QED
    BY <1>3, <2>1, <2>2
<1> QED
  BY <1>1, <1>2, <1>5, <1>6, <1>7, RelayStays DEF RelayInv

LEMMA SubscribeRunStep ==
    ASSUME RelayInv, NEW m \in messages, SubscribeRun(m)
    PROVE  RelayInv'
<1>1. /\ UNCHANGED <<socket, user, asked, behind, listed, deletes>>
      /\ UNCHANGED <<stream, relay, dropped, received>>
      /\ m.phase = "checked" /\ messages' \subseteq messages
  BY DEF SubscribeRun
<1>2. \/ /\ table' = table \cup {Topic(m.run, m.conn)}
         /\ acked' = IF Unsubscribing(m) THEN acked
                     ELSE [acked EXCEPT ![m.conn] = @ \cup {m.run}]
      \/ UNCHANGED <<table, acked>>
  BY DEF SubscribeRun
<1>3. m.conn \in Conns /\ m.run \in Runs
  BY DEF RelayInv, TableShape, Message
<1>4. Theirs(m.conn, m.run) /\ m.run \in asked[m.conn]
  BY <1>1 DEF RelayInv, Pending, Theirs
<1>5. ClientsGain
  BY <1>1 DEF ClientsGain
<1>6. ClientShape'
  BY <1>1, <1>2, <1>3 DEF RelayInv, ClientShape
<1>7. TableShape'
  BY <1>1, <1>2, <1>3, KeysDiffer DEF RelayInv, TableShape
<1>8. Clients'
  <2> SUFFICES ASSUME NEW c \in Conns
               PROVE  /\ acked'[c] \subseteq asked[c]
                      /\ asked[c] # {} => socket[c] # "none"
                      /\ socket[c] = "open" => Meta(c) \in table'
    BY <1>1 DEF Clients, Meta
  <2>1. acked'[c] \subseteq asked[c]
    BY <1>2, <1>3, <1>4 DEF RelayInv, ClientShape, Clients
  <2> QED
    BY <1>2, <2>1 DEF RelayInv, Clients
<1>9. Rows'
  <2> SUFFICES ASSUME NEW c \in Conns, NEW r \in Runs, Topic(r, c) \in table' \cup behind'
               PROVE  Theirs(c, r)'
    BY DEF Rows, Topic
  <2>1. Topic(r, c) \in table \cup behind \/ Topic(r, c) = Topic(m.run, m.conn)
    BY <1>1, <1>2
  <2>2. Theirs(c, r)
    BY <1>3, <1>4, <2>1, KeysDiffer DEF RelayInv, Rows
  <2> QED
    BY <1>5, <2>2, TheirsStays
<1>10. Pending'
  <2>1. CASE acked' = acked
    BY <1>1, <1>5, <2>1, PendingStays DEF RelayInv
  <2>2. CASE ~Unsubscribing(m) /\ acked' = [acked EXCEPT ![m.conn] = @ \cup {m.run}]
    <3> SUFFICES ASSUME NEW o \in messages'
                 PROVE  o.action = "unsubscribeRun" => o.run \notin acked'[o.conn]
      BY <1>1, <1>5 DEF RelayInv, Pending, Theirs
    <3> QED
      BY <1>1, <1>3, <2>2 DEF RelayInv, Pending, Unsubscribing, ClientShape, TableShape, Message
  <2> QED
    BY <1>2, <2>1, <2>2
<1>11. Deletions'
  BY <1>1, <1>5, DeletionsStay DEF RelayInv
<1>12. AckedStays'
  BY <1>1, <1>2, <1>3 DEF RelayInv, AckedStays, ClientShape, Topic
<1> QED
  BY <1>1, <1>5, <1>6, <1>7, <1>8, <1>9, <1>10, <1>11, <1>12, RelayStays, BatchShapeStays
     DEF RelayInv

LEMMA UnsubscribeRunStep ==
    ASSUME RelayInv, NEW m \in messages, UnsubscribeRun(m)
    PROVE  RelayInv'
<1>1. /\ UNCHANGED <<socket, user, asked, acked, behind, listed, deletes>>
      /\ UNCHANGED <<stream, relay, dropped, received>> /\ UNCHANGED client
      /\ m.action = "unsubscribeRun" /\ messages' \subseteq messages
      /\ table' \in {table, table \ {Topic(m.run, m.conn)}}
  BY DEF UnsubscribeRun, client
<1>2. m.conn \in Conns /\ m.run \in Runs /\ ClientsGain
  BY <1>1, SameClients DEF RelayInv, TableShape, Message
<1>3. ClientShape' /\ BatchShape' /\ Rows' /\ Pending' /\ Deletions'
  BY <1>1, <1>2, ClientShapeStays, BatchShapeStays, RowsStay, PendingStays, DeletionsStay DEF RelayInv
<1>4. TableShape'
  BY <1>1 DEF RelayInv, TableShape
<1>5. Clients'
  BY <1>1, <1>2, KeysDiffer, ClientsStay DEF RelayInv
<1>6. AckedStays'
  <2>1. m.run \notin acked[m.conn]
    BY <1>1 DEF RelayInv, Pending
  <2>2. ASSUME NEW c \in Conns, NEW r \in Runs, socket[c] = "open", r \in acked[c],
               Topic(r, c) \in table
        PROVE  Topic(r, c) \in table'
    BY <1>1, <1>2, <2>1, <2>2, KeysDiffer
  <2> QED
    BY <1>1, <2>2, AckedStaysIf DEF RelayInv
<1> QED
  BY <1>1, <1>2, <1>3, <1>4, <1>5, <1>6, RelayStays DEF RelayInv

-----------------------------------------------------------------------------
(***************************************************************************)
(* Deletions.                                                              *)
(***************************************************************************)

\* A batch that fails leaves the relay ready to read again.
LEMMA FailBatchStep ==
    ASSUME BatchShape, FailBatch, relay.phase = "posting"
    PROVE  /\ relay' \in RelayRecord /\ relay'.phase = "idle"
           /\ relay'.first \in 1..Len(stream) + 1 /\ relay'.last = 0
           /\ dropped' \subseteq 1..Len(stream)
<1>1. /\ relay \in RelayRecord /\ relay.first \in 1..Len(stream) + 1
      /\ relay.last \in 0..Len(stream) /\ relay.at \in relay.first..relay.last + 1
      /\ dropped \subseteq 1..Len(stream) /\ Len(stream) \in Nat
  BY DEF BatchShape
<1>2. relay.at \in Nat /\ relay.at >= 1
  BY <1>1 DEF RelayRecord
<1>3. relay.at..relay.last \subseteq 1..Len(stream)
  BY <1>1, <1>2
<1> QED
  <2>1. CASE relay.attempt <= RetryAttempts
    <3>1. relay.attempt + 1 \in 1..RetryAttempts + 1 /\ relay.first \in Nat
      BY <1>1, <2>1, RelayAssumption DEF RelayRecord
    <3>2. /\ relay' = [Reading EXCEPT !.first = relay.first, !.attempt = relay.attempt + 1]
          /\ dropped' = dropped
      BY <2>1 DEF FailBatch
    <3>3. relay' \in RelayRecord /\ relay'.first = relay.first
      BY <3>1, <3>2 DEF Reading, RelayRecord
    <3>4. relay'.phase = "idle" /\ relay'.last = 0
      BY <3>2 DEF Reading
    <3> QED
      BY <1>1, <3>2, <3>3, <3>4
  <2>2. CASE ~(relay.attempt <= RetryAttempts)
    <3>1. relay.last + 1 \in 1..Len(stream) + 1 /\ relay.last + 1 \in Nat
      BY <1>1
    <3>2. /\ relay' = [Reading EXCEPT !.first = relay.last + 1]
          /\ dropped' = dropped \cup (relay.at..relay.last)
      BY <2>2 DEF FailBatch
    <3>3. relay' \in RelayRecord /\ relay'.first = relay.last + 1
      BY <3>1, <3>2, RelayAssumption DEF Reading, RelayRecord
    <3>4. relay'.phase = "idle" /\ relay'.last = 0
      BY <3>2 DEF Reading
    <3> QED
      BY <1>1, <1>3, <3>1, <3>2, <3>3, <3>4
  <2> QED
    BY <2>1, <2>2

\* The relay's own part of the invariant, when it reads again.
LEMMA IdleRelay ==
    ASSUME BatchShape, Records, OwnEventsOnly, ClientsGain,
           relay' \in RelayRecord, relay'.phase = "idle", relay'.first \in 1..Len(stream) + 1,
           relay'.last \in 0..Len(stream), dropped' \subseteq 1..Len(stream),
           UNCHANGED <<stream, received>>
    PROVE  BatchShape' /\ Records' /\ Posting' /\ OwnEventsOnly' /\ Delivered'
<1>1. BatchShape' /\ Records' /\ Posting' /\ Delivered'
  BY DEF BatchShape, Records, Posting, Delivered
<1>2. OwnEventsOnly'
  BY TheirsStays DEF OwnEventsOnly, Theirs
<1> QED
  BY <1>1, <1>2

LEMMA QueryByConnectionStep ==
    ASSUME RelayInv, NEW d \in deletes, QueryByConnection(d)
    PROVE  RelayInv'
<1>1. /\ UNCHANGED client /\ UNCHANGED <<socket, user, asked, acked, table, behind, listed>>
      /\ UNCHANGED <<messages, stream, relay, dropped, received>>
  BY DEF QueryByConnection, client
<1>2. PICK view \in Views :
        deletes' = (deletes \ {d}) \cup
          {[d EXCEPT !.keys = IF KeysOf(d.conn, view) = {} THEN {Meta(d.conn)}
                              ELSE KeysOf(d.conn, view)]}
  BY DEF QueryByConnection
<1> DEFINE e == [d EXCEPT !.keys = IF KeysOf(d.conn, view) = {} THEN {Meta(d.conn)}
                                   ELSE KeysOf(d.conn, view)]
<1>3. d \in DeletionRecord /\ d.conn \in Conns /\ ClientsGain
  BY <1>1, SameClients DEF RelayInv, TableShape, DeletionOf, DeletionRecord
<1>4. KeysOf(d.conn, view) \subseteq KeysOf(d.conn, Keys)
  BY DEF RelayInv, TableShape, Views, KeysOf
<1>5. {Meta(d.conn)} \subseteq KeysOf(d.conn, Keys)
  BY <1>3 DEF Meta, KeysOf, Keys
<1>6. DeletionOf(e) /\ e.conn = d.conn
  <2>1. KeysOf(d.conn, Keys) \subseteq Keys
    BY DEF KeysOf
  <2> QED
    BY <1>3, <1>4, <1>5, <2>1 DEF DeletionOf, DeletionRecord
<1>7. deletes' = (deletes \ {d}) \cup {e}
  BY <1>2
<1> HIDE DEF e
<1>8. TableShape'
  BY <1>1, <1>6, <1>7 DEF RelayInv, TableShape
<1>9. Deletions'
  BY <1>1, <1>6, <1>7 DEF RelayInv, Deletions
<1>10. ClientShape' /\ BatchShape' /\ Clients' /\ Rows' /\ Pending' /\ AckedStays'
  BY <1>1, <1>3, ClientShapeStays, BatchShapeStays, ClientsStay, RowsStay, PendingStays,
     AckedStaysIf DEF RelayInv
<1> QED
  BY <1>1, <1>3, <1>8, <1>9, <1>10, RelayStays DEF RelayInv

LEMMA BatchWriteStep ==
    ASSUME RelayInv, NEW d \in deletes, BatchWrite(d)
    PROVE  RelayInv'
<1>1. /\ UNCHANGED client /\ UNCHANGED <<socket, user, asked, acked, behind, listed>>
      /\ UNCHANGED <<messages, stream, received>>
      /\ d.keys # Null /\ deletes' \subseteq deletes
  BY DEF BatchWrite, client
<1>2. /\ \E done \in SUBSET d.keys : table' = table \ done
      /\ \/ UNCHANGED <<relay, dropped>>
         \/ relay.phase = "posting" /\ FailBatch
  <2>1. CASE table' = table \ d.keys /\ UNCHANGED <<relay, dropped>>
    BY <2>1
  <2>2. CASE \E done \in SUBSET d.keys : table' = table \ done /\ UNCHANGED <<relay, dropped>>
    BY <2>2
  <2>3. CASE relay.phase = "posting" /\ FailBatch /\ UNCHANGED table
    <3>1. table' = table \ {} /\ {} \in SUBSET d.keys
      BY <2>3
    <3> QED
      BY <2>3, <3>1
  <2> QED
    BY <2>1, <2>2, <2>3 DEF BatchWrite
<1>3. /\ d.conn \in Conns /\ socket[d.conn] = "closed" /\ ClientsGain
      /\ d.keys \subseteq KeysOf(d.conn, Keys)
  BY <1>1, SameClients DEF RelayInv, TableShape, DeletionOf, DeletionRecord, Deletions
<1>4. ASSUME NEW c \in Conns, socket[c] = "open"
      PROVE  /\ Meta(c) \in table => Meta(c) \in table'
             /\ \A r \in Runs : Topic(r, c) \in table => Topic(r, c) \in table'
  BY <1>2, <1>3, <1>4, KeysApart
<1>5. ClientShape' /\ Clients' /\ Rows' /\ Pending' /\ Deletions' /\ AckedStays'
  <2>1. table' \subseteq table
    BY <1>2
  <2>2. Clients' /\ AckedStays'
    BY <1>1, <1>4, ClientsStay, AckedStaysIf DEF RelayInv
  <2> QED
    BY <1>1, <1>3, <2>1, <2>2, ClientShapeStays, RowsStay, PendingStays, DeletionsStay DEF RelayInv
<1>6. TableShape'
  BY <1>1, <1>2 DEF RelayInv, TableShape
<1>7. BatchShape' /\ Records' /\ Posting' /\ OwnEventsOnly' /\ Delivered'
  <2>1. CASE UNCHANGED <<relay, dropped>>
    BY <1>1, <1>3, <2>1, RelayStays, BatchShapeStays DEF RelayInv
  <2>2. CASE relay.phase = "posting" /\ FailBatch
    <3>1. Len(stream) \in Nat
      BY DEF RelayInv, BatchShape
    <3> QED
      BY <1>1, <1>3, <2>2, <3>1, FailBatchStep, IdleRelay DEF RelayInv
  <2> QED
    BY <1>2, <2>1, <2>2
<1> QED
  BY <1>5, <1>6, <1>7 DEF RelayInv

-----------------------------------------------------------------------------
(***************************************************************************)
(* The stream and the relay.                                               *)
(***************************************************************************)
LEMMA WriteEventStep ==
    ASSUME RelayInv, NEW name \in {"INSERT", "MODIFY", "REMOVE"}, NEW r \in Runs,
           NEW u \in {RunUser[r], Null}, WriteEvent(name, r, u)
    PROVE  RelayInv'
<1> DEFINE e == [name |-> name, run |-> r, user |-> u]
<1>1. /\ UNCHANGED client /\ UNCHANGED <<socket, user, asked, acked, table, behind, listed>>
      /\ UNCHANGED <<messages, deletes, relay, dropped, received>>
      /\ stream' = Append(stream, e)
  BY DEF WriteEvent, client
<1>2. ClientsGain
  BY <1>1, SameClients
<1>3. ClientShape' /\ Clients' /\ Rows' /\ Pending' /\ Deletions' /\ AckedStays'
  BY <1>1, <1>2, ClientShapeStays, ClientsStay, RowsStay, PendingStays, DeletionsStay,
     AckedStaysIf DEF RelayInv
<1>4. TableShape'
  BY <1>1 DEF RelayInv, TableShape
<1>5. e \in StreamRecord /\ stream \in Seq(StreamRecord)
  BY RelayAssumption DEF StreamRecord, RelayInv, BatchShape
<1>6. e.run = r /\ e.user = u
  OBVIOUS
<1> HIDE DEF e
<1>7. /\ stream' \in Seq(StreamRecord) /\ Len(stream') = Len(stream) + 1 /\ Len(stream) \in Nat
      /\ \A n \in 1..Len(stream) : stream'[n] = stream[n]
      /\ stream'[Len(stream) + 1] = e
  BY <1>1, <1>5
<1>8. BatchShape'
  BY <1>1, <1>7 DEF RelayInv, BatchShape
<1>9. Records'
  <2>1. DOMAIN stream' = 1..(Len(stream) + 1) /\ DOMAIN stream = 1..Len(stream)
    BY <1>7, <1>5
  <2>2. \A n \in DOMAIN stream' : n \in DOMAIN stream \/ n = Len(stream) + 1
    BY <1>7, <2>1
  <2> QED
    BY <1>6, <1>7, <2>1, <2>2 DEF RelayInv, Records
<1>10. relay.phase = "posting" => relay.at \in 1..Len(stream)
  BY <1>7 DEF RelayInv, BatchShape, RelayRecord
<1>11. Posting' /\ Delivered'
  BY <1>1, <1>7, <1>10 DEF RelayInv, Posting, Delivered, Theirs
<1>12. OwnEventsOnly'
  <2>1. \A c \in Conns : received[c] \subseteq 1..Len(stream)
    BY DEF RelayInv, BatchShape
  <2> QED
    BY <1>1, <1>7, <2>1 DEF RelayInv, OwnEventsOnly
<1> QED
  BY <1>3, <1>4, <1>8, <1>9, <1>11, <1>12 DEF RelayInv

\* The relay's steps leave the clients, the table and the messages alone.
LEMMA BesideRelay ==
    ASSUME RelayInv, UNCHANGED client, UNCHANGED <<table, behind, listed, messages>>,
           \A e \in deletes' \ deletes : DeletionOf(e) /\ socket[e.conn] = "closed"
    PROVE  /\ ClientsGain /\ ClientShape' /\ TableShape' /\ Clients' /\ Rows' /\ Pending'
           /\ Deletions' /\ AckedStays'
<1>1. ClientsGain /\ UNCHANGED <<socket, user, asked, acked>>
  BY SameClients DEF client
<1>2. ClientShape' /\ Clients' /\ Rows' /\ Pending' /\ AckedStays'
  BY <1>1, ClientShapeStays, ClientsStay, RowsStay, PendingStays, AckedStaysIf DEF RelayInv
<1>3. TableShape' /\ Deletions'
  BY <1>1 DEF RelayInv, TableShape, Deletions
<1> QED
  BY <1>1, <1>2, <1>3

LEMMA HandlerStep ==
    ASSUME RelayInv, EventStreamRelayHandler
    PROVE  RelayInv'
<1>1. /\ UNCHANGED client /\ UNCHANGED <<table, behind, listed, messages, deletes>>
      /\ UNCHANGED <<stream, dropped, received>>
  BY DEF EventStreamRelayHandler
<1>2. PICK n \in relay.first..Len(stream) :
        relay' = [relay EXCEPT !.phase = "next", !.at = relay.first, !.last = n]
  BY DEF EventStreamRelayHandler
<1>3. /\ relay.first \in 1..Len(stream) + 1 /\ Len(stream) \in Nat /\ relay \in RelayRecord
  BY DEF RelayInv, BatchShape
<1>4. /\ relay' \in RelayRecord /\ relay'.phase = "next" /\ relay'.first = relay.first
      /\ relay'.at = relay.first /\ relay'.last = n
  <2>1. n \in Nat /\ relay.first \in Nat
    BY <1>3
  <2> QED
    BY <1>2, <1>3, <2>1 DEF RelayRecord
<1>5. BatchShape'
  BY <1>1, <1>3, <1>4 DEF RelayInv, BatchShape
<1>6. Records' /\ Posting' /\ OwnEventsOnly' /\ Delivered'
  BY <1>1, <1>4 DEF RelayInv, Records, Posting, OwnEventsOnly, Delivered, client
<1> QED
  BY <1>1, <1>5, <1>6, BesideRelay DEF RelayInv

\* Whoever every reader sees subscribed is found, whichever of them is asked.
LEMMA DueFound ==
    ASSUME RelayInv, NEW n \in DOMAIN stream, NEW topics \in Views, NEW metas \in Views,
           NEW c \in Conns, Settled(c, stream[n].run)
    PROVE  c \in Filter(stream[n], ListConnectionsForRun(stream[n].run, topics, metas))
BY DEF RelayInv, Records, Settled, Views, ListConnectionsForRun, Filter

\* Whoever is found asked for the run and may have it.
LEMMA FoundTheirs ==
    ASSUME RelayInv, NEW n \in DOMAIN stream, NEW topics \in Views, NEW metas \in Views,
           NEW c \in Filter(stream[n], ListConnectionsForRun(stream[n].run, topics, metas))
    PROVE  c \in Conns /\ Theirs(c, stream[n].run)
<1>1. c \in Conns /\ Topic(stream[n].run, c) \in table \cup behind
  <2>1. c \in ListConnectionsForRun(stream[n].run, topics, metas)
    BY DEF Filter
  <2>2. topics \subseteq table \cup behind
    BY DEF Views
  <2>3. c \in Conns /\ Topic(stream[n].run, c) \in topics
    BY <2>1 DEF ListConnectionsForRun
  <2> QED
    BY <2>2, <2>3
<1>2. stream[n].run \in Runs
  <2>1. stream[n] \in StreamRecord
    BY DEF RelayInv, BatchShape
  <2> QED
    BY <2>1 DEF StreamRecord
<1> QED
  BY <1>1, <1>2 DEF RelayInv, Rows

LEMMA ListTargetsStep ==
    ASSUME RelayInv, ListTargets
    PROVE  RelayInv'
<1>1. /\ UNCHANGED client /\ UNCHANGED <<table, behind, listed, messages, deletes>>
      /\ UNCHANGED <<stream, dropped, received>>
      /\ relay.phase = "next" /\ relay.at <= relay.last
  BY DEF ListTargets
<1>2. /\ relay \in RelayRecord /\ Len(stream) \in Nat /\ relay.at \in Nat
      /\ relay.at \in 1..Len(stream) /\ relay.at \in DOMAIN stream
  BY <1>1 DEF RelayInv, BatchShape, RelayRecord
<1>3. CASE relay' = [relay EXCEPT !.at = @ + 1]
  <2>1. /\ relay' \in RelayRecord /\ relay'.phase = "next" /\ relay'.first = relay.first
        /\ relay'.at = relay.at + 1 /\ relay'.last = relay.last
    BY <1>1, <1>2, <1>3 DEF RelayRecord
  <2>2. BatchShape'
    BY <1>1, <1>2, <2>1 DEF RelayInv, BatchShape
  <2>3. Records' /\ Posting' /\ OwnEventsOnly' /\ Delivered'
    BY <1>1, <2>1 DEF RelayInv, Records, Posting, OwnEventsOnly, Delivered, client
  <2> QED
    BY <1>1, <2>2, <2>3, BesideRelay DEF RelayInv
<1>4. ASSUME NEW topics \in Views, NEW metas \in Views,
             relay' = [relay EXCEPT !.phase = "posting",
               !.targets = Filter(stream[relay.at],
                             ListConnectionsForRun(stream[relay.at].run, topics, metas)),
               !.due = {c \in Conns : Settled(c, stream[relay.at].run)}]
      PROVE  RelayInv'
  <2> DEFINE found == Filter(stream[relay.at],
                             ListConnectionsForRun(stream[relay.at].run, topics, metas))
             due == {c \in Conns : Settled(c, stream[relay.at].run)}
  <2>1. \A c \in found : c \in Conns /\ Theirs(c, stream[relay.at].run)
    BY <1>2, FoundTheirs
  <2>2. due \subseteq found
    BY <1>2, DueFound
  <2>3. relay' = [relay EXCEPT !.phase = "posting", !.targets = found, !.due = due]
    BY <1>4
  <2>4. found \subseteq Conns /\ due \subseteq Conns
    BY <2>1
  <2> HIDE DEF found, due
  <2>5. /\ relay' \in RelayRecord /\ relay'.phase = "posting" /\ relay'.first = relay.first
        /\ relay'.at = relay.at /\ relay'.last = relay.last
        /\ relay'.targets = found /\ relay'.due = due
    BY <1>2, <2>3, <2>4 DEF RelayRecord
  <2>6. BatchShape'
    BY <1>1, <1>2, <2>5 DEF RelayInv, BatchShape
  <2>7. Records' /\ OwnEventsOnly' /\ Delivered'
    BY <1>1, <2>2, <2>5 DEF RelayInv, Records, OwnEventsOnly, Delivered, client
  <2>8. Posting'
    BY <1>1, <2>1, <2>2, <2>5 DEF Posting, Theirs, client
  <2> QED
    BY <1>1, <2>6, <2>7, <2>8, BesideRelay DEF RelayInv
<1> QED
  BY <1>3, <1>4 DEF ListTargets

\* What is sent of the record that is posted goes to whom it belongs to.
LEMMA SentTheirs ==
    ASSUME RelayInv, UNCHANGED client, UNCHANGED stream, relay.phase = "posting",
           \A c \in Conns : received'[c] \subseteq received[c] \cup
                              (IF c \in relay.targets THEN {relay.at} ELSE {})
    PROVE  OwnEventsOnly'
BY DEF RelayInv, Posting, OwnEventsOnly, Theirs, client

LEMMA PostToConnectionStep ==
    ASSUME RelayInv, NEW c \in relay.targets, relay.phase = "posting", PostToConnection(c)
    PROVE  RelayInv'
<1>1. /\ UNCHANGED client /\ UNCHANGED <<table, behind, listed, messages>>
      /\ UNCHANGED stream
  BY DEF PostToConnection
<1>2. /\ relay \in RelayRecord /\ Len(stream) \in Nat /\ relay.at \in 1..Len(stream)
      /\ c \in Conns /\ received \in [Conns -> SUBSET (1..Len(stream))]
  BY DEF RelayInv, BatchShape, RelayRecord
<1>3. Theirs(c, stream[relay.at].run) /\ asked[c] # {}
  BY DEF RelayInv, Posting, Theirs
<1>4. CASE UNCHANGED deletes /\ socket[c] = "open" /\ Send(c) /\ Posted(c)
  <2>1. /\ relay' \in RelayRecord /\ relay'.phase = "posting" /\ relay'.first = relay.first
        /\ relay'.at = relay.at /\ relay'.last = relay.last
        /\ relay'.targets = relay.targets \ {c} /\ relay'.due = relay.due
    BY <1>2, <1>4 DEF Posted, RelayRecord
  <2>2. received' \in [Conns -> SUBSET (1..Len(stream))] /\ dropped' = dropped
    BY <1>2, <1>4 DEF Send, Posted
  <2>3. BatchShape'
    BY <1>1, <2>1, <2>2 DEF RelayInv, BatchShape
  <2>4. Records' /\ Posting'
    BY <1>1, <2>1 DEF RelayInv, Records, Posting, Theirs, client
  <2>5. OwnEventsOnly'
    <3>1. \A d \in Conns : received'[d] \subseteq received[d] \cup
                             (IF d \in relay.targets THEN {relay.at} ELSE {})
      BY <1>2, <1>4 DEF Send
    <3> QED
      BY <1>1, <3>1, SentTheirs
  <2>6. Delivered'
    <3>1. /\ relay.at \in received'[c]
          /\ \A d \in Conns : received[d] \subseteq received'[d]
      BY <1>2, <1>4 DEF Send
    <3>2. relay.due \subseteq Conns
      BY <1>2 DEF RelayRecord
    <3> QED
      BY <1>1, <2>1, <3>1, <3>2 DEF RelayInv, Delivered, client
  <2> QED
    BY <1>1, <1>4, <2>3, <2>4, <2>5, <2>6, BesideRelay DEF RelayInv
<1>5. CASE /\ socket[c] # "open" /\ deletes' = deletes \cup {Deletion(c, "relay")}
           /\ Posted(c) /\ UNCHANGED received
  <2>1. /\ relay' \in RelayRecord /\ relay'.phase = "posting" /\ relay'.first = relay.first
        /\ relay'.at = relay.at /\ relay'.last = relay.last
        /\ relay'.targets = relay.targets \ {c} /\ relay'.due = relay.due
        /\ dropped' = dropped
    BY <1>2, <1>5 DEF Posted, RelayRecord
  <2>2. socket[c] = "closed"
    BY <1>2, <1>3, <1>5 DEF RelayInv, Clients, ClientShape
  <2>3. \A e \in deletes' \ deletes : DeletionOf(e) /\ socket[e.conn] = "closed"
    BY <1>2, <1>5, <2>2 DEF Deletion, DeletionOf, DeletionRecord
  <2>4. BatchShape'
    BY <1>1, <1>5, <2>1 DEF RelayInv, BatchShape
  <2>5. Records' /\ Posting' /\ OwnEventsOnly'
    BY <1>1, <1>5, <2>1 DEF RelayInv, Records, Posting, OwnEventsOnly, Theirs, client
  <2>6. Delivered'
    BY <1>1, <1>5, <2>1 DEF RelayInv, Delivered, client
  <2> QED
    BY <1>1, <2>3, <2>4, <2>5, <2>6, BesideRelay DEF RelayInv
<1>6. CASE /\ \E sent \in SUBSET {d \in relay.targets : socket[d] = "open"} :
                received' = [d \in Conns |-> IF d \in sent THEN received[d] \cup {relay.at}
                                             ELSE received[d]]
           /\ FailBatch /\ UNCHANGED deletes
  <2>1. PICK sent \in SUBSET relay.targets :
          received' = [d \in Conns |-> IF d \in sent THEN received[d] \cup {relay.at}
                                       ELSE received[d]]
    BY <1>6
  <2>2. /\ relay' \in RelayRecord /\ relay'.phase = "idle"
        /\ relay'.first \in 1..Len(stream) + 1 /\ relay'.last = 0
        /\ dropped' \subseteq 1..Len(stream)
    BY <1>6, FailBatchStep DEF RelayInv
  <2>3. received' \in [Conns -> SUBSET (1..Len(stream))]
    BY <1>2, <2>1
  <2>4. BatchShape' /\ Records' /\ Posting' /\ Delivered'
    BY <1>1, <1>2, <2>2, <2>3 DEF RelayInv, BatchShape, Records, Posting, Delivered
  <2>5. OwnEventsOnly'
    <3>1. \A d \in Conns : received'[d] \subseteq received[d] \cup
                             (IF d \in relay.targets THEN {relay.at} ELSE {})
      BY <2>1
    <3> QED
      BY <1>1, <3>1, SentTheirs
  <2> QED
    BY <1>1, <1>6, <2>4, <2>5, BesideRelay DEF RelayInv
<1> QED
  BY <1>4, <1>5, <1>6 DEF PostToConnection

LEMMA AdvanceStep ==
    ASSUME RelayInv, Advance
    PROVE  RelayInv'
<1>1. /\ UNCHANGED client /\ UNCHANGED <<table, behind, listed, messages, deletes>>
      /\ UNCHANGED <<stream, dropped, received>>
  BY DEF Advance
<1>2. /\ relay \in RelayRecord /\ Len(stream) \in Nat /\ relay.last \in 0..Len(stream)
      /\ dropped \subseteq 1..Len(stream) /\ ClientsGain
  BY <1>1, SameClients DEF RelayInv, BatchShape
<1>3. CASE relay.phase = "posting" /\ relay' = [relay EXCEPT !.phase = "next", !.at = @ + 1]
  <2>1. /\ relay' \in RelayRecord /\ relay'.phase = "next" /\ relay'.first = relay.first
        /\ relay'.at = relay.at + 1 /\ relay'.last = relay.last
    <3>1. relay.at \in Nat /\ relay.at + 1 \in Nat
      BY <1>2 DEF RelayRecord
    <3> QED
      BY <1>2, <1>3, <3>1 DEF RelayRecord
  <2>2. relay.at \in relay.first..relay.last
    BY <1>2, <1>3 DEF RelayInv, BatchShape, RelayRecord
  <2>3. BatchShape'
    BY <1>1, <1>2, <2>1, <2>2 DEF RelayInv, BatchShape
  <2>4. Records' /\ Posting' /\ OwnEventsOnly' /\ Delivered'
    BY <1>1, <2>1 DEF RelayInv, Records, Posting, OwnEventsOnly, Delivered, client
  <2> QED
    BY <1>1, <2>3, <2>4, BesideRelay DEF RelayInv
<1>4. CASE relay' = [Reading EXCEPT !.first = relay.last + 1]
  <2>1. /\ relay.last + 1 \in 1..Len(stream) + 1 /\ relay.last + 1 \in Nat
    BY <1>2
  <2>2. /\ relay' \in RelayRecord /\ relay'.phase = "idle" /\ relay'.first = relay.last + 1
        /\ relay'.last = 0
    BY <1>4, <2>1, RelayAssumption DEF Reading, RelayRecord
  <2>3. BatchShape' /\ Records' /\ Posting' /\ OwnEventsOnly' /\ Delivered'
    BY <1>1, <1>2, <2>1, <2>2, IdleRelay DEF RelayInv
  <2> QED
    BY <1>1, <2>3, BesideRelay DEF RelayInv
<1> QED
  BY <1>3, <1>4 DEF Advance

-----------------------------------------------------------------------------
(***************************************************************************)
(* The relay: its invariant, and what follows from it.                     *)
(***************************************************************************)
LEMMA StepRelayInv == RelayInv /\ [RelayNext]_relayVars => RelayInv'
<1> SUFFICES ASSUME RelayInv, [RelayNext]_relayVars
             PROVE  RelayInv'
  OBVIOUS
<1>1. CASE Client
  BY <1>1, HandleConnectStep, CloseSocketStep, SendMessageStep DEF Client
<1>2. CASE Writer
  BY <1>2, WriteEventStep DEF Writer
<1>3. CASE CatchUp \/ ListRun
  BY <1>3, CatchUpStep
<1>4. CASE HandleDisconnect
  BY <1>4, QueryByConnectionStep, BatchWriteStep DEF HandleDisconnect, DeleteConnection
<1>5. CASE HandleDefault
  BY <1>5, CheckRunStep, SubscribeRunStep, UnsubscribeRunStep DEF HandleDefault
<1>6. CASE Relay
  <2>1. CASE PublishRealtimeEvent
    BY <2>1, PostToConnectionStep DEF PublishRealtimeEvent
  <2> QED
    BY <1>6, <2>1, HandlerStep, ListTargetsStep, AdvanceStep DEF Relay
<1>7. CASE UNCHANGED relayVars
  <2>1. UNCHANGED client /\ UNCHANGED <<table, behind, listed, messages, deletes>>
        /\ UNCHANGED <<stream, relay, dropped, received>>
    BY <1>7 DEF relayVars
  <2>2. ClientsGain
    BY <2>1, SameClients
  <2> QED
    BY <2>1, <2>2, BesideRelay, RelayStays, BatchShapeStays DEF RelayInv
<1> QED
  BY <1>1, <1>2, <1>3, <1>4, <1>5, <1>6, <1>7 DEF RelayNext

LEMMA RelayInvImplies == RelayInv => DeliverySound /\ SubscribedStays
<1> SUFFICES ASSUME RelayInv
             PROVE  DeliverySound /\ SubscribedStays
  OBVIOUS
<1>1. RelayTypeOK
  <2>1. \A m \in messages : m.conn \in Conns /\ m.phase \in {"received", "checked"}
    BY DEF RelayInv, TableShape, Message
  <2>2. \A d \in deletes : d.conn \in Conns /\ (d.keys = Null \/ d.keys \subseteq KeysOf(d.conn, Keys))
    BY DEF RelayInv, TableShape, DeletionOf, DeletionRecord
  <2>3. relay.phase \in {"idle", "next", "posting"} /\ relay.attempt \in 1..RetryAttempts + 1
    BY DEF RelayInv, BatchShape, RelayRecord
  <2> QED
    BY <2>1, <2>2, <2>3 DEF RelayInv, ClientShape, TableShape, BatchShape, RelayTypeOK
<1>2. PassedWasSent
  BY DEF RelayInv, Delivered, PassedWasSent
<1>3. SubscribedStays
  BY DEF RelayInv, Clients, AckedStays, SubscribedStays
<1> QED
  BY <1>1, <1>2, <1>3 DEF RelayInv, DeliverySound

LEMMA RelayInvariance == RelaySpec => []RelayInv
<1> QED
  BY InitRelayInv, StepRelayInv, PTL DEF RelaySpec

\* A socket is sent only events of runs that its client subscribed to and that
\* belong to its user, and what the relay passes without giving it up was sent
\* to all that were subscribed when it listed them and are still there
\* (handlers.ts:80-94, relay.ts:19-41), whatever the reads, repeated batches,
\* failing posts and connections that come and go.
THEOREM DeliveryCorrect == RelaySpec => []DeliverySound
<1> QED
  BY RelayInvariance, RelayInvImplies, PTL

\* Neither an unsubscription that is late, nor a deletion of another connection,
\* nor the relay takes away a row that an open client counts on
\* (subscriptions.ts:37-61, relay.ts:32-38).
THEOREM SubscriptionCorrect == RelaySpec => []SubscribedStays
<1> QED
  BY RelayInvariance, RelayInvImplies, PTL

==============================================================================
