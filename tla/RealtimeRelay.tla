---- MODULE RealtimeRelay ----
(***************************************************************************)
(* services/realtime-api: the WebSocket handlers that keep the table of    *)
(* connections and subscriptions, and the relay that reads the stream of   *)
(* the events table and posts each event to the connections of its run.    *)
(* Every handler is a Lambda of its own, so they overlap: a message is     *)
(* handled while its connection goes away, a connection is deleted while   *)
(* the relay lists it.  Reads of the table and of its by-connection index  *)
(* may show it as it was.  The stream has one shard; a batch whose relay   *)
(* throws is tried again from its first record and is given up after       *)
(* RetryAttempts repetitions.                                              *)
(***************************************************************************)
EXTENDS Naturals, Sequences, FiniteSets

CONSTANTS
  Conns, Users, Runs, Workspaces, Null,
  RunUser, RunWorkspace,  \* the owner and the workspace of each run
  RetryAttempts,          \* how often the stream repeats a failed batch
  BatchSize,
  MaxEvents, MaxMessages, MaxFailures   \* bounds (failures: of the table)

\* Keys of the table's two kinds differ, and every run has its owner.
ASSUME RelayAssumption ==
  /\ "META" \notin Runs
  /\ RunUser \in [Runs -> Users]
  /\ RetryAttempts \in Nat

VARIABLES
  socket,     \* of each connection: "none", "open" or "closed"
  user,       \* the user its authorizer found, or Null
  asked,      \* the runs its client sent a subscription for
  acked,      \* the runs it was told to be subscribed to, until it unsubscribes
  table,      \* the keys of the connections table
  behind,     \* what a reader that is behind still sees of it
  listed,     \* the runs that the by-run-id index of the runs table shows
  messages,   \* the invocations of the default handler
  deletes,    \* the invocations of deleteConnection
  stream,     \* the records of the events table's stream
  relay,      \* the invocation of the relay
  dropped,    \* the records given up after the last repetition
  received,   \* the records each socket was sent
  budget      \* messages and failures used up

client == <<socket, user, asked, acked>>
relayVars == <<client, table, behind, listed, messages, deletes, stream, relay,
               dropped, received, budget>>

Meta(c) == <<"META", c>>
Topic(r, c) == <<r, c>>
Keys == ({"META"} \cup Runs) \X Conns

\* A read of the table or its index that may be behind.
Views == {table, behind}

Fails == budget.failures < MaxFailures
OneFailure == [budget EXCEPT !.failures = @ + 1]

Deletion(c, by) == [conn |-> c, keys |-> Null, by |-> by]

Reading == [phase |-> "idle", first |-> 1, at |-> 1, last |-> 0, attempt |-> 1,
            targets |-> {}, due |-> {}]

RelayInit ==
  /\ socket = [c \in Conns |-> "none"]
  /\ user = [c \in Conns |-> Null]
  /\ asked = [c \in Conns |-> {}]
  /\ acked = [c \in Conns |-> {}]
  /\ table = {} /\ behind = {} /\ listed = {}
  /\ messages = {} /\ deletes = {}
  /\ stream = <<>> /\ relay = Reading /\ dropped = {}
  /\ received = [c \in Conns |-> {}]
  /\ budget = [messages |-> 0, failures |-> 0]

-----------------------------------------------------------------------------
(* The table and its readers.                                              *)

\* A reader that is behind catches up.
CatchUp ==
  /\ behind # table
  /\ behind' = table
  /\ UNCHANGED <<client, table, listed, messages, deletes, stream, relay,
                 dropped, received, budget>>

ListRun ==
  /\ \E r \in Runs \ listed : listed' = listed \cup {r}
  /\ UNCHANGED <<client, table, behind, messages, deletes, stream, relay,
                 dropped, received, budget>>

\* What getRunById answers, once the index shows the run.
GetRunById(r) == IF r \in listed THEN [user |-> RunUser[r], workspace |-> RunWorkspace[r]]
                 ELSE Null

KeysOf(c, view) == {k \in view : k[2] = c}

ListConnectionsForRun(r, topics, metas) ==
  {c \in Conns : Topic(r, c) \in topics /\ Meta(c) \in metas}

\* The batch is tried again, or it is given up and the next one is taken.
FailBatch ==
  IF relay.attempt <= RetryAttempts
  THEN /\ relay' = [Reading EXCEPT !.first = relay.first, !.attempt = relay.attempt + 1]
       /\ UNCHANGED dropped
  ELSE /\ relay' = [Reading EXCEPT !.first = relay.last + 1]
       /\ dropped' = dropped \cup (relay.at..relay.last)

-----------------------------------------------------------------------------
(* Connections come and go.                                                *)

AuthorizerHandler(token) == IF token = Null THEN "Deny" ELSE "Allow"

\* The connection is saved before the socket opens; the client may be gone by
\* then, or the put may fail and the socket is refused.
HandleConnect(c, u) ==
  /\ socket[c] = "none"
  /\ AuthorizerHandler(u) = "Allow"
  /\ \/ /\ \E s \in {"open", "closed"} : socket' = [socket EXCEPT ![c] = s]
        /\ user' = [user EXCEPT ![c] = u]
        /\ table' = table \cup {Meta(c)}
        /\ UNCHANGED budget
     \/ /\ Fails
        /\ socket' = [socket EXCEPT ![c] = "closed"]
        /\ budget' = OneFailure
        /\ UNCHANGED <<user, table>>
  /\ UNCHANGED <<asked, acked, behind, listed, messages, deletes, stream, relay,
                 dropped, received>>

\* The socket closes; the disconnect handler is told, or that message is lost.
CloseSocket(c) ==
  /\ socket[c] = "open"
  /\ socket' = [socket EXCEPT ![c] = "closed"]
  /\ deletes' \in {deletes, deletes \cup {Deletion(c, "client")}}
  /\ UNCHANGED <<user, asked, acked, table, behind, listed, messages, stream,
                 relay, dropped, received, budget>>

\* deleteConnection: the keys are those of the index; with none, the
\* connection's own key is deleted.
QueryByConnection(d) ==
  /\ d.keys = Null
  /\ \E view \in Views :
       deletes' = (deletes \ {d}) \cup
         {[d EXCEPT !.keys = IF KeysOf(d.conn, view) = {} THEN {Meta(d.conn)}
                             ELSE KeysOf(d.conn, view)]}
  /\ UNCHANGED <<client, table, behind, listed, messages, stream, relay,
                 dropped, received, budget>>

\* Deletes a batch leaves unprocessed are not asked for again; an error ends the
\* invocation, be it the disconnect handler's or the relay's.
BatchWrite(d) ==
  /\ d.keys # Null
  /\ deletes' = deletes \ {d}
  /\ \/ table' = table \ d.keys /\ UNCHANGED <<budget, relay, dropped>>
     \/ /\ Fails /\ budget' = OneFailure
        /\ \/ \E done \in SUBSET d.keys : table' = table \ done /\ UNCHANGED <<relay, dropped>>
           \/ /\ d.by = "relay" /\ relay.phase = "posting"
              /\ FailBatch /\ UNCHANGED table
  /\ UNCHANGED <<client, behind, listed, messages, stream, received>>

DeleteConnection(d) == QueryByConnection(d) \/ BatchWrite(d)

HandleDisconnect == \E d \in deletes : DeleteConnection(d)

-----------------------------------------------------------------------------
(* Messages.                                                               *)

\* The client sends and does not wait for the answer.
SendMessage(c, action, r, w) ==
  /\ socket[c] = "open"
  /\ budget.messages < MaxMessages
  /\ budget' = [budget EXCEPT !.messages = @ + 1]
  /\ messages' = messages \cup {[conn |-> c, action |-> action, run |-> r,
                                 workspace |-> w, phase |-> "received"]}
  /\ IF action = "subscribeRun"
     THEN asked' = [asked EXCEPT ![c] = @ \cup {r}] /\ UNCHANGED acked
     ELSE acked' = [acked EXCEPT ![c] = @ \ {r}] /\ UNCHANGED asked
  /\ UNCHANGED <<socket, user, table, behind, listed, deletes, stream, relay,
                 dropped, received>>

Unsubscribing(m) ==
  \E o \in messages : o.conn = m.conn /\ o.run = m.run /\ o.action = "unsubscribeRun"

\* Bug: whose run it is is not asked.
CheckWorkspaceOnly(m, run) == run # Null /\ run.workspace = m.workspace

\* run_not_found and forbidden are the other answers.
MaySubscribe(m, run) ==
  /\ run # Null
  /\ run.workspace = m.workspace
  /\ run.user = user[m.conn]

CheckRun(m) ==
  /\ m.action = "subscribeRun" /\ m.phase = "received"
  /\ messages' = (messages \ {m}) \cup
       IF MaySubscribe(m, GetRunById(m.run)) THEN {[m EXCEPT !.phase = "checked"]} ELSE {}
  /\ UNCHANGED <<client, table, behind, listed, deletes, stream, relay, dropped,
                 received, budget>>

SubscribeRun(m) ==
  /\ m.phase = "checked"
  /\ messages' = messages \ {m}
  /\ \/ /\ table' = table \cup {Topic(m.run, m.conn)}
        /\ acked' = IF Unsubscribing(m) THEN acked ELSE [acked EXCEPT ![m.conn] = @ \cup {m.run}]
        /\ UNCHANGED budget
     \/ Fails /\ budget' = OneFailure /\ UNCHANGED <<table, acked>>
  /\ UNCHANGED <<socket, user, asked, behind, listed, deletes, stream, relay, dropped,
                 received>>

UnsubscribeRun(m) ==
  /\ m.action = "unsubscribeRun"
  /\ messages' = messages \ {m}
  /\ \/ table' = table \ {Topic(m.run, m.conn)} /\ UNCHANGED budget
     \/ Fails /\ budget' = OneFailure /\ UNCHANGED table
  /\ UNCHANGED <<client, behind, listed, deletes, stream, relay, dropped, received>>

HandleDefault == \E m \in messages : CheckRun(m) \/ SubscribeRun(m) \/ UnsubscribeRun(m)

-----------------------------------------------------------------------------
(* The relay.                                                              *)

\* A write to the events table; some writers leave the user out of the event.
\* A removal passes through the stream too.
WriteEvent(name, r, u) ==
  /\ Len(stream) < MaxEvents
  /\ stream' = Append(stream, [name |-> name, run |-> r, user |-> u])
  /\ UNCHANGED <<client, table, behind, listed, messages, deletes, relay, dropped,
                 received, budget>>

IsEvent(record) == record.name \in {"INSERT", "MODIFY"}

EventStreamRelayHandler ==
  /\ relay.phase = "idle" /\ relay.first <= Len(stream)
  /\ \E n \in relay.first..Len(stream) :
       /\ n < relay.first + BatchSize
       /\ relay' = [relay EXCEPT !.phase = "next", !.at = relay.first, !.last = n]
  /\ UNCHANGED <<client, table, behind, listed, messages, deletes, stream, dropped,
                 received, budget>>

\* A connection that every reader sees subscribed to the run.
Settled(c, r) ==
  /\ socket[c] = "open" /\ user[c] = RunUser[r]
  /\ {Meta(c), Topic(r, c)} \subseteq table \cap behind

\* Bug: the filter takes an event without a user for one of somebody else.
FilterStrictly(e, conns) == {c \in conns : user[c] = e.user}

Filter(e, conns) == {c \in conns : e.user = Null \/ user[c] = e.user}

\* The topic is queried, and each connection is read; a reader may be behind.
ListTargets ==
  /\ relay.phase = "next" /\ relay.at <= relay.last
  /\ LET e == stream[relay.at] IN
       IF ~IsEvent(e) THEN relay' = [relay EXCEPT !.at = @ + 1]
       ELSE \E topics, metas \in Views :
         relay' = [relay EXCEPT !.phase = "posting",
                     !.targets = Filter(e, ListConnectionsForRun(e.run, topics, metas)),
                     !.due = {c \in Conns : Settled(c, e.run)}]
  /\ UNCHANGED <<client, table, behind, listed, messages, deletes, stream, dropped,
                 received, budget>>

Posted(c) == relay' = [relay EXCEPT !.targets = @ \ {c}] /\ UNCHANGED dropped

Send(c) == received' = [received EXCEPT ![c] = @ \cup {relay.at}]

\* Bug: an error that is not "gone" also removes the connection.
PostAndForget(c) ==
  /\ \/ socket[c] = "open" /\ Send(c) /\ UNCHANGED deletes
     \/ deletes' = deletes \cup {Deletion(c, "relay")} /\ UNCHANGED received
  /\ Posted(c)
  /\ UNCHANGED <<client, table, behind, listed, messages, stream, budget>>

\* A gone connection is deleted; any other error ends the invocation, and it may
\* come from a post that arrived, or while the other posts still go out.
PostToConnection(c) ==
  /\ \/ socket[c] = "open" /\ Send(c) /\ Posted(c) /\ UNCHANGED deletes
     \/ /\ socket[c] # "open"
        /\ deletes' = deletes \cup {Deletion(c, "relay")}
        /\ Posted(c) /\ UNCHANGED received
     \/ /\ \E sent \in SUBSET {d \in relay.targets : socket[d] = "open"} :
             received' = [d \in Conns |-> IF d \in sent THEN received[d] \cup {relay.at}
                                          ELSE received[d]]
        /\ FailBatch /\ UNCHANGED deletes
  /\ UNCHANGED <<client, table, behind, listed, messages, stream, budget>>

PublishRealtimeEvent ==
  /\ relay.phase = "posting"
  /\ \E c \in relay.targets : PostToConnection(c)

\* Once all posts and deletions ended: the next record, or the batch is done and the stream moves past it.
Advance ==
  /\ \/ /\ relay.phase = "posting" /\ relay.targets = {}
        /\ \A d \in deletes : d.by # "relay"
        /\ relay' = [relay EXCEPT !.phase = "next", !.at = @ + 1]
     \/ /\ relay.phase = "next" /\ relay.at > relay.last
        /\ relay' = [Reading EXCEPT !.first = relay.last + 1]
  /\ UNCHANGED <<client, table, behind, listed, messages, deletes, stream, dropped,
                 received, budget>>

Relay == EventStreamRelayHandler \/ ListTargets \/ PublishRealtimeEvent \/ Advance

-----------------------------------------------------------------------------
Client ==
  \/ \E c \in Conns, u \in Users \cup {Null} : HandleConnect(c, u)
  \/ \E c \in Conns : CloseSocket(c)
  \/ \E c \in Conns, a \in {"subscribeRun", "unsubscribeRun"}, r \in Runs, w \in Workspaces :
       SendMessage(c, a, r, w)

Writer == \E name \in {"INSERT", "MODIFY", "REMOVE"}, r \in Runs :
            \E u \in {RunUser[r], Null} : WriteEvent(name, r, u)

RelayNext ==
  \/ Client \/ Writer
  \/ CatchUp \/ ListRun
  \/ HandleDisconnect \/ HandleDefault
  \/ Relay

\* Lambda runs what was invoked, the stream goes on, and readers catch up.
Fairness ==
  /\ WF_relayVars(HandleDisconnect) /\ WF_relayVars(HandleDefault)
  /\ WF_relayVars(Relay) /\ WF_relayVars(CatchUp)

RelaySpec == RelayInit /\ [][RelayNext]_relayVars /\ Fairness

-----------------------------------------------------------------------------
(* Properties.                                                             *)

\* Every variable keeps its shape.
RelayTypeOK ==
  /\ socket \in [Conns -> {"none", "open", "closed"}]
  /\ user \in [Conns -> Users \cup {Null}]
  /\ asked \in [Conns -> SUBSET Runs] /\ acked \in [Conns -> SUBSET Runs]
  /\ table \subseteq Keys /\ behind \subseteq Keys /\ listed \subseteq Runs
  /\ \A m \in messages : m.conn \in Conns /\ m.phase \in {"received", "checked"}
  /\ \A d \in deletes : d.conn \in Conns /\ (d.keys = Null \/ d.keys \subseteq KeysOf(d.conn, Keys))
  /\ relay.phase \in {"idle", "next", "posting"} /\ relay.attempt \in 1..RetryAttempts + 1
  /\ relay.first \in 1..Len(stream) + 1 /\ relay.last \in 0..Len(stream)
  /\ dropped \subseteq 1..Len(stream)
  /\ received \in [Conns -> SUBSET (1..Len(stream))]

\* A socket is only sent events of runs that its client subscribed to and that
\* belong to its user (handlers.ts:80-94 and the filter of relay.ts:24-25).
OwnEventsOnly ==
  \A c \in Conns : \A n \in received[c] :
    /\ stream[n].run \in asked[c]
    /\ RunUser[stream[n].run] = user[c]

\* As long as a socket is open and its client has not unsubscribed, the table
\* keeps both of the rows the relay finds it by, whatever other handlers and
\* the relay delete (subscriptions.ts:37-61, relay.ts:32-38).
SubscribedStays ==
  \A c \in Conns : socket[c] = "open" =>
    \A r \in acked[c] : {Meta(c), Topic(r, c)} \subseteq table

\* When the relay passes a record without giving it up, every connection that
\* was subscribed when the record's connections were listed, and that is still
\* open, has been sent it (relay.ts:19-41).
PassedWasSent ==
  relay.phase = "posting" /\ IsEvent(stream[relay.at]) =>
    \A c \in relay.due \ relay.targets : socket[c] = "open" => relay.at \in received[c]

\* What the relay delivers: to nobody what is not theirs, and to everybody who is
\* due what it passes on.
DeliverySound == RelayTypeOK /\ OwnEventsOnly /\ PassedWasSent

Wanted(c, n) == socket[c] = "open" /\ stream[n].run \in acked[c]

\* An event written while a client is subscribed reaches it, unless the client
\* unsubscribes or goes away first or the record's batch is given up.
EventsArrive ==
  \A c \in Conns, n \in 1..MaxEvents :
    (/\ n \in relay.first..Len(stream) /\ n > relay.last
     /\ IsEvent(stream[n]) /\ Settled(c, stream[n].run) /\ Wanted(c, n))
      ~> (n \in received[c] \cup dropped \/ (n \in DOMAIN stream /\ ~Wanted(c, n)))
====
