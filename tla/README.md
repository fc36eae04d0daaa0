# Agents Cloud: a verification development

TLA+ models of Agents Cloud, the TLC configurations that check them on small
instances, and proofs of their main properties that TLAPS checks for every value of
the constants. Paths below are relative to the root of the repository (`src/`). The
definitions are translated from the TypeScript sources; `PROJECT.json` gives, for
each definition, the lines it stands for.

## 1. The system

A user asks for work with `POST /runs`. The control API writes a *run*, its *task*
and a first *event* in one transaction and hands the run to an execution: a Step
Functions state machine that starts a worker, or a *resident runner*, a long-lived
container per user that hosts several logical agents and is woken over HTTP. The
execution appends events to the run's log, stores artifacts, and keeps a status
column in the run and the task row. A DynamoDB stream relays each event to the
WebSocket connections that subscribed; web clients also poll the log. Beside it the
control API keeps records (work items, approvals, surfaces, references, agent
profiles), and a website that an agent serves is shown through a preview tunnel.

| Component | State | Operations | Talks to |
|---|---|---|---|
| Control API, runs (`services/control-api/src/create-run.ts`, `dynamo-store.ts`, `idempotency.ts`, `step-functions.ts`, `lambda-async-execution.ts`, `handlers.ts`) | RunsTable with the index `by-idempotency-scope`, TasksTable, EventsTable | `createRun`, `dispatchRunHandler` | Step Functions, the asynchronous Lambda, the resident dispatcher |
| Control API, reads (`query-runs.ts`, `access-control.ts`) | none | `getRun`, `listRunEvents`, the admin's lists | the tables |
| Control API, resident dispatcher and runners (`runner-dispatcher.ts`, `runner-dispatcher-aws.ts`, `user-runners.ts`) | UserRunnersTable with the index `by-status`, HostNodesTable | `dispatchRunnerWake`, create, update, heartbeat of a runner and of a host | ECS, the runner's HTTP port |
| Control API, records (`work-items.ts`, `approvals.ts`, `surfaces.ts`, `artifacts.ts`, `data-source-refs.ts`, `agent-profiles.ts`, `userEngagementHandler`) | one table each, a bucket for profiles | create, list, get, update, decide, publish, approve, engage | DynamoDB, S3 |
| Resident runner (`services/agent-runtime/src/resident-runner.ts`) | in memory: agents, heartbeats, metrics, the counter `seq`; durable: EventsTable, ArtifactsTable, AgentInstancesTable, the status columns | `wake`, `recordUserEngagement`, `registerAgent`, `initialize` | DynamoDB, S3, the agent adapters |
| Runner server and Hermes adapter (`resident-runner-server.ts`, the adapter in `resident-runner.ts`, `bin/agents-cloud-user.mjs`) | two tokens, child processes, `auth.json` | wake, engage, register an agent, store credentials, shut down; start and end a child | the resident runner, the Hermes command line |
| Worker (`worker.ts`, `seq-allocator.ts`, `dynamo-event-sink.ts`, `aws-artifact-sink.ts`, `gateway-hermes-runner.ts`) | the counter of one run | `executeRun` | DynamoDB, S3, the Hermes gateway |
| Local harness (`local-harness.ts`, `local-harness-cli.ts`) | the files of a directory | play a scenario, inspect | the operator |
| Realtime API (`services/realtime-api/src`) | the table of connections and subscriptions | connect, subscribe, unsubscribe, disconnect, relay | the EventsTable's stream, API Gateway |
| Web (`apps/web`) | React state of each page | start a run, poll, receive, merge, select, decide | the Control API and the Realtime API |
| Preview tunnels (`infra/cloudflare/preview-tunnels`, `services/agent-runtime/src/preview-tunnel-agent.ts`) | an entry in KV; a Durable Object per tunnel: the runner's socket, the open streams | create, attach, proxy, close, delete | viewers and a runner |
| Desktop and mobile (`apps/desktop_mobile`) | local stores of conversations and inbox | the same operations from Dart | the same services |
| Realtime hubs (`infra/cloudflare/realtime`) | Durable Objects | publish, subscribe | deferred, nothing feeds them |
| Protocol and profiles (`packages/protocol`, `packages/agent-profile`, `services/agent-creator`) | none | pure constructors and validators | |
| Infrastructure (`infra/cdk`, `infra/amplify`) | none | declarations | |
| `services/agent-manager`, `builder-runtime`, `event-relay`, `miro-bridge`, `preview-router` | none | README files only | |

What is hard, and what makes each part correct:

* **Creating a run.** Requests with one idempotency key interleave and crash
  between awaited calls, and the index they look the key up in lags. One ledger per
  key, a run, its task and its first event together or not at all, an answer that
  names a run with an execution, and nothing started that does something else than
  the ledger says.
* **Dispatching to a resident runner.** Dispatches and HTTP routes read a row, wait,
  and put the whole row back without a condition; ECS answers late or never. A wake
  must reach a running container, at an address that one of the user's own containers
  had or that the user's own callers gave, and a dispatch must end.
* **Executing in the resident runner.** Wakes, engagements and registrations
  interleave at every await of one Node process, share one counter, fail in the
  middle and lose their memory with the process. The log must not hold two events at
  one position, the statuses must not run ahead of it, and a reported heartbeat must
  have left its evidence.
* **Around a heartbeat.** A child process may ignore its signal and outlive its wake,
  print anything, and post to the server that started it. It must not do more than
  ask for engagements, a session must go on over failures and registrations, and the
  wake must end without its process.
* **Executing in the worker.** A container may die between any two calls and another
  one takes over, while engagements append to the same log with positions of their
  own. What it says it delivered must be there, and what it says last must be one
  story.
* **Records.** Handlers read, check in other calls and write back; two of them
  overlap. Links that are checked must stay within their owner, a decision must stand,
  rows must agree with their indexes and their bundles.
* **Relaying.** Connections close while their messages are handled, the index lags, a
  failed post repeats the whole batch. Nobody gets what is not theirs, and who is
  subscribed gets what is written.
* **Showing.** The same events arrive by stream and by polling, repeated and out of
  order; answers arrive after another row, conversation or workspace was selected.
* **Tunnels.** Streams of several viewers share one socket that may be replaced, and
  numbers of streams begin anew when the object was hibernated.

`PROJECT.json` lists the hazards at their lines, with the properties that would catch
each of them and, in a note, what they leave open.

## 2. The modules

| Module | Models | Checked by | Proved in |
|---|---|---|---|
| `CreateRun` | `POST /runs` and the asynchronous dispatch handler | `MCCreateRun` | `CreateRunProofs` |
| `ResidentRunner` | the resident runner and its sinks | `MCResidentRunner` | `ResidentRunnerProofs` |
| `RunnerDispatch` | the resident dispatcher, the `/user-runners` routes, ECS | `MCRunnerDispatch` | `RunnerDispatchProofs` |
| `WakeDelivery` | what `createRun` relies on when it hands a run to the dispatcher (abstract) | implemented by `RunnerDispatch` | `RunnerDispatchProofs` |
| `Worker` | the ECS task of a Step Functions execution, and engagements beside it | `MCWorker` | `WorkerAndPagesProofs` |
| `EventLog` | what the writers of a log promise to its readers (abstract) | implemented by `Worker`, `ResidentRunner`, `Records` | `WorkerAndPagesProofs`, `ResidentRunnerProofs`, `RecordsProofs` |
| `Records` | the other routes of the control API | `MCRecords` | `RecordsProofs` |
| `HermesAdapter` | the runner's server, the child processes, sessions, credentials | `MCHermesAdapter` | `AgentProofs` |
| `LocalHarness` | the scripted scenario in the files of a directory, and its inspection | `MCLocalHarness` | `AgentProofs` |
| `PreviewTunnel` | a tunnel: registry, Durable Object, the runner's agent, viewers | `MCPreviewTunnel` | `EdgeProofs` |
| `RealtimeRelay` | the WebSocket handlers, their table, the stream's relay | `MCRealtimeRelay` | `EdgeProofs` |
| `RunView` | the command panel: a browser tab that follows a run | `MCRunView` | `RunViewProofs` |
| `ControlApiClient`, `RunsChat`, `Boards`, `WorkspacePages` | the other pages over the control API they meet: the requests, the chat, the boards, and the application that mounts one of them | `MCWorkspacePages` | `WorkerAndPagesProofs` |

In each, an operation of the code that awaits is a process with a program counter,
and an action is the code between two awaits. A definition that begins with the
comment "Bug:" is a mutated form of the one that follows it. The specifications do
not use it: it exists to show that the property next to it in `PROJECT.json` would
notice the mistake. Where several properties speak of one thing they are conjuncts
of one that the run checks (`LedgerSound`, `RowsSound`, ...), each with its own name
and comment.

### CreateRun

A request `c` runs through `req[c].pc`: `Receive` (validation), `Probe` (the lookup
in the index), `CreateRunLedger` (the transaction of three conditional puts),
`StartStepFunctions`, `StartResident` or `StartAsyncLambda` (which of them is fixed
by `starter`, the choice `handlers.ts` makes when it is loaded), and
`UpdateRunExecution` (the patch of `executionArn`, conditional on the row). `Crash`
is a call that throws or the end of the invocation, anywhere between two calls.
`dispatchRunHandler` is `DispatchWake` and `DispatchRecord`, redelivered at most
`MaxAttempts` times and then dropped. `index` is the index, which catches up with
`runs` at any time. A keyed request's run id is a hash of its scope, so the scope
stands for the id. `starts` and `writers` are history variables for the properties.

### ResidentRunner

A wake `w` goes through `Accept` (selection and the marks in memory),
`MarkInstances`, then for each emission `Emit` (the synchronous `nextSeq`),
`PutEvent` (conditional on the position), `UpdateRunStatus` and `UpdateTaskStatus`
in either order, and `Emitted`; per agent `RunAdapter`, `PutActionRecord`,
`PutHeartbeatRecord`, `RecordHeartbeat` and `PersistInstance`. `AfterEmission` says
where `wake()` goes on. `WakeFails` is any awaited call that throws; an update of a
status that was under way may still land after it. `Engage` and its followers are
`recordUserEngagement`, `RegisterRead` and its followers `registerAgent`. `Restart`
ends the process and initializes a new one. Memory is reset by it, tables are not.

Left out or simplified: the local files (`persistState` writes them and nothing in
`wake()` reads them back, `events.ndjson` likewise); `initialize` is one step with
`Restart`, since the server listens only after it; `persistAgentInstance` is one
step, and the parallel marks of `MarkInstances` are one step; the adapters of one
wake yield at most one event they act on; a run has one task, and its rows exist
before the wake, as the control API writes them.

### HermesAdapter

The container around such wakes, each with one heartbeat. A request that is posted
(`Post`, by what is outside in `OutsidePosts` and by a child process in `ChildPosts`) is
authorized and routed by `Handle`: `AcceptWake`, `RegisterAgent` (which reads the agent
before its awaits; `PutAgent` writes it after them), `StoreHermesAuth` with
`WriteHermesAuth`, engagements, the shutdown. A child may ask for an engagement of any
run, for the tool takes the one it is given before that of its environment
(`bin/agents-cloud-user.mjs:17`), and no run is checked.
A heartbeat is `Spawn`, `Exit` or `TimeOut`, and `FinishHeartbeat`, which emits the
events found in the output (`ExtractActionableAgentEvents`, over sequences of blocks
by type and kind of payload) and stores the session; `WakeFails` is one of its calls
that throws. A child whose wake timed out runs on and posts until it chooses to end.
`last` and `newest` are histories of the session reported and the upload taken last.
What the code guarantees only to wakes and registrations of an agent, or to uploads,
that do not overlap is stated for those (`overlapped`).

Left out: the provider keys that one more variable passes on; a failed write of
`auth.json`; the registration of an agent that is not there yet (`ResidentRunner` has
it); a wake of several agents. A failed process's error stream is part of its output, as
in the code.

### RunnerDispatch and WakeDelivery

A dispatch `d` goes through `FindForUser` (a page of the index, over all users),
`CreateRow` or `MarkStarting` if needed, `Launch` (RunTask), `Refetch`,
`RecordLaunch`, the rounds of `Describe`, `PutStopped` or `PutRunning`, `Get`, the
`LastGet` after the deadline, and `PostWake`, repeated until it is answered or
`GiveUp`. Its copy of the row travels with it in `disp[d].row`, and each `Put` of it
is unconditional. A request `q` of the routes reads a row (`CreateUserRunner`,
`UpdateDesiredState`, `Heartbeat`) and puts it (`PutUserRunner`). `task` is ECS:
pending, running, stopped, or stopped before it ran. `replica` is one lagging copy
of the table; the index and the eventually consistent reads by key see it, the
latter or the current row.

A heartbeat stores the addresses that its caller sends as they are
(`user-runners.ts:214-216`): `Given` are those a caller may send, and the history
`named` keeps for which user. `at` is the address of a task once it ran: two running
tasks have different ones, and that of a stopped task may be given to the next.

Simplifications: of the nine statuses of a runner the model keeps the five classes
the code tells apart; a dispatch launches at most one task, which is named by it; the
task's ARN is left out, for a dispatch asks ECS only about the task it launched itself;
which rows are the most recent is left open (`Page` is any page of the right size); at
an address of a running task only a runner answers. The cache of the token provider is
left out.

`WakeDelivery` is the promise: an answered dispatch has delivered its wake to a
container, and the wake reaches a running container launched for the same user. It has
the exceptions that the code has (`MayReach`): at an address that the user's callers
gave, or that a container of the user had and left, another user's container may run,
and at one that was given something else may answer (`AnsweredElsewhere`). It leaves
open how the container is found, how often the wake is delivered, and whether a failed
dispatch delivered one. `Delivery` in `RunnerDispatch` is the refinement mapping.

### Worker and EventLog

An attempt is one container: `StartTask`, then `executeRun` call by call along `pc`
(`LoadSeqAllocator`, the statuses, their events, `RunHermes`, `StoreArtifact`), to
exit code 0 or 1. A call that throws inside the try block goes on in the catch block
(`Throw`); one that fails may have done its work (`Settles`). `Kill` ends the
container anywhere. `counter` is the container's own: nothing but the conditional put
protects the log from a second container or from the engagements
(`NextEventSeq`, `PutEngagement`), which read the highest position and put later.
The allocator's read may be answered from an older copy.

The state machine of the repository has no retry, so one execution has one attempt;
the attempts after it stand for an execution that an operator drives again.

`EventLog` says that an event is appended at a free position and stays as it is. Its
readers (`RunView`, the chat, the admin's summaries) are modelled over such a log. The
resident runner and the engagements and agents of `Records` write such a log too, one
for each run (`Log(r)` in those modules).

### Records

A request `c` is an invocation of a handler that goes through `req[c].pc`, one action
per awaited call; `Handler(c)` is the disjunction over the operations, `Crash` any end
between two calls. Rows are records with the fields that different operations write;
operators compute the lists and single reads from the tables, as the indexes of
`dynamo-store.ts` do. `Scenarios` names the families of operations that are asked
together. `createRun` is one step here. Work items and runs created with a key have
the scope as their id.

Left out: the limit of a list, which DynamoDB applies before the filter on the
workspace (`dynamo-store.ts:358`, `:570`); what a signed URL is made of; a data
source's artifact, which is stored unchecked and read by nothing (`data-source-refs.ts:73`); the admin's
list of hosts and runners, one query per status.

### PreviewTunnel

The registry entry in KV (`CreateTunnel`, status updates, expiry, deletion), the
Durable Object (`runner`, `streams`, `nextStreamId`; `Hibernate` loses the latter
two), agents `k` with the frames under way (`up`, `down`), the parts of requests they
hold (`heads`, `bodies`), and the requests to the local server (`tasks`). A viewer `v`
goes through the worker's and the object's handler; `Timeout` is its timer. Frames
carry the request they belong to only for the properties.

### RealtimeRelay

Each message and each deletion of a connection is an invocation of its own
(`messages`, `deletes`); the relay (`EventStreamRelayHandler`, `ListTargets`,
`PublishRealtimeEvent`, `Advance`) reads batches of the stream, and a post that fails
for another reason than a closed socket repeats the batch (`FailBatch`), at most
`RetryAttempts` times. Reads see the table or, where they are eventually consistent,
an older state of it (`behind`). The hub of Cloudflare is not part of it.

### LocalHarness

`Play` writes the scenario's events, artifacts and state file one by one;
`InspectState` and `InspectEvents` read them at any time. The directory may be used
again with the same or another run id, and a scenario may be killed at any write,
which may leave the state file torn. One scenario at a time runs in a directory.

### RunView

A tab is `tab`: the run it follows, the events it shows (`view`), the status it was
last told and where `onSubmit` is. `Submit`, `CreateRun` and `InitialEvents` are the
three parts of `onSubmit` between its awaits, `SubmitFails` any of its calls that
throws. A poll `p` is one call of `tick`: `Tick` starts it, `RowAnswer` is the answer
to `getRun` (from an index, so any status the row has had) and the reading of the
cursor, `EventsAnswer` the answer to `listRunEvents` (from a lagging copy, so a page
of any prefix of the log) and the merge into whatever is shown by then, `PollFails` a
call that throws. The interval does not wait for a poll, so several are in flight.
`OpenSocket`, `SubscribeRun`, `LoseSocket` and `CloseSocket` are the hook's socket;
`RelayEvent` is the stream's relay posting an event to it. `CommitEvent` and
`UpdateRow` are the run's writer: the event first, then the status column. What the
tab derives from its events (`ShownStatus`, `LastSeq`, `IsTerminal`) are operators.

Simplifications: one tab; the positions of a log are 1, 2, ... in the order of their
commit, which one writer ensures and two need not; the four terminal statuses are
one, "ended"; the work item that `onSubmit` also creates is left out; React's effects
run with the change that causes them; the table of connections, which `RealtimeRelay`
details, is reduced to the tab's own subscription. The relay delivers a batch in
order, again when one post failed, and not at all in the end. Any event of the log
may therefore come next, and `RelayEvent` says just that.

### ControlApiClient, RunsChat, Boards, WorkspacePages

`ControlApiClient` is the server as a browser meets it, real or mocked, and the
requests under way: one is sent into a slot, its parts are read or its write is done
(`Serve`), and the page takes the answer later (`Take`), or it was cancelled. `RunsChat`
is the conversation page, mounted anew for each work item, with its refresh, its poll
and its socket. `Boards` is the work dashboard, the approvals, artifacts and agents
boards and the admin console: a list, for most a detail of the selected row, and
actions on a row. `Cancelling` names the pages whose effects set a flag when they run
again. `WorkspacePages` composes them: one page is mounted, and the runs go on.

Simplifications: two requests are under way at a time; a run has three events, its
artifact before its end; one profile; the mock answers as soon as it is read, and may
read as late as a server.

## 3. The runs

| Run | Instance | Shows |
|---|---|---|
| `createrun` | 2 requests, 1 key, 2 objectives, each of the 3 starters, 2 deliveries | `LedgerSound`, `ExecutionsSound`, `AcceptedHasExecution`, `RowsKept`; live: `StartedRunsGetArn`, `DispatchSettles` |
| `resident` | 2 wakes for one run, 2 engagements, 2 agents, 1 registration, 1 restart, in three scenes | `LogSound`, `StatusBacked`, `HeartbeatEvidence`, `WakeOutcome`; live: `WakesEnd` |
| `dispatch` | 2 dispatches for the runs of 2 users, 2 addresses of which 1 is given, 1 request of the routes, a page of 1 row | `AddressesAreOwn`, `DeliversWakes`; live: `DispatchEnds` |
| `worker` | 2 attempts, 2 engagements | `OutcomeSound`, `LogSpec`; live: `AttemptsEnd` |
| `records` | 3 requests in 11 families of operations, 4 callers, 2 workspaces, 2 keys | `RowsSound`, `ListsSound`, `AnswersStand`, `ChangesAsked`; live: `RequestsEnd` |
| `adapter` | 2 wakes of 1 or 2 agents, 1 registration, 2 uploads, 3 posts, 4 families of paths | `PostsSound`, `WakesSound`; live: `WakesSettle` |
| `harness` | 2 scenarios in one directory, 2 run ids, 1 given task id | `PublishedAfterApproval`, `DirectoryAgrees`; live: `ScenarioEnds` |
| `tunnel` | 2 agents, 2 viewers of whom 1 has a body, 1 stream at a time, 1 hibernation | `AnswersSound`, `RegistryFollows`; live: `ViewersAnswered` |
| `realtime` | 2 connections, 2 users, 2 messages, 2 events, 1 failure, 1 repetition | `DeliverySound`, `SubscribedStays`; live: `EventsArrive` |
| `runview_end` | 1 run of 3 events, 2 polls, a page of 2 | `EndIsReal`; live: `EndIsShown` |
| `pages` | 6 pages, 2 workspaces, 3 items, 2 runs of 3 events, a poll of 2, 3 clicks, 2 requests | `ShowsSelection`, `ShowsFacts`, `EventsShown`; live: `PagesSettle` |
| `runview_active` | 2 runs of 2 events, 2 polls | expects `OnlyActiveRunShown` to be violated |

**Scenes.** Where a full product of independent parts would hide a run in millions of
states, the MC module states as `Scene` which of them occur together, and the cfg has
it as `CONSTRAINT`. A scene never holds back a step that fairness speaks of: it bounds
the requests, wakes, clicks, connections, failures and restarts that the environment
starts, and their inputs, or leaves one order of two that are alike.

* `resident`: a wake with two engagements, or with one and a restart; a wake while an
  agent is registered; two overlapping wakes whose agents ask for nothing.
* `dispatch`: two dispatches, the first one for the first of two users that are alike; or
  one, a route's request of that user, and either the first calls of a second dispatch
  for the same run or a container that a dispatch of the other user left running.
  `Given = {p2}`, so a heartbeat may name an address that ECS also gives out, even to
  another user's container; `Reported = {}`, so it keeps the row's status, and
  `Wanted = {"stopped"}`; the theorems `AddressesCorrect` and `Implements` cover the
  rest.
* `adapter`: `Traffic` names the paths that are used together, wakes with each of the
  others, and one request is on its way at a time (`MaxWaiting`): any request may be
  posted at any time, so the order of two on their way adds nothing.
* `records`: families are in `Scenarios`, part of the initial state. Families share no
  table but the runs and work items that all of them read.
* `tunnel`: the tunnel expires or is deleted in histories of one agent; a history with
  two agents and a hibernation has one viewer.
* `realtime`: events are written once somebody has subscribed, the failure comes before
  the second connection.
* `pages`: what does not bear on the mounted page does not happen; with a second
  conversation or a second run the user acts once.

**Why the bounds are enough.** Requests that create a run share nothing but the key,
the rows and the execution, so two with one key show every race of a pair, and one of
them may have ended or crashed before the other begins. A second key would double the
state and share no row. Two deliveries are the first duplicate. In the resident
runner and in the worker's log, positions collide between any two writers of a run; a
wake and two engagements are two kinds of writer and two of one kind, and one restart
sets the counter back once. In `RunnerDispatch` two dispatches are a writer and a
reader of one row, and the page is shorter than the table, so that a dispatch may not
see its own user's row. Two attempts of a worker are one that was interrupted and one
that finds its remains. Of records, three requests are a creation and two changes that
race for what it made; `Founder` has stored an item and its run already. Two agents of
a tunnel are one and its replacement, two viewers a stream of each side of it, and one
stream at a time is the limit that is reached. A repetition and a drop of a batch need
one repetition; two records in a batch are the one that is repeated and the one that
fails. Two polls are an older and a newer one, and three events are a first one, one
that may be missed and a last one, with a page that does not hold them all. Two
requests of a page are an answer that is late and the one it is late for. Each run's
bounds are named in its cfg; the proofs of section 5 have none.

**Deadlock** is checked for `createrun`, `resident` and `records`, which stutter only
when no process is under way (`Quiescent`), so that one that is stuck in the middle is
a deadlock; in `harness` somebody can always inspect. In the others the system really may stop: dispatches, attempts, scenarios
and wakes end, a tab is idle when its run has ended, viewers and connections go away.

## 4. Fairness

* `CreateRun`, `Records`: weak fairness of a request's handler (and of the dispatch
  handler). Lambda runs an invocation on or ends it, and `Crash` (which is not fair) is
  that end. Neither an index nor a redelivery is forced.
* `ResidentRunner`: weak fairness of a wake's own steps: an awaited call returns or
  throws. Nothing forces a failure, a restart or another request.
* `HermesAdapter`: weak fairness of the start of a heartbeat's process, of its timer and
  of what follows its end. A child process need not end and heeds no signal.
* `RunnerDispatch`: weak fairness of a dispatch's steps, and strong fairness of the
  passing of its two deadlines (`runner-dispatcher.ts:245-248`,
  `runner-dispatcher-aws.ts:132`): a loop that is entered again and again reaches the
  time its clock is compared with. ECS is not fair: a task may stay pending for ever.
* `Worker`, `LocalHarness`: weak fairness of the process, which runs on or is killed.
  A gateway that is silent is ended by the request's own time limit.
* `PreviewTunnel`: weak fairness of a viewer's handler and of its timer. Neither the
  runner nor the local server owes an answer.
* `RealtimeRelay`: weak fairness of the handlers that were invoked, of the relay, and of
  a lagging reader's catching up.
* `RunView`: weak fairness of each poll (the interval fires, a request is answered or
  throws) and of `CloseSocket` (React runs an effect's cleanup); strong fairness of
  `RowAnswer` and of `FreshAnswer`, an answer with the log as it is by then: of polls
  that are repeated for ever not all fail, and not all read a copy that lags. Nothing
  is assumed of the relay or of the socket, so polling alone has to do.
* `WorkspacePages`: weak fairness of requests and of their answers' being taken; strong
  fairness of sending a poll and of its being served. The user, the runs and the socket
  owe nothing.

## 5. What is proved

TLAPS checks these for every value of the constants that satisfies the assumptions
each module names (disjoint name spaces, and types; finiteness only where it is said).
`IInv` is the inductive invariant of a module; each `Invariance` is `Spec => []IInv`.
Where two components are proved about in one module the second one's names are its
own: `RelaySpec` and `RelayInv` in `EdgeProofs`, `HarnessSpec` and `HarnessInv` in
`AgentProofs`, `PagesSpec` and `PagesInv` in `WorkerAndPagesProofs`.

* **CreateRun** (`CreateRunProofs`): `LedgerSound`, `ExecutionsSound`,
  `AcceptedHasExecution`; and `RowsKept` from the type invariant. The properties are
  not inductive: that a retry starts the ledger's objective needs `IndexTrails` (what
  the index shows was once the row: same objective, and an ARN only if the row has one)
  and `RequestFacts` (what a request has read or written when it resumes at each
  program counter). `WritersState` and `ExecutionsState` tie the history variables to
  the tables. That an ARN in a row has a source needs a second invariant over the first,
  `Sources`: what was started before an ARN is known for it, whether in the execution's
  table, at a request that is about to patch, or at a delivery past its wake.
* **ResidentRunner** (`ResidentRunnerProofs`): `LogSound`, `StatusBacked`,
  `HeartbeatEvidence`, `WakeOutcome`, and `Spec => LogSpec`, the refinement of
  `EventLog` by the log of every run. For the first three the strengthening is `WakeFacts`: `ControlOf` (which kind of
  emission goes with which program counter), `NumbersOf` (a wake's events lie below the
  counter and below the number it is about to put, which is what makes its events
  ordered although the counter is reset by a restart), `TodoOf` (a status update to
  come has its event) and `EvidenceOf` (how far the heartbeat under way has got, and
  what it has left). `WakeOutcome` needs a second invariant over it, `OutcomesKnown`:
  what a wake remembers of its heartbeats is what the log tells of them, in the order
  they ran (`Memory`), its flags follow from that (`Flags`), and a status it wrote is
  the table's as long as nobody else writes it (`Stored`, `Alone`). Two of its
  conjuncts (`EndIsTold`) hold as they are; that the list of agents has each once is
  true if at most one registration is asked for (two of them may read the list
  before either writes it), so the theorem of the whole has that hypothesis. Assumed:
  the list of default agents names each once, as `resident-runner.ts` does.
* **RunnerDispatch** (`RunnerDispatchProofs`): `AddressesAreOwn`, and
  `Spec => DeliversWakes`: every step of the dispatcher is a step of `WakeDelivery` or
  leaves its variables alone. `AddressesAreOwn` speaks of every copy of a row, in the
  table, the replica, or in a hand, because a copy is put back later: a task launched
  for the runner had the address, or a caller of the runner's user gave it
  (`KnownFor`). `HandsOf` says what a dispatch knows at each program counter, `PlacesOf`
  that a task has an address once it ran, and shares it with none that runs. The
  refinement uses the three: whoever runs at the address of a row in hand is a task of
  the user's own, or the user's callers gave the address, or a task of the user's had
  it and stopped. Assumed of ECS: two tasks that run have different addresses.
* **Worker** (`WorkerAndPagesProofs`), for any number of attempts and engagements:
  `OutcomeSound`, and `Spec => LogSpec`, the refinement of `EventLog`. The invariant is
  `LogIsOrdered` (a bounded log, one event per position), `EventsAreDrawn` (an attempt's
  events lie at or below its counter, and it has none before it loaded one),
  `ArtifactInParts` and `StatusInParts` (what is there at each program counter). That an
  attempt's last event tells its exit follows from the three together: its event at its
  counter is the highest it can have, and the only one there.
* **RunView** (`RunViewProofs`): for any number of runs, polls and events and any page
  the invariant, and `EndIsReal` if there is one run to follow. The invariant says of
  each place that holds something of a run (the row, the polls under way, the status and
  the events the tab shows) that it was read from the log (`RowReal`, `PollReal`,
  `TabReal`, `ViewReal`), and the log only grows. With several runs `EndIsReal` is
  false, for the reason that `runview_active` shows.
* **PreviewTunnel** (`EdgeProofs`): `AnswersSound` and `RegistryFollows`, for any
  number of agents, requests, streams and hibernations. That what comes back belongs to
  the request needs the ids: a life of the object numbers its streams one after the
  other, and no two requests have the same id in one life (`IdsDiffer`, `IdsEnough`);
  what an agent holds under an id, be it a head, chunks, a task or a frame on either
  way, is of a request that had that id (`HeldOf`). That an agent forwards whole requests
  needs the order of the frames: every frame but the first of a request comes right
  after the part before it, among the frames of its id, or finds exactly that part at
  the agent (`QueueOf`), and so will the part that a request sends next, to whatever
  runner is connected by then (`Expected`). That a form is forwarded once needs that
  there is one frame of a kind for a request (`FramesOnce`), with a count of how often
  it was forwarded for those that are still under way (`ServedOf`). Assumed: finitely
  many requests, since the streams are numbered.
* **RealtimeRelay** (also in `EdgeProofs`): `DeliverySound` and `SubscribedStays`, for
  any number of connections, events, failures and repetitions. A row of the table, seen
  by a reader that is up to date or behind, must be of a client that asked for the run
  and may have it (`Rows`); so must a message that passed its check, which may be
  handled long after it (`Pending`); only connections whose socket has closed are being
  deleted (`Deletions`), and a client that sent an unsubscription does not count on the
  row while the message is under way. Assumed: `META` is no run, and a run has an owner.
* **HermesAdapter** (`AgentProofs`): `PostsSound` and `WakesSound`, for any number of
  wakes, registrations and requests, any traffic and any output. The invariant says what
  a request on its way may be: of a process without the runner's token, for the run of
  its own wake if it names none, or of somebody else, about what its path is about
  (`RequestsOf`); a process works for the run of its wake (`ProcessOf`). `WakesSound` has
  an invariant of its own, `WInv`: what a wake has left at each program counter
  (`Heartbeats`); that the session of an agent whose wakes and registrations do not
  overlap is the one reported last, with what the one under way took from it and will
  write (`Sessions`, by `SessionOf` and `Reported`); and that the credentials are the
  whole of the newest upload (`Credentials`). That the events of a heartbeat are the usable
  blocks of its output, in order, is shown of the recursive function that extracts them
  by its least counterexample, for outputs of any length. Assumed: no wake, upload or
  registration has the name of something absent, of a token, of the outside or of the
  bootstrap, and an output is a sequence of blocks.
* **LocalHarness** (also in `AgentProofs`): `PublishedAfterApproval` and
  `DirectoryAgrees`, for any number of attempts and any run ids. The scenario is a table
  of steps (`StepOf`) and of the log's entries (`Entry`); a log is the beginning of what
  one attempt writes (`LogOf`), and a scenario being played stands at a step with the
  tools, events and artifacts of the steps before it and no others (`AtStepOf`). A state
  file that was written to its end sums up its whole attempt (`IsState`), and then the
  log holds all or nothing of that attempt (`Complete`). An inspection reads the two
  files one after the other; what it read first stays true because an attempt that has
  written its state writes no more events (`Written`). Assumed: there is a run id.
* **Records** (`RecordsProofs`): `RowsSound`, `ListsSound`, `AnswersStand`,
  `ChangesAsked`, and `Spec => LogSpec`, for any number of requests, callers, records,
  agents and events, and any size of a page. An approval's work item and a data source's
  artifact are stored unchecked, and the links that `RowsSound` speaks of are the others.
  The invariant says of every table whose its rows are and which rows they name
  (`RunsOk`, `ItemsOk` and so on, with `RunIsOwned`, `ItemIsOwned`), and of every request
  what its handler has read, checked or awaited at the call it stands at (`Facts`): a row it read
  may since have changed in what others write, but not in its owner, its links, or a
  decision that is final. What the lists return is then computed from such tables; that
  a page has no gap is a lemma about the events before a position. One log holds one
  event per position, because each is put where there is none. Assumed: no record is
  the absent one, and a page holds something.

* **WorkspacePages** (also in `WorkerAndPagesProofs`, where its specification is
  `PagesSpec`): `ShowsSelection` and `ShowsFacts`, on each of the six pages, for any
  number of workspaces, items, runs, events, clicks and requests under way. The
  invariant `PagesInv` judges what was answered at any time against the tables as they
  are now, which is possible because these only grow (`TablesGrow`): a run keeps its
  item and its end, a decision that was made stands, and so does an approved profile
  except in the mock, where a draft replaces it. Every request under way is one that its
  page sends, for the parts it may want (`CallShape`), has answers that are true of what
  it asked for (`CallTrue`), and asks for what is selected if its answer will be
  shown as that (`CallAimed`). The conversation
  reaches the last by detaching its requests when it is mounted for another item, the
  boards by cancelling those of their list or of their detail. While a list or a detail
  is being loaded a board may still show the previous one (`ListOk`, `DetailOk`), as
  the properties say. The lists of the chat and of the agents board are not covered:
  their effects have no cancelled flag, and they do show a late answer of the workspace
  that was left. Assumed: an item and a profile have a workspace, and a run has at
  least three events, so that its artifact comes after its first and before its last.

**Only model-checked.** Liveness: all properties named after "live:" above, and
`EventsShown`. These proofs do not reach it.

## 6. Where the code and the documents disagree

Shown by a run: in `runview_active` a poll of the previous run that is answered after
the next submit is merged into the new run's view, and its status is set as the new
run's (`hero-command-panel.tsx:62-63`). Line 77 and the socket's path check the run,
for which `apps/web/test/realtime-client.test.ts:86` says that only events of the active
run are accepted.

Met while modelling, without a run of their own:

* With the resident dispatcher, a request that finds the row of a concurrent or crashed
  one before its ARN was patched starts the execution again (`create-run.ts:39`);
  `services/control-api/test/idempotency.test.ts:72` says duplicate work is not started.
* A closed Step Functions execution of the run's name is an error that `create-run.ts`
  does not catch (`StartStepFunctions` ends in `alreadyExists`), while
  `docs/wiki/reference/idempotency.md:71` says that it is handled gracefully; line 73
  has the state machine retry the task and the worker use fixed positions, and there is
  no retry in `orchestration-stack.ts:26-65` and no fixed position in `worker.ts`.
* With the asynchronous starter the request and its dispatch handler patch the ARN in
  either order, so the task's ARN may be replaced by that of the invocation
  (`create-run.ts:116`).
* Events of a run are committed out of the order of their numbers
  (`resident-runner.ts:914`); `docs/wiki/reference/protocol-package.md:47` calls `seq`
  monotonic per run. In the worker's log an engagement may even fill a gap below
  positions that were read.
* A status `failed` is not the last one of a run, since `wake()` emits it for one agent
  and goes on with the next (`resident-runner.ts:417`), while
  `docs/wiki/reference/events-catalog.md:34` lists it as terminal.
* Two dispatches of one user launch two containers (`runner-dispatcher.ts:160`);
  `docs/wiki/adrs.md:106` says there is one resident runner per user.
* An event that the socket brings raises the cursor past events it did not bring
  (`hero-command-panel.tsx:59`), and no later poll asks for them;
  `docs/roadmap/PROJECT_STATUS.md:26` says the command center does "backfill missed
  events". The same gap arises without a socket when the first answer replaces a newer
  view (`:114`) while a poll with a higher cursor is in flight.
* The chat's poll brings events and not the run's status (`runs-chat.tsx:434`): without
  the socket the page says "working" after the end, while the comment at line 433
  calls it a fallback for a missing WebSocket.
* A draft that repeats the id and version of an approved profile replaces the approved
  bundle before its row is refused (`agent-profiles.ts:39`), while
  `docs/agent-workstreams/specialist-creation/CURRENT_PLAN.md:47` has approved versions
  immutable.
* The address that a tunnel's creation answers with has the preview host, where
  `/connect` is routed to the tunnel API, which answers 404
  (`infra/cloudflare/preview-tunnels/src/index.ts:22`, `tunnel-api.ts:74`);
  `docs/agent-workstreams/preview-hosting/CURRENT_PLAN.md:41` has the runner connect to
  `preview-api`. In the model both hosts are tried (`ConnectHosts`).

* An engagement is recorded for any run that a process names
  (`bin/agents-cloud-user.mjs:17`, `resident-runner.ts:269-283`), while the prompt
  (`resident-runner.ts:941`) says that these commands record events "for the current
  run".

Further consequences, which the properties name as their limits: a heartbeat's address
is stored unchecked and addresses are given out again, so a user's wake may reach
another's container or be answered elsewhere (`user-runners.ts:214-216`); the work item
of an approval and the artifact of a data source may be anybody's (`approvals.ts:53`,
`data-source-refs.ts:73`); the chat's list and the agents board show the late answer of
the workspace that was left (`runs-chat.tsx:48-61`, `agents-board.tsx:66-79`); a
registration that overlaps a wake writes back the session and the heartbeat count from
before it (`resident-runner.ts:342-368`); of two overlapping uploads of credentials the
bytes may mix (`resident-runner-server.ts:160`); two runners' hands on
one row (a user's stop is overridden by a dispatch that holds an older copy,
`runner-dispatcher.ts:188`; the row of a stopped container keeps its address, `:124`);
`runner.status` reports ready when the first of two overlapping wakes ends
(`resident-runner.ts:488`); an engagement without a task id is answered and counted and
stored nowhere (`:1258`); a wake whose answer is lost is posted and runs again
(`runner-dispatcher-aws.ts:154`); of two overlapping decisions the later one stands
(`approvals.ts:126`); a GET may be forwarded twice (`preview-tunnel-agent.ts:118`); a
status update under way revives a deleted tunnel (`tunnel-api.ts:117`); a connection
whose post keeps failing costs every viewer the batch (`relay.ts:37`); subscriptions
whose connection's deletion was lost stay (`subscriptions.ts:52`); a second click on
submit draws a new key and starts a second run (`control-api.ts:974`); an inspection of
a directory that was used with the same run id may show the earlier scenario's state.

## 7. What is not modelled, and the plan

Every safety property and refinement that a passing run checks is stated by a theorem,
two of them under a hypothesis (§5: `WakeOutcome` with at most one registration of an
agent, `EndIsReal` of the command panel with one run), without which they are false.
The next step is to let more of the wake's outcome hold for overlapping registrations,
by an invariant that allows an agent to be listed twice.

Not modelled, and not planned: reads and pure functions that have no behaviour over
time (the protocol package, the validators and generators of agent profiles, routing
and claims); the desktop and mobile application, which does from Dart what the web does
and keeps conversations locally; declarative infrastructure, of which what it says of
retries, time limits, indexes and streams is in the models of the services; the
realtime hubs, which the documentation defers and nothing feeds; the placeholder
services, which have no code; parts of a modelled component that its section names as
left out. The liveness of AWS services, time in seconds, the wording of answers and the
look of pages are outside every module.
