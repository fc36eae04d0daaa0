---------------------------- MODULE RunnerDispatch ----------------------------
(***************************************************************************)
(* The resident dispatcher (services/control-api/src/runner-dispatcher.ts  *)
(* and runner-dispatcher-aws.ts): find or create the user's row in         *)
(* UserRunnersTable, launch an ECS task unless the row says that one is    *)
(* ready, wait until its address is known, and post the wake to it.  A     *)
(* dispatch is a process with one step per awaited call.  It shares the    *)
(* table with other dispatches and with the /user-runners routes           *)
(* (user-runners.ts), all of which read a row and later put a whole row    *)
(* back, unconditionally.                                                  *)
(*                                                                         *)
(* Data: a row keeps the fields the dispatcher decides on; the task ARN is *)
(* left out, for the dispatcher asks ECS only about the task it launched   *)
(* itself.  A dispatch launches at most one ECS task, named by it.  A task *)
(* has an address from when it runs; two that run have different ones, and *)
(* the address of one that stopped may be given to the next.  At addresses *)
(* of tasks only runners answer a wake; at others that a caller names,     *)
(* anyone may.  Of the statuses, "running" stands for the three healthy    *)
(* ones, "starting" for those that are neither healthy nor unhealthy,      *)
(* "stopped" for those that the lookup does not list.                      *)
(***************************************************************************)
EXTENDS Naturals, FiniteSets

CONSTANTS
    Dispatches,   \* calls of dispatchRunnerWake
    Addresses,    \* private addresses that ECS gives to tasks
    Runs,         \* runs to dispatch; a run may be dispatched again
    Requests,     \* calls of the /user-runners routes
    Users,
    UserOf,       \* the user of each run and of each request
    PageSize,     \* rows the lookup reads, over all users
    Reported,     \* statuses that the callers of the /user-runners routes give
    Wanted,       \* desired states that they give
    Given,        \* addresses that they give
    None          \* a field that is absent

ASSUME ConstantsAssumption ==
    /\ Runs \cap Requests = {}
    /\ UserOf \in [Runs \union Requests -> Users]
    /\ None \notin Addresses \union Users \union Runs \union Requests
    /\ Given \subseteq Addresses
    /\ PageSize \in Nat \ {0}
    /\ Reported \subseteq {"starting", "running", "failed", "offline", "stopped"}
    /\ Wanted \subseteq {"running", "stopped"}

VARIABLES
    disp,      \* the dispatches: program counter, run, runner id, row in hand
    api,       \* the /user-runners requests: program counter, runner id, row
    rows,      \* UserRunnersTable
    replica,   \* what a lagging replica of the table, or its index, still shows
    task,      \* the ECS task of each dispatch
    at,        \* the address of each task, since it ran
    named,     \* history: pairs of a user and an address his callers gave
    woken      \* history: pairs of a dispatch and a task its wake reached

vars == <<disp, api, rows, replica, task, at, named, woken>>

\* A runner id is made from the run, or from the request, that created its row.
RunnerIds == Runs \union Requests

Statuses == {"starting", "running", "failed", "offline", "stopped"}

Row == [status : Statuses \union {"none"}, desired : {"running", "stopped"},
        ip : Addresses \union {None}, endpoint : Addresses \union {None}]

NoRow == [status |-> "none", desired |-> "running", ip |-> None, endpoint |-> None]

FreshRow == [NoRow EXCEPT !.status = "starting"]

Failures == {"LAUNCH_FAILED", "UNHEALTHY_RUNNER", "ENDPOINT_TIMEOUT", "WAKE_FAILED"}

Working == {"find", "create", "mark", "launch", "refetch", "record", "launch failed",
            "describe", "put stopped", "put running", "get", "last get", "wake"}

Init ==
    /\ disp = [d \in Dispatches |-> [pc |-> "idle", run |-> None, id |-> None, row |-> NoRow]]
    /\ api = [q \in Requests |-> [pc |-> "idle", id |-> q, row |-> NoRow]]
    /\ rows = [i \in RunnerIds |-> NoRow]
    /\ replica = rows
    /\ task = [t \in Dispatches |-> "none"]
    /\ at = [t \in Dispatches |-> None]
    /\ named = {}
    /\ woken = {}

\* A read by key is eventually consistent: the current row or an earlier one.
Seen(i) == {rows[i], replica[i]}

Put(i, row) == rows' = [rows EXCEPT ![i] = row]

Reachable(row) == row.endpoint # None \/ row.ip # None

Ready(row) == Reachable(row) /\ row.status = "running"

Address(row) == IF row.endpoint # None THEN row.endpoint ELSE row.ip

To(d, pc) == disp' = [disp EXCEPT ![d].pc = pc]

ToWith(d, pc, row) == disp' = [disp EXCEPT ![d].pc = pc, ![d].row = row]

\* The call returns or throws, and its copy of the row is gone.
End(d, result) == ToWith(d, result, NoRow)

-----------------------------------------------------------------------------
(***************************************************************************)
(* Finding the row.                                                        *)
(***************************************************************************)
Begin(d, r) ==
    /\ disp[d].pc = "idle"
    /\ disp' = [disp EXCEPT ![d] = [pc |-> "find", run |-> r, id |-> r, row |-> NoRow]]
    /\ UNCHANGED <<api, rows, replica, task, at, named, woken>>

\* What the dispatcher does first with a row it found.
FirstStep(row) ==
    IF row.status \in {"failed", "offline", "stopped"} \/ row.desired = "stopped" THEN "mark"
    ELSE IF Ready(row) THEN "wake" ELSE "launch"

\* The rows that the by-status index lists, over all users.
Listed == {i \in RunnerIds : replica[i].status \in Statuses \ {"stopped"}}

\* The most recent rows, of which the order in time is left open.
Page(page) ==
    /\ page \subseteq Listed
    /\ Cardinality(page) = PageSize \/ (page = Listed /\ Cardinality(page) < PageSize)

\* Bug: the first row of the page is taken, whoever its user is.
FindForUserOfAnyUser(d) ==
    /\ disp[d].pc = "find"
    /\ \E page \in SUBSET Listed :
        /\ Page(page)
        /\ IF page = {}
           THEN ToWith(d, "create", FreshRow)
           ELSE \E i \in page :
                    disp' = [disp EXCEPT ![d].pc = FirstStep(replica[i]), ![d].id = i,
                                         ![d].row = replica[i]]
    /\ UNCHANGED <<api, rows, replica, task, at, named, woken>>

FindForUser(d) ==
    /\ disp[d].pc = "find"
    /\ \E page \in SUBSET Listed :
        /\ Page(page)
        /\ LET own == {i \in page : UserOf[i] = UserOf[disp[d].run]}
           IN  IF own = {}
               THEN ToWith(d, "create", FreshRow)
               ELSE \E i \in own :
                        disp' = [disp EXCEPT ![d].pc = FirstStep(replica[i]), ![d].id = i,
                                             ![d].row = replica[i]]
    /\ UNCHANGED <<api, rows, replica, task, at, named, woken>>

CreateRow(d) ==
    /\ disp[d].pc = "create"
    /\ Put(disp[d].id, disp[d].row)
    /\ To(d, "launch")
    /\ UNCHANGED <<api, replica, task, at, named, woken>>

MarkStarting(d) ==
    /\ disp[d].pc = "mark"
    /\ LET row == [disp[d].row EXCEPT !.status = "starting", !.desired = "running",
                                      !.ip = None, !.endpoint = None]
       IN  Put(disp[d].id, row) /\ ToWith(d, "launch", row)
    /\ UNCHANGED <<api, replica, task, at, named, woken>>

-----------------------------------------------------------------------------
(***************************************************************************)
(* Launching the task and recording it.  Any failure in this part marks    *)
(* the row failed, from the copy in hand.                                  *)
(***************************************************************************)
Launch(d) ==
    /\ disp[d].pc = "launch"
    /\ \/ task' = [task EXCEPT ![d] = "pending"] /\ To(d, "refetch")
       \* RunTask is refused, or its answer is lost.
       \/ task' \in {task, [task EXCEPT ![d] = "pending"]} /\ To(d, "launch failed")
    /\ UNCHANGED <<api, rows, replica, at, named, woken>>

Refetch(d) ==
    /\ disp[d].pc = "refetch"
    /\ \/ \E latest \in Seen(disp[d].id) :
            LET base == IF latest = NoRow THEN disp[d].row ELSE latest
            IN  ToWith(d, "record", base)
       \/ To(d, "launch failed")
    /\ UNCHANGED <<api, rows, replica, task, at, named, woken>>

RecordLaunch(d) ==
    /\ disp[d].pc = "record"
    /\ \/ Put(disp[d].id, disp[d].row) /\ To(d, "describe")
       \/ UNCHANGED rows /\ To(d, "launch failed")
    /\ UNCHANGED <<api, replica, task, at, named, woken>>

LaunchFailed(d) ==
    /\ disp[d].pc = "launch failed"
    /\ Put(disp[d].id, [disp[d].row EXCEPT !.status = "failed"])
    /\ End(d, "LAUNCH_FAILED")
    /\ UNCHANGED <<api, replica, task, at, named, woken>>

-----------------------------------------------------------------------------
(***************************************************************************)
(* Waiting for the address: one round asks ECS for the dispatch's own      *)
(* task, puts what it learned, and reads the row.  Failures of the first   *)
(* two calls are swallowed.                                                *)
(***************************************************************************)

Describe(d) ==
    /\ disp[d].pc = "describe"
    /\ \/ task[d] \in {"stopped", "never ran"} /\ To(d, "put stopped")
       \/ task[d] = "running" /\ disp[d].row.ip # at[d] /\ To(d, "put running")
       \* Still pending, nothing new, or the call fails.
       \/ To(d, "get")
    /\ UNCHANGED <<api, rows, replica, task, at, named, woken>>

PutStopped(d) ==
    /\ disp[d].pc = "put stopped"
    /\ \/ /\ Put(disp[d].id, [disp[d].row EXCEPT !.status = "failed"])
          /\ End(d, "UNHEALTHY_RUNNER")
       \/ UNCHANGED rows /\ To(d, "get")
    /\ UNCHANGED <<api, replica, task, at, named, woken>>

PutRunning(d) ==
    /\ disp[d].pc = "put running"
    /\ \/ LET row == [disp[d].row EXCEPT !.status = "running", !.ip = at[d],
                                          !.endpoint = at[d]]
          IN  Put(disp[d].id, row) /\ ToWith(d, "get", row)
       \/ UNCHANGED rows /\ To(d, "get")
    /\ UNCHANGED <<api, replica, task, at, named, woken>>

\* Bug: the loop has no deadline.
GetUntilReady(d) ==
    /\ disp[d].pc = "get"
    /\ \E next \in Seen(disp[d].id) :
        \/ Ready(next) /\ ToWith(d, "wake", next)
        \/ next.status = "failed" /\ End(d, "UNHEALTHY_RUNNER")
        \/ ~Ready(next) /\ next.status # "failed" /\ To(d, "describe")
    /\ UNCHANGED <<api, rows, replica, task, at, named, woken>>

Get(d) ==
    /\ disp[d].pc = "get"
    /\ \E next \in Seen(disp[d].id) :
        \/ Ready(next) /\ ToWith(d, "wake", next)
        \/ next.status = "failed" /\ End(d, "UNHEALTHY_RUNNER")
        \/ ~Ready(next) /\ next.status # "failed" /\ (To(d, "describe") \/ To(d, "last get"))
    /\ UNCHANGED <<api, rows, replica, task, at, named, woken>>

\* The deadline has passed: whatever the row says is taken, ready or not.
LastGet(d) ==
    /\ disp[d].pc = "last get"
    /\ \E next \in Seen(disp[d].id) :
        LET row == IF next = NoRow THEN disp[d].row ELSE next
        IN  IF Reachable(row) THEN ToWith(d, "wake", row) ELSE End(d, "ENDPOINT_TIMEOUT")
    /\ UNCHANGED <<api, rows, replica, task, at, named, woken>>

-----------------------------------------------------------------------------
(***************************************************************************)
(* Posting the wake: tried every second until it is answered or 30 seconds *)
(* have passed, so a wake whose answer is lost is delivered again.         *)
(***************************************************************************)
PostWake(d) ==
    /\ disp[d].pc = "wake"
    /\ LET a == Address(disp[d].row)
           up == {t \in Dispatches : task[t] = "running" /\ at[t] = a}
       IN  \/ /\ \E t \in up : woken' = woken \union {<<d, t>>}
              /\ End(d, "done") \/ UNCHANGED disp
           \* No runner is there, and something else accepts the post.
           \/ /\ up = {} /\ <<UserOf[disp[d].run], a>> \in named
              /\ End(d, "done")
              /\ UNCHANGED woken
    /\ UNCHANGED <<api, rows, replica, task, at, named>>

GiveUp(d) ==
    /\ disp[d].pc = "wake"
    /\ End(d, "WAKE_FAILED")
    /\ UNCHANGED <<api, rows, replica, task, at, named, woken>>

\* The invocation ends: its time is up, or a call outside the handled parts
\* throws.
Abort(d) ==
    /\ disp[d].pc \in Working
    /\ End(d, "aborted")
    /\ UNCHANGED <<api, rows, replica, task, at, named, woken>>

-----------------------------------------------------------------------------
(***************************************************************************)
(* The /user-runners routes: a read, then a put of the whole row.          *)
(***************************************************************************)
\* The caller gives these addresses.
Names(q, i, row, addresses) ==
    /\ api[q].pc = "idle"
    /\ api' = [api EXCEPT ![q] = [pc |-> "put", id |-> i, row |-> row]]
    /\ named' = named \union {<<UserOf[q], a>> : a \in addresses}
    /\ UNCHANGED <<disp, rows, replica, task, at, woken>>

Submit(q, i, row) == Names(q, i, row, {})

\* A row's key has the caller's user in it.
OwnIds(q) == {i \in RunnerIds : UserOf[i] = UserOf[q]}

\* The row is written anew, with the status and desired state it had unless the
\* caller gives others; address and ARN are dropped.
CreateUserRunner(q) ==
    \E i \in OwnIds(q) : \E row \in Seen(i) :
        \E status \in Reported \union {IF row = NoRow THEN "starting" ELSE row.status},
           desired \in Wanted \union {row.desired} :
            Submit(q, i, [NoRow EXCEPT !.status = status, !.desired = desired])

UpdateDesiredState(q) ==
    \E i \in OwnIds(q) : \E row \in Seen(i) \ {NoRow}, desired \in Wanted :
        Submit(q, i, [row EXCEPT !.desired = desired])

\* Bug: the row is looked up by the runner's id alone, whoever its user is.
HeartbeatOfAnyUser(q) ==
    \E i \in RunnerIds : \E row \in Seen(i) \ {NoRow}, ip \in Given :
        Names(q, i, [row EXCEPT !.ip = ip, !.endpoint = ip], {ip})

\* Addresses are stored as they are given.  What is not given stays; without an
\* endpoint the address makes one.
Heartbeat(q) ==
    \E i \in OwnIds(q) : \E row \in Seen(i) \ {NoRow} :
        \E status \in Reported \union {row.status}, ip \in Given \union {row.ip} :
          \E endpoint \in Given \union {IF row.endpoint # None THEN row.endpoint ELSE ip} :
            Names(q, i, [row EXCEPT !.status = status, !.ip = ip, !.endpoint = endpoint],
                  {ip, endpoint} \ {row.ip, row.endpoint})

PutUserRunner(q) ==
    /\ api[q].pc = "put"
    /\ Put(api[q].id, api[q].row)
    /\ api' = [api EXCEPT ![q] = [pc |-> "done", id |-> q, row |-> NoRow]]
    /\ UNCHANGED <<disp, replica, task, at, named, woken>>

-----------------------------------------------------------------------------
(***************************************************************************)
(* ECS and DynamoDB.                                                       *)
(***************************************************************************)
TaskRuns(t) ==
    /\ task[t] = "pending"
    /\ task' = [task EXCEPT ![t] = "running"]
    /\ \E a \in Addresses \ {at[s] : s \in {e \in Dispatches : task[e] = "running"}} :
          at' = [at EXCEPT ![t] = a]
    /\ UNCHANGED <<disp, api, rows, replica, named, woken>>

TaskStops(t) ==
    /\ task[t] \in {"pending", "running"}
    /\ task' = [task EXCEPT ![t] = IF @ = "running" THEN "stopped" ELSE "never ran"]
    /\ UNCHANGED <<disp, api, rows, replica, at, named, woken>>

CatchUp(i) ==
    /\ replica[i] # rows[i]
    /\ replica' = [replica EXCEPT ![i] = rows[i]]
    /\ UNCHANGED <<disp, api, rows, task, at, named, woken>>

Step(d) ==
    \/ FindForUser(d) \/ CreateRow(d) \/ MarkStarting(d)
    \/ Launch(d) \/ Refetch(d) \/ RecordLaunch(d) \/ LaunchFailed(d)
    \/ Describe(d) \/ PutStopped(d) \/ PutRunning(d) \/ Get(d) \/ LastGet(d)
    \/ PostWake(d) \/ GiveUp(d)

Route(q) ==
    CreateUserRunner(q) \/ UpdateDesiredState(q) \/ Heartbeat(q) \/ PutUserRunner(q)

Next ==
    \/ \E d \in Dispatches :
        (\E r \in Runs : Begin(d, r)) \/ Step(d) \/ Abort(d) \/ TaskRuns(d) \/ TaskStops(d)
    \/ \E q \in Requests : Route(q)
    \/ \E i \in RunnerIds : CatchUp(i)

Spec == Init /\ [][Next]_vars

(***************************************************************************)
(* Fairness: an invocation that is not cut off goes on, and the deadlines  *)
(* of its two loops pass (runner-dispatcher.ts:245,                        *)
(* runner-dispatcher-aws.ts:132).                                          *)
(***************************************************************************)
Deadline(d) == Get(d) /\ disp'[d].pc = "last get"

FairSpec ==
    /\ Spec
    /\ \A d \in Dispatches : /\ WF_vars(Step(d))
                             /\ SF_vars(Deadline(d))
                             /\ SF_vars(GiveUp(d))

-----------------------------------------------------------------------------
(***************************************************************************)
(* Properties.                                                             *)
(***************************************************************************)
DispatchType == [pc : {"idle", "done", "aborted"} \union Working \union Failures,
                 run : Runs \union {None}, id : RunnerIds \union {None}, row : Row]

RequestType == [pc : {"idle", "put", "done"}, id : RunnerIds, row : Row]

TypeOK ==
    /\ disp \in [Dispatches -> DispatchType]
    /\ api \in [Requests -> RequestType]
    /\ rows \in [RunnerIds -> Row]
    /\ replica \in [RunnerIds -> Row]
    /\ task \in [Dispatches -> {"none", "pending", "running", "stopped", "never ran"}]
    /\ at \in [Dispatches -> Addresses \union {None}]
    /\ named \subseteq Users \X Addresses
    /\ woken \subseteq Dispatches \X Dispatches

\* A task launched for the runner has had the address, or a caller of the
\* runner's user has given it.
KnownFor(a, i) ==
    \/ \E t \in Dispatches : disp[t].id = i /\ at[t] = a
    \/ <<UserOf[i], a>> \in named

RowOf(i, row) ==
    /\ row.ip # None => KnownFor(row.ip, i)
    /\ row.endpoint # None => KnownFor(row.endpoint, i)

\* Every copy of a row - in the table, in its replica, in the hands of a dispatch
\* or of a request that will put it back - names as address one that a task
\* launched for this very runner has been running at ("waits for ECS RUNNING
\* before treating a task privateIp as reachable",
\* services/control-api/test/runner-dispatcher.test.ts:226), or one that the
\* runner's own user gave in a heartbeat, which is not checked.  Copies are put
\* back late and unconditionally (runner-dispatcher.ts:224-272,
\* user-runners.ts:166).
AddressesAreOwn ==
    /\ \A i \in RunnerIds : RowOf(i, rows[i]) /\ RowOf(i, replica[i])
    /\ \A d \in Dispatches : RowOf(disp[d].id, disp[d].row)
    /\ \A q \in Requests : RowOf(api[q].id, api[q].row)

\* A dispatch has a runner of its run's user in hand from the lookup on, and an
\* address before it posts.
HandsOf(d) ==
    /\ disp[d].pc = "idle" <=> disp[d].run = None
    /\ disp[d].pc = "idle" => disp[d].id = None
    /\ disp[d].pc # "idle" => disp[d].id # None /\ UserOf[disp[d].id] = UserOf[disp[d].run]
    /\ disp[d].pc = "wake" => Reachable(disp[d].row)
    /\ disp[d].pc \in {"idle", "find", "create", "mark", "launch"} => task[d] = "none"
    /\ disp[d].pc \in {"refetch", "record"} => task[d] # "none"
    /\ disp[d].pc = "put running" => task[d] \in {"running", "stopped"}

\* A task has an address once it has run, and shares it with none that runs.
PlacesOf(t) ==
    /\ at[t] # None <=> task[t] \in {"running", "stopped"}
    /\ task[t] = "running" => \A s \in Dispatches \ {t} : task[s] = "running" => at[s] # at[t]

IInv ==
    /\ TypeOK
    /\ AddressesAreOwn
    /\ \A d \in Dispatches : HandsOf(d) /\ PlacesOf(d)
    /\ \A q \in Requests : UserOf[api[q].id] = UserOf[q]

\* Every dispatch that begins ends: neither a container that does not come up nor
\* one that does not answer holds it for ever, whatever others make of its row
\* (runner-dispatcher.ts:244-291).
DispatchEnds ==
    \A d \in Dispatches :
        disp[d].pc = "find" ~> disp[d].pc \in {"done", "aborted"} \union Failures

(***************************************************************************)
(* The refinement: a dispatch is open until it has ended.                  *)
(***************************************************************************)
AskerOf(d) == IF disp[d].run = None THEN None ELSE UserOf[disp[d].run]

OutcomeOf(d) ==
    CASE disp[d].pc = "done" -> "dispatched"
      [] disp[d].pc \in Failures \union {"aborted"} -> "failed"
      [] OTHER -> "open"

OwnerOf(t) == IF task[t] = "none" THEN None ELSE UserOf[disp[t].id]

Delivery == INSTANCE WakeDelivery WITH
    Nobody <- None,
    asker <- [d \in Dispatches |-> AskerOf(d)],
    outcome <- [d \in Dispatches |-> OutcomeOf(d)],
    owner <- [t \in Dispatches |-> OwnerOf(t)],
    up <- {t \in Dispatches : task[t] = "running"},
    Nowhere <- None

\* The dispatcher keeps the promise POST /runs relies on: a dispatch that is
\* answered has delivered its wake, and the wake has reached the user's own
\* container, unless the address is one that his own callers gave, or one that a
\* container of his had before it stopped (runner-dispatcher.ts:108-156).
DeliversWakes == Delivery!Spec

=============================================================================
