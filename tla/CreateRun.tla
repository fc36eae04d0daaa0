------------------------------ MODULE CreateRun ------------------------------
(***************************************************************************)
(* POST /runs: the idempotent creation of a run and the start of its       *)
(* execution (services/control-api/src/create-run.ts).  Every request is a *)
(* process with one step per awaited call, so that requests that share an  *)
(* idempotency key interleave, crash between two calls, and read a global  *)
(* secondary index that lags behind the table.                             *)
(*                                                                         *)
(* The execution starter is one of the three that handlers.ts selects:     *)
(*   "sfn"       Step Functions, execution name = run id;                  *)
(*   "resident"  the resident dispatcher called in line;                   *)
(*   "lambda"    an asynchronous Lambda invocation whose handler runs the  *)
(*               resident dispatcher later and patches the row again.      *)
(***************************************************************************)
EXTENDS Naturals, FiniteSets

CONSTANTS
    Requests,     \* requests received, each by one invocation of the handler
    Scopes,       \* values of userId#workspaceId#idempotencyKey
    NoKey,        \* a request without an idempotency key
    Objectives,   \* objectives a client may send
    Blank,        \* an objective that is empty once trimmed
    Starters,     \* the starters handlers.ts may select
    MaxAttempts   \* bound: deliveries of one asynchronous invocation

ASSUME ConstantsAssumption ==
    /\ Requests \cap Scopes = {}
    /\ NoKey \notin Scopes
    /\ Blank \notin Objectives
    /\ Starters \subseteq {"sfn", "resident", "lambda"}
    /\ MaxAttempts \in Nat \ {0}

VARIABLES
    starter,   \* the starter handlers.ts selected when its module was loaded
    req,       \* the requests: program counter, scope, objective, row read
    runs,      \* RunsTable
    tasks,     \* run ids with a row in TasksTable
    queued,    \* run ids whose seq-1 "queued" event is in EventsTable
    index,     \* the by-idempotency-scope index of RunsTable
    sfn,       \* Step Functions executions by name
    dispatch,  \* the asynchronous invocation sent by each request
    starts,    \* history: every execution or wake that was started
    writers    \* history: requests whose ledger transaction committed

vars == <<starter, req, runs, tasks, queued, index, sfn, dispatch, starts, writers>>

(***************************************************************************)
(* Run ids.  A keyed request derives the id from the hash of its scope, so *)
(* equal scopes give equal ids; any other request draws a fresh one.       *)
(***************************************************************************)
RunIds == Requests \union Scopes

RunOf(c) == IF req[c].scope = NoKey THEN c ELSE req[c].scope

Arns == {"none", "sfn", "task", "async"}

RunRow == [objective : Objectives, arn : Arns]

NoRun == [objective |-> Blank, arn |-> "none"]

StarterArn ==
    CASE starter = "sfn" -> "sfn"
      [] starter = "resident" -> "task"
      [] OTHER -> "async"

Working == {"probe", "ledger", "start", "restart", "patch"}

Start == [run : RunIds, objective : Objectives, by : Requests, attempt : Nat]

Init ==
    /\ starter \in Starters
    /\ req = [c \in Requests |-> [pc |-> "idle", scope |-> NoKey,
                                  objective |-> Blank, seen |-> NoRun]]
    /\ runs = [r \in RunIds |-> NoRun]
    /\ index = [r \in RunIds |-> NoRun]
    /\ tasks = {}
    /\ queued = {}
    /\ sfn = [r \in RunIds |-> "none"]
    /\ dispatch = [c \in Requests |-> [state |-> "none", attempt |-> 0]]
    /\ starts = {}
    /\ writers = {}

-----------------------------------------------------------------------------
(***************************************************************************)
(* The handler, one step per awaited call.                                 *)
(***************************************************************************)

Receive(c, scope, objective) ==
    /\ req[c].pc = "idle"
    /\ req' = [req EXCEPT ![c] =
                 [pc |-> CASE objective = Blank -> "badRequest"
                           [] objective # Blank /\ scope = NoKey -> "ledger"
                           [] OTHER -> "probe",
                  scope |-> scope, objective |-> objective, seen |-> NoRun]]
    /\ UNCHANGED <<runs, tasks, queued, index, sfn, dispatch, starts, writers>>

Probe(c) ==
    /\ req[c].pc = "probe"
    /\ LET existing == index[RunOf(c)]
       IN  req' = [req EXCEPT
                     ![c].pc = CASE existing = NoRun -> "ledger"
                                 [] existing.arn # "none" -> "accepted"
                                 [] OTHER -> "restart",
                     ![c].seen = existing]
    /\ UNCHANGED <<runs, tasks, queued, index, sfn, dispatch, starts, writers>>

\* Bug: the puts are unconditional.
LedgerIsFreeAssumed(r) == TRUE

\* The transaction: three conditional puts that commit or fail as one.
LedgerIsFree(r) == runs[r] = NoRun /\ r \notin tasks /\ r \notin queued

CreateRunLedger(c) ==
    /\ req[c].pc = "ledger"
    /\ LET r == RunOf(c)
       IN  \/ /\ LedgerIsFree(r)
              /\ runs' = [runs EXCEPT ![r] = [objective |-> req[c].objective,
                                              arn |-> "none"]]
              /\ tasks' = tasks \union {r}
              /\ queued' = queued \union {r}
              /\ writers' = writers \union {c}
              /\ req' = [req EXCEPT ![c].pc = "start"]
           \/ /\ ~LedgerIsFree(r)
              /\ req' = [req EXCEPT ![c].pc = "error"]
              /\ UNCHANGED <<runs, tasks, queued, writers>>
    /\ UNCHANGED <<index, sfn, dispatch, starts>>

\* What the started execution is asked to do: the row that was read on the
\* retry path, the request itself otherwise.
PayloadObjective(c) ==
    IF req[c].pc = "restart" THEN req[c].seen.objective ELSE req[c].objective

StartOf(c, attempt) ==
    [run |-> RunOf(c), objective |-> PayloadObjective(c), by |-> c,
     attempt |-> attempt]

Starting(c) == req[c].pc \in {"start", "restart"}

\* Bug: executions are started without a name.
StartUnnamedExecution(c) ==
    /\ starter = "sfn"
    /\ Starting(c)
    /\ sfn' = [sfn EXCEPT ![RunOf(c)] = "running"]
    /\ starts' = starts \union {StartOf(c, 1)}
    /\ req' = [req EXCEPT ![c].pc = "patch"]
    /\ UNCHANGED <<runs, tasks, queued, index, dispatch, writers>>

\* StartExecution with name = runId: a running execution of that name with
\* the same input answers with its ARN, a closed one is an error that
\* create-run.ts does not catch.
StartStepFunctions(c) ==
    /\ starter = "sfn"
    /\ Starting(c)
    /\ LET r == RunOf(c)
       IN  \/ /\ sfn[r] = "none"
              /\ sfn' = [sfn EXCEPT ![r] = "running"]
              /\ starts' = starts \union {StartOf(c, 1)}
              /\ req' = [req EXCEPT ![c].pc = "patch"]
           \/ /\ sfn[r] = "running"
              /\ req' = [req EXCEPT ![c].pc = "patch"]
              /\ UNCHANGED <<sfn, starts>>
           \/ /\ sfn[r] = "closed"
              /\ req' = [req EXCEPT ![c].pc = "alreadyExists"]
              /\ UNCHANGED <<sfn, starts>>
    /\ UNCHANGED <<runs, tasks, queued, index, dispatch, writers>>

StartResident(c) ==
    /\ starter = "resident"
    /\ Starting(c)
    /\ starts' = starts \union {StartOf(c, 1)}
    /\ req' = [req EXCEPT ![c].pc = "patch"]
    /\ UNCHANGED <<runs, tasks, queued, index, sfn, dispatch, writers>>

\* The payload of the asynchronous invocation is kept in "seen".
StartAsyncLambda(c) ==
    /\ starter = "lambda"
    /\ Starting(c)
    /\ dispatch' = [dispatch EXCEPT ![c] = [state |-> "queued", attempt |-> 1]]
    /\ req' = [req EXCEPT ![c].pc = "patch",
                          ![c].seen = [objective |-> PayloadObjective(c),
                                       arn |-> "none"]]
    /\ UNCHANGED <<runs, tasks, queued, index, sfn, starts, writers>>

\* Bug: the patch puts the whole row back.
UpdateRunExecutionByPut(c) ==
    /\ req[c].pc = "patch"
    /\ runs' = [runs EXCEPT ![RunOf(c)] = [objective |-> req[c].objective,
                                           arn |-> StarterArn]]
    /\ req' = [req EXCEPT ![c].pc = "accepted"]
    /\ UNCHANGED <<tasks, queued, index, sfn, dispatch, starts, writers>>

\* Bug: the answer does not wait for the patch.
UpdateRunExecutionNotAwaited(c) ==
    /\ req[c].pc = "patch"
    /\ req' = [req EXCEPT ![c].pc = "accepted"]
    /\ UNCHANGED <<runs, tasks, queued, index, sfn, dispatch, starts, writers>>

\* Bug: the row to patch is looked up in the index.
UpdateRunExecutionByIndex(c) ==
    /\ req[c].pc = "patch"
    /\ index[RunOf(c)] # NoRun
    /\ runs' = [runs EXCEPT ![RunOf(c)].arn = StarterArn]
    /\ req' = [req EXCEPT ![c].pc = "accepted"]
    /\ UNCHANGED <<tasks, queued, index, sfn, dispatch, starts, writers>>

UpdateRunExecution(c) ==
    /\ req[c].pc = "patch"
    /\ runs[RunOf(c)] # NoRun
    /\ runs' = [runs EXCEPT ![RunOf(c)].arn = StarterArn]
    /\ req' = [req EXCEPT ![c].pc = "accepted"]
    /\ UNCHANGED <<tasks, queued, index, sfn, dispatch, starts, writers>>

\* A call that throws, or the end of the Lambda sandbox, between two calls.
Crash(c) ==
    /\ req[c].pc \in Working
    /\ req' = [req EXCEPT ![c].pc = "error"]
    /\ UNCHANGED <<runs, tasks, queued, index, sfn, dispatch, starts, writers>>

-----------------------------------------------------------------------------
(***************************************************************************)
(* dispatchRunHandler: the asynchronous side of the "lambda" starter.      *)
(* Asynchronous invocations are delivered at least once and retried.       *)
(***************************************************************************)
DispatchWake(c) ==
    /\ dispatch[c].state = "queued"
    /\ dispatch' = [dispatch EXCEPT ![c].state = "woken"]
    /\ starts' = starts \union
                   {[run |-> RunOf(c), objective |-> req[c].seen.objective,
                     by |-> c, attempt |-> dispatch[c].attempt]}
    /\ UNCHANGED <<req, runs, tasks, queued, index, sfn, writers>>

\* Bug: the task ARN is recorded only over the one createRun wrote.
DispatchRecordOverAsync(c) ==
    /\ dispatch[c].state = "woken"
    /\ runs[RunOf(c)].arn = "async"
    /\ dispatch' = [dispatch EXCEPT ![c].state = "recorded"]
    /\ runs' = [runs EXCEPT ![RunOf(c)].arn = "task"]
    /\ UNCHANGED <<req, tasks, queued, index, sfn, starts, writers>>

DispatchRecord(c) ==
    /\ dispatch[c].state = "woken"
    /\ runs[RunOf(c)] # NoRun
    /\ dispatch' = [dispatch EXCEPT ![c].state = "recorded"]
    /\ runs' = [runs EXCEPT ![RunOf(c)].arn = "task"]
    /\ UNCHANGED <<req, tasks, queued, index, sfn, starts, writers>>

\* A failed attempt, or a second delivery of one that had succeeded.
DispatchRedeliver(c) ==
    /\ dispatch[c].state \in {"queued", "woken", "recorded"}
    /\ dispatch[c].attempt < MaxAttempts
    /\ dispatch' = [dispatch EXCEPT ![c] =
                      [state |-> "queued", attempt |-> @.attempt + 1]]
    /\ UNCHANGED <<req, runs, tasks, queued, index, sfn, starts, writers>>

DispatchDrop(c) ==
    /\ dispatch[c].state \in {"queued", "woken"}
    /\ dispatch[c].attempt = MaxAttempts
    /\ dispatch' = [dispatch EXCEPT ![c].state = "dropped"]
    /\ UNCHANGED <<req, runs, tasks, queued, index, sfn, starts, writers>>

-----------------------------------------------------------------------------
(***************************************************************************)
(* The services around the handler.                                        *)
(***************************************************************************)
IndexCatchUp(r) ==
    /\ r \in Scopes
    /\ index[r] # runs[r]
    /\ index' = [index EXCEPT ![r] = runs[r]]
    /\ UNCHANGED <<req, runs, tasks, queued, sfn, dispatch, starts, writers>>

ExecutionCloses(r) ==
    /\ sfn[r] = "running"
    /\ sfn' = [sfn EXCEPT ![r] = "closed"]
    /\ UNCHANGED <<req, runs, tasks, queued, index, dispatch, starts, writers>>

\* Nothing is left to do: every request was answered, nothing is in flight.
Quiescent ==
    /\ \A c \in Requests :
         /\ req[c].pc \notin Working \union {"idle"}
         /\ dispatch[c].state \in {"none", "recorded", "dropped"}
    /\ UNCHANGED vars

Handler(c) ==
    \/ Probe(c)
    \/ CreateRunLedger(c)
    \/ StartStepFunctions(c)
    \/ StartResident(c)
    \/ StartAsyncLambda(c)
    \/ UpdateRunExecution(c)

Dispatch(c) == DispatchWake(c) \/ DispatchRecord(c)

Next ==
    /\ UNCHANGED starter
    /\ \/ \E c \in Requests :
             \/ \E s \in Scopes \union {NoKey}, o \in Objectives \union {Blank} :
                  Receive(c, s, o)
             \/ Handler(c)
             \/ Crash(c)
             \/ Dispatch(c)
             \/ DispatchRedeliver(c)
             \/ DispatchDrop(c)
       \/ \E r \in RunIds : IndexCatchUp(r) \/ ExecutionCloses(r)
       \/ Quiescent

Spec == Init /\ [][Next]_vars

-----------------------------------------------------------------------------
RequestType ==
    [pc : Working \union {"idle", "badRequest", "accepted", "error",
                          "alreadyExists"},
     scope : Scopes \union {NoKey},
     objective : Objectives \union {Blank},
     seen : RunRow \union {NoRun}]

TypeOK ==
    /\ starter \in Starters
    /\ req \in [Requests -> RequestType]
    /\ runs \in [RunIds -> RunRow \union {NoRun}]
    /\ index \in [RunIds -> RunRow \union {NoRun}]
    /\ tasks \subseteq RunIds
    /\ queued \subseteq RunIds
    /\ sfn \in [RunIds -> {"none", "running", "closed"}]
    /\ dispatch \in [Requests ->
                       [state : {"none", "queued", "woken", "recorded",
                                 "dropped"},
                        attempt : Nat]]
    /\ starts \subseteq Start
    /\ writers \subseteq Requests

(***************************************************************************)
(* Safety.                                                                 *)
(***************************************************************************)

\* Two requests with the same key that both miss in the lagging index still
\* commit one ledger between them: the run id is a function of the scope and
\* the transaction is conditional (create-run.ts:59, dynamo-store.ts:446).
OneLedgerPerScope ==
    \A c, d \in writers : RunOf(c) = RunOf(d) => c = d

\* A run row, its task row and its first event exist together or not at all,
\* whatever else races for the same id (dynamo-store.ts:446-472).
LedgerAtomic ==
    \A r \in RunIds : /\ runs[r] # NoRun <=> r \in tasks
                      /\ r \in tasks <=> r \in queued

\* Whatever is started for a run does the objective its ledger row holds, also
\* when a later request reuses the key with another objective, and nothing
\* starts before the row exists (create-run.ts:40-47, 106-115).
StartsDoLedgerObjective ==
    \A s \in starts : runs[s.run].objective = s.objective

\* The ARN in a row is never invented: the execution it names was started
\* first (create-run.ts:108-117, handlers.ts:72-79).
ArnHasSource ==
    \A r \in RunIds :
        /\ runs[r].arn \in {"sfn", "task"} => \E s \in starts : s.run = r
        /\ runs[r].arn = "async" =>
             \E c \in Requests : RunOf(c) = r /\ dispatch[c].state # "none"

\* A 202 is a promise: the run it names is in the ledger and has an execution,
\* even when the answer came from the lagging index (create-run.ts:34-38).
AcceptedHasExecution ==
    \A c \in Requests :
        req[c].pc = "accepted" => /\ runs[RunOf(c)] # NoRun
                                  /\ runs[RunOf(c)].arn # "none"

\* With Step Functions the execution name makes a retried start harmless: a run
\* has one execution, whoever crashes where (step-functions.ts:32-38).
OneExecutionPerRun ==
    starter = "sfn" =>
        \A s, t \in starts : s.run = t.run => s = t

\* Whatever requests race, crash and are retried: one ledger per scope, all of it
\* or nothing, and no execution in it that was not started (createRunLedger).
LedgerSound == TypeOK /\ OneLedgerPerScope /\ LedgerAtomic /\ ArnHasSource

\* What runs is what the ledger says, whichever starter, retry or redelivery
\* started it, and with Step Functions it runs once (createRun, dispatchRunHandler).
ExecutionsSound == StartsDoLedgerObjective /\ OneExecutionPerRun

\* No step rewrites a committed row or takes its execution away: a second
\* request never replaces the objective or resets the ARN.
RowsKept ==
    [][\A r \in RunIds :
         runs[r] # NoRun =>
            /\ runs'[r].objective = runs[r].objective
            /\ runs[r].arn # "none" => runs'[r].arn # "none"]_vars

(***************************************************************************)
(* The inductive strengthening of the safety properties.                   *)
(***************************************************************************)

\* The index may be late but never wrong: what it shows of a row is the row's
\* objective, and an ARN it shows is one the row has.
IndexTrails ==
    \A r \in RunIds :
        index[r] # NoRun =>
            /\ runs[r] # NoRun
            /\ index[r].objective = runs[r].objective
            /\ index[r].arn # "none" => runs[r].arn # "none"

BeforeStart == {"idle", "badRequest", "probe", "ledger"}

\* What each step of the handler may rely on when it resumes.
RequestFacts(c) ==
    LET row == runs[RunOf(c)]
    IN  /\ req[c].pc \in {"probe", "ledger", "start"} =>
             req[c].objective \in Objectives
        /\ req[c].pc \in BeforeStart \union {"start", "restart"} =>
             dispatch[c].state = "none"
        /\ req[c].pc = "start" => row.objective = req[c].objective
        /\ req[c].pc = "restart" => /\ row # NoRun
                                   /\ req[c].seen.objective = row.objective
        /\ req[c].pc = "patch" => row # NoRun
        /\ dispatch[c].state # "none" =>
             row # NoRun /\ req[c].seen.objective = row.objective

RequestState == \A c \in Requests : RequestFacts(c)

\* A ledger that was written is there, and its writer is past writing.
WritersState ==
    \A c \in writers : /\ req[c].pc \notin BeforeStart
                       /\ runs[RunOf(c)] # NoRun

\* With Step Functions as the starter, nothing else starts anything.
ExecutionsState ==
    starter = "sfn" => /\ \A s \in starts : sfn[s.run] # "none"
                       /\ \A c \in Requests : dispatch[c].state = "none"

IInv ==
    /\ TypeOK
    /\ LedgerAtomic
    /\ OneLedgerPerScope
    /\ WritersState
    /\ IndexTrails
    /\ RequestState
    /\ StartsDoLedgerObjective
    /\ AcceptedHasExecution
    /\ ExecutionsState
    /\ OneExecutionPerRun

(***************************************************************************)
(* Liveness.  The handler's and the dispatch handler's steps are taken     *)
(* once they can be: the Lambda runtime either runs an invocation on or    *)
(* ends it, and Crash is that end.  Nothing forces Receive, Crash,         *)
(* redelivery or the index.                                                *)
(***************************************************************************)
Fairness ==
    \A c \in Requests : /\ WF_vars(Handler(c) /\ UNCHANGED starter)
                        /\ WF_vars(Dispatch(c) /\ UNCHANGED starter)

FairSpec == Spec /\ Fairness

\* A start that was decided on, for a fresh ledger row or for a row found
\* without an ARN, ends with an ARN in the row unless the invocation dies or
\* Step Functions refuses the name; it waits for nothing, the lagging index
\* included (create-run.ts:47-54, 108-122).
StartedRunsGetArn ==
    \A c \in Requests :
        Starting(c) ~> \/ runs[RunOf(c)].arn # "none"
                       \/ req[c].pc \in {"error", "alreadyExists"}

\* A payload handed to the asynchronous Lambda ends with the task ARN recorded
\* or the invocation dropped after its last attempt; it is not lost between.
DispatchSettles ==
    \A c \in Requests :
        dispatch[c].state = "queued" ~> dispatch[c].state \in {"recorded", "dropped"}

=============================================================================
