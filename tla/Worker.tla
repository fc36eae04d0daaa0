------------------------------- MODULE Worker -------------------------------
(***************************************************************************)
(* The ECS task that a Step Functions execution runs: executeRun, with its *)
(* position allocator and its sinks, for one run.  An attempt is one       *)
(* container; an execution that is driven again gets a new one, after the  *)
(* previous one has ended.  Meanwhile the Control API appends engagement   *)
(* events to the log of the run, numbered from what it last read.          *)
(***************************************************************************)
EXTENDS Integers, FiniteSets

CONSTANTS
    Attempts,       \* how many containers may run, one after the other
    Engagements     \* requests that append to the log meanwhile

ASSUME AttemptsAssumption == Attempts \in Nat

VARIABLES
    attempt,        \* the number of the last container that started
    pc,             \* where it is: the call that it awaits
    counter,        \* its InMemorySeqAllocator
    artifactSeq,    \* the position that its artifact drew
    exit,           \* how it ended: with code 0 or 1, or killed
    runStatus, taskStatus,
    objects,        \* the artifacts' bodies in S3
    records,        \* the artifacts' rows
    log,            \* the run's events
    engage          \* engage[x]: a request of the Control API

container == <<attempt, pc, counter, artifactSeq, exit>>
statuses == <<runStatus, taskStatus>>
stores == <<objects, records>>
vars == <<container, statuses, stores, log, engage>>

-----------------------------------------------------------------------------
Statuses == {"queued", "running", "succeeded", "failed"}

\* What the gateway does with a request.
Gateway == {"answered", "refused", "silent"}

Calls == Gateway \union {"load", "runRunning", "taskRunning", "putRunning",
          "hermes", "object", "record", "putArtifact",
          "runSucceeded", "taskSucceeded", "putSucceeded",
          "runFailed", "taskFailed", "putFailed"}

\* The calls inside the try block, and those of the catch block.
Tried == Gateway \union {"hermes", "object", "record", "putArtifact",
          "runSucceeded", "taskSucceeded", "putSucceeded"}

\* An event: of which attempt, 0 for the Control API, and what it says.
Event(n, by, says) == [seq |-> n, by |-> by, says |-> says]

\* The id, of which the object's key is made, is the task's, which is the
\* same for every attempt, and the position.
ArtifactIdForAttempt(n) == n

QueuedEvent == Event(1, 0, "queued")

Init ==
    /\ attempt = 0
    /\ pc = "none"
    /\ counter = 0
    /\ artifactSeq = 0
    /\ exit = "none"
    /\ runStatus = "queued"
    /\ taskStatus = "queued"
    /\ objects = {}
    /\ records = {}
    /\ log = {QueuedEvent}
    /\ engage = [x \in Engagements |-> [pc |-> "idle", seq |-> 0]]

-----------------------------------------------------------------------------
(***************************************************************************)
(* How a call ends.                                                        *)
(***************************************************************************)
Exit(code) == pc' = "ended" /\ exit' = code

\* A call that throws: the catch block follows the try block, and nothing
\* catches what is thrown before the one or in the other.
Throw == IF pc \in Tried THEN pc' = "runFailed" /\ UNCHANGED exit ELSE Exit("code1")

Return(next) ==
    CASE next = "exit0" -> Exit("code0")
      [] next = "exit1" -> Exit("code1")
      [] OTHER -> pc' = next /\ UNCHANGED exit

\* A call that fails may have done its work: its answer is lost, or the
\* client repeats it and the condition refuses what is there already.
Settles(next) == Return(next) \/ Throw

-----------------------------------------------------------------------------
(***************************************************************************)
(* The allocator and the sinks, as DynamoDB and S3 execute their calls.    *)
(***************************************************************************)
Positions == {e.seq : e \in log}

HighestSeq == CHOOSE n \in Positions : \A m \in Positions : m <= n

\* Bug: the put has no condition.
PutEventAnyway(event, next) ==
    \/ /\ log' = {e \in log : e.seq # event.seq} \union {event}
       /\ Settles(next)
    \/ Throw /\ UNCHANGED log

PutEvent(event, next) ==
    \/ /\ event.seq \notin Positions
       /\ log' = log \union {event}
       /\ Settles(next)
    \/ Throw /\ UNCHANGED log

UpdateRunStatus(status, next) ==
    \/ runStatus' = status /\ Settles(next)
    \/ Throw /\ UNCHANGED runStatus

UpdateTaskStatus(status, next) ==
    \/ taskStatus' = status /\ Settles(next)
    \/ Throw /\ UNCHANGED taskStatus

PutArtifact(id, next) ==
    \/ objects' = objects \union {id} /\ Settles(next)
    \/ Throw /\ UNCHANGED objects

PutArtifactRecord(id, next) ==
    \/ /\ id \notin records
       /\ records' = records \union {id}
       /\ Settles(next)
    \/ Throw /\ UNCHANGED records

-----------------------------------------------------------------------------
(***************************************************************************)
(* The container and executeRun.                                           *)
(***************************************************************************)

\* The first attempt, or the next one of an execution that is driven again.
StartTask ==
    /\ pc \in {"none", "ended"}
    /\ exit # "code0"
    /\ attempt < Attempts
    /\ attempt' = attempt + 1
    /\ pc' = "load"
    /\ exit' = "none"
    /\ UNCHANGED <<counter, artifactSeq, statuses, stores, log, engage>>

\* The time limit of the state machine, a lost host: no code runs any more.
Kill ==
    /\ pc \in Calls
    /\ Exit("killed")
    /\ UNCHANGED <<attempt, counter, artifactSeq, statuses, stores, log, engage>>

\* The query may be answered from an older copy of the log, which ends with an
\* earlier event or is empty.
LoadSeqAllocator ==
    /\ pc = "load"
    /\ \/ counter' \in Positions \union {0} /\ Return("runRunning")
       \/ UNCHANGED counter /\ Throw
    /\ UNCHANGED <<attempt, artifactSeq, statuses, stores, log, engage>>

SetRunStatus(at, status, next) ==
    /\ pc = at
    /\ UpdateRunStatus(status, next)
    /\ UNCHANGED <<attempt, counter, artifactSeq, taskStatus, stores, log, engage>>

SetTaskStatus(at, status, next) ==
    /\ pc = at
    /\ UpdateTaskStatus(status, next)
    /\ UNCHANGED <<attempt, counter, artifactSeq, runStatus, stores, log, engage>>

\* statusEvent, with a position drawn for it.
PutStatusEvent(at, status, next) ==
    /\ pc = at
    /\ counter' = counter + 1
    /\ PutEvent(Event(counter + 1, attempt, status), next)
    /\ UNCHANGED <<attempt, artifactSeq, statuses, stores, engage>>

DrawArtifactSeq ==
    /\ counter' = counter + 1
    /\ artifactSeq' = counter + 1
    /\ Return("object")

\* Bug: the gateway is awaited without a limit.
RunHermesUnlimited ==
    /\ \/ pc = "hermes" /\ pc' \in Gateway /\ UNCHANGED <<exit, counter, artifactSeq>>
       \/ pc = "answered" /\ DrawArtifactSeq
       \/ pc = "refused" /\ Throw /\ UNCHANGED <<counter, artifactSeq>>
    /\ UNCHANGED <<attempt, statuses, stores, log, engage>>

\* The gateway answers, or it answers with an error or nothing to read, or it
\* is silent until the request is aborted at its time limit.
RunHermes ==
    /\ \/ pc = "hermes" /\ pc' \in Gateway /\ UNCHANGED <<exit, counter, artifactSeq>>
       \/ pc = "answered" /\ DrawArtifactSeq
       \/ pc \in {"refused", "silent"} /\ Throw /\ UNCHANGED <<counter, artifactSeq>>
    /\ UNCHANGED <<attempt, statuses, stores, log, engage>>

\* Bug: an event that is refused is taken for one that was there before.
StoreArtifactOnce ==
    /\ \/ /\ pc = "object"
          /\ PutArtifact(ArtifactIdForAttempt(artifactSeq), "record")
          /\ UNCHANGED <<records, log>>
       \/ /\ pc = "record"
          /\ PutArtifactRecord(ArtifactIdForAttempt(artifactSeq), "putArtifact")
          /\ UNCHANGED <<objects, log>>
       \/ /\ pc = "putArtifact"
          /\ log' = IF artifactSeq \in Positions THEN log
                    ELSE log \union {Event(artifactSeq, attempt, "artifact")}
          /\ Return("runSucceeded")
          /\ UNCHANGED stores
    /\ UNCHANGED <<attempt, counter, artifactSeq, statuses, engage>>

StoreArtifact ==
    /\ \/ /\ pc = "object"
          /\ PutArtifact(ArtifactIdForAttempt(artifactSeq), "record")
          /\ UNCHANGED <<records, log>>
       \/ /\ pc = "record"
          /\ PutArtifactRecord(ArtifactIdForAttempt(artifactSeq), "putArtifact")
          /\ UNCHANGED <<objects, log>>
       \/ /\ pc = "putArtifact"
          /\ PutEvent(Event(artifactSeq, attempt, "artifact"), "runSucceeded")
          /\ UNCHANGED stores
    /\ UNCHANGED <<attempt, counter, artifactSeq, statuses, engage>>

Execute ==
    \/ LoadSeqAllocator
    \/ SetRunStatus("runRunning", "running", "taskRunning")
    \/ SetTaskStatus("taskRunning", "running", "putRunning")
    \/ PutStatusEvent("putRunning", "running", "hermes")
    \/ RunHermes
    \/ StoreArtifact
    \/ SetRunStatus("runSucceeded", "succeeded", "taskSucceeded")
    \/ SetTaskStatus("taskSucceeded", "succeeded", "putSucceeded")
    \/ PutStatusEvent("putSucceeded", "succeeded", "exit0")
    \/ SetRunStatus("runFailed", "failed", "taskFailed")
    \/ SetTaskStatus("taskFailed", "failed", "putFailed")
    \/ PutStatusEvent("putFailed", "failed", "exit1")

-----------------------------------------------------------------------------
(***************************************************************************)
(* The other writer: userEngagement reads the highest position and puts    *)
(* its event behind it, later, on the condition that it is still free.     *)
(***************************************************************************)
NextEventSeq(x) ==
    /\ engage[x].pc = "idle"
    /\ engage' = [engage EXCEPT ![x] = [pc |-> "put", seq |-> HighestSeq + 1]]
    /\ UNCHANGED <<container, statuses, stores, log>>

PutEngagement(x) ==
    /\ engage[x].pc = "put"
    /\ log' = IF engage[x].seq \in Positions THEN log
              ELSE log \union {Event(engage[x].seq, 0, "engagement")}
    /\ engage' = [engage EXCEPT ![x].pc = "done"]
    /\ UNCHANGED <<container, statuses, stores>>

Next ==
    \/ StartTask
    \/ Kill
    \/ Execute
    \/ \E x \in Engagements : NextEventSeq(x) \/ PutEngagement(x)

Spec == Init /\ [][Next]_vars

-----------------------------------------------------------------------------
Says == {"queued", "running", "succeeded", "failed", "artifact", "engagement"}

TypeOK ==
    /\ attempt \in 0..Attempts
    /\ pc \in Calls \union {"none", "ended"}
    /\ counter \in Nat
    /\ artifactSeq \in Nat
    /\ exit \in {"none", "code0", "code1", "killed"}
    /\ runStatus \in Statuses
    /\ taskStatus \in Statuses
    /\ objects \subseteq Nat
    /\ records \subseteq Nat
    /\ log \subseteq [seq : Nat, by : 0..Attempts, says : Says]
    /\ engage \in [Engagements -> [pc : {"idle", "put", "done"}, seq : Nat]]

(***************************************************************************)
(* Safety.                                                                 *)
(***************************************************************************)

\* An artifact that a reader meets is there: an event of the log names a row,
\* and a row names an object, whatever attempt wrote them and wherever it was
\* interrupted (worker.ts:39-73).
ArtifactsResolve ==
    /\ \A e \in log : e.says = "artifact" => ArtifactIdForAttempt(e.seq) \in records
    /\ records \subseteq objects

\* A run that says it succeeded has delivered: the attempt that says so has
\* put its artifact in the log before (worker.ts:56-76).
SuccessIsBacked ==
    \A e \in log : e.says = "succeeded" =>
        \E f \in log : f.says = "artifact" /\ f.by = e.by /\ f.seq < e.seq

\* What an attempt reports last agrees in its three places when the attempt is
\* over: the exit code that the state machine sees, the statuses of run and
\* task, and its last event.  An attempt that failed after it had stored
\* "succeeded" takes that back (worker.ts:74-89, index.ts:26-28).
LastEventOf(k) ==
    CHOOSE e \in log : e.by = k /\ \A f \in log : f.by = k => f.seq <= e.seq

EndsAgree ==
    pc = "ended" /\ exit # "killed" =>
        /\ exit = "code0" => /\ runStatus = "succeeded" /\ taskStatus = "succeeded"
                       /\ LastEventOf(attempt).says = "succeeded"
        /\ \A e \in log : e.by = attempt /\ e.says = "failed" =>
               exit = "code1" /\ runStatus = "failed" /\ taskStatus = "failed"

\* What a task delivers, wherever its attempts were interrupted: artifacts that
\* are there, no success without one, and one account of how an attempt ended.
OutcomeSound == TypeOK /\ ArtifactsResolve /\ SuccessIsBacked /\ EndsAgree

\* The events table behaves as an append-only log although the worker numbers
\* its events from what it read once, perhaps an older copy, while others append
\* (seq-allocator.ts:14-40, dynamo-event-sink.ts:26-32).
Log == INSTANCE EventLog WITH First <- {QueuedEvent}

LogSpec == Log!Spec

(***************************************************************************)
(* Liveness.  The container runs on or is killed.                          *)
(***************************************************************************)
FairSpec == Spec /\ WF_vars(Execute)

\* Every attempt ends, also when the gateway never answers
\* (gateway-hermes-runner.ts:32-33).
AttemptsEnd == pc \in Calls ~> pc = "ended"

=============================================================================
