------------------------ MODULE WorkerAndPagesProofs ------------------------
(***************************************************************************)
(* Proofs about the Step Functions worker, for any number of attempts and  *)
(* engagements: the safety properties that TLC checks, from one inductive  *)
(* invariant (IInv), and that the log it writes is the append-only log of  *)
(* EventLog.  And, in the second half, proofs about WorkspacePages for any *)
(* workspaces, items, profiles, runs, clicks and requests under way: what  *)
(* a page shows is of its selection and is true (PagesInv).                *)
(***************************************************************************)
EXTENDS Worker, WorkspacePages, FiniteSetTheorems, WellFoundedInduction, TLAPS

-----------------------------------------------------------------------------
(***************************************************************************)
(* The inductive invariant: what the log is, what the container has left   *)
(* behind when it awaits a call, and what is left when it is over.         *)
(***************************************************************************)

\* A finite log of one event per position, which begins with the creation.
LogIsOrdered ==
    /\ \E b \in Nat : \A e \in log : e.seq <= b
    /\ \A e, f \in log : e.seq = f.seq => e = f
    /\ QueuedEvent \in log

\* The events of an attempt are those it drew positions for.
EventsAreDrawn ==
    /\ attempt = 0 <=> pc = "none"
    /\ \A e \in log : e.by <= attempt
    /\ attempt # 0 =>
         \A e \in log : e.by = attempt => pc # "load" /\ e.seq <= counter

\* Each part of an artifact is there before what refers to it is written.
ArtifactInParts ==
    /\ pc = "record" => ArtifactIdForAttempt(artifactSeq) \in objects
    /\ pc = "putArtifact" => ArtifactIdForAttempt(artifactSeq) \in records
    /\ pc \in {"object", "record", "putArtifact", "runSucceeded", "taskSucceeded", "putSucceeded"} =>
         artifactSeq <= counter
    /\ pc \in {"runSucceeded", "taskSucceeded", "putSucceeded"} =>
         Event(artifactSeq, attempt, "artifact") \in log

\* The statuses are set in their order, and the event is the last word.
StatusInParts ==
    /\ pc \in {"taskSucceeded", "putSucceeded"} => runStatus = "succeeded"
    /\ pc = "putSucceeded" => taskStatus = "succeeded"
    /\ pc \in {"taskFailed", "putFailed"} => runStatus = "failed"
    /\ pc = "putFailed" => taskStatus = "failed"
    /\ pc \in Calls => \A e \in log : e.by = attempt => e.says # "failed"
    /\ pc = "ended" /\ exit = "code0" =>
         /\ runStatus = "succeeded" /\ taskStatus = "succeeded"
         /\ Event(counter, attempt, "succeeded") \in log
    /\ pc = "ended" /\ exit # "killed" =>
         \A e \in log : e.by = attempt /\ e.says = "failed" =>
             exit = "code1" /\ runStatus = "failed" /\ taskStatus = "failed"

IInv ==
    /\ TypeOK
    /\ LogIsOrdered
    /\ EventsAreDrawn
    /\ ArtifactInParts
    /\ StatusInParts
    /\ ArtifactsResolve
    /\ SuccessIsBacked

-----------------------------------------------------------------------------
(***************************************************************************)
(* Facts about the log and the calls.                                      *)
(***************************************************************************)

\* The order of the naturals, as the library's theorems on well-foundedness want it.
Below == {ss \in Nat \X Nat : ss[1] < ss[2]}

LEMMA BelowIsWellFounded == IsWellFoundedOn(Below, Nat)
BY NatLessThanWellFounded DEF OpToRel, Below

\* The highest position of the log is one of its positions.
LEMMA HighestIsPosition ==
    ASSUME TypeOK, LogIsOrdered
    PROVE  HighestSeq \in Nat
<1>1. PICK b \in Nat : \A e \in log : e.seq <= b
  BY DEF LogIsOrdered
<1> DEFINE T == {b - n : n \in Positions}
<1>2. Positions \subseteq Nat /\ Positions # {}
  BY DEF TypeOK, LogIsOrdered, Positions
<1>3. \A n \in Positions : n <= b
  BY <1>1 DEF Positions
<1>4. T \subseteq Nat /\ T # {}
  BY <1>2, <1>3
<1>5. PICK x \in T : \A y \in T : ~(<<y, x>> \in Below)
  BY <1>4, WFMin, BelowIsWellFounded
<1>6. PICK n \in Positions : x = b - n
  OBVIOUS
<1>7. ASSUME NEW m \in Positions
      PROVE  m <= n
  <2>1. b - m \in Nat /\ x \in Nat /\ ~(<<b - m, x>> \in Below)
    BY <1>4, <1>5
  <2>2. ~(b - m < x)
    BY <2>1 DEF Below
  <2> QED
    BY <1>2, <1>6, <2>2
<1>8. HighestSeq \in Positions
  BY <1>6, <1>7 DEF HighestSeq
<1> QED
  BY <1>2, <1>8

\* An event that is added at a free position leaves the log in order.
LEMMA LogGrows ==
    ASSUME TypeOK, LogIsOrdered, NEW n \in Nat, NEW by, NEW says, n \notin Positions,
           log' = log \union {Event(n, by, says)}
    PROVE  LogIsOrdered'
<1> DEFINE new == Event(n, by, says)
<1>1. new.seq = n /\ \A e \in log : e.seq # n /\ e.seq \in Nat
  BY DEF Event, Positions, TypeOK
<1>2. PICK b \in Nat : \A e \in log : e.seq <= b
  BY DEF LogIsOrdered
<1>3. PICK c \in Nat : b <= c /\ n <= c
  <2>1. CASE b <= n
    BY <2>1
  <2>2. CASE ~(b <= n)
    BY <2>2
  <2> QED
    BY <2>1, <2>2
<1>4. \A e \in log' : e.seq <= c
  BY <1>1, <1>2, <1>3
<1>5. \A e, f \in log' : e.seq = f.seq => e = f
  BY <1>1 DEF LogIsOrdered
<1>6. QueuedEvent \in log'
  BY DEF LogIsOrdered
<1> QED
  BY <1>3, <1>4, <1>5, <1>6 DEF LogIsOrdered, QueuedEvent, Event

\* An event that is added refers to what is there.
AddsEvent(n, by, says) ==
    /\ n \notin Positions
    /\ log' = log \union {Event(n, by, says)}

LEMMA EventAdded ==
    ASSUME IInv, NEW n \in Nat, NEW by \in 0..Attempts, NEW says \in Says,
           AddsEvent(n, by, says), UNCHANGED stores,
           says = "artifact" => n \in records,
           says = "succeeded" => \E f \in log : f.says = "artifact" /\ f.by = by /\ f.seq < n
    PROVE  /\ LogIsOrdered' /\ ArtifactsResolve' /\ SuccessIsBacked'
           /\ log' \subseteq [seq : Nat, by : 0..Attempts, says : Says]
<1> DEFINE new == Event(n, by, says)
<1>1. new \in [seq : Nat, by : 0..Attempts, says : Says]
      /\ new.seq = n /\ new.by = by /\ new.says = says
  BY DEF Event
<1>2. log' = log \union {new}
  BY DEF AddsEvent
<1> HIDE DEF new
<1>3. LogIsOrdered'
  BY LogGrows DEF IInv, AddsEvent
<1>4. ArtifactsResolve'
  BY <1>1, <1>2 DEF IInv, ArtifactsResolve, ArtifactIdForAttempt, stores
<1>5. SuccessIsBacked'
  <2> SUFFICES ASSUME NEW e \in log', e.says = "succeeded"
               PROVE  \E f \in log' : f.says = "artifact" /\ f.by = e.by /\ f.seq < e.seq
    BY DEF SuccessIsBacked
  <2>1. \E f \in log : f.says = "artifact" /\ f.by = e.by /\ f.seq < e.seq
    BY <1>1, <1>2 DEF IInv, SuccessIsBacked
  <2> QED
    BY <1>2, <2>1
<1> QED
  BY <1>1, <1>2, <1>3, <1>4, <1>5 DEF IInv, TypeOK

\* A step that leaves the log and the stores alone keeps what refers to them.
LEMMA LogKept ==
    ASSUME IInv, UNCHANGED <<log, stores>>
    PROVE  LogIsOrdered' /\ ArtifactsResolve' /\ SuccessIsBacked'
BY DEF IInv, stores, LogIsOrdered, ArtifactsResolve, SuccessIsBacked

\* What a call can make of the program counter and the exit code.
LEMMA Returns ==
    ASSUME NEW next \in Calls, Return(next)
    PROVE  pc' = next /\ exit' = exit
BY DEF Return, Calls, Gateway

LEMMA Throws ==
    ASSUME pc \in Calls, Throw
    PROVE  \/ pc \in Tried /\ pc' = "runFailed" /\ exit' = exit
           \/ pc \notin Tried /\ pc' = "ended" /\ exit' = "code1"
BY DEF Throw, Exit

LEMMA SettlesAs ==
    ASSUME pc \in Calls, NEW next \in Calls, Settles(next)
    PROVE  \/ pc' = next /\ exit' = exit
           \/ pc \in Tried /\ pc' = "runFailed" /\ exit' = exit
           \/ pc \notin Tried /\ pc' = "ended" /\ exit' = "code1"
BY Returns, Throws DEF Settles

-----------------------------------------------------------------------------
(***************************************************************************)
(* The steps of the state machine and of the Control API.                  *)
(***************************************************************************)
LEMMA StartTaskStep == IInv /\ StartTask => IInv'
<1> SUFFICES ASSUME IInv, StartTask
             PROVE  IInv'
  OBVIOUS
<1>1. TypeOK'
  BY AttemptsAssumption DEF IInv, TypeOK, StartTask, Calls, Gateway, statuses, stores
<1>2. LogIsOrdered' /\ ArtifactsResolve' /\ SuccessIsBacked'
  BY LogKept DEF StartTask
<1>3. \A e \in log : e.by \in Nat /\ e.by <= attempt /\ attempt \in Nat
  BY AttemptsAssumption DEF IInv, TypeOK, EventsAreDrawn
<1>4. attempt' = attempt + 1 /\ log' = log /\ pc' = "load"
  BY DEF StartTask
<1>5. \A e \in log' : e.by # attempt' /\ e.by <= attempt'
  BY <1>3, <1>4
<1>6. EventsAreDrawn'
  BY <1>4, <1>5 DEF EventsAreDrawn, IInv, TypeOK
<1>7. ArtifactInParts'
  BY <1>4 DEF ArtifactInParts
<1>8. StatusInParts'
  BY <1>4, <1>5 DEF StatusInParts
<1> QED
  BY <1>1, <1>2, <1>6, <1>7, <1>8 DEF IInv

LEMMA KillStep == IInv /\ Kill => IInv'
<1> SUFFICES ASSUME IInv, Kill
             PROVE  IInv'
  OBVIOUS
<1>0. pc \in Calls /\ pc' = "ended" /\ exit' = "killed"
      /\ UNCHANGED <<attempt, counter, artifactSeq, runStatus, taskStatus, objects, records, log, engage>>
  BY DEF Kill, Exit, statuses, stores
<1>1. TypeOK'
  BY <1>0 DEF IInv, TypeOK
<1>2. LogIsOrdered' /\ ArtifactsResolve' /\ SuccessIsBacked'
  BY <1>0, LogKept DEF stores
<1>3. pc # "none"
  BY <1>0 DEF Calls, Gateway
<1>4. EventsAreDrawn'
  BY <1>0, <1>3 DEF IInv, EventsAreDrawn
<1>5. ArtifactInParts'
  BY <1>0 DEF ArtifactInParts
<1>6. StatusInParts'
  BY <1>0 DEF StatusInParts, Calls, Gateway
<1> QED
  BY <1>1, <1>2, <1>4, <1>5, <1>6 DEF IInv

LEMMA NextEventSeqStep ==
    ASSUME IInv, NEW x \in Engagements, NextEventSeq(x)
    PROVE  IInv'
<1>0. UNCHANGED <<attempt, pc, counter, artifactSeq, exit, runStatus, taskStatus,
                  objects, records, log>>
  BY DEF NextEventSeq, container, statuses, stores
<1>1. TypeOK'
  <2>1. HighestSeq + 1 \in Nat
    BY HighestIsPosition DEF IInv
  <2>2. engage' \in [Engagements -> [pc : {"idle", "put", "done"}, seq : Nat]]
    BY <2>1 DEF IInv, TypeOK, NextEventSeq
  <2> QED
    BY <1>0, <2>2 DEF IInv, TypeOK
<1>2. LogIsOrdered' /\ ArtifactsResolve' /\ SuccessIsBacked'
  BY <1>0, LogKept DEF stores
<1> QED
  BY <1>0, <1>1, <1>2 DEF IInv, EventsAreDrawn, ArtifactInParts, StatusInParts

LEMMA PutEngagementStep ==
    ASSUME IInv, NEW x \in Engagements, PutEngagement(x)
    PROVE  IInv'
<1>0. UNCHANGED <<attempt, pc, counter, artifactSeq, exit, runStatus, taskStatus,
                  objects, records>>
  BY DEF PutEngagement, container, statuses, stores
<1> DEFINE n == engage[x].seq
           new == Event(n, 0, "engagement")
<1>1. n \in Nat /\ engage' \in [Engagements -> [pc : {"idle", "put", "done"}, seq : Nat]]
  BY DEF IInv, TypeOK, PutEngagement
<1>2. CASE log' = log
  <2>1. LogIsOrdered' /\ ArtifactsResolve' /\ SuccessIsBacked'
    BY <1>0, <1>2, LogKept DEF stores
  <2> QED
    BY <1>0, <1>1, <1>2, <2>1
    DEF IInv, TypeOK, EventsAreDrawn, ArtifactInParts, StatusInParts
<1>3. CASE AddsEvent(n, 0, "engagement")
  <2>0. 0 \in 0..Attempts /\ "engagement" \in Says /\ UNCHANGED stores
    BY <1>0, AttemptsAssumption DEF Says, stores
  <2>1. /\ LogIsOrdered' /\ ArtifactsResolve' /\ SuccessIsBacked'
        /\ log' \subseteq [seq : Nat, by : 0..Attempts, says : Says]
    BY <1>1, <1>3, <2>0, EventAdded
  <2>2. log' = log \union {new} /\ new.by = 0 /\ new.says = "engagement"
    BY <1>3 DEF AddsEvent, Event
  <2> HIDE DEF new
  <2>3. TypeOK'
    BY <1>0, <1>1, <2>1 DEF IInv, TypeOK
  <2>4. EventsAreDrawn'
    BY <1>0, <2>2 DEF IInv, TypeOK, EventsAreDrawn
  <2>5. ArtifactInParts'
    BY <1>0, <2>2 DEF IInv, ArtifactInParts
  <2>6. StatusInParts'
    BY <1>0, <2>2 DEF IInv, StatusInParts
  <2> QED
    BY <2>1, <2>3, <2>4, <2>5, <2>6 DEF IInv
<1> QED
  BY <1>2, <1>3 DEF PutEngagement, AddsEvent

-----------------------------------------------------------------------------
(***************************************************************************)
(* The steps of the container.                                             *)
(***************************************************************************)

\* A step inside an attempt that leaves the log alone, draws no position anew and
\* does not go back to the start.
LEMMA AttemptGoesOn ==
    ASSUME IInv, pc \in Calls \ {"load"}, pc' \in (Calls \ {"load"}) \union {"ended"},
           UNCHANGED <<attempt, log>>, counter' \in Nat, counter <= counter'
    PROVE  EventsAreDrawn'
<1>1. pc \notin {"none", "load"} /\ pc' \notin {"none", "load"}
  BY DEF Calls, Gateway
<1>2. counter \in Nat /\ \A e \in log : e.seq \in Nat
  BY DEF IInv, TypeOK
<1> QED
  BY <1>1, <1>2 DEF IInv, EventsAreDrawn

LEMMA LoadStep == IInv /\ LoadSeqAllocator => IInv'
<1> SUFFICES ASSUME IInv, LoadSeqAllocator
             PROVE  IInv'
  OBVIOUS
<1>0. pc = "load" /\ UNCHANGED <<attempt, artifactSeq, runStatus, taskStatus, objects, records,
                                log, engage>>
  BY DEF LoadSeqAllocator, statuses, stores
<1>1. \/ pc' = "runRunning" /\ exit' = exit
      \/ pc' = "ended" /\ exit' = "code1"
  BY <1>0, Returns, Throws DEF LoadSeqAllocator, Calls, Gateway, Tried
<1>2. counter' \in Nat
  BY DEF LoadSeqAllocator, IInv, TypeOK, Positions
<1>3. \A e \in log : e.by # attempt
  BY <1>0 DEF IInv, EventsAreDrawn
<1>4. TypeOK'
  BY <1>0, <1>1, <1>2 DEF IInv, TypeOK, Calls
<1>5. LogIsOrdered' /\ ArtifactsResolve' /\ SuccessIsBacked'
  BY <1>0, LogKept DEF stores
<1>6. EventsAreDrawn'
  BY <1>0, <1>1, <1>3 DEF IInv, EventsAreDrawn
<1>7. ArtifactInParts'
  BY <1>1 DEF ArtifactInParts
<1>8. StatusInParts'
  BY <1>0, <1>1, <1>3 DEF StatusInParts
<1> QED
  BY <1>4, <1>5, <1>6, <1>7, <1>8 DEF IInv

\* No event of the attempt says that it failed while the attempt runs.
LEMMA NotFailedYet ==
    ASSUME IInv, pc \in Calls, UNCHANGED <<attempt, log>>
    PROVE  \A e \in log' : e.by = attempt' => e.says # "failed"
BY DEF IInv, StatusInParts

\* What the two status steps have in common.
LEMMA StatusKeeps ==
    ASSUME IInv, pc \in Calls \ {"load"}, NEW next \in Calls \ {"load"}, Settles(next),
           UNCHANGED <<attempt, counter, artifactSeq, objects, records, log, engage>>,
           runStatus' \in Statuses, taskStatus' \in Statuses
    PROVE  /\ TypeOK' /\ LogIsOrdered' /\ EventsAreDrawn' /\ ArtifactsResolve' /\ SuccessIsBacked'
           /\ \A e \in log' : e.by = attempt' => e.says # "failed"
           /\ \/ pc' = next /\ exit' = exit
              \/ pc' = "runFailed" /\ exit' = exit
              \/ pc' = "ended" /\ exit' = "code1" /\ pc \notin Tried
<1>1. \/ pc' = next /\ exit' = exit
      \/ pc' = "runFailed" /\ exit' = exit
      \/ pc' = "ended" /\ exit' = "code1" /\ pc \notin Tried
  BY SettlesAs
<1>2. TypeOK'
  BY <1>1 DEF IInv, TypeOK, Calls
<1>3. LogIsOrdered' /\ ArtifactsResolve' /\ SuccessIsBacked'
  BY LogKept DEF stores
<1>4. EventsAreDrawn'
  <2>1. pc' \in (Calls \ {"load"}) \union {"ended"} /\ counter' \in Nat /\ counter <= counter'
    BY <1>1 DEF Calls, IInv, TypeOK
  <2> QED
    BY <2>1, AttemptGoesOn
<1> QED
  BY <1>1, <1>2, <1>3, <1>4, NotFailedYet

\* A call that throws does so with nothing changed but the program counter.
LEMMA ThrowStep ==
    ASSUME IInv, pc \in Calls \ {"load"}, Throw,
           UNCHANGED <<attempt, artifactSeq, runStatus, taskStatus, objects, records, log, engage>>,
           counter' \in Nat, counter <= counter'
    PROVE  IInv'
<1>1. \/ pc' = "runFailed" /\ exit' = exit
      \/ pc' = "ended" /\ exit' = "code1"
  BY Throws
<1>2. TypeOK'
  BY <1>1 DEF IInv, TypeOK, Calls
<1>3. LogIsOrdered' /\ ArtifactsResolve' /\ SuccessIsBacked'
  BY LogKept DEF stores
<1>4. EventsAreDrawn'
  <2>1. pc' \in (Calls \ {"load"}) \union {"ended"}
    BY <1>1 DEF Calls
  <2> QED
    BY <2>1, AttemptGoesOn
<1>5. ArtifactInParts'
  BY <1>1 DEF ArtifactInParts
<1>6. StatusInParts'
  BY <1>1, NotFailedYet DEF StatusInParts
<1> QED
  BY <1>2, <1>3, <1>4, <1>5, <1>6 DEF IInv

\* The statuses are set before the event that announces them.
LEMMA SetStatusStep ==
    ASSUME IInv,
           \/ SetRunStatus("runRunning", "running", "taskRunning")
           \/ SetTaskStatus("taskRunning", "running", "putRunning")
           \/ SetRunStatus("runSucceeded", "succeeded", "taskSucceeded")
           \/ SetTaskStatus("taskSucceeded", "succeeded", "putSucceeded")
           \/ SetRunStatus("runFailed", "failed", "taskFailed")
           \/ SetTaskStatus("taskFailed", "failed", "putFailed")
    PROVE  IInv'
<1>1. ASSUME NEW at \in {"runRunning", "runSucceeded", "runFailed"},
             NEW status \in Statuses, NEW next \in Calls \ {"load"},
             SetRunStatus(at, status, next),
             <<at, status, next>> \in {<<"runRunning", "running", "taskRunning">>,
                                       <<"runSucceeded", "succeeded", "taskSucceeded">>,
                                       <<"runFailed", "failed", "taskFailed">>}
      PROVE  IInv'
  <2>0. /\ pc = at /\ pc \in Calls \ {"load"}
        /\ UNCHANGED <<attempt, counter, artifactSeq, taskStatus, objects, records, log, engage>>
        /\ counter \in Nat /\ counter <= counter
    BY <1>1 DEF SetRunStatus, Calls, stores, IInv, TypeOK
  <2>1. CASE Throw /\ UNCHANGED runStatus
    BY <2>0, <2>1, ThrowStep
  <2>2. CASE runStatus' = status /\ Settles(next)
    <3>1. /\ TypeOK' /\ LogIsOrdered' /\ EventsAreDrawn' /\ ArtifactsResolve' /\ SuccessIsBacked'
          /\ \A e \in log' : e.by = attempt' => e.says # "failed"
          /\ \/ pc' = next /\ exit' = exit
             \/ pc' = "runFailed" /\ exit' = exit
             \/ pc' = "ended" /\ exit' = "code1" /\ pc \notin Tried
      <4>1. taskStatus' \in Statuses
        BY <2>0 DEF IInv, TypeOK
      <4> QED
        BY <1>1, <2>0, <2>2, <4>1, StatusKeeps
    <3>2. ArtifactInParts'
      BY <1>1, <2>0, <3>1 DEF IInv, ArtifactInParts
    <3>3. StatusInParts'
      BY <1>1, <2>0, <2>2, <3>1 DEF IInv, StatusInParts
    <3> QED
      BY <3>1, <3>2, <3>3 DEF IInv
  <2> QED
    BY <1>1, <2>1, <2>2 DEF SetRunStatus, UpdateRunStatus
<1>2. ASSUME NEW at \in {"taskRunning", "taskSucceeded", "taskFailed"},
             NEW status \in Statuses, NEW next \in Calls \ {"load"},
             SetTaskStatus(at, status, next),
             <<at, status, next>> \in {<<"taskRunning", "running", "putRunning">>,
                                       <<"taskSucceeded", "succeeded", "putSucceeded">>,
                                       <<"taskFailed", "failed", "putFailed">>}
      PROVE  IInv'
  <2>0. /\ pc = at /\ pc \in Calls \ {"load"}
        /\ UNCHANGED <<attempt, counter, artifactSeq, runStatus, objects, records, log, engage>>
        /\ counter \in Nat /\ counter <= counter
    BY <1>2 DEF SetTaskStatus, Calls, stores, IInv, TypeOK
  <2>1. CASE Throw /\ UNCHANGED taskStatus
    BY <2>0, <2>1, ThrowStep
  <2>2. CASE taskStatus' = status /\ Settles(next)
    <3>1. /\ TypeOK' /\ LogIsOrdered' /\ EventsAreDrawn' /\ ArtifactsResolve' /\ SuccessIsBacked'
          /\ \A e \in log' : e.by = attempt' => e.says # "failed"
          /\ \/ pc' = next /\ exit' = exit
             \/ pc' = "runFailed" /\ exit' = exit
             \/ pc' = "ended" /\ exit' = "code1" /\ pc \notin Tried
      <4>1. runStatus' \in Statuses
        BY <2>0 DEF IInv, TypeOK
      <4> QED
        BY <1>2, <2>0, <2>2, <4>1, StatusKeeps
    <3>2. ArtifactInParts'
      BY <1>2, <2>0, <3>1 DEF IInv, ArtifactInParts
    <3>3. StatusInParts'
      BY <1>2, <2>0, <2>2, <3>1 DEF IInv, StatusInParts
    <3> QED
      BY <3>1, <3>2, <3>3 DEF IInv
  <2> QED
    BY <1>2, <2>1, <2>2 DEF SetTaskStatus, UpdateTaskStatus
<1> QED
  BY <1>1, <1>2 DEF Statuses, Calls

LEMMA RunHermesStep == IInv /\ RunHermes => IInv'
<1> SUFFICES ASSUME IInv, RunHermes
             PROVE  IInv'
  OBVIOUS
<1>0. UNCHANGED <<attempt, runStatus, taskStatus, objects, records, log, engage>>
      /\ counter \in Nat
  BY DEF RunHermes, statuses, stores, IInv, TypeOK
<1>1. CASE pc \in {"refused", "silent"} /\ Throw /\ UNCHANGED <<counter, artifactSeq>>
  BY <1>0, <1>1, ThrowStep DEF Calls, Gateway
<1>2. ASSUME pc \in {"hermes", "answered"}, pc' \in Gateway \union {"object"}, exit' = exit,
             counter' \in {counter, counter + 1}, artifactSeq' \in {artifactSeq, counter'},
             pc' = "object" => artifactSeq' = counter'
      PROVE  IInv'
  <2>1. /\ pc \in Calls \ {"load"} /\ pc' \in Calls \ {"load"}
        /\ counter' \in Nat /\ counter <= counter' /\ artifactSeq' \in Nat
    BY <1>0, <1>2 DEF Calls, Gateway, IInv, TypeOK
  <2>2. TypeOK'
    BY <1>0, <1>2, <2>1 DEF IInv, TypeOK
  <2>3. LogIsOrdered' /\ ArtifactsResolve' /\ SuccessIsBacked'
    BY <1>0, LogKept DEF stores
  <2>4. EventsAreDrawn'
    BY <1>0, <2>1, AttemptGoesOn
  <2>5. ArtifactInParts'
    BY <1>2, <2>1 DEF ArtifactInParts, Gateway
  <2>6. StatusInParts'
    BY <1>0, <1>2, <2>1, NotFailedYet DEF StatusInParts, Gateway
  <2> QED
    BY <2>2, <2>3, <2>4, <2>5, <2>6 DEF IInv
<1>3. CASE pc = "hermes" /\ pc' \in Gateway /\ UNCHANGED <<exit, counter, artifactSeq>>
  BY <1>2, <1>3 DEF Gateway
<1>4. CASE pc = "answered" /\ DrawArtifactSeq
  <2>1. pc' = "object" /\ exit' = exit /\ counter' = counter + 1 /\ artifactSeq' = counter + 1
    BY <1>4, Returns DEF DrawArtifactSeq, Calls
  <2> QED
    BY <1>2, <1>4, <2>1
<1> QED
  BY <1>1, <1>3, <1>4 DEF RunHermes

\* An event of the attempt at a position that it drew.
LEMMA OwnEventAdded ==
    ASSUME IInv, pc \in Calls \ {"load"}, pc' \in (Calls \ {"load"}) \union {"ended"},
           NEW n \in Nat, NEW says \in Says,
           AddsEvent(n, attempt, says), n <= counter', counter <= counter', counter' \in Nat,
           UNCHANGED attempt
    PROVE  EventsAreDrawn'
<1> DEFINE new == Event(n, attempt, says)
<1>1. log' = log \union {new} /\ new.seq = n /\ new.by = attempt
  BY DEF AddsEvent, Event
<1> HIDE DEF new
<1>2. pc \notin {"none", "load"} /\ pc' \notin {"none", "load"}
  BY DEF Calls, Gateway
<1>3. counter \in Nat /\ attempt \in Nat /\ \A e \in log : e.seq \in Nat
  BY DEF IInv, TypeOK
<1> QED
  BY <1>1, <1>2, <1>3 DEF IInv, EventsAreDrawn

LEMMA PutStatusEventStep ==
    ASSUME IInv,
           \/ PutStatusEvent("putRunning", "running", "hermes")
           \/ PutStatusEvent("putSucceeded", "succeeded", "exit0")
           \/ PutStatusEvent("putFailed", "failed", "exit1")
    PROVE  IInv'
<1>1. ASSUME NEW at, NEW status \in {"running", "succeeded", "failed"}, NEW next,
             PutStatusEvent(at, status, next),
             <<at, status, next>> \in {<<"putRunning", "running", "hermes">>,
                                       <<"putSucceeded", "succeeded", "exit0">>,
                                       <<"putFailed", "failed", "exit1">>}
      PROVE  IInv'
  <2> DEFINE n == counter + 1
             new == Event(n, attempt, status)
  <2>0. /\ pc = at /\ pc \in Calls \ {"load"}
        /\ UNCHANGED <<attempt, artifactSeq, runStatus, taskStatus, objects, records, engage>>
        /\ counter \in Nat /\ n \in Nat /\ counter' = n /\ counter <= counter' /\ n <= counter'
        /\ attempt \in 0..Attempts /\ status \in Says
    BY <1>1 DEF PutStatusEvent, Calls, statuses, stores, IInv, TypeOK, Says
  <2>1. CASE Throw /\ UNCHANGED log
    BY <2>0, <2>1, ThrowStep
  <2>2. CASE AddsEvent(n, attempt, status) /\ Settles(next)
    <3>1. /\ at = "putRunning" => \/ pc' = "hermes" /\ exit' = exit
                                  \/ pc' = "ended" /\ exit' = "code1"
          /\ at = "putSucceeded" => \/ pc' = "ended" /\ exit' = "code0"
                                    \/ pc' = "runFailed" /\ exit' = exit
          /\ at = "putFailed" => pc' = "ended" /\ exit' = "code1"
      BY <1>1, <2>0, <2>2 DEF Settles, Return, Throw, Exit, Tried, Gateway
    <3>2. pc' \in (Calls \ {"load"}) \union {"ended"}
          /\ exit' \in {"none", "code0", "code1", "killed"}
      BY <1>1, <3>1 DEF Calls, IInv, TypeOK
    <3>3. status = "succeeded" =>
            \E f \in log : f.says = "artifact" /\ f.by = attempt /\ f.seq < n
      <4>1. ASSUME status = "succeeded"
            PROVE  /\ Event(artifactSeq, attempt, "artifact") \in log
                   /\ artifactSeq <= counter /\ artifactSeq \in Nat
        BY <1>1, <2>0, <4>1 DEF IInv, ArtifactInParts, TypeOK
      <4>2. ASSUME NEW f \in log, f = Event(artifactSeq, attempt, "artifact"),
                   artifactSeq <= counter, artifactSeq \in Nat
            PROVE  f.says = "artifact" /\ f.by = attempt /\ f.seq < n
        BY <2>0, <4>2 DEF Event
      <4> HIDE DEF n
      <4> QED
        BY <4>1, <4>2
    <3>4. /\ LogIsOrdered' /\ ArtifactsResolve' /\ SuccessIsBacked'
          /\ log' \subseteq [seq : Nat, by : 0..Attempts, says : Says]
      <4>1. UNCHANGED stores /\ status # "artifact"
        BY <2>0, <1>1 DEF stores
      <4> HIDE DEF n
      <4> QED
        BY <2>0, <2>2, <3>3, <4>1, EventAdded
    <3>5. TypeOK'
      BY <2>0, <3>2, <3>4 DEF IInv, TypeOK
    <3>6. EventsAreDrawn'
      <4> HIDE DEF n
      <4> QED
        BY <2>0, <2>2, <3>2, OwnEventAdded
    <3>7. ArtifactInParts'
      BY <1>1, <2>0, <3>1 DEF ArtifactInParts
    <3>8. StatusInParts'
      <4>1. log' = log \union {new} /\ new.says = status /\ new.by = attempt
        BY <2>2 DEF AddsEvent, Event
      <4>2. \A e \in log : e.by = attempt => e.says # "failed"
        BY <2>0 DEF IInv, StatusInParts
      <4>3. new = Event(counter', attempt', status)
        BY <2>0
      <4> HIDE DEF new
      <4>4. CASE at = "putRunning"
        BY <1>1, <2>0, <3>1, <4>1, <4>2, <4>4 DEF StatusInParts, Calls
      <4>5. CASE at = "putSucceeded"
        BY <1>1, <2>0, <3>1, <4>1, <4>2, <4>3, <4>5 DEF IInv, StatusInParts, Calls
      <4>6. CASE at = "putFailed"
        BY <1>1, <2>0, <3>1, <4>1, <4>2, <4>6 DEF IInv, StatusInParts, Calls, Gateway
      <4> QED
        BY <1>1, <4>4, <4>5, <4>6
    <3> QED
      BY <3>4, <3>5, <3>6, <3>7, <3>8 DEF IInv
  <2>3. Event(n, attempt, status).seq = n
    BY DEF Event
  <2> QED
    BY <1>1, <2>1, <2>2, <2>3 DEF PutStatusEvent, PutEvent, AddsEvent
<1> QED
  BY <1>1

LEMMA StoreArtifactStep == IInv /\ StoreArtifact => IInv'
<1> SUFFICES ASSUME IInv, StoreArtifact
             PROVE  IInv'
  OBVIOUS
<1>0. /\ pc \in {"object", "record", "putArtifact"} /\ pc \in Calls \ {"load"} /\ pc \in Tried
      /\ UNCHANGED <<attempt, counter, artifactSeq, runStatus, taskStatus, engage>>
      /\ artifactSeq \in Nat /\ counter \in Nat /\ counter <= counter /\ artifactSeq <= counter
      /\ attempt \in 0..Attempts
  BY DEF StoreArtifact, Calls, Tried, statuses, IInv, TypeOK, ArtifactInParts
<1>1. CASE Throw /\ UNCHANGED <<objects, records, log>>
  BY <1>0, <1>1, ThrowStep
<1>2. CASE pc = "object" /\ objects' = objects \union {artifactSeq} /\ Settles("record")
           /\ UNCHANGED <<records, log>>
  <2>1. (pc' = "record" \/ pc' = "runFailed") /\ exit' = exit
    BY <1>0, <1>2, SettlesAs DEF Calls
  <2>2. TypeOK'
    BY <1>0, <1>2, <2>1 DEF IInv, TypeOK, Calls
  <2>3. LogIsOrdered' /\ ArtifactsResolve' /\ SuccessIsBacked'
    BY <1>2 DEF IInv, LogIsOrdered, ArtifactsResolve, SuccessIsBacked
  <2>4. EventsAreDrawn'
    BY <1>0, <1>2, <2>1, AttemptGoesOn DEF Calls
  <2>5. ArtifactInParts'
    BY <1>0, <1>2, <2>1 DEF ArtifactInParts, ArtifactIdForAttempt
  <2>6. StatusInParts'
    BY <1>0, <1>2, <2>1, NotFailedYet DEF StatusInParts
  <2> QED
    BY <2>2, <2>3, <2>4, <2>5, <2>6 DEF IInv
<1>3. CASE pc = "record" /\ records' = records \union {artifactSeq} /\ Settles("putArtifact")
           /\ UNCHANGED <<objects, log>>
  <2>1. (pc' = "putArtifact" \/ pc' = "runFailed") /\ exit' = exit
    BY <1>0, <1>3, SettlesAs DEF Calls
  <2>2. TypeOK'
    BY <1>0, <1>3, <2>1 DEF IInv, TypeOK, Calls
  <2>3. LogIsOrdered' /\ ArtifactsResolve' /\ SuccessIsBacked'
    <3>1. artifactSeq \in objects
      BY <1>3 DEF IInv, ArtifactInParts, ArtifactIdForAttempt
    <3> QED
      BY <1>3, <3>1 DEF IInv, LogIsOrdered, ArtifactsResolve, SuccessIsBacked
  <2>4. EventsAreDrawn'
    BY <1>0, <1>3, <2>1, AttemptGoesOn DEF Calls
  <2>5. ArtifactInParts'
    BY <1>0, <1>3, <2>1 DEF ArtifactInParts, ArtifactIdForAttempt
  <2>6. StatusInParts'
    BY <1>0, <1>3, <2>1, NotFailedYet DEF StatusInParts
  <2> QED
    BY <2>2, <2>3, <2>4, <2>5, <2>6 DEF IInv
<1>4. CASE pc = "putArtifact" /\ AddsEvent(artifactSeq, attempt, "artifact")
           /\ Settles("runSucceeded") /\ UNCHANGED <<objects, records>>
  <2> DEFINE new == Event(artifactSeq, attempt, "artifact")
  <2>0. log' = log \union {new} /\ new.by = attempt /\ new.says = "artifact"
    BY <1>4 DEF AddsEvent, Event
  <2>1. (pc' = "runSucceeded" \/ pc' = "runFailed") /\ exit' = exit
    BY <1>0, <1>4, SettlesAs DEF Calls
  <2>2. /\ LogIsOrdered' /\ ArtifactsResolve' /\ SuccessIsBacked'
        /\ log' \subseteq [seq : Nat, by : 0..Attempts, says : Says]
    <3>1. artifactSeq \in records /\ UNCHANGED stores /\ "artifact" \in Says
      BY <1>4 DEF IInv, ArtifactInParts, ArtifactIdForAttempt, stores, Says
    <3> QED
      BY <1>0, <1>4, <3>1, EventAdded
  <2>3. TypeOK'
    BY <1>0, <1>4, <2>1, <2>2 DEF IInv, TypeOK, Calls
  <2>4. EventsAreDrawn'
    BY <1>0, <1>4, <2>1, OwnEventAdded DEF Calls, Says
  <2>5. ArtifactInParts'
    BY <1>0, <2>0, <2>1 DEF ArtifactInParts
  <2>6. StatusInParts'
    <3>1. \A e \in log : e.by = attempt => e.says # "failed"
      BY <1>0 DEF IInv, StatusInParts
    <3> HIDE DEF new
    <3> QED
      BY <1>0, <2>0, <2>1, <3>1 DEF StatusInParts
  <2> QED
    BY <2>2, <2>3, <2>4, <2>5, <2>6 DEF IInv
<1>5. Event(artifactSeq, attempt, "artifact").seq = artifactSeq
  BY DEF Event
<1> QED
  BY <1>1, <1>2, <1>3, <1>4, <1>5
  DEF StoreArtifact, PutArtifact, PutArtifactRecord, PutEvent, AddsEvent, stores,
      ArtifactIdForAttempt

-----------------------------------------------------------------------------
(***************************************************************************)
(* The invariant and what follows from it.                                 *)
(***************************************************************************)
LEMMA InitialState == Init => IInv
<1> SUFFICES ASSUME Init
             PROVE  IInv
  OBVIOUS
<1>1. log = {QueuedEvent} /\ QueuedEvent.seq = 1 /\ QueuedEvent.by = 0 /\ QueuedEvent.says = "queued"
      /\ QueuedEvent \in [seq : Nat, by : 0..Attempts, says : Says]
  BY AttemptsAssumption DEF Init, QueuedEvent, Event, Says
<1>2. TypeOK
  BY <1>1, AttemptsAssumption DEF Init, TypeOK, Statuses
<1>3. LogIsOrdered
  BY <1>1 DEF LogIsOrdered
<1>4. EventsAreDrawn /\ ArtifactInParts /\ StatusInParts
  BY <1>1 DEF Init, EventsAreDrawn, ArtifactInParts, StatusInParts, Calls, Gateway
<1>5. ArtifactsResolve /\ SuccessIsBacked
  BY <1>1 DEF Init, ArtifactsResolve, SuccessIsBacked
<1> QED
  BY <1>2, <1>3, <1>4, <1>5 DEF IInv

LEMMA InductiveStep == IInv /\ [Next]_vars => IInv'
<1> SUFFICES ASSUME IInv, [Next]_vars
             PROVE  IInv'
  OBVIOUS
<1>1. CASE Execute
  BY <1>1, LoadStep, SetStatusStep, PutStatusEventStep, RunHermesStep, StoreArtifactStep
  DEF Execute
<1>2. CASE UNCHANGED vars
  BY <1>2 DEF vars, container, statuses, stores, IInv, TypeOK, LogIsOrdered, EventsAreDrawn,
     ArtifactInParts, StatusInParts, ArtifactsResolve, SuccessIsBacked
<1> QED
  BY <1>1, <1>2, StartTaskStep, KillStep, NextEventSeqStep, PutEngagementStep DEF Next

THEOREM Invariance == Spec => []IInv
<1> QED
  BY InitialState, InductiveStep, PTL DEF Spec

\* The last event of an attempt that ended well is the one that says so.
LEMMA SuccessIsLast ==
    ASSUME IInv, pc = "ended", exit = "code0"
    PROVE  LastEventOf(attempt).says = "succeeded"
<1> DEFINE last == Event(counter, attempt, "succeeded")
           IsLast(e) == e.by = attempt /\ \A f \in log : f.by = attempt => f.seq <= e.seq
<1>1. last \in log /\ last.seq = counter /\ last.by = attempt /\ last.says = "succeeded"
  BY DEF IInv, StatusInParts, Event
<1>2. IsLast(last)
  BY <1>1 DEF IInv, EventsAreDrawn
<1>3. ASSUME NEW e \in log, IsLast(e)
      PROVE  e = last
  <2>1. e.seq <= last.seq /\ last.seq <= e.seq /\ e.seq \in Nat /\ last.seq \in Nat
    BY <1>1, <1>2, <1>3 DEF IInv, TypeOK
  <2> QED
    BY <1>1, <2>1 DEF IInv, LogIsOrdered
<1>4. LastEventOf(attempt) = CHOOSE e \in log : IsLast(e)
  BY DEF LastEventOf
<1>5. (CHOOSE e \in log : IsLast(e)) \in log /\ IsLast(CHOOSE e \in log : IsLast(e))
  <2> HIDE DEF IsLast, last
  <2> QED
    BY <1>1, <1>2
<1> QED
  BY <1>1, <1>3, <1>4, <1>5

\* Whatever attempt is interrupted wherever, what it delivered is there, and its
\* exit code, the statuses and its last event tell one story (worker.ts:36-99).
THEOREM OutcomeCorrect == Spec => []OutcomeSound
<1>1. IInv => OutcomeSound
  BY SuccessIsLast DEF IInv, OutcomeSound, EndsAgree, StatusInParts
<1> QED
  BY <1>1, Invariance, PTL

\* The worker and the engagements implement the append-only log of EventLog.
\* Every step appends an event at a free position or leaves the log alone
\* (seq-allocator.ts:14-40, dynamo-event-sink.ts:26-32).
LEMMA LogStep == [Next]_vars => [Log!Next]_log
<1> SUFFICES ASSUME [Next]_vars, log' # log
             PROVE  \E e \in log' : Log!Append(e)
  BY DEF Log!Next
<1>1. ASSUME NEW n, NEW by, NEW says, n \notin Positions, log' = log \union {Event(n, by, says)}
      PROVE  \E e \in log' : Log!Append(e)
  <2>1. Event(n, by, says).seq = n
    BY DEF Event
  <2>2. Log!Append(Event(n, by, says))
    BY <1>1, <2>1 DEF Log!Append, Positions
  <2> QED
    BY <1>1, <2>2
<1>2. ASSUME NEW n, NEW by, NEW says, NEW next, PutEvent(Event(n, by, says), next)
      PROVE  n \notin Positions /\ log' = log \union {Event(n, by, says)}
  BY <1>2 DEF PutEvent, Event
<1>3. CASE Execute
  <2>1. CASE StoreArtifact
    BY <1>1, <1>2, <2>1 DEF StoreArtifact
  <2>2. ASSUME NEW at, NEW status, NEW next, PutStatusEvent(at, status, next)
        PROVE  \E e \in log' : Log!Append(e)
    BY <1>1, <1>2, <2>2 DEF PutStatusEvent
  <2> QED
    BY <1>3, <2>1, <2>2 DEF Execute, LoadSeqAllocator, SetRunStatus, SetTaskStatus, RunHermes
<1>4. ASSUME NEW x \in Engagements, PutEngagement(x)
      PROVE  \E e \in log' : Log!Append(e)
  BY <1>1, <1>4 DEF PutEngagement
<1> QED
  BY <1>3, <1>4 DEF Next, StartTask, Kill, NextEventSeq, vars

THEOREM Implements == Spec => LogSpec
<1>1. Init => Log!Init
  BY DEF Init, Log!Init
<1> QED
  BY <1>1, LogStep, PTL DEF Spec, LogSpec, Log!Spec

-----------------------------------------------------------------------------
(***************************************************************************)
(* The pages.  What a request has been answered is judged against the      *)
(* tables as they are, and against what is selected: Env has both.         *)
(***************************************************************************)
Pages == BoardPages \cup {"chat"}
Env == [page |-> page, ws |-> workspace,
        sel |-> IF page = "chat" THEN chat.selected ELSE board.selected,
        runs |-> runs, approvals |-> approvals, profiles |-> profiles, mock |-> mock]

Kinds == {"none", "conversations", "refresh", "poll", "start", "create", "list", "detail",
          "listRuns", "listApprovals", "decide", "download", "draft", "approve", "fleet",
          "workshop", "inspect"}
Parts == {"items", "runs", "events", "artifacts", "surfaces", "runsOfItems", "approvals",
          "adminRuns", "profiles", "profile", "runEvents", "lineage", "fleet", "link", "write"}
Ids == Items \cup Profiles \cup RunIds \cup {None}
CallRecord ==
    [kind : Kinds, ws : Workspaces \cup {None}, id : Ids,
     arg : {"none", "detached", "submit", "approved", "rejected"},
     wanted : SUBSET Parts, ok : BOOLEAN, rows : SUBSET RowType, entries : SUBSET EntryType]
ChatRecord ==
    [items : SUBSET Items, loadingItems : BOOLEAN, creating : BOOLEAN,
     selected : Items \cup {None}, runs : SUBSET RowType, events : SUBSET EntryType,
     loading : BOOLEAN, submitting : BOOLEAN]
BoardRecord ==
    [rows : SUBSET RowType, loading : BOOLEAN, error : BOOLEAN, selected : Ids,
     detail : [rows : SUBSET RowType, entries : SUBSET EntryType], detailLoading : BOOLEAN,
     workshop : SUBSET RowType, fleet : {"none", "shown"}, busy : BOOLEAN, acting : Ids]

\* Which requests a page sends, and what each of them asks for.
KindsOf(pg) ==
    CASE pg = "chat" -> {"none", "conversations", "refresh", "poll", "start", "create"}
      [] pg = "work" -> {"none", "list", "detail", "create"}
      [] pg = "approvals" -> {"none", "list", "listRuns", "listApprovals", "decide"}
      [] pg = "artifacts" -> {"none", "list", "detail", "download"}
      [] pg = "agents" -> {"none", "list", "draft", "approve"}
      [] pg = "admin" -> {"none", "list", "fleet", "workshop", "detail", "draft", "approve", "inspect"}
PartsOf(pg, kind) ==
    CASE kind = "conversations" -> {"items"}
      [] kind = "refresh" -> {"runs", "events"}
      [] kind = "poll" -> {"runEvents"}
      [] kind \in {"start", "create", "decide", "draft", "approve"} -> {"write"}
      [] kind = "list" -> ListParts[pg]
      [] kind = "listRuns" -> {"runsOfItems"}
      [] kind = "listApprovals" -> {"approvals"}
      [] kind = "detail" -> DetailParts[pg]
      [] kind = "fleet" -> {"fleet"}
      [] kind = "workshop" -> {"profiles"}
      [] kind = "inspect" -> {"profile"}
      [] kind = "download" -> {"link"}
      [] kind = "none" -> {}

\* What is true of rows and entries that were answered at any time.
ItemRows(rows) == \A row \in rows : row.id \in Items /\ row.ws = Home[row.id]
RunRows(rows, e) ==
    \A row \in rows :
        /\ row.id \in DOMAIN e.runs /\ row.ws = Home[e.runs[row.id].item]
        /\ row.status = "succeeded" => e.runs[row.id].events = MaxEvents
ApprovalRows(rows, e) ==
    \A row \in rows :
        /\ row.id \in DOMAIN e.runs /\ row.ws = Home[e.runs[row.id].item]
        /\ row.status \in {"approved", "rejected"} => e.approvals[row.id] = row.status
ProfilesSound(rows, e) ==
    \A row \in rows :
        /\ row.id \in Profiles
        /\ row.status = "approved" /\ ~e.mock => e.profiles[row.id] = "approved"
RowsIn(rows, ws) == \A row \in rows : row.ws = ws
RowsOfItem(rows, e, item) == \A row \in rows : e.runs[row.id].item = item
EntryOfRun(entry, e) == entry[2] # 0 /\ entry[1] \in DOMAIN e.runs
EventsOfItem(entries, e, item) ==
    \A entry \in entries : EntryOfRun(entry, e) /\ e.runs[entry[1]].item = item
EntriesOfItem(entries, e, item) ==
    \A entry \in entries : \/ entry[2] = 0 /\ entry[1] = item
                           \/ EntryOfRun(entry, e) /\ e.runs[entry[1]].item = item
EntriesOfRun(entries, r) == \A entry \in entries : entry[1] = r

\* A request of its page, the answers it has, and what it was sent for.
CallShape(c, e) == c \in CallRecord /\ c.kind \in KindsOf(e.page) /\ c.wanted \subseteq PartsOf(e.page, c.kind)
ListTrue(c, e) ==
    /\ e.page \in Cancelling => ItemRows(c.rows) /\ RowsIn(c.rows, c.ws)
    /\ e.page = "agents" => ProfilesSound(c.rows, e)
    /\ e.page = "admin" => RunRows(c.rows, e)
DetailRead(c, e) ==
    IF e.page = "admin" THEN c.id \in DOMAIN e.runs /\ EntriesOfRun(c.entries, c.id)
    ELSE RunRows(c.rows, e) /\ RowsOfItem(c.rows, e, c.id) /\ EntriesOfItem(c.entries, e, c.id)
ApprovalsTrue(c, e) ==
    /\ RowsIn(c.rows, c.ws)
    /\ IF c.wanted = {} THEN ApprovalRows(c.rows, e) ELSE RunRows(c.rows, e)
CallTrue(c, e) ==
    /\ c.kind \in {"conversations", "create"} => ItemRows(c.rows)
    /\ c.kind = "list" => ListTrue(c, e)
    /\ c.kind = "refresh" =>
         RunRows(c.rows, e) /\ RowsOfItem(c.rows, e, c.id) /\ EventsOfItem(c.entries, e, c.id)
    /\ c.kind = "poll" =>
         /\ c.id \in DOMAIN e.runs /\ EntriesOfRun(c.entries, c.id)
         /\ \A entry \in c.entries : entry[2] # 0
    /\ c.kind = "detail" => DetailRead(c, e)
    /\ c.kind = "listRuns" /\ c.wanted = {} => RunRows(c.rows, e) /\ RowsIn(c.rows, c.ws)
    /\ c.kind = "listApprovals" => ApprovalsTrue(c, e)
    /\ c.kind = "decide" =>
         c.id \in DOMAIN e.runs /\ c.arg \in {"approved", "rejected"} /\ ApprovalRows(c.rows, e)
    /\ c.kind \in {"draft", "approve", "inspect", "workshop"} => ProfilesSound(c.rows, e)
    /\ c.kind \in {"draft", "approve"} => c.id \in Profiles
CallAimed(c, e) ==
    /\ c.kind \in {"refresh", "detail"} => c.id = e.sel
    /\ c.kind = "start" /\ c.arg # "detached" => c.id = e.sel
    /\ c.kind = "poll" => e.runs[c.id].item = e.sel
    /\ e.page \in Cancelling /\ c.kind \in ListKinds => c.ws = e.ws
CallOk(c, e) == CallShape(c, e) /\ CallTrue(c, e) /\ CallAimed(c, e)
CallsOk(cs, e) == cs \in [Slots -> CallRecord] /\ \A s \in Slots : CallOk(cs[s], e)

\* The conversation and the board.
ChatOk(v, e) ==
    /\ v \in ChatRecord
    /\ RunRows(v.runs, e) /\ RowsOfItem(v.runs, e, v.selected)
    /\ EventsOfItem(v.events, e, v.selected)
Sends(cs, kinds) == \E s \in Slots : cs[s].kind \in kinds
BoardRows(b, e) ==
    /\ e.page \in {"work", "artifacts"} => ItemRows(b.rows)
    /\ e.page = "approvals" => ApprovalRows(b.rows, e)
    /\ e.page = "agents" => ProfilesSound(b.rows, e)
    /\ e.page = "admin" => RunRows(b.rows, e) /\ ProfilesSound(b.workshop, e)
    /\ e.page \in {"approvals", "agents"} => b.detail.rows = {} /\ b.detail.entries = {}
DetailOf(d, e) ==
    IF e.page = "admin" THEN EntriesOfRun(d.entries, e.sel)
    ELSE RunRows(d.rows, e) /\ RowsOfItem(d.rows, e, e.sel) /\ EntriesOfItem(d.entries, e, e.sel)
DetailOk(b, cs, e) == Sends(cs, {"detail"}) \/ DetailOf(b.detail, e)
ListOk(b, cs, e) ==
    e.page \in Cancelling => RowsIn(b.rows, e.ws) \/ Sends(cs, ListKinds) \/ b.error
BoardOk(b, cs, e) ==
    b \in BoardRecord /\ BoardRows(b, e) /\ DetailOk(b, cs, e) /\ ListOk(b, cs, e)

TablesTrue ==
    /\ mock \in BOOLEAN
    /\ existing \subseteq Items /\ surfaced \subseteq existing
    /\ runs \in Seq(RunType) /\ Len(runs) <= MaxRuns
    /\ \A r \in DOMAIN runs : runs[r].row = "succeeded" => runs[r].events = MaxEvents
    /\ approvals \in [RunIds -> {"none", "requested", "approved", "rejected"}]
    /\ profiles \in [Profiles -> {"none", "draft", "approved"}]

PagesInv ==
    /\ TablesTrue /\ workspace \in Workspaces /\ clicks \in 0..MaxClicks /\ page \in Pages
    /\ CallsOk(calls, Env)
    /\ IF page = "chat" THEN ChatOk(chat, Env) /\ board = EmptyBoard
                        ELSE BoardOk(board, calls, Env) /\ chat = NoChat

-----------------------------------------------------------------------------
\* The invariant says what the runs check.
LEMMA PagesInvImplies == PagesInv => ShowsSelection /\ ShowsFacts
<1> SUFFICES ASSUME PagesInv PROVE ShowsSelection /\ ShowsFacts
  OBVIOUS
<1> DEFINE e == Env
<1>0. /\ e.page = page /\ e.ws = workspace /\ e.runs = runs /\ e.approvals = approvals
      /\ e.profiles = profiles /\ e.mock = mock
      /\ e.sel = IF page = "chat" THEN chat.selected ELSE board.selected
  BY DEF Env
<1>1. /\ calls \in [Slots -> CallRecord]
      /\ \A s \in Slots : calls[s].rows \subseteq RowType /\ calls[s].entries \subseteq EntryType
  BY DEF PagesInv, CallsOk, CallRecord
<1>2. ApiType
  BY <1>1 DEF PagesInv, TablesTrue, ApiType, Pages
<1>3. CASE page = "chat"
  <2> HIDE DEF e
  <2>1. ChatOk(chat, e) /\ board = EmptyBoard /\ e.sel = chat.selected
    BY <1>0, <1>3 DEF PagesInv, e
  <2>2. ChatType /\ ChatOfItem /\ EndIsReal
    BY <2>1, <1>0 DEF ChatOk, ChatRecord, ChatType, ChatOfItem, EndIsReal, RunRows, RowsOfItem,
                      EventsOfItem, EntryOfRun, IsTerminal
  <2>3. BoardType
    BY <2>1 DEF EmptyBoard, BoardType
  <2>4. BoardOfWorkspace /\ DetailOfSelection /\ DecisionsAreMade
    BY <2>1, <1>3 DEF BoardOfWorkspace, DetailOfSelection, DecisionsAreMade, EmptyBoard, Cancelling
  <2> QED
    BY <1>2, <2>2, <2>3, <2>4, <1>3 DEF ShowsSelection, ShowsFacts, PagesTypeOK
<1>4. CASE page # "chat"
  <2> HIDE DEF e
  <2>1. BoardOk(board, calls, e) /\ chat = NoChat /\ page \in BoardPages /\ e.sel = board.selected
    BY <1>0, <1>4 DEF PagesInv, e, Pages
  <2>2. ChatType /\ ChatOfItem /\ EndIsReal
    BY <2>1 DEF NoChat, ChatType, ChatOfItem, EndIsReal
  <2>3. BoardType
    BY <2>1 DEF BoardOk, BoardRecord, BoardType, Ids
  <2>4. BoardOfWorkspace
    BY <2>1, <1>0 DEF BoardOk, ListOk, BoardOfWorkspace, RowsIn, Sends, Loading
  <2>5. DetailOfSelection
    BY <2>1, <1>0 DEF BoardOk, DetailOk, DetailOf, DetailOfSelection, RowsOfItem, EntriesOfItem,
                      EntriesOfRun, EntryOfRun, Sends, Loading
  <2>6. DecisionsAreMade
    BY <2>1, <1>0 DEF BoardOk, BoardRows, DecisionsAreMade, ApprovalRows, ProfilesSound, ProfileRows
  <2> QED
    BY <1>2, <2>1, <2>2, <2>3, <2>4, <2>5, <2>6 DEF ShowsSelection, ShowsFacts, PagesTypeOK
<1> QED
  BY <1>3, <1>4
-----------------------------------------------------------------------------
(***************************************************************************)
(* The tables.  Runs are only added and end only once, and decisions are   *)
(* final, so what was answered stays true.                                 *)
(***************************************************************************)
TablesGrow(e, f) ==
    /\ DOMAIN e.runs \subseteq DOMAIN f.runs
    /\ \A r \in DOMAIN e.runs :
         /\ f.runs[r].item = e.runs[r].item
         /\ e.runs[r].events = MaxEvents => f.runs[r].events = MaxEvents
         /\ e.approvals[r] \in {"approved", "rejected"} => f.approvals[r] = e.approvals[r]
    /\ ~e.mock => \A p \in Profiles : e.profiles[p] = "approved" => f.profiles[p] = "approved"
    /\ f.mock = e.mock /\ f.page = e.page
SameTables(e, f) ==
    /\ f.runs = e.runs /\ f.approvals = e.approvals /\ f.profiles = e.profiles
    /\ f.mock = e.mock /\ f.page = e.page

LEMMA SameGrow ==
    ASSUME NEW e, NEW f, SameTables(e, f)
    PROVE  TablesGrow(e, f)
BY DEF SameTables, TablesGrow

LEMMA RowsGrow ==
    ASSUME NEW e, NEW f, TablesGrow(e, f)
    PROVE  /\ \A rows : RunRows(rows, e) => RunRows(rows, f)
           /\ \A rows : ApprovalRows(rows, e) => ApprovalRows(rows, f)
           /\ \A rows : ProfilesSound(rows, e) => ProfilesSound(rows, f)
           /\ \A rows, item : RunRows(rows, e) /\ RowsOfItem(rows, e, item) => RowsOfItem(rows, f, item)
           /\ \A entries, item : EventsOfItem(entries, e, item) => EventsOfItem(entries, f, item)
           /\ \A entries, item : EntriesOfItem(entries, e, item) => EntriesOfItem(entries, f, item)
<1>1. \A rows : RunRows(rows, e) => RunRows(rows, f)
  BY DEF TablesGrow, RunRows
<1>2. \A rows : ApprovalRows(rows, e) => ApprovalRows(rows, f)
  BY DEF TablesGrow, ApprovalRows
<1>3. \A rows : ProfilesSound(rows, e) => ProfilesSound(rows, f)
  BY DEF TablesGrow, ProfilesSound
<1>4. \A rows, item : RunRows(rows, e) /\ RowsOfItem(rows, e, item) => RowsOfItem(rows, f, item)
  BY DEF TablesGrow, RunRows, RowsOfItem
<1>5. \A entries, item : EventsOfItem(entries, e, item) => EventsOfItem(entries, f, item)
  BY DEF TablesGrow, EventsOfItem, EntryOfRun
<1>6. \A entries, item : EntriesOfItem(entries, e, item) => EntriesOfItem(entries, f, item)
  BY DEF TablesGrow, EntriesOfItem, EntryOfRun
<1> QED
  BY <1>1, <1>2, <1>3, <1>4, <1>5, <1>6

LEMMA CallGrows ==
    ASSUME NEW e, NEW f, TablesGrow(e, f), NEW c, CallTrue(c, e)
    PROVE  CallTrue(c, f)
<1>0. f.page = e.page /\ DOMAIN e.runs \subseteq DOMAIN f.runs
  BY DEF TablesGrow
<1>1. c.kind = "list" => ListTrue(c, f)
  BY <1>0, RowsGrow DEF CallTrue, ListTrue
<1>2. c.kind = "refresh" =>
        RunRows(c.rows, f) /\ RowsOfItem(c.rows, f, c.id) /\ EventsOfItem(c.entries, f, c.id)
  BY RowsGrow DEF CallTrue
<1>3. c.kind = "detail" => DetailRead(c, f)
  BY <1>0, RowsGrow DEF CallTrue, DetailRead
<1>4. c.kind = "listRuns" /\ c.wanted = {} => RunRows(c.rows, f)
  BY RowsGrow DEF CallTrue
<1>5. c.kind = "listApprovals" => ApprovalsTrue(c, f)
  BY RowsGrow DEF CallTrue, ApprovalsTrue
<1>6. c.kind = "decide" => ApprovalRows(c.rows, f)
  BY RowsGrow DEF CallTrue
<1>7. c.kind \in {"draft", "approve", "inspect", "workshop"} => ProfilesSound(c.rows, f)
  BY RowsGrow DEF CallTrue
<1> QED
  BY <1>0, <1>1, <1>2, <1>3, <1>4, <1>5, <1>6, <1>7 DEF CallTrue

\* Requests under other tables, or when another row is selected.
LEMMA CallsGrow ==
    ASSUME NEW e, NEW f, TablesGrow(e, f), NEW cs, CallsOk(cs, e),
           \A s \in Slots : CallAimed(cs[s], f)
    PROVE  CallsOk(cs, f)
<1>0. f.page = e.page
  BY DEF TablesGrow
<1>1. \A s \in Slots : CallTrue(cs[s], f)
  BY CallGrows DEF CallsOk, CallOk
<1> QED
  BY <1>0, <1>1 DEF CallsOk, CallOk, CallShape

LEMMA AimsGrow ==
    ASSUME NEW e, NEW f, TablesGrow(e, f), f.sel = e.sel, f.ws = e.ws,
           NEW c, CallTrue(c, e), CallAimed(c, e)
    PROVE  CallAimed(c, f)
BY DEF TablesGrow, CallTrue, CallAimed

LEMMA ViewsGrow ==
    ASSUME NEW e, NEW f, TablesGrow(e, f), f.sel = e.sel, f.ws = e.ws,
           NEW cs, CallsOk(cs, e)
    PROVE  /\ CallsOk(cs, f)
           /\ \A v : ChatOk(v, e) => ChatOk(v, f)
           /\ \A b : BoardOk(b, cs, e) => BoardOk(b, cs, f)
<1>0. f.page = e.page
  BY DEF TablesGrow
<1>1. CallsOk(cs, f)
  BY CallsGrow, AimsGrow DEF CallsOk, CallOk
<1>2. \A v : ChatOk(v, e) => ChatOk(v, f)
  BY RowsGrow DEF ChatOk
<1>3. ASSUME NEW b, BoardOk(b, cs, e) PROVE BoardOk(b, cs, f)
  <2>1. BoardRows(b, f)
    BY <1>0, <1>3, RowsGrow DEF BoardOk, BoardRows
  <2>2. DetailOk(b, cs, f)
    BY <1>0, <1>3, RowsGrow DEF BoardOk, DetailOk, DetailOf
  <2> QED
    BY <1>0, <1>3, <2>1, <2>2 DEF BoardOk, ListOk
<1> QED
  BY <1>1, <1>2, <1>3
-----------------------------------------------------------------------------
\* What the server does.
LEMMA RunFacts ==
    ASSUME TablesTrue
    PROVE  /\ Len(runs) \in Nat /\ DOMAIN runs = 1..Len(runs) /\ DOMAIN runs \subseteq RunIds
           /\ \A r \in DOMAIN runs :
                /\ runs[r] \in RunType /\ runs[r].item \in Items /\ runs[r].events \in 1..MaxEvents
                /\ Home[runs[r].item] \in Workspaces
           /\ MaxEvents \in Nat /\ MaxEvents >= 3 /\ MaxRuns \in Nat
<1>1. MaxEvents \in Nat /\ MaxEvents >= 3 /\ MaxRuns \in Nat
  BY ControlApiAssumption
<1>2. runs \in Seq(RunType) /\ Len(runs) <= MaxRuns
  BY DEF TablesTrue
<1>3. Len(runs) \in Nat /\ DOMAIN runs = 1..Len(runs) /\ DOMAIN runs \subseteq RunIds
  BY <1>1, <1>2 DEF RunIds
<1>4. \A r \in DOMAIN runs : runs[r] \in RunType
  BY <1>2
<1>5. \A r \in DOMAIN runs : runs[r].item \in Items /\ runs[r].events \in 1..MaxEvents
  BY <1>4 DEF RunType
<1>6. \A r \in DOMAIN runs : Home[runs[r].item] \in Workspaces
  BY <1>5, ControlApiAssumption
<1> QED
  BY <1>1, <1>3, <1>4, <1>5, <1>6

LEMMA StatusFacts ==
    ASSUME NEW n \in 1..MaxEvents
    PROVE  /\ StatusAt(n) \in {"queued", "running", "succeeded"}
           /\ StatusAt(n) = "succeeded" => n = MaxEvents
BY ControlApiAssumption DEF StatusAt

LEMMA RunUpdated ==
    ASSUME TablesTrue, NEW r \in DOMAIN runs, NEW x \in RunType,
           x.item = runs[r].item, runs[r].events = MaxEvents => x.events = MaxEvents,
           x.row = "succeeded" => x.events = MaxEvents,
           runs' = [runs EXCEPT ![r] = x],
           UNCHANGED <<mock, existing, surfaced, approvals, profiles, page>>
    PROVE  TablesTrue' /\ TablesGrow(Env, Env')
<1> PICK q : q = [runs EXCEPT ![r] = x]
  OBVIOUS
<1>1. runs \in Seq(RunType)
  BY DEF TablesTrue
<1>2. q \in Seq(RunType) /\ Len(q) = Len(runs) /\ DOMAIN q = DOMAIN runs
  BY <1>1
<1>3. \A k \in DOMAIN q : q[k] = IF k = r THEN x ELSE runs[k]
  BY <1>1
<1>4. runs' = q
  OBVIOUS
<1>5. TablesTrue'
  BY <1>2, <1>3, <1>4 DEF TablesTrue
<1>6. /\ Env.runs = runs /\ Env'.runs = q /\ Env'.approvals = Env.approvals
      /\ Env'.profiles = Env.profiles /\ Env'.mock = Env.mock /\ Env'.page = Env.page
  BY <1>4 DEF Env
<1>7. TablesGrow(Env, Env')
  BY <1>2, <1>3, <1>6 DEF TablesGrow
<1> QED
  BY <1>5, <1>7

LEMMA RunStepKeeps ==
    ASSUME TablesTrue, NEW r \in DOMAIN runs, RunStep(r), UNCHANGED page
    PROVE  TablesTrue' /\ TablesGrow(Env, Env')
<1>0. /\ runs[r] \in RunType /\ runs[r].events \in 1..MaxEvents /\ MaxEvents \in Nat
      /\ runs[r].row = "succeeded" => runs[r].events = MaxEvents
  BY RunFacts DEF TablesTrue
<1>1. CASE Progress(r)
  <2> PICK n : n = runs[r].events + 1
    OBVIOUS
  <2> PICK x : x = [runs[r] EXCEPT !.events = n, !.row = IF mock THEN StatusAt(n) ELSE @]
    OBVIOUS
  <2>1. /\ n \in 1..MaxEvents /\ runs[r].events # MaxEvents
        /\ UNCHANGED <<mock, existing, surfaced, approvals, profiles>>
    BY <1>0, <1>1 DEF Progress
  <2>4. runs' = [runs EXCEPT ![r] = x]
    BY <1>1 DEF Progress
  <2>2. x \in RunType /\ x.item = runs[r].item /\ x.events = n
    BY <1>0, <2>1, StatusFacts DEF RunType
  <2>3. x.row = "succeeded" => x.events = MaxEvents
    BY <1>0, <2>1, <2>2, StatusFacts DEF RunType
  <2> QED
    BY <2>1, <2>2, <2>3, <2>4, RunUpdated
<1>2. CASE UpdateRow(r)
  <2> PICK x : x = [runs[r] EXCEPT !.row = StatusAt(runs[r].events)]
    OBVIOUS
  <2>1. runs' = [runs EXCEPT ![r] = x] /\ UNCHANGED <<mock, existing, surfaced, approvals, profiles>>
    BY <1>2 DEF UpdateRow
  <2>2. x \in RunType /\ x.item = runs[r].item /\ x.events = runs[r].events
    BY <1>0, StatusFacts DEF RunType
  <2>3. x.row = "succeeded" => x.events = MaxEvents
    BY <1>0, <2>2, StatusFacts DEF RunType
  <2> QED
    BY <2>1, <2>2, <2>3, RunUpdated
<1>3. CASE IndexRun(r)
  <2> PICK x : x = [runs[r] EXCEPT !.listed = TRUE]
    OBVIOUS
  <2>1. runs' = [runs EXCEPT ![r] = x] /\ UNCHANGED <<mock, existing, surfaced, approvals, profiles>>
    BY <1>3 DEF IndexRun
  <2>2. x \in RunType /\ x.item = runs[r].item /\ x.events = runs[r].events /\ x.row = runs[r].row
    BY <1>0 DEF RunType
  <2> QED
    BY <1>0, <2>1, <2>2, RunUpdated
<1> QED
  BY <1>1, <1>2, <1>3 DEF RunStep

LEMMA StartKeeps ==
    ASSUME TablesTrue, NEW ws, NEW item, StartWorkItemRun(ws, item), UNCHANGED page
    PROVE  TablesTrue' /\ TablesGrow(Env, Env')
<1> PICK x : x = [item |-> item, events |-> 1, row |-> "queued", listed |-> mock]
  OBVIOUS
<1> PICK q : q = Append(runs, x)
  OBVIOUS
<1>0. Len(runs) < MaxRuns /\ runs' = q /\ UNCHANGED <<mock, existing, surfaced, approvals, profiles>>
  BY DEF StartWorkItemRun
<1>1. runs \in Seq(RunType) /\ Len(runs) \in Nat /\ MaxRuns \in Nat
  BY RunFacts DEF TablesTrue
<1>2. x \in RunType /\ x.row = "queued"
  <2>1. item \in Items /\ mock \in BOOLEAN /\ 1 \in 1..MaxEvents
    BY RunFacts DEF TablesTrue, StartWorkItemRun
  <2> QED
    BY <2>1 DEF RunType
<1>3. q \in Seq(RunType) /\ Len(q) = Len(runs) + 1 /\ DOMAIN q = 1..(Len(runs) + 1)
  BY <1>1, <1>2
<1>4. /\ \A k \in 1..Len(runs) : q[k] = runs[k]
      /\ q[Len(runs) + 1] = x
  BY <1>1, <1>2
<1>5. \A k \in DOMAIN q : k \in DOMAIN runs \/ q[k] = x
  BY <1>1, <1>3, <1>4
<1>6. DOMAIN runs \subseteq DOMAIN q /\ \A k \in DOMAIN runs : q[k] = runs[k]
  BY <1>1, <1>3, <1>4
<1>7. TablesTrue'
  BY <1>0, <1>1, <1>2, <1>3, <1>5, <1>6 DEF TablesTrue
<1>8. /\ Env.runs = runs /\ Env'.runs = q /\ Env'.approvals = Env.approvals
      /\ Env'.profiles = Env.profiles /\ Env'.mock = Env.mock /\ Env'.page = Env.page
  BY <1>0 DEF Env
<1>9. TablesGrow(Env, Env')
  BY <1>6, <1>8 DEF TablesGrow
<1> QED
  BY <1>7, <1>9

LEMMA ApprovalKeeps ==
    ASSUME TablesTrue, NEW r \in DOMAIN runs, NEW d \in {"requested", "approved", "rejected"},
           approvals[r] \notin {"approved", "rejected"}, approvals' = [approvals EXCEPT ![r] = d],
           UNCHANGED <<mock, existing, surfaced, runs, profiles, page>>
    PROVE  TablesTrue' /\ TablesGrow(Env, Env') /\ approvals'[r] = d
<1>0. r \in RunIds /\ DOMAIN runs \subseteq RunIds
  BY RunFacts
<1>1. approvals \in [RunIds -> {"none", "requested", "approved", "rejected"}]
  BY DEF TablesTrue
<1>2. TablesTrue' /\ approvals'[r] = d
  BY <1>0, <1>1 DEF TablesTrue
<1>3. \A k \in DOMAIN runs : approvals[k] \in {"approved", "rejected"} => approvals'[k] = approvals[k]
  BY <1>0, <1>1
<1>4. TablesGrow(Env, Env')
  BY <1>3 DEF Env, TablesGrow
<1> QED
  BY <1>2, <1>4

LEMMA ItemKeeps ==
    ASSUME TablesTrue, UNCHANGED <<mock, runs, approvals, profiles, page>>,
           existing' \subseteq Items, surfaced' \subseteq existing'
    PROVE  TablesTrue' /\ TablesGrow(Env, Env')
<1>1. TablesTrue'
  BY DEF TablesTrue
<1>2. TablesGrow(Env, Env')
  BY DEF Env, TablesGrow
<1> QED
  BY <1>1, <1>2

LEMMA ProfileKeeps ==
    ASSUME TablesTrue, NEW p \in Profiles, NEW d \in {"draft", "approved"},
           d = "approved" \/ mock \/ profiles[p] = "none",
           profiles' = [profiles EXCEPT ![p] = d],
           UNCHANGED <<mock, existing, surfaced, runs, approvals, page>>
    PROVE  TablesTrue' /\ TablesGrow(Env, Env') /\ profiles'[p] = d
<1>1. profiles \in [Profiles -> {"none", "draft", "approved"}]
  BY DEF TablesTrue
<1>2. TablesTrue' /\ profiles'[p] = d
  BY <1>1 DEF TablesTrue
<1>3. ~mock => \A k \in Profiles : profiles[k] = "approved" => profiles'[k] = "approved"
  BY <1>1
<1>4. TablesGrow(Env, Env')
  BY <1>3 DEF Env, TablesGrow
<1> QED
  BY <1>2, <1>4

LEMMA ServerStepKeeps ==
    ASSUME TablesTrue, ServerStep, UNCHANGED page
    PROVE  TablesTrue' /\ TablesGrow(Env, Env')
<1>1. ASSUME NEW r \in DOMAIN runs, RunStep(r)
      PROVE  TablesTrue' /\ TablesGrow(Env, Env')
  BY <1>1, RunStepKeeps
<1>2. ASSUME NEW r \in DOMAIN runs, RequestApproval(r)
      PROVE  TablesTrue' /\ TablesGrow(Env, Env')
  BY <1>2, ApprovalKeeps DEF RequestApproval
<1>3. ASSUME NEW r \in DOMAIN runs, NEW d \in {"approved", "rejected"}, DecideApproval(r, d)
      PROVE  TablesTrue' /\ TablesGrow(Env, Env')
  BY <1>3, ApprovalKeeps DEF DecideApproval
<1>4. ASSUME NEW i \in existing, PublishSurface(i)
      PROVE  TablesTrue' /\ TablesGrow(Env, Env')
  BY <1>4, ItemKeeps DEF PublishSurface, TablesTrue
<1>5. ASSUME NEW i \in existing, StartWorkItemRun(Home[i], i)
      PROVE  TablesTrue' /\ TablesGrow(Env, Env')
  BY <1>5, StartKeeps
<1> QED
  BY <1>1, <1>2, <1>3, <1>4, <1>5 DEF ServerStep
-----------------------------------------------------------------------------
(***************************************************************************)
(* What requests are answered.                                             *)
(***************************************************************************)
LEMMA EnvFields ==
    /\ Env.page = page /\ Env.ws = workspace /\ Env.runs = runs /\ Env.approvals = approvals
    /\ Env.profiles = profiles /\ Env.mock = mock
    /\ Env.sel = IF page = "chat" THEN chat.selected ELSE board.selected
BY DEF Env

LEMMA RunRowFacts ==
    ASSUME TablesTrue, NEW r \in DOMAIN runs
    PROVE  /\ RunRow(r) \in RowType /\ RunRow(r).id = r
           /\ RunRow(r).ws = Home[runs[r].item]
           /\ RunRow(r).status = "succeeded" => runs[r].events = MaxEvents
<1>1. r \in RunIds /\ Home[runs[r].item] \in Workspaces /\ runs[r] \in RunType
  BY RunFacts
<1>2. runs[r].row \in {"queued", "running", "succeeded"}
  BY <1>1 DEF RunType
<1> QED
  BY <1>1, <1>2 DEF RunRow, RowType, TablesTrue

LEMMA RunsAnswered ==
    ASSUME TablesTrue, NEW ws, NEW item
    PROVE  /\ ListWorkItemRuns(ws, item) \subseteq RowType
           /\ RunRows(ListWorkItemRuns(ws, item), Env)
           /\ RowsIn(ListWorkItemRuns(ws, item), ws)
           /\ RowsOfItem(ListWorkItemRuns(ws, item), Env, item)
<1>1. \A row \in ListWorkItemRuns(ws, item) :
        \E r \in DOMAIN runs : row = RunRow(r) /\ runs[r].item = item /\ Home[item] = ws
  BY DEF ListWorkItemRuns, RunsOf
<1> QED
  BY <1>1, RunRowFacts, EnvFields DEF RunRows, RowsIn, RowsOfItem

LEMMA ApprovalsAnswered ==
    ASSUME TablesTrue, NEW r \in DOMAIN runs
    PROVE  /\ ListRunApprovals(r) \subseteq RowType
           /\ ApprovalRows(ListRunApprovals(r), Env)
           /\ \A row \in ListRunApprovals(r) : row.ws = Home[runs[r].item]
<1>1. r \in RunIds /\ Home[runs[r].item] \in Workspaces
  BY RunFacts
<1>2. approvals[r] \in {"none", "requested", "approved", "rejected"}
  BY <1>1 DEF TablesTrue
<1>3. \A row \in ListRunApprovals(r) : row = ApprovalRow(r) /\ approvals[r] # "none"
  BY DEF ListRunApprovals
<1>4. approvals[r] # "none" => ApprovalRow(r) \in RowType
  BY <1>1, <1>2 DEF ApprovalRow, RowType
<1> QED
  BY <1>3, <1>4, EnvFields DEF ApprovalRow, ApprovalRows

LEMMA ProfilesAnswered ==
    ASSUME TablesTrue, NEW ws
    PROVE  /\ ListAgentProfiles(ws) \subseteq RowType
           /\ ProfilesSound(ListAgentProfiles(ws), Env)
<1>1. \A row \in ListAgentProfiles(ws) :
        \E p \in Profiles : row = ProfileRow(p) /\ profiles[p] # "none"
  BY DEF ListAgentProfiles
<1>2. ASSUME NEW p \in Profiles, profiles[p] # "none"
      PROVE  ProfileRow(p) \in RowType
  <2>1. profiles[p] \in {"draft", "approved"} /\ Home[p] \in Workspaces
    BY <1>2, ControlApiAssumption DEF TablesTrue
  <2> QED
    BY <2>1 DEF ProfileRow, RowType
<1>3. \A p \in Profiles : ProfileRow(p).id = p /\ ProfileRow(p).status = profiles[p]
  BY DEF ProfileRow
<1> QED
  BY <1>1, <1>2, <1>3, EnvFields DEF ProfilesSound

LEMMA ItemsAnswered ==
    ASSUME TablesTrue, NEW ws
    PROVE  /\ ListWorkItems(ws) \subseteq RowType
           /\ ItemRows(ListWorkItems(ws)) /\ RowsIn(ListWorkItems(ws), ws)
<1>1. \A row \in ListWorkItems(ws) : \E i \in Items : row = ItemRow(i) /\ Home[i] = ws
  BY DEF ListWorkItems, TablesTrue
<1>2. \A i \in Items : ItemRow(i) \in RowType /\ ItemRow(i).id = i /\ ItemRow(i).ws = Home[i]
  BY ControlApiAssumption DEF ItemRow, RowType
<1> QED
  BY <1>1, <1>2 DEF ItemRows, RowsIn

\* Every part that lists rows.
LEMMA RowsAnswered ==
    ASSUME TablesTrue, NEW c, NEW part
    PROVE  /\ part # "approvals" \/ RunRows(c.rows, Env) => Rows(part, c) \subseteq RowType
           /\ part = "items" => ItemRows(Rows(part, c)) /\ RowsIn(Rows(part, c), c.ws)
           /\ part = "runs" => RunRows(Rows(part, c), Env) /\ RowsOfItem(Rows(part, c), Env, c.id)
           /\ part = "runsOfItems" => RunRows(Rows(part, c), Env) /\ RowsIn(Rows(part, c), c.ws)
           /\ part = "approvals" /\ RunRows(c.rows, Env) /\ RowsIn(c.rows, c.ws) =>
                ApprovalRows(Rows(part, c), Env) /\ RowsIn(Rows(part, c), c.ws)
           /\ part = "adminRuns" => RunRows(Rows(part, c), Env)
           /\ part \in {"profiles", "profile"} => ProfilesSound(Rows(part, c), Env)
<1>1. CASE part = "items"
  BY <1>1, ItemsAnswered DEF Rows
<1>2. CASE part = "runs"
  BY <1>2, RunsAnswered DEF Rows
<1>3. CASE part = "runsOfItems"
  <2>1. Rows(part, c) = UNION {ListWorkItemRuns(c.ws, row.id) : row \in c.rows}
    BY <1>3 DEF Rows
  <2>2. \A x \in Rows(part, c) : \E row \in c.rows : x \in ListWorkItemRuns(c.ws, row.id)
    BY <2>1
  <2>3. Rows(part, c) \subseteq RowType
    BY <2>2, RunsAnswered
  <2>4. RunRows(Rows(part, c), Env)
    BY <2>2, RunsAnswered DEF RunRows
  <2>5. RowsIn(Rows(part, c), c.ws)
    BY <2>2, RunsAnswered DEF RowsIn
  <2> QED
    BY <1>3, <2>3, <2>4, <2>5
<1>4. CASE part = "approvals"
  <2> SUFFICES ASSUME RunRows(c.rows, Env)
               PROVE  /\ Rows(part, c) \subseteq RowType
                      /\ ApprovalRows(Rows(part, c), Env)
                      /\ RowsIn(c.rows, c.ws) => RowsIn(Rows(part, c), c.ws)
    BY <1>4
  <2>1. Rows(part, c) = UNION {ListRunApprovals(row.id) : row \in c.rows}
    BY <1>4 DEF Rows
  <2>2. \A x \in Rows(part, c) : \E row \in c.rows : x \in ListRunApprovals(row.id)
    BY <2>1
  <2>3. \A row \in c.rows : row.id \in DOMAIN runs /\ row.ws = Home[runs[row.id].item]
    BY EnvFields DEF RunRows
  <2>4. Rows(part, c) \subseteq RowType
    BY <2>2, <2>3, ApprovalsAnswered
  <2>5. ApprovalRows(Rows(part, c), Env)
    BY <2>2, <2>3, ApprovalsAnswered DEF ApprovalRows
  <2>6. RowsIn(c.rows, c.ws) => RowsIn(Rows(part, c), c.ws)
    BY <2>2, <2>3, ApprovalsAnswered DEF RowsIn
  <2> QED
    BY <2>4, <2>5, <2>6
<1>5. CASE part = "adminRuns"
  <2>1. \A x \in Rows(part, c) : \E r \in DOMAIN runs : x = RunRow(r)
    BY <1>5 DEF Rows, ListAdminRuns
  <2>2. Rows(part, c) \subseteq RowType
    BY <2>1, RunRowFacts
  <2>3. RunRows(Rows(part, c), Env)
    BY <2>1, RunRowFacts, EnvFields DEF RunRows
  <2> QED
    BY <1>5, <2>2, <2>3
<1>6. CASE part = "profiles"
  BY <1>6, ProfilesAnswered DEF Rows
<1>7. CASE part = "profile"
  <2>1. Rows(part, c) \subseteq ListAgentProfiles(c.ws)
    BY <1>7 DEF Rows, GetAgentProfile
  <2>2. Rows(part, c) \subseteq RowType
    BY <2>1, ProfilesAnswered
  <2>3. ProfilesSound(Rows(part, c), Env)
    BY <2>1, ProfilesAnswered DEF ProfilesSound
  <2> QED
    BY <1>7, <2>2, <2>3
<1>8. CASE part \notin {"items", "runs", "runsOfItems", "approvals", "adminRuns", "profiles", "profile"}
  BY <1>8 DEF Rows
<1> QED
  BY <1>1, <1>2, <1>3, <1>4, <1>5, <1>6, <1>7, <1>8

\* Every part that lists events, artifacts and surfaces.
LEMMA EntriesAnswered ==
    ASSUME TablesTrue, NEW c, NEW part, part \in {"runEvents", "lineage"} => c.id \in DOMAIN runs
    PROVE  /\ Entries(part, c) \subseteq EntryType
           /\ part = "events" => EventsOfItem(Entries(part, c), Env, c.id)
           /\ part \in {"artifacts", "surfaces"} => EntriesOfItem(Entries(part, c), Env, c.id)
           /\ part \in {"runEvents", "lineage"} =>
                EntriesOfRun(Entries(part, c), c.id) /\ \A entry \in Entries(part, c) : entry[2] # 0
<1> DEFINE es == Entries(part, c)
<1>0. /\ DOMAIN runs \subseteq RunIds /\ MaxEvents \in Nat /\ MaxEvents >= 3
      /\ \A r \in DOMAIN runs : runs[r].events \in 1..MaxEvents
  BY RunFacts
<1>1. CASE part = "events"
  <2>1. \A x \in es : \E r \in DOMAIN runs :
          runs[r].item = c.id /\ x \in {r} \X (1..runs[r].events)
    BY <1>1 DEF Entries, ListWorkItemEvents, RunsOf
  <2>2. \A x \in es : \E r \in DOMAIN runs : \E n \in 1..MaxEvents :
          runs[r].item = c.id /\ x = <<r, n>>
    BY <2>1, <1>0
  <2>3. es \subseteq EntryType
    BY <2>2, <1>0 DEF EntryType
  <2>4. EventsOfItem(es, Env, c.id)
    BY <2>2, EnvFields DEF EventsOfItem, EntryOfRun
  <2> QED
    BY <1>1, <2>3, <2>4
<1>2. CASE part = "artifacts"
  <2>1. \A x \in es : \E r \in DOMAIN runs : runs[r].item = c.id /\ x = <<r, ArtifactSeq>>
    BY <1>2 DEF Entries, ListWorkItemArtifacts, RunsOf
  <2>2. ArtifactSeq \in 1..MaxEvents
    BY <1>0 DEF ArtifactSeq
  <2>3. es \subseteq EntryType
    BY <2>1, <2>2, <1>0 DEF EntryType
  <2>4. EntriesOfItem(es, Env, c.id)
    BY <2>1, <2>2, EnvFields DEF EntriesOfItem, EntryOfRun
  <2> QED
    BY <1>2, <2>3, <2>4
<1>3. CASE part = "surfaces"
  <2>1. \A x \in es : x = <<c.id, 0>> /\ c.id \in Items
    BY <1>3 DEF Entries, ListWorkItemSurfaces, TablesTrue
  <2>2. es \subseteq EntryType
    BY <2>1, <1>0 DEF EntryType
  <2>3. EntriesOfItem(es, Env, c.id)
    BY <2>1 DEF EntriesOfItem
  <2> QED
    BY <1>3, <2>2, <2>3
<1>4. CASE part \in {"runEvents", "lineage"}
  <2>1. \A x \in es : \E n \in 1..runs[c.id].events : x = <<c.id, n>>
    BY <1>4 DEF Entries, ListRunEvents, ListAdminRunEvents
  <2>2. \A x \in es : \E n \in 1..MaxEvents : x = <<c.id, n>>
    BY <2>1, <1>0, <1>4
  <2>3. es \subseteq EntryType
    BY <2>2, <1>0, <1>4 DEF EntryType
  <2>4. EntriesOfRun(es, c.id) /\ \A entry \in es : entry[2] # 0
    BY <2>2 DEF EntriesOfRun
  <2> QED
    BY <1>4, <2>3, <2>4
<1>5. CASE part \notin {"events", "artifacts", "surfaces", "runEvents", "lineage"}
  BY <1>5 DEF Entries
<1> QED
  BY <1>1, <1>2, <1>3, <1>4, <1>5
LEMMA AnsweredFields ==
    ASSUME NEW c \in CallRecord, NEW parts, NEW lost,
           parts \in SUBSET Parts, NEW a, a = Answered(c, parts, lost),
           \A part \in parts : Rows(part, c) \subseteq RowType,
           \A part \in parts : Entries(part, c) \subseteq EntryType
    PROVE  /\ a \in CallRecord
           /\ a.kind = c.kind /\ a.ws = c.ws /\ a.id = c.id /\ a.arg = c.arg
           /\ a.wanted = c.wanted \ parts
           /\ \A row \in a.rows :
                \/ row \in c.rows /\ parts \cap {"runsOfItems", "approvals"} = {}
                \/ \E part \in parts : row \in Rows(part, c)
           /\ \A entry \in a.entries :
                entry \in c.entries \/ \E part \in parts : entry \in Entries(part, c)
<1> PICK fresh : fresh = (parts \intersect {"runsOfItems", "approvals"} = {})
  OBVIOUS
<1> PICK old : old = IF fresh THEN c.rows ELSE {}
  OBVIOUS
<1> PICK new : new = UNION {Rows(part, c) : part \in parts \ lost}
  OBVIOUS
<1> PICK more : more = UNION {Entries(part, c) : part \in parts \ lost}
  OBVIOUS
<1> PICK good : good = (c.ok /\ lost \subseteq Caught)
  OBVIOUS
<1>1. a = [c EXCEPT !.wanted = c.wanted \ parts, !.ok = good, !.rows = old \cup new,
                    !.entries = c.entries \cup more]
  BY DEF Answered
<1>2. \A row \in new : \E part \in parts : row \in Rows(part, c)
  OBVIOUS
<1>3. \A entry \in more : \E part \in parts : entry \in Entries(part, c)
  OBVIOUS
<1>4. old \cup new \subseteq RowType /\ c.entries \cup more \subseteq EntryType
  <2>1. c.rows \subseteq RowType /\ c.entries \subseteq EntryType
    BY DEF CallRecord
  <2> QED
    BY <2>1, <1>2, <1>3
<1>5. good \in BOOLEAN /\ c.wanted \ parts \subseteq Parts
  <2>1. c.ok \in BOOLEAN /\ c.wanted \subseteq Parts
    BY DEF CallRecord
  <2> QED
    BY <2>1
<1>6. /\ a \in CallRecord
      /\ a.kind = c.kind /\ a.ws = c.ws /\ a.id = c.id /\ a.arg = c.arg
      /\ a.wanted = c.wanted \ parts /\ a.rows = old \cup new /\ a.entries = c.entries \cup more
  <2> PICK w : w = c.wanted \ parts
    OBVIOUS
  <2> PICK rs : rs = old \cup new
    OBVIOUS
  <2> PICK es : es = c.entries \cup more
    OBVIOUS
  <2>1. a = [c EXCEPT !.wanted = w, !.ok = good, !.rows = rs, !.entries = es]
    BY <1>1
  <2>2. w \in SUBSET Parts /\ rs \in SUBSET RowType /\ es \in SUBSET EntryType
    BY <1>4, <1>5
  <2>3. /\ a \in CallRecord
        /\ a.kind = c.kind /\ a.ws = c.ws /\ a.id = c.id /\ a.arg = c.arg
        /\ a.wanted = w /\ a.rows = rs /\ a.entries = es
    BY ONLY <2>1, <2>2, <1>5, c \in CallRecord DEF CallRecord
  <2> QED
    BY <2>3
<1> QED
  BY <1>2, <1>3, <1>6

\* A request is answered in parts, and is as sound as it was.
LEMMA AnsweredOk ==
    ASSUME TablesTrue, page \in Pages, NEW c, CallOk(c, Env), NEW parts, NEW lost,
           parts # {}, parts \subseteq c.wanted, "write" \notin parts,
           NEW a, a = Answered(c, parts, lost)
    PROVE  CallOk(a, Env)
<1> PICK e : e = Env
  OBVIOUS
<1>0. CallShape(c, e) /\ CallTrue(c, e) /\ CallAimed(c, e) /\ c \in CallRecord /\ e.page = page
  BY EnvFields DEF CallOk, CallShape
<1>1. parts \subseteq PartsOf(page, c.kind) /\ parts \in SUBSET Parts /\ c.kind \in Kinds
  BY <1>0 DEF CallShape, CallRecord
<1>2. "approvals" \in parts => c.kind = "listApprovals" /\ parts = {"approvals"} /\ c.wanted = {"approvals"}
  BY <1>0, <1>1 DEF PartsOf, Kinds, ListParts, DetailParts, CallShape, KindsOf, Pages, BoardPages
<1>3. "approvals" \in parts => RunRows(c.rows, e) /\ RowsIn(c.rows, c.ws)
  BY <1>0, <1>2 DEF CallTrue, ApprovalsTrue
<1>4. {"runEvents", "lineage"} \cap parts # {} => c.id \in DOMAIN runs
  <2>1. "runEvents" \in parts => c.kind = "poll"
    BY <1>0, <1>1 DEF PartsOf, Kinds, ListParts, DetailParts, CallShape, KindsOf, Pages, BoardPages
  <2>2. "lineage" \in parts => c.kind = "detail" /\ page = "admin"
    BY <1>0, <1>1 DEF PartsOf, Kinds, ListParts, DetailParts, CallShape, KindsOf, Pages, BoardPages
  <2> QED
    BY <2>1, <2>2, <1>0, EnvFields DEF CallTrue, DetailRead
<1>5. \A part \in parts : Rows(part, c) \subseteq RowType
  BY <1>3, RowsAnswered
<1>6. \A part \in parts : Entries(part, c) \subseteq EntryType
  BY <1>4, EntriesAnswered
<1>7. /\ a \in CallRecord
      /\ a.kind = c.kind /\ a.ws = c.ws /\ a.id = c.id /\ a.arg = c.arg
      /\ a.wanted = c.wanted \ parts
      /\ \A row \in a.rows :
           \/ row \in c.rows /\ parts \cap {"runsOfItems", "approvals"} = {}
           \/ \E part \in parts : row \in Rows(part, c)
      /\ \A entry \in a.entries :
           entry \in c.entries \/ \E part \in parts : entry \in Entries(part, c)
  BY <1>0, <1>1, <1>5, <1>6, AnsweredFields
<1>8. CallShape(a, e)
  BY <1>0, <1>7 DEF CallShape
<1>9. CallAimed(a, e)
  BY <1>0, <1>7 DEF CallAimed
<1>10. a.kind \in {"conversations", "create"} => ItemRows(a.rows)
  <2> SUFFICES ASSUME a.kind \in {"conversations", "create"} PROVE ItemRows(a.rows)
    OBVIOUS
  <2>1. ItemRows(c.rows) /\ parts \subseteq {"items"}
    BY <1>0, <1>1, <1>7 DEF CallTrue, PartsOf
  <2>2. \A part \in parts : ItemRows(Rows(part, c))
    BY <2>1, RowsAnswered
  <2> QED
    BY <2>1, <2>2, <1>7 DEF ItemRows
<1>11. a.kind = "list" => ListTrue(a, e)
  <2> SUFFICES ASSUME a.kind = "list" PROVE ListTrue(a, e)
    OBVIOUS
  <2>1. ListTrue(c, e) /\ parts \subseteq ListParts[page]
    BY <1>0, <1>1, <1>7 DEF CallTrue, PartsOf
  <2>2. page \in Cancelling => ItemRows(a.rows) /\ RowsIn(a.rows, a.ws)
    <3> SUFFICES ASSUME page \in Cancelling PROVE ItemRows(a.rows) /\ RowsIn(a.rows, a.ws)
      OBVIOUS
    <3>1. parts \subseteq {"items"} /\ ItemRows(c.rows) /\ RowsIn(c.rows, c.ws)
      BY <2>1, <1>0 DEF ListParts, Cancelling, ListTrue
    <3>2. \A part \in parts : ItemRows(Rows(part, c)) /\ RowsIn(Rows(part, c), c.ws)
      BY <3>1, RowsAnswered
    <3>3. ItemRows(a.rows)
      BY <3>1, <3>2, <1>7 DEF ItemRows
    <3>4. RowsIn(a.rows, a.ws)
      BY <3>1, <3>2, <1>7 DEF RowsIn
    <3> QED
      BY <3>3, <3>4
  <2>3. page = "agents" => ProfilesSound(a.rows, e)
    <3> SUFFICES ASSUME page = "agents" PROVE ProfilesSound(a.rows, e)
      OBVIOUS
    <3>1. parts \subseteq {"profiles"} /\ ProfilesSound(c.rows, e)
      BY <2>1, <1>0 DEF ListParts, ListTrue
    <3>2. \A part \in parts : ProfilesSound(Rows(part, c), e)
      BY <3>1, RowsAnswered
    <3> QED
      BY <3>1, <3>2, <1>7 DEF ProfilesSound
  <2>4. page = "admin" => RunRows(a.rows, e)
    <3> SUFFICES ASSUME page = "admin" PROVE RunRows(a.rows, e)
      OBVIOUS
    <3>1. parts \subseteq {"adminRuns"} /\ RunRows(c.rows, e)
      BY <2>1, <1>0 DEF ListParts, ListTrue
    <3>2. \A part \in parts : RunRows(Rows(part, c), e)
      BY <3>1, RowsAnswered
    <3> QED
      BY <3>1, <3>2, <1>7 DEF RunRows
  <2> QED
    BY <2>2, <2>3, <2>4, <1>0 DEF ListTrue
<1>12. a.kind = "refresh" =>
         RunRows(a.rows, e) /\ RowsOfItem(a.rows, e, a.id) /\ EventsOfItem(a.entries, e, a.id)
  <2> SUFFICES ASSUME a.kind = "refresh"
               PROVE  RunRows(a.rows, e) /\ RowsOfItem(a.rows, e, a.id) /\ EventsOfItem(a.entries, e, a.id)
    OBVIOUS
  <2>1. /\ parts \subseteq {"runs", "events"}
        /\ RunRows(c.rows, e) /\ RowsOfItem(c.rows, e, c.id) /\ EventsOfItem(c.entries, e, c.id)
    BY <1>0, <1>1, <1>7 DEF CallTrue, PartsOf
  <2>2. \A part \in parts : \A row \in Rows(part, c) : part = "runs"
    BY <2>1 DEF Rows
  <2>3. \A part \in parts : \A entry \in Entries(part, c) : part = "events"
    BY <2>1 DEF Entries
  <2>4. RunRows(a.rows, e)
    BY <2>1, <2>2, <1>7, RowsAnswered DEF RunRows
  <2>5. RowsOfItem(a.rows, e, a.id)
    BY <2>1, <2>2, <1>7, RowsAnswered DEF RowsOfItem
  <2>6. EventsOfItem(a.entries, e, a.id)
    <3>1. EventsOfItem(Entries("events", c), e, c.id)
      BY EntriesAnswered
    <3> QED
      BY <2>1, <2>3, <3>1, <1>7 DEF EventsOfItem
  <2> QED
    BY <2>4, <2>5, <2>6
<1>13. a.kind = "poll" =>
         /\ a.id \in DOMAIN e.runs /\ EntriesOfRun(a.entries, a.id)
         /\ \A entry \in a.entries : entry[2] # 0
  <2> SUFFICES ASSUME a.kind = "poll"
               PROVE  /\ a.id \in DOMAIN e.runs /\ EntriesOfRun(a.entries, a.id)
                      /\ \A entry \in a.entries : entry[2] # 0
    OBVIOUS
  <2>1. /\ parts \subseteq {"runEvents"}
        /\ c.id \in DOMAIN runs /\ EntriesOfRun(c.entries, c.id)
        /\ \A entry \in c.entries : entry[2] # 0
    BY <1>0, <1>1, <1>7, EnvFields DEF CallTrue, PartsOf
  <2>2. \A part \in parts : /\ EntriesOfRun(Entries(part, c), c.id)
                            /\ \A entry \in Entries(part, c) : entry[2] # 0
    BY <2>1, EntriesAnswered
  <2> QED
    BY <2>1, <2>2, <1>7, EnvFields DEF EntriesOfRun
<1>14. a.kind = "detail" => DetailRead(a, e)
  <2> SUFFICES ASSUME a.kind = "detail" PROVE DetailRead(a, e)
    OBVIOUS
  <2>0. DetailRead(c, e) /\ parts \subseteq DetailParts[page]
    BY <1>0, <1>1, <1>7 DEF CallTrue, PartsOf
  <2>1. CASE page = "admin"
    <3>1. /\ parts \subseteq {"lineage"} /\ c.id \in DOMAIN runs /\ EntriesOfRun(c.entries, c.id)
      BY <2>0, <2>1, <1>0, EnvFields DEF DetailRead, DetailParts
    <3>2. \A part \in parts : EntriesOfRun(Entries(part, c), c.id)
      BY <3>1, EntriesAnswered
    <3>3. EntriesOfRun(a.entries, a.id) /\ a.id \in DOMAIN e.runs
      BY <3>1, <3>2, <1>7, EnvFields DEF EntriesOfRun
    <3> QED
      BY <3>3, <2>1, <1>0 DEF DetailRead
  <2>2. CASE page # "admin"
    <3>0. page \in {"work", "artifacts"}
      BY <1>0, <1>7, <2>2 DEF CallShape, KindsOf, Pages, BoardPages
    <3>1. /\ parts \subseteq {"runs", "events", "artifacts", "surfaces"}
          /\ RunRows(c.rows, e) /\ RowsOfItem(c.rows, e, c.id) /\ EntriesOfItem(c.entries, e, c.id)
      BY <2>0, <2>2, <3>0, <1>0 DEF DetailRead, DetailParts
    <3>2. \A part \in parts : \A row \in Rows(part, c) : part = "runs"
      BY <3>1 DEF Rows
    <3>3. RunRows(a.rows, e)
      BY <3>1, <3>2, <1>7, RowsAnswered DEF RunRows
    <3>4. RowsOfItem(a.rows, e, a.id)
      BY <3>1, <3>2, <1>7, RowsAnswered DEF RowsOfItem
    <3>5. \A part \in parts : EntriesOfItem(Entries(part, c), e, c.id)
      <4>1. EventsOfItem(Entries("events", c), e, c.id)
        BY EntriesAnswered
      <4>2. EntriesOfItem(Entries("events", c), e, c.id)
        BY <4>1 DEF EventsOfItem, EntriesOfItem
      <4>3. EntriesOfItem(Entries("runs", c), e, c.id)
        BY DEF Entries, EntriesOfItem
      <4> QED
        BY <4>2, <4>3, <3>1, EntriesAnswered
    <3>6. EntriesOfItem(a.entries, e, a.id)
      BY <3>1, <3>5, <1>7 DEF EntriesOfItem
    <3> QED
      BY <3>3, <3>4, <3>6, <2>2, <1>0 DEF DetailRead
  <2> QED
    BY <2>1, <2>2
<1>15. a.kind = "listRuns" /\ a.wanted = {} => RunRows(a.rows, e) /\ RowsIn(a.rows, a.ws)
  <2> SUFFICES ASSUME a.kind = "listRuns" PROVE RunRows(a.rows, e) /\ RowsIn(a.rows, a.ws)
    OBVIOUS
  <2>1. parts = {"runsOfItems"}
    BY <1>1, <1>7 DEF PartsOf
  <2>2. \A row \in a.rows : row \in Rows("runsOfItems", c)
    BY <2>1, <1>7
  <2> QED
    BY <2>2, <1>7, RowsAnswered DEF RunRows, RowsIn
<1>16. a.kind = "listApprovals" => ApprovalsTrue(a, e)
  <2> SUFFICES ASSUME a.kind = "listApprovals" PROVE ApprovalsTrue(a, e)
    OBVIOUS
  <2>1. parts = {"approvals"}
    BY <1>1, <1>7 DEF PartsOf
  <2>2. \A row \in a.rows : row \in Rows("approvals", c)
    BY <2>1, <1>7
  <2>3. a.wanted = {}
    BY <2>1, <1>2, <1>7
  <2>4. ApprovalRows(Rows("approvals", c), e) /\ RowsIn(Rows("approvals", c), c.ws)
    BY <2>1, <1>3, RowsAnswered
  <2>5. ApprovalRows(a.rows, e)
    BY <2>2, <2>4 DEF ApprovalRows
  <2>6. RowsIn(a.rows, a.ws)
    BY <2>2, <2>4, <1>7 DEF RowsIn
  <2> QED
    BY <2>3, <2>5, <2>6 DEF ApprovalsTrue
<1>18. a.kind \in {"decide", "draft", "approve"} => FALSE
  BY <1>1, <1>7 DEF PartsOf
<1>19. a.kind \in {"inspect", "workshop"} => ProfilesSound(a.rows, e)
  <2> SUFFICES ASSUME a.kind \in {"inspect", "workshop"} PROVE ProfilesSound(a.rows, e)
    OBVIOUS
  <2>1. ProfilesSound(c.rows, e) /\ parts \subseteq {"profile", "profiles"}
    BY <1>0, <1>1, <1>7 DEF CallTrue, PartsOf
  <2>2. \A part \in parts : ProfilesSound(Rows(part, c), e)
    BY <2>1, RowsAnswered
  <2> QED
    BY <2>1, <2>2, <1>7 DEF ProfilesSound
<1>20. CallTrue(a, e)
  BY <1>10, <1>11, <1>12, <1>13, <1>14, <1>15, <1>16, <1>18, <1>19 DEF CallTrue
<1> QED
  BY <1>8, <1>9, <1>20 DEF CallOk
-----------------------------------------------------------------------------
(***************************************************************************)
(* The slots: requests that are sent, cancelled, answered and taken.       *)
(***************************************************************************)
LEMMA LeastSlot ==
    ASSUME NEW T, T \subseteq Nat, T # {}
    PROVE  \E s \in T : \A t \in T : s <= t
<1>1. IsWellFoundedOn(OpToRel(<, Nat), Nat)
  BY NatLessThanWellFounded
<1>2. PICK s \in T : \A t \in T : ~(<<t, s>> \in OpToRel(<, Nat))
  BY <1>1, WFMin
<1>3. \A s1, t \in Nat : t < s1 => <<t, s1>> \in OpToRel(<, Nat)
  BY DEF OpToRel
<1>4. \A t \in T : ~(t < s)
  BY <1>2, <1>3
<1> QED
  BY <1>4

LEMMA Placed ==
    ASSUME NEW under \in [Slots -> CallRecord], NEW request, Free(under) # {}
    PROVE  \E s \in Slots : under[s].kind = "none" /\ Send(under, request) = [under EXCEPT ![s] = request]
<1>1. Free(under) \subseteq Nat
  BY ControlApiAssumption DEF Free
<1>2. \E s \in Free(under) : \A t \in Free(under) : s <= t
  BY <1>1, LeastSlot
<1> PICK s : s = (CHOOSE x \in Free(under) : \A t \in Free(under) : x <= t)
  OBVIOUS
<1>3. s \in Free(under)
  BY <1>2
<1> QED
  BY <1>3 DEF Send, Free

LEMMA NoCallOk ==
    ASSUME NEW e, e.page \in Pages
    PROVE  CallOk(NoCall, e)
<1>1. NoCall \in CallRecord /\ NoCall.kind = "none" /\ NoCall.wanted = {}
  BY DEF NoCall, Request, CallRecord, Kinds, Ids
<1>2. "none" \in KindsOf(e.page)
  BY DEF KindsOf, Pages, BoardPages
<1>3. CallTrue(NoCall, e)
  BY <1>1 DEF CallTrue
<1>4. CallAimed(NoCall, e)
  BY <1>1 DEF CallAimed, ListKinds
<1> QED
  BY <1>1, <1>2, <1>3, <1>4 DEF CallOk, CallShape

LEMMA ChangedOk ==
    ASSUME NEW e, NEW cs, CallsOk(cs, e), NEW s \in Slots, NEW c, CallOk(c, e)
    PROVE  CallsOk([cs EXCEPT ![s] = c], e)
<1>1. cs \in [Slots -> CallRecord] /\ c \in CallRecord
  BY DEF CallsOk, CallOk, CallShape
<1>2. \A t \in Slots : CallOk(cs[t], e)
  BY DEF CallsOk
<1> PICK q : q = [cs EXCEPT ![s] = c]
  OBVIOUS
<1>3. q \in [Slots -> CallRecord] /\ \A t \in Slots : q[t] = IF t = s THEN c ELSE cs[t]
  BY <1>1
<1>4. CallsOk(q, e)
  BY <1>2, <1>3 DEF CallsOk
<1> QED
  BY <1>4

LEMMA TakenOk ==
    ASSUME NEW e, e.page \in Pages, CallsOk(calls, e), NEW s \in Slots
    PROVE  /\ CallsOk(Taken(s), e) /\ s \in Free(Taken(s))
           /\ \A t \in Slots : t # s => Taken(s)[t] = calls[t]
<1>1. CallsOk(Taken(s), e)
  BY NoCallOk, ChangedOk DEF Taken
<1>2. calls \in [Slots -> CallRecord]
  BY DEF CallsOk
<1>3. Taken(s)[s] = NoCall /\ \A t \in Slots : t # s => Taken(s)[t] = calls[t]
  BY <1>2 DEF Taken
<1> QED
  BY <1>1, <1>3 DEF Free, NoCall, Request

\* A request that is sent takes a free slot.
LEMMA SentOk ==
    ASSUME NEW e, NEW under, CallsOk(under, e), NEW request, CallOk(request, e), Free(under) # {}
    PROVE  /\ CallsOk(Send(under, request), e)
           /\ \E s \in Slots : Send(under, request)[s] = request
           /\ \A s \in Slots : under[s].kind # "none" => Send(under, request)[s] = under[s]
<1>1. under \in [Slots -> CallRecord]
  BY DEF CallsOk
<1>2. PICK s \in Slots : under[s].kind = "none" /\ Send(under, request) = [under EXCEPT ![s] = request]
  BY <1>1, Placed
<1>3. CallsOk(Send(under, request), e)
  <2>1. CallsOk([under EXCEPT ![s] = request], e)
    BY ChangedOk
  <2> QED
    BY <1>2, <2>1
<1>4. /\ Send(under, request)[s] = request
      /\ \A t \in Slots : under[t].kind # "none" => Send(under, request)[t] = under[t]
  BY <1>1, <1>2
<1> QED
  BY <1>3, <1>4

LEMMA CancelledOk ==
    ASSUME NEW e, e.page \in Pages, NEW under, CallsOk(under, e), NEW kinds, "none" \notin kinds
    PROVE  /\ CallsOk(Cancelled(under, kinds), e)
           /\ \A s \in Slots : /\ Cancelled(under, kinds)[s].kind \notin kinds
                               /\ under[s].kind \notin kinds => Cancelled(under, kinds)[s] = under[s]
           /\ Free(under) \subseteq Free(Cancelled(under, kinds))
<1> PICK q : q = Cancelled(under, kinds)
  OBVIOUS
<1>1. \A s \in Slots : q[s] = IF under[s].kind \in kinds THEN NoCall ELSE under[s]
  BY DEF Cancelled
<1>2. NoCall.kind = "none" /\ NoCall \in CallRecord
  BY NoCallOk DEF NoCall, Request, CallOk, CallShape
<1>3. q \in [Slots -> CallRecord]
  BY <1>2 DEF Cancelled, CallsOk
<1>4. \A s \in Slots : CallOk(q[s], e)
  BY <1>1, NoCallOk DEF CallsOk
<1>5. CallsOk(q, e)
  BY <1>3, <1>4 DEF CallsOk
<1>6. \A s \in Slots : q[s].kind \notin kinds /\ (under[s].kind \notin kinds => q[s] = under[s])
  BY <1>1, <1>2
<1>7. Free(under) \subseteq Free(q)
  BY <1>1, <1>2 DEF Free
<1> QED
  BY <1>5, <1>6, <1>7

\* What a board is depends on the kinds of the requests only.
LEMMA BoardKept ==
    ASSUME NEW e, NEW b, NEW cs, NEW cs2, BoardOk(b, cs, e),
           \A s \in Slots : cs2[s].kind = cs[s].kind
    PROVE  BoardOk(b, cs2, e)
BY DEF BoardOk, DetailOk, ListOk, Sends

-----------------------------------------------------------------------------
\* Requests that read and write.
ServeOk(s) ==
    /\ TablesTrue' /\ TablesGrow(Env, Env') /\ Env'.sel = Env.sel /\ Env'.ws = Env.ws
    /\ CallsOk(calls', Env')
    /\ \A t \in Slots : calls'[t].kind = calls[t].kind

LEMMA ReadKeeps ==
    ASSUME TablesTrue, page \in Pages, CallsOk(calls, Env), NEW s \in Slots,
           NEW parts, NEW lost, Read(s, parts, lost), UNCHANGED <<page, chat, board>>
    PROVE  ServeOk(s)
<1> PICK a : a = Answered(calls[s], parts, lost)
  OBVIOUS
<1>1. /\ parts # {} /\ parts \subseteq calls[s].wanted /\ "write" \notin parts
      /\ calls' = [calls EXCEPT ![s] = a]
      /\ UNCHANGED <<server, workspace, clicks>>
  BY DEF Read
<1>2. UNCHANGED <<mock, existing, surfaced, runs, approvals, profiles, workspace, page, chat, board>>
  BY <1>1 DEF server
<1>3. CallOk(calls[s], Env) /\ calls \in [Slots -> CallRecord]
  BY DEF CallsOk
<1>4. CallOk(a, Env)
  BY <1>1, <1>3, AnsweredOk
<1>5. Env' = Env
  BY <1>2 DEF Env
<1>6. CallsOk(calls', Env')
  BY <1>1, <1>4, <1>5, ChangedOk
<1>7. a.kind = calls[s].kind
  <2>1. calls[s] \in CallRecord
    BY <1>3
  <2> QED
    BY <2>1 DEF Answered, CallRecord
<1>8. \A t \in Slots : calls'[t].kind = calls[t].kind
  BY <1>1, <1>3, <1>7
<1>9. TablesTrue' /\ TablesGrow(Env, Env')
  BY <1>2, <1>5 DEF TablesTrue, TablesGrow
<1> QED
  BY <1>5, <1>6, <1>8, <1>9 DEF ServeOk

\* The answer a to a request c that writes.
Written(c, a, e) ==
    /\ c.wanted = {"write"} /\ a.wanted = {} /\ a \in CallRecord
    /\ a.kind = c.kind /\ a.id = c.id /\ a.ws = c.ws /\ a.arg = c.arg
    /\ c.kind = "create" => ItemRows(a.rows)
    /\ c.kind = "decide" => ApprovalRows(a.rows, e)
    /\ c.kind \in {"draft", "approve"} => ProfilesSound(a.rows, e)

LEMMA WrittenOk ==
    ASSUME NEW e, NEW f, TablesGrow(e, f), f.sel = e.sel, f.ws = e.ws, e.page \in Pages,
           NEW c, CallOk(c, e), NEW a, Written(c, a, f)
    PROVE  CallOk(a, f)
<1>0. c \in CallRecord /\ f.page = e.page /\ CallShape(c, e)
  BY DEF CallOk, CallShape, TablesGrow
<1>2. c.kind \in {"start", "create", "decide", "draft", "approve"}
  BY <1>0 DEF Written, CallShape, PartsOf, KindsOf, Pages, BoardPages, ListParts, DetailParts
<1>3. CallTrue(c, f) /\ CallAimed(c, f)
  BY CallGrows, AimsGrow DEF CallOk
<1>4. CallShape(a, f)
  BY <1>0 DEF CallShape, Written
<1>5. CallTrue(a, f)
  BY <1>2, <1>3 DEF CallTrue, Written
<1>6. CallAimed(a, f)
  BY <1>2, <1>3 DEF CallAimed, Written
<1> QED
  BY <1>4, <1>5, <1>6 DEF CallOk

LEMMA WriteKeeps ==
    ASSUME TablesTrue, page \in Pages, CallsOk(calls, Env), NEW s \in Slots,
           Write(s), UNCHANGED <<page, chat, board>>
    PROVE  ServeOk(s)
<1> PICK c : c = calls[s]
  OBVIOUS
<1>0. /\ c.wanted = {"write"} /\ CallOk(c, Env) /\ c \in CallRecord /\ calls \in [Slots -> CallRecord]
      /\ UNCHANGED <<workspace, page, chat, board>>
  BY DEF Write, CallsOk, CallOk, CallShape
<1>1. Env'.sel = Env.sel /\ Env'.ws = Env.ws /\ Env.page = page
  BY <1>0 DEF Env
<1>2. ASSUME NEW good \in BOOLEAN, NEW rows \in SUBSET RowType, Answer(s, good, rows),
             TablesTrue', TablesGrow(Env, Env'),
             c.kind = "create" => ItemRows(rows),
             c.kind = "decide" => ApprovalRows(rows, Env'),
             c.kind \in {"draft", "approve"} => ProfilesSound(rows, Env')
      PROVE  ServeOk(s)
  <2> PICK shown : shown = IF good THEN rows ELSE {}
    OBVIOUS
  <2> PICK a : a = [c EXCEPT !.wanted = {}, !.ok = good, !.rows = shown]
    OBVIOUS
  <2> PICK f : f = Env'
    OBVIOUS
  <2>1. calls' = [calls EXCEPT ![s] = a]
    BY <1>2 DEF Answer
  <2>2. /\ shown \in SUBSET RowType
        /\ c.kind = "create" => ItemRows(shown)
        /\ c.kind = "decide" => ApprovalRows(shown, f)
        /\ c.kind \in {"draft", "approve"} => ProfilesSound(shown, f)
    BY <1>2 DEF ItemRows, ApprovalRows, ProfilesSound
  <2>3. CallOk(a, f) /\ a.kind = c.kind
    <3> PICK e : e = Env
      OBVIOUS
    <3>1. TablesGrow(e, f) /\ f.sel = e.sel /\ f.ws = e.ws /\ e.page \in Pages /\ CallOk(c, e)
      BY <1>0, <1>1, <1>2
    <3>2. /\ a \in CallRecord /\ a.kind = c.kind /\ a.id = c.id /\ a.ws = c.ws /\ a.arg = c.arg
          /\ a.wanted = {} /\ a.rows = shown
      BY <1>0, <2>2 DEF CallRecord
    <3>3. Written(c, a, f)
      BY <1>0, <2>2, <3>2 DEF Written
    <3> QED
      BY <3>1, <3>2, <3>3, WrittenOk
  <2>4. CallsOk(calls, f)
    BY <1>1, <1>2, ViewsGrow
  <2>5. CallsOk(calls', f)
    BY <2>1, <2>3, <2>4, ChangedOk
  <2>6. \A t \in Slots : calls'[t].kind = calls[t].kind
    BY <2>1, <2>3, <1>0
  <2> QED
    BY <1>1, <1>2, <2>5, <2>6 DEF ServeOk
<1>3. ASSUME Answer(s, FALSE, {}), UNCHANGED server PROVE ServeOk(s)
  <2>1. TablesTrue' /\ TablesGrow(Env, Env')
    BY <1>0, <1>3 DEF server, TablesTrue, TablesGrow, Env
  <2> QED
    BY <1>2, <1>3, <2>1 DEF ItemRows, ApprovalRows, ProfilesSound
<1>4. ASSUME NEW ok \in {TRUE, mock}, c.kind = "start", StartWorkItemRun(c.ws, c.id), Answer(s, ok, {})
      PROVE  ServeOk(s)
  <2>1. TablesTrue' /\ TablesGrow(Env, Env') /\ ok \in BOOLEAN
    BY <1>0, <1>4, StartKeeps DEF TablesTrue
  <2> QED
    BY <1>2, <1>4, <2>1
<1>5. ASSUME NEW ok \in {TRUE, mock}, c.kind = "create",
             NEW i \in Items, CreateWorkItem(c.ws, i), Answer(s, ok, {ItemRow(i)})
      PROVE  ServeOk(s)
  <2>1. TablesTrue' /\ TablesGrow(Env, Env') /\ ok \in BOOLEAN
    BY <1>0, <1>5, ItemKeeps DEF TablesTrue, CreateWorkItem
  <2>2. {ItemRow(i)} \in SUBSET RowType /\ ItemRows({ItemRow(i)})
    BY ControlApiAssumption DEF ItemRow, RowType, ItemRows
  <2> QED
    BY <1>2, <1>5, <2>1, <2>2
<1>6. ASSUME NEW ok \in {TRUE, mock}, c.kind = "decide", DecideApproval(c.id, c.arg),
             Answer(s, ok, {[ApprovalRow(c.id) EXCEPT !.status = c.arg]})
      PROVE  ServeOk(s)
  <2>0. c.id \in DOMAIN runs /\ c.arg \in {"approved", "rejected"}
    BY <1>0, <1>6, EnvFields DEF CallOk, CallTrue
  <2>1. TablesTrue' /\ TablesGrow(Env, Env') /\ ok \in BOOLEAN /\ approvals'[c.id] = c.arg /\ runs' = runs
    BY <1>0, <1>6, <2>0, ApprovalKeeps DEF TablesTrue, DecideApproval
  <2> PICK row : row = [ApprovalRow(c.id) EXCEPT !.status = c.arg]
    OBVIOUS
  <2>2. row = [id |-> c.id, ws |-> Home[runs[c.id].item], status |-> c.arg]
    BY DEF ApprovalRow
  <2>3. c.id \in RunIds /\ Home[runs[c.id].item] \in Workspaces
    BY <2>0, RunFacts
  <2>4. {row} \in SUBSET RowType
    BY <2>0, <2>2, <2>3 DEF RowType
  <2>5. Env'.runs = runs /\ Env'.approvals = approvals'
    BY <2>1 DEF Env
  <2>6. ApprovalRows({row}, Env')
    BY <2>0, <2>1, <2>2, <2>5 DEF ApprovalRows
  <2> QED
    BY <1>2, <1>6, <2>1, <2>4, <2>6
<1>7. ASSUME NEW ok \in {TRUE, mock}, c.kind = "draft", CreateAgentProfileDraft(c.id),
             Answer(s, ok, {[ProfileRow(c.id) EXCEPT !.status = "draft"]})
      PROVE  ServeOk(s)
  <2>0. c.id \in Profiles
    BY <1>0, <1>7 DEF CallOk, CallTrue
  <2>1. TablesTrue' /\ TablesGrow(Env, Env') /\ ok \in BOOLEAN
    BY <1>0, <1>7, <2>0, ProfileKeeps DEF TablesTrue, CreateAgentProfileDraft
  <2> PICK row : row = [ProfileRow(c.id) EXCEPT !.status = "draft"]
    OBVIOUS
  <2>2. row = [id |-> c.id, ws |-> Home[c.id], status |-> "draft"]
    BY DEF ProfileRow
  <2>3. {row} \in SUBSET RowType /\ ProfilesSound({row}, Env')
    BY <2>0, <2>2, ControlApiAssumption DEF RowType, ProfilesSound
  <2> QED
    BY <1>2, <1>7, <2>1, <2>3
<1>8. ASSUME NEW ok \in {TRUE, mock}, c.kind = "approve", ApproveAgentProfile(c.id),
             Answer(s, ok, {[ProfileRow(c.id) EXCEPT !.status = "approved"]})
      PROVE  ServeOk(s)
  <2>0. c.id \in Profiles
    BY <1>0, <1>8 DEF CallOk, CallTrue
  <2>1. TablesTrue' /\ TablesGrow(Env, Env') /\ ok \in BOOLEAN /\ profiles'[c.id] = "approved"
    BY <1>0, <1>8, <2>0, ProfileKeeps DEF TablesTrue, ApproveAgentProfile
  <2> PICK row : row = [ProfileRow(c.id) EXCEPT !.status = "approved"]
    OBVIOUS
  <2>2. row = [id |-> c.id, ws |-> Home[c.id], status |-> "approved"]
    BY DEF ProfileRow
  <2>3. Env'.profiles = profiles'
    BY DEF Env
  <2>4. {row} \in SUBSET RowType /\ ProfilesSound({row}, Env')
    BY <2>0, <2>1, <2>2, <2>3, ControlApiAssumption DEF RowType, ProfilesSound
  <2> QED
    BY <1>2, <1>8, <2>1, <2>4
<1> QED
  BY <1>3, <1>4, <1>5, <1>6, <1>7, <1>8 DEF Write
-----------------------------------------------------------------------------
(***************************************************************************)
(* The requests that pages send.                                           *)
(***************************************************************************)
\* What requests are judged against when sel and ws are selected.
Seen(sel, ws) ==
    [page |-> page, ws |-> ws, sel |-> sel, runs |-> runs, approvals |-> approvals,
     profiles |-> profiles, mock |-> mock]

Asked(kind, ws, id, parts, e) ==
    /\ e.page \in Pages /\ kind \in (KindsOf(e.page) \cap Kinds) \ {"decide"}
    /\ ws \in Workspaces \cup {None} /\ id \in Ids
    /\ parts \in SUBSET Parts /\ parts \subseteq PartsOf(e.page, kind)
    /\ kind \in {"refresh", "detail", "start"} => id = e.sel
    /\ kind = "poll" => id \in DOMAIN e.runs /\ e.runs[id].item = e.sel
    /\ kind = "detail" /\ e.page = "admin" => id \in DOMAIN e.runs
    /\ kind \in {"draft", "approve"} => id \in Profiles
    /\ kind = "list" /\ e.page \in Cancelling => ws = e.ws
    /\ kind \notin {"listRuns", "listApprovals"}

LEMMA RequestOk ==
    ASSUME NEW kind, NEW ws, NEW id, NEW parts, NEW e, Asked(kind, ws, id, parts, e)
    PROVE  CallOk(Request(kind, ws, id, parts), e)
<1> PICK c : c = Request(kind, ws, id, parts)
  OBVIOUS
<1>1. /\ c.kind = kind /\ c.ws = ws /\ c.id = id /\ c.wanted = parts /\ c.rows = {} /\ c.entries = {}
      /\ c.arg = "none"
  BY DEF Request
<1>2. c \in CallRecord
  BY DEF Request, CallRecord, Asked
<1>3. CallShape(c, e)
  BY <1>1, <1>2 DEF CallShape, Asked
<1>4. /\ ItemRows(c.rows) /\ RunRows(c.rows, e) /\ ApprovalRows(c.rows, e) /\ ProfilesSound(c.rows, e)
      /\ RowsIn(c.rows, c.ws) /\ RowsOfItem(c.rows, e, c.id) /\ EventsOfItem(c.entries, e, c.id)
      /\ EntriesOfItem(c.entries, e, c.id) /\ EntriesOfRun(c.entries, c.id)
  BY <1>1 DEF ItemRows, RunRows, ApprovalRows, ProfilesSound, RowsIn, RowsOfItem, EventsOfItem,
              EntriesOfItem, EntriesOfRun
<1>5. CallTrue(c, e)
  BY <1>1, <1>4 DEF CallTrue, ListTrue, DetailRead, Asked
<1>6. CallAimed(c, e)
  BY <1>1 DEF CallAimed, Asked, ListKinds
<1> QED
  BY <1>3, <1>5, <1>6 DEF CallOk

-----------------------------------------------------------------------------
(***************************************************************************)
(* The conversation.                                                       *)
(***************************************************************************)
\* A conversation asks for its own item, in whatever workspace.
LEMMA RefreshOk ==
    ASSUME NEW e, e.page = "chat", NEW view, e.sel = view.selected, ChatOk(view, e),
           NEW under, CallsOk(under, e), NEW ws \in Workspaces, Refresh(view, under, ws)
    PROVE  ChatOk(chat', e) /\ chat'.selected = view.selected /\ CallsOk(calls', e)
<1>1. CASE HasItem(view)
  <2>1. view \in ChatRecord /\ view.selected \in Items
    BY <1>1 DEF HasItem, ChatOk, ChatRecord
  <2>2. Asked("refresh", ws, view.selected, {"runs", "events"}, e)
    BY <2>1 DEF Asked, Pages, KindsOf, Kinds, Ids, Parts, PartsOf
  <2>3. CallOk(RefreshRequest(ws, view.selected), e)
    BY <2>2, RequestOk DEF RefreshRequest
  <2>4. Free(under) # {} /\ chat' = [view EXCEPT !.loading = TRUE]
        /\ calls' = Send(under, RefreshRequest(ws, view.selected))
    BY <1>1 DEF Refresh
  <2>5. CallsOk(calls', e)
    BY <2>3, <2>4, SentOk
  <2>6. chat' \in ChatRecord /\ chat'.runs = view.runs /\ chat'.events = view.events
        /\ chat'.selected = view.selected
    BY <2>1, <2>4 DEF ChatRecord
  <2> QED
    BY <2>5, <2>6 DEF ChatOk
<1>2. CASE ~HasItem(view)
  BY <1>2 DEF Refresh
<1> QED
  BY <1>1, <1>2

\* Without the requests of the last conversation.
LEMMA DetachedOk ==
    ASSUME NEW e, NEW f, SameTables(e, f), e.page = "chat", NEW under, CallsOk(under, e)
    PROVE  CallsOk(Detached(under), f)
<1> PICK q : q = Detached(under)
  OBVIOUS
<1>0. f.page = "chat" /\ f.page \in Pages
  BY DEF SameTables, Pages
<1>1. under \in [Slots -> CallRecord] /\ \A s \in Slots : CallOk(under[s], e)
  BY DEF CallsOk
<1>2. \A s \in Slots :
        q[s] = CASE under[s].kind \in {"refresh", "poll"} -> NoCall
                 [] under[s].kind = "start" -> [under[s] EXCEPT !.arg = "detached"]
                 [] OTHER -> under[s]
  BY DEF Detached
<1>3. CallOk(NoCall, f)
  BY <1>0, NoCallOk
<1>4. ASSUME NEW s \in Slots PROVE CallOk(q[s], f)
  <2>1. CASE under[s].kind \in {"refresh", "poll"}
    BY <1>2, <1>3, <2>1
  <2>2. CASE under[s].kind = "start"
    <3> PICK c : c = under[s]
      OBVIOUS
    <3> PICK d : d = [c EXCEPT !.arg = "detached"]
      OBVIOUS
    <3>1. q[s] = d
      BY <1>2, <2>2
    <3>2. c \in CallRecord /\ CallShape(c, e) /\ c.kind = "start"
      BY <1>1, <2>2 DEF CallOk, CallShape
    <3>3. d \in CallRecord /\ d.kind = "start" /\ d.arg = "detached" /\ d.wanted = c.wanted
      BY <3>2 DEF CallRecord
    <3>4. CallShape(d, f)
      BY <1>0, <3>2, <3>3 DEF CallShape
    <3>5. CallTrue(d, f) /\ CallAimed(d, f)
      BY <3>3 DEF CallTrue, CallAimed, ListKinds
    <3> QED
      BY <3>1, <3>4, <3>5 DEF CallOk
  <2>3. CASE under[s].kind \notin {"refresh", "poll", "start"}
    <3>1. q[s] = under[s] /\ CallOk(under[s], e)
      BY <1>1, <1>2, <2>3
    <3>2. CallShape(q[s], f)
      BY <1>0, <3>1 DEF CallOk, CallShape
    <3>3. CallTrue(q[s], f)
      BY <3>1, SameGrow, CallGrows DEF CallOk
    <3>4. q[s].kind # "detail"
      BY <1>0, <3>2 DEF CallShape, KindsOf
    <3>5. CallAimed(q[s], f)
      BY <1>0, <2>3, <3>1, <3>4 DEF CallAimed, Cancelling
    <3> QED
      BY <3>2, <3>3, <3>5 DEF CallOk
  <2> QED
    BY <2>1, <2>2, <2>3
<1>5. q \in [Slots -> CallRecord]
  <2>1. \A s \in Slots : q[s] \in CallRecord
    BY <1>4 DEF CallOk, CallShape
  <2> QED
    BY <2>1 DEF Detached
<1> QED
  BY <1>4, <1>5 DEF CallsOk

LEMMA MountOk ==
    ASSUME NEW e, NEW f, SameTables(e, f), e.page = "chat", NEW item \in Items, f.sel = item,
           NEW view \in ChatRecord, NEW under, CallsOk(under, e),
           workspace' \in Workspaces, Mount(view, under, item)
    PROVE  ChatOk(chat', f) /\ chat'.selected = item /\ CallsOk(calls', f)
<1> PICK empty : empty = [EmptyConversation(view) EXCEPT !.selected = item]
  OBVIOUS
<1> PICK ws : ws = workspace'
  OBVIOUS
<1>1. /\ empty \in ChatRecord /\ empty.selected = item /\ empty.runs = {} /\ empty.events = {}
  BY DEF EmptyConversation, ChatRecord
<1>2. ChatOk(empty, f) /\ f.sel = empty.selected
  BY <1>1 DEF ChatOk, RunRows, RowsOfItem, EventsOfItem
<1>3. CallsOk(Detached(under), f) /\ f.page = "chat"
  BY DetachedOk DEF SameTables
<1>4. Refresh(empty, Detached(under), ws)
  BY DEF Mount
<1> QED
  BY <1>1, <1>2, <1>3, <1>4, RefreshOk
LEMMA ChatMoves ==
    ASSUME NEW e, NEW f, SameTables(e, f), f.sel = e.sel, e.page = "chat"
    PROVE  /\ \A cs : CallsOk(cs, e) => CallsOk(cs, f)
           /\ \A v : ChatOk(v, e) => ChatOk(v, f)
<1>1. TablesGrow(e, f)
  BY SameGrow
<1>2. ASSUME NEW cs, CallsOk(cs, e) PROVE CallsOk(cs, f)
  <2>1. \A s \in Slots : CallAimed(cs[s], f)
    BY <1>2 DEF SameTables, CallsOk, CallOk, CallAimed, Cancelling
  <2> QED
    BY <1>1, <1>2, <2>1, CallsGrow
<1>3. \A v : ChatOk(v, e) => ChatOk(v, f)
  BY <1>1, RowsGrow DEF ChatOk
<1> QED
  BY <1>2, <1>3

\* What a step of the conversation has to show.
ChatDone(e) ==
    /\ ChatOk(chat', e) /\ CallsOk(calls', e)
    /\ workspace' \in Workspaces /\ clicks' \in 0..MaxClicks

LEMMA ChatStepDone ==
    ASSUME PagesInv, page = "chat",
           UNCHANGED <<mock, existing, surfaced, runs, approvals, profiles, page, board>>,
           NEW e, e = Seen(chat'.selected, workspace'), ChatDone(e)
    PROVE  PagesInv'
<1>1. Env' = e
  BY DEF Env, Seen
<1>2. TablesTrue' /\ page' = "chat" /\ board' = EmptyBoard
  BY DEF PagesInv, TablesTrue
<1> QED
  BY <1>1, <1>2 DEF PagesInv, ChatDone, Pages

LEMMA ChatFacts ==
    ASSUME PagesInv, page = "chat"
    PROVE  /\ ChatOk(chat, Env) /\ chat \in ChatRecord /\ CallsOk(calls, Env)
           /\ Env = Seen(chat.selected, workspace) /\ Env.page = "chat" /\ Env.page \in Pages
           /\ workspace \in Workspaces /\ clicks \in 0..MaxClicks /\ MaxClicks \in Nat
           /\ calls \in [Slots -> CallRecord] /\ TablesTrue
           /\ \A sel, ws : /\ SameTables(Env, Seen(sel, ws)) /\ Seen(sel, ws).page = "chat"
                           /\ Seen(sel, ws).sel = sel /\ Seen(sel, ws).runs = runs
                           /\ SameTables(Seen(sel, ws), Seen(sel, ws)) /\ Seen(sel, ws).ws = ws
BY ControlApiAssumption DEF PagesInv, ChatOk, Env, Seen, SameTables, CallsOk, Pages

LEMMA ClickFacts ==
    ASSUME Click, clicks \in 0..MaxClicks, MaxClicks \in Nat
    PROVE  /\ clicks' \in 0..MaxClicks
           /\ UNCHANGED <<mock, existing, surfaced, runs, approvals, profiles>>
BY DEF Click, server

LEMMA ChatSwitchStep ==
    ASSUME PagesInv, page = "chat", UNCHANGED <<page, board>>,
           NEW ws \in Workspaces, ChatSwitchWorkspace(ws)
    PROVE  PagesInv'
<1> PICK view : view = [chat EXCEPT !.loadingItems = TRUE]
  OBVIOUS
<1> PICK under : under = Send(calls, ListRequest(ws))
  OBVIOUS
<1> PICK e : e = Seen(chat.selected, ws)
  OBVIOUS
<1>1. workspace' = ws /\ Free(calls) # {} /\ Click /\ Refresh(view, under, ws)
  BY DEF ChatSwitchWorkspace
<1>2. ChatOk(chat, e) /\ CallsOk(calls, e) /\ e.page = "chat" /\ e.sel = chat.selected
  BY ChatFacts, ChatMoves
<1>3. view.selected = chat.selected /\ ChatOk(view, e)
  BY <1>2 DEF ChatOk, ChatRecord
<1>4. Asked("conversations", ws, None, {"items"}, e)
  BY <1>2 DEF Asked, Pages, KindsOf, Kinds, Ids, Parts, PartsOf
<1>5. CallsOk(under, e)
  BY <1>1, <1>2, <1>4, RequestOk, SentOk DEF ListRequest
<1>6. ChatOk(chat', e) /\ chat'.selected = chat.selected /\ CallsOk(calls', e)
  BY <1>1, <1>2, <1>3, <1>5, RefreshOk
<1>7. ChatDone(e) /\ e = Seen(chat'.selected, workspace')
  BY <1>1, <1>6, ChatFacts, ClickFacts DEF ChatDone
<1> QED
  BY <1>1, <1>7, ChatStepDone, ChatFacts, ClickFacts

\* A request of the conversation beside what it shows.
LEMMA ChatSendStep ==
    ASSUME PagesInv, page = "chat", UNCHANGED <<page, board>>,
           NEW kind, NEW id, NEW parts, Asked(kind, workspace, id, parts, Env),
           Free(calls) # {}, calls' = Send(calls, Request(kind, workspace, id, parts)),
           workspace' = workspace, clicks' \in 0..MaxClicks,
           UNCHANGED <<mock, existing, surfaced, runs, approvals, profiles>>,
           chat' \in ChatRecord, chat'.runs = chat.runs, chat'.events = chat.events,
           chat'.selected = chat.selected
    PROVE  PagesInv'
<1> PICK e : e = Env
  OBVIOUS
<1>1. ChatOk(chat', e)
  BY ChatFacts DEF ChatOk
<1>2. CallsOk(calls', e)
  BY ChatFacts, RequestOk, SentOk
<1>3. ChatDone(e) /\ e = Seen(chat'.selected, workspace')
  BY <1>1, <1>2, ChatFacts DEF ChatDone
<1> QED
  BY <1>3, ChatStepDone

LEMMA ReloadItemsStep ==
    ASSUME PagesInv, page = "chat", UNCHANGED <<page, board>>, ReloadItems
    PROVE  PagesInv'
<1>1. Asked("conversations", workspace, None, {"items"}, Env)
  BY ChatFacts DEF Asked, Pages, KindsOf, Kinds, Ids, Parts, PartsOf
<1>2. /\ chat' \in ChatRecord /\ chat'.runs = chat.runs /\ chat'.events = chat.events
      /\ chat'.selected = chat.selected
  BY ChatFacts DEF ReloadItems, ChatRecord
<1> QED
  BY <1>1, <1>2, ChatFacts, ClickFacts, ChatSendStep DEF ReloadItems, ListRequest

LEMMA SubmitMessageStep ==
    ASSUME PagesInv, page = "chat", UNCHANGED <<page, board>>, SubmitMessage
    PROVE  PagesInv'
<1>0. chat.selected \in Items
  BY ChatFacts DEF SubmitMessage, HasItem, ChatRecord
<1>1. Asked("start", workspace, chat.selected, {"write"}, Env)
  BY <1>0, ChatFacts DEF Asked, Pages, KindsOf, Kinds, Ids, Parts, PartsOf
<1>2. /\ chat' \in ChatRecord /\ chat'.runs = chat.runs /\ chat'.events = chat.events
      /\ chat'.selected = chat.selected
  BY ChatFacts DEF SubmitMessage, ChatRecord
<1> QED
  BY <1>1, <1>2, ChatFacts, ClickFacts, ChatSendStep DEF SubmitMessage

LEMMA CreateConversationStep ==
    ASSUME PagesInv, page = "chat", UNCHANGED <<page, board>>, CreateConversation
    PROVE  PagesInv'
<1>1. Asked("create", workspace, None, {"write"}, Env)
  BY ChatFacts DEF Asked, Pages, KindsOf, Kinds, Ids, Parts, PartsOf
<1>2. /\ chat' \in ChatRecord /\ chat'.runs = chat.runs /\ chat'.events = chat.events
      /\ chat'.selected = chat.selected
  BY ChatFacts DEF CreateConversation, ChatRecord
<1> QED
  BY <1>1, <1>2, ChatFacts, ClickFacts, ChatSendStep DEF CreateConversation

\* A run that is polled, or followed by the socket, is one that is shown.
LEMMA WantedRun ==
    ASSUME PagesInv, page = "chat", NEW r, PollWanted(r)
    PROVE  r \in DOMAIN runs /\ runs[r].item = chat.selected /\ chat.selected \in Items
<1>1. PICK row \in chat.runs : row.id = r
  BY DEF PollWanted, IsActive, ActiveRuns
<1> QED
  BY <1>1, ChatFacts, EnvFields DEF ChatOk, ChatRecord, RunRows, RowsOfItem, PollWanted, HasItem

LEMMA PollRequestStep ==
    ASSUME PagesInv, page = "chat", UNCHANGED <<page, board>>, NEW r \in RunIds, Poll(r)
    PROVE  PagesInv'
<1>0. r \in DOMAIN runs /\ runs[r].item = chat.selected /\ r \in Ids
  BY WantedRun DEF Poll, Ids
<1>1. Asked("poll", workspace, r, {"runEvents"}, Env)
  BY <1>0, ChatFacts, EnvFields DEF Asked, Pages, KindsOf, Kinds, Parts, PartsOf
<1>2. /\ chat' \in ChatRecord /\ chat'.runs = chat.runs /\ chat'.events = chat.events
      /\ chat'.selected = chat.selected
  BY ChatFacts DEF Poll
<1>3. UNCHANGED <<mock, existing, surfaced, runs, approvals, profiles, clicks, workspace>>
  BY DEF Poll, server
<1> QED
  BY <1>1, <1>2, <1>3, ChatFacts, ChatSendStep DEF Poll

LEMMA SelectConversationStep ==
    ASSUME PagesInv, page = "chat", UNCHANGED <<page, board>>, NEW i \in Items, SelectConversation(i)
    PROVE  PagesInv'
<1> PICK e : e = Seen(i, workspace)
  OBVIOUS
<1>1. workspace' = workspace /\ Click /\ Mount(chat, calls, i)
  BY DEF SelectConversation
<1>2. ChatOk(chat', e) /\ chat'.selected = i /\ CallsOk(calls', e)
  BY <1>1, ChatFacts, MountOk
<1>3. ChatDone(e) /\ e = Seen(chat'.selected, workspace')
  BY <1>1, <1>2, ChatFacts, ClickFacts DEF ChatDone
<1> QED
  BY <1>1, <1>3, ChatStepDone, ChatFacts, ClickFacts

LEMMA RefreshClickStep ==
    ASSUME PagesInv, page = "chat", UNCHANGED <<page, board>>, RefreshClick
    PROVE  PagesInv'
<1> PICK e : e = Env
  OBVIOUS
<1>1. workspace' = workspace /\ Click /\ Refresh(chat, calls, workspace)
  BY DEF RefreshClick
<1>2. ChatOk(chat', e) /\ chat'.selected = chat.selected /\ CallsOk(calls', e)
  BY <1>1, ChatFacts, RefreshOk, EnvFields
<1>3. ChatDone(e) /\ e = Seen(chat'.selected, workspace')
  BY <1>1, <1>2, ChatFacts, ClickFacts DEF ChatDone
<1> QED
  BY <1>1, <1>3, ChatStepDone, ChatFacts, ClickFacts
\* An answer that the conversation takes: its slot is free again.
LEMMA ArrivedFacts ==
    ASSUME NEW s \in Slots, NEW kind, Arrived(s, kind)
    PROVE  /\ calls[s].kind = kind /\ calls[s].wanted = {}
           /\ UNCHANGED <<mock, existing, surfaced, runs, approvals, profiles, workspace, clicks>>
BY DEF Arrived, server

LEMMA TakenHere ==
    ASSUME PagesInv, NEW s \in Slots
    PROVE  /\ CallsOk(calls, Env) /\ CallOk(calls[s], Env) /\ calls[s] \in CallRecord
           /\ CallTrue(calls[s], Env) /\ CallAimed(calls[s], Env) /\ CallShape(calls[s], Env)
           /\ CallsOk(Taken(s), Env) /\ s \in Free(Taken(s))
           /\ \A t \in Slots : t # s => Taken(s)[t] = calls[t]
<1>1. Env.page \in Pages /\ CallsOk(calls, Env)
  BY EnvFields DEF PagesInv
<1> QED
  BY <1>1, TakenOk DEF CallsOk, CallOk, CallShape

LEMMA ItemsLoadedStep ==
    ASSUME PagesInv, page = "chat", UNCHANGED <<page, board>>, NEW s \in Slots, ItemsLoaded(s)
    PROVE  PagesInv'
<1> PICK call : call = calls[s]
  OBVIOUS
<1> PICK items : items = {row.id : row \in call.rows}
  OBVIOUS
<1> PICK view : view = [chat EXCEPT !.items = items, !.loadingItems = FALSE]
  OBVIOUS
<1> PICK e : e = Env
  OBVIOUS
<1>0. Arrived(s, "conversations") /\ call.kind = "conversations" /\ workspace' = workspace
  BY ArrivedFacts DEF ItemsLoaded
<1>1. items \subseteq Items
  BY <1>0, TakenHere DEF CallTrue, ItemRows
<1>2. /\ view \in ChatRecord /\ view.selected = chat.selected
      /\ view.runs = chat.runs /\ view.events = chat.events
  BY <1>1, ChatFacts DEF ChatRecord
<1>3. ChatOk(view, e)
  BY <1>2, ChatFacts DEF ChatOk
<1>4. CASE ~call.ok
  <2>1. chat' = [chat EXCEPT !.loadingItems = FALSE] /\ calls' = Taken(s)
    BY <1>4 DEF ItemsLoaded
  <2>2. ChatOk(chat', e) /\ chat'.selected = chat.selected
    BY <2>1, ChatFacts DEF ChatOk, ChatRecord
  <2>3. ChatDone(e) /\ e = Seen(chat'.selected, workspace')
    BY <1>0, <2>1, <2>2, TakenHere, ChatFacts, ArrivedFacts DEF ChatDone
  <2> QED
    BY <1>0, <2>3, ChatStepDone, ArrivedFacts
<1>5. CASE call.ok /\ chat.selected = None /\ items # {}
  <2>1. PICK first \in items : Mount(view, Taken(s), first)
    BY <1>5 DEF ItemsLoaded
  <2> PICK f : f = Seen(first, workspace)
    OBVIOUS
  <2>2. ChatOk(chat', f) /\ chat'.selected = first /\ CallsOk(calls', f)
    BY <1>0, <1>1, <1>2, <2>1, TakenHere, ChatFacts, MountOk
  <2>3. ChatDone(f) /\ f = Seen(chat'.selected, workspace')
    BY <1>0, <2>2, ChatFacts, ArrivedFacts DEF ChatDone
  <2> QED
    BY <1>0, <2>3, ChatStepDone, ArrivedFacts
<1>6. CASE call.ok /\ ~(chat.selected = None /\ items # {})
  <2>1. Refresh(view, Taken(s), workspace)
    BY <1>6 DEF ItemsLoaded
  <2>2. ChatOk(chat', e) /\ chat'.selected = view.selected /\ CallsOk(calls', e)
    <3>1. e.page = "chat" /\ e.sel = view.selected /\ workspace \in Workspaces
      BY <1>2, ChatFacts, EnvFields
    <3>2. CallsOk(Taken(s), e)
      BY TakenHere
    <3> QED
      BY <1>3, <2>1, <3>1, <3>2, RefreshOk
  <2>3. ChatDone(e) /\ e = Seen(chat'.selected, workspace')
    BY <1>0, <1>2, <2>2, ChatFacts, ArrivedFacts DEF ChatDone
  <2> QED
    BY <1>0, <2>3, ChatStepDone, ArrivedFacts
<1> QED
  BY <1>4, <1>5, <1>6

LEMMA CreatedStep ==
    ASSUME PagesInv, page = "chat", UNCHANGED <<page, board>>, NEW s \in Slots, Created(s)
    PROVE  PagesInv'
<1> PICK items : items = chat.items \union {row.id : row \in calls[s].rows}
  OBVIOUS
<1> PICK view : view = [chat EXCEPT !.items = items, !.creating = FALSE]
  OBVIOUS
<1> PICK e : e = Env
  OBVIOUS
<1>0. Arrived(s, "create") /\ calls[s].kind = "create" /\ workspace' = workspace
  BY ArrivedFacts DEF Created
<1>1. \A row \in calls[s].rows : row.id \in Items
  BY <1>0, TakenHere DEF CallTrue, ItemRows
<1>2. items \subseteq Items
  BY <1>1, ChatFacts DEF ChatRecord
<1>3. /\ view \in ChatRecord /\ view.selected = chat.selected
      /\ view.runs = chat.runs /\ view.events = chat.events
  BY <1>2, ChatFacts DEF ChatRecord
<1>4. CASE calls[s].ok
  <2>1. PICK row \in calls[s].rows : Mount(view, Taken(s), row.id)
    BY <1>4 DEF Created
  <2> PICK item : item = row.id
    OBVIOUS
  <2> PICK f : f = Seen(item, workspace)
    OBVIOUS
  <2>2. item \in Items /\ Mount(view, Taken(s), item)
    BY <1>1, <2>1
  <2>3. ChatOk(chat', f) /\ chat'.selected = item /\ CallsOk(calls', f)
    BY <1>0, <1>3, <2>2, TakenHere, ChatFacts, MountOk
  <2>4. ChatDone(f) /\ f = Seen(chat'.selected, workspace')
    BY <1>0, <2>3, ChatFacts, ArrivedFacts DEF ChatDone
  <2> QED
    BY <1>0, <2>4, ChatStepDone, ArrivedFacts
<1>5. CASE ~calls[s].ok
  <2>1. chat' = view /\ calls' = Taken(s)
    BY <1>5 DEF Created
  <2>2. ChatOk(chat', e) /\ chat'.selected = chat.selected
    BY <1>3, <2>1, ChatFacts DEF ChatOk
  <2>3. ChatDone(e) /\ e = Seen(chat'.selected, workspace')
    BY <1>0, <2>1, <2>2, TakenHere, ChatFacts, ArrivedFacts DEF ChatDone
  <2> QED
    BY <1>0, <2>3, ChatStepDone, ArrivedFacts
<1> QED
  BY <1>4, <1>5

LEMMA RefreshedStep ==
    ASSUME PagesInv, page = "chat", UNCHANGED <<page, board>>, NEW s \in Slots, Refreshed(s)
    PROVE  PagesInv'
<1> PICK e : e = Env
  OBVIOUS
<1> PICK c : c = calls[s]
  OBVIOUS
<1>0. Arrived(s, "refresh") /\ c.kind = "refresh" /\ workspace' = workspace /\ calls' = Taken(s)
  BY ArrivedFacts DEF Refreshed
<1>1. /\ c \in CallRecord /\ c.id = chat.selected
      /\ RunRows(c.rows, e) /\ RowsOfItem(c.rows, e, c.id) /\ EventsOfItem(c.entries, e, c.id)
  BY <1>0, TakenHere, ChatFacts, EnvFields DEF CallTrue, CallAimed
<1>2. /\ chat' \in ChatRecord /\ chat'.runs = c.rows /\ chat'.events = c.entries
      /\ chat'.selected = chat.selected
  <2> PICK sub : sub = IF c.arg = "submit" THEN FALSE ELSE chat.submitting
    OBVIOUS
  <2>1. sub \in BOOLEAN
    BY ChatFacts DEF ChatRecord
  <2>2. chat' = [chat EXCEPT !.runs = c.rows, !.events = c.entries, !.loading = FALSE, !.submitting = sub]
    BY DEF Refreshed
  <2>3. c.rows \in SUBSET RowType /\ c.entries \in SUBSET EntryType
    BY <1>1 DEF CallRecord
  <2> QED
    BY <2>1, <2>2, <2>3, ChatFacts DEF ChatRecord
<1>3. ChatOk(chat', e)
  BY <1>1, <1>2 DEF ChatOk
<1>4. ChatDone(e) /\ e = Seen(chat'.selected, workspace')
  BY <1>0, <1>2, <1>3, TakenHere, ChatFacts, ArrivedFacts DEF ChatDone
<1> QED
  BY <1>0, <1>4, ChatStepDone, ArrivedFacts

LEMMA SubmittedStep ==
    ASSUME PagesInv, page = "chat", UNCHANGED <<page, board>>, NEW s \in Slots, Submitted(s)
    PROVE  PagesInv'
<1> PICK e : e = Env
  OBVIOUS
<1> PICK c : c = calls[s]
  OBVIOUS
<1>0. Arrived(s, "start") /\ c.kind = "start" /\ workspace' = workspace
  BY ArrivedFacts DEF Submitted
<1>1. CASE c.arg # "detached" /\ c.ok
  <2> PICK r : r = RefreshRequest(c.ws, c.id)
    OBVIOUS
  <2> PICK a : a = [r EXCEPT !.arg = "submit"]
    OBVIOUS
  <2>1. chat' = [chat EXCEPT !.loading = TRUE] /\ calls' = [calls EXCEPT ![s] = a]
    BY <1>1 DEF Submitted
  <2>2. c \in CallRecord /\ c.id = chat.selected
    BY <1>0, <1>1, TakenHere, ChatFacts, EnvFields DEF CallAimed
  <2>3. Asked("refresh", c.ws, c.id, {"runs", "events"}, e)
    BY <2>2, ChatFacts, EnvFields DEF Asked, Pages, KindsOf, Kinds, Ids, Parts, PartsOf, CallRecord
  <2>4. CallOk(r, e) /\ r.kind = "refresh"
    BY <2>3, RequestOk DEF RefreshRequest, Request
  <2>5. /\ a \in CallRecord /\ a.kind = r.kind /\ a.id = r.id /\ a.wanted = r.wanted
        /\ a.rows = r.rows /\ a.entries = r.entries
    BY <2>4 DEF CallOk, CallShape, CallRecord
  <2>6. CallOk(a, e)
    BY <2>4, <2>5 DEF CallOk, CallShape, CallTrue, CallAimed, ListKinds
  <2>7. CallsOk(calls', e)
    BY <2>1, <2>6, TakenHere, ChangedOk
  <2>8. ChatOk(chat', e) /\ chat'.selected = chat.selected
    BY <2>1, ChatFacts DEF ChatOk, ChatRecord
  <2>9. ChatDone(e) /\ e = Seen(chat'.selected, workspace')
    BY <1>0, <2>7, <2>8, ChatFacts, ArrivedFacts DEF ChatDone
  <2> QED
    BY <1>0, <2>9, ChatStepDone, ArrivedFacts
<1>2. CASE c.arg = "detached" \/ ~c.ok
  <2>1. calls' = Taken(s) /\ (chat' = chat \/ chat' = [chat EXCEPT !.submitting = FALSE])
    BY <1>2 DEF Submitted
  <2>2. /\ chat' \in ChatRecord /\ chat'.runs = chat.runs /\ chat'.events = chat.events
        /\ chat'.selected = chat.selected
    <3>1. CASE chat' = chat
      BY <3>1, ChatFacts
    <3>2. CASE chat' = [chat EXCEPT !.submitting = FALSE]
      BY <3>2, ChatFacts DEF ChatRecord
    <3> QED
      BY <2>1, <3>1, <3>2
  <2>3. ChatOk(chat', e)
    BY <2>2, ChatFacts DEF ChatOk
  <2>4. ChatDone(e) /\ e = Seen(chat'.selected, workspace')
    BY <1>0, <2>1, <2>2, <2>3, TakenHere, ChatFacts, ArrivedFacts DEF ChatDone
  <2> QED
    BY <1>0, <2>4, ChatStepDone, ArrivedFacts
<1> QED
  BY <1>1, <1>2

LEMMA PolledStep ==
    ASSUME PagesInv, page = "chat", UNCHANGED <<page, board>>, NEW s \in Slots, Polled(s)
    PROVE  PagesInv'
<1> PICK e : e = Env
  OBVIOUS
<1> PICK c : c = calls[s]
  OBVIOUS
<1>0. Arrived(s, "poll") /\ c.kind = "poll" /\ workspace' = workspace /\ calls' = Taken(s)
  BY ArrivedFacts DEF Polled
<1>1. EventsOfItem(c.entries, e, chat.selected) /\ c.entries \in SUBSET EntryType
  <2>1. /\ c.id \in DOMAIN e.runs /\ EntriesOfRun(c.entries, c.id)
        /\ \A entry \in c.entries : entry[2] # 0
    BY <1>0, TakenHere DEF CallTrue
  <2>2. e.runs[c.id].item = chat.selected /\ c \in CallRecord
    BY <1>0, TakenHere, ChatFacts, EnvFields DEF CallAimed
  <2> QED
    BY <2>1, <2>2 DEF EntriesOfRun, EventsOfItem, EntryOfRun, CallRecord
<1>2. ChatOk(chat', e) /\ chat'.selected = chat.selected
  <2> PICK events : events = chat.events \cup c.entries
    OBVIOUS
  <2>1. chat' = chat \/ chat' = [chat EXCEPT !.events = events]
    BY DEF Polled, MergeChatEvents
  <2>2. events \in SUBSET EntryType
    BY <1>1, ChatFacts DEF ChatRecord
  <2>3. EventsOfItem(events, e, chat.selected)
    BY <1>1, ChatFacts DEF ChatOk, EventsOfItem
  <2>4. CASE chat' = chat
    BY <2>4, ChatFacts
  <2>5. CASE chat' = [chat EXCEPT !.events = events]
    <3>1. /\ chat' \in ChatRecord /\ chat'.runs = chat.runs /\ chat'.events = events
          /\ chat'.selected = chat.selected
      BY <2>2, <2>5, ChatFacts DEF ChatRecord
    <3> QED
      BY <2>3, <3>1, ChatFacts DEF ChatOk
  <2> QED
    BY <2>1, <2>4, <2>5
<1>3. ChatDone(e) /\ e = Seen(chat'.selected, workspace')
  BY <1>0, <1>2, TakenHere, ChatFacts, ArrivedFacts DEF ChatDone
<1> QED
  BY <1>0, <1>3, ChatStepDone, ArrivedFacts

LEMMA RealtimeEventStep ==
    ASSUME PagesInv, page = "chat", UNCHANGED <<page, board>>,
           NEW r \in RunIds, NEW seq \in 1..MaxEvents, RealtimeEvent(r, seq)
    PROVE  PagesInv'
<1> PICK e : e = Env
  OBVIOUS
<1> PICK rows : rows = RunsAfter(chat.runs, r, seq)
  OBVIOUS
<1> PICK events : events = chat.events \cup {<<r, seq>>}
  OBVIOUS
<1>0. /\ chat' = [chat EXCEPT !.events = events, !.runs = rows]
      /\ seq \in 1..runs[r].events /\ UNCHANGED api
  BY DEF RealtimeEvent, MergeChatEvents
<1>1. r \in DOMAIN runs /\ runs[r].item = chat.selected /\ runs[r].events \in 1..MaxEvents
  BY WantedRun, RunFacts, ChatFacts DEF RealtimeEvent
<1>2. seq = MaxEvents => runs[r].events = MaxEvents
  BY <1>0, <1>1, RunFacts, ChatFacts
<1>3. events \in SUBSET EntryType /\ EventsOfItem(events, e, chat.selected)
  <2>1. <<r, seq>> \in EntryType
    BY <1>1, RunFacts, ChatFacts DEF EntryType
  <2>2. seq # 0 /\ e.runs = runs
    BY EnvFields
  <2> QED
    BY <1>1, <2>1, <2>2, ChatFacts DEF ChatOk, ChatRecord, EventsOfItem, EntryOfRun
<1>4. \A new \in rows : \E row \in chat.runs :
        /\ row.id = r \/ new = row
        /\ new = row \/ new = [row EXCEPT !.status = StatusAt(seq)]
  BY DEF RunsAfter
<1>5. ASSUME NEW row \in chat.runs, NEW new, new = [row EXCEPT !.status = StatusAt(seq)], row.id = r
      PROVE  /\ new \in RowType /\ new.id = row.id /\ new.ws = row.ws
             /\ new.status = "succeeded" => runs[r].events = MaxEvents
  <2>1. row \in RowType
    BY ChatFacts DEF ChatRecord
  <2>2. StatusAt(seq) \in {"queued", "running", "succeeded"}
    BY StatusFacts
  <2>3. new.status = StatusAt(seq) /\ new \in RowType /\ new.id = row.id /\ new.ws = row.ws
    BY <2>1, <2>2, <1>5 DEF RowType
  <2> QED
    BY <2>3, <1>2, StatusFacts
<1>6. rows \in SUBSET RowType
  BY <1>4, <1>5, ChatFacts DEF ChatRecord
<1>7. RunRows(rows, e) /\ RowsOfItem(rows, e, chat.selected)
  <2>1. e.runs = runs /\ RunRows(chat.runs, e) /\ RowsOfItem(chat.runs, e, chat.selected)
    BY EnvFields, ChatFacts DEF ChatOk
  <2> QED
    BY <1>4, <1>5, <2>1 DEF RunRows, RowsOfItem
<1>8. ChatOk(chat', e) /\ chat'.selected = chat.selected
  BY <1>0, <1>3, <1>6, <1>7, ChatFacts DEF ChatOk, ChatRecord
<1>9. /\ UNCHANGED <<mock, existing, surfaced, runs, approvals, profiles>>
      /\ calls' = calls /\ workspace' = workspace /\ clicks' = clicks
  BY <1>0 DEF api, server
<1>10. ChatDone(e) /\ e = Seen(chat'.selected, workspace')
  BY <1>8, <1>9, ChatFacts DEF ChatDone
<1> QED
  BY <1>9, <1>10, ChatStepDone

LEMMA ChatKeeps ==
    ASSUME PagesInv, page = "chat", ChatStep, UNCHANGED <<page, board>>
    PROVE  PagesInv'
<1>1. CASE ChatClick
  BY <1>1, ChatSwitchStep, ReloadItemsStep, RefreshClickStep, SubmitMessageStep,
     CreateConversationStep, SelectConversationStep DEF ChatClick
<1>2. ASSUME NEW s \in Slots, ChatTakes(s) PROVE PagesInv'
  BY <1>2, ItemsLoadedStep, CreatedStep, RefreshedStep, SubmittedStep, PolledStep DEF ChatTakes
<1> QED
  BY <1>1, <1>2, PollRequestStep, RealtimeEventStep DEF ChatStep
-----------------------------------------------------------------------------
(***************************************************************************)
(* The boards.                                                             *)
(***************************************************************************)
LEMMA RoomFacts ==
    ASSUME NEW under
    PROVE  /\ Room(under, 1) => Free(under) # {}
           /\ Room(under, 2) => Free(under) # {} /\ \A s : Free(under) # {s}
<1>1. Cardinality({}) = 0 /\ \A s : Cardinality({s}) = 1
  BY FS_EmptySet, FS_Singleton
<1> QED
  BY <1>1 DEF Room

\* The requests of a board, when a row is selected or another workspace.
LEMMA BoardAims ==
    ASSUME NEW e, NEW f, SameTables(e, f), e.page \in BoardPages, NEW cs, CallsOk(cs, e),
           f.sel = e.sel \/ \A s \in Slots : cs[s].kind # "detail",
           f.ws = e.ws \/ e.page \notin Cancelling \/ \A s \in Slots : cs[s].kind \notin ListKinds
    PROVE  CallsOk(cs, f)
<1>1. ASSUME NEW s \in Slots PROVE CallAimed(cs[s], f)
  <2>1. CallAimed(cs[s], e) /\ cs[s].kind \in KindsOf(e.page)
    BY DEF CallsOk, CallOk, CallShape
  <2>2. cs[s].kind \notin {"refresh", "start", "poll"}
    BY <2>1 DEF KindsOf, BoardPages
  <2> QED
    BY <2>1, <2>2 DEF CallAimed, SameTables
<1> QED
  BY <1>1, SameGrow, CallsGrow

LEMMA OpenListOk ==
    ASSUME page \in BoardPages, NEW e, NEW f, SameTables(e, f), e.page = page,
           NEW ws \in Workspaces, f.ws = ws, NEW under, CallsOk(under, e),
           f.sel = e.sel \/ \A s \in Slots : under[s].kind # "detail",
           Free(CancelledList(under)) # {}
    PROVE  /\ CallsOk(OpenList(under, ws), f)
           /\ \E s \in Slots : OpenList(under, ws)[s].kind = "list"
           /\ \A s \in Slots : under[s].kind = "detail" => OpenList(under, ws)[s] = under[s]
<1> PICK u : u = CancelledList(under)
  OBVIOUS
<1> PICK r : r = Request("list", ws, None, ListParts[page])
  OBVIOUS
<1>0. e.page \in Pages /\ f.page = page /\ f.page \in Pages
  BY DEF Pages, SameTables
<1>1. /\ CallsOk(u, e) /\ \A s \in Slots : under[s].kind = "detail" => u[s] = under[s]
      /\ page \in Cancelling => \A s \in Slots : u[s].kind \notin ListKinds
      /\ \A s \in Slots : u[s].kind = "detail" => under[s].kind = "detail"
  <2>1. CASE page \in Cancelling
    <3>1. u = Cancelled(under, ListKinds) /\ "none" \notin ListKinds /\ "detail" \notin ListKinds
      BY <2>1 DEF CancelledList, ListKinds
    <3>2. /\ CallsOk(u, e)
          /\ \A s \in Slots : /\ u[s].kind \notin ListKinds
                              /\ under[s].kind \notin ListKinds => u[s] = under[s]
      BY <1>0, <3>1, CancelledOk
    <3>3. \A s \in Slots : u[s].kind = "detail" => under[s].kind = "detail"
      BY <3>1 DEF Cancelled, NoCall, Request
    <3> QED
      BY <3>1, <3>2, <3>3
  <2>2. CASE page \notin Cancelling
    BY <2>2 DEF CancelledList
  <2> QED
    BY <2>1, <2>2
<1>2. CallsOk(u, f)
  BY <1>1, BoardAims
<1>3. Asked("list", ws, None, ListParts[page], f)
  BY <1>0 DEF Asked, KindsOf, Kinds, Ids, Parts, PartsOf, ListParts, BoardPages
<1>4. CallOk(r, f) /\ r.kind = "list"
  BY <1>3, RequestOk DEF Request
<1>5. OpenList(under, ws) = Send(u, r) /\ Free(u) # {}
  BY DEF OpenList
<1>6. /\ CallsOk(Send(u, r), f) /\ \E s \in Slots : Send(u, r)[s] = r
      /\ \A s \in Slots : u[s].kind # "none" => Send(u, r)[s] = u[s]
  BY <1>2, <1>4, <1>5, SentOk
<1> QED
  BY <1>1, <1>4, <1>5, <1>6

LEMMA OpenDetailOk ==
    ASSUME page \in {"work", "artifacts", "admin"}, NEW e, NEW f, SameTables(e, f), e.page = page,
           f.ws = e.ws, NEW id \in Ids, f.sel = id, page = "admin" => id \in DOMAIN e.runs,
           NEW ws \in Workspaces, NEW under, CallsOk(under, e), Free(CancelledDetail(under)) # {}
    PROVE  /\ CallsOk(OpenDetail(under, ws, id), f)
           /\ \E s \in Slots : OpenDetail(under, ws, id)[s].kind = "detail"
           /\ \A s \in Slots :
                under[s].kind \notin {"none", "detail"} => OpenDetail(under, ws, id)[s] = under[s]
<1> PICK u : u = CancelledDetail(under)
  OBVIOUS
<1> PICK r : r = Request("detail", ws, id, DetailParts[page])
  OBVIOUS
<1>0. e.page \in Pages /\ f.page = page /\ f.page \in Pages /\ page \in BoardPages
  BY DEF Pages, SameTables, BoardPages
<1>1. /\ CallsOk(u, e)
      /\ \A s \in Slots : /\ u[s].kind \notin {"detail"}
                          /\ under[s].kind \notin {"detail"} => u[s] = under[s]
  BY <1>0, CancelledOk DEF CancelledDetail
<1>2. CallsOk(u, f)
  BY <1>0, <1>1, BoardAims
<1>3. Asked("detail", ws, id, DetailParts[page], f)
  BY <1>0 DEF Asked, KindsOf, Kinds, Parts, PartsOf, DetailParts, SameTables
<1>4. CallOk(r, f) /\ r.kind = "detail"
  BY <1>3, RequestOk DEF Request
<1>5. OpenDetail(under, ws, id) = Send(u, r) /\ Free(u) # {}
  BY DEF OpenDetail
<1>6. /\ CallsOk(Send(u, r), f) /\ \E s \in Slots : Send(u, r)[s] = r
      /\ \A s \in Slots : u[s].kind # "none" => Send(u, r)[s] = u[s]
  BY <1>2, <1>4, <1>5, SentOk
<1> QED
  BY <1>1, <1>4, <1>5, <1>6

\* What a board shows does not change with what is selected, but for the detail.
LEMMA BoardRowsSame ==
    ASSUME NEW e, NEW f, SameTables(e, f), NEW b, BoardRows(b, e)
    PROVE  BoardRows(b, f)
BY SameGrow, RowsGrow DEF BoardRows, SameTables

LEMMA DetailSame ==
    ASSUME NEW e, NEW f, SameTables(e, f), f.sel = e.sel, NEW d, DetailOf(d, e)
    PROVE  DetailOf(d, f)
BY SameGrow, RowsGrow DEF DetailOf, SameTables

LEMMA EmptyDetail ==
    ASSUME NEW e, NEW d, d.rows = {}, d.entries = {}
    PROVE  DetailOf(d, e)
BY DEF DetailOf, RunRows, RowsOfItem, EntriesOfItem, EntriesOfRun

LEMMA ReloadOk ==
    ASSUME page \in BoardPages, NEW e, NEW f, SameTables(e, f), e.page = page,
           NEW b \in BoardRecord, e.sel = b.selected, BoardRows(b, e),
           NEW under, CallsOk(under, e), DetailOk(b, under, e),
           NEW ws \in Workspaces, f.ws = ws, Reload(b, under, ws),
           f.sel = IF page = "work" THEN None ELSE b.selected,
           Free(CancelledList(under)) # {}
    PROVE  board'.selected = f.sel /\ BoardOk(board', calls', f) /\ CallsOk(calls', f)
<1>0. f.page = page /\ e.page \in Pages
  BY DEF SameTables, Pages
<1>1. CASE page = "work"
  <2> PICK u : u = CancelledDetail(under)
    OBVIOUS
  <2>1. /\ board' = [NoDetail(b) EXCEPT !.loading = TRUE, !.error = FALSE, !.rows = {}, !.selected = None]
        /\ calls' = OpenList(u, ws)
    BY <1>1 DEF Reload
  <2>2. /\ board' \in BoardRecord /\ board'.rows = {} /\ board'.selected = None
        /\ board'.detail.rows = {} /\ board'.detail.entries = {}
    BY <2>1 DEF NoDetail, EmptyBoard, BoardRecord, Ids
  <2>3. /\ CallsOk(u, e)
        /\ \A s \in Slots : u[s].kind \notin {"detail"}
    BY <1>0, CancelledOk DEF CancelledDetail
  <2>4. Free(CancelledList(u)) # {}
    <3>1. PICK s \in Free(CancelledList(under)) : TRUE
      OBVIOUS
    <3>2. s \in Slots /\ CancelledList(under)[s].kind = "none"
      BY <3>1 DEF Free
    <3>3. CancelledList(u)[s].kind = "none"
      BY <3>2, <1>1 DEF CancelledList, CancelledDetail, Cancelled, Cancelling, NoCall, Request
    <3> QED
      BY <3>2, <3>3 DEF Free
  <2>5. CallsOk(calls', f) /\ \E s \in Slots : calls'[s].kind = "list"
    BY <2>1, <2>3, <2>4, OpenListOk
  <2>6. BoardRows(board', f)
    BY <1>0, <1>1, <2>2 DEF BoardRows, ItemRows
  <2>7. DetailOk(board', calls', f)
    BY <2>2, EmptyDetail DEF DetailOk
  <2>8. ListOk(board', calls', f)
    BY <2>5 DEF ListOk, Sends, ListKinds
  <2> QED
    BY <1>1, <2>2, <2>5, <2>6, <2>7, <2>8 DEF BoardOk
<1>2. CASE page # "work"
  <2>1. board' = [b EXCEPT !.loading = TRUE, !.error = FALSE] /\ calls' = OpenList(under, ws)
    BY <1>2 DEF Reload
  <2>2. /\ board' \in BoardRecord /\ board'.rows = b.rows /\ board'.selected = b.selected
        /\ board'.detail = b.detail /\ board'.workshop = b.workshop
    BY <2>1 DEF BoardRecord
  <2>3. /\ CallsOk(calls', f) /\ \E s \in Slots : calls'[s].kind = "list"
        /\ \A s \in Slots : under[s].kind = "detail" => calls'[s] = under[s]
    BY <2>1, <1>2, OpenListOk
  <2>4. BoardRows(board', f)
    <3>1. BoardRows(b, f)
      BY BoardRowsSame
    <3> QED
      BY <2>2, <3>1 DEF BoardRows
  <2>5. DetailOk(board', calls', f)
    <3>1. DetailOf(b.detail, e) => DetailOf(b.detail, f)
      BY <1>2, DetailSame
    <3> QED
      BY <2>2, <2>3, <3>1 DEF DetailOk, Sends
  <2>6. ListOk(board', calls', f)
    BY <2>3 DEF ListOk, Sends, ListKinds
  <2> QED
    BY <1>2, <2>2, <2>3, <2>4, <2>5, <2>6 DEF BoardOk
<1> QED
  BY <1>1, <1>2

\* What a step of a board has to show.
BoardDone(e) ==
    /\ BoardOk(board', calls', e) /\ CallsOk(calls', e)
    /\ workspace' \in Workspaces /\ clicks' \in 0..MaxClicks

LEMMA BoardStepDone ==
    ASSUME PagesInv, page \in BoardPages,
           UNCHANGED <<mock, existing, surfaced, runs, approvals, profiles, page, chat>>,
           NEW e, e = Seen(board'.selected, workspace'), BoardDone(e)
    PROVE  PagesInv'
<1>0. page # "chat" /\ page' = page
  BY DEF BoardPages
<1>1. Env' = e
  BY <1>0 DEF Env, Seen
<1>2. TablesTrue' /\ chat' = NoChat
  BY <1>0 DEF PagesInv, TablesTrue
<1> QED
  BY <1>0, <1>1, <1>2 DEF PagesInv, BoardDone, Pages

LEMMA BoardFacts ==
    ASSUME PagesInv, page \in BoardPages
    PROVE  /\ BoardOk(board, calls, Env) /\ board \in BoardRecord /\ CallsOk(calls, Env)
           /\ BoardRows(board, Env) /\ DetailOk(board, calls, Env)
           /\ Env = Seen(board.selected, workspace) /\ Env.page = page /\ Env.page \in Pages
           /\ Env.sel = board.selected /\ Env.ws = workspace /\ Env.runs = runs
           /\ workspace \in Workspaces /\ clicks \in 0..MaxClicks /\ MaxClicks \in Nat
           /\ calls \in [Slots -> CallRecord] /\ TablesTrue
           /\ \A sel, ws : /\ SameTables(Env, Seen(sel, ws)) /\ Seen(sel, ws).page = page
                           /\ Seen(sel, ws).sel = sel /\ Seen(sel, ws).runs = runs
                           /\ Seen(sel, ws).ws = ws
<1>0. page # "chat"
  BY DEF BoardPages
<1> QED
  BY <1>0, ControlApiAssumption DEF PagesInv, BoardOk, Env, Seen, SameTables, CallsOk, Pages

LEMMA RefreshBoardStep ==
    ASSUME PagesInv, page \in BoardPages, UNCHANGED <<page, chat>>, RefreshBoard
    PROVE  PagesInv'
<1> PICK e : e = Env
  OBVIOUS
<1> PICK f : f = Seen(IF page = "work" THEN None ELSE board.selected, workspace)
  OBVIOUS
<1>1. /\ Free(CancelledList(calls)) # {} /\ Click /\ workspace' = workspace
      /\ Reload(board, calls, workspace)
  BY RoomFacts DEF RefreshBoard
<1>2. /\ SameTables(e, f) /\ e.page = page /\ e.sel = board.selected /\ BoardRows(board, e)
      /\ CallsOk(calls, e) /\ DetailOk(board, calls, e) /\ workspace \in Workspaces
      /\ f.ws = workspace /\ f.sel = IF page = "work" THEN None ELSE board.selected
      /\ board \in BoardRecord
  BY BoardFacts
<1>3. board'.selected = f.sel /\ BoardOk(board', calls', f) /\ CallsOk(calls', f)
  BY <1>1, <1>2, ReloadOk
<1>4. BoardDone(f) /\ f = Seen(board'.selected, workspace')
  BY <1>1, <1>2, <1>3, BoardFacts, ClickFacts DEF BoardDone
<1> QED
  BY <1>1, <1>4, BoardStepDone, BoardFacts, ClickFacts

LEMMA SwitchWorkspaceStep ==
    ASSUME PagesInv, page \in BoardPages, UNCHANGED <<page, chat>>,
           NEW ws \in Workspaces, SwitchWorkspace(ws)
    PROVE  PagesInv'
<1> PICK e : e = Env
  OBVIOUS
<1> PICK f : f = Seen(IF page = "work" THEN None ELSE board.selected, ws)
  OBVIOUS
<1>1. Click /\ workspace' = ws
  BY DEF SwitchWorkspace
<1>2. /\ SameTables(e, f) /\ e.page = page /\ e.sel = board.selected /\ BoardRows(board, e)
      /\ CallsOk(calls, e) /\ DetailOk(board, calls, e) /\ e.page \in Pages
      /\ f.ws = ws /\ f.sel = IF page = "work" THEN None ELSE board.selected
      /\ board \in BoardRecord
  BY BoardFacts
<1>3. board'.selected = f.sel /\ BoardOk(board', calls', f) /\ CallsOk(calls', f)
  <2>1. CASE page = "artifacts" /\ board.selected # None
    <3> PICK under : under = CancelledList(calls)
      OBVIOUS
    <3> PICK u : u = OpenDetail(under, ws, board.selected)
      OBVIOUS
    <3>1. Room(CancelledDetail(under), 2) /\ Reload(board, u, ws)
      BY <2>1 DEF SwitchWorkspace
    <3>2. /\ CallsOk(under, e) /\ \A s \in Slots : under[s].kind \notin ListKinds
      BY <1>2, <2>1, CancelledOk DEF CancelledList, Cancelling, ListKinds
    <3>3. CallsOk(under, f)
      BY <1>2, <2>1, <3>2, BoardAims
    <3>4. SameTables(f, f) /\ f.page = page /\ board.selected \in Ids
      BY <1>2 DEF SameTables, BoardRecord
    <3>5. /\ CallsOk(u, f) /\ \E s \in Slots : u[s].kind = "detail"
          /\ u = Send(CancelledDetail(under), Request("detail", ws, board.selected, DetailParts[page]))
      BY <1>2, <2>1, <3>1, <3>3, <3>4, RoomFacts, OpenDetailOk DEF OpenDetail
    <3>6. Free(CancelledList(u)) # {}
      <4> PICK v : v = CancelledDetail(under)
        OBVIOUS
      <4>1. CallsOk(v, f) /\ v \in [Slots -> CallRecord] /\ Free(v) # {} /\ \A s : Free(v) # {s}
        <5>1. Free(v) # {} /\ \A s : Free(v) # {s}
          BY <3>1, RoomFacts
        <5>2. CallsOk(v, f)
          BY <1>2, <3>3, <3>4, CancelledOk DEF CancelledDetail
        <5> QED
          BY <5>1, <5>2 DEF CallsOk
      <4> PICK r : r = Request("detail", ws, board.selected, DetailParts[page])
        OBVIOUS
      <4>2. PICK s \in Slots : v[s].kind = "none" /\ Send(v, r) = [v EXCEPT ![s] = r]
        BY <4>1, Placed
      <4>3. PICK t \in Free(v) : t # s
        BY <4>1, <4>2 DEF Free
      <4>4. t \in Slots /\ v[t].kind = "none" /\ u[t] = v[t]
        BY <3>5, <4>1, <4>2, <4>3 DEF Free
      <4>5. CancelledList(u)[t].kind = "none"
        BY <4>4 DEF CancelledList, Cancelled, NoCall, Request
      <4> QED
        BY <4>4, <4>5 DEF Free
    <3>7. BoardRows(board, f) /\ DetailOk(board, u, f)
      BY <1>2, <3>5, BoardRowsSame DEF DetailOk, Sends
    <3> QED
      BY <1>2, <2>1, <3>1, <3>4, <3>5, <3>6, <3>7, ReloadOk
  <2>2. CASE ~(page = "artifacts" /\ board.selected # None)
    <3>1. Free(CancelledList(calls)) # {} /\ Reload(board, calls, ws)
      BY <2>2, RoomFacts DEF SwitchWorkspace
    <3> QED
      BY <1>2, <3>1, ReloadOk
  <2> QED
    BY <2>1, <2>2
<1>4. BoardDone(f) /\ f = Seen(board'.selected, workspace')
  BY <1>1, <1>2, <1>3, BoardFacts, ClickFacts DEF BoardDone
<1> QED
  BY <1>1, <1>4, BoardStepDone, BoardFacts, ClickFacts

\* A board that shows the same rows, with what it waits for under way.
Waits(cs) ==
    /\ CallsOk(cs, Env)
    /\ Sends(calls, {"detail"}) => Sends(cs, {"detail"})
    /\ Sends(calls, ListKinds) => Sends(cs, ListKinds)
SameRows(b) ==
    /\ b \in BoardRecord /\ b.rows = board.rows /\ b.selected = board.selected
    /\ b.detail = board.detail /\ b.workshop = board.workshop
    /\ board.error => b.error

LEMMA SameRowsStep ==
    ASSUME PagesInv, page \in BoardPages,
           UNCHANGED <<mock, existing, surfaced, runs, approvals, profiles, page, chat>>,
           workspace' = workspace, clicks' \in 0..MaxClicks,
           NEW b, board' = b, SameRows(b), NEW cs, calls' = cs, Waits(cs)
    PROVE  PagesInv'
<1> PICK e : e = Env
  OBVIOUS
<1>1. BoardOk(board, calls, e) /\ workspace \in Workspaces /\ e = Seen(b.selected, workspace)
  BY BoardFacts DEF SameRows
<1>2. BoardOk(b, cs, e)
  BY <1>1 DEF BoardOk, SameRows, Waits, BoardRows, DetailOk, ListOk
<1>3. BoardDone(e) /\ e = Seen(board'.selected, workspace')
  BY <1>1, <1>2 DEF BoardDone, Waits
<1> QED
  BY <1>3, BoardStepDone

LEMMA BoardSendStep ==
    ASSUME PagesInv, page \in BoardPages, UNCHANGED <<page, chat>>,
           Click, workspace' = workspace, Free(calls) # {},
           NEW b, board' = b, SameRows(b),
           NEW request, CallOk(request, Env), calls' = Send(calls, request)
    PROVE  PagesInv'
<1> PICK cs : cs = Send(calls, request)
  OBVIOUS
<1>1. /\ CallsOk(cs, Env)
      /\ \A s \in Slots : calls[s].kind # "none" => cs[s] = calls[s]
  BY BoardFacts, SentOk
<1>2. Waits(cs)
  BY <1>1 DEF Waits, Sends, ListKinds
<1>3. clicks' \in 0..MaxClicks /\ UNCHANGED <<mock, existing, surfaced, runs, approvals, profiles>>
  BY BoardFacts, ClickFacts
<1> QED
  BY <1>2, <1>3, SameRowsStep

LEMMA CreateItemStep ==
    ASSUME PagesInv, page \in BoardPages, UNCHANGED <<page, chat>>, CreateItem
    PROVE  PagesInv'
<1> PICK r : r = Request("create", workspace, None, {"write"})
  OBVIOUS
<1> PICK b : b = [board EXCEPT !.busy = TRUE]
  OBVIOUS
<1>1. Click /\ workspace' = workspace /\ Free(calls) # {} /\ board' = b /\ calls' = Send(calls, r)
  BY RoomFacts DEF CreateItem
<1>2. SameRows(b)
  BY BoardFacts DEF SameRows, BoardRecord
<1>3. Asked("create", workspace, None, {"write"}, Env)
  BY BoardFacts DEF CreateItem, Asked, KindsOf, Kinds, Ids, Parts, PartsOf
<1>4. CallOk(r, Env)
  BY <1>3, RequestOk
<1> QED
  BY <1>1, <1>2, <1>4, BoardSendStep

LEMMA DownloadStep ==
    ASSUME PagesInv, page \in BoardPages, UNCHANGED <<page, chat>>, Download
    PROVE  PagesInv'
<1> PICK r : r = Request("download", workspace, None, {"link"})
  OBVIOUS
<1> PICK b : b = [board EXCEPT !.busy = TRUE]
  OBVIOUS
<1>1. Click /\ workspace' = workspace /\ Free(calls) # {} /\ board' = b /\ calls' = Send(calls, r)
  BY RoomFacts DEF Download
<1>2. SameRows(b)
  BY BoardFacts DEF SameRows, BoardRecord
<1>3. Asked("download", workspace, None, {"link"}, Env)
  BY BoardFacts DEF Download, Asked, KindsOf, Kinds, Ids, Parts, PartsOf
<1>4. CallOk(r, Env)
  BY <1>3, RequestOk
<1> QED
  BY <1>1, <1>2, <1>4, BoardSendStep

LEMMA CreateDraftStep ==
    ASSUME PagesInv, page \in BoardPages, UNCHANGED <<page, chat>>, NEW p \in Profiles, CreateDraft(p)
    PROVE  PagesInv'
<1> PICK r : r = Request("draft", Home[p], p, {"write"})
  OBVIOUS
<1> PICK b : b = [board EXCEPT !.busy = TRUE]
  OBVIOUS
<1>1. Click /\ workspace' = workspace /\ Free(calls) # {} /\ board' = b /\ calls' = Send(calls, r)
  BY RoomFacts DEF CreateDraft
<1>2. SameRows(b)
  BY BoardFacts DEF SameRows, BoardRecord
<1>3. Asked("draft", Home[p], p, {"write"}, Env)
  BY BoardFacts, ControlApiAssumption DEF CreateDraft, Asked, KindsOf, Kinds, Ids, Parts, PartsOf
<1>4. CallOk(r, Env)
  BY <1>3, RequestOk
<1> QED
  BY <1>1, <1>2, <1>4, BoardSendStep

LEMMA OnProfileStep ==
    ASSUME PagesInv, page \in BoardPages, UNCHANGED <<page, chat>>, NEW row \in ProfileRows,
           ApproveSelected(row) \/ InspectSelected(row)
    PROVE  PagesInv'
<1>1. PICK kind, parts : /\ OnProfile(row, kind, parts)
                         /\ \/ kind = "approve" /\ parts = {"write"}
                            \/ kind = "inspect" /\ parts = {"profile"} /\ page = "admin"
  BY DEF ApproveSelected, InspectSelected
<1> PICK r : r = Request(kind, row.ws, row.id, parts)
  OBVIOUS
<1> PICK b : b = [board EXCEPT !.busy = TRUE]
  OBVIOUS
<1>2. /\ Click /\ workspace' = workspace /\ Free(calls) # {} /\ board' = b /\ calls' = Send(calls, r)
      /\ page \in {"agents", "admin"}
  BY <1>1, RoomFacts DEF OnProfile
<1>3. SameRows(b)
  BY BoardFacts DEF SameRows, BoardRecord
<1>4. ProfilesSound(ProfileRows, Env) /\ ProfileRows \subseteq RowType
  BY <1>2, BoardFacts DEF BoardRows, ProfileRows, BoardRecord
<1>5. row.id \in Profiles /\ row.ws \in Workspaces
  BY <1>4 DEF ProfilesSound, RowType
<1>6. Asked(kind, row.ws, row.id, parts, Env)
  BY <1>1, <1>2, <1>5, BoardFacts DEF Asked, KindsOf, Kinds, Ids, Parts, PartsOf
<1>7. CallOk(r, Env)
  BY <1>6, RequestOk
<1> QED
  BY <1>2, <1>3, <1>7, BoardSendStep

LEMMA DecideStep ==
    ASSUME PagesInv, page \in BoardPages, UNCHANGED <<page, chat>>, NEW row \in board.rows,
           NEW decision \in {"approved", "rejected"}, Decide(row, decision)
    PROVE  PagesInv'
<1> PICK r : r = [Request("decide", row.ws, row.id, {"write"}) EXCEPT !.arg = decision]
  OBVIOUS
<1> PICK b : b = [board EXCEPT !.acting = row.id]
  OBVIOUS
<1>1. /\ Click /\ workspace' = workspace /\ Free(calls) # {} /\ board' = b /\ calls' = Send(calls, r)
      /\ page = "approvals"
  BY RoomFacts DEF Decide
<1>2. row \in RowType /\ row.id \in DOMAIN runs /\ row.id \in Ids /\ row.ws \in Workspaces
  BY <1>1, BoardFacts DEF BoardRows, ApprovalRows, BoardRecord, RowType, Ids
<1>3. SameRows(b)
  BY <1>2, BoardFacts DEF SameRows, BoardRecord
<1>4. /\ r.kind = "decide" /\ r.ws = row.ws /\ r.id = row.id /\ r.arg = decision
      /\ r.wanted = {"write"} /\ r.rows = {} /\ r.entries = {} /\ r \in CallRecord
  BY <1>2 DEF Request, CallRecord, Kinds, Parts
<1>5. CallOk(r, Env)
  <2>1. CallShape(r, Env)
    BY <1>1, <1>4, BoardFacts DEF CallShape, KindsOf, PartsOf
  <2>2. CallTrue(r, Env)
    BY <1>2, <1>4, BoardFacts DEF CallTrue, ApprovalRows
  <2>3. CallAimed(r, Env)
    BY <1>4 DEF CallAimed, ListKinds
  <2> QED
    BY <2>1, <2>2, <2>3 DEF CallOk
<1> QED
  BY <1>1, <1>3, <1>5, BoardSendStep

\* A row is selected, from a click or as the first of a list.
LEMMA SelectOk ==
    ASSUME PagesInv, page \in {"work", "artifacts", "admin"}, NEW cs, CallsOk(cs, Env),
           Free(CancelledDetail(cs)) # {},
           NEW id \in Ids, page = "admin" => id \in DOMAIN runs,
           NEW b \in BoardRecord, b.selected = id, BoardRows(b, Env), ListOk(b, cs, Env),
           NEW f, f = Seen(id, workspace)
    PROVE  BoardOk(b, OpenDetail(cs, workspace, id), f) /\ CallsOk(OpenDetail(cs, workspace, id), f)
<1> PICK e : e = Env
  OBVIOUS
<1> PICK u : u = OpenDetail(cs, workspace, id)
  OBVIOUS
<1>0. page \in BoardPages
  BY DEF BoardPages
<1>1. /\ SameTables(e, f) /\ e.page = page /\ f.page = page /\ f.ws = e.ws /\ f.sel = id
      /\ e.runs = runs /\ workspace \in Workspaces
  BY <1>0, BoardFacts
<1>2. /\ CallsOk(u, f) /\ \E s \in Slots : u[s].kind = "detail"
      /\ \A s \in Slots : cs[s].kind \notin {"none", "detail"} => u[s] = cs[s]
  BY <1>1, OpenDetailOk
<1>3. BoardRows(b, f)
  BY <1>1, BoardRowsSame
<1>4. ListOk(b, u, f)
  BY <1>1, <1>2 DEF ListOk, Sends, ListKinds
<1>5. DetailOk(b, u, f)
  BY <1>2 DEF DetailOk, Sends
<1> QED
  BY <1>2, <1>3, <1>4, <1>5 DEF BoardOk

\* On the agents board nothing is loaded for the profile that is selected.
LEMMA SelectAgentOk ==
    ASSUME PagesInv, page = "agents", NEW cs, CallsOk(cs, Env),
           NEW b \in BoardRecord, BoardRows(b, Env), NEW f, f = Seen(b.selected, workspace)
    PROVE  BoardOk(b, cs, f) /\ CallsOk(cs, f)
<1> PICK e : e = Env
  OBVIOUS
<1>0. page \in BoardPages
  BY DEF BoardPages
<1>1. SameTables(e, f) /\ e.page = page /\ f.page = page /\ f.ws = e.ws
  BY <1>0, BoardFacts
<1>2. \A s \in Slots : cs[s].kind # "detail"
  BY <1>1 DEF CallsOk, CallOk, CallShape, KindsOf
<1>3. CallsOk(cs, f)
  BY <1>0, <1>1, <1>2, BoardAims
<1>4. BoardRows(b, f)
  BY <1>1, BoardRowsSame
<1>5. b.detail.rows = {} /\ b.detail.entries = {}
  BY <1>1 DEF BoardRows
<1>6. DetailOk(b, cs, f)
  BY <1>5, EmptyDetail DEF DetailOk
<1>7. ListOk(b, cs, f)
  BY <1>1 DEF ListOk, Cancelling
<1> QED
  BY <1>3, <1>4, <1>6, <1>7 DEF BoardOk

LEMMA SelectRowStep ==
    ASSUME PagesInv, page \in BoardPages, UNCHANGED <<page, chat>>,
           NEW id \in Items \cup Profiles \cup RunIds, SelectRow(id)
    PROVE  PagesInv'
<1> PICK e : e = Env
  OBVIOUS
<1> PICK f : f = Seen(id, workspace)
  OBVIOUS
<1>1. Click /\ workspace' = workspace /\ id \in Ids
  BY DEF SelectRow, Ids
<1>2. CASE page = "agents"
  <2> PICK b : b = [board EXCEPT !.selected = id]
    OBVIOUS
  <2>1. board' = b /\ calls' = calls
    BY <1>2 DEF SelectRow
  <2>2. b \in BoardRecord /\ b.selected = id /\ b.rows = board.rows /\ b.detail = board.detail
    BY <1>1, BoardFacts DEF BoardRecord
  <2>3. BoardRows(b, Env)
    BY <1>2, <2>2, BoardFacts DEF BoardRows
  <2>4. BoardOk(b, calls, f) /\ CallsOk(calls, f)
    BY <1>2, <2>2, <2>3, BoardFacts, SelectAgentOk
  <2>5. BoardDone(f) /\ f = Seen(board'.selected, workspace')
    BY <1>1, <2>1, <2>2, <2>4, BoardFacts, ClickFacts DEF BoardDone
  <2> QED
    BY <1>1, <2>5, BoardStepDone, BoardFacts, ClickFacts
<1>3. CASE page # "agents"
  <2> PICK b : b = [board EXCEPT !.selected = id, !.detailLoading = page # "artifacts"]
    OBVIOUS
  <2>1. /\ board' = b /\ calls' = OpenDetail(calls, workspace, id)
        /\ Free(CancelledDetail(calls)) # {} /\ page \in {"work", "artifacts", "admin"}
        /\ id \in {row.id : row \in board.rows}
    BY <1>3, RoomFacts DEF SelectRow
  <2>2. /\ b \in BoardRecord /\ b.selected = id /\ b.rows = board.rows /\ b.detail = board.detail
        /\ b.workshop = board.workshop /\ b.error = board.error
    BY <1>1, BoardFacts DEF BoardRecord
  <2>3. BoardRows(b, Env) /\ ListOk(b, calls, Env)
    BY <2>2, BoardFacts DEF BoardRows, BoardOk, ListOk
  <2>4. page = "admin" => id \in DOMAIN runs
    BY <2>1, BoardFacts DEF BoardRows, RunRows
  <2>5. BoardOk(board', calls', f) /\ CallsOk(calls', f)
    BY <1>1, <2>1, <2>2, <2>3, <2>4, BoardFacts, SelectOk
  <2>6. BoardDone(f) /\ f = Seen(board'.selected, workspace')
    BY <1>1, <2>1, <2>2, <2>5, BoardFacts, ClickFacts DEF BoardDone
  <2> QED
    BY <1>1, <2>6, BoardStepDone, BoardFacts, ClickFacts
<1> QED
  BY <1>2, <1>3

\* A list is loaded.
LEMMA ShowRowsOk ==
    ASSUME PagesInv, page \in {"work", "artifacts", "agents", "admin"}, UNCHANGED <<page, chat>>,
           NEW b, SameRows(b), NEW cs, CallsOk(cs, Env), Sends(calls, {"detail"}) => Sends(cs, {"detail"}),
           NEW rows \in SUBSET RowType, BoardRows([b EXCEPT !.rows = rows], Env),
           page \in Cancelling => RowsIn(rows, workspace),
           ShowRows(b, rows, cs), workspace' = workspace, clicks' = clicks,
           UNCHANGED <<mock, existing, surfaced, runs, approvals, profiles>>
    PROVE  PagesInv'
<1> PICK e : e = Env
  OBVIOUS
<1> PICK c : c = [b EXCEPT !.rows = rows]
  OBVIOUS
<1>0. page \in BoardPages
  BY DEF BoardPages
<1>1. /\ c \in BoardRecord /\ c.rows = rows /\ c.selected = board.selected /\ c.detail = board.detail
      /\ c.workshop = board.workshop /\ c.error = b.error
  BY DEF SameRows, BoardRecord
<1>2. BoardRows(c, Env) /\ Env.page = page /\ Env.ws = workspace
  BY <1>0, BoardFacts
<1>3. \A x : x \in BoardRecord /\ x.rows = rows => ListOk(x, cs, Env)
  BY <1>2 DEF ListOk
<1>4. CASE ~(b.selected = None /\ rows # {})
  <2>1. board' = c /\ calls' = cs
    BY <1>4 DEF ShowRows
  <2>2. DetailOk(c, cs, Env)
    BY <1>0, <1>1, BoardFacts DEF DetailOk
  <2>3. BoardDone(e) /\ e = Seen(board'.selected, workspace')
    BY <1>0, <1>1, <1>2, <1>3, <2>1, <2>2, BoardFacts DEF BoardDone, BoardOk
  <2> QED
    BY <1>0, <2>3, BoardStepDone
<1>5. CASE b.selected = None /\ rows # {} /\ page = "agents"
  <2>1. PICK first \in {row.id : row \in rows} :
          board' = [b EXCEPT !.rows = rows, !.selected = first] /\ calls' = cs
    BY <1>5 DEF ShowRows
  <2> PICK x : x = [b EXCEPT !.rows = rows, !.selected = first]
    OBVIOUS
  <2> PICK f : f = Seen(first, workspace)
    OBVIOUS
  <2>2. first \in Ids
    BY <2>1 DEF RowType, Ids
  <2>3. x \in BoardRecord /\ x.rows = rows /\ x.selected = first /\ x.detail = board.detail
    BY <2>2 DEF SameRows, BoardRecord
  <2>4. BoardRows(x, Env)
    BY <1>1, <1>2, <1>5, <2>3 DEF BoardRows
  <2>5. BoardOk(x, cs, f) /\ CallsOk(cs, f)
    BY <1>5, <2>3, <2>4, SelectAgentOk
  <2>6. BoardDone(f) /\ f = Seen(board'.selected, workspace')
    BY <1>0, <2>1, <2>3, <2>5, BoardFacts DEF BoardDone
  <2> QED
    BY <1>0, <2>6, BoardStepDone
<1>6. CASE b.selected = None /\ rows # {} /\ page # "agents"
  <2>1. PICK first \in {row.id : row \in rows} :
          /\ Room(CancelledDetail(cs), 1)
          /\ board' = [b EXCEPT !.rows = rows, !.selected = first, !.detailLoading = page # "artifacts"]
          /\ calls' = OpenDetail(cs, workspace, first)
    BY <1>6 DEF ShowRows
  <2> PICK x : x = [b EXCEPT !.rows = rows, !.selected = first, !.detailLoading = page # "artifacts"]
    OBVIOUS
  <2> PICK f : f = Seen(first, workspace)
    OBVIOUS
  <2>2. first \in Ids /\ Free(CancelledDetail(cs)) # {}
    BY <2>1, RoomFacts DEF RowType, Ids
  <2>3. /\ x \in BoardRecord /\ x.rows = rows /\ x.selected = first /\ x.detail = board.detail
        /\ x.workshop = board.workshop
    BY <2>2 DEF SameRows, BoardRecord
  <2>4. BoardRows(x, Env)
    BY <1>1, <1>2, <2>3 DEF BoardRows
  <2>5. page = "admin" => first \in DOMAIN runs
    BY <1>0, <1>1, <1>2, <2>1, BoardFacts DEF BoardRows, RunRows
  <2>6. BoardOk(board', calls', f) /\ CallsOk(calls', f)
    BY <1>3, <1>6, <2>1, <2>2, <2>3, <2>4, <2>5, SelectOk
  <2>7. BoardDone(f) /\ f = Seen(board'.selected, workspace')
    BY <1>0, <2>1, <2>3, <2>6, BoardFacts DEF BoardDone
  <2> QED
    BY <1>0, <2>7, BoardStepDone
<1> QED
  BY <1>4, <1>5, <1>6

-----------------------------------------------------------------------------
\* What answers do to a board.
LEMMA TakenBoard ==
    ASSUME PagesInv, page \in BoardPages, NEW s \in Slots
    PROVE  /\ CallsOk(Taken(s), Env)
           /\ calls[s].kind # "detail" => (Sends(calls, {"detail"}) => Sends(Taken(s), {"detail"}))
           /\ calls[s].kind \notin ListKinds => (Sends(calls, ListKinds) => Sends(Taken(s), ListKinds))
           /\ calls[s].kind \in KindsOf(page)
BY TakenHere, EnvFields DEF Sends, CallShape

LEMMA ContinuedOk ==
    ASSUME PagesInv, page \in BoardPages, NEW s \in Slots, NEW kind \in Kinds, NEW parts \in SUBSET Parts,
           NEW c, c = [calls[s] EXCEPT !.kind = kind, !.wanted = parts, !.ok = TRUE], CallOk(c, Env)
    PROVE  /\ CallsOk(Continued(s, kind, parts), Env)
           /\ Continued(s, kind, parts)[s].kind = kind
           /\ \A t \in Slots : t # s => Continued(s, kind, parts)[t] = calls[t]
<1>1. calls \in [Slots -> CallRecord] /\ CallsOk(calls, Env)
  BY BoardFacts
<1>2. CallsOk([calls EXCEPT ![s] = c], Env)
  BY <1>1, ChangedOk
<1>3. Continued(s, kind, parts) = [calls EXCEPT ![s] = c]
  BY <1>1 DEF Continued
<1>4. c.kind = kind
  BY <1>1 DEF CallRecord
<1> QED
  BY <1>1, <1>2, <1>3, <1>4

LEMMA ListFailedStep ==
    ASSUME PagesInv, page \in BoardPages, UNCHANGED <<page, chat>>, NEW s \in Slots, ListFailed(s)
    PROVE  PagesInv'
<1> PICK e : e = Env
  OBVIOUS
<1> PICK b : b = [board EXCEPT !.loading = FALSE, !.error = TRUE]
  OBVIOUS
<1>1. /\ Arrived(s, "list") /\ calls[s].kind = "list" /\ workspace' = workspace /\ clicks' = clicks
      /\ board' = b /\ calls' = Taken(s)
      /\ UNCHANGED <<mock, existing, surfaced, runs, approvals, profiles>>
  BY ArrivedFacts DEF ListFailed
<1>2. /\ b \in BoardRecord /\ b.rows = board.rows /\ b.selected = board.selected
      /\ b.detail = board.detail /\ b.workshop = board.workshop /\ b.error
  BY BoardFacts DEF BoardRecord
<1>3. BoardRows(b, e) /\ DetailOk(b, Taken(s), e) /\ ListOk(b, Taken(s), e)
  BY <1>1, <1>2, BoardFacts, TakenBoard DEF BoardRows, DetailOk, ListOk
<1>4. BoardDone(e) /\ e = Seen(board'.selected, workspace')
  BY <1>1, <1>2, <1>3, BoardFacts, TakenBoard DEF BoardDone, BoardOk
<1> QED
  BY <1>1, <1>4, BoardStepDone

LEMMA ListLoadedStep ==
    ASSUME PagesInv, page \in BoardPages, UNCHANGED <<page, chat>>, NEW s \in Slots, ListLoaded(s)
    PROVE  PagesInv'
<1> PICK b : b = [board EXCEPT !.loading = FALSE]
  OBVIOUS
<1> PICK call : call = calls[s]
  OBVIOUS
<1>1. /\ Arrived(s, "list") /\ call.kind = "list" /\ workspace' = workspace /\ clicks' = clicks
      /\ UNCHANGED <<mock, existing, surfaced, runs, approvals, profiles>>
      /\ ShowRows(b, call.rows, Taken(s)) /\ page \in {"work", "artifacts", "agents"}
  BY ArrivedFacts DEF ListLoaded
<1>2. SameRows(b)
  BY BoardFacts DEF SameRows, BoardRecord
<1>3. call.rows \in SUBSET RowType
  BY TakenHere DEF CallRecord
<1>4. /\ Env.page = page /\ Env.ws = workspace
      /\ CallTrue(call, Env) /\ CallAimed(call, Env)
  BY BoardFacts, TakenHere
<1>5. page \in Cancelling => RowsIn(call.rows, workspace) /\ ItemRows(call.rows)
  BY <1>1, <1>4 DEF CallTrue, ListTrue, CallAimed, ListKinds
<1>6. BoardRows([b EXCEPT !.rows = call.rows], Env)
  <2> PICK x : x = [b EXCEPT !.rows = call.rows]
    OBVIOUS
  <2>1. x.rows = call.rows /\ x.detail = board.detail
    BY <1>2 DEF SameRows, BoardRecord
  <2>2. page = "agents" => ProfilesSound(call.rows, Env)
    BY <1>1, <1>4 DEF CallTrue, ListTrue
  <2>3. page \in {"work", "artifacts"} => ItemRows(call.rows)
    BY <1>5 DEF Cancelling
  <2>4. BoardRows(x, Env)
    BY <1>1, <1>4, <2>1, <2>2, <2>3, BoardFacts DEF BoardRows
  <2> QED
    BY <2>4
<1>7. CallsOk(Taken(s), Env) /\ (Sends(calls, {"detail"}) => Sends(Taken(s), {"detail"}))
  BY <1>1, TakenBoard
<1> QED
  BY <1>1, <1>2, <1>3, <1>5, <1>6, <1>7, ShowRowsOk

\* The board goes on with another request in the place of the one it took.
LEMMA ItemsListedStep ==
    ASSUME PagesInv, page \in BoardPages, UNCHANGED <<page, chat>>, NEW s \in Slots,
           ItemsListed(s) \/ RunsListed(s)
    PROVE  PagesInv'
<1> PICK kind, parts : \/ kind = "listRuns" /\ parts = {"runsOfItems"} /\ ItemsListed(s)
                       \/ kind = "listApprovals" /\ parts = {"approvals"} /\ RunsListed(s)
  OBVIOUS
<1> PICK call : call = calls[s]
  OBVIOUS
<1> PICK c : c = [call EXCEPT !.kind = kind, !.wanted = parts, !.ok = TRUE]
  OBVIOUS
<1> PICK cs : cs = Continued(s, kind, parts)
  OBVIOUS
<1>1. /\ \/ call.kind = "list" /\ kind = "listRuns"
         \/ call.kind = "listRuns" /\ kind = "listApprovals"
      /\ call.wanted = {} /\ board' = board /\ calls' = cs /\ workspace' = workspace /\ clicks' = clicks
      /\ UNCHANGED <<mock, existing, surfaced, runs, approvals, profiles>>
      /\ page = "approvals"
  <2>1. CASE ItemsListed(s) /\ kind = "listRuns" /\ parts = {"runsOfItems"}
    <3>1. /\ call.kind = "list" /\ call.wanted = {} /\ workspace' = workspace /\ clicks' = clicks
          /\ UNCHANGED <<mock, existing, surfaced, runs, approvals, profiles>>
          /\ board' = board /\ calls' = cs /\ page = "approvals"
      BY <2>1, ArrivedFacts DEF ItemsListed
    <3> QED
      BY <2>1, <3>1
  <2>2. CASE RunsListed(s) /\ kind = "listApprovals" /\ parts = {"approvals"}
    <3>1. /\ call.kind = "listRuns" /\ call.wanted = {} /\ workspace' = workspace /\ clicks' = clicks
          /\ UNCHANGED <<mock, existing, surfaced, runs, approvals, profiles>>
          /\ board' = board /\ calls' = cs
      BY <2>2, ArrivedFacts DEF RunsListed
    <3>2. page = "approvals"
      BY <3>1, TakenBoard DEF KindsOf, BoardPages
    <3> QED
      BY <2>2, <3>1, <3>2
  <2> QED
    BY <2>1, <2>2
<1>2. /\ c \in CallRecord /\ c.kind = kind /\ c.wanted = parts /\ c.ws = call.ws /\ c.id = call.id
      /\ c.rows = call.rows
  <2>1. kind \in Kinds /\ parts \in SUBSET Parts /\ call \in CallRecord
    BY TakenHere DEF Kinds, Parts
  <2> QED
    BY <2>1 DEF CallRecord
<1>3. /\ Env.page = page /\ CallTrue(call, Env) /\ CallAimed(call, Env)
  BY BoardFacts, TakenHere
<1>4. CallOk(c, Env)
  <2>1. CallShape(c, Env)
    BY <1>1, <1>2, <1>3 DEF CallShape, KindsOf, PartsOf
  <2>2. CallTrue(c, Env)
    BY <1>1, <1>2, <1>3 DEF CallTrue, ApprovalsTrue, ListTrue
  <2>3. CallAimed(c, Env)
    BY <1>1, <1>2, <1>3 DEF CallAimed, ListKinds
  <2> QED
    BY <2>1, <2>2, <2>3 DEF CallOk
<1>5. CallsOk(cs, Env) /\ cs[s].kind = kind /\ \A t \in Slots : t # s => cs[t] = calls[t]
  <2>1. kind \in Kinds /\ parts \in SUBSET Parts
    BY DEF Kinds, Parts
  <2> QED
    BY <1>4, <2>1, ContinuedOk
<1>6. Waits(cs)
  BY <1>1, <1>5 DEF Waits, Sends, ListKinds
<1>7. SameRows(board) /\ clicks' \in 0..MaxClicks
  BY <1>1, BoardFacts DEF SameRows
<1> QED
  BY <1>1, <1>6, <1>7, SameRowsStep

LEMMA ApprovalsListedStep ==
    ASSUME PagesInv, page \in BoardPages, UNCHANGED <<page, chat>>, NEW s \in Slots, ApprovalsListed(s)
    PROVE  PagesInv'
<1> PICK e : e = Env
  OBVIOUS
<1> PICK call : call = calls[s]
  OBVIOUS
<1> PICK b : b = [board EXCEPT !.rows = call.rows, !.loading = FALSE]
  OBVIOUS
<1>1. /\ call.kind = "listApprovals" /\ call.wanted = {} /\ workspace' = workspace /\ clicks' = clicks
      /\ board' = b /\ calls' = Taken(s)
      /\ UNCHANGED <<mock, existing, surfaced, runs, approvals, profiles>>
  BY ArrivedFacts DEF ApprovalsListed
<1>2. call.rows \in SUBSET RowType /\ CallTrue(call, e) /\ CallAimed(call, e)
  BY TakenHere DEF CallRecord
<1>3. /\ b \in BoardRecord /\ b.rows = call.rows /\ b.selected = board.selected
      /\ b.detail = board.detail /\ b.workshop = board.workshop
  BY <1>2, BoardFacts DEF BoardRecord
<1>4. page = "approvals" /\ e.page = page
  BY <1>1, TakenBoard, BoardFacts DEF KindsOf, BoardPages
<1>5. ApprovalRows(call.rows, e) /\ RowsIn(call.rows, e.ws)
  BY <1>1, <1>2, <1>4 DEF CallTrue, ApprovalsTrue, CallAimed, ListKinds, Cancelling
<1>6. BoardRows(b, e)
  BY <1>3, <1>4, <1>5, BoardFacts DEF BoardRows
<1>7. DetailOk(b, Taken(s), e) /\ ListOk(b, Taken(s), e)
  BY <1>1, <1>3, <1>5, BoardFacts, TakenBoard DEF DetailOk, ListOk
<1>8. BoardDone(e) /\ e = Seen(board'.selected, workspace')
  BY <1>1, <1>3, <1>6, <1>7, BoardFacts, TakenBoard DEF BoardDone, BoardOk
<1> QED
  BY <1>1, <1>8, BoardStepDone

LEMMA AdminRunsListedStep ==
    ASSUME PagesInv, page \in BoardPages, UNCHANGED <<page, chat>>, NEW s \in Slots, AdminRunsListed(s)
    PROVE  PagesInv'
<1> PICK call : call = calls[s]
  OBVIOUS
<1> PICK c : c = [call EXCEPT !.kind = "fleet", !.wanted = {"fleet"}, !.ok = TRUE]
  OBVIOUS
<1> PICK cs : cs = Continued(s, "fleet", {"fleet"})
  OBVIOUS
<1>1. /\ call.kind = "list" /\ workspace' = workspace /\ clicks' = clicks /\ page = "admin"
      /\ UNCHANGED <<mock, existing, surfaced, runs, approvals, profiles>>
  BY ArrivedFacts DEF AdminRunsListed
<1>2. /\ Env.page = page /\ CallTrue(call, Env) /\ call \in CallRecord
  BY BoardFacts, TakenHere
<1>3. /\ c \in CallRecord /\ c.kind = "fleet" /\ c.wanted = {"fleet"}
  BY <1>2 DEF CallRecord, Kinds, Parts
<1>4. CallOk(c, Env)
  BY <1>1, <1>2, <1>3 DEF CallOk, CallShape, CallTrue, CallAimed, KindsOf, PartsOf, ListKinds
<1>5. CallsOk(cs, Env) /\ cs[s].kind = "fleet" /\ \A t \in Slots : t # s => cs[t] = calls[t]
  <2>1. "fleet" \in Kinds /\ {"fleet"} \in SUBSET Parts
    BY DEF Kinds, Parts
  <2> QED
    BY <1>4, <2>1, ContinuedOk
<1>6. Sends(calls, {"detail"}) => Sends(cs, {"detail"})
  BY <1>1, <1>5 DEF Sends
<1>7. CASE call.ok
  <2>1. ShowRows(board, call.rows, cs)
    BY <1>7 DEF AdminRunsListed
  <2>2. SameRows(board) /\ call.rows \in SUBSET RowType /\ RunRows(call.rows, Env)
    BY <1>1, <1>2, BoardFacts DEF SameRows, CallRecord, CallTrue, ListTrue
  <2>3. BoardRows([board EXCEPT !.rows = call.rows], Env)
    <3> PICK x : x = [board EXCEPT !.rows = call.rows]
      OBVIOUS
    <3>1. x.rows = call.rows /\ x.workshop = board.workshop
      BY BoardFacts DEF BoardRecord
    <3>2. BoardRows(x, Env)
      BY <1>1, <1>2, <2>2, <3>1, BoardFacts DEF BoardRows
    <3> QED
      BY <3>2
  <2>4. page \in Cancelling => RowsIn(call.rows, workspace)
    BY <1>1 DEF Cancelling
  <2> QED
    BY <1>1, <1>5, <1>6, <2>1, <2>2, <2>3, <2>4, ShowRowsOk
<1>8. CASE ~call.ok
  <2> PICK e : e = Env
    OBVIOUS
  <2> PICK b : b = [board EXCEPT !.error = TRUE]
    OBVIOUS
  <2>1. board' = b /\ calls' = cs
    BY <1>8 DEF AdminRunsListed
  <2>2. SameRows(b)
    BY BoardFacts DEF SameRows, BoardRecord
  <2>3. BoardRows(b, e) /\ DetailOk(b, cs, e) /\ ListOk(b, cs, e)
    BY <1>1, <1>6, <2>2, BoardFacts DEF SameRows, BoardRows, DetailOk, ListOk, Cancelling
  <2>4. BoardDone(e) /\ e = Seen(board'.selected, workspace')
    BY <1>1, <1>5, <2>1, <2>2, <2>3, BoardFacts DEF BoardDone, BoardOk, SameRows
  <2> QED
    BY <1>1, <2>4, BoardStepDone
<1> QED
  BY <1>7, <1>8

\* Answers that only end a spinner.
LEMMA FlagsStep ==
    ASSUME PagesInv, page \in BoardPages, UNCHANGED <<page, chat>>, NEW s \in Slots,
           calls[s].kind \notin ListKinds \cup {"detail"}, calls' = Taken(s),
           NEW b, board' = b, SameRows(b), workspace' = workspace, clicks' = clicks,
           UNCHANGED <<mock, existing, surfaced, runs, approvals, profiles>>
    PROVE  PagesInv'
<1> PICK cs : cs = Taken(s)
  OBVIOUS
<1>1. Waits(cs)
  BY TakenBoard DEF Waits
<1>2. clicks' \in 0..MaxClicks
  BY BoardFacts
<1> QED
  BY <1>1, <1>2, SameRowsStep

LEMMA FleetListedStep ==
    ASSUME PagesInv, page \in BoardPages, UNCHANGED <<page, chat>>, NEW s \in Slots, FleetListed(s)
    PROVE  PagesInv'
<1> PICK shown : shown = IF calls[s].ok THEN "shown" ELSE "none"
  OBVIOUS
<1> PICK b : b = [board EXCEPT !.fleet = shown, !.loading = FALSE]
  OBVIOUS
<1>1. /\ calls[s].kind = "fleet" /\ workspace' = workspace /\ clicks' = clicks
      /\ UNCHANGED <<mock, existing, surfaced, runs, approvals, profiles>>
      /\ board' = b /\ calls' = Taken(s)
  BY ArrivedFacts DEF FleetListed
<1>2. SameRows(b)
  BY BoardFacts DEF SameRows, BoardRecord
<1> QED
  BY <1>1, <1>2, FlagsStep DEF ListKinds

LEMMA DownloadedStep ==
    ASSUME PagesInv, page \in BoardPages, UNCHANGED <<page, chat>>, NEW s \in Slots, Downloaded(s)
    PROVE  PagesInv'
<1> PICK b : b = [board EXCEPT !.busy = FALSE]
  OBVIOUS
<1>1. /\ calls[s].kind = "download" /\ workspace' = workspace /\ clicks' = clicks
      /\ UNCHANGED <<mock, existing, surfaced, runs, approvals, profiles>>
      /\ board' = b /\ calls' = Taken(s)
  BY ArrivedFacts DEF Downloaded
<1>2. SameRows(b)
  BY BoardFacts DEF SameRows, BoardRecord
<1> QED
  BY <1>1, <1>2, FlagsStep DEF ListKinds

LEMMA DetailLoadedStep ==
    ASSUME PagesInv, page \in BoardPages, UNCHANGED <<page, chat>>, NEW s \in Slots, DetailLoaded(s)
    PROVE  PagesInv'
<1> PICK e : e = Env
  OBVIOUS
<1> PICK call : call = calls[s]
  OBVIOUS
<1> PICK d : d = [rows |-> call.rows, entries |-> call.entries]
  OBVIOUS
<1> PICK b : b = [board EXCEPT !.detail = d, !.detailLoading = FALSE]
  OBVIOUS
<1>1. /\ call.kind = "detail" /\ workspace' = workspace /\ clicks' = clicks
      /\ UNCHANGED <<mock, existing, surfaced, runs, approvals, profiles>>
      /\ board' = b /\ calls' = Taken(s)
  BY ArrivedFacts DEF DetailLoaded
<1>2. /\ call \in CallRecord /\ CallTrue(call, e) /\ CallAimed(call, e) /\ e.page = page
  BY TakenHere, BoardFacts
<1>3. /\ b \in BoardRecord /\ b.rows = board.rows /\ b.selected = board.selected /\ b.detail = d
      /\ b.workshop = board.workshop /\ b.error = board.error
  BY <1>2, BoardFacts DEF BoardRecord, CallRecord
<1>4. page \notin {"approvals", "agents"}
  BY <1>1, TakenBoard DEF KindsOf
<1>5. DetailOf(d, e)
  BY <1>1, <1>2 DEF CallTrue, DetailRead, CallAimed, DetailOf
<1>6. BoardRows(b, e)
  BY <1>2, <1>3, <1>4, BoardFacts DEF BoardRows
<1>7. ListOk(b, Taken(s), e)
  <2>1. Sends(calls, ListKinds) => Sends(Taken(s), ListKinds)
    BY <1>1, TakenBoard DEF ListKinds
  <2> QED
    BY <1>3, <2>1, BoardFacts DEF BoardOk, ListOk
<1>8. BoardDone(e) /\ e = Seen(board'.selected, workspace')
  BY <1>1, <1>3, <1>5, <1>6, <1>7, BoardFacts, TakenBoard DEF BoardDone, BoardOk, DetailOk
<1> QED
  BY <1>1, <1>8, BoardStepDone

LEMMA ItemCreatedStep ==
    ASSUME PagesInv, page \in BoardPages, UNCHANGED <<page, chat>>, NEW s \in Slots, ItemCreated(s)
    PROVE  PagesInv'
<1> PICK b : b = [board EXCEPT !.busy = FALSE]
  OBVIOUS
<1>1. /\ calls[s].kind = "create" /\ workspace' = workspace /\ clicks' = clicks
      /\ UNCHANGED <<mock, existing, surfaced, runs, approvals, profiles>>
  BY ArrivedFacts DEF ItemCreated
<1>2. SameRows(b)
  BY BoardFacts DEF SameRows, BoardRecord
<1>3. CASE calls[s].ok
  <2> PICK e : e = Env
    OBVIOUS
  <2> PICK under : under = Taken(s)
    OBVIOUS
  <2> PICK f : f = Seen(IF page = "work" THEN None ELSE board.selected, workspace)
    OBVIOUS
  <2>1. Reload(b, under, workspace)
    BY <1>3 DEF ItemCreated
  <2>2. /\ SameTables(e, f) /\ e.page = page /\ e.sel = b.selected /\ BoardRows(board, e)
        /\ workspace \in Workspaces /\ f.ws = workspace /\ b \in BoardRecord /\ e.page \in Pages
        /\ f.sel = IF page = "work" THEN None ELSE b.selected
    BY <1>2, BoardFacts DEF SameRows
  <2>3. CallsOk(under, e) /\ s \in Free(under)
    BY TakenHere
  <2>4. BoardRows(b, e) /\ DetailOk(b, under, e)
    BY <1>1, <1>2, <2>2, BoardFacts, TakenBoard DEF SameRows, BoardRows, DetailOk
  <2>5. Free(CancelledList(under)) # {}
    BY <2>2, <2>3, CancelledOk DEF CancelledList, ListKinds
  <2>6. board'.selected = f.sel /\ BoardOk(board', calls', f) /\ CallsOk(calls', f)
    BY <2>1, <2>2, <2>3, <2>4, <2>5, ReloadOk
  <2>7. BoardDone(f) /\ f = Seen(board'.selected, workspace')
    BY <1>1, <1>2, <2>2, <2>6, BoardFacts DEF BoardDone, SameRows
  <2> QED
    BY <1>1, <2>7, BoardStepDone
<1>4. CASE ~calls[s].ok
  <2>1. board' = b /\ calls' = Taken(s)
    BY <1>4 DEF ItemCreated
  <2> QED
    BY <1>1, <1>2, <2>1, FlagsStep DEF ListKinds
<1> QED
  BY <1>3, <1>4

\* A row that takes the place of another has its id.
LEMMA ReplacedRows ==
    ASSUME NEW rows, NEW answered, NEW x \in Replaced(rows, answered)
    PROVE  x \in rows \cup answered /\ \E row \in rows : row.id = x.id
<1>1. PICK row \in rows :
        x = IF \E new \in answered : new.id = row.id
            THEN CHOOSE new \in answered : new.id = row.id ELSE row
  BY DEF Replaced
<1>2. CASE \E new \in answered : new.id = row.id
  <2>1. x = CHOOSE new \in answered : new.id = row.id
    BY <1>1, <1>2
  <2>2. x \in answered /\ x.id = row.id
    BY <1>2, <2>1
  <2> QED
    BY <2>2
<1> QED
  BY <1>1, <1>2

LEMMA DecidedStep ==
    ASSUME PagesInv, page \in BoardPages, UNCHANGED <<page, chat>>, NEW s \in Slots, Decided(s)
    PROVE  PagesInv'
<1> PICK e : e = Env
  OBVIOUS
<1> PICK call : call = calls[s]
  OBVIOUS
<1> PICK rows : rows = Replaced(board.rows, call.rows)
  OBVIOUS
<1> PICK b : b = [board EXCEPT !.acting = None, !.rows = rows, !.error = @ \/ ~call.ok]
  OBVIOUS
<1>1. /\ call.kind = "decide" /\ workspace' = workspace /\ clicks' = clicks
      /\ UNCHANGED <<mock, existing, surfaced, runs, approvals, profiles>>
      /\ board' = b /\ calls' = Taken(s)
  BY ArrivedFacts DEF Decided
<1>2. /\ call \in CallRecord /\ CallTrue(call, e) /\ e.page = page /\ call.ok \in BOOLEAN
  BY TakenHere, BoardFacts DEF CallRecord
<1>3. page = "approvals"
  BY <1>1, TakenBoard DEF KindsOf, BoardPages
<1>4. /\ ApprovalRows(call.rows, e) /\ ApprovalRows(board.rows, e)
      /\ call.rows \subseteq RowType /\ board.rows \subseteq RowType
  BY <1>1, <1>2, <1>3, BoardFacts DEF CallTrue, BoardRows, CallRecord, BoardRecord
<1>5. ApprovalRows(rows, e) /\ rows \subseteq RowType
  BY <1>4, ReplacedRows DEF ApprovalRows
<1>6. \A x \in rows : \E row \in board.rows : row.ws = x.ws
  <2> SUFFICES ASSUME NEW x \in rows PROVE \E row \in board.rows : row.ws = x.ws
    OBVIOUS
  <2>1. PICK row \in board.rows : row.id = x.id
    BY ReplacedRows
  <2> QED
    BY <1>4, <1>5, <2>1 DEF ApprovalRows
<1>7. /\ b \in BoardRecord /\ b.rows = rows /\ b.selected = board.selected
      /\ b.detail = board.detail /\ b.workshop = board.workshop
  BY <1>2, <1>5, BoardFacts DEF BoardRecord, Ids
<1>8. board.error => b.error
  BY <1>2, BoardFacts DEF BoardRecord
<1>9. BoardRows(b, e) /\ DetailOk(b, Taken(s), e)
  BY <1>1, <1>2, <1>3, <1>5, <1>7, BoardFacts, TakenBoard DEF BoardRows, DetailOk
<1>10. ListOk(b, Taken(s), e)
  <2>1. Sends(calls, ListKinds) => Sends(Taken(s), ListKinds)
    BY <1>1, TakenBoard DEF ListKinds
  <2>2. RowsIn(board.rows, e.ws) => RowsIn(b.rows, e.ws)
    BY <1>6, <1>7 DEF RowsIn
  <2> QED
    BY <1>7, <1>8, <2>1, <2>2, BoardFacts DEF BoardOk, ListOk
<1>11. BoardDone(e) /\ e = Seen(board'.selected, workspace')
  BY <1>1, <1>7, <1>9, <1>10, BoardFacts, TakenBoard DEF BoardDone, BoardOk
<1> QED
  BY <1>1, <1>11, BoardStepDone

\* The rows of profiles change, and on the agents board the selection with them.
LEMMA ProfilesStep ==
    ASSUME PagesInv, page \in {"agents", "admin"}, UNCHANGED <<page, chat>>, NEW s \in Slots,
           calls[s].kind # "detail", calls' = Taken(s), NEW b \in BoardRecord, board' = b,
           BoardRows(b, Env), b.detail = board.detail, page = "admin" => b.selected = board.selected,
           workspace' = workspace, clicks' = clicks,
           UNCHANGED <<mock, existing, surfaced, runs, approvals, profiles>>
    PROVE  PagesInv'
<1> PICK f : f = Seen(b.selected, workspace)
  OBVIOUS
<1>0. page \in BoardPages
  BY DEF BoardPages
<1>1. BoardOk(b, Taken(s), f) /\ CallsOk(Taken(s), f)
  <2>1. CASE page = "agents"
    BY <1>0, <2>1, TakenBoard, SelectAgentOk
  <2>2. CASE page = "admin"
    <3>1. f = Env /\ Env.page = "admin"
      BY <1>0, <2>2, BoardFacts
    <3>2. DetailOk(b, Taken(s), Env) /\ ListOk(b, Taken(s), Env)
      BY <1>0, <3>1, BoardFacts, TakenBoard DEF DetailOk, ListOk, Cancelling
    <3> QED
      BY <1>0, <3>1, <3>2, TakenBoard DEF BoardOk
  <2> QED
    BY <2>1, <2>2
<1>2. BoardDone(f) /\ f = Seen(board'.selected, workspace')
  BY <1>0, <1>1, BoardFacts DEF BoardDone
<1> QED
  BY <1>0, <1>2, BoardStepDone

\* The pages that show profiles have them in rows of two names.
LEMMA WithProfilesOk ==
    ASSUME PagesInv, page \in {"agents", "admin"}, NEW rows \in SUBSET RowType, ProfilesSound(rows, Env)
    PROVE  /\ WithProfiles(board, rows) \in BoardRecord
           /\ WithProfiles(board, rows).detail = board.detail
           /\ WithProfiles(board, rows).selected = board.selected
           /\ BoardRows(WithProfiles(board, rows), Env)
           /\ BoardRows(board, Env) /\ board \in BoardRecord
           /\ ProfileRows \subseteq RowType /\ ProfilesSound(ProfileRows, Env)
<1>0. page \in BoardPages
  BY DEF BoardPages
<1> PICK b : b = WithProfiles(board, rows)
  OBVIOUS
<1>1. board \in BoardRecord /\ BoardRows(board, Env) /\ Env.page = page
  BY <1>0, BoardFacts
<1>2. CASE page = "admin"
  <2>1. b = [board EXCEPT !.workshop = rows]
    BY <1>2 DEF WithProfiles
  <2>2. /\ b \in BoardRecord /\ b.detail = board.detail /\ b.selected = board.selected
        /\ b.rows = board.rows /\ b.workshop = rows
    BY <1>1, <2>1 DEF BoardRecord
  <2> QED
    BY <1>1, <1>2, <2>2 DEF BoardRows, ProfileRows, BoardRecord
<1>3. CASE page = "agents"
  <2>1. b = [board EXCEPT !.rows = rows]
    BY <1>3 DEF WithProfiles
  <2>2. /\ b \in BoardRecord /\ b.detail = board.detail /\ b.selected = board.selected
        /\ b.rows = rows
    BY <1>1, <2>1 DEF BoardRecord
  <2> QED
    BY <1>1, <1>3, <2>2 DEF BoardRows, ProfileRows, BoardRecord
<1> QED
  BY <1>2, <1>3

LEMMA WorkshopListedStep ==
    ASSUME PagesInv, page \in BoardPages, UNCHANGED <<page, chat>>, NEW s \in Slots, WorkshopListed(s)
    PROVE  PagesInv'
<1> PICK call : call = calls[s]
  OBVIOUS
<1>1. /\ call.kind = "workshop" /\ workspace' = workspace /\ clicks' = clicks
      /\ UNCHANGED <<mock, existing, surfaced, runs, approvals, profiles>>
      /\ calls' = Taken(s)
  BY ArrivedFacts DEF WorkshopListed
<1>2. page = "admin"
  BY <1>1, TakenBoard DEF KindsOf, BoardPages
<1>3. call.rows \in SUBSET RowType /\ ProfilesSound(call.rows, Env)
  BY <1>1, TakenHere DEF CallRecord, CallTrue
<1>4. CASE call.ok
  <2> PICK b : b = WithProfiles(board, call.rows)
    OBVIOUS
  <2>1. board' = b
    BY <1>2, <1>4 DEF WorkshopListed, WithProfiles
  <2>2. b \in BoardRecord /\ BoardRows(b, Env) /\ b.detail = board.detail /\ b.selected = board.selected
    BY <1>2, <1>3, WithProfilesOk
  <2> QED
    BY <1>1, <1>2, <2>1, <2>2, ProfilesStep
<1>5. CASE ~call.ok
  <2>1. board' = board
    BY <1>5 DEF WorkshopListed
  <2> QED
    BY <1>1, <1>2, <2>1, BoardFacts, ProfilesStep
<1> QED
  BY <1>4, <1>5

LEMMA ProfileAnsweredStep ==
    ASSUME PagesInv, page \in BoardPages, UNCHANGED <<page, chat>>, NEW s \in Slots, ProfileAnswered(s)
    PROVE  PagesInv'
<1> PICK call : call = calls[s]
  OBVIOUS
<1> PICK rows : rows = Replaced(ProfileRows, call.rows)
  OBVIOUS
<1> PICK b : b = WithProfiles(board, rows)
  OBVIOUS
<1> PICK c : c = [b EXCEPT !.busy = FALSE]
  OBVIOUS
<1>1. /\ call.kind \in {"approve", "inspect"} /\ workspace' = workspace /\ clicks' = clicks
      /\ UNCHANGED <<mock, existing, surfaced, runs, approvals, profiles>>
      /\ calls' = Taken(s) /\ board' = c
  BY ArrivedFacts DEF ProfileAnswered
<1>2. page \in {"agents", "admin"}
  BY <1>1, TakenBoard DEF KindsOf, BoardPages
<1>3. call.rows \subseteq RowType /\ ProfilesSound(call.rows, Env)
  BY <1>1, TakenHere DEF CallRecord, CallTrue
<1>4. ProfileRows \subseteq RowType /\ ProfilesSound(ProfileRows, Env)
  BY <1>2, <1>3, WithProfilesOk
<1>5. rows \in SUBSET RowType /\ ProfilesSound(rows, Env)
  BY <1>3, <1>4, ReplacedRows DEF ProfilesSound
<1>6. b \in BoardRecord /\ BoardRows(b, Env) /\ b.detail = board.detail /\ b.selected = board.selected
  BY <1>2, <1>5, WithProfilesOk
<1>7. /\ c \in BoardRecord /\ c.detail = b.detail /\ c.selected = b.selected /\ c.rows = b.rows
      /\ c.workshop = b.workshop
  BY <1>6 DEF BoardRecord
<1>8. BoardRows(c, Env)
  BY <1>6, <1>7 DEF BoardRows
<1> QED
  BY <1>1, <1>2, <1>6, <1>7, <1>8, ProfilesStep

LEMMA DraftCreatedStep ==
    ASSUME PagesInv, page \in BoardPages, UNCHANGED <<page, chat>>, NEW s \in Slots, DraftCreated(s)
    PROVE  PagesInv'
<1> PICK call : call = calls[s]
  OBVIOUS
<1> PICK rows : rows = {row \in ProfileRows : row.id # call.id} \cup call.rows
  OBVIOUS
<1> PICK b : b = IF call.ok THEN WithProfiles(board, rows) ELSE board
  OBVIOUS
<1> PICK sel : sel = IF call.ok /\ page = "agents" THEN call.id ELSE b.selected
  OBVIOUS
<1> PICK c : c = [b EXCEPT !.busy = FALSE, !.selected = sel]
  OBVIOUS
<1>1. /\ call.kind = "draft" /\ workspace' = workspace /\ clicks' = clicks
      /\ UNCHANGED <<mock, existing, surfaced, runs, approvals, profiles>>
      /\ calls' = Taken(s)
  BY ArrivedFacts DEF DraftCreated
<1>2. page \in {"agents", "admin"}
  BY <1>1, TakenBoard DEF KindsOf, BoardPages
<1>3. call.rows \subseteq RowType /\ ProfilesSound(call.rows, Env) /\ call.id \in Profiles
  BY <1>1, TakenHere DEF CallRecord, CallTrue
<1>4. ProfileRows \subseteq RowType /\ ProfilesSound(ProfileRows, Env)
  BY <1>2, <1>3, WithProfilesOk
<1>5. rows \in SUBSET RowType /\ ProfilesSound(rows, Env)
  BY <1>3, <1>4 DEF ProfilesSound
<1>6. b \in BoardRecord /\ BoardRows(b, Env) /\ b.detail = board.detail /\ b.selected = board.selected
  BY <1>2, <1>5, WithProfilesOk
<1>7. board' = c
  BY <1>6 DEF DraftCreated, BoardRecord
<1>8. sel \in Ids /\ (page = "admin" => sel = board.selected)
  BY <1>3, <1>6 DEF BoardRecord, Ids
<1>9. /\ c \in BoardRecord /\ c.detail = b.detail /\ c.selected = sel /\ c.rows = b.rows
      /\ c.workshop = b.workshop
  BY <1>6, <1>8 DEF BoardRecord
<1>10. BoardRows(c, Env)
  BY <1>6, <1>9 DEF BoardRows
<1> QED
  BY <1>1, <1>2, <1>6, <1>7, <1>8, <1>9, <1>10, ProfilesStep

LEMMA BoardKeeps ==
    ASSUME PagesInv, page \in BoardPages, BoardStep, UNCHANGED <<page, chat>>
    PROVE  PagesInv'
<1>1. CASE BoardClick
  BY <1>1, RefreshBoardStep, CreateItemStep, DownloadStep, SwitchWorkspaceStep, SelectRowStep,
     DecideStep, CreateDraftStep, OnProfileStep DEF BoardClick
<1>2. ASSUME NEW s \in Slots, BoardTakes(s) PROVE PagesInv'
  BY <1>2, ListFailedStep, ListLoadedStep, ItemsListedStep, ApprovalsListedStep,
     AdminRunsListedStep, FleetListedStep, WorkshopListedStep, DetailLoadedStep, ItemCreatedStep,
     DecidedStep, DraftCreatedStep, ProfileAnsweredStep, DownloadedStep DEF BoardTakes
<1> QED
  BY <1>1, <1>2 DEF BoardStep

-----------------------------------------------------------------------------
\* The server, with the page as it is.
LEMMA TablesKeep ==
    ASSUME PagesInv, UNCHANGED <<page, chat, board>>, workspace' = workspace, clicks' = clicks,
           TablesTrue', TablesGrow(Env, Env'), CallsOk(calls', Env'),
           \A s \in Slots : calls'[s].kind = calls[s].kind
    PROVE  PagesInv'
<1> PICK e : e = Env
  OBVIOUS
<1> PICK f : f = Env'
  OBVIOUS
<1>1. f.sel = e.sel /\ f.ws = e.ws /\ TablesGrow(e, f) /\ CallsOk(calls, e)
  BY DEF Env, PagesInv
<1>2. /\ \A v : ChatOk(v, e) => ChatOk(v, f)
      /\ \A b : BoardOk(b, calls, e) => BoardOk(b, calls, f)
  BY <1>1, ViewsGrow
<1>3. \A b : BoardOk(b, calls, f) => BoardOk(b, calls', f)
  BY BoardKept
<1> QED
  BY <1>2, <1>3 DEF PagesInv

LEMMA ServerKeeps ==
    ASSUME PagesInv, ServerStep, UNCHANGED <<page, chat, board>>
    PROVE  PagesInv'
<1> PICK e : e = Env
  OBVIOUS
<1> PICK f : f = Env'
  OBVIOUS
<1>1. TablesTrue' /\ TablesGrow(e, f) /\ UNCHANGED <<calls, workspace, clicks>>
  BY ServerStepKeeps DEF PagesInv, ServerStep
<1>2. f.sel = e.sel /\ f.ws = e.ws /\ CallsOk(calls, e)
  BY <1>1 DEF Env, PagesInv
<1>3. CallsOk(calls', f)
  BY <1>1, <1>2, ViewsGrow
<1> QED
  BY <1>1, <1>3, TablesKeep

LEMMA ServeKeeps ==
    ASSUME PagesInv, NEW s \in Slots, Serve(s), UNCHANGED page
    PROVE  PagesInv'
<1>0. TablesTrue /\ page \in Pages /\ CallsOk(calls, Env)
  BY DEF PagesInv
<1>1. ServeOk(s) /\ workspace' = workspace /\ clicks' = clicks
  <2>1. CASE \E parts \in PartsRead(s) : \E lost \in SUBSET parts : Read(s, parts, lost)
    <3>1. PICK parts \in PartsRead(s) : \E lost \in SUBSET parts : Read(s, parts, lost)
      BY <2>1
    <3>2. PICK lost \in SUBSET parts : Read(s, parts, lost)
      BY <3>1
    <3>3. UNCHANGED <<page, chat, board>>
      BY DEF Serve
    <3>4. ServeOk(s)
      BY <1>0, <3>2, <3>3, ReadKeeps
    <3> QED
      BY <3>2, <3>4 DEF Read
  <2>2. CASE Write(s)
    <3>1. UNCHANGED <<page, chat, board>>
      BY DEF Serve
    <3>2. ServeOk(s)
      BY <1>0, <2>2, <3>1, WriteKeeps
    <3> QED
      BY <2>2, <3>2 DEF Write
  <2> QED
    BY <2>1, <2>2 DEF Serve
<1> QED
  BY <1>1, TablesKeep DEF ServeOk, Serve

-----------------------------------------------------------------------------
\* The requests that a page sends when it is mounted.
LEMMA SendOk ==
    ASSUME NEW e, NEW under, CallsOk(under, e), NEW request, CallOk(request, e)
    PROVE  CallsOk(Send(under, request), e)
<1> PICK s : s = CHOOSE t \in Free(under) : \A u \in Free(under) : t <= u
  OBVIOUS
<1>1. Send(under, request) = [under EXCEPT ![s] = request]
  BY DEF Send
<1>2. CASE s \in Slots
  <2>1. CallsOk([under EXCEPT ![s] = request], e)
    BY <1>2, ChangedOk
  <2> QED
    BY <1>1, <2>1
<1>3. CASE s \notin Slots
  <2>1. [under EXCEPT ![s] = request] = under
    BY <1>3 DEF CallsOk
  <2> QED
    BY <1>1, <2>1
<1> QED
  BY <1>2, <1>3

LEMMA TablesInit == ASSUME ApiInit PROVE TablesTrue
<1>1. PICK n \in 0..MaxRuns : runs \in [1..n -> RunHistory]
  BY DEF ApiInit
<1>2. n \in Nat /\ n <= MaxRuns /\ RunHistory \subseteq RunType
  BY ControlApiAssumption DEF RunHistory
<1>3. runs \in [1..n -> RunType]
  BY <1>1, <1>2
<1>4. runs \in Seq(RunType) /\ Len(runs) = n /\ DOMAIN runs = 1..n
  BY <1>2, <1>3
<1>5. ASSUME NEW r \in DOMAIN runs, runs[r].row = "succeeded"
      PROVE  runs[r].events = MaxEvents
  <2>1. runs[r] \in RunHistory
    BY <1>1, <1>4
  <2>2. runs[r].events \in 1..MaxEvents
    BY <2>1 DEF RunHistory, RunType
  <2>3. PICK seq \in 1..runs[r].events : runs[r].row = StatusAt(seq)
    BY <2>1 DEF RunHistory
  <2>4. seq \in 1..MaxEvents /\ seq <= runs[r].events
    BY <2>2, <2>3, ControlApiAssumption
  <2>5. seq = MaxEvents
    BY <1>5, <2>3, <2>4, StatusFacts
  <2> QED
    BY <2>2, <2>4, <2>5, ControlApiAssumption
<1> QED
  BY <1>2, <1>4, <1>5 DEF ApiInit, TablesTrue

LEMMA InitPages == ASSUME PagesInit PROVE PagesInv
<1> PICK e : e = Env
  OBVIOUS
<1> PICK none : none = [s \in Slots |-> NoCall]
  OBVIOUS
<1>1. /\ TablesTrue /\ workspace \in Workspaces /\ clicks \in 0..MaxClicks /\ page \in Pages
      /\ e.page = page /\ e.ws = workspace
  BY TablesInit, EnvFields, ControlApiAssumption DEF PagesInit, ApiInit, Pages
<1>2. CallsOk(none, e)
  <2>1. CallOk(NoCall, e)
    BY <1>1, NoCallOk
  <2>2. NoCall \in CallRecord
    BY <2>1 DEF CallOk, CallShape
  <2> QED
    BY <2>1, <2>2 DEF CallsOk
<1>3. CASE page = "chat" /\ ChatInit /\ board = EmptyBoard
  <2>1. Asked("conversations", workspace, None, {"items"}, e)
    BY <1>1, <1>3 DEF Asked, KindsOf, Kinds, Ids, Parts, PartsOf
  <2>2. CallsOk(calls, e)
    BY <1>2, <1>3, <2>1, RequestOk, SendOk DEF ChatInit, ListRequest
  <2>3. chat = [NoChat EXCEPT !.loadingItems = TRUE]
    BY <1>3 DEF ChatInit
  <2>4. chat \in ChatRecord /\ chat.runs = {} /\ chat.events = {}
    BY <2>3 DEF NoChat, ChatRecord
  <2>5. ChatOk(chat, e)
    BY <2>4 DEF ChatOk, RunRows, RowsOfItem, EventsOfItem
  <2> QED
    BY <1>1, <1>3, <2>2, <2>5 DEF PagesInv
<1>4. CASE page \in BoardPages /\ BoardInit /\ chat = NoChat
  <2> PICK list : list = Send(none, Request("list", workspace, None, ListParts[page]))
    OBVIOUS
  <2>1. Asked("list", workspace, None, ListParts[page], e)
    BY <1>1, <1>4 DEF Asked, KindsOf, Kinds, Ids, Parts, PartsOf, ListParts, BoardPages
  <2>2. CallsOk(list, e)
    BY <1>2, <2>1, RequestOk, SendOk
  <2>3. page = "admin" => Asked("workshop", None, None, {"profiles"}, e)
    BY <1>1 DEF Asked, KindsOf, Kinds, Ids, Parts, PartsOf
  <2>4. page = "admin" => CallsOk(Send(list, Request("workshop", None, None, {"profiles"})), e)
    BY <2>2, <2>3, RequestOk, SendOk
  <2>5. CallsOk(calls, e)
    BY <1>4, <2>2, <2>4 DEF BoardInit
  <2>6. board = [EmptyBoard EXCEPT !.loading = TRUE]
    BY <1>4 DEF BoardInit
  <2>7. /\ board \in BoardRecord /\ board.rows = {} /\ board.detail.rows = {}
        /\ board.detail.entries = {} /\ board.workshop = {}
    BY <2>6 DEF EmptyBoard, BoardRecord, Ids
  <2>8. BoardRows(board, e)
    BY <2>7 DEF BoardRows, ItemRows, ApprovalRows, ProfilesSound, RunRows
  <2>9. DetailOk(board, calls, e) /\ ListOk(board, calls, e)
    BY <2>7, EmptyDetail DEF DetailOk, ListOk, RowsIn
  <2>10. page # "chat"
    BY <1>4 DEF BoardPages
  <2> QED
    BY <1>1, <1>4, <2>5, <2>7, <2>8, <2>9, <2>10 DEF PagesInv, BoardOk
<1> QED
  BY <1>3, <1>4 DEF PagesInit

LEMMA PagesStep == PagesInv /\ [PagesNext]_pagesVars => PagesInv'
<1> SUFFICES ASSUME PagesInv, [PagesNext]_pagesVars PROVE PagesInv'
  OBVIOUS
<1>1. CASE UNCHANGED pagesVars
  BY <1>1 DEF pagesVars, api, server, PagesInv, TablesTrue, Env
<1>2. CASE PagesNext
  <2>0. UNCHANGED page
    BY <1>2 DEF PagesNext
  <2>1. CASE ServerStep /\ UNCHANGED <<chat, board>>
    BY <2>0, <2>1, ServerKeeps
  <2>2. CASE \E s \in Slots : Serve(s)
    BY <2>0, <2>2, ServeKeeps
  <2>3. CASE page = "chat" /\ ChatStep /\ UNCHANGED board
    BY <2>0, <2>3, ChatKeeps
  <2>4. CASE page \in BoardPages /\ BoardStep /\ UNCHANGED chat
    BY <2>0, <2>4, BoardKeeps
  <2> QED
    BY <1>2, <2>1, <2>2, <2>3, <2>4 DEF PagesNext
<1> QED
  BY <1>1, <1>2

\* What requests have been answered, and what pages show, is true of the tables.
THEOREM PagesInvariance == PagesSpec => []PagesInv
<1> QED
  BY InitPages, PagesStep, PTL DEF PagesSpec

\* Whatever the order of the answers, a conversation shows the runs and events of
\* the item that is selected (runs-chat.tsx:101-106), a loaded detail is that of the
\* selected row, and the boards that cancel their loads list the workspace that
\* is chosen.  The lists of the chat and of the agents board, which do not cancel
\* theirs, are not claimed to.
THEOREM SelectionShown == PagesSpec => []ShowsSelection
<1> QED
  BY PagesInvariance, PagesInvImplies, PTL

\* A run that a page shows as ended has ended, and a decision has been made.
THEOREM FactsShown == PagesSpec => []ShowsFacts
<1> QED
  BY PagesInvariance, PagesInvImplies, PTL
=============================================================================
