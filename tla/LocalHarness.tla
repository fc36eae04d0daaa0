---- MODULE LocalHarness ----
(***************************************************************************)
(* The local harness of the agent runtime: the command line plays one      *)
(* scripted scenario of a resident runner into the files of a directory,   *)
(* and the command "inspect" reads those files back.  A directory may be   *)
(* used again, with the same or another run id; a run may be killed or     *)
(* refused a file at any point; an inspection may run at any time.  One    *)
(* scenario at a time runs in a directory.  The transcript, which nothing  *)
(* reads, is left out.                                                     *)
(***************************************************************************)
EXTENDS Naturals, Sequences, FiniteSets

CONSTANTS
  RunIds,         \* the run ids an operator may give or the clock may yield
  TaskFlags,      \* the task ids an operator may give; NoFlag: none given
  NoFlag,
  MaxAttempts     \* bound: how many scenarios are started in the directory

ASSUME HarnessAssumption ==
  /\ RunIds # {}
  /\ MaxAttempts \in Nat

VARIABLES
  attempts,       \* the options of every scenario started, in order
  call,           \* the scenario being played
  events,         \* events.ndjson
  stateFile,      \* runner-state.json
  files,          \* artifacts/<artifact id>/...: the attempt that wrote it, or 0
  inspection      \* the command "inspect": what it has read and what it shows

harnessVars == <<attempts, call, events, stateFile, files, inspection>>

Decisions == {"approved", "rejected", "pending"}
Statuses == {"planning", "running", "waiting_for_approval", "archiving", "succeeded"}
Kinds == {"report", "website"}
NoFile == [kind |-> "missing"]
Torn == [kind |-> "torn"]

-----------------------------------------------------------------------------
(* The command line.                                                       *)

\* What the operator may answer to "approve the preview?"; "" is an empty line.
Words == {"", "approved", "yes", "rejected", "no", "pending", "wait", "maybe"}

ParseApprovalDecision(word) ==
  CASE word \in {"approved", "yes"} -> "approved"
    [] word \in {"rejected", "no"} -> "rejected"
    [] word \in {"pending", "wait"} -> "pending"
    [] OTHER -> "invalid"

ApprovalDecisionFlag(flag) ==
  IF flag = "" THEN "approved" ELSE ParseApprovalDecision(flag)

\* Bug: only the flag is looked at.
AskNothing(terminal, answer, flag) == ApprovalDecisionFlag(flag)

\* Lines from a pipe are read before the flag is looked at; at a terminal the
\* flag is the default shown, so an invalid flag fails whatever is answered.
AskInteractiveQuestions(terminal, answer, flag) ==
  IF answer = "" \/ (terminal /\ ApprovalDecisionFlag(flag) = "invalid")
  THEN ApprovalDecisionFlag(flag)
  ELSE ParseApprovalDecision(answer)

\* The task id is derived from the run id unless one is given.
Task(run, flag) == IF flag = NoFlag THEN run ELSE flag

-----------------------------------------------------------------------------
(* The scenario.                                                           *)

\* What is written, in order: status events by their status, the approval
\* events, an artifact's file and its event, and the state file.
Scenario(decision) ==
  <<"prepare", "planning", "running", "waiting_for_approval", "request">> \o
  (IF decision = "pending" THEN <<>> ELSE
     <<"decision", "running", "report", "report_event">> \o
     (IF decision = "approved" THEN <<"website", "website_event">> ELSE <<>>) \o
     <<"archiving", "succeeded">>) \o
  <<"truncate", "state">>

Tool(id, status) == [tool |-> id, status |-> status, gated |-> FALSE]

\* The tool executions noted between the write before a step and the step.
ToolsBefore(step, tools, decision) ==
  CASE step = "running" /\ tools = <<>> ->
         <<Tool("plan_task", "completed"), Tool("summarize_context", "completed"),
           Tool("ask_user_question", "completed")>>
    [] step = "waiting_for_approval" ->
         Append(tools, [tool |-> "register_static_site",
                        status |-> "approval_required", gated |-> TRUE])
    [] step = "running" /\ tools # <<>> ->
         [k \in DOMAIN tools |->
            IF tools[k].gated THEN [tools[k] EXCEPT !.status = decision] ELSE tools[k]]
    [] step = "report_event" -> Append(tools, Tool("artifact.create", "completed"))
    [] step = "website" -> Append(tools, Tool("generate_static_site", "completed"))
    [] OTHER -> tools

BuildToolMetrics(tools) ==
  [totalCalls |-> Len(tools),
   byStatus |-> [s \in {tools[k].status : k \in DOMAIN tools} |->
                   Cardinality({k \in DOMAIN tools : tools[k].status = s})],
   approvalGated |-> Cardinality({k \in DOMAIN tools : tools[k].gated})]

BuildState(status) ==
  [kind |-> "state", by |-> Len(attempts), run |-> call.run, task |-> call.task,
   status |-> status,
   runner |-> CASE status = "waiting_for_approval" -> "waiting"
                [] status = "succeeded" -> "completed"
                [] OTHER -> "ready",
   metrics |-> BuildToolMetrics(call.tools),
   decision |-> call.decision,
   waitStates |-> IF status = "waiting_for_approval" THEN 1 ELSE 0,
   artifacts |-> call.artifacts,
   eventCursor |-> call.seq]

Idle == [phase |-> "idle", run |-> CHOOSE r \in RunIds : TRUE, task |-> NoFlag,
         decision |-> "pending", steps |-> <<>>, seq |-> 0, tools |-> <<>>,
         artifacts |-> {}]

HarnessInit ==
  /\ attempts = <<>>
  /\ call = Idle
  /\ events = <<>>
  /\ stateFile = NoFile
  /\ files = [name \in (RunIds \cup TaskFlags) \X Kinds |-> 0]
  /\ inspection = [phase |-> "idle", state |-> NoFile, events |-> <<>>]

\* "run": options are parsed and the context is built; nothing is written yet.
Start(run, taskFlag, word, decision) ==
  /\ call.phase # "playing"
  /\ Len(attempts) < MaxAttempts
  /\ decision \in Decisions
  /\ attempts' = Append(attempts, [run |-> run, word |-> word])
  /\ call' = [Idle EXCEPT !.phase = "playing", !.run = run, !.task = Task(run, taskFlag),
                !.decision = decision, !.steps = Scenario(decision)]
  /\ UNCHANGED <<events, stateFile, files, inspection>>

\* Without "--interactive" the flag decides; otherwise the answer, if any.
Run ==
  \E run \in RunIds, taskFlag \in TaskFlags \cup {NoFlag}, flag, answer \in Words,
     terminal \in BOOLEAN :
    \/ Start(run, taskFlag, flag, ApprovalDecisionFlag(flag))
    \/ Start(run, taskFlag, IF answer = "" THEN flag ELSE answer,
             AskInteractiveQuestions(terminal, answer, flag))

AtStep(steps) == call.phase = "playing" /\ Head(call.steps) \in steps

\* The call moves on to its next step, with the tools noted on the way there.
Proceed(c) ==
  LET rest == Tail(c.steps)
  IN  IF rest = <<>> THEN [c EXCEPT !.phase = "ended", !.steps = rest]
      ELSE [c EXCEPT !.steps = rest, !.tools = ToolsBefore(Head(rest), @, c.decision)]

\* Events of an earlier scenario are dropped; its state and artifacts are not.
PrepareRoot ==
  /\ AtStep({"prepare"})
  /\ events' = <<>>
  /\ call' = Proceed(call)
  /\ UNCHANGED <<attempts, stateFile, files, inspection>>

PutEvent(type, about) ==
  /\ events' = Append(events, [by |-> Len(attempts), run |-> call.run,
                               seq |-> call.seq + 1, type |-> type, about |-> about])
  /\ call' = Proceed([call EXCEPT !.seq = @ + 1])
  /\ UNCHANGED <<attempts, stateFile, files, inspection>>

PutStatus == AtStep(Statuses) /\ PutEvent("run.status", Head(call.steps))

PutApprovalRequest == AtStep({"request"}) /\ PutEvent("request", "pending")

\* Bug: the scenario waits for ever when the preview is rejected.
PutApprovalOnly ==
  /\ AtStep({"decision"})
  /\ call.decision = "approved"
  /\ PutEvent("decision", "approved")

PutApprovalDecision == AtStep({"decision"}) /\ PutEvent("decision", call.decision)

WriteArtifact(kind) ==
  /\ AtStep({kind})
  /\ files' = [files EXCEPT ![<<call.task, kind>>] = Len(attempts)]
  /\ call' = Proceed([call EXCEPT !.artifacts = @ \cup {kind}])
  /\ UNCHANGED <<attempts, events, stateFile, inspection>>

WriteReportArtifact == WriteArtifact("report")

WriteWebsiteArtifact == WriteArtifact("website")

PutArtifactEvent ==
  \/ AtStep({"report_event"}) /\ PutEvent("artifact", "report")
  \/ AtStep({"website_event"}) /\ PutEvent("artifact", "website")

\* The file is truncated first and filled after that.
WriteState ==
  /\ AtStep({"truncate", "state"})
  /\ stateFile' = IF Head(call.steps) = "truncate" THEN Torn
                  ELSE BuildState(IF call.decision = "pending"
                                  THEN "waiting_for_approval" ELSE "succeeded")
  /\ call' = Proceed(call)
  /\ UNCHANGED <<attempts, events, files, inspection>>

\* The process is killed, or a file cannot be written and the command fails.
Abort ==
  /\ call.phase = "playing"
  /\ call' = [call EXCEPT !.phase = "aborted", !.steps = <<>>]
  /\ UNCHANGED <<attempts, events, stateFile, files, inspection>>

-----------------------------------------------------------------------------
(* The command "inspect" (also run after a scenario, if asked for): the     *)
(* state is read first and the events after it.                            *)

ReadState ==
  /\ inspection' = IF stateFile \in {NoFile, Torn}
                   THEN [phase |-> "failed", state |-> NoFile, events |-> <<>>]
                   ELSE [phase |-> "reading", state |-> stateFile, events |-> <<>>]
  /\ UNCHANGED <<attempts, call, events, stateFile, files>>

ReadEvents ==
  /\ inspection.phase = "reading"
  /\ inspection' = [inspection EXCEPT !.phase = "shown", !.events = events]
  /\ UNCHANGED <<attempts, call, events, stateFile, files>>

\* Bug: the events are read before the state.
InspectEventsFirst ==
  /\ inspection' = IF inspection.phase # "reading"
                   THEN [phase |-> "reading", state |-> NoFile, events |-> events]
                   ELSE [inspection EXCEPT !.state = stateFile,
                           !.phase = IF stateFile \in {NoFile, Torn} THEN "failed" ELSE "shown"]
  /\ UNCHANGED <<attempts, call, events, stateFile, files>>

InspectLocalHarness == \/ inspection.phase # "reading" /\ ReadState
                       \/ ReadEvents

\* What the inspection prints: both readings, side by side.
RenderInspection ==
  [run |-> inspection.state.run, runStatus |-> inspection.state.status,
   artifacts |-> Cardinality(inspection.state.artifacts),
   durableToolEvents |-> inspection.state.metrics.approvalGated,
   events |-> Len(inspection.events),
   eventTypes |-> {inspection.events[k].type : k \in DOMAIN inspection.events}]

Play == \/ PrepareRoot
        \/ PutStatus
        \/ PutApprovalRequest
        \/ PutApprovalDecision
        \/ WriteReportArtifact
        \/ WriteWebsiteArtifact
        \/ PutArtifactEvent
        \/ WriteState

HarnessNext == Run \/ Play \/ Abort \/ InspectLocalHarness

\* A started command goes on unless it is killed.
HarnessSpec == HarnessInit /\ [][HarnessNext]_harnessVars /\ WF_harnessVars(Play)

-----------------------------------------------------------------------------
(* Properties.                                                             *)

\* Every variable keeps its shape.
HarnessTypeOK ==
  /\ Len(attempts) <= MaxAttempts
  /\ call.phase \in {"idle", "playing", "ended", "aborted"}
  /\ call.decision \in Decisions /\ call.artifacts \subseteq Kinds
  /\ call.run \in RunIds /\ call.task \in RunIds \cup TaskFlags \cup {NoFlag}
  /\ \A k \in DOMAIN events : events[k].type \in {"run.status", "request", "decision", "artifact"}
  /\ stateFile \in {NoFile, Torn} \/ stateFile.status \in Statuses
  /\ files \in [(RunIds \cup TaskFlags) \X Kinds -> 0..MaxAttempts]
  /\ inspection.phase \in {"idle", "failed", "reading", "shown"}

Consents == {"", "approved", "yes"}

Indices(type, about) == {k \in DOMAIN events : events[k].type = type /\ events[k].about = about}

\* A website is announced only after the approval was asked for and then
\* granted in the same scenario, and none is written or announced by a
\* scenario whose operator said no, wait, or something else.
PublishedAfterApproval ==
  /\ \A k \in Indices("artifact", "website") :
       /\ \E d \in Indices("decision", "approved"), r \in Indices("request", "pending") :
            r < d /\ d < k /\ events[d].by = events[k].by /\ events[r].by = events[k].by
       /\ attempts[events[k].by].word \in Consents
  /\ \A name \in DOMAIN files :
       name[2] = "website" /\ files[name] # 0 => attempts[files[name]].word \in Consents

\* The log holds the events of one scenario, numbered without a gap, and an
\* artifact it announces has its file, written by that scenario.
LogOfOneScenario ==
  \A k \in DOMAIN events :
    /\ events[k].seq = k
    /\ events[k].by = events[1].by
    /\ events[k].type = "artifact" =>
         \E name \in DOMAIN files : name[2] = events[k].about /\ files[name] = events[k].by

\* Once a scenario has written the state file, and until the next one starts,
\* the file agrees with the log: the cursor is its length, the status its last
\* status, the artifacts are those announced, one approval-gated tool stands for
\* each request and carries the logged decision, and a wait state is kept
\* exactly while a request has no decision.
StateSumsUpLog ==
  stateFile.kind = "state" /\ stateFile.by = Len(attempts) =>
    /\ stateFile.eventCursor = Len(events)
    /\ \E k \in Indices("run.status", stateFile.status) :
         \A j \in DOMAIN events : events[j].type = "run.status" => j <= k
    /\ stateFile.artifacts = {kind \in Kinds : Indices("artifact", kind) # {}}
    /\ stateFile.metrics.approvalGated = Cardinality(Indices("request", "pending"))
    /\ (stateFile.waitStates = 1)
         <=> (\A d \in Decisions : Indices("decision", d) = {})
    /\ (stateFile.waitStates = 0) =>
         \E s \in DOMAIN stateFile.metrics.byStatus : Indices("decision", s) # {}

UsedOnce(run) == Cardinality({n \in DOMAIN attempts : attempts[n].run = run}) = 1

\* An inspection made while a scenario runs shows no half-written run: when the
\* events it read are of the run its state is about, and that run id was used
\* once, it read all of them.
InspectionAgrees ==
  /\ inspection.phase = "shown" /\ inspection.events # <<>>
  /\ UsedOnce(RenderInspection.run) /\ inspection.events[1].run = RenderInspection.run
  =>
    /\ RenderInspection.events = inspection.state.eventCursor
    /\ (RenderInspection.runStatus = "succeeded") => "decision" \in RenderInspection.eventTypes
    /\ (RenderInspection.artifacts > 0) => "artifact" \in RenderInspection.eventTypes

\* The directory holds one scenario at a time: a log of it alone, a state file
\* that sums the log up, and what an inspection shows of the two agrees.
DirectoryAgrees == HarnessTypeOK /\ LogOfOneScenario /\ StateSumsUpLog /\ InspectionAgrees

\* A scenario that was started ends, by itself or killed.
ScenarioEnds == call.phase = "playing" ~> call.phase # "playing"

====
