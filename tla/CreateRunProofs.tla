--------------------------- MODULE CreateRunProofs ---------------------------
(***************************************************************************)
(* Proofs about CreateRun: the inductive invariant IInv holds for every    *)
(* set of requests, scopes and objectives and for each of the starters,    *)
(* and with it the safety properties of POST /runs.                        *)
(***************************************************************************)
EXTENDS CreateRun, TLAPS

-----------------------------------------------------------------------------
(***************************************************************************)
(* Facts about the data.                                                   *)
(***************************************************************************)

\* The missing row is no row: it has no objective.
LEMMA NoRunIsNoRow == NoRun \notin RunRow /\ NoRun.objective \notin Objectives
BY ConstantsAssumption DEF NoRun, RunRow

\* The run id of a request is a run id.
LEMMA RunOfType ==
    ASSUME TypeOK, NEW c \in Requests
    PROVE  RunOf(c) \in RunIds
BY DEF TypeOK, RequestType, RunOf, RunIds

\* Whatever the starter, it answers with an ARN.
LEMMA StarterArnType == StarterArn \in Arns \ {"none"}
BY DEF StarterArn, Arns

\* A request that is about to start something asks for the objective its ledger
\* row holds, and the row is there.
LEMMA PayloadIsLedgerObjective ==
    ASSUME TypeOK, RequestState, NEW c \in Requests, Starting(c)
    PROVE  /\ runs[RunOf(c)] \in RunRow
           /\ PayloadObjective(c) = runs[RunOf(c)].objective
           /\ PayloadObjective(c) \in Objectives
           /\ \A n \in Nat : StartOf(c, n) \in Start
<1> DEFINE row == runs[RunOf(c)]
<1>1. row \in RunRow \union {NoRun}
  BY RunOfType DEF TypeOK
<1>2. CASE req[c].pc = "start"
  <2>1. /\ PayloadObjective(c) = req[c].objective
        /\ row.objective = req[c].objective
        /\ req[c].objective \in Objectives
    BY <1>2 DEF PayloadObjective, RequestState, RequestFacts
  <2> QED
    BY <1>1, <2>1, NoRunIsNoRow, RunOfType DEF StartOf, Start
<1>3. CASE req[c].pc = "restart"
  <2>1. /\ PayloadObjective(c) = row.objective
        /\ row # NoRun
    BY <1>3 DEF PayloadObjective, RequestState, RequestFacts
  <2>2. row.objective \in Objectives
    BY <1>1, <2>1 DEF RunRow
  <2> QED
    BY <1>1, <2>1, <2>2, RunOfType DEF StartOf, Start
<1> QED
  BY <1>2, <1>3 DEF Starting

-----------------------------------------------------------------------------
(***************************************************************************)
(* Type correctness.                                                       *)
(***************************************************************************)
LEMMA TypeStep == TypeOK /\ RequestState /\ [Next]_vars => TypeOK'
<1> SUFFICES ASSUME TypeOK, RequestState, [Next]_vars
             PROVE  TypeOK'
    OBVIOUS
<1>0. req \in [Requests -> RequestType]
  BY DEF TypeOK
<1>s. starter' = starter
  BY DEF Next, vars
<1> USE <1>s
<1>1. ASSUME NEW c \in Requests, NEW s \in Scopes \union {NoKey},
             NEW o \in Objectives \union {Blank}, Receive(c, s, o)
      PROVE  TypeOK'
  BY <1>1 DEF Receive, TypeOK, RequestType, Working
<1>2. ASSUME NEW c \in Requests, Probe(c)
      PROVE  TypeOK'
  <2> DEFINE existing == index[RunOf(c)]
             pc == CASE existing = NoRun -> "ledger"
                     [] existing.arn # "none" -> "accepted"
                     [] OTHER -> "restart"
  <2>1. existing \in RunRow \union {NoRun}
    BY RunOfType DEF TypeOK
  <2>2. pc \in {"ledger", "accepted", "restart"}
    OBVIOUS
  <2> HIDE DEF existing, pc
  <2>3. req' = [req EXCEPT ![c].pc = pc, ![c].seen = existing]
    BY <1>2 DEF Probe, existing, pc
  <2>4. req' \in [Requests -> RequestType]
    BY <1>0, <2>1, <2>2, <2>3 DEF RequestType, Working
  <2> QED
    BY <1>2, <2>4 DEF Probe, TypeOK
<1>3. ASSUME NEW c \in Requests, CreateRunLedger(c)
      PROVE  TypeOK'
  <2> DEFINE r == RunOf(c)
  <2>1. r \in RunIds /\ req[c].objective \in Objectives
    BY <1>3, RunOfType DEF CreateRunLedger, RequestState, RequestFacts
  <2>2. req' \in [Requests -> RequestType]
    <3>1. CASE req' = [req EXCEPT ![c].pc = "start"]
      BY <3>1, <1>0 DEF RequestType, Working
    <3>2. CASE req' = [req EXCEPT ![c].pc = "error"]
      BY <3>2, <1>0 DEF RequestType, Working
    <3> QED
      BY <1>3, <3>1, <3>2 DEF CreateRunLedger
  <2>3. runs' \in [RunIds -> RunRow \union {NoRun}]
    BY <1>3, <2>1 DEF CreateRunLedger, TypeOK, RunRow, Arns
  <2> QED
    BY <1>3, <2>1, <2>2, <2>3 DEF CreateRunLedger, TypeOK
<1>4. ASSUME NEW c \in Requests, StartStepFunctions(c)
      PROVE  TypeOK'
  <2>1. StartOf(c, 1) \in Start /\ RunOf(c) \in RunIds
    BY <1>4, PayloadIsLedgerObjective, RunOfType DEF StartStepFunctions
  <2>2. req' \in [Requests -> RequestType]
    <3>1. CASE req' = [req EXCEPT ![c].pc = "patch"]
      BY <3>1, <1>0 DEF RequestType, Working
    <3>2. CASE req' = [req EXCEPT ![c].pc = "alreadyExists"]
      BY <3>2, <1>0 DEF RequestType, Working
    <3> QED
      BY <1>4, <3>1, <3>2 DEF StartStepFunctions
  <2>3. sfn' \in [RunIds -> {"none", "running", "closed"}]
    BY <1>4, <2>1 DEF StartStepFunctions, TypeOK
  <2> QED
    BY <1>4, <2>1, <2>2, <2>3 DEF StartStepFunctions, TypeOK
<1>5. ASSUME NEW c \in Requests, StartResident(c)
      PROVE  TypeOK'
  <2>1. StartOf(c, 1) \in Start
    BY <1>5, PayloadIsLedgerObjective DEF StartResident
  <2>2. req' = [req EXCEPT ![c].pc = "patch"]
    BY <1>5 DEF StartResident
  <2>3. req' \in [Requests -> RequestType]
    BY <2>2, <1>0 DEF RequestType, Working
  <2> QED
    BY <1>5, <2>1, <2>3 DEF StartResident, TypeOK
<1>6. ASSUME NEW c \in Requests, StartAsyncLambda(c)
      PROVE  TypeOK'
  <2> DEFINE payload == [objective |-> PayloadObjective(c), arn |-> "none"]
  <2>1. payload \in RunRow
    BY <1>6, PayloadIsLedgerObjective DEF StartAsyncLambda, RunRow, Arns
  <2>2. req' = [req EXCEPT ![c].pc = "patch", ![c].seen = payload]
    BY <1>6 DEF StartAsyncLambda
  <2> HIDE DEF payload
  <2>3. req' \in [Requests -> RequestType]
    BY <1>0, <2>1, <2>2 DEF RequestType, Working
  <2> QED
    BY <1>6, <2>3 DEF StartAsyncLambda, TypeOK
<1>7. ASSUME NEW c \in Requests, UpdateRunExecution(c)
      PROVE  TypeOK'
  BY <1>7, StarterArnType, RunOfType DEF UpdateRunExecution, TypeOK, RequestType, Working, RunRow
<1>8. ASSUME NEW c \in Requests, Crash(c)
      PROVE  TypeOK'
  BY <1>8 DEF Crash, TypeOK, RequestType, Working
<1>9. ASSUME NEW c \in Requests, DispatchWake(c)
      PROVE  TypeOK'
  BY <1>9, RunOfType DEF DispatchWake, TypeOK, Start, RunRow, RequestState, RequestFacts
<1>10. ASSUME NEW c \in Requests, DispatchRecord(c)
      PROVE  TypeOK'
  BY <1>10, RunOfType DEF DispatchRecord, TypeOK, RunRow, Arns
<1>11. ASSUME NEW c \in Requests, DispatchRedeliver(c) \/ DispatchDrop(c)
      PROVE  TypeOK'
  BY <1>11 DEF DispatchRedeliver, DispatchDrop, TypeOK
<1>12. ASSUME NEW r \in RunIds, IndexCatchUp(r) \/ ExecutionCloses(r)
      PROVE  TypeOK'
  BY <1>12 DEF IndexCatchUp, ExecutionCloses, TypeOK
<1>13. CASE UNCHANGED vars
  BY <1>13 DEF vars, TypeOK
<1> QED
  BY <1>1, <1>2, <1>3, <1>4, <1>5, <1>6, <1>7, <1>8, <1>9, <1>10, <1>11,
     <1>12, <1>13 DEF Next, Handler, Dispatch, Quiescent

-----------------------------------------------------------------------------
(***************************************************************************)
(* What one step leaves of a ledger row.                                   *)
(***************************************************************************)
RowsKeptByStep ==
    \A r \in RunIds :
        runs[r] # NoRun =>
            /\ runs'[r] # NoRun
            /\ runs'[r].objective = runs[r].objective
            /\ runs[r].arn # "none" => runs'[r].arn # "none"

\* Only the ledger transaction makes a row, and only where there is none; the
\* two patches change nothing but the ARN.
LEMMA RowsStep == TypeOK /\ [Next]_vars => RowsKeptByStep
<1> SUFFICES ASSUME TypeOK, [Next]_vars
             PROVE  RowsKeptByStep
    OBVIOUS
<1>0. runs \in [RunIds -> RunRow \union {NoRun}]
  BY DEF TypeOK
<1>1. CASE runs' = runs
  BY <1>1 DEF RowsKeptByStep
<1>2. ASSUME NEW c \in Requests, CreateRunLedger(c)
      PROVE  RowsKeptByStep
  BY <1>0, <1>2 DEF CreateRunLedger, LedgerIsFree, RowsKeptByStep
<1>3. ASSUME NEW c \in Requests, NEW arn \in Arns \ {"none"},
             runs[RunOf(c)] # NoRun, runs' = [runs EXCEPT ![RunOf(c)].arn = arn]
      PROVE  RowsKeptByStep
  BY <1>0, <1>3 DEF NoRun, RunRow, RowsKeptByStep
<1>4. ASSUME NEW c \in Requests, UpdateRunExecution(c)
      PROVE  RowsKeptByStep
  BY <1>3, <1>4, StarterArnType DEF UpdateRunExecution
<1>5. ASSUME NEW c \in Requests, DispatchRecord(c)
      PROVE  RowsKeptByStep
  BY <1>3, <1>5 DEF DispatchRecord, Arns
<1> QED
  BY <1>1, <1>2, <1>4, <1>5
  DEF Next, Handler, Dispatch, Quiescent, vars, Receive, Probe,
      StartStepFunctions, StartResident, StartAsyncLambda, Crash, DispatchWake,
      DispatchRedeliver, DispatchDrop, IndexCatchUp, ExecutionCloses

\* A row, its task and its first event appear in one step.
LEMMA LedgerStep ==
    TypeOK /\ RequestState /\ LedgerAtomic /\ [Next]_vars => LedgerAtomic'
<1> SUFFICES ASSUME TypeOK, RequestState, LedgerAtomic, [Next]_vars
             PROVE  LedgerAtomic'
    OBVIOUS
<1>0. runs \in [RunIds -> RunRow \union {NoRun}]
  BY DEF TypeOK
<1>1. CASE UNCHANGED <<runs, tasks, queued>>
  BY <1>1 DEF LedgerAtomic
<1>2. ASSUME NEW c \in Requests, CreateRunLedger(c)
      PROVE  LedgerAtomic'
  BY <1>0, <1>2, NoRunIsNoRow DEF CreateRunLedger, LedgerIsFree, LedgerAtomic, RequestState, RequestFacts
<1>3. ASSUME NEW c \in Requests, UpdateRunExecution(c) \/ DispatchRecord(c)
      PROVE  LedgerAtomic'
  <2>1. \A r \in RunIds : runs'[r] = NoRun <=> runs[r] = NoRun
    BY <1>0, <1>3, RowsStep DEF UpdateRunExecution, DispatchRecord, RowsKeptByStep
  <2> QED
    BY <1>3, <2>1 DEF UpdateRunExecution, DispatchRecord, LedgerAtomic
<1> QED
  BY <1>1, <1>2, <1>3
  DEF Next, Handler, Dispatch, Quiescent, vars, Receive, Probe,
      StartStepFunctions, StartResident, StartAsyncLambda, Crash, DispatchWake,
      DispatchRedeliver, DispatchDrop, IndexCatchUp, ExecutionCloses

-----------------------------------------------------------------------------
(***************************************************************************)
(* The index, the writers and the requests.                                *)
(***************************************************************************)

\* The index copies rows, and rows keep what it copied.
LEMMA IndexStep == TypeOK /\ IndexTrails /\ [Next]_vars => IndexTrails'
<1> SUFFICES ASSUME TypeOK, IndexTrails, [Next]_vars
             PROVE  IndexTrails'
    OBVIOUS
<1>0. /\ RowsKeptByStep
      /\ index \in [RunIds -> RunRow \union {NoRun}]
  BY RowsStep DEF TypeOK
<1>1. CASE index' = index
  BY <1>0, <1>1 DEF IndexTrails, RowsKeptByStep
<1>2. ASSUME NEW r \in RunIds, IndexCatchUp(r)
      PROVE  IndexTrails'
  BY <1>0, <1>2 DEF IndexCatchUp, IndexTrails
<1> QED
  BY <1>1, <1>2
  DEF Next, Handler, Dispatch, Quiescent, vars, Receive, Probe,
      CreateRunLedger, StartStepFunctions, StartResident, StartAsyncLambda,
      UpdateRunExecution, Crash, DispatchWake, DispatchRecord,
      DispatchRedeliver, DispatchDrop, ExecutionCloses

\* What a request that does not move may rely on, it may still rely on: the
\* row it read or wrote is kept.
LEMMA BystanderStep ==
    ASSUME TypeOK, RowsKeptByStep, NEW d \in Requests, RequestFacts(d),
           req'[d] = req[d], dispatch'[d] = dispatch[d]
    PROVE  RequestFacts(d)'
<1>1. RunOf(d) \in RunIds /\ RunOf(d)' = RunOf(d)
  BY RunOfType DEF RunOf
<1>2. req[d].pc = "start" => runs[RunOf(d)] # NoRun
  BY NoRunIsNoRow DEF RequestFacts
<1> QED
  BY <1>1, <1>2 DEF RequestFacts, RowsKeptByStep

\* A step that only moves the program counter keeps the rest of a request.
MovesTo(c, pcs) == \E p \in pcs : req' = [req EXCEPT ![c].pc = p]

LEMMA MovesToKeeps ==
    ASSUME TypeOK, NEW c \in Requests, NEW pcs, MovesTo(c, pcs)
    PROVE  /\ req'[c].pc \in pcs
           /\ req'[c].seen = req[c].seen
           /\ req'[c].objective = req[c].objective
           /\ RunOf(c) \in RunIds
           /\ RunOf(c)' = RunOf(c)
           /\ \A d \in Requests \ {c} : req'[d] = req[d]
<1>1. req \in [Requests -> RequestType] /\ RunOf(c) \in RunIds
  BY RunOfType DEF TypeOK
<1>2. PICK p \in pcs : req' = [req EXCEPT ![c].pc = p]
  BY DEF MovesTo
<1> QED
  BY <1>1, <1>2 DEF RequestType, RunOf

LEMMA MovesByHandler ==
    ASSUME NEW c \in Requests
    PROVE  /\ CreateRunLedger(c) => MovesTo(c, {"start", "error"})
           /\ StartStepFunctions(c) => MovesTo(c, {"patch", "alreadyExists"})
           /\ StartResident(c) => MovesTo(c, {"patch"})
           /\ UpdateRunExecution(c) => MovesTo(c, {"accepted"})
           /\ Crash(c) => MovesTo(c, {"error"})
<1>1. CreateRunLedger(c) => MovesTo(c, {"start", "error"})
  BY DEF CreateRunLedger, MovesTo
<1>2. StartStepFunctions(c) => MovesTo(c, {"patch", "alreadyExists"})
  BY DEF StartStepFunctions, MovesTo
<1> QED
  BY <1>1, <1>2 DEF StartResident, UpdateRunExecution, Crash, MovesTo

\* The request that moves hands on what its next step relies on.
LEMMA RequestStep ==
    TypeOK /\ IndexTrails /\ RequestState /\ [Next]_vars => RequestState'
<1> SUFFICES ASSUME TypeOK, IndexTrails, RequestState, [Next]_vars
             PROVE  RequestState'
    OBVIOUS
<1>0. /\ RowsKeptByStep
      /\ req \in [Requests -> RequestType]
      /\ DOMAIN dispatch = Requests
  BY RowsStep DEF TypeOK
<1>1. CASE UNCHANGED <<req, dispatch>>
  BY <1>0, <1>1, BystanderStep DEF RequestState
<1>2. ASSUME NEW c \in Requests,
             \A d \in Requests \ {c} :
                req'[d] = req[d] /\ dispatch'[d] = dispatch[d],
             RequestFacts(c)'
      PROVE  RequestState'
  BY <1>0, <1>2, BystanderStep DEF RequestState
<1>3. ASSUME NEW c \in Requests, NEW s \in Scopes \union {NoKey},
             NEW o \in Objectives \union {Blank}, Receive(c, s, o)
      PROVE  RequestState'
  <2>1. /\ req'[c].pc \in {"badRequest", "ledger", "probe"}
        /\ req'[c].pc # "badRequest" => req'[c].objective \in Objectives
        /\ dispatch'[c].state = "none"
    <3>1. req'[c] = [pc |-> CASE o = Blank -> "badRequest"
                              [] o # Blank /\ s = NoKey -> "ledger"
                              [] OTHER -> "probe",
                     scope |-> s, objective |-> o, seen |-> NoRun]
      BY <1>0, <1>3 DEF Receive
    <3>2. dispatch'[c].state = "none"
      BY <1>3 DEF Receive, RequestState, RequestFacts, BeforeStart
    <3>3. CASE o = Blank
      BY <3>1, <3>2, <3>3
    <3>4. CASE o # Blank /\ s = NoKey
      BY <3>1, <3>2, <3>4
    <3>5. CASE o # Blank /\ s # NoKey
      BY <3>1, <3>2, <3>5
    <3> QED
      BY <3>3, <3>4, <3>5
  <2>2. RequestFacts(c)'
    BY <2>1 DEF RequestFacts
  <2> QED
    BY <1>0, <1>2, <1>3, <2>2 DEF Receive
<1>4. ASSUME NEW c \in Requests, Probe(c)
      PROVE  RequestState'
  <2>1. RunOf(c) \in RunIds /\ RunOf(c)' = RunOf(c)
    BY <1>0, <1>4, RunOfType DEF Probe, RunOf
  <2>2. RequestFacts(c)'
    BY <1>0, <1>4, <2>1 DEF Probe, RequestState, RequestFacts, BeforeStart, IndexTrails
  <2> QED
    BY <1>0, <1>2, <1>4, <2>2 DEF Probe
<1>5. ASSUME NEW c \in Requests, CreateRunLedger(c)
      PROVE  RequestState'
  <2>1. MovesTo(c, {"start", "error"})
    BY <1>5, MovesByHandler
  <2>2. req'[c].pc = "start" => runs'[RunOf(c)].objective = req[c].objective
    <3>1. runs \in [RunIds -> RunRow \union {NoRun}] /\ RunOf(c) \in RunIds
      BY RunOfType DEF TypeOK
    <3>2. CASE req' = [req EXCEPT ![c].pc = "error"]
      BY <1>0, <3>2
    <3>3. CASE runs' = [runs EXCEPT ![RunOf(c)] = [objective |-> req[c].objective,
                                                   arn |-> "none"]]
      BY <3>1, <3>3
    <3> QED
      BY <1>5, <3>2, <3>3 DEF CreateRunLedger
  <2>3. /\ req[c].objective \in Objectives
        /\ dispatch'[c].state = "none"
    BY <1>5 DEF CreateRunLedger, RequestState, RequestFacts, BeforeStart
  <2>4. RequestFacts(c)'
    BY <2>1, <2>2, <2>3, MovesToKeeps DEF RequestFacts
  <2> QED
    BY <1>2, <1>5, <2>1, <2>4, MovesToKeeps DEF CreateRunLedger
<1>6. ASSUME NEW c \in Requests, StartStepFunctions(c) \/ StartResident(c)
      PROVE  RequestState'
  <2>1. MovesTo(c, {"patch", "alreadyExists"})
    BY <1>6, MovesByHandler DEF MovesTo
  <2>2. /\ runs'[RunOf(c)] # NoRun
        /\ dispatch' = dispatch /\ dispatch[c].state = "none"
    BY <1>6, PayloadIsLedgerObjective, NoRunIsNoRow
    DEF StartStepFunctions, StartResident, Starting, RequestState, RequestFacts
  <2>3. RequestFacts(c)'
    BY <2>1, <2>2, MovesToKeeps DEF RequestFacts, BeforeStart
  <2> QED
    BY <1>2, <2>1, <2>2, <2>3, MovesToKeeps
<1>7. ASSUME NEW c \in Requests, StartAsyncLambda(c)
      PROVE  RequestState'
  <2>1. /\ RunOf(c)' = RunOf(c)
        /\ runs[RunOf(c)] # NoRun
        /\ PayloadObjective(c) = runs[RunOf(c)].objective
    BY <1>0, <1>7, PayloadIsLedgerObjective, NoRunIsNoRow DEF StartAsyncLambda, RunOf
  <2>2. RequestFacts(c)'
    BY <1>0, <1>7, <2>1 DEF StartAsyncLambda, RequestState, RequestFacts, BeforeStart
  <2> QED
    BY <1>0, <1>2, <1>7, <2>2 DEF StartAsyncLambda
<1>8. ASSUME NEW c \in Requests, UpdateRunExecution(c) \/ Crash(c)
      PROVE  RequestState'
  <2>1. MovesTo(c, {"accepted", "error"})
    BY <1>8, MovesByHandler DEF MovesTo
  <2>2. dispatch' = dispatch
    BY <1>8 DEF UpdateRunExecution, Crash
  <2>3. RequestFacts(c)'
    BY <1>0, <2>1, <2>2, MovesToKeeps
    DEF RequestState, RequestFacts, RowsKeptByStep, BeforeStart
  <2> QED
    BY <1>2, <2>1, <2>2, <2>3, MovesToKeeps
<1>9. ASSUME NEW c \in Requests,
             \/ DispatchWake(c)
             \/ DispatchRecord(c)
             \/ DispatchRedeliver(c)
             \/ DispatchDrop(c)
      PROVE  RequestState'
  <2>1. /\ RunOf(c) \in RunIds /\ RunOf(c)' = RunOf(c)
        /\ req' = req /\ dispatch[c].state # "none"
        /\ \A d \in Requests \ {c} : dispatch'[d] = dispatch[d]
    BY <1>0, <1>9, RunOfType
    DEF DispatchWake, DispatchRecord, DispatchRedeliver, DispatchDrop, RunOf
  <2>2. RequestFacts(c)'
    BY <1>0, <2>1 DEF RequestState, RequestFacts, RowsKeptByStep
  <2> QED
    BY <1>2, <2>1, <2>2
<1> QED
  BY <1>1, <1>3, <1>4, <1>5, <1>6, <1>7, <1>8, <1>9
  DEF Next, Handler, Dispatch, Quiescent, vars, IndexCatchUp, ExecutionCloses

\* A request that left its first steps keeps its run id and does not go back.
LEMMA MovesOn ==
    ASSUME TypeOK, [Next]_vars, NEW d \in Requests, req[d].pc # "idle"
    PROVE  /\ RunOf(d)' = RunOf(d)
           /\ req[d].pc \notin BeforeStart => req'[d].pc \notin BeforeStart
<1>0. req \in [Requests -> RequestType]
  BY DEF TypeOK
<1>1. CASE req'[d] = req[d]
  BY <1>1 DEF RunOf
<1>2. ASSUME NEW pcs, MovesTo(d, pcs), pcs \cap BeforeStart = {}
      PROVE  /\ RunOf(d)' = RunOf(d)
             /\ req[d].pc \notin BeforeStart => req'[d].pc \notin BeforeStart
  BY <1>2, MovesToKeeps
<1>3. CASE CreateRunLedger(d) \/ StartStepFunctions(d) \/ StartResident(d)
           \/ UpdateRunExecution(d) \/ Crash(d)
  BY <1>2, <1>3, MovesByHandler DEF BeforeStart
<1>4. CASE Probe(d)
  BY <1>0, <1>4 DEF Probe, BeforeStart, RunOf
<1>5. CASE StartAsyncLambda(d)
  BY <1>0, <1>5 DEF StartAsyncLambda, BeforeStart, RunOf
<1>6. ASSUME NEW c \in Requests \ {d}, NEW s \in Scopes \union {NoKey},
             NEW o \in Objectives \union {Blank},
             \/ Receive(c, s, o)
             \/ Probe(c)
             \/ StartAsyncLambda(c)
      PROVE  req'[d] = req[d]
  BY <1>0, <1>6 DEF Receive, Probe, StartAsyncLambda
<1>7. ASSUME NEW c \in Requests \ {d},
             CreateRunLedger(c) \/ StartStepFunctions(c) \/ StartResident(c)
             \/ UpdateRunExecution(c) \/ Crash(c)
      PROVE  req'[d] = req[d]
  BY <1>7, MovesByHandler, MovesToKeeps
<1>8. ASSUME NEW s \in Scopes \union {NoKey}, NEW o \in Objectives \union {Blank}
      PROVE  ~Receive(d, s, o)
  BY DEF Receive
<1> QED
  BY <1>1, <1>3, <1>4, <1>5, <1>6, <1>7, <1>8
  DEF Next, Handler, Dispatch, Quiescent, vars, DispatchWake, DispatchRecord,
      DispatchRedeliver, DispatchDrop, IndexCatchUp, ExecutionCloses

\* A second writer of a ledger would have found the first one's row.
LEMMA WritersStep ==
    /\ TypeOK
    /\ RequestState
    /\ WritersState
    /\ OneLedgerPerScope
    /\ [Next]_vars
    => WritersState' /\ OneLedgerPerScope'
<1> SUFFICES ASSUME TypeOK, RequestState, WritersState, OneLedgerPerScope, [Next]_vars
             PROVE  WritersState' /\ OneLedgerPerScope'
    OBVIOUS
<1>0. RowsKeptByStep /\ writers \subseteq Requests
  BY RowsStep DEF TypeOK
<1>1. \A d \in writers : /\ RunOf(d)' = RunOf(d)
                         /\ RunOf(d) \in RunIds
                         /\ req'[d].pc \notin BeforeStart
                         /\ runs'[RunOf(d)] # NoRun
  BY <1>0, MovesOn, RunOfType DEF WritersState, BeforeStart, RowsKeptByStep
<1>2. CASE writers' = writers
  BY <1>0, <1>1, <1>2 DEF WritersState, OneLedgerPerScope
<1>3. ASSUME NEW c \in Requests, CreateRunLedger(c), writers' # writers
      PROVE  WritersState' /\ OneLedgerPerScope'
  <2>1. /\ writers' = writers \union {c}
        /\ runs[RunOf(c)] = NoRun
        /\ req' = [req EXCEPT ![c].pc = "start"]
        /\ runs' = [runs EXCEPT ![RunOf(c)] = [objective |-> req[c].objective,
                                               arn |-> "none"]]
    BY <1>3 DEF CreateRunLedger, LedgerIsFree
  <2>2. /\ RunOf(c)' = RunOf(c)
        /\ req'[c].pc = "start"
        /\ RunOf(c) \in RunIds
    <3>1. MovesTo(c, {"start"})
      BY <2>1 DEF MovesTo
    <3> QED
      BY <3>1, MovesToKeeps
  <2>3. runs'[RunOf(c)] # NoRun
    <3>1. req[c].objective \in Objectives
      BY <1>3 DEF CreateRunLedger, RequestState, RequestFacts
    <3> QED
      BY <2>1, <2>2, <3>1, NoRunIsNoRow DEF TypeOK
  <2>4. \A d \in writers : RunOf(d) # RunOf(c)
    BY <2>1 DEF WritersState
  <2> QED
    BY <1>1, <2>1, <2>2, <2>3, <2>4 DEF WritersState, OneLedgerPerScope, BeforeStart
<1> QED
  BY <1>2, <1>3
  DEF Next, Handler, Dispatch, Quiescent, vars, Receive, Probe,
      StartStepFunctions, StartResident, StartAsyncLambda, UpdateRunExecution,
      Crash, DispatchWake, DispatchRecord, DispatchRedeliver, DispatchDrop,
      IndexCatchUp, ExecutionCloses

-----------------------------------------------------------------------------
(***************************************************************************)
(* What is started, and what is answered.                                  *)
(***************************************************************************)

\* Every start is for the ledger row of its run, and the row keeps its
\* objective.
LEMMA StartsStep ==
    /\ TypeOK
    /\ RequestState
    /\ StartsDoLedgerObjective
    /\ [Next]_vars
    => StartsDoLedgerObjective'
<1> SUFFICES ASSUME TypeOK, RequestState, StartsDoLedgerObjective, [Next]_vars
             PROVE  StartsDoLedgerObjective'
    OBVIOUS
<1>1. \A s \in starts : runs'[s.run].objective = s.objective
  <2> SUFFICES ASSUME NEW s \in starts
               PROVE  runs'[s.run].objective = s.objective
      OBVIOUS
  <2>1. /\ s.run \in RunIds
        /\ s.objective \in Objectives
        /\ runs[s.run].objective = s.objective
    BY DEF TypeOK, Start, StartsDoLedgerObjective
  <2>2. runs[s.run] # NoRun
    BY <2>1, NoRunIsNoRow
  <2> QED
    BY <2>1, <2>2, RowsStep DEF RowsKeptByStep
<1>2. CASE starts' = starts
  BY <1>1, <1>2 DEF StartsDoLedgerObjective
<1>3. ASSUME NEW s, starts' = starts \union {s},
             runs' = runs, runs[s.run].objective = s.objective
      PROVE  StartsDoLedgerObjective'
  BY <1>1, <1>3 DEF StartsDoLedgerObjective
<1>4. ASSUME NEW c \in Requests, StartStepFunctions(c) \/ StartResident(c)
      PROVE  StartsDoLedgerObjective'
  <2>1. PayloadObjective(c) = runs[RunOf(c)].objective
    BY <1>4, PayloadIsLedgerObjective DEF StartStepFunctions, StartResident
  <2>2. runs[StartOf(c, 1).run].objective = StartOf(c, 1).objective
    BY <2>1 DEF StartOf
  <2> QED
    BY <1>2, <1>3, <1>4, <2>2 DEF StartStepFunctions, StartResident
<1>5. ASSUME NEW c \in Requests, DispatchWake(c)
      PROVE  StartsDoLedgerObjective'
  <2> DEFINE s == [run |-> RunOf(c), objective |-> req[c].seen.objective,
                   by |-> c, attempt |-> dispatch[c].attempt]
  <2>1. starts' = starts \union {s} /\ runs' = runs
    BY <1>5 DEF DispatchWake
  <2>2. runs[s.run].objective = s.objective
    BY <1>5 DEF DispatchWake, RequestState, RequestFacts
  <2> QED
    BY <1>3, <2>1, <2>2
<1> QED
  BY <1>2, <1>4, <1>5
  DEF Next, Handler, Dispatch, Quiescent, vars, Receive, Probe,
      CreateRunLedger, StartAsyncLambda, UpdateRunExecution, Crash,
      DispatchRecord, DispatchRedeliver, DispatchDrop, IndexCatchUp,
      ExecutionCloses

\* Both ways to a 202 have an ARN in hand: the patch writes it, and the index
\* shows only what the row has.
LEMMA AcceptedStep ==
    /\ TypeOK
    /\ IndexTrails
    /\ AcceptedHasExecution
    /\ [Next]_vars
    => AcceptedHasExecution'
<1> SUFFICES ASSUME TypeOK, IndexTrails, AcceptedHasExecution, [Next]_vars,
                    NEW d \in Requests, req'[d].pc = "accepted"
             PROVE  /\ runs'[RunOf(d)'] # NoRun
                    /\ runs'[RunOf(d)'].arn # "none"
    BY DEF AcceptedHasExecution
<1>0. /\ RowsKeptByStep
      /\ req \in [Requests -> RequestType]
      /\ RunOf(d) \in RunIds
  BY RowsStep, RunOfType DEF TypeOK
<1>1. CASE req[d].pc = "accepted"
  <2>1. RunOf(d)' = RunOf(d)
    BY <1>1, MovesOn
  <2> QED
    BY <1>0, <1>1, <2>1 DEF AcceptedHasExecution, RowsKeptByStep
<1>2. CASE req[d].pc # "accepted" /\ Probe(d)
  <2>1. RunOf(d)' = RunOf(d) /\ runs' = runs
    BY <1>0, <1>2 DEF Probe, RunOf
  <2>2. index[RunOf(d)] # NoRun /\ index[RunOf(d)].arn # "none"
    <3> DEFINE existing == index[RunOf(d)]
    <3>1. req'[d].pc = CASE existing = NoRun -> "ledger"
                         [] existing.arn # "none" -> "accepted"
                         [] OTHER -> "restart"
      BY <1>0, <1>2 DEF Probe, RequestType
    <3>2. NoRun.arn = "none"
      BY DEF NoRun
    <3> HIDE DEF existing
    <3>3. existing # NoRun /\ existing.arn # "none"
      BY <3>1, <3>2
    <3> QED
      BY <3>3 DEF existing
  <2> QED
    BY <1>0, <2>1, <2>2 DEF IndexTrails
<1>3. CASE req[d].pc # "accepted" /\ UpdateRunExecution(d)
  <2>1. RunOf(d)' = RunOf(d)
    BY <1>3, MovesByHandler, MovesToKeeps
  <2>2. /\ runs[RunOf(d)] # NoRun
        /\ runs' = [runs EXCEPT ![RunOf(d)].arn = StarterArn]
        /\ runs \in [RunIds -> RunRow \union {NoRun}]
    BY <1>3 DEF UpdateRunExecution, TypeOK
  <2>3. runs'[RunOf(d)].arn = StarterArn
    BY <1>0, <2>2 DEF RunRow, NoRun
  <2> QED
    BY <1>0, <2>1, <2>2, <2>3, StarterArnType DEF RowsKeptByStep
<1>4. ASSUME NEW c \in Requests,
             CreateRunLedger(c) \/ StartStepFunctions(c) \/ StartResident(c)
             \/ Crash(c) \/ (UpdateRunExecution(c) /\ c # d)
      PROVE  req[d].pc = "accepted"
  BY <1>4, MovesByHandler, MovesToKeeps
<1>5. ASSUME NEW c \in Requests, NEW s \in Scopes \union {NoKey},
             NEW o \in Objectives \union {Blank},
             Receive(c, s, o) \/ StartAsyncLambda(c) \/ (Probe(c) /\ c # d)
      PROVE  req[d].pc = "accepted"
  <2>1. CASE Receive(c, s, o)
    BY <1>0, <2>1 DEF Receive
  <2>2. CASE StartAsyncLambda(c)
    BY <1>0, <2>2 DEF StartAsyncLambda, RequestType
  <2>3. CASE Probe(c) /\ c # d
    BY <1>0, <2>3 DEF Probe
  <2> QED
    BY <1>5, <2>1, <2>2, <2>3
<1>6. ASSUME req' = req
      PROVE  req[d].pc = "accepted"
  BY <1>6
<1> QED
  BY <1>1, <1>2, <1>3, <1>4, <1>5, <1>6
  DEF Next, Handler, Dispatch, Quiescent, vars, DispatchWake, DispatchRecord,
      DispatchRedeliver, DispatchDrop, IndexCatchUp, ExecutionCloses

\* With Step Functions, a name is started once: only by a request that finds
\* no execution of that name.
LEMMA ExecutionsStep ==
    /\ TypeOK
    /\ ExecutionsState
    /\ OneExecutionPerRun
    /\ [Next]_vars
    => ExecutionsState' /\ OneExecutionPerRun'
<1>s. [Next]_vars => starter' = starter
  BY DEF Next, vars
<1> SUFFICES ASSUME TypeOK, ExecutionsState, OneExecutionPerRun, [Next]_vars,
                    starter = "sfn"
             PROVE  ExecutionsState' /\ OneExecutionPerRun'
    BY <1>s DEF ExecutionsState, OneExecutionPerRun
<1>0. /\ sfn \in [RunIds -> {"none", "running", "closed"}]
      /\ starts \subseteq Start
      /\ \A s \in starts : s.run \in RunIds /\ sfn[s.run] # "none"
      /\ \A s, t \in starts : s.run = t.run => s = t
      /\ \A c \in Requests : dispatch[c].state = "none"
  BY DEF TypeOK, Start, ExecutionsState, OneExecutionPerRun
<1>1. CASE UNCHANGED <<sfn, dispatch, starts>>
  BY <1>1 DEF ExecutionsState, OneExecutionPerRun
<1>2. ASSUME NEW c \in Requests, StartStepFunctions(c)
      PROVE  ExecutionsState' /\ OneExecutionPerRun'
  <2> DEFINE r == RunOf(c)
             new == StartOf(c, 1)
  <2>1. dispatch' = dispatch /\ r \in RunIds /\ new.run = r
    BY <1>2, RunOfType DEF StartStepFunctions, StartOf
  <2>2. CASE starts' = starts /\ sfn' = sfn
    BY <1>0, <2>1, <2>2 DEF ExecutionsState, OneExecutionPerRun
  <2>3. CASE /\ sfn[r] = "none"
             /\ sfn' = [sfn EXCEPT ![r] = "running"]
             /\ starts' = starts \union {new}
    <3> HIDE DEF new, r
    <3>1. \A s \in starts : s.run # r
      BY <1>0, <2>3
    <3> QED
      BY <1>0, <2>1, <2>3, <3>1 DEF ExecutionsState, OneExecutionPerRun
  <2> QED
    BY <1>2, <2>2, <2>3 DEF StartStepFunctions
<1>3. ASSUME NEW r \in RunIds, ExecutionCloses(r)
      PROVE  ExecutionsState' /\ OneExecutionPerRun'
  BY <1>0, <1>3 DEF ExecutionCloses, ExecutionsState, OneExecutionPerRun
<1>4. ASSUME NEW c \in Requests
      PROVE  /\ ~StartResident(c)
             /\ ~StartAsyncLambda(c)
             /\ ~DispatchWake(c)
             /\ ~DispatchRecord(c)
             /\ ~DispatchRedeliver(c)
             /\ ~DispatchDrop(c)
  BY <1>0 DEF StartResident, StartAsyncLambda, DispatchWake, DispatchRecord,
              DispatchRedeliver, DispatchDrop
<1> QED
  BY <1>1, <1>2, <1>3, <1>4
  DEF Next, Handler, Dispatch, Quiescent, vars, Receive, Probe,
      CreateRunLedger, UpdateRunExecution, Crash, IndexCatchUp

-----------------------------------------------------------------------------
(***************************************************************************)
(* The theorems.                                                           *)
(***************************************************************************)

\* IInv holds of every reachable state: each part of it is kept by every step
\* with the help of the parts its lemma names.
THEOREM Invariance == Spec => []IInv
<1>1. Init => IInv
  <2> SUFFICES ASSUME Init
               PROVE  IInv
      OBVIOUS
  <2>1. TypeOK
    BY ConstantsAssumption DEF Init, TypeOK, RequestType, Working
  <2>2. RequestState
    BY DEF Init, RequestState, RequestFacts
  <2> QED
    BY <2>1, <2>2
    DEF Init, IInv, LedgerAtomic, OneLedgerPerScope, WritersState,
        IndexTrails, StartsDoLedgerObjective, AcceptedHasExecution,
        ExecutionsState, OneExecutionPerRun
<1>2. IInv /\ [Next]_vars => IInv'
  BY TypeStep, LedgerStep, WritersStep, IndexStep, RequestStep, StartsStep,
     AcceptedStep, ExecutionsStep DEF IInv
<1> QED
  BY <1>1, <1>2, PTL DEF Spec

-----------------------------------------------------------------------------
(***************************************************************************)
(* Where an ARN in a row comes from.                                       *)
(***************************************************************************)
Started(r) == \E s \in starts : s.run = r

\* What was started before an ARN is known for it.
Sources ==
    /\ \A r \in RunIds : sfn[r] # "none" => Started(r)
    /\ \A c \in Requests :
         /\ req[c].pc = "patch" =>
              IF starter = "lambda" THEN dispatch[c].state # "none" ELSE Started(RunOf(c))
         /\ dispatch[c].state \in {"woken", "recorded"} => Started(RunOf(c))
    /\ ArnHasSource

\* Nothing that was started is forgotten.
LEMMA SourcesStay ==
    ASSUME TypeOK, RequestState, [Next]_vars
    PROVE  /\ starter' = starter
           /\ \A r : Started(r) => Started(r)'
           /\ \A c \in Requests : req[c].pc # "idle" => RunOf(c)' = RunOf(c)
           /\ \A c \in Requests : dispatch[c].state # "none" =>
                req[c].pc # "idle" /\ dispatch'[c].state # "none"
<1>1. starter' = starter /\ starts \subseteq starts'
  BY DEF Next, vars, Receive, Handler, Probe, CreateRunLedger, StartStepFunctions, StartResident,
         StartAsyncLambda, UpdateRunExecution, Crash, Dispatch, DispatchWake, DispatchRecord,
         DispatchRedeliver, DispatchDrop, IndexCatchUp, ExecutionCloses, Quiescent
<1>2. \A c \in Requests : req[c].pc # "idle" => RunOf(c)' = RunOf(c)
  BY MovesOn
<1>3. \A c \in Requests : dispatch[c].state # "none" => req[c].pc # "idle"
  BY DEF RequestState, RequestFacts, BeforeStart
<1>4. dispatch \in [Requests -> [state : {"none", "queued", "woken", "recorded", "dropped"},
                                attempt : Nat]]
  BY DEF TypeOK
<1>5. ASSUME NEW c \in Requests, dispatch[c].state # "none"
      PROVE  dispatch'[c].state # "none"
  <2>1. ASSUME NEW d \in Requests,
               \/ StartAsyncLambda(d) \/ DispatchWake(d) \/ DispatchRecord(d)
               \/ DispatchRedeliver(d) \/ DispatchDrop(d)
        PROVE  dispatch'[c].state # "none"
    BY <1>4, <1>5, <2>1 DEF StartAsyncLambda, DispatchWake, DispatchRecord, DispatchRedeliver,
           DispatchDrop
  <2>2. ASSUME UNCHANGED dispatch
        PROVE  dispatch'[c].state # "none"
    BY <1>5, <2>2
  <2> QED
    BY <2>1, <2>2 DEF Next, vars, Receive, Handler, Probe, CreateRunLedger, StartStepFunctions,
           StartResident, UpdateRunExecution, Crash, Dispatch, IndexCatchUp, ExecutionCloses,
           Quiescent
<1> QED
  BY <1>1, <1>2, <1>3, <1>5 DEF Started

\* What a row says of its ARN was so, or was written by a patch that had it.
LEMMA ArnsComeFrom ==
    ASSUME TypeOK, RequestState, [Next]_vars, NEW r \in RunIds, runs'[r].arn # runs[r].arn
    PROVE  \/ runs'[r].arn = "none"
           \/ \E c \in Requests : /\ req[c].pc = "patch" /\ RunOf(c) = r
                                  /\ runs'[r].arn = StarterArn
           \/ \E c \in Requests : /\ dispatch[c].state = "woken" /\ RunOf(c) = r
                                  /\ runs'[r].arn = "task"
<1>0. runs \in [RunIds -> RunRow \union {NoRun}]
  BY DEF TypeOK
<1>1. ASSUME NEW c \in Requests, CreateRunLedger(c)
      PROVE  runs'[r].arn = "none"
  BY <1>0, <1>1, RunOfType DEF CreateRunLedger
<1>2. ASSUME NEW c \in Requests, UpdateRunExecution(c)
      PROVE  req[c].pc = "patch" /\ RunOf(c) = r /\ runs'[r].arn = StarterArn
  BY <1>0, <1>2, RunOfType DEF UpdateRunExecution, RunRow, NoRun
<1>3. ASSUME NEW c \in Requests, DispatchRecord(c)
      PROVE  dispatch[c].state = "woken" /\ RunOf(c) = r /\ runs'[r].arn = "task"
  BY <1>0, <1>3, RunOfType DEF DispatchRecord, RunRow, NoRun
<1>4. \/ \E c \in Requests : CreateRunLedger(c) \/ UpdateRunExecution(c) \/ DispatchRecord(c)
      \/ runs' = runs
  BY DEF Next, vars, Receive, Handler, Probe, StartStepFunctions, StartResident, StartAsyncLambda,
         Crash, Dispatch, DispatchWake, DispatchRedeliver, DispatchDrop, IndexCatchUp,
         ExecutionCloses, Quiescent
<1> QED
  BY <1>1, <1>2, <1>3, <1>4

LEMMA ArnStep ==
    ASSUME TypeOK, RequestState, Sources, [Next]_vars
    PROVE  ArnHasSource'
<1> SUFFICES ASSUME NEW r \in RunIds
             PROVE  /\ runs'[r].arn \in {"sfn", "task"} => Started(r)'
                    /\ runs'[r].arn = "async" =>
                         \E c \in Requests : RunOf(c)' = r /\ dispatch'[c].state # "none"
  BY DEF ArnHasSource, Started, RunIds
<1>1. CASE runs'[r].arn = runs[r].arn
  BY <1>1, SourcesStay DEF Sources, ArnHasSource, Started
<1>2. ASSUME NEW c \in Requests, req[c].pc = "patch", RunOf(c) = r, runs'[r].arn = StarterArn
      PROVE  /\ runs'[r].arn \in {"sfn", "task"} => Started(r)'
             /\ runs'[r].arn = "async" => RunOf(c)' = r /\ dispatch'[c].state # "none"
  <2>1. starter \in {"sfn", "resident", "lambda"}
    BY ConstantsAssumption DEF TypeOK
  <2> QED
    BY <1>2, <2>1, SourcesStay DEF Sources, StarterArn
<1>3. ASSUME NEW c \in Requests, dispatch[c].state = "woken", RunOf(c) = r, runs'[r].arn = "task"
      PROVE  Started(r)'
  BY <1>3, SourcesStay DEF Sources
<1> QED
  BY <1>1, <1>2, <1>3, ArnsComeFrom

\* A request is at its patch only because it started something.
LEMMA PatchFollowsStart ==
    ASSUME TypeOK, [Next]_vars, NEW c \in Requests, req[c].pc # "patch", req'[c].pc = "patch"
    PROVE  StartStepFunctions(c) \/ StartResident(c) \/ StartAsyncLambda(c)
<1>0. req \in [Requests -> RequestType]
  BY DEF TypeOK
<1>1. ASSUME NEW d \in Requests, NEW x, x.pc # "patch", req' = [req EXCEPT ![d] = x]
      PROVE  FALSE
  BY <1>0, <1>1
<1>2. ASSUME NEW d \in Requests, NEW pc, pc # "patch", req' = [req EXCEPT ![d].pc = pc]
      PROVE  FALSE
  BY <1>0, <1>2 DEF RequestType
<1>3. ASSUME NEW d \in Requests, NEW s, NEW o, Receive(d, s, o)
      PROVE  FALSE
  <2> DEFINE x == [pc |-> CASE o = Blank -> "badRequest"
                            [] o # Blank /\ s = NoKey -> "ledger"
                            [] OTHER -> "probe",
                   scope |-> s, objective |-> o, seen |-> NoRun]
  <2>1. x.pc # "patch"
    OBVIOUS
  <2>2. req' = [req EXCEPT ![d] = x]
    BY <1>3 DEF Receive
  <2> QED
    BY <1>1, <2>1, <2>2
<1>4. ASSUME NEW d \in Requests, Probe(d)
      PROVE  FALSE
  <2> DEFINE existing == index[RunOf(d)]
             pc == CASE existing = NoRun -> "ledger"
                     [] existing.arn # "none" -> "accepted"
                     [] OTHER -> "restart"
  <2>1. pc # "patch"
    OBVIOUS
  <2> HIDE DEF existing, pc
  <2>2. req' = [req EXCEPT ![d].pc = pc, ![d].seen = existing]
    BY <1>4 DEF Probe, existing, pc
  <2> QED
    BY <1>0, <2>1, <2>2 DEF RequestType
<1>5. ASSUME NEW d \in Requests, CreateRunLedger(d) \/ UpdateRunExecution(d) \/ Crash(d)
      PROVE  FALSE
  BY <1>2, <1>5 DEF CreateRunLedger, UpdateRunExecution, Crash
<1>6. ASSUME NEW d \in Requests, d # c,
             StartStepFunctions(d) \/ StartResident(d) \/ StartAsyncLambda(d)
      PROVE  FALSE
  <2>1. req'[c] = req[c]
    BY <1>0, <1>6 DEF StartStepFunctions, StartResident, StartAsyncLambda
  <2> QED
    BY <2>1
<1>7. ASSUME UNCHANGED req
      PROVE  FALSE
  BY <1>7
<1> QED
  BY <1>3, <1>4, <1>5, <1>6, <1>7
  DEF Next, vars, Handler, Dispatch, DispatchWake, DispatchRecord, DispatchRedeliver,
      DispatchDrop, IndexCatchUp, ExecutionCloses, Quiescent

\* A delivery is past its wake only because the wake was posted.
LEMMA WokenFollowsWake ==
    ASSUME TypeOK, [Next]_vars, NEW c \in Requests,
           dispatch[c].state \notin {"woken", "recorded"},
           dispatch'[c].state \in {"woken", "recorded"}
    PROVE  DispatchWake(c)
<1>0. dispatch \in [Requests -> [state : {"none", "queued", "woken", "recorded", "dropped"},
                                 attempt : Nat]]
  BY DEF TypeOK
<1>1. ASSUME NEW d \in Requests, DispatchWake(d), d # c
      PROVE  FALSE
  BY <1>0, <1>1 DEF DispatchWake
<1>2. ASSUME NEW d \in Requests,
             StartAsyncLambda(d) \/ DispatchRecord(d) \/ DispatchRedeliver(d) \/ DispatchDrop(d)
      PROVE  FALSE
  BY <1>0, <1>2 DEF StartAsyncLambda, DispatchRecord, DispatchRedeliver, DispatchDrop
<1>3. ASSUME UNCHANGED dispatch
      PROVE  FALSE
  BY <1>3
<1> QED
  BY <1>1, <1>2, <1>3
  DEF Next, vars, Receive, Handler, Probe, CreateRunLedger, StartStepFunctions, StartResident,
      UpdateRunExecution, Crash, Dispatch, IndexCatchUp, ExecutionCloses, Quiescent

LEMMA SourcesStep ==
    ASSUME TypeOK, RequestState, Sources, [Next]_vars
    PROVE  Sources'
<1>1. ASSUME NEW r \in RunIds, sfn'[r] # "none"
      PROVE  Started(r)'
  <2>1. CASE sfn[r] # "none"
    BY <2>1, SourcesStay DEF Sources
  <2>2. ASSUME NEW c \in Requests, StartStepFunctions(c), sfn[r] = "none"
        PROVE  Started(r)'
    <3>1. sfn \in [RunIds -> {"none", "running", "closed"}] /\ RunOf(c) = r
      BY <1>1, <2>2 DEF StartStepFunctions, TypeOK
    <3>2. StartOf(c, 1) \in starts'
      BY <1>1, <2>2, <3>1 DEF StartStepFunctions
    <3> QED
      BY <3>1, <3>2 DEF Started, StartOf
  <2>3. ASSUME sfn[r] = "none", \A c \in Requests : ~StartStepFunctions(c)
        PROVE  FALSE
    <3>1. sfn \in [RunIds -> {"none", "running", "closed"}]
      BY DEF TypeOK
    <3> QED
      BY <1>1, <2>3, <3>1 DEF Next, vars, Receive, Handler, Probe, CreateRunLedger, StartResident,
         StartAsyncLambda, UpdateRunExecution, Crash, Dispatch, DispatchWake, DispatchRecord,
         DispatchRedeliver, DispatchDrop, IndexCatchUp, ExecutionCloses, Quiescent
  <2> QED
    BY <2>1, <2>2, <2>3
<1>2. ASSUME NEW c \in Requests, req'[c].pc = "patch"
      PROVE  IF starter' = "lambda" THEN dispatch'[c].state # "none" ELSE Started(RunOf(c))'
  <2>0. req \in [Requests -> RequestType] /\ RunOf(c) \in RunIds
    BY RunOfType DEF TypeOK
  <2>1. CASE req[c].pc = "patch"
    BY <2>1, SourcesStay DEF Sources
  <2>2. CASE StartStepFunctions(c)
    <3>1. starter = "sfn" /\ req[c].pc # "idle"
      BY <2>2 DEF StartStepFunctions, Starting
    <3>2. CASE sfn[RunOf(c)] = "running"
      BY <2>0, <3>1, <3>2, SourcesStay DEF Sources
    <3>3. CASE StartOf(c, 1) \in starts'
      BY <3>1, <3>3, SourcesStay DEF Started, StartOf
    <3>4. req' # [req EXCEPT ![c].pc = "alreadyExists"]
      BY <1>2, <2>0 DEF RequestType
    <3> QED
      BY <2>2, <3>2, <3>3, <3>4 DEF StartStepFunctions
  <2>3. CASE StartResident(c)
    <3>1. starter = "resident" /\ req[c].pc # "idle" /\ StartOf(c, 1) \in starts'
      BY <2>3 DEF StartResident, Starting
    <3> QED
      BY <3>1, SourcesStay DEF Started, StartOf
  <2>4. CASE StartAsyncLambda(c)
    BY <2>4, SourcesStay DEF StartAsyncLambda, TypeOK
  <2> QED
    BY <1>2, <2>1, <2>2, <2>3, <2>4, PatchFollowsStart
<1>3. ASSUME NEW c \in Requests, dispatch'[c].state \in {"woken", "recorded"}
      PROVE  Started(RunOf(c))'
  <2>1. CASE dispatch[c].state \in {"woken", "recorded"}
    BY <2>1, SourcesStay DEF Sources
  <2>2. CASE DispatchWake(c)
    <3> DEFINE wake == [run |-> RunOf(c), objective |-> req[c].seen.objective,
                        by |-> c, attempt |-> dispatch[c].attempt]
    <3>1. wake \in starts' /\ wake.run = RunOf(c)
      BY <2>2 DEF DispatchWake
    <3>2. RunOf(c)' = RunOf(c)
      BY <2>2, SourcesStay DEF DispatchWake
    <3> HIDE DEF wake
    <3> QED
      BY <3>1, <3>2 DEF Started
  <2> QED
    BY <1>3, <2>1, <2>2, WokenFollowsWake
<1>4. ArnHasSource'
  BY ArnStep
<1> QED
  BY <1>1, <1>2, <1>3, <1>4 DEF Sources, RunIds

\* Requests that race for one idempotency scope commit one ledger, which is
\* never half there, and an ARN in it is of something that was started
\* (create-run.ts:58-124, dynamo-store.ts:446-472).
THEOREM LedgerCorrect == Spec => []LedgerSound
<1>1. Init => Sources
  BY DEF Init, Sources, ArnHasSource, NoRun
<1>2. IInv /\ Sources /\ [Next]_vars => Sources'
  BY SourcesStep DEF IInv
<1>3. IInv /\ Sources => LedgerSound
  BY DEF IInv, Sources, LedgerSound
<1> QED
  BY <1>1, <1>2, <1>3, Invariance, PTL DEF Spec

\* Whichever starter, however often a request is retried and the dispatch
\* redelivered, what is started does the objective of the ledger row, and Step
\* Functions runs it once (create-run.ts:40-47, 108-115, step-functions.ts:32-38).
THEOREM ExecutionsCorrect == Spec => []ExecutionsSound
<1>1. IInv => ExecutionsSound
  BY DEF IInv, ExecutionsSound
<1> QED
  BY <1>1, Invariance, PTL

\* An accepted request names a run that is in the ledger with an execution
\* (create-run.ts:34-38, 117-124).
THEOREM AcceptedCorrect == Spec => []AcceptedHasExecution
<1>1. IInv => AcceptedHasExecution
  BY DEF IInv
<1> QED
  BY <1>1, Invariance, PTL

\* Committed rows are kept: no retry rewrites an objective or takes an ARN
\* away (dynamo-store.ts:446-472, 498-509).
THEOREM RowsAreKept == Spec => RowsKept
<1>1. IInv /\ [Next]_vars =>
        [\A r \in RunIds :
           runs[r] # NoRun =>
              /\ runs'[r].objective = runs[r].objective
              /\ runs[r].arn # "none" => runs'[r].arn # "none"]_vars
  BY RowsStep DEF IInv, RowsKeptByStep
<1> QED
  BY <1>1, Invariance, PTL DEF Spec, RowsKept

=============================================================================
