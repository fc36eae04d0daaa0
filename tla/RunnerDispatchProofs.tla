------------------------- MODULE RunnerDispatchProofs -------------------------
(***************************************************************************)
(* Proofs about RunnerDispatch: the inductive invariant IInv holds for     *)
(* every set of dispatches, runs, requests and users, and the dispatcher   *)
(* implements WakeDelivery.                                                *)
(*                                                                         *)
(* Rows are put back late, from copies, so the argument runs over copies:  *)
(* a step leaves every copy as it was, drops it, copies one to another     *)
(* place, or makes one new row, whose address is in order.              *)
(***************************************************************************)
EXTENDS RunnerDispatch, TLAPS

-----------------------------------------------------------------------------
(***************************************************************************)
(* Facts about the data.                                                   *)
(***************************************************************************)
LEMMA RowTypes ==
    /\ NoRow \in Row
    /\ FreshRow \in Row
    /\ \A i : RowOf(i, NoRow) /\ RowOf(i, FreshRow)
BY DEF NoRow, FreshRow, Row, Statuses, RowOf

\* The fields of a row, and of rows made from it.
LEMMA RowUpdates ==
    ASSUME NEW row \in Row, NEW a \in Addresses \union {None}
    PROVE  /\ \A s \in Statuses : [row EXCEPT !.status = s] \in Row
           /\ \A s \in Statuses :
                [row EXCEPT !.status = s, !.ip = a, !.endpoint = a] \in Row
           /\ [row EXCEPT !.status = "starting", !.desired = "running",
                          !.ip = None, !.endpoint = None] \in Row
BY DEF Row, Statuses

LEMMA FailedRow ==
    ASSUME NEW row \in Row, NEW i, RowOf(i, row)
    PROVE  /\ [row EXCEPT !.status = "failed"] \in Row
           /\ RowOf(i, [row EXCEPT !.status = "failed"])
<1> DEFINE failed == [row EXCEPT !.status = "failed"]
<1>1. /\ failed \in Row
      /\ failed.ip = row.ip /\ failed.endpoint = row.endpoint
  BY DEF Row, Statuses
<1> HIDE DEF failed
<1>2. RowOf(i, failed)
  BY <1>1 DEF RowOf
<1> QED
  BY <1>1, <1>2 DEF failed

LEMMA DispatchUpdates ==
    ASSUME NEW x \in DispatchType,
           NEW pc \in {"idle", "done", "aborted"} \union Working \union Failures,
           NEW row \in Row, NEW i \in RunnerIds
    PROVE  /\ [x EXCEPT !.pc = pc, !.row = row] \in DispatchType
           /\ [x EXCEPT !.pc = pc, !.id = i, !.row = row] \in DispatchType
           /\ [x EXCEPT !.pc = pc] \in DispatchType
BY DEF DispatchType

\* A ready row has an address, one that is known for the runner.
LEMMA AddressType ==
    ASSUME NEW row \in Row, Reachable(row)
    PROVE  /\ Address(row) \in Addresses
           /\ \A i : RowOf(i, row) => KnownFor(Address(row), i)
BY DEF Row, Reachable, Address, RowOf

\* What the moves of a dispatch change.
LEMMA Moves ==
    ASSUME TypeOK, NEW d \in Dispatches,
           NEW pc \in {"idle", "done", "aborted"} \union Working \union Failures
    PROVE  /\ \A row \in Row : ToWith(d, pc, row) =>
                /\ disp' \in [Dispatches -> DispatchType]
                /\ disp'[d] = [disp[d] EXCEPT !.pc = pc, !.row = row]
                /\ \A e \in Dispatches \ {d} : disp'[e] = disp[e]
           /\ To(d, pc) => ToWith(d, pc, disp[d].row)
           /\ End(d, pc) => ToWith(d, pc, NoRow)
<1>1. disp \in [Dispatches -> DispatchType] /\ disp[d] \in DispatchType
  BY DEF TypeOK
<1>2. ASSUME NEW row \in Row, ToWith(d, pc, row)
      PROVE  /\ disp' \in [Dispatches -> DispatchType]
             /\ disp'[d] = [disp[d] EXCEPT !.pc = pc, !.row = row]
             /\ \A e \in Dispatches \ {d} : disp'[e] = disp[e]
  <2> DEFINE new == [disp[d] EXCEPT !.pc = pc, !.row = row]
  <2>1. new \in DispatchType
    BY <1>1 DEF DispatchType
  <2>2. disp' = [disp EXCEPT ![d] = new]
    BY <1>1, <1>2 DEF ToWith, DispatchType
  <2> HIDE DEF new
  <2> QED
    BY <1>1, <2>1, <2>2 DEF new
<1>3. To(d, pc) => ToWith(d, pc, disp[d].row)
  <2>1. [disp[d] EXCEPT !.pc = pc] = [disp[d] EXCEPT !.pc = pc, !.row = disp[d].row]
    BY <1>1 DEF DispatchType
  <2> QED
    BY <1>1, <2>1 DEF To, ToWith, DispatchType
<1>4. End(d, pc) => ToWith(d, pc, NoRow)
  BY DEF End
<1> QED
  BY <1>2, <1>3, <1>4

\* What a put changes.
LEMMA Puts ==
    ASSUME TypeOK, NEW i \in RunnerIds, NEW row \in Row, Put(i, row)
    PROVE  /\ rows' \in [RunnerIds -> Row]
           /\ rows'[i] = row
           /\ \A j \in RunnerIds \ {i} : rows'[j] = rows[j]
BY DEF Put, TypeOK

\* A dispatch that works has the id of a runner of its run's user, and a row.
LEMMA InHand ==
    ASSUME IInv, NEW d \in Dispatches, disp[d].pc # "idle"
    PROVE  /\ disp[d].id \in RunnerIds
           /\ disp[d].row \in Row
           /\ disp[d].run \in Runs
           /\ UserOf[disp[d].id] = UserOf[disp[d].run]
<1>1. disp[d] \in DispatchType /\ HandsOf(d)
  BY DEF IInv, TypeOK
<1>2. /\ disp[d].run # None /\ disp[d].id # None
      /\ UserOf[disp[d].id] = UserOf[disp[d].run]
  BY <1>1 DEF HandsOf
<1>3. /\ disp[d].run \in Runs \union {None} /\ disp[d].id \in RunnerIds \union {None}
      /\ disp[d].row \in Row
  BY <1>1 DEF DispatchType
<1> QED
  BY <1>2, <1>3

LEMMA SeenType ==
    ASSUME TypeOK, NEW i \in RunnerIds
    PROVE  Seen(i) \subseteq Row
BY DEF TypeOK, Seen

\* Whatever a dispatch does next with a row, it is one of its working states.
LEMMA FirstStepType == \A row : FirstStep(row) \in {"mark", "wake", "launch"}
BY DEF FirstStep

-----------------------------------------------------------------------------
(***************************************************************************)
(* A dispatch's step moves that dispatch only, keeps its id but for the    *)
(* first two steps, and takes in hand the row it had, a copy that is seen, *)
(* or a new one; Hand says which.                                          *)
(***************************************************************************)
Moved(d) ==
    /\ disp' \in [Dispatches -> DispatchType]
    /\ \A e \in Dispatches \ {d} : disp'[e] = disp[e]

Kept(d) == disp'[d].id = disp[d].id /\ disp'[d].run = disp[d].run

LEMMA MovesKeep ==
    ASSUME TypeOK, NEW d \in Dispatches,
           NEW pc \in {"idle", "done", "aborted"} \union Working \union Failures
    PROVE  /\ \A row \in Row : ToWith(d, pc, row) =>
                Moved(d) /\ Kept(d) /\ disp'[d].pc = pc /\ disp'[d].row = row
           /\ To(d, pc) =>
                Moved(d) /\ Kept(d) /\ disp'[d].pc = pc /\ disp'[d].row = disp[d].row
           /\ End(d, pc) =>
                Moved(d) /\ Kept(d) /\ disp'[d].pc = pc /\ disp'[d].row = NoRow
<1>1. disp[d] \in DispatchType
  BY DEF TypeOK
<1>2. ASSUME NEW row \in Row, ToWith(d, pc, row)
      PROVE  Moved(d) /\ Kept(d) /\ disp'[d].pc = pc /\ disp'[d].row = row
  <2>1. /\ disp' \in [Dispatches -> DispatchType]
        /\ disp'[d] = [disp[d] EXCEPT !.pc = pc, !.row = row]
        /\ \A e \in Dispatches \ {d} : disp'[e] = disp[e]
    BY <1>2, Moves
  <2>2. /\ disp'[d].pc = pc /\ disp'[d].row = row
        /\ disp'[d].id = disp[d].id /\ disp'[d].run = disp[d].run
    BY <1>1, <2>1 DEF DispatchType
  <2> QED
    BY <2>1, <2>2 DEF Moved, Kept
<1>3. disp[d].row \in Row /\ NoRow \in Row
  BY <1>1, RowTypes DEF DispatchType
<1> QED
  BY <1>2, <1>3, Moves

\* The two steps that choose the runner.
LEMMA BeginMoves ==
    ASSUME TypeOK, NEW d \in Dispatches, NEW r \in Runs, Begin(d, r)
    PROVE  Moved(d) /\ disp'[d] = [pc |-> "find", run |-> r, id |-> r, row |-> NoRow]
<1>1. [pc |-> "find", run |-> r, id |-> r, row |-> NoRow] \in DispatchType
  BY RowTypes DEF DispatchType, Working, RunnerIds
<1> QED
  BY <1>1 DEF Begin, TypeOK, Moved

LEMMA FindMoves ==
    ASSUME IInv, NEW d \in Dispatches, FindForUser(d)
    PROVE  \/ Moved(d) /\ Kept(d) /\ disp'[d].pc = "create" /\ disp'[d].row = FreshRow
           \/ \E i \in RunnerIds :
                /\ UserOf[i] = UserOf[disp[d].run]
                /\ Moved(d)
                /\ disp'[d].run = disp[d].run
                /\ disp'[d].id = i
                /\ disp'[d].row = replica[i]
                /\ disp'[d].pc = FirstStep(replica[i])
<1>1. TypeOK
  BY DEF IInv
<1>2. CASE ToWith(d, "create", FreshRow)
  BY <1>1, <1>2, MovesKeep, RowTypes DEF Working
<1>3. ASSUME NEW i \in RunnerIds, UserOf[i] = UserOf[disp[d].run],
             disp' = [disp EXCEPT ![d].pc = FirstStep(replica[i]), ![d].id = i,
                                  ![d].row = replica[i]]
      PROVE  \E j \in RunnerIds :
                /\ UserOf[j] = UserOf[disp[d].run]
                /\ Moved(d)
                /\ disp'[d].run = disp[d].run
                /\ disp'[d].id = j
                /\ disp'[d].row = replica[j]
                /\ disp'[d].pc = FirstStep(replica[j])
  <2> DEFINE pc == FirstStep(replica[i])
             new == [disp[d] EXCEPT !.pc = pc, !.id = i, !.row = replica[i]]
  <2>1. replica[i] \in Row /\ disp[d] \in DispatchType
    BY <1>1 DEF TypeOK
  <2>2. pc \in Working
    BY FirstStepType DEF Working
  <2> HIDE DEF pc
  <2>3. /\ new \in DispatchType
        /\ new.run = disp[d].run /\ new.id = i /\ new.row = replica[i] /\ new.pc = pc
    BY <2>1, <2>2 DEF DispatchType
  <2>4. disp' = [disp EXCEPT ![d] = new]
    BY <1>1, <1>3 DEF TypeOK, DispatchType, pc
  <2> HIDE DEF new
  <2>5. Moved(d) /\ disp'[d] = new
    BY <1>1, <2>3, <2>4 DEF TypeOK, Moved
  <2> QED
    BY <1>3, <2>3, <2>5 DEF pc
<1> QED
  BY <1>2, <1>3 DEF FindForUser, Listed

-----------------------------------------------------------------------------
(***************************************************************************)
(* Copies of rows.                                                         *)
(***************************************************************************)
\* Tasks that have run stay with their runner and their address, and what
\* callers gave stays given.
TasksGrow ==
    /\ \A t \in Dispatches : at[t] # None => at'[t] = at[t] /\ disp'[t].id = disp[t].id
    /\ named \subseteq named'

LEMMA RowOfKept ==
    ASSUME TasksGrow, NEW i, NEW row \in Row, RowOf(i, row)
    PROVE  RowOf(i, row)'
<1>1. ASSUME NEW a \in Addresses, KnownFor(a, i)
      PROVE  KnownFor(a, i)'
  <2>1. a # None
    BY ConstantsAssumption
  <2> QED
    BY <1>1, <2>1 DEF KnownFor, TasksGrow
<1>2. {row.ip, row.endpoint} \subseteq Addresses \union {None}
  BY DEF Row
<1> QED
  BY <1>1, <1>2 DEF RowOf

\* Every copy after the step was one before it, or is the new row of runner i.
OnlyNew(i, new) ==
    /\ \A j \in RunnerIds : rows'[j] = rows[j] \/ (j = i /\ rows'[j] = new)
    /\ \A j \in RunnerIds : replica'[j] = replica[j] \/ replica'[j] = rows[j]
    /\ \A e \in Dispatches :
         \/ disp'[e].id = disp[e].id /\ disp'[e].row = disp[e].row
         \/ disp'[e].id = i /\ disp'[e].row = new
         \/ disp'[e].row = NoRow
    /\ \A q \in Requests :
         \/ api'[q].id = api[q].id /\ api'[q].row = api[q].row
         \/ api'[q].id = i /\ api'[q].row = new
         \/ api'[q].row = NoRow

LEMMA CopiesKept ==
    ASSUME IInv, TasksGrow, NEW i, NEW new, OnlyNew(i, new), RowOf(i, new)'
    PROVE  AddressesAreOwn'
<1>1. /\ \A j \in RunnerIds : rows[j] \in Row /\ replica[j] \in Row
      /\ \A e \in Dispatches : disp[e].row \in Row
      /\ \A q \in Requests : api[q].row \in Row
  BY DEF IInv, TypeOK, DispatchType, RequestType
<1>2. /\ \A j \in RunnerIds : RowOf(j, rows[j]) /\ RowOf(j, replica[j])
      /\ \A e \in Dispatches : RowOf(disp[e].id, disp[e].row)
      /\ \A q \in Requests : RowOf(api[q].id, api[q].row)
  BY DEF IInv, AddressesAreOwn
<1>3. \A j : RowOf(j, NoRow)'
  BY DEF RowOf, NoRow
<1>4. ASSUME NEW j \in RunnerIds
      PROVE  RowOf(j, rows[j])' /\ RowOf(j, replica[j])'
  <2>1. PICK a : a = rows[j]
    OBVIOUS
  <2>2. PICK b : b = replica[j]
    OBVIOUS
  <2>3. RowOf(j, a)' /\ RowOf(j, b)'
    BY <1>1, <1>2, <2>1, <2>2, RowOfKept
  <2>4. rows'[j] = a \/ (j = i /\ rows'[j] = new)
    BY <2>1 DEF OnlyNew
  <2>5. replica'[j] = b \/ replica'[j] = a
    BY <2>1, <2>2 DEF OnlyNew
  <2>6. RowOf(j, rows[j])'
    BY <2>3, <2>4 DEF RowOf
  <2>7. RowOf(j, replica[j])'
    BY <2>3, <2>5 DEF RowOf
  <2> QED
    BY <2>6, <2>7
<1>5. ASSUME NEW e \in Dispatches
      PROVE  RowOf(disp[e].id, disp[e].row)'
  <2>1. PICK a : a = disp[e].row
    OBVIOUS
  <2>2. PICK k : k = disp[e].id
    OBVIOUS
  <2>3. RowOf(k, a)'
    BY <1>1, <1>2, <2>1, <2>2, RowOfKept
  <2>4. \/ disp'[e].id = k /\ disp'[e].row = a
        \/ disp'[e].id = i /\ disp'[e].row = new
        \/ disp'[e].row = NoRow
    BY <2>1, <2>2 DEF OnlyNew
  <2> QED
    BY <1>3, <2>3, <2>4 DEF RowOf
<1>6. ASSUME NEW q \in Requests
      PROVE  RowOf(api[q].id, api[q].row)'
  <2>1. PICK a : a = api[q].row
    OBVIOUS
  <2>2. PICK k : k = api[q].id
    OBVIOUS
  <2>3. RowOf(k, a)'
    BY <1>1, <1>2, <2>1, <2>2, RowOfKept
  <2>4. \/ api'[q].id = k /\ api'[q].row = a
        \/ api'[q].id = i /\ api'[q].row = new
        \/ api'[q].row = NoRow
    BY <2>1, <2>2 DEF OnlyNew
  <2> QED
    BY <1>3, <2>3, <2>4 DEF RowOf
<1> QED
  BY <1>4, <1>5, <1>6 DEF AddressesAreOwn

\* What the others have in hand does not depend on the step of d.
LEMMA HandsKept ==
    ASSUME IInv, NEW d \in Dispatches, Moved(d), HandsOf(d)',
           \A e \in Dispatches \ {d} : task'[e] = task[e]
    PROVE  \A e \in Dispatches : HandsOf(e)'
<1> SUFFICES ASSUME NEW e \in Dispatches, e # d
             PROVE  HandsOf(e)'
    OBVIOUS
<1>1. disp'[e] = disp[e] /\ task'[e] = task[e] /\ HandsOf(e)
  BY DEF Moved, IInv
<1> QED
  BY <1>1 DEF HandsOf, Reachable

\* Addresses are given and kept as long as no task starts to run.
LEMMA PlacesKept ==
    ASSUME IInv, at' = at,
           \A t \in Dispatches :
             \/ task'[t] = task[t]
             \/ task[t] \in {"none", "pending"} /\ task'[t] \in {"pending", "never ran"}
             \/ task[t] = "running" /\ task'[t] = "stopped"
    PROVE  \A t \in Dispatches : PlacesOf(t)'
<1>1. \A t \in Dispatches : PlacesOf(t)
  BY DEF IInv
<1> QED
  BY <1>1 DEF PlacesOf

\* A task that was not launched has no address.
LEMMA NotLaunched ==
    ASSUME IInv, NEW d \in Dispatches, task[d] \in {"none", "pending", "never ran"}
    PROVE  at[d] = None
BY DEF IInv, PlacesOf

-----------------------------------------------------------------------------
(***************************************************************************)
(* The invariant across a step of one dispatch.                            *)
(***************************************************************************)
TaskStates == {"none", "pending", "running", "stopped", "never ran"}

\* The state a dispatch arrives in is one its row and its task allow.
Arrives(d) ==
    /\ disp'[d].pc # "idle"
    /\ disp'[d].pc = "wake" => Reachable(disp'[d].row)
    /\ disp'[d].pc \in {"find", "create", "mark", "launch"} => task'[d] = "none"
    /\ disp'[d].pc \in {"refetch", "record"} => task'[d] # "none"
    /\ disp'[d].pc = "put running" => task'[d] \in {"running", "stopped"}

LEMMA StepKeeps ==
    ASSUME IInv, NEW d \in Dispatches, disp[d].pc # "idle",
           Moved(d), Kept(d), Arrives(d),
           NEW new \in Row, RowOf(disp[d].id, new),
           rows' = rows \/ Put(disp[d].id, new),
           disp'[d].row \in {disp[d].row, new, NoRow},
           UNCHANGED <<api, replica, at, named>>,
           task' = task \/ (task[d] = "none" /\ task' = [task EXCEPT ![d] = "pending"]),
           woken' \subseteq Dispatches \X Dispatches
    PROVE  IInv'
<1>1. TypeOK
  BY DEF IInv
<1>2. /\ disp[d].id \in RunnerIds
      /\ disp[d].run \in Runs
      /\ UserOf[disp[d].id] = UserOf[disp[d].run]
  BY InHand
<1>3. /\ task' \in [Dispatches -> TaskStates]
      /\ \A e \in Dispatches \ {d} : task'[e] = task[e]
      /\ task'[d] = task[d] \/ (task[d] = "none" /\ task'[d] = "pending")
  BY <1>1 DEF TypeOK, TaskStates
<1>4. rows' \in [RunnerIds -> Row]
  BY <1>1, <1>2, Puts DEF TypeOK
<1>5. TypeOK'
  BY <1>1, <1>3, <1>4 DEF TypeOK, Moved, TaskStates
<1>6. \A e \in Dispatches : disp'[e].id = disp[e].id
  BY DEF Moved, Kept
<1>7. TasksGrow
  BY <1>6 DEF TasksGrow
<1>8. PICK i : i = disp[d].id
  OBVIOUS
<1>9. RowOf(i, new)'
  BY <1>7, <1>8, RowOfKept
<1>10. OnlyNew(i, new)
  <2>1. \A j \in RunnerIds : rows'[j] = rows[j] \/ (j = i /\ rows'[j] = new)
    BY <1>1, <1>2, <1>8, Puts
  <2>2. \A e \in Dispatches :
           \/ disp'[e].id = disp[e].id /\ disp'[e].row = disp[e].row
           \/ disp'[e].id = i /\ disp'[e].row = new
           \/ disp'[e].row = NoRow
    BY <1>6, <1>8 DEF Moved
  <2> QED
    BY <2>1, <2>2 DEF OnlyNew
<1>11. AddressesAreOwn'
  BY <1>7, <1>9, <1>10, CopiesKept
<1>12. HandsOf(d)'
  <2>1. disp'[d].run # None
    BY <1>2, ConstantsAssumption, <1>1 DEF Kept, IInv, HandsOf
  <2>2. disp'[d].id # None
    BY <1>6 DEF IInv, HandsOf
  <2>3. UserOf[disp'[d].id] = UserOf[disp'[d].run]
    BY <1>2 DEF Kept
  <2> QED
    BY <2>1, <2>2, <2>3 DEF HandsOf, Arrives, Reachable
<1>13. \A e \in Dispatches : HandsOf(e)'
  BY <1>3, <1>12, HandsKept
<1>14. \A q \in Requests : UserOf[api'[q].id] = UserOf[q]
  BY DEF IInv
<1>15. \A e \in Dispatches : PlacesOf(e)'
  BY <1>3, PlacesKept
<1> QED
  BY <1>5, <1>11, <1>13, <1>14, <1>15 DEF IInv

\* The common case: nothing is put, and the row in hand is kept or dropped.
LEMMA PlainStepKeeps ==
    ASSUME IInv, NEW d \in Dispatches, disp[d].pc # "idle",
           Moved(d), Kept(d), Arrives(d),
           disp'[d].row \in {disp[d].row, NoRow},
           UNCHANGED <<api, rows, replica, at, named, woken>>,
           task' = task \/ (task[d] = "none" /\ task' = [task EXCEPT ![d] = "pending"])
    PROVE  IInv'
<1>1. NoRow \in Row /\ RowOf(disp[d].id, NoRow)
  BY RowTypes
<1>2. woken' \subseteq Dispatches \X Dispatches
  BY DEF IInv, TypeOK
<1> QED
  BY <1>1, <1>2, StepKeeps

\* The row in hand, and the rows that are seen, have their own addresses.
LEMMA RowsAtHand ==
    ASSUME IInv, NEW d \in Dispatches, disp[d].pc # "idle"
    PROVE  /\ disp[d].row \in Row
           /\ RowOf(disp[d].id, disp[d].row)
           /\ \A row \in Seen(disp[d].id) : row \in Row /\ RowOf(disp[d].id, row)
<1>1. disp[d].id \in RunnerIds /\ disp[d].row \in Row
  BY InHand
<1>2. RowOf(disp[d].id, disp[d].row)
  BY DEF IInv, AddressesAreOwn
<1>3. PICK i \in RunnerIds : i = disp[d].id
  BY <1>1
<1>4. /\ rows[i] \in Row /\ replica[i] \in Row
      /\ RowOf(i, rows[i]) /\ RowOf(i, replica[i])
  BY DEF IInv, TypeOK, AddressesAreOwn
<1> QED
  BY <1>1, <1>2, <1>3, <1>4 DEF Seen

-----------------------------------------------------------------------------
(***************************************************************************)
(* Each step of a dispatch keeps the invariant.                            *)
(***************************************************************************)
LEMMA BeginKeeps ==
    ASSUME IInv, NEW d \in Dispatches, NEW r \in Runs, Begin(d, r)
    PROVE  IInv'
<1>1. TypeOK /\ disp[d].pc = "idle" /\ task[d] = "none"
  BY DEF IInv, Begin, HandsOf
<1>2. Moved(d) /\ disp'[d] = [pc |-> "find", run |-> r, id |-> r, row |-> NoRow]
  BY <1>1, BeginMoves
<1>3. UNCHANGED <<api, rows, replica, task, at, named, woken>>
  BY DEF Begin
<1>4. TypeOK'
  BY <1>1, <1>2, <1>3 DEF TypeOK, Moved
<1>5. TasksGrow
  BY <1>1, <1>2, <1>3, NotLaunched DEF TasksGrow, Moved
<1>6. OnlyNew(r, NoRow)
  BY <1>2, <1>3 DEF OnlyNew, Moved
<1>7. AddressesAreOwn'
  <2>1. RowOf(r, NoRow)'
    BY DEF RowOf, NoRow
  <2> QED
    BY <1>5, <1>6, <2>1, CopiesKept
<1>8. HandsOf(d)'
  <2>1. r # None
    BY <1>1, ConstantsAssumption DEF IInv, HandsOf
  <2> QED
    BY <1>1, <1>2, <1>3, <2>1 DEF HandsOf
<1>9. \A e \in Dispatches : HandsOf(e)'
  BY <1>2, <1>3, <1>8, HandsKept
<1>10. \A e \in Dispatches : PlacesOf(e)'
  BY <1>3, PlacesKept
<1> QED
  BY <1>3, <1>4, <1>7, <1>9, <1>10 DEF IInv

LEMMA FindKeeps ==
    ASSUME IInv, NEW d \in Dispatches, FindForUser(d)
    PROVE  IInv'
<1>1. TypeOK /\ disp[d].pc = "find" /\ task[d] = "none" /\ disp[d].run # None
  BY DEF IInv, FindForUser, HandsOf
<1>2. UNCHANGED <<api, rows, replica, task, at, named, woken>>
  BY DEF FindForUser
<1>3. CASE Moved(d) /\ Kept(d) /\ disp'[d].pc = "create" /\ disp'[d].row = FreshRow
  BY <1>1, <1>2, <1>3, RowTypes, StepKeeps DEF Arrives, IInv, TypeOK
<1>4. ASSUME NEW i \in RunnerIds,
             UserOf[i] = UserOf[disp[d].run],
             Moved(d),
             disp'[d].run = disp[d].run,
             disp'[d].id = i,
             disp'[d].row = replica[i],
             disp'[d].pc = FirstStep(replica[i])
      PROVE  IInv'
  <2>1. TypeOK'
    BY <1>1, <1>2, <1>4 DEF TypeOK, Moved
  <2>2. TasksGrow
    BY <1>1, <1>2, <1>4, NotLaunched DEF TasksGrow, Moved
  <2>3. PICK new : new = replica[i]
    OBVIOUS
  <2>4. RowOf(i, new)'
    <3>1. new \in Row /\ RowOf(i, new)
      BY <1>1, <2>3 DEF TypeOK, IInv, AddressesAreOwn
    <3> QED
      BY <2>2, <3>1, RowOfKept
  <2>5. OnlyNew(i, new)
    BY <1>2, <1>4, <2>3 DEF OnlyNew, Moved
  <2>6. AddressesAreOwn'
    BY <2>2, <2>4, <2>5, CopiesKept
  <2>7. HandsOf(d)'
    <3>1. disp'[d].pc \in {"mark", "launch"} \/
             (disp'[d].pc = "wake" /\ Reachable(disp'[d].row))
      BY <1>4 DEF FirstStep, Ready
    <3>2. i # None
      BY <1>1, <1>4, ConstantsAssumption DEF RunnerIds, IInv, HandsOf
    <3> QED
      BY <1>1, <1>2, <1>4, <3>1, <3>2 DEF HandsOf, Reachable
  <2>8. \A e \in Dispatches : HandsOf(e)'
    BY <1>2, <1>4, <2>7, HandsKept
  <2>9. \A e \in Dispatches : PlacesOf(e)'
    BY <1>2, PlacesKept
  <2> QED
    BY <1>2, <2>1, <2>6, <2>8, <2>9 DEF IInv
<1> QED
  BY <1>3, <1>4, FindMoves

LEMMA CreateRowKeeps ==
    ASSUME IInv, NEW d \in Dispatches, CreateRow(d)
    PROVE  IInv'
<1>1. TypeOK /\ disp[d].pc # "idle" /\ task[d] = "none"
  BY DEF IInv, CreateRow, HandsOf
<1>2. /\ Put(disp[d].id, disp[d].row)
      /\ UNCHANGED <<api, replica, task, at, named, woken>>
  BY DEF CreateRow
<1>3. Moved(d) /\ Kept(d) /\ disp'[d].pc = "launch" /\ disp'[d].row = disp[d].row
  BY <1>1, MovesKeep DEF CreateRow, Working
<1>4. Arrives(d)
  BY <1>1, <1>2, <1>3 DEF Arrives
<1> QED
  BY <1>1, <1>2, <1>3, <1>4, RowsAtHand, StepKeeps DEF TypeOK

LEMMA MarkStartingKeeps ==
    ASSUME IInv, NEW d \in Dispatches, MarkStarting(d)
    PROVE  IInv'
<1>1. TypeOK /\ disp[d].pc # "idle" /\ task[d] = "none"
  BY DEF IInv, MarkStarting, HandsOf
<1>2. PICK row : row = [disp[d].row EXCEPT !.status = "starting", !.desired = "running",
                                           !.ip = None, !.endpoint = None]
  OBVIOUS
<1>3. row \in Row
  BY <1>1, <1>2, RowsAtHand, RowUpdates
<1>4. RowOf(disp[d].id, row)
  BY <1>1, <1>2, RowsAtHand DEF RowOf, Row
<1>5. /\ Put(disp[d].id, row)
      /\ ToWith(d, "launch", row)
      /\ UNCHANGED <<api, replica, task, at, named, woken>>
  BY <1>2 DEF MarkStarting
<1>6. Moved(d) /\ Kept(d) /\ disp'[d].pc = "launch" /\ disp'[d].row = row
  BY <1>1, <1>3, <1>5, MovesKeep DEF Working
<1>7. Arrives(d)
  BY <1>1, <1>5, <1>6 DEF Arrives
<1> QED
  BY <1>1, <1>3, <1>4, <1>5, <1>6, <1>7, StepKeeps DEF TypeOK

LEMMA LaunchKeeps ==
    ASSUME IInv, NEW d \in Dispatches, Launch(d)
    PROVE  IInv'
<1>1. TypeOK /\ disp[d].pc # "idle" /\ task[d] = "none"
  BY DEF IInv, Launch, HandsOf
<1>2. UNCHANGED <<api, rows, replica, at, named, woken>>
  BY DEF Launch
<1>3. task' = task \/ (task[d] = "none" /\ task' = [task EXCEPT ![d] = "pending"])
  BY <1>1 DEF Launch
<1>4. /\ Moved(d) /\ Kept(d) /\ disp'[d].row = disp[d].row
      /\ \/ disp'[d].pc = "refetch" /\ task' = [task EXCEPT ![d] = "pending"]
         \/ disp'[d].pc = "launch failed"
  BY <1>1, MovesKeep DEF Launch, Working
<1>5. Arrives(d)
  BY <1>1, <1>4 DEF Arrives, TypeOK
<1> QED
  BY <1>1, <1>2, <1>3, <1>4, <1>5, PlainStepKeeps

LEMMA RefetchKeeps ==
    ASSUME IInv, NEW d \in Dispatches, Refetch(d)
    PROVE  IInv'
<1>1. TypeOK /\ disp[d].pc # "idle" /\ task[d] # "none"
  BY DEF IInv, Refetch, HandsOf
<1>2. UNCHANGED <<api, rows, replica, task, at, named, woken>>
  BY DEF Refetch
<1>3. CASE To(d, "launch failed")
  <2>1. Moved(d) /\ Kept(d) /\ disp'[d].pc = "launch failed" /\ disp'[d].row = disp[d].row
    BY <1>1, <1>3, MovesKeep DEF Working
  <2>2. Arrives(d)
    BY <2>1 DEF Arrives
  <2> QED
    BY <1>1, <1>2, <2>1, <2>2, PlainStepKeeps
<1>4. ASSUME NEW base \in Seen(disp[d].id) \union {disp[d].row},
             ToWith(d, "record", base)
      PROVE  IInv'
  <2>1. base \in Row /\ RowOf(disp[d].id, base)
    BY <1>1, <1>4, RowsAtHand
  <2>2. Moved(d) /\ Kept(d) /\ disp'[d].pc = "record" /\ disp'[d].row = base
    BY <1>1, <1>4, <2>1, MovesKeep DEF Working
  <2>3. Arrives(d)
    BY <1>1, <1>2, <2>2 DEF Arrives
  <2> QED
    BY <1>1, <1>2, <2>1, <2>2, <2>3, StepKeeps DEF TypeOK
<1> QED
  BY <1>3, <1>4 DEF Refetch

LEMMA RecordLaunchKeeps ==
    ASSUME IInv, NEW d \in Dispatches, RecordLaunch(d)
    PROVE  IInv'
<1>1. TypeOK /\ disp[d].pc # "idle"
  BY DEF IInv, RecordLaunch
<1>2. /\ rows' = rows \/ Put(disp[d].id, disp[d].row)
      /\ UNCHANGED <<api, replica, task, at, named, woken>>
  BY DEF RecordLaunch
<1>3. /\ Moved(d) /\ Kept(d) /\ disp'[d].row = disp[d].row
      /\ disp'[d].pc \in {"describe", "launch failed"}
  BY <1>1, MovesKeep DEF RecordLaunch, Working
<1>4. Arrives(d)
  BY <1>3 DEF Arrives
<1> QED
  BY <1>1, <1>2, <1>3, <1>4, RowsAtHand, StepKeeps DEF TypeOK

LEMMA LaunchFailedKeeps ==
    ASSUME IInv, NEW d \in Dispatches, LaunchFailed(d)
    PROVE  IInv'
<1>1. TypeOK /\ disp[d].pc # "idle"
  BY DEF IInv, LaunchFailed
<1>2. PICK row : row = [disp[d].row EXCEPT !.status = "failed"]
  OBVIOUS
<1>3. row \in Row /\ RowOf(disp[d].id, row)
  BY <1>1, <1>2, RowsAtHand, FailedRow
<1>4. /\ Put(disp[d].id, row)
      /\ UNCHANGED <<api, replica, task, at, named, woken>>
  BY <1>2 DEF LaunchFailed
<1>5. Moved(d) /\ Kept(d) /\ disp'[d].pc = "LAUNCH_FAILED" /\ disp'[d].row = NoRow
  BY <1>1, MovesKeep DEF LaunchFailed, Failures
<1>6. Arrives(d)
  BY <1>5 DEF Arrives
<1> QED
  BY <1>1, <1>3, <1>4, <1>5, <1>6, StepKeeps DEF TypeOK

LEMMA DescribeKeeps ==
    ASSUME IInv, NEW d \in Dispatches, Describe(d)
    PROVE  IInv'
<1>1. TypeOK /\ disp[d].pc # "idle"
  BY DEF IInv, Describe
<1>2. UNCHANGED <<api, rows, replica, task, at, named, woken>>
  BY DEF Describe
<1>3. /\ Moved(d) /\ Kept(d) /\ disp'[d].row = disp[d].row
      /\ disp'[d].pc \in {"put stopped", "put running", "get"}
      /\ disp'[d].pc = "put running" => task[d] = "running"
  <2>1. PICK pc \in {"put stopped", "put running", "get"} :
            To(d, pc) /\ (pc = "put running" => task[d] = "running")
    BY DEF Describe
  <2> QED
    BY <1>1, <2>1, MovesKeep DEF Working
<1>4. Arrives(d)
  BY <1>2, <1>3 DEF Arrives
<1> QED
  BY <1>1, <1>2, <1>3, <1>4, PlainStepKeeps

LEMMA PutStoppedKeeps ==
    ASSUME IInv, NEW d \in Dispatches, PutStopped(d)
    PROVE  IInv'
<1>1. TypeOK /\ disp[d].pc # "idle"
  BY DEF IInv, PutStopped
<1>2. PICK row : row = [disp[d].row EXCEPT !.status = "failed"]
  OBVIOUS
<1>3. row \in Row /\ RowOf(disp[d].id, row)
  BY <1>1, <1>2, RowsAtHand, FailedRow
<1>4. /\ rows' = rows \/ Put(disp[d].id, row)
      /\ UNCHANGED <<api, replica, task, at, named, woken>>
  BY <1>2 DEF PutStopped
<1>5. /\ Moved(d) /\ Kept(d) /\ disp'[d].row \in {disp[d].row, NoRow}
      /\ disp'[d].pc \in {"UNHEALTHY_RUNNER", "get"}
  BY <1>1, MovesKeep DEF PutStopped, Failures, Working
<1>6. Arrives(d)
  BY <1>5 DEF Arrives
<1> QED
  BY <1>1, <1>3, <1>4, <1>5, <1>6, StepKeeps DEF TypeOK

LEMMA PutRunningKeeps ==
    ASSUME IInv, NEW d \in Dispatches, PutRunning(d)
    PROVE  IInv'
<1>1. TypeOK /\ disp[d].pc # "idle" /\ task[d] \in {"running", "stopped"}
  BY DEF IInv, PutRunning, HandsOf
<1>2. PICK row : row = [disp[d].row EXCEPT !.status = "running", !.ip = at[d],
                                           !.endpoint = at[d]]
  OBVIOUS
<1>3. row \in Row /\ RowOf(disp[d].id, row)
  <2>1. disp[d].row \in Row
    BY <1>1, RowsAtHand
  <2>2. at[d] \in Addresses
    BY <1>1 DEF IInv, TypeOK, PlacesOf
  <2>3. row \in Row
    BY <1>2, <2>1, <2>2 DEF Row, Statuses
  <2>4. row.ip = at[d] /\ row.endpoint = at[d]
    BY <1>2, <2>1 DEF Row
  <2> QED
    BY <2>3, <2>4 DEF RowOf, KnownFor
<1>4. /\ rows' = rows \/ Put(disp[d].id, row)
      /\ ToWith(d, "get", row) \/ To(d, "get")
      /\ UNCHANGED <<api, replica, task, at, named, woken>>
  BY <1>2 DEF PutRunning
<1>5. /\ Moved(d) /\ Kept(d) /\ disp'[d].row \in {disp[d].row, row}
      /\ disp'[d].pc = "get"
  BY <1>1, <1>3, <1>4, MovesKeep DEF Working
<1>6. Arrives(d)
  BY <1>5 DEF Arrives
<1> QED
  BY <1>1, <1>3, <1>4, <1>5, <1>6, StepKeeps DEF TypeOK

LEMMA GetKeeps ==
    ASSUME IInv, NEW d \in Dispatches, Get(d)
    PROVE  IInv'
<1>1. TypeOK /\ disp[d].pc # "idle"
  BY DEF IInv, Get
<1>2. UNCHANGED <<api, rows, replica, task, at, named, woken>>
  BY DEF Get
<1>3. PICK next \in Seen(disp[d].id) :
        \/ Ready(next) /\ ToWith(d, "wake", next)
        \/ End(d, "UNHEALTHY_RUNNER")
        \/ To(d, "describe") \/ To(d, "last get")
  BY DEF Get
<1>4. next \in Row /\ RowOf(disp[d].id, next)
  BY <1>1, <1>3, RowsAtHand
<1>5. CASE Ready(next) /\ ToWith(d, "wake", next)
  <2>1. Moved(d) /\ Kept(d) /\ disp'[d].pc = "wake" /\ disp'[d].row = next
    BY <1>1, <1>4, <1>5, MovesKeep DEF Working
  <2>2. Arrives(d)
    BY <1>5, <2>1 DEF Arrives, Ready
  <2> QED
    BY <1>1, <1>2, <1>4, <2>1, <2>2, StepKeeps DEF TypeOK
<1>6. CASE End(d, "UNHEALTHY_RUNNER") \/ To(d, "describe") \/ To(d, "last get")
  <2>1. /\ Moved(d) /\ Kept(d) /\ disp'[d].row \in {disp[d].row, NoRow}
        /\ disp'[d].pc \in {"UNHEALTHY_RUNNER", "describe", "last get"}
    BY <1>1, <1>6, MovesKeep DEF Working, Failures
  <2>2. Arrives(d)
    BY <2>1 DEF Arrives
  <2> QED
    BY <1>1, <1>2, <2>1, <2>2, PlainStepKeeps
<1> QED
  BY <1>3, <1>5, <1>6

LEMMA LastGetKeeps ==
    ASSUME IInv, NEW d \in Dispatches, LastGet(d)
    PROVE  IInv'
<1>1. TypeOK /\ disp[d].pc # "idle"
  BY DEF IInv, LastGet
<1>2. UNCHANGED <<api, rows, replica, task, at, named, woken>>
  BY DEF LastGet
<1>3. PICK row \in Seen(disp[d].id) \union {disp[d].row} :
        \/ Reachable(row) /\ ToWith(d, "wake", row)
        \/ End(d, "ENDPOINT_TIMEOUT")
  BY DEF LastGet
<1>4. row \in Row /\ RowOf(disp[d].id, row)
  BY <1>1, <1>3, RowsAtHand
<1>5. CASE Reachable(row) /\ ToWith(d, "wake", row)
  <2>1. Moved(d) /\ Kept(d) /\ disp'[d].pc = "wake" /\ disp'[d].row = row
    BY <1>1, <1>4, <1>5, MovesKeep DEF Working
  <2>2. Arrives(d)
    BY <1>5, <2>1 DEF Arrives
  <2> QED
    BY <1>1, <1>2, <1>4, <2>1, <2>2, StepKeeps DEF TypeOK
<1>6. CASE End(d, "ENDPOINT_TIMEOUT")
  <2>1. /\ Moved(d) /\ Kept(d) /\ disp'[d].row = NoRow
        /\ disp'[d].pc = "ENDPOINT_TIMEOUT"
    BY <1>1, <1>6, MovesKeep DEF Failures
  <2>2. Arrives(d)
    BY <2>1 DEF Arrives
  <2> QED
    BY <1>1, <1>2, <2>1, <2>2, PlainStepKeeps
<1> QED
  BY <1>3, <1>5, <1>6

\* The address a wake is posted to is known for the runner in hand.
LEMMA WakesOwn ==
    ASSUME IInv, NEW d \in Dispatches, disp[d].pc = "wake"
    PROVE  /\ Address(disp[d].row) \in Addresses
           /\ KnownFor(Address(disp[d].row), disp[d].id)
<1>1. disp[d].row \in Row /\ RowOf(disp[d].id, disp[d].row)
  BY RowsAtHand
<1>2. Reachable(disp[d].row)
  BY DEF IInv, HandsOf
<1> QED
  BY <1>1, <1>2, AddressType

\* The two ways in which a post is answered, or is tried again.
LEMMA Posts ==
    ASSUME NEW d \in Dispatches, PostWake(d)
    PROVE  \/ /\ \E t \in Dispatches :
                    /\ task[t] = "running" /\ at[t] = Address(disp[d].row)
                    /\ woken' = woken \union {<<d, t>>}
              /\ End(d, "done") \/ UNCHANGED disp
           \/ /\ <<UserOf[disp[d].run], Address(disp[d].row)>> \in named
              /\ \A t \in Dispatches : task[t] = "running" => at[t] # Address(disp[d].row)
              /\ End(d, "done")
              /\ UNCHANGED woken
BY DEF PostWake

LEMMA PostWakeKeeps ==
    ASSUME IInv, NEW d \in Dispatches, PostWake(d)
    PROVE  IInv'
<1>1. TypeOK /\ disp[d].pc = "wake"
  BY DEF IInv, PostWake
<1>2. UNCHANGED <<api, rows, replica, task, at, named>>
  BY DEF PostWake
<1>3. woken' \subseteq Dispatches \X Dispatches
  <2>1. woken \subseteq Dispatches \X Dispatches
    BY <1>1 DEF TypeOK
  <2>2. \A t \in Dispatches : <<d, t>> \in Dispatches \X Dispatches
    OBVIOUS
  <2> QED
    BY <2>1, <2>2, Posts
<1>4. CASE End(d, "done")
  <2>1. Moved(d) /\ Kept(d) /\ disp'[d].pc = "done" /\ disp'[d].row = NoRow
    BY <1>1, <1>4, MovesKeep
  <2>2. Arrives(d)
    BY <2>1 DEF Arrives
  <2> QED
    BY <1>1, <1>2, <1>3, <2>1, <2>2, RowTypes, StepKeeps
<1>5. CASE UNCHANGED disp
  <2>1. /\ Moved(d) /\ Kept(d) /\ disp'[d].row = disp[d].row
        /\ disp'[d].pc = "wake"
    BY <1>1, <1>5 DEF Moved, Kept, TypeOK
  <2>2. Arrives(d)
    BY <1>1, <1>5, <2>1 DEF Arrives, IInv, HandsOf
  <2> QED
    BY <1>1, <1>2, <1>3, <2>1, <2>2, RowTypes, StepKeeps
<1> QED
  BY <1>4, <1>5, Posts

LEMMA EndsKeep ==
    ASSUME IInv, NEW d \in Dispatches, GiveUp(d) \/ Abort(d)
    PROVE  IInv'
<1>1. TypeOK /\ disp[d].pc # "idle"
  BY DEF IInv, GiveUp, Abort, Working
<1>2. UNCHANGED <<api, rows, replica, task, at, named, woken>>
  BY DEF GiveUp, Abort
<1>3. /\ Moved(d) /\ Kept(d) /\ disp'[d].row = NoRow
      /\ disp'[d].pc \in {"WAKE_FAILED", "aborted"}
  BY <1>1, MovesKeep DEF GiveUp, Abort, Failures
<1>4. Arrives(d)
  BY <1>3 DEF Arrives
<1> QED
  BY <1>1, <1>2, <1>3, <1>4, PlainStepKeeps

-----------------------------------------------------------------------------
(***************************************************************************)
(* The routes, the tasks and the table.                                    *)
(***************************************************************************)
\* A request takes in hand a row whose address is in order, now that the caller
\* has given some.
LEMMA NamesKeeps ==
    ASSUME IInv, NEW q \in Requests, NEW i \in RunnerIds, NEW row \in Row,
           NEW addresses \in SUBSET Addresses,
           UserOf[i] = UserOf[q], RowOf(i, row)', Names(q, i, row, addresses)
    PROVE  IInv'
<1>1. /\ UNCHANGED <<disp, rows, replica, task, at, woken>>
      /\ api' = [api EXCEPT ![q] = [pc |-> "put", id |-> i, row |-> row]]
      /\ named' = named \union {<<UserOf[q], a>> : a \in addresses}
  BY DEF Names
<1>2. /\ api' \in [Requests -> RequestType]
      /\ api'[q].id = i /\ api'[q].row = row
      /\ \A p \in Requests \ {q} : api'[p] = api[p]
  BY <1>1 DEF IInv, TypeOK, RequestType
<1>3. named' \subseteq Users \X Addresses
  <2>1. UserOf[q] \in Users /\ named \subseteq Users \X Addresses
    BY ConstantsAssumption DEF IInv, TypeOK
  <2> QED
    BY <1>1, <2>1
<1>4. TypeOK'
  BY <1>1, <1>2, <1>3 DEF IInv, TypeOK
<1>5. TasksGrow
  BY <1>1 DEF TasksGrow
<1>6. OnlyNew(i, row)
  BY <1>1, <1>2 DEF OnlyNew
<1>7. AddressesAreOwn'
  BY <1>5, <1>6, CopiesKept
<1>8. \A d \in Dispatches : HandsOf(d)'
  BY <1>1 DEF IInv, HandsOf, Reachable
<1>9. \A d \in Dispatches : PlacesOf(d)'
  BY <1>1, PlacesKept
<1>10. \A p \in Requests : UserOf[api'[p].id] = UserOf[p]
  BY <1>2 DEF IInv
<1> QED
  BY <1>4, <1>7, <1>8, <1>9, <1>10 DEF IInv

\* The case in which nothing is given.
LEMMA SubmitKeeps ==
    ASSUME IInv, NEW q \in Requests, NEW i \in RunnerIds, NEW row \in Row,
           UserOf[i] = UserOf[q], RowOf(i, row), Submit(q, i, row)
    PROVE  IInv'
<1>1. Names(q, i, row, {})
  BY DEF Submit
<1>2. TasksGrow
  BY <1>1 DEF Names, TasksGrow
<1>3. RowOf(i, row)'
  BY <1>2, RowOfKept
<1> QED
  BY <1>1, <1>3, NamesKeeps

\* A row that a request sees has an address that is known for its runner.
LEMMA OwnIdsType ==
    ASSUME IInv, NEW q \in Requests, NEW i \in OwnIds(q)
    PROVE  /\ i \in RunnerIds /\ UserOf[i] = UserOf[q]
           /\ \A row \in Seen(i) : row \in Row /\ RowOf(i, row)
<1>1. i \in RunnerIds /\ UserOf[i] = UserOf[q]
  BY DEF OwnIds
<1>2. /\ rows[i] \in Row /\ replica[i] \in Row
      /\ RowOf(i, rows[i]) /\ RowOf(i, replica[i])
  BY <1>1 DEF IInv, TypeOK, AddressesAreOwn
<1> QED
  BY <1>1, <1>2 DEF Seen

LEMMA CreateUserRunnerKeeps ==
    ASSUME IInv, NEW q \in Requests, CreateUserRunner(q)
    PROVE  IInv'
<1>1. PICK i \in OwnIds(q) : \E old \in Seen(i) :
          \E status \in Reported \union {IF old = NoRow THEN "starting" ELSE old.status},
             desired \in Wanted \union {old.desired} :
            Submit(q, i, [NoRow EXCEPT !.status = status, !.desired = desired])
  BY DEF CreateUserRunner
<1>2. PICK old \in Seen(i) :
          \E status \in Reported \union {IF old = NoRow THEN "starting" ELSE old.status},
             desired \in Wanted \union {old.desired} :
            Submit(q, i, [NoRow EXCEPT !.status = status, !.desired = desired])
  BY <1>1
<1>3. PICK status \in Reported \union {IF old = NoRow THEN "starting" ELSE old.status},
           desired \in Wanted \union {old.desired} :
          Submit(q, i, [NoRow EXCEPT !.status = status, !.desired = desired])
  BY <1>2
<1>4. /\ i \in RunnerIds /\ UserOf[i] = UserOf[q]
      /\ old \in Row
  BY <1>2, OwnIdsType
<1>5. PICK row : row = [NoRow EXCEPT !.status = status, !.desired = desired]
  OBVIOUS
<1>6. row \in Row /\ RowOf(i, row)
  BY <1>3, <1>4, <1>5, ConstantsAssumption DEF NoRow, Row, Statuses, RowOf
<1> QED
  BY <1>3, <1>4, <1>5, <1>6, SubmitKeeps

LEMMA UpdateDesiredStateKeeps ==
    ASSUME IInv, NEW q \in Requests, UpdateDesiredState(q)
    PROVE  IInv'
<1>1. PICK i \in OwnIds(q) : \E old \in Seen(i) \ {NoRow}, desired \in Wanted :
          Submit(q, i, [old EXCEPT !.desired = desired])
  BY DEF UpdateDesiredState
<1>2. PICK old \in Seen(i) \ {NoRow}, desired \in Wanted :
          Submit(q, i, [old EXCEPT !.desired = desired])
  BY <1>1
<1>3. PICK row : row = [old EXCEPT !.desired = desired]
  OBVIOUS
<1>4. /\ i \in RunnerIds /\ UserOf[i] = UserOf[q]
      /\ old \in Row /\ RowOf(i, old)
  BY <1>2, OwnIdsType
<1>5. row \in Row /\ row.ip = old.ip /\ row.endpoint = old.endpoint
  BY <1>2, <1>3, <1>4, ConstantsAssumption DEF Row
<1>6. RowOf(i, row)
  BY <1>4, <1>5 DEF RowOf
<1> QED
  BY <1>2, <1>3, <1>4, <1>5, <1>6, SubmitKeeps

LEMMA HeartbeatKeeps ==
    ASSUME IInv, NEW q \in Requests, Heartbeat(q)
    PROVE  IInv'
<1>1. PICK i \in OwnIds(q) : \E old \in Seen(i) \ {NoRow} :
        \E status \in Reported \union {old.status}, ip \in Given \union {old.ip} :
          \E endpoint \in Given \union {IF old.endpoint # None THEN old.endpoint ELSE ip} :
            Names(q, i, [old EXCEPT !.status = status, !.ip = ip, !.endpoint = endpoint],
                  {ip, endpoint} \ {old.ip, old.endpoint})
  BY DEF Heartbeat
<1>2. PICK old \in Seen(i) \ {NoRow} :
        \E status \in Reported \union {old.status}, ip \in Given \union {old.ip} :
          \E endpoint \in Given \union {IF old.endpoint # None THEN old.endpoint ELSE ip} :
            Names(q, i, [old EXCEPT !.status = status, !.ip = ip, !.endpoint = endpoint],
                  {ip, endpoint} \ {old.ip, old.endpoint})
  BY <1>1
<1>3. PICK status \in Reported \union {old.status}, ip \in Given \union {old.ip} :
        \E endpoint \in Given \union {IF old.endpoint # None THEN old.endpoint ELSE ip} :
          Names(q, i, [old EXCEPT !.status = status, !.ip = ip, !.endpoint = endpoint],
                {ip, endpoint} \ {old.ip, old.endpoint})
  BY <1>2
<1>4. PICK endpoint \in Given \union {IF old.endpoint # None THEN old.endpoint ELSE ip} :
        Names(q, i, [old EXCEPT !.status = status, !.ip = ip, !.endpoint = endpoint],
              {ip, endpoint} \ {old.ip, old.endpoint})
  BY <1>3
<1>5. PICK row : row = [old EXCEPT !.status = status, !.ip = ip, !.endpoint = endpoint]
  OBVIOUS
<1>6. PICK addresses : addresses = {ip, endpoint} \ {old.ip, old.endpoint}
  OBVIOUS
<1>7. /\ i \in RunnerIds /\ UserOf[i] = UserOf[q]
      /\ old \in Row /\ RowOf(i, old)
  BY <1>2, OwnIdsType
<1>8. Given \subseteq Addresses /\ Reported \subseteq Statuses
  BY ConstantsAssumption DEF Statuses
<1>9. /\ old.ip \in Addresses \union {None} /\ old.endpoint \in Addresses \union {None}
      /\ old.status \in Statuses \union {"none"}
  BY <1>7 DEF Row
<1>10. /\ ip \in Addresses \union {None} /\ endpoint \in Addresses \union {None}
       /\ status \in Statuses \union {"none"}
  BY <1>3, <1>4, <1>8, <1>9
<1>11. row \in Row /\ row.ip = ip /\ row.endpoint = endpoint
  BY <1>5, <1>7, <1>10 DEF Row
<1>12. addresses \in SUBSET Addresses
  BY <1>3, <1>4, <1>6, <1>8, <1>9
<1>13. Names(q, i, row, addresses)
  BY <1>4, <1>5, <1>6
<1>14. TasksGrow
  BY <1>13 DEF Names, TasksGrow
<1>15. \A a \in addresses : KnownFor(a, i)'
  BY <1>7, <1>13 DEF Names, KnownFor
<1>16. RowOf(i, old)'
  BY <1>7, <1>14, RowOfKept
<1>17. RowOf(i, row)'
  BY <1>6, <1>11, <1>15, <1>16 DEF RowOf
<1> QED
  BY <1>7, <1>11, <1>12, <1>13, <1>17, NamesKeeps

LEMMA PutUserRunnerKeeps ==
    ASSUME IInv, NEW q \in Requests, PutUserRunner(q)
    PROVE  IInv'
<1>1. PICK i, row : i = api[q].id /\ row = api[q].row
  OBVIOUS
<1>2. /\ i \in RunnerIds /\ UserOf[i] = UserOf[q]
      /\ row \in Row /\ RowOf(i, row)
  BY <1>1 DEF IInv, TypeOK, RequestType, AddressesAreOwn
<1>3. /\ UNCHANGED <<disp, replica, task, at, named, woken>>
      /\ Put(i, row)
      /\ api' = [api EXCEPT ![q] = [pc |-> "done", id |-> q, row |-> NoRow]]
  BY <1>1 DEF PutUserRunner
<1>4. [pc |-> "done", id |-> q, row |-> NoRow] \in RequestType
  BY RowTypes DEF RequestType, RunnerIds
<1>5. /\ api' \in [Requests -> RequestType]
      /\ api'[q].id = q /\ api'[q].row = NoRow
      /\ \A p \in Requests \ {q} : api'[p] = api[p]
  BY <1>3, <1>4 DEF IInv, TypeOK
<1>6. /\ rows' \in [RunnerIds -> Row]
      /\ rows'[i] = row
      /\ \A j \in RunnerIds \ {i} : rows'[j] = rows[j]
  BY <1>2, <1>3, Puts DEF IInv
<1>7. TypeOK'
  BY <1>3, <1>5, <1>6 DEF IInv, TypeOK
<1>8. TasksGrow
  BY <1>3 DEF TasksGrow
<1>9. OnlyNew(i, row)
  BY <1>3, <1>5, <1>6 DEF OnlyNew
<1>10. AddressesAreOwn'
  BY <1>2, <1>8, <1>9, RowOfKept, CopiesKept
<1>11. \A d \in Dispatches : HandsOf(d)'
  BY <1>3 DEF IInv, HandsOf, Reachable
<1>12. \A p \in Requests : UserOf[api'[p].id] = UserOf[p]
  BY <1>5 DEF IInv
<1>13. \A d \in Dispatches : PlacesOf(d)'
  BY <1>3, PlacesKept
<1> QED
  BY <1>7, <1>10, <1>11, <1>12, <1>13 DEF IInv

\* What a task's start or end changes: a task that starts to run gets an
\* address that no other has that runs.
LEMMA TaskChanges ==
    ASSUME IInv, NEW t \in Dispatches, TaskRuns(t) \/ TaskStops(t)
    PROVE  /\ task[t] \in {"pending", "running"}
           /\ task' \in [Dispatches -> TaskStates]
           /\ at' \in [Dispatches -> Addresses \union {None}]
           /\ \A e \in Dispatches \ {t} : task'[e] = task[e] /\ at'[e] = at[e]
           /\ \/ /\ task[t] = "pending" /\ task'[t] = "running" /\ at[t] = None
                 /\ at'[t] \in Addresses
                 /\ at' = [at EXCEPT ![t] = at'[t]]
                 /\ \A e \in Dispatches : task[e] = "running" => at[e] # at'[t]
              \/ task[t] = "pending" /\ task'[t] = "never ran" /\ at' = at
              \/ task[t] = "running" /\ task'[t] = "stopped" /\ at' = at
<1>1. /\ task \in [Dispatches -> TaskStates]
      /\ at \in [Dispatches -> Addresses \union {None}]
  BY DEF IInv, TypeOK, TaskStates
<1>2. CASE TaskRuns(t)
  <2>1. /\ task[t] = "pending"
        /\ task' = [task EXCEPT ![t] = "running"]
    BY <1>2 DEF TaskRuns
  <2>2. PICK a \in Addresses \ {at[s] : s \in {e \in Dispatches : task[e] = "running"}} :
            at' = [at EXCEPT ![t] = a]
    BY <1>2 DEF TaskRuns
  <2>3. at[t] = None
    BY <2>1, NotLaunched
  <2>4. /\ task' \in [Dispatches -> TaskStates] /\ task'[t] = "running"
        /\ at' \in [Dispatches -> Addresses \union {None}] /\ at'[t] = a
        /\ \A e \in Dispatches \ {t} : task'[e] = task[e] /\ at'[e] = at[e]
    BY <1>1, <2>1, <2>2 DEF TaskStates
  <2> QED
    BY <2>1, <2>2, <2>3, <2>4
<1>3. CASE TaskStops(t)
  <2>1. /\ task[t] \in {"pending", "running"}
        /\ task' = [task EXCEPT ![t] = IF @ = "running" THEN "stopped" ELSE "never ran"]
        /\ at' = at
    BY <1>3 DEF TaskStops
  <2> QED
    BY <1>1, <2>1 DEF TaskStates
<1> QED
  BY <1>2, <1>3

LEMMA TasksKeep ==
    ASSUME IInv, NEW t \in Dispatches, TaskRuns(t) \/ TaskStops(t)
    PROVE  IInv'
<1>1. UNCHANGED <<disp, api, rows, replica, named, woken>>
  BY DEF TaskRuns, TaskStops
<1>2. TypeOK'
  BY <1>1, TaskChanges DEF IInv, TypeOK, TaskStates
<1>3. TasksGrow
  BY <1>1, TaskChanges DEF TasksGrow
<1>4. PICK i : TRUE
  OBVIOUS
<1>5. OnlyNew(i, NoRow)
  BY <1>1 DEF OnlyNew
<1>6. AddressesAreOwn'
  <2>1. RowOf(i, NoRow)'
    BY DEF RowOf, NoRow
  <2> QED
    BY <1>3, <1>5, <2>1, CopiesKept
<1>7. \A d \in Dispatches : HandsOf(d)'
  BY <1>1, TaskChanges DEF IInv, HandsOf, Reachable
<1>8. \A d \in Dispatches : PlacesOf(d)'
  <2>1. \A d \in Dispatches : PlacesOf(d)
    BY DEF IInv
  <2>2. None \notin Addresses
    BY ConstantsAssumption
  <2> QED
    BY <2>1, <2>2, TaskChanges DEF PlacesOf
<1>9. \A q \in Requests : UserOf[api'[q].id] = UserOf[q]
  BY <1>1 DEF IInv
<1> QED
  BY <1>2, <1>6, <1>7, <1>8, <1>9 DEF IInv

LEMMA CatchUpKeeps ==
    ASSUME IInv, NEW i \in RunnerIds, CatchUp(i)
    PROVE  IInv'
<1>1. /\ UNCHANGED <<disp, api, rows, task, at, named, woken>>
      /\ replica' = [replica EXCEPT ![i] = rows[i]]
  BY DEF CatchUp
<1>2. TypeOK'
  BY <1>1 DEF IInv, TypeOK
<1>3. TasksGrow
  BY <1>1 DEF TasksGrow
<1>4. OnlyNew(i, NoRow)
  BY <1>1 DEF OnlyNew, IInv, TypeOK
<1>5. AddressesAreOwn'
  <2>1. RowOf(i, NoRow)'
    BY DEF RowOf, NoRow
  <2> QED
    BY <1>3, <1>4, <2>1, CopiesKept
<1>6. \A d \in Dispatches : HandsOf(d)'
  BY <1>1 DEF IInv, HandsOf, Reachable
<1>7. \A q \in Requests : UserOf[api'[q].id] = UserOf[q]
  BY <1>1 DEF IInv
<1>8. \A d \in Dispatches : PlacesOf(d)'
  BY <1>1, PlacesKept
<1> QED
  BY <1>2, <1>5, <1>6, <1>7, <1>8 DEF IInv

-----------------------------------------------------------------------------
(***************************************************************************)
(* The invariant.                                                          *)
(***************************************************************************)
LEMMA InitIInv == Init => IInv
<1> SUFFICES ASSUME Init PROVE IInv
    OBVIOUS
<1>1. TypeOK
  <2>1. /\ disp \in [Dispatches -> DispatchType]
        /\ api \in [Requests -> RequestType]
    BY RowTypes DEF Init, DispatchType, RequestType, RunnerIds
  <2>2. rows \in [RunnerIds -> Row] /\ replica \in [RunnerIds -> Row]
    BY RowTypes DEF Init
  <2> QED
    BY <2>1, <2>2 DEF Init, TypeOK
<1>2. AddressesAreOwn
  BY RowTypes DEF Init, AddressesAreOwn
<1>3. \A d \in Dispatches : HandsOf(d) /\ PlacesOf(d)
  BY DEF Init, HandsOf, PlacesOf
<1>4. \A q \in Requests : UserOf[api[q].id] = UserOf[q]
  BY DEF Init
<1> QED
  BY <1>1, <1>2, <1>3, <1>4 DEF IInv

LEMMA NextIInv == IInv /\ [Next]_vars => IInv'
<1> SUFFICES ASSUME IInv, [Next]_vars PROVE IInv'
    OBVIOUS
<1>1. CASE UNCHANGED vars
  <2>1. UNCHANGED <<disp, api, rows, replica, task, at, named, woken>>
    BY <1>1 DEF vars
  <2>2. TypeOK'
    BY <2>1 DEF IInv, TypeOK
  <2>3. AddressesAreOwn'
    BY <2>1 DEF IInv, AddressesAreOwn, RowOf, KnownFor
  <2>4. \A d \in Dispatches : HandsOf(d)' /\ PlacesOf(d)'
    BY <2>1 DEF IInv, HandsOf, PlacesOf, Reachable
  <2> QED
    BY <2>1, <2>2, <2>3, <2>4 DEF IInv
<1>2. ASSUME NEW d \in Dispatches, Step(d)
      PROVE  IInv'
  BY <1>2, FindKeeps, CreateRowKeeps, MarkStartingKeeps, LaunchKeeps, RefetchKeeps,
     RecordLaunchKeeps, LaunchFailedKeeps, DescribeKeeps, PutStoppedKeeps,
     PutRunningKeeps, GetKeeps, LastGetKeeps, PostWakeKeeps, EndsKeep DEF Step
<1>3. ASSUME NEW q \in Requests, Route(q)
      PROVE  IInv'
  BY <1>3, CreateUserRunnerKeeps, UpdateDesiredStateKeeps, HeartbeatKeeps,
     PutUserRunnerKeeps DEF Route
<1> QED
  BY <1>1, <1>2, <1>3, BeginKeeps, EndsKeep, TasksKeep, CatchUpKeeps DEF Next

\* The types are right, every address in a copy of a runner's row is known for
\* that runner, a dispatch that posts a wake has an address, and no two running
\* tasks share one (runner-dispatcher.ts and user-runners.ts, whatever the
\* dispatches and requests interleave).
THEOREM Invariance == Spec => []IInv
<1>1. Init => IInv
  BY InitIInv
<1>2. IInv /\ [Next]_vars => IInv'
  BY NextIInv
<1> QED
  BY <1>1, <1>2, PTL DEF Spec

\* No copy of a row, however late it is put back, has an address other than one
\* that a task of this very runner has been running at, or that callers of the
\* runner's own user gave (runner-dispatcher.ts, user-runners.ts).
THEOREM AddressesCorrect == Spec => []AddressesAreOwn
<1>1. IInv => AddressesAreOwn
  BY DEF IInv
<1> QED
  BY <1>1, Invariance, PTL

-----------------------------------------------------------------------------
(***************************************************************************)
(* The refinement of WakeDelivery.  Most steps of a dispatch change only   *)
(* its state and its row: they stutter, or they are its failure.           *)
(***************************************************************************)
\* A step that leaves the tasks and the wakes alone.
Quiet(d) ==
    /\ disp[d].pc \in Working
    /\ Moved(d) /\ Kept(d)
    /\ disp'[d].pc \in Working \union Failures \union {"aborted"}
    /\ UNCHANGED <<task, at, named, woken>>

LEMMA QuietSteps ==
    ASSUME IInv, NEW d \in Dispatches,
           \/ CreateRow(d) \/ MarkStarting(d) \/ Refetch(d) \/ RecordLaunch(d)
           \/ LaunchFailed(d) \/ Describe(d) \/ PutStopped(d) \/ PutRunning(d)
           \/ Get(d) \/ LastGet(d) \/ GiveUp(d) \/ Abort(d)
    PROVE  Quiet(d)
<1> DEFINE Ends == Working \union Failures \union {"aborted"}
<1>1. TypeOK
  BY DEF IInv
<1>2. /\ disp[d].pc \in Working
      /\ UNCHANGED <<task, at, named, woken>>
  BY DEF CreateRow, MarkStarting, Refetch, RecordLaunch, LaunchFailed, Describe,
         PutStopped, PutRunning, Get, LastGet, GiveUp, Abort, Working
<1>3. /\ disp[d].row \in Row
      /\ \A row \in Seen(disp[d].id) : row \in Row
  BY <1>2, RowsAtHand DEF Working
<1>4. ASSUME NEW pc \in Ends, NEW row \in Row,
             ToWith(d, pc, row) \/ To(d, pc) \/ End(d, pc)
      PROVE  Moved(d) /\ Kept(d) /\ disp'[d].pc \in Ends
  BY <1>1, <1>4, MovesKeep
<1>5. CASE CreateRow(d) \/ RecordLaunch(d) \/ LaunchFailed(d) \/ Describe(d)
           \/ PutStopped(d) \/ GiveUp(d) \/ Abort(d)
  <2>1. \E pc \in Ends : To(d, pc) \/ End(d, pc)
    BY <1>5 DEF CreateRow, RecordLaunch, LaunchFailed, Describe, PutStopped, GiveUp,
                Abort, Working, Failures
  <2> QED
    BY <1>2, <1>3, <1>4, <2>1 DEF Quiet
<1>6. CASE MarkStarting(d)
  <2>1. PICK row : row = [disp[d].row EXCEPT !.status = "starting", !.desired = "running",
                                             !.ip = None, !.endpoint = None]
    OBVIOUS
  <2>2. row \in Row
    BY <1>3, <2>1, RowUpdates
  <2>3. ToWith(d, "launch", row)
    BY <1>6, <2>1 DEF MarkStarting
  <2> QED
    BY <1>2, <1>4, <2>2, <2>3 DEF Quiet, Working
<1>7. CASE Refetch(d)
  <2>1. \/ To(d, "launch failed")
        \/ \E base \in Seen(disp[d].id) \union {disp[d].row} : ToWith(d, "record", base)
    BY <1>7 DEF Refetch
  <2> QED
    BY <1>2, <1>3, <1>4, <2>1 DEF Quiet, Working
<1>8. CASE PutRunning(d)
  <2>1. PICK row : row = [disp[d].row EXCEPT !.status = "running", !.ip = at[d],
                                             !.endpoint = at[d]]
    OBVIOUS
  <2>2. row \in Row
    <3>1. at[d] \in Addresses \union {None}
      BY <1>1 DEF TypeOK
    <3> QED
      BY <1>3, <2>1, <3>1 DEF Row, Statuses
  <2>3. ToWith(d, "get", row) \/ To(d, "get")
    BY <1>8, <2>1 DEF PutRunning
  <2> QED
    BY <1>2, <1>4, <2>2, <2>3 DEF Quiet, Working
<1>9. CASE Get(d) \/ LastGet(d)
  <2>1. \E row \in Seen(disp[d].id) \union {disp[d].row} : \E pc \in Ends :
          ToWith(d, pc, row) \/ To(d, pc) \/ End(d, pc)
    BY <1>9 DEF Get, LastGet, Working, Failures
  <2> QED
    BY <1>2, <1>3, <1>4, <2>1 DEF Quiet
<1> QED
  BY <1>5, <1>6, <1>7, <1>8, <1>9

LEMMA Outcomes ==
    ASSUME NEW d \in Dispatches
    PROVE  OutcomeOf(d) = IF disp[d].pc = "done" THEN "dispatched"
                          ELSE IF disp[d].pc \in Failures \union {"aborted"} THEN "failed"
                          ELSE "open"
BY DEF OutcomeOf, Failures

\* The mapped state after a step of d that keeps runs and the ids of tasks.
LEMMA OthersMap ==
    ASSUME NEW d \in Dispatches, Moved(d)
    PROVE  /\ \A e \in Dispatches \ {d} :
                AskerOf(e)' = AskerOf(e) /\ OutcomeOf(e)' = OutcomeOf(e)
           /\ disp'[d].run = disp[d].run => AskerOf(d)' = AskerOf(d)
           /\ task' = task /\ (task[d] # "none" => disp'[d].id = disp[d].id) =>
                \A t \in Dispatches : OwnerOf(t)' = OwnerOf(t)
<1>1. \A e \in Dispatches \ {d} :
          AskerOf(e)' = AskerOf(e) /\ OutcomeOf(e)' = OutcomeOf(e)
  BY DEF Moved, AskerOf, OutcomeOf
<1>2. disp'[d].run = disp[d].run => AskerOf(d)' = AskerOf(d)
  BY DEF AskerOf
<1>3. ASSUME task' = task, task[d] # "none" => disp'[d].id = disp[d].id,
             NEW t \in Dispatches
      PROVE  OwnerOf(t)' = OwnerOf(t)
  BY <1>3 DEF Moved, OwnerOf
<1> QED
  BY <1>1, <1>2, <1>3

\* A working dispatch has an asker, and is open.
LEMMA WorkingMaps ==
    ASSUME IInv, NEW d \in Dispatches, disp[d].pc \in Working
    PROVE  /\ AskerOf(d) = UserOf[disp[d].run] /\ AskerOf(d) \in Users /\ AskerOf(d) # None
           /\ AskerOf(d) = UserOf[disp[d].id]
           /\ OutcomeOf(d) = "open"
<1>1. disp[d].pc # "idle"
  BY DEF Working
<1>2. disp[d].run \in Runs /\ UserOf[disp[d].id] = UserOf[disp[d].run] /\ disp[d].run # None
  BY <1>1, InHand DEF IInv, HandsOf
<1>3. OutcomeOf(d) = "open"
  BY Outcomes DEF Working, Failures
<1> QED
  BY <1>2, <1>3, ConstantsAssumption DEF AskerOf

LEMMA QuietMaps ==
    ASSUME IInv, NEW d \in Dispatches, Quiet(d)
    PROVE  Delivery!Fail(d) \/ UNCHANGED Delivery!vars
<1>1. /\ \A e \in Dispatches : AskerOf(e)' = AskerOf(e)
      /\ \A e \in Dispatches \ {d} : OutcomeOf(e)' = OutcomeOf(e)
      /\ \A t \in Dispatches : OwnerOf(t)' = OwnerOf(t)
  BY OthersMap DEF Quiet, Kept
<1>2. OutcomeOf(d) = "open" /\ AskerOf(d) # None
  BY WorkingMaps DEF Quiet
<1>3. OutcomeOf(d)' \in {"open", "failed"}
  BY Outcomes DEF Quiet, Working, Failures, OutcomeOf
<1>4. UNCHANGED <<task, at, named, woken>>
  BY DEF Quiet
<1>5. CASE OutcomeOf(d)' = "open"
  BY <1>1, <1>2, <1>4, <1>5 DEF Delivery!vars
<1>6. CASE OutcomeOf(d)' = "failed"
  BY <1>1, <1>2, <1>4, <1>6 DEF Delivery!Fail
<1> QED
  BY <1>3, <1>5, <1>6

LEMMA BeginMaps ==
    ASSUME IInv, NEW d \in Dispatches, NEW r \in Runs, Begin(d, r)
    PROVE  Delivery!Begin(d)
<1>1. Moved(d) /\ disp'[d] = [pc |-> "find", run |-> r, id |-> r, row |-> NoRow]
  BY BeginMoves DEF IInv
<1>2. disp[d].pc = "idle" /\ disp[d].run = None /\ task[d] = "none"
  BY DEF Begin, IInv, HandsOf
<1>3. UNCHANGED <<task, at, named, woken>>
  BY DEF Begin
<1>4. /\ \A e \in Dispatches \ {d} :
           AskerOf(e)' = AskerOf(e) /\ OutcomeOf(e)' = OutcomeOf(e)
      /\ \A t \in Dispatches : OwnerOf(t)' = OwnerOf(t)
  BY <1>1, <1>2, <1>3, OthersMap
<1>5. AskerOf(d) = None /\ AskerOf(d)' = UserOf[r] /\ UserOf[r] \in Users
  <2>1. r # None /\ UserOf[r] \in Users
    BY ConstantsAssumption
  <2> QED
    BY <1>1, <1>2, <2>1 DEF AskerOf
<1>6. OutcomeOf(d)' = OutcomeOf(d)
  BY <1>1, <1>2, Outcomes DEF OutcomeOf, Failures
<1>7. /\ [e \in Dispatches |-> AskerOf(e)]' =
             [[e \in Dispatches |-> AskerOf(e)] EXCEPT ![d] = UserOf[r]]
      /\ [e \in Dispatches |-> OutcomeOf(e)]' = [e \in Dispatches |-> OutcomeOf(e)]
      /\ [t \in Dispatches |-> OwnerOf(t)]' = [t \in Dispatches |-> OwnerOf(t)]
  BY <1>4, <1>5, <1>6
<1> QED
  BY <1>3, <1>5, <1>7 DEF Delivery!Begin

LEMMA FindMaps ==
    ASSUME IInv, NEW d \in Dispatches, FindForUser(d)
    PROVE  UNCHANGED Delivery!vars
<1>1. disp[d].pc = "find" /\ task[d] = "none" /\ UNCHANGED <<task, at, named, woken>>
  BY DEF FindForUser, IInv, HandsOf
<1>2. Moved(d) /\ disp'[d].run = disp[d].run /\ disp'[d].pc \in Working
  BY FindMoves, FirstStepType DEF Kept, Working
<1>3. /\ \A e \in Dispatches : AskerOf(e)' = AskerOf(e)
      /\ \A e \in Dispatches \ {d} : OutcomeOf(e)' = OutcomeOf(e)
      /\ \A t \in Dispatches : OwnerOf(t)' = OwnerOf(t)
  BY <1>1, <1>2, OthersMap
<1>4. OutcomeOf(d)' = OutcomeOf(d)
  BY <1>1, <1>2, Outcomes DEF OutcomeOf, Working, Failures
<1> QED
  BY <1>1, <1>3, <1>4 DEF Delivery!vars

LEMMA LaunchMaps ==
    ASSUME IInv, NEW d \in Dispatches, Launch(d)
    PROVE  Delivery!Launch(d) \/ UNCHANGED Delivery!vars
<1>1. /\ TypeOK /\ disp[d].pc \in Working /\ task[d] = "none"
      /\ UNCHANGED <<at, named, woken>>
  BY DEF Launch, IInv, HandsOf, Working
<1>2. Moved(d) /\ Kept(d) /\ disp'[d].pc \in Working
  BY <1>1, MovesKeep DEF Launch, Working
<1>3. /\ \A e \in Dispatches : AskerOf(e)' = AskerOf(e)
      /\ \A e \in Dispatches \ {d} : OutcomeOf(e)' = OutcomeOf(e)
  BY <1>2, OthersMap DEF Kept
<1>4. OutcomeOf(d)' = OutcomeOf(d)
  BY <1>1, <1>2, Outcomes DEF OutcomeOf, Working, Failures
<1>5. CASE task' = task
  <2>1. \A t \in Dispatches : OwnerOf(t)' = OwnerOf(t)
    BY <1>1, <1>2, <1>5, OthersMap
  <2> QED
    BY <1>1, <1>3, <1>4, <1>5, <2>1 DEF Delivery!vars
<1>6. CASE task' = [task EXCEPT ![d] = "pending"]
  <2>1. task'[d] = "pending" /\ \A t \in Dispatches \ {d} : task'[t] = task[t]
    BY <1>1, <1>6 DEF TypeOK
  <2>2. \A t \in Dispatches \ {d} : OwnerOf(t)' = OwnerOf(t)
    BY <1>2, <2>1 DEF OwnerOf, Moved
  <2>3. OwnerOf(d) = None /\ OwnerOf(d)' = UserOf[disp[d].id]
    BY <1>1, <1>2, <2>1 DEF OwnerOf, Kept
  <2>4. UserOf[disp[d].id] = AskerOf(d) /\ AskerOf(d) # None
    BY <1>1, WorkingMaps
  <2>5. {t \in Dispatches : task'[t] = "running"} = {t \in Dispatches : task[t] = "running"}
    BY <1>1, <2>1
  <2>6. /\ [e \in Dispatches |-> AskerOf(e)]' = [e \in Dispatches |-> AskerOf(e)]
        /\ [e \in Dispatches |-> OutcomeOf(e)]' = [e \in Dispatches |-> OutcomeOf(e)]
        /\ [t \in Dispatches |-> OwnerOf(t)]' =
             [[t \in Dispatches |-> OwnerOf(t)] EXCEPT ![d] = AskerOf(d)]
    BY <1>3, <1>4, <2>2, <2>3, <2>4
  <2> QED
    BY <1>1, <2>3, <2>4, <2>5, <2>6 DEF Delivery!Launch
<1> QED
  BY <1>5, <1>6 DEF Launch

\* A runner that holds an address known for a runner of the user's is the user's
\* own, or the address was given, or left.
LEMMA HoldersMap ==
    ASSUME IInv, NEW i \in RunnerIds, NEW t \in Dispatches, task[t] = "running",
           KnownFor(at[t], i)
    PROVE  \/ OwnerOf(t) = UserOf[i]
           \/ <<UserOf[i], at[t]>> \in named
           \/ \E s \in Dispatches \ {e \in Dispatches : task[e] = "running"} :
                  OwnerOf(s) = UserOf[i] /\ at[s] = at[t]
<1>1. at[t] # None /\ OwnerOf(t) = UserOf[disp[t].id]
  BY DEF IInv, PlacesOf, OwnerOf
<1>2. CASE <<UserOf[i], at[t]>> \in named
  BY <1>2
<1>3. ASSUME NEW s \in Dispatches, disp[s].id = i, at[s] = at[t]
      PROVE  \/ OwnerOf(t) = UserOf[i]
             \/ \E r \in Dispatches \ {e \in Dispatches : task[e] = "running"} :
                    OwnerOf(r) = UserOf[i] /\ at[r] = at[t]
  <2>1. task[s] \in {"running", "stopped"}
    BY <1>1, <1>3 DEF IInv, PlacesOf
  <2>2. OwnerOf(s) = UserOf[i]
    BY <1>3, <2>1 DEF OwnerOf
  <2>3. CASE task[s] = "running"
    <3>1. s = t
      BY <1>3, <2>3 DEF IInv, PlacesOf
    <3> QED
      BY <2>2, <3>1
  <2>4. CASE task[s] = "stopped"
    BY <1>3, <2>2, <2>4
  <2> QED
    BY <2>1, <2>3, <2>4
<1> QED
  BY <1>2, <1>3 DEF KnownFor

\* What a post leaves of the mapped state.
LEMMA PostWakeLeaves ==
    ASSUME IInv, NEW d \in Dispatches, PostWake(d)
    PROVE  /\ [e \in Dispatches |-> AskerOf(e)]' = [e \in Dispatches |-> AskerOf(e)]
           /\ [e \in Dispatches |-> OwnerOf(e)]' = [e \in Dispatches |-> OwnerOf(e)]
           /\ UNCHANGED <<task, at, named>>
           /\ [e \in Dispatches |-> OutcomeOf(e)]' \in
                {[e \in Dispatches |-> OutcomeOf(e)],
                 [[e \in Dispatches |-> OutcomeOf(e)] EXCEPT ![d] = "dispatched"]}
           /\ End(d, "done") =>
                [e \in Dispatches |-> OutcomeOf(e)]' =
                  [[e \in Dispatches |-> OutcomeOf(e)] EXCEPT ![d] = "dispatched"]
<1>1. TypeOK /\ disp[d].pc = "wake" /\ UNCHANGED <<task, at, named>>
  BY DEF PostWake, IInv
<1>2. CASE UNCHANGED disp /\ ~End(d, "done")
  <2>1. \A e \in Dispatches : /\ AskerOf(e)' = AskerOf(e) /\ OwnerOf(e)' = OwnerOf(e)
                              /\ OutcomeOf(e)' = OutcomeOf(e)
    BY <1>1, <1>2 DEF AskerOf, OwnerOf, OutcomeOf
  <2> QED
    BY <1>1, <1>2, <2>1
<1>3. CASE End(d, "done")
  <2>1. Moved(d) /\ Kept(d) /\ disp'[d].pc = "done"
    BY <1>1, <1>3, MovesKeep
  <2>2. OutcomeOf(d)' = "dispatched"
    BY <2>1 DEF OutcomeOf, Failures
  <2>3. /\ \A e \in Dispatches : AskerOf(e)' = AskerOf(e) /\ OwnerOf(e)' = OwnerOf(e)
        /\ \A e \in Dispatches \ {d} : OutcomeOf(e)' = OutcomeOf(e)
    BY <1>1, <2>1, OthersMap DEF Kept
  <2> QED
    BY <1>1, <2>2, <2>3
<1> QED
  BY <1>2, <1>3, Posts

LEMMA PostWakeMaps ==
    ASSUME IInv, NEW d \in Dispatches, PostWake(d)
    PROVE  Delivery!AnsweredElsewhere(d) \/ \E t \in Dispatches : Delivery!Deliver(d, t)
<1>1. disp[d].pc = "wake" /\ disp[d].pc \in Working
  BY DEF PostWake, Working
<1>2. PICK a \in Addresses : a = Address(disp[d].row) /\ KnownFor(a, disp[d].id)
  BY <1>1, WakesOwn
<1>3. /\ AskerOf(d) = UserOf[disp[d].id] /\ AskerOf(d) = UserOf[disp[d].run]
      /\ AskerOf(d) # None /\ OutcomeOf(d) = "open"
  BY <1>1, WorkingMaps
<1>4. disp[d].id \in RunnerIds
  BY <1>1, InHand
<1>5. /\ [e \in Dispatches |-> AskerOf(e)][d] = AskerOf(d)
      /\ [e \in Dispatches |-> OutcomeOf(e)][d] = OutcomeOf(d)
      /\ \A t \in Dispatches : [e \in Dispatches |-> OwnerOf(e)][t] = OwnerOf(t)
  OBVIOUS
<1>6. ASSUME NEW t \in Dispatches, task[t] = "running", at[t] = a,
             woken' = woken \union {<<d, t>>}
      PROVE  Delivery!Deliver(d, t)
  <2>1. Delivery!MayReach(AskerOf(d), t)
    <3>1. PICK i \in RunnerIds : i = disp[d].id
      BY <1>4
    <3>2. KnownFor(at[t], i)
      BY <1>2, <1>6, <3>1
    <3>3. \/ OwnerOf(t) = UserOf[i]
          \/ <<UserOf[i], at[t]>> \in named
          \/ \E s \in Dispatches \ {e \in Dispatches : task[e] = "running"} :
                 OwnerOf(s) = UserOf[i] /\ at[s] = at[t]
      BY <1>6, <3>2, HoldersMap
    <3>4. AskerOf(d) = UserOf[i]
      BY <1>3, <3>1
    <3> QED
      BY <1>5, <3>3, <3>4 DEF Delivery!MayReach
  <2>2. t \in {e \in Dispatches : task[e] = "running"}
    BY <1>6
  <2>3. {e \in Dispatches : task[e] = "running"}' = {e \in Dispatches : task[e] = "running"}
    BY PostWakeLeaves
  <2> QED
    BY <1>3, <1>5, <1>6, <2>1, <2>2, <2>3, PostWakeLeaves DEF Delivery!Deliver
<1>7. ASSUME <<UserOf[disp[d].run], a>> \in named,
             \A t \in Dispatches : task[t] = "running" => at[t] # a,
             End(d, "done"), UNCHANGED woken
      PROVE  Delivery!AnsweredElsewhere(d)
  <2>1. /\ <<AskerOf(d), a>> \in named
        /\ \A t \in {e \in Dispatches : task[e] = "running"} : at[t] # a
    BY <1>3, <1>7
  <2>2. {e \in Dispatches : task[e] = "running"}' = {e \in Dispatches : task[e] = "running"}
    BY PostWakeLeaves
  <2> QED
    BY <1>3, <1>5, <1>7, <2>1, <2>2, PostWakeLeaves DEF Delivery!AnsweredElsewhere
<1> QED
  BY <1>2, <1>6, <1>7, Posts

LEMMA TasksMap ==
    ASSUME IInv, NEW t \in Dispatches, TaskRuns(t) \/ TaskStops(t)
    PROVE  Delivery!Run(t) \/ Delivery!Stop(t)
<1>1. UNCHANGED <<disp, named, woken>> /\ task[t] \in {"pending", "running"}
  BY TaskChanges DEF TaskRuns, TaskStops
<1>2. /\ \A e \in Dispatches \ {t} : task'[e] = task[e]
      /\ task'[t] # "none"
  BY TaskChanges
<1>3. \A e \in Dispatches :
          /\ AskerOf(e)' = AskerOf(e) /\ OutcomeOf(e)' = OutcomeOf(e)
          /\ OwnerOf(e)' = OwnerOf(e)
  BY <1>1, <1>2 DEF AskerOf, OutcomeOf, OwnerOf
<1>4. /\ [e \in Dispatches |-> AskerOf(e)]' = [e \in Dispatches |-> AskerOf(e)]
      /\ [e \in Dispatches |-> OutcomeOf(e)]' = [e \in Dispatches |-> OutcomeOf(e)]
      /\ [e \in Dispatches |-> OwnerOf(e)]' = [e \in Dispatches |-> OwnerOf(e)]
      /\ [e \in Dispatches |-> OwnerOf(e)][t] = OwnerOf(t)
  BY <1>3
<1>5. OwnerOf(t) # None
  <2>1. disp[t].pc # "idle"
    BY <1>1 DEF IInv, HandsOf
  <2>2. UserOf[disp[t].id] \in Users
    BY <2>1, InHand, ConstantsAssumption DEF RunnerIds
  <2> QED
    BY <1>1, <2>2, ConstantsAssumption DEF OwnerOf
<1>6. CASE /\ task[t] = "pending" /\ task'[t] = "running" /\ at[t] = None
           /\ at'[t] \in Addresses
           /\ at' = [at EXCEPT ![t] = at'[t]]
           /\ \A e \in Dispatches : task[e] = "running" => at[e] # at'[t]
  <2>1. {e \in Dispatches : task[e] = "running"}'
          = {e \in Dispatches : task[e] = "running"} \union {t}
    BY <1>2, <1>6
  <2>2. PICK a \in Addresses : a = at'[t]
    BY <1>6
  <2>3. /\ at' = [at EXCEPT ![t] = a]
        /\ \A e \in {s \in Dispatches : task[s] = "running"} : at[e] # a
    BY <1>6, <2>2
  <2> QED
    BY <1>1, <1>4, <1>5, <1>6, <2>1, <2>3 DEF Delivery!Run
<1>7. CASE task'[t] \in {"stopped", "never ran"} /\ at' = at
  <2>1. {e \in Dispatches : task[e] = "running"}'
          = {e \in Dispatches : task[e] = "running"} \ {t}
    BY <1>2, <1>7
  <2> QED
    BY <1>1, <1>4, <1>7, <2>1 DEF Delivery!Stop
<1> QED
  BY <1>6, <1>7, TaskChanges

\* A caller that gives addresses gives them for his own user; other routes leave
\* the promise's state alone.
LEMMA RoutesMap ==
    ASSUME IInv, NEW q \in Requests, Route(q)
    PROVE  Delivery!Next \/ UNCHANGED Delivery!vars
<1>1. ASSUME NEW i, NEW row, NEW addresses, Names(q, i, row, addresses)
      PROVE  Delivery!Next
  <2>1. /\ UNCHANGED <<disp, task, at, woken>>
        /\ named' = named \union {<<UserOf[q], a>> : a \in addresses}
    BY <1>1 DEF Names
  <2>2. named' \subseteq Users \X Addresses
    BY CreateUserRunnerKeeps, UpdateDesiredStateKeeps, HeartbeatKeeps, PutUserRunnerKeeps
    DEF Route, IInv, TypeOK
  <2>3. UserOf[q] \in Users /\ addresses \in SUBSET Addresses
    <3>1. UserOf[q] \in Users
      BY ConstantsAssumption
    <3>2. \A a \in addresses : <<UserOf[q], a>> \in Users \X Addresses
      BY <2>1, <2>2
    <3> QED
      BY <3>1, <3>2
  <2>4. named' = named \union ({UserOf[q]} \X addresses)
    BY <2>1
  <2>5. UNCHANGED <<[e \in Dispatches |-> AskerOf(e)], [e \in Dispatches |-> OutcomeOf(e)],
                    [e \in Dispatches |-> OwnerOf(e)],
                    {t \in Dispatches : task[t] = "running"}>>
    BY <2>1 DEF AskerOf, OutcomeOf, OwnerOf
  <2>6. Delivery!Name(UserOf[q])
    BY <2>1, <2>3, <2>4, <2>5 DEF Delivery!Name
  <2> QED
    BY <2>3, <2>6 DEF Delivery!Next
<1>2. CASE \E i, row, addresses : Names(q, i, row, addresses)
  BY <1>1, <1>2
<1>3. CASE PutUserRunner(q)
  <2>1. UNCHANGED <<disp, task, at, named, woken>>
    BY <1>3 DEF PutUserRunner
  <2> QED
    BY <2>1 DEF Delivery!vars, AskerOf, OutcomeOf, OwnerOf
<1> QED
  BY <1>2, <1>3 DEF Route, CreateUserRunner, UpdateDesiredState, Heartbeat, Submit

LEMMA InitMaps == Init => Delivery!Init
<1> SUFFICES ASSUME Init PROVE Delivery!Init
    OBVIOUS
<1>1. \A d \in Dispatches :
          /\ disp[d].pc = "idle" /\ disp[d].run = None /\ task[d] = "none"
  BY DEF Init
<1>2. \A d \in Dispatches :
          AskerOf(d) = None /\ OutcomeOf(d) = "open" /\ OwnerOf(d) = None
  BY <1>1, Outcomes DEF AskerOf, OwnerOf, Failures
<1> QED
  BY <1>1, <1>2 DEF Init, Delivery!Init

LEMMA NextMaps == IInv /\ [Next]_vars => [Delivery!Next]_(Delivery!vars)
<1> SUFFICES ASSUME IInv, [Next]_vars PROVE Delivery!Next \/ UNCHANGED Delivery!vars
    OBVIOUS
<1>1. CASE UNCHANGED <<disp, task, at, named, woken>>
  BY <1>1 DEF Delivery!vars, AskerOf, OutcomeOf, OwnerOf
<1>2. ASSUME NEW d \in Dispatches, NEW r \in Runs, Begin(d, r)
      PROVE  Delivery!Next
  BY <1>2, BeginMaps DEF Delivery!Next
<1>3. ASSUME NEW d \in Dispatches, Step(d) \/ Abort(d)
      PROVE  Delivery!Next \/ UNCHANGED Delivery!vars
  <2>1. CASE FindForUser(d)
    BY <2>1, FindMaps
  <2>2. CASE Launch(d)
    BY <2>2, LaunchMaps DEF Delivery!Next
  <2>3. CASE PostWake(d)
    BY <2>3, PostWakeMaps DEF Delivery!Next
  <2>4. CASE Quiet(d)
    BY <2>4, QuietMaps DEF Delivery!Next
  <2> QED
    BY <1>3, <2>1, <2>2, <2>3, <2>4, QuietSteps DEF Step
<1>4. ASSUME NEW t \in Dispatches, TaskRuns(t) \/ TaskStops(t)
      PROVE  Delivery!Next
  BY <1>4, TasksMap DEF Delivery!Next
<1>5. ASSUME NEW q \in Requests, Route(q)
      PROVE  Delivery!Next \/ UNCHANGED Delivery!vars
  BY <1>5, RoutesMap
<1>6. ASSUME NEW i \in RunnerIds, CatchUp(i)
      PROVE  UNCHANGED <<disp, task, at, named, woken>>
  BY <1>6 DEF CatchUp
<1>7. UNCHANGED vars => UNCHANGED <<disp, task, at, named, woken>>
  BY DEF vars
<1> QED
  BY <1>1, <1>2, <1>3, <1>4, <1>5, <1>6, <1>7 DEF Next

\* The dispatcher implements WakeDelivery: an answered dispatch has delivered its
\* wake, and the wake has reached a running container launched for the user of the
\* run, but for addresses that the user's callers gave or that a stopped container
\* of the user had (runner-dispatcher.ts:108-156).
THEOREM Implements == Spec => DeliversWakes
<1>1. Init => Delivery!Init
  BY InitMaps
<1>2. IInv /\ [Next]_vars => [Delivery!Next]_(Delivery!vars)
  BY NextMaps
<1> QED
  BY <1>1, <1>2, Invariance, PTL DEF Spec, DeliversWakes, Delivery!Spec

=============================================================================
