---------------------------- MODULE RecordsProofs ----------------------------
(***************************************************************************)
(* Proofs about Records, for any number of requests, callers, records,     *)
(* agents and events, and any page size.  The inductive invariant IInv     *)
(* says of every request what its handler knows when it stands between two *)
(* calls (Facts), and of every table what its rows agree with.  A step     *)
(* moves one request and changes at most one table, so the proof has a     *)
(* lemma for steps that only read, one for each table that is written, and *)
(* what a step leaves alone is carried over by the relation Kept.          *)
(***************************************************************************)
EXTENDS Records, FiniteSetTheorems, WellFoundedInduction, TLAPS

-----------------------------------------------------------------------------
(***************************************************************************)
(* Pages of a log.                                                         *)
(***************************************************************************)
LEMMA LeastNatural ==
    ASSUME NEW T, T \subseteq Nat, T # {}
    PROVE  \E i \in T : \A j \in T : i <= j
<1>1. IsWellFoundedOn(OpToRel(<, Nat), Nat)
  BY NatLessThanWellFounded
<1>2. PICK i \in T : \A j \in T : ~(<<j, i>> \in OpToRel(<, Nat))
  BY <1>1, WFMin
<1>3. \A k, j \in Nat : j < k => <<j, k>> \in OpToRel(<, Nat)
  BY DEF OpToRel
<1>4. \A j \in T : ~(j < i)
  BY <1>2, <1>3
<1>5. \A j \in T : i <= j
  BY <1>4
<1> QED
  BY <1>5

Positioned(S) == IsFiniteSet(S) /\ \A e \in S : e.seq \in Nat

LEMMA FirstEvent ==
    ASSUME NEW S, Positioned(S), S # {}
    PROVE  \E e \in S : \A f \in S : e.seq <= f.seq
<1> DEFINE T == {e.seq : e \in S}
<1>1. T \subseteq Nat /\ T # {}
  BY DEF Positioned
<1>2. PICK n \in T : \A j \in T : n <= j
  BY <1>1, LeastNatural
<1> QED
  BY <1>2

\* A finite, nonempty set of events has a last one: the one that the fewest
\* others come after.
LEMMA LastEvent ==
    ASSUME NEW S, Positioned(S), S # {}
    PROVE  \E e \in S : \A f \in S : f.seq <= e.seq
<1> DEFINE Above(e) == {f \in S : f.seq > e.seq}
           rank == [e \in S |-> Cardinality(Above(e))]
           T == {rank[e] : e \in S}
<1>1. \A e \in S : IsFiniteSet(Above(e)) /\ rank[e] \in Nat
  <2>1. \A e \in S : Above(e) \in SUBSET S
    OBVIOUS
  <2>2. \A e \in S : IsFiniteSet(Above(e))
    BY <2>1, FS_Subset DEF Positioned
  <2>3. \A e \in S : Cardinality(Above(e)) \in Nat
    BY <2>2, FS_CardinalityType
  <2> HIDE DEF Above
  <2> QED
    BY <2>2, <2>3
<1>2. \A e, f \in S : e.seq < f.seq => rank[f] < rank[e]
  <2> SUFFICES ASSUME NEW e \in S, NEW f \in S, e.seq < f.seq
               PROVE  rank[f] < rank[e]
    OBVIOUS
  <2>1. e.seq \in Nat /\ f.seq \in Nat /\ \A g \in S : g.seq \in Nat
    BY DEF Positioned
  <2>2. Above(f) \in SUBSET Above(e) /\ f \in Above(e) /\ f \notin Above(f)
    BY <2>1
  <2>3. rank[f] = Cardinality(Above(f)) /\ rank[e] = Cardinality(Above(e))
    OBVIOUS
  <2> HIDE DEF Above, rank
  <2>4. rank[f] <= rank[e] /\ rank[f] # rank[e]
    BY <1>1, <2>2, <2>3, FS_Subset
  <2> QED
    BY <1>1, <2>4
<1> HIDE DEF rank
<1>3. T \subseteq Nat /\ T # {}
  BY <1>1
<1>4. PICK n \in T : \A j \in T : n <= j
  BY <1>3, LeastNatural
<1>5. PICK e \in S : n = rank[e]
  BY <1>4
<1>6. ASSUME NEW f \in S PROVE f.seq <= e.seq
  <2>1. f.seq \in Nat /\ e.seq \in Nat
    BY DEF Positioned
  <2>2. rank[e] <= rank[f] /\ rank[e] \in Nat /\ rank[f] \in Nat
    BY <1>1, <1>4, <1>5
  <2>3. ~(rank[f] < rank[e])
    BY <2>2
  <2> QED
    BY <1>2, <2>1, <2>3
<1> QED
  BY <1>6

\* The position that SummarizeRun and NextEventSeq choose is that of the last
\* event of a page (query-runs.ts:123-151, handlers.ts:998-1017).
LEMMA LastPosition ==
    ASSUME NEW S, Positioned(S), S # {}
    PROVE  LET n == CHOOSE n \in {e.seq : e \in S} : \A e \in S : e.seq <= n
           IN  n \in Nat /\ (\E e \in S : e.seq = n) /\ \A e \in S : e.seq <= n
<1> DEFINE T == {e.seq : e \in S}
<1>1. \E n \in T : \A e \in S : e.seq <= n
  BY LastEvent
<1>2. PICK n : n = CHOOSE m \in T : \A e \in S : e.seq <= m
  OBVIOUS
<1>3. n \in T /\ \A e \in S : e.seq <= n
  BY <1>1, <1>2
<1> QED
  BY <1>2, <1>3 DEF Positioned

\* What a page of limited size holds: ListEvents is a page of the later events.
Before(S, e) == {f \in S : f.seq < e.seq}

Page(S) == {e \in S : Cardinality(Before(S, e)) < PageSize}

Later(r, after) == {e \in log[r] : e.seq > after}

LEMMA ListIsPage ==
    ASSUME NEW r, NEW after
    PROVE  ListEvents(r, after) = Page(Later(r, after))
BY DEF ListEvents, Page, Later, Before

\* Positions of a log are taken once.
Distinct(S) == Positioned(S) /\ \A e \in S : \A f \in S : f.seq = e.seq => f = e

LEMMA BeforeIsSmall ==
    ASSUME NEW S, Positioned(S), NEW e
    PROVE  /\ IsFiniteSet(Before(S, e)) /\ Cardinality(Before(S, e)) \in Nat
           /\ IsFiniteSet(Page(S)) /\ Cardinality(Page(S)) \in Nat
<1>1. Before(S, e) \in SUBSET S /\ Page(S) \in SUBSET S
  BY DEF Before, Page
<1>2. IsFiniteSet(Before(S, e)) /\ IsFiniteSet(Page(S))
  BY <1>1, FS_Subset DEF Positioned
<1> QED
  BY <1>2, FS_CardinalityType

\* A page has every event that is before one of its events.
LEMMA PageHasNoGap ==
    ASSUME NEW S, Positioned(S), NEW e \in S, NEW f \in Page(S), e.seq <= f.seq
    PROVE  e \in Page(S)
<1>1. f \in S /\ e.seq \in Nat /\ f.seq \in Nat /\ \A g \in S : g.seq \in Nat
  BY DEF Page, Positioned
<1>2. Before(S, e) \in SUBSET Before(S, f)
  BY <1>1 DEF Before
<1>3. Cardinality(Before(S, e)) <= Cardinality(Before(S, f))
  BY <1>2, BeforeIsSmall, FS_Subset
<1>4. Cardinality(Before(S, e)) \in Nat /\ Cardinality(Before(S, f)) \in Nat
  BY BeforeIsSmall
<1>5. Cardinality(Before(S, f)) < PageSize
  BY DEF Page
<1> QED
  BY <1>3, <1>4, <1>5, RecordsAssumption DEF Page

\* A page that leaves something out is full.
LEMMA PageIsFull ==
    ASSUME NEW S, Distinct(S), Page(S) # S
    PROVE  Cardinality(Page(S)) = PageSize
<1>1. PICK m \in S \ Page(S) : \A f \in S \ Page(S) : m.seq <= f.seq
  <2>1. S \ Page(S) # {} /\ S \ Page(S) \in SUBSET S
    BY DEF Page
  <2>2. Positioned(S \ Page(S))
    BY <2>1, FS_Subset DEF Distinct, Positioned
  <2> QED
    BY <2>1, <2>2, FirstEvent
<1>2. \A g \in S : g.seq \in Nat
  BY DEF Distinct, Positioned
<1>3. Before(S, m) = Page(S)
  <2>1. ASSUME NEW f \in Before(S, m) PROVE f \in Page(S)
    BY <1>1, <1>2 DEF Before
  <2>2. ASSUME NEW f \in Page(S) PROVE f \in Before(S, m)
    <3>1. f \in S /\ ~(m.seq <= f.seq)
      BY <1>1, PageHasNoGap DEF Page, Distinct
    <3> QED
      BY <1>1, <1>2, <3>1 DEF Before
  <2> QED
    BY <2>1, <2>2
<1>4. Cardinality(Page(S)) \in Nat /\ PageSize \in Nat \ {0}
  BY BeforeIsSmall, RecordsAssumption DEF Distinct
<1>5. ~(Cardinality(Page(S)) < PageSize)
  BY <1>1, <1>3 DEF Page
<1>6. Cardinality(Page(S)) <= PageSize
  <2>1. CASE Page(S) = {}
    BY <1>4, <2>1, FS_EmptySet
  <2>2. CASE Page(S) # {}
    <3>1. Positioned(Page(S)) /\ Page(S) \subseteq S
      BY BeforeIsSmall DEF Distinct, Positioned, Page
    <3>2. PICK x \in Page(S) : \A f \in Page(S) : f.seq <= x.seq
      BY <2>2, <3>1, LastEvent
    <3>3. Before(S, x) = Page(S) \ {x}
      <4>1. ASSUME NEW f \in Before(S, x) PROVE f \in Page(S) \ {x}
        <5>1. f \in S /\ x \in S /\ f.seq < x.seq
          BY <3>1 DEF Before
        <5> QED
          BY <1>2, <5>1, PageHasNoGap DEF Distinct
      <4>2. ASSUME NEW f \in Page(S) \ {x} PROVE f \in Before(S, x)
        <5>1. f \in S /\ x \in S /\ f.seq <= x.seq /\ f.seq # x.seq
          BY <3>1, <3>2 DEF Distinct
        <5> QED
          BY <1>2, <5>1 DEF Before
      <4> QED
        BY <4>1, <4>2
    <3>4. Cardinality(Page(S) \ {x}) = Cardinality(Page(S)) - 1
      BY <3>1, FS_RemoveElement DEF Positioned
    <3>5. Cardinality(Before(S, x)) < PageSize
      BY DEF Page
    <3> QED
      BY <1>4, <3>3, <3>4, <3>5
  <2> QED
    BY <2>1, <2>2
<1> QED
  BY <1>4, <1>5, <1>6

-----------------------------------------------------------------------------
(***************************************************************************)
(* What a request's handler knows.                                         *)
(***************************************************************************)
SurfaceOrSource == {"createSurface", "createDataSourceRef"}

\* What a valid request carries.
Fields(q) ==
    q.pc \notin {"idle", "forbidden", "badRequest"} =>
        /\ q.op = "createWorkItem" => q.value \in Keys \union {None}
        /\ q.op = "createWorkItemRun" => q.item \in WorkIds /\ q.value \in Keys \union {None}
        /\ q.op = "updateWorkItemStatus" => q.item \in WorkIds
        /\ q.op \in {"createApproval", "userEngagement"} => q.run \in WorkIds
        /\ q.op = "createSurface" => q.value \in SurfaceStatuses
        /\ q.op = "createDataSourceRef" => q.run # None \/ q.item # None
        /\ q.op \in {"decideApproval", "updateSurface", "publishSurface"} =>
             q.target \in Requests
        /\ q.op = "publishSurface" => q.value \in Urls \union {None}
        /\ q.op \in {"createAgentProfileDraft", "approveAgentProfileVersion"} =>
             q.target \in ProfileKeys
        /\ q.op = "createAgentProfileDraft" => q.target[1] = q.ws /\ q.value \in Contents
        /\ q.op \in AdminOnly => q.target \in Hosts
        /\ q.op = "registerHostNode" => q.value \in Placements
        /\ q.op = "heartbeatHostNode" => q.value \in (Statuses \ {Blank}) \union {None}

\* Where a handler stands after it found the run, or the work item, its caller's.
RunChecked(q) ==
    \/ q.op = "createApproval" /\ q.pc \in {"put", "created", "ok", "accepted"}
    \/ q.op = "userEngagement" /\ q.pc \in {"page", "event", "created", "ok", "accepted"}
    \/ /\ q.op \in SurfaceOrSource /\ q.run # None
       /\ q.pc \in {"item", "put", "created", "ok", "accepted"}

ItemChecked(q) ==
    \/ q.op = "updateWorkItemStatus" /\ q.pc = "update"
    \/ q.op = "createWorkItemRun" /\ q.pc \in {"ledger", "created", "ok", "accepted"}
    \/ /\ q.op \in SurfaceOrSource /\ q.item # None
       /\ q.pc \in {"put", "created", "ok", "accepted"}

Checked(q) ==
    /\ RunChecked(q) => OwnsRun(q)
    /\ ItemChecked(q) => OwnsItem(q)

\* What is there when the handler comes to its write.
Awaited(q) ==
    /\ q.op = "updateWorkItemStatus" /\ q.pc = "update" => q.value \in WorkStatuses
    /\ q.op = "decideApproval" /\ q.pc = "update" =>
         approvals[q.target] # None /\ q.value \in {"approved", "rejected"}
    /\ q.op = "decideApproval" /\ q.pc = "conflict" =>
         approvals[q.target] # None /\ approvals[q.target].status # "requested"
    /\ q.op \in {"updateSurface", "publishSurface"} /\ q.pc = "update" =>
         surfaces[q.target] # None
    /\ q.op = "updateSurface" /\ q.pc = "update" =>
         q.value \in SurfaceStatuses \union {None}
    /\ q.op = "createAgentProfileDraft" /\ q.pc \in {"put", "created", "ok", "accepted"} =>
         bundles[q.target] # None
    /\ q.op = "approveAgentProfileVersion" /\ q.pc \in {"bundle", "update"} =>
         /\ q.row \in AgentProfileRecord /\ profiles[q.target] # None
         /\ profiles[q.target].profile.content = q.row.profile.content
    /\ q.op \in AdminOnly /\ q.pc = "put" =>
         /\ q.row \in HostNodeRecord \union {None}
         /\ q.op = "heartbeatHostNode" => q.row # None
         /\ q.row # None => q.row.placementStatus = <<q.row.placement, q.row.status>>

\* What is there for good when the caller is answered.
IdOf(c, q) == IF q.value = None THEN c ELSE Scope(q)

SameOwner(row, q) == row # None /\ row.user = q.user /\ row.ws = q.ws

Answered(c, q) ==
    /\ q.op = "createWorkItem" /\ q.pc \in {"created", "ok", "accepted"} =>
         items[IdOf(c, q)] # None
    /\ q.op = "createWorkItemRun" /\ q.pc \in {"created", "ok", "accepted"} =>
         runs[IdOf(c, q)] # None
    /\ q.op = "createApproval" /\ q.pc \in {"created", "ok", "accepted"} =>
         SameOwner(approvals[c], q) /\ approvals[c].run = q.run
    /\ q.op = "createSurface" /\ q.pc \in {"created", "ok", "accepted"} =>
         /\ SameOwner(surfaces[c], q)
         /\ surfaces[c].run = q.run /\ surfaces[c].item = q.item
    /\ q.op = "createDataSourceRef" /\ q.pc \in {"created", "ok", "accepted"} =>
         /\ SameOwner(sources[c], q)
         /\ sources[c].run = q.run /\ sources[c].item = q.item
    /\ q.op = "createAgentProfileDraft" /\ q.pc \in {"created", "ok", "accepted"} =>
         profiles[q.target] # None /\ profiles[q.target].user = q.user
    /\ q.op = "userEngagement" /\ q.pc \in {"created", "ok", "accepted"} =>
         [seq |-> q.latest + 1, by |-> c] \in log[q.run]

Facts(c, q) == Fields(q) /\ Checked(q) /\ Awaited(q) /\ Answered(c, q)

-----------------------------------------------------------------------------
(***************************************************************************)
(* What the rows of a table agree with.                                    *)
(***************************************************************************)

\* A row's id is that of its owner's key, or of the request that stored it.
Keyed(table) ==
    \A i \in WorkIds : table[i] # None =>
        /\ i \in Scopes => table[i].user = i[1] /\ table[i].ws = i[2]
        /\ i \in Requests => req[i].pc # "idle" /\ SameOwner(table[i], req[i])

ItemsOk ==
    /\ items \in [WorkIds -> WorkItemRecord \union {None}]
    /\ Keyed(items)
    /\ \A i \in WorkIds :
         items[i] # None => items[i].wsStatus = <<items[i].ws, items[i].status>>

RunsOk ==
    /\ runs \in [WorkIds -> RunRecord \union {None}]
    /\ Keyed(runs)
    /\ \A r \in WorkIds : runs[r] # None => ItemIsOwned(runs[r])

ApprovalsOk ==
    /\ approvals \in [Requests -> ApprovalRecord \union {None}]
    /\ \A c \in Requests : approvals[c] # None =>
         /\ RunIsOwned(approvals[c])
         /\ approvals[c].status = "requested" <=> approvals[c].decidedBy = None

SurfacesOk ==
    /\ surfaces \in [Requests -> SurfaceRecord \union {None}]
    /\ \A c \in Requests : surfaces[c] # None =>
         /\ RunIsOwned(surfaces[c]) /\ ItemIsOwned(surfaces[c])
         /\ surfaces[c].wsStatus = <<surfaces[c].ws, surfaces[c].status>>

SourcesOk ==
    /\ sources \in [Requests -> DataSourceRefRecord \union {None}]
    /\ \A c \in Requests : sources[c] # None =>
         RunIsOwned(sources[c]) /\ ItemIsOwned(sources[c])

ProfilesOk ==
    /\ profiles \in [ProfileKeys -> AgentProfileRecord \union {None}]
    /\ bundles \in [ProfileKeys -> AgentProfileVersion \union {None}]
    /\ RowsHaveBundles

HostsOk ==
    /\ hosts \in [Hosts -> HostNodeRecord \union {None}]
    /\ \A h \in Hosts : hosts[h] # None =>
         hosts[h].placementStatus = <<hosts[h].placement, hosts[h].status>>

\* An artifact has its run's user and workspace and, if any, its work item.
ArtifactsOk ==
    /\ artifacts \subseteq ArtifactRecord
    /\ \A x \in artifacts :
         /\ SameOwner(runs[x.run], x)
         /\ x.item # None => x.item = runs[x.run].item

\* A log is finite, and each of its positions, from 1 on, is taken once.
LogOk ==
    /\ log \in [WorkIds -> SUBSET EventRecord]
    /\ \A r \in WorkIds :
         /\ IsFiniteSet(log[r])
         /\ \A e \in log[r] : e.seq # 0 /\ \A f \in log[r] : f.seq = e.seq => f = e

RequestsOk ==
    /\ req \in [Requests -> RequestType]
    /\ \A c \in Requests : Facts(c, req[c])

IInv ==
    /\ scenario \in Scenarios /\ RequestsOk
    /\ ItemsOk /\ RunsOk
    /\ ApprovalsOk /\ SurfacesOk /\ SourcesOk
    /\ ProfilesOk /\ HostsOk
    /\ ArtifactsOk /\ LogOk

-----------------------------------------------------------------------------
(***************************************************************************)
(* What no step takes back.                                                *)
(***************************************************************************)
SameOwnerAs(new, old) == new # None /\ new.user = old.user /\ new.ws = old.ws

Kept ==
    /\ \A d \in Requests : req[d].pc # "idle" =>
         req'[d].pc # "idle" /\ req'[d].user = req[d].user /\ req'[d].ws = req[d].ws
    /\ \A i \in WorkIds : items[i] # None => SameOwnerAs(items'[i], items[i])
    /\ \A r \in WorkIds : runs[r] # None => runs'[r] = runs[r]
    /\ \A x \in Requests : approvals[x] # None =>
         /\ SameOwnerAs(approvals'[x], approvals[x])
         /\ approvals'[x].run = approvals[x].run
         /\ approvals[x].status # "requested" => approvals'[x].status # "requested"
    /\ \A x \in Requests : surfaces[x] # None =>
         /\ SameOwnerAs(surfaces'[x], surfaces[x])
         /\ surfaces'[x].run = surfaces[x].run /\ surfaces'[x].item = surfaces[x].item
    /\ \A x \in Requests : sources[x] # None => sources'[x] = sources[x]
    /\ \A p \in ProfileKeys : bundles[p] # None => bundles'[p] # None
    /\ \A p \in ProfileKeys : profiles[p] # None =>
         /\ profiles'[p] # None /\ profiles'[p].user = profiles[p].user
         /\ profiles'[p].profile.content = profiles[p].profile.content
    /\ \A r \in WorkIds : log[r] \subseteq log'[r]

\* What a handler knows of the tables stays true while others write them: it
\* is enough that rows stay with their owners and links (the awaits of every
\* handler, e.g. approvals.ts:42-69).
LEMMA OwnedStays ==
    ASSUME Kept, NEW q,
           q.run \in WorkIds \union {None}, q.item \in WorkIds \union {None}
    PROVE  /\ q.run # None /\ OwnsRun(q) => OwnsRun(q)'
           /\ q.item # None /\ OwnsItem(q) => OwnsItem(q)'
<1>1. ASSUME q.run # None, OwnsRun(q)
      PROVE  OwnsRun(q)'
  BY <1>1 DEF Kept, OwnsRun, OwnedBy, GetRunById
<1>2. ASSUME q.item # None, OwnsItem(q)
      PROVE  OwnsItem(q)'
  <2>1. items[q.item] # None /\ items[q.item].ws = q.ws /\ items[q.item].user = q.user
    BY <1>2 DEF OwnsItem, OwnedBy, GetWorkItem, ByKey
  <2>2. SameOwnerAs(items'[q.item], items[q.item])
    BY <1>2, <2>1 DEF Kept
  <2> QED
    BY <2>1, <2>2 DEF OwnsItem, OwnedBy, GetWorkItem, ByKey, SameOwnerAs
<1> QED
  BY <1>1, <1>2

LEMMA FactsStay ==
    ASSUME Kept, NEW c \in Requests, NEW q \in RequestType, Facts(c, q)
    PROVE  Facts(c, q)'
<1> USE RecordsAssumption
<1>1. /\ q.run \in WorkIds \union {None} /\ q.item \in WorkIds \union {None}
      /\ q.user \in Users /\ q.ws \in Workspaces
  BY DEF RequestType
<1>2. Fields(q) /\ Fields(q)'
  BY DEF Facts, Fields
<1>3. Checked(q)'
  <2>1. RunChecked(q) => q.run # None
    BY <1>2 DEF RunChecked, Fields
  <2>2. ItemChecked(q) => q.item # None
    BY <1>2 DEF ItemChecked, Fields
  <2> QED
    BY <1>1, <2>1, <2>2, OwnedStays DEF Facts, Checked, RunChecked, ItemChecked
<1>4. Awaited(q)'
  BY <1>2 DEF Facts, Fields, Awaited, Kept, SameOwnerAs, AdminOnly
<1>5. Answered(c, q)'
  <2>1. q.op = "createWorkItem" /\ q.pc \in {"created", "ok", "accepted"} => IdOf(c, q) \in WorkIds
    BY <1>1, <1>2 DEF Fields, IdOf, Scope, WorkIds, Scopes
  <2>2. q.op = "createWorkItemRun" /\ q.pc \in {"created", "ok", "accepted"} => IdOf(c, q) \in WorkIds
    BY <1>1, <1>2 DEF Fields, IdOf, Scope, WorkIds, Scopes
  <2>3. Answered(c, q)
    BY DEF Facts
  <2>4. (q.op = "createWorkItem" /\ q.pc \in {"created", "ok", "accepted"} => items[IdOf(c, q)] # None)'
    BY <2>1, <2>3 DEF Answered, Kept, SameOwnerAs, IdOf, Scope
  <2>5. (q.op = "createWorkItemRun" /\ q.pc \in {"created", "ok", "accepted"} => runs[IdOf(c, q)] # None)'
    BY <2>2, <2>3 DEF Answered, Kept, IdOf, Scope
  <2>6. (q.op = "createApproval" /\ q.pc \in {"created", "ok", "accepted"} =>
           SameOwner(approvals[c], q) /\ approvals[c].run = q.run)'
    BY <2>3 DEF Answered, Kept, SameOwnerAs, SameOwner
  <2>7. (q.op = "createSurface" /\ q.pc \in {"created", "ok", "accepted"} =>
           /\ SameOwner(surfaces[c], q)
           /\ surfaces[c].run = q.run /\ surfaces[c].item = q.item)'
    BY <2>3 DEF Answered, Kept, SameOwnerAs, SameOwner
  <2>8. (q.op = "createDataSourceRef" /\ q.pc \in {"created", "ok", "accepted"} =>
           /\ SameOwner(sources[c], q)
           /\ sources[c].run = q.run /\ sources[c].item = q.item)'
    BY <2>3 DEF Answered, Kept, SameOwner
  <2>9. (q.op = "createAgentProfileDraft" /\ q.pc \in {"created", "ok", "accepted"} =>
           profiles[q.target] # None /\ profiles[q.target].user = q.user)'
    BY <1>2, <2>3 DEF Answered, Kept, Fields
  <2>10. (q.op = "userEngagement" /\ q.pc \in {"created", "ok", "accepted"} =>
           [seq |-> q.latest + 1, by |-> c] \in log[q.run])'
    BY <1>2, <2>3 DEF Answered, Kept, Fields
  <2> QED
    BY <2>4, <2>5, <2>6, <2>7, <2>8, <2>9, <2>10 DEF Answered
<1> QED
  BY <1>2, <1>3, <1>4, <1>5 DEF Facts

\* A row whose run and item are its owner's stays such a row.
LEMMA LinksStay ==
    ASSUME Kept, NEW row,
           row.run \in WorkIds \union {None}, row.item \in WorkIds \union {None}
    PROVE  /\ RunIsOwned(row) => RunIsOwned(row)'
           /\ ItemIsOwned(row) => ItemIsOwned(row)'
<1>1. RunIsOwned(row) => RunIsOwned(row)'
  BY DEF Kept, RunIsOwned, OwnedBy
<1>2. ItemIsOwned(row) => ItemIsOwned(row)'
  BY DEF Kept, ItemIsOwned, OwnedBy, GetWorkItem, ByKey, SameOwnerAs
<1> QED
  BY <1>1, <1>2

LEMMA RunLinkStays ==
    ASSUME Kept, NEW row, row.run \in WorkIds, RunIsOwned(row)
    PROVE  RunIsOwned(row)'
BY DEF Kept, RunIsOwned, OwnedBy

LEMMA ItemLinkStays ==
    ASSUME Kept, NEW row, row.item \in WorkIds \union {None}, ItemIsOwned(row)
    PROVE  ItemIsOwned(row)'
BY DEF Kept, ItemIsOwned, OwnedBy, GetWorkItem, ByKey, SameOwnerAs

\* A table that a step does not write stays consistent with those it writes.
LEMMA WorkStays ==
    ASSUME IInv, Kept
    PROVE  /\ items' = items => ItemsOk'
           /\ runs' = runs => RunsOk'
<1>1. \A i \in Requests : req[i].pc # "idle" =>
        req'[i].pc # "idle" /\ req'[i].user = req[i].user /\ req'[i].ws = req[i].ws
  BY DEF Kept
<1>2. ASSUME items' = items PROVE ItemsOk'
  <2>1. Keyed(items)'
    BY <1>1, <1>2 DEF IInv, ItemsOk, Keyed, SameOwner
  <2> QED
    BY <1>2, <2>1 DEF IInv, ItemsOk
<1>3. ASSUME runs' = runs PROVE RunsOk'
  <2>1. Keyed(runs)'
    BY <1>1, <1>3 DEF IInv, RunsOk, Keyed, SameOwner
  <2>2. ASSUME NEW r \in WorkIds, runs'[r] # None PROVE ItemIsOwned(runs[r])'
    <3>1. PICK row : row = runs[r]
      OBVIOUS
    <3>2. row \in RunRecord /\ ItemIsOwned(row)
      BY <1>3, <2>2, <3>1 DEF IInv, RunsOk
    <3>3. ItemIsOwned(row)'
      BY <3>2, ItemLinkStays DEF RunRecord
    <3> QED
      BY <1>3, <3>1, <3>3 DEF ItemIsOwned
  <2> QED
    BY <1>3, <2>1, <2>2 DEF IInv, RunsOk
<1> QED
  BY <1>2, <1>3

LEMMA LinksTablesStay ==
    ASSUME IInv, Kept
    PROVE  /\ approvals' = approvals => ApprovalsOk'
           /\ surfaces' = surfaces => SurfacesOk'
           /\ sources' = sources => SourcesOk'
<1>1. ASSUME approvals' = approvals PROVE ApprovalsOk'
  <2>1. ASSUME NEW c \in Requests, approvals[c] # None PROVE RunIsOwned(approvals[c])'
    <3>1. PICK row : row = approvals[c]
      OBVIOUS
    <3>2. row \in ApprovalRecord /\ RunIsOwned(row)
      BY <2>1, <3>1 DEF IInv, ApprovalsOk
    <3>3. RunIsOwned(row)'
      BY <3>2, RunLinkStays DEF ApprovalRecord
    <3> QED
      BY <1>1, <3>1, <3>3 DEF RunIsOwned
  <2> QED
    BY <1>1, <2>1 DEF IInv, ApprovalsOk
<1>2. ASSUME surfaces' = surfaces PROVE SurfacesOk'
  <2>1. ASSUME NEW c \in Requests, surfaces[c] # None
        PROVE  RunIsOwned(surfaces[c])' /\ ItemIsOwned(surfaces[c])'
    <3>1. PICK row : row = surfaces[c]
      OBVIOUS
    <3>2. row \in SurfaceRecord /\ RunIsOwned(row) /\ ItemIsOwned(row)
      BY <2>1, <3>1 DEF IInv, SurfacesOk
    <3>3. RunIsOwned(row)' /\ ItemIsOwned(row)'
      BY <3>2, LinksStay DEF SurfaceRecord
    <3> QED
      BY <1>2, <3>1, <3>3 DEF RunIsOwned, ItemIsOwned
  <2> QED
    BY <1>2, <2>1 DEF IInv, SurfacesOk
<1>3. ASSUME sources' = sources PROVE SourcesOk'
  <2>1. ASSUME NEW c \in Requests, sources[c] # None
        PROVE  RunIsOwned(sources[c])' /\ ItemIsOwned(sources[c])'
    <3>1. PICK row : row = sources[c]
      OBVIOUS
    <3>2. row \in DataSourceRefRecord /\ RunIsOwned(row) /\ ItemIsOwned(row)
      BY <2>1, <3>1 DEF IInv, SourcesOk
    <3>3. RunIsOwned(row)' /\ ItemIsOwned(row)'
      BY <3>2, LinksStay DEF DataSourceRefRecord
    <3> QED
      BY <1>3, <3>1, <3>3 DEF RunIsOwned, ItemIsOwned
  <2> QED
    BY <1>3, <2>1 DEF IInv, SourcesOk
<1> QED
  BY <1>1, <1>2, <1>3

LEMMA OtherTablesStay ==
    ASSUME IInv, Kept
    PROVE  /\ UNCHANGED <<profiles, bundles>> => ProfilesOk'
           /\ hosts' = hosts => HostsOk'
           /\ artifacts' = artifacts => ArtifactsOk'
           /\ log' = log => LogOk'
<1>1. UNCHANGED <<profiles, bundles>> => ProfilesOk'
  BY DEF IInv, ProfilesOk, RowsHaveBundles
<1>2. hosts' = hosts => HostsOk'
  BY DEF IInv, HostsOk
<1>3. artifacts' = artifacts => ArtifactsOk'
  BY DEF IInv, ArtifactsOk, Kept, SameOwner, ArtifactRecord
<1>4. log' = log => LogOk'
  BY DEF IInv, LogOk
<1> QED
  BY <1>1, <1>2, <1>3, <1>4

-----------------------------------------------------------------------------
(***************************************************************************)
(* Steps.  ChangesAsked is an action property: ChangesStep says it of one  *)
(* step.                                                                   *)
(***************************************************************************)
SettledStep == \A x \in Requests : Settled(x) => Settled(x)' /\ approvals'[x] = approvals[x]

StatusStep ==
    \A i \in WorkIds :
        items[i] # None /\ items'[i] # items[i] =>
            \E c \in Requests :
              /\ At(c, "updateWorkItemStatus", "update") /\ req[c].item = i
              /\ req[c].user = items[i].user /\ items'[i].status = req[c].value

UrlStep ==
    \A c \in Requests :
        surfaces[c] # None /\ surfaces[c].url # None => surfaces'[c].url # None

ApprovalStep ==
    \A p \in ProfileKeys :
        profiles[p] # None /\ profiles[p].profile.state = "approved" =>
            profiles'[p] = profiles[p]

ChangesStep == SettledStep /\ StatusStep /\ UrlStep /\ ApprovalStep

\* A decision that is about to be stored.
Decides(q) == q.op = "decideApproval" /\ q.pc = "update"

\* A step that changes no approval keeps every settled one settled, unless it
\* lets a decision pass: the check lets it pass only where the approval is open
\* (approvals.ts:126-133).
LEMMA SettledKept ==
    ASSUME NEW c \in Requests, NEW q, req \in [Requests -> RequestType],
           req' = [req EXCEPT ![c] = q], approvals' = approvals,
           Decides(q) => approvals[q.target].status = "requested"
    PROVE  SettledStep
BY DEF SettledStep, Settled, At, Decides

\* The request that moves, and its handler's new knowledge.
LEMMA OneMoves ==
    ASSUME IInv, NEW c \in Requests, NEW q \in RequestType,
           req' = [req EXCEPT ![c] = q], Kept, Facts(c, q)'
    PROVE  RequestsOk'
<1>1. req' \in [Requests -> RequestType]
  BY DEF IInv, RequestsOk
<1>2. ASSUME NEW d \in Requests PROVE Facts(d, req[d])'
  <2>1. CASE d = c
    BY <2>1 DEF IInv, RequestsOk, Facts, Fields, Checked, RunChecked, ItemChecked, Awaited,
                Answered, IdOf, Scope, OwnsRun, OwnsItem, SameOwner
  <2>2. CASE d # c
    <3>1. PICK p : p = req[d]
      OBVIOUS
    <3>2. p \in RequestType /\ Facts(d, p) /\ req'[d] = p
      BY <2>2, <3>1 DEF IInv, RequestsOk
    <3>3. Facts(d, p)'
      BY <3>2, FactsStay
    <3> QED
      BY <3>2, <3>3 DEF Facts, Fields, Checked, RunChecked, ItemChecked, Awaited,
                        Answered, IdOf, Scope, OwnsRun, OwnsItem, SameOwner
  <2> QED
    BY <2>1, <2>2
<1> QED
  BY <1>1, <1>2 DEF RequestsOk

\* A step that writes no table.
LEMMA OnlyMoves ==
    ASSUME IInv, NEW c \in Requests, NEW q \in RequestType,
           req' = [req EXCEPT ![c] = q], UNCHANGED <<tables, scenario>>,
           q.pc # "idle",
           req[c].pc # "idle" => q.user = req[c].user /\ q.ws = req[c].ws,
           Decides(q) => approvals[q.target].status = "requested",
           Facts(c, q)
    PROVE  IInv' /\ ChangesStep
<1>1. UNCHANGED <<items, runs, approvals, surfaces, sources, profiles, bundles, hosts, log,
                  artifacts, scenario>>
  BY DEF tables, work, links, registry, ledger
<1>2. Kept
  BY <1>1 DEF IInv, RequestsOk, Kept, SameOwnerAs
<1>3. RequestsOk'
  BY <1>2, FactsStay, OneMoves
<1>4. IInv'
  BY <1>1, <1>2, <1>3, WorkStays, LinksTablesStay, OtherTablesStay DEF IInv
<1>5. SettledStep
  BY <1>1, SettledKept DEF IInv, RequestsOk
<1> QED
  BY <1>1, <1>4, <1>5 DEF ChangesStep, StatusStep, UrlStep, ApprovalStep

\* A request at another program counter, which still carries what it carried.
Refusals == {"badRequest", "forbidden", "notFound", "conflict", "error"}
Answers == {"created", "ok", "accepted"}

LEMMA AtAnotherPc ==
    ASSUME IInv, NEW c \in Requests, req[c].pc \in Working,
           NEW pc \in Working \union Refusals \union Answers,
           NEW q, q = [req[c] EXCEPT !.pc = pc]
    PROVE  /\ q \in RequestType /\ q.pc = pc /\ pc # "idle" /\ req[c].pc # "idle"
           /\ q.op = req[c].op /\ q.user = req[c].user /\ q.ws = req[c].ws
           /\ q.run = req[c].run /\ q.item = req[c].item /\ q.target = req[c].target
           /\ q.value = req[c].value /\ q.row = req[c].row /\ q.latest = req[c].latest
           /\ Fields(q)
<1> DEFINE p == req[c]
<1>1. p \in RequestType /\ Facts(c, p) /\ p.pc \in Working
  BY DEF IInv, RequestsOk
<1> HIDE DEF p
<1>2. q = [p EXCEPT !.pc = pc]
  BY DEF p
<1>3. /\ q \in RequestType /\ q.pc = pc
      /\ q.op = p.op /\ q.user = p.user /\ q.ws = p.ws
      /\ q.run = p.run /\ q.item = p.item /\ q.target = p.target
      /\ q.value = p.value /\ q.row = p.row /\ q.latest = p.latest
  BY <1>1, <1>2 DEF RequestType, Refusals, Answers
<1>4. pc # "idle" /\ p.pc \notin {"idle", "forbidden", "badRequest"}
  BY <1>1 DEF Working, Refusals, Answers
<1>5. Fields(q)
  BY <1>1, <1>3, <1>4 DEF Facts, Fields
<1> QED
  BY <1>3, <1>4, <1>5 DEF p

\* A refusal, or an invocation that ends.
LEMMA Stops ==
    ASSUME IInv, NEW c \in Requests, req[c].pc \in Working,
           NEW pc \in {"badRequest", "forbidden", "notFound", "error"},
           Goto(c, pc), UNCHANGED <<tables, scenario>>
    PROVE  IInv' /\ ChangesStep
<1>1. PICK q : q = [req[c] EXCEPT !.pc = pc]
  OBVIOUS
<1>2. /\ q \in RequestType /\ q.pc = pc /\ q.user = req[c].user /\ q.ws = req[c].ws
      /\ Fields(q) /\ pc # "idle"
  BY <1>1, AtAnotherPc DEF Refusals
<1>3. Facts(c, q) /\ ~Decides(q)
  BY <1>2 DEF Facts, Checked, RunChecked, ItemChecked, Awaited, Answered, Decides
<1>4. req' = [req EXCEPT ![c] = q]
  BY <1>1 DEF Goto, IInv, RequestsOk
<1> QED
  BY <1>2, <1>3, <1>4, OnlyMoves

\* A check that was passed: what it found is what the next call relies on.
LEMMA Passes ==
    ASSUME IInv, NEW c \in Requests, req[c].pc \in Working,
           NEW pc \in Working \union Refusals \union Answers,
           Goto(c, pc), UNCHANGED <<tables, scenario>>,
           NEW q, q = [req[c] EXCEPT !.pc = pc],
           Checked(q), Awaited(q), Answered(c, q),
           Decides(q) => approvals[q.target].status = "requested"
    PROVE  IInv' /\ ChangesStep
<1>1. /\ q \in RequestType /\ q.pc = pc /\ q.user = req[c].user /\ q.ws = req[c].ws
      /\ Fields(q) /\ pc # "idle"
  BY AtAnotherPc
<1>2. Facts(c, q)
  BY <1>1 DEF Facts
<1>3. req' = [req EXCEPT ![c] = q]
  BY DEF Goto, IInv, RequestsOk
<1> QED
  BY <1>1, <1>2, <1>3, OnlyMoves

-----------------------------------------------------------------------------
(***************************************************************************)
(* The reads of the handlers, one lemma per call.                          *)
(***************************************************************************)
LEMMA CreateWorkItemProbe ==
    ASSUME IInv, NEW c \in Requests, UNCHANGED <<tables, scenario>>,
           At(c, "createWorkItem", "probe"),
           (items[NewId(c)] # None /\ Goto(c, "ok")) \/ Goto(c, "put")
    PROVE  IInv' /\ ChangesStep
<1>1. req[c].pc \in Working
  BY DEF At, Working
<1>2. ASSUME items[NewId(c)] # None, Goto(c, "ok") PROVE IInv' /\ ChangesStep
  <2>1. PICK q : q = [req[c] EXCEPT !.pc = "ok"]
    OBVIOUS
  <2>2. q.op = "createWorkItem" /\ q.pc = "ok" /\ NewId(c) = IdOf(c, q)
    BY <1>1, <2>1, AtAnotherPc DEF At, Answers, NewId, IdOf, Scope
  <2>3. Checked(q) /\ Awaited(q) /\ Answered(c, q) /\ ~Decides(q)
    BY <1>2, <2>2 DEF Checked, RunChecked, ItemChecked, Awaited, Answered, Decides,
                      SurfaceOrSource, AdminOnly
  <2> QED
    BY <1>1, <1>2, <2>1, <2>3, Passes DEF Answers
<1>3. ASSUME Goto(c, "put") PROVE IInv' /\ ChangesStep
  <2>1. PICK q : q = [req[c] EXCEPT !.pc = "put"]
    OBVIOUS
  <2>2. q.op = "createWorkItem" /\ q.pc = "put"
    BY <1>1, <2>1, AtAnotherPc DEF At, Working
  <2>3. Checked(q) /\ Awaited(q) /\ Answered(c, q) /\ ~Decides(q)
    BY <2>2 DEF Checked, RunChecked, ItemChecked, Awaited, Answered, Decides,
                SurfaceOrSource, AdminOnly
  <2> QED
    BY <1>1, <1>3, <2>1, <2>3, Passes DEF Working
<1> QED
  BY <1>2, <1>3

LEMMA UpdateWorkItemStatusReads ==
    ASSUME IInv, NEW c \in Requests, UNCHANGED scenario,
           At(c, "updateWorkItemStatus", "item"),
           Check(c, OwnsItem(req[c]),
                 IF req[c].value \in WorkStatuses THEN "update" ELSE "badRequest")
    PROVE  IInv' /\ ChangesStep
<1>1. req[c].pc \in Working /\ UNCHANGED tables
  BY DEF At, Working, Check
<1>2. CASE ~(OwnsItem(req[c]) /\ req[c].value \in WorkStatuses)
  BY <1>1, <1>2, Stops DEF Check
<1>3. CASE OwnsItem(req[c]) /\ req[c].value \in WorkStatuses
  <2>1. PICK q : q = [req[c] EXCEPT !.pc = "update"]
    OBVIOUS
  <2>2. /\ q.op = "updateWorkItemStatus" /\ q.pc = "update"
        /\ q.item = req[c].item /\ q.value = req[c].value
        /\ q.user = req[c].user /\ q.ws = req[c].ws
    BY <1>1, <2>1, AtAnotherPc DEF At, Working
  <2>3. OwnsItem(q)
    BY <1>3, <2>2 DEF OwnsItem
  <2>4. Checked(q) /\ Awaited(q) /\ Answered(c, q) /\ ~Decides(q)
    BY <1>3, <2>2, <2>3 DEF Checked, RunChecked, Awaited, Answered, Decides,
                            SurfaceOrSource, AdminOnly
  <2>5. Goto(c, "update")
    BY <1>3 DEF Check
  <2> QED
    BY <1>1, <2>1, <2>4, <2>5, Passes DEF Working
<1> QED
  BY <1>2, <1>3

LEMMA CreateWorkItemRunReads ==
    ASSUME IInv, NEW c \in Requests, UNCHANGED scenario,
           At(c, "createWorkItemRun", "item"), Check(c, OwnsItem(req[c]), "ledger")
    PROVE  IInv' /\ ChangesStep
<1>1. req[c].pc \in Working /\ UNCHANGED tables
  BY DEF At, Working, Check
<1>2. CASE ~OwnsItem(req[c])
  BY <1>1, <1>2, Stops DEF Check
<1>3. CASE OwnsItem(req[c])
  <2>1. PICK q : q = [req[c] EXCEPT !.pc = "ledger"]
    OBVIOUS
  <2>2. /\ q.op = "createWorkItemRun" /\ q.pc = "ledger"
        /\ q.item = req[c].item /\ q.user = req[c].user /\ q.ws = req[c].ws
    BY <1>1, <2>1, AtAnotherPc DEF At, Working
  <2>3. OwnsItem(q)
    BY <1>3, <2>2 DEF OwnsItem
  <2>4. Checked(q) /\ Awaited(q) /\ Answered(c, q) /\ ~Decides(q)
    BY <2>2, <2>3 DEF Checked, RunChecked, Awaited, Answered, Decides,
                      SurfaceOrSource, AdminOnly
  <2>5. Goto(c, "ledger")
    BY <1>3 DEF Check
  <2> QED
    BY <1>1, <2>1, <2>4, <2>5, Passes DEF Working
<1> QED
  BY <1>2, <1>3

LEMMA CreateApprovalReads ==
    ASSUME IInv, NEW c \in Requests, UNCHANGED scenario,
           At(c, "createApproval", "run"), Check(c, OwnsRun(req[c]), "put")
    PROVE  IInv' /\ ChangesStep
<1>1. req[c].pc \in Working /\ UNCHANGED tables
  BY DEF At, Working, Check
<1>2. CASE ~OwnsRun(req[c])
  BY <1>1, <1>2, Stops DEF Check
<1>3. CASE OwnsRun(req[c])
  <2>1. PICK q : q = [req[c] EXCEPT !.pc = "put"]
    OBVIOUS
  <2>2. /\ q.op = "createApproval" /\ q.pc = "put"
        /\ q.run = req[c].run /\ q.user = req[c].user /\ q.ws = req[c].ws
    BY <1>1, <2>1, AtAnotherPc DEF At, Working
  <2>3. OwnsRun(q)
    BY <1>3, <2>2 DEF OwnsRun
  <2>4. Checked(q) /\ Awaited(q) /\ Answered(c, q) /\ ~Decides(q)
    BY <2>2, <2>3 DEF Checked, ItemChecked, Awaited, Answered, Decides,
                      SurfaceOrSource, AdminOnly
  <2>5. Goto(c, "put")
    BY <1>3 DEF Check
  <2> QED
    BY <1>1, <2>1, <2>4, <2>5, Passes DEF Working
<1> QED
  BY <1>2, <1>3

LEMMA DecideApprovalReads ==
    ASSUME IInv, NEW c \in Requests, UNCHANGED scenario,
           At(c, "decideApproval", "get"), DecideApproval(c)
    PROVE  IInv' /\ ChangesStep
<1> DEFINE row == GetApproval(req[c].ws, req[c].target)
<1>1. /\ req[c].pc \in Working /\ UNCHANGED tables
      /\ Check(c, OwnedBy(row, req[c].user),
               IF req[c].value \notin {"approved", "rejected"} THEN "badRequest"
               ELSE IF row.decidedBy # None /\ row.status # "requested" THEN "conflict"
               ELSE "update")
  BY DEF At, Working, Check, DecideApproval
<1>2. CASE ~OwnedBy(row, req[c].user) \/ req[c].value \notin {"approved", "rejected"}
  BY <1>1, <1>2, Stops DEF Check
<1>3. ASSUME OwnedBy(row, req[c].user), req[c].value \in {"approved", "rejected"}
      PROVE  IInv' /\ ChangesStep
  <2>1. row # None /\ row = approvals[req[c].target] /\ req[c].target \in Requests
    <3>1. row # None /\ row = approvals[req[c].target]
      BY <1>3 DEF OwnedBy, GetApproval, ByKey
    <3>2. req[c].target \in Requests
      BY DEF IInv, RequestsOk, Facts, Fields, At
    <3> QED
      BY <3>1, <3>2
  <2>2. row.status = "requested" <=> row.decidedBy = None
    BY <2>1 DEF IInv, ApprovalsOk
  <2> HIDE DEF row
  <2>3. CASE row.status # "requested"
    <3>1. PICK q : q = [req[c] EXCEPT !.pc = "conflict"]
      OBVIOUS
    <3>2. q.op = "decideApproval" /\ q.pc = "conflict" /\ q.target = req[c].target
      BY <1>1, <3>1, AtAnotherPc DEF At, Refusals
    <3>3. Checked(q) /\ Awaited(q) /\ Answered(c, q) /\ ~Decides(q)
      BY <2>1, <2>3, <3>2 DEF Checked, RunChecked, ItemChecked, Awaited, Answered, Decides,
                              SurfaceOrSource, AdminOnly
    <3>4. Goto(c, "conflict")
      BY <1>1, <1>3, <2>2, <2>3 DEF Check
    <3> QED
      BY <1>1, <3>1, <3>3, <3>4, Passes DEF Refusals
  <2>4. CASE row.status = "requested"
    <3>1. PICK q : q = [req[c] EXCEPT !.pc = "update"]
      OBVIOUS
    <3>2. /\ q.op = "decideApproval" /\ q.pc = "update"
          /\ q.target = req[c].target /\ q.value = req[c].value
      BY <1>1, <3>1, AtAnotherPc DEF At, Working
    <3>3. /\ Checked(q) /\ Awaited(q) /\ Answered(c, q)
          /\ approvals[q.target].status = "requested"
      BY <1>3, <2>1, <2>4, <3>2 DEF Checked, RunChecked, ItemChecked, Awaited, Answered,
                                    SurfaceOrSource, AdminOnly
    <3>4. Goto(c, "update")
      BY <1>1, <1>3, <2>4 DEF Check
    <3> QED
      BY <1>1, <3>1, <3>3, <3>4, Passes DEF Working
  <2> QED
    BY <2>3, <2>4
<1> QED
  BY <1>2, <1>3

\* Surfaces and data source references are checked alike, first against the run
\* and then against the work item, if they name one.
LEMMA LinkReads ==
    ASSUME IInv, NEW c \in Requests, UNCHANGED scenario,
           req[c].op \in SurfaceOrSource,
           \/ req[c].pc = "run" /\ Check(c, OwnsRun(req[c]), AfterRun(req[c]))
           \/ req[c].pc = "item" /\ Check(c, OwnsItem(req[c]), "put")
    PROVE  IInv' /\ ChangesStep
<1>1. req[c].pc \in Working /\ UNCHANGED tables
  BY DEF Working, Check
<1>2. Checked(req[c])
  BY DEF IInv, RequestsOk, Facts
<1>3. CASE \/ req[c].pc = "run" /\ ~OwnsRun(req[c])
           \/ req[c].pc = "item" /\ ~OwnsItem(req[c])
  BY <1>1, <1>3, Stops DEF Check
<1>4. CASE req[c].pc = "run" /\ OwnsRun(req[c])
  <2>1. PICK q : q = [req[c] EXCEPT !.pc = AfterRun(req[c])]
    OBVIOUS
  <2>2. AfterRun(req[c]) \in Working
    BY DEF AfterRun, Working
  <2>3. /\ q.op \in SurfaceOrSource /\ q.pc = (IF q.item # None THEN "item" ELSE "put")
        /\ q.run = req[c].run /\ q.user = req[c].user /\ q.ws = req[c].ws
    BY <1>1, <2>1, <2>2, AtAnotherPc DEF AfterRun
  <2>4. OwnsRun(q)
    BY <1>4, <2>3 DEF OwnsRun
  <2>5. Checked(q) /\ Awaited(q) /\ Answered(c, q) /\ ~Decides(q)
    BY <2>3, <2>4 DEF Checked, ItemChecked, Awaited, Answered, Decides,
                      SurfaceOrSource, AdminOnly
  <2>6. Goto(c, AfterRun(req[c]))
    BY <1>4 DEF Check
  <2> QED
    BY <1>1, <2>1, <2>2, <2>5, <2>6, Passes
<1>5. CASE req[c].pc = "item" /\ OwnsItem(req[c])
  <2>1. PICK q : q = [req[c] EXCEPT !.pc = "put"]
    OBVIOUS
  <2>2. /\ q.op = req[c].op /\ q.op \in SurfaceOrSource /\ q.pc = "put"
        /\ q.run = req[c].run /\ q.item = req[c].item
        /\ q.user = req[c].user /\ q.ws = req[c].ws
    BY <1>1, <2>1, AtAnotherPc DEF Working
  <2>3. OwnsItem(q)
    BY <1>5, <2>2 DEF OwnsItem
  <2>4. q.run # None => OwnsRun(q)
    BY <1>2, <1>5, <2>2 DEF OwnsRun, Checked, RunChecked
  <2>5. Checked(q) /\ Awaited(q) /\ Answered(c, q) /\ ~Decides(q)
    BY <2>2, <2>3, <2>4 DEF Checked, RunChecked, Awaited, Answered, Decides,
                            SurfaceOrSource, AdminOnly
  <2>6. Goto(c, "put")
    BY <1>5 DEF Check
  <2> QED
    BY <1>1, <2>1, <2>5, <2>6, Passes DEF Working
<1> QED
  BY <1>3, <1>4, <1>5

LEMMA UpdateSurfaceReads ==
    ASSUME IInv, NEW c \in Requests, UNCHANGED scenario,
           At(c, "updateSurface", "get"), UpdateSurface(c)
    PROVE  IInv' /\ ChangesStep
<1> DEFINE row == GetSurface(req[c].ws, req[c].target)
<1>1. /\ req[c].pc \in Working /\ UNCHANGED tables
      /\ Check(c, OwnedBy(row, req[c].user),
               IF req[c].value \in SurfaceStatuses \union {None}
               THEN "update" ELSE "badRequest")
  BY DEF At, Working, Check, UpdateSurface
<1>2. CASE ~(OwnedBy(row, req[c].user) /\ req[c].value \in SurfaceStatuses \union {None})
  BY <1>1, <1>2, Stops DEF Check
<1>3. CASE OwnedBy(row, req[c].user) /\ req[c].value \in SurfaceStatuses \union {None}
  <2>1. surfaces[req[c].target] # None
    BY <1>3 DEF OwnedBy, GetSurface, ByKey
  <2>2. PICK q : q = [req[c] EXCEPT !.pc = "update"]
    OBVIOUS
  <2>3. /\ q.op = "updateSurface" /\ q.pc = "update"
        /\ q.target = req[c].target /\ q.value = req[c].value
    BY <1>1, <2>2, AtAnotherPc DEF At, Working
  <2>4. Checked(q) /\ Awaited(q) /\ Answered(c, q) /\ ~Decides(q)
    BY <1>3, <2>1, <2>3 DEF Checked, RunChecked, ItemChecked, Awaited, Answered, Decides,
                            SurfaceOrSource, AdminOnly
  <2>5. Goto(c, "update")
    BY <1>1, <1>3 DEF Check
  <2> QED
    BY <1>1, <2>2, <2>4, <2>5, Passes DEF Working
<1> QED
  BY <1>2, <1>3

\* The URL that a publication without one read is carried to its update.
LEMMA PublishSurfaceReads ==
    ASSUME IInv, NEW c \in Requests, UNCHANGED scenario,
           At(c, "publishSurface", "get"), PublishSurface(c)
    PROVE  IInv' /\ ChangesStep
<1> DEFINE row == GetSurface(req[c].ws, req[c].target)
<1>1. /\ req[c].pc \in Working /\ UNCHANGED tables
      /\ \/ /\ OwnedBy(row, req[c].user)
            /\ req' = [req EXCEPT ![c].pc = "update",
                         ![c].value = IF @ = None THEN row.url ELSE @]
         \/ ~OwnedBy(row, req[c].user) /\ Goto(c, "notFound")
  BY DEF At, Working, PublishSurface
<1>2. CASE ~OwnedBy(row, req[c].user)
  BY <1>1, <1>2, Stops
<1>3. CASE OwnedBy(row, req[c].user)
  <2> DEFINE p == req[c]
             v == IF p.value = None THEN row.url ELSE p.value
  <2>1. p \in RequestType /\ Fields(p) /\ p.op = "publishSurface" /\ p.pc = "get"
    BY DEF IInv, RequestsOk, Facts, At
  <2>2. row # None /\ row = surfaces[p.target] /\ p.target \in Requests
    <3>1. row # None /\ row = surfaces[p.target]
      BY <1>3 DEF OwnedBy, GetSurface, ByKey
    <3> QED
      BY <2>1, <3>1 DEF Fields
  <2>3. row \in SurfaceRecord
    BY <2>2 DEF IInv, SurfacesOk
  <2>4. v \in Urls \union {None}
    BY <2>1, <2>3 DEF Fields, SurfaceRecord
  <2>5. PICK q : q = [p EXCEPT !.pc = "update", !.value = v]
    OBVIOUS
  <2>6. req' = [req EXCEPT ![c] = q]
    BY <1>1, <1>3, <2>5 DEF IInv, RequestsOk
  <2> HIDE DEF p, v, row
  <2>7. /\ q \in RequestType /\ q.op = "publishSurface" /\ q.pc = "update"
        /\ q.target = p.target /\ q.value = v /\ q.user = p.user /\ q.ws = p.ws
    BY <2>1, <2>4, <2>5 DEF RequestType, Working
  <2>8. Facts(c, q) /\ ~Decides(q)
    BY <2>2, <2>4, <2>7 DEF Facts, Fields, Checked, RunChecked, ItemChecked, Awaited,
                            Answered, Decides, SurfaceOrSource, AdminOnly
  <2>9. q.user = req[c].user /\ q.ws = req[c].ws
    BY <2>7 DEF p
  <2> QED
    BY <1>1, <2>6, <2>7, <2>8, <2>9, OnlyMoves
<1> QED
  BY <1>2, <1>3

\* The row that was read is what the approval writes, bundle and row: it keeps
\* the content that the row still has.
LEMMA ApproveReads ==
    ASSUME IInv, NEW c \in Requests, UNCHANGED scenario,
           At(c, "approveAgentProfileVersion", "get"), ApproveAgentProfileVersion(c)
    PROVE  IInv' /\ ChangesStep
<1> DEFINE row == profiles[req[c].target]
<1>1. /\ req[c].pc \in Working /\ UNCHANGED tables
      /\ IF OwnedBy(row, req[c].user)
         THEN req' = [req EXCEPT ![c].pc = "bundle", ![c].row = row]
         ELSE Goto(c, "notFound")
  BY DEF At, Working, ApproveAgentProfileVersion
<1>2. CASE ~OwnedBy(row, req[c].user)
  BY <1>1, <1>2, Stops
<1>3. CASE OwnedBy(row, req[c].user)
  <2> DEFINE p == req[c]
  <2>1. /\ p \in RequestType /\ Fields(p)
        /\ p.op = "approveAgentProfileVersion" /\ p.pc = "get"
    BY DEF IInv, RequestsOk, Facts, At
  <2>2. row # None /\ p.target \in ProfileKeys
    BY <1>3, <2>1 DEF OwnedBy, Fields
  <2>3. row \in AgentProfileRecord
    BY <2>2 DEF IInv, ProfilesOk
  <2>4. PICK q : q = [p EXCEPT !.pc = "bundle", !.row = row]
    OBVIOUS
  <2>5. req' = [req EXCEPT ![c] = q]
    BY <1>1, <1>3, <2>4 DEF IInv, RequestsOk
  <2>6. row = profiles[p.target]
    OBVIOUS
  <2> HIDE DEF p, row
  <2>7. /\ q \in RequestType /\ q.op = "approveAgentProfileVersion" /\ q.pc = "bundle"
        /\ q.target = p.target /\ q.row = row /\ q.user = p.user /\ q.ws = p.ws
    BY <2>1, <2>3, <2>4 DEF RequestType, Working
  <2>8. Facts(c, q) /\ ~Decides(q)
    BY <2>2, <2>3, <2>6, <2>7 DEF Facts, Fields, Checked, RunChecked, ItemChecked, Awaited,
                                  Answered, Decides, SurfaceOrSource, AdminOnly
  <2>9. q.user = req[c].user /\ q.ws = req[c].ws
    BY <2>7 DEF p
  <2> QED
    BY <1>1, <2>5, <2>7, <2>8, <2>9, OnlyMoves
<1> QED
  BY <1>2, <1>3

LEMMA HostNodeReads ==
    ASSUME IInv, NEW c \in Requests, UNCHANGED scenario, req[c].pc = "get",
           NEW pc,
           \/ req[c].op = "registerHostNode" /\ pc = "put"
           \/ /\ req[c].op = "heartbeatHostNode"
              /\ pc = IF hosts[req[c].target] = None THEN "notFound" ELSE "put",
           GetHostNode(c, pc)
    PROVE  IInv' /\ ChangesStep
<1> DEFINE p == req[c]
           row == hosts[p.target]
<1>1. /\ p \in RequestType /\ Fields(p) /\ p.op \in AdminOnly /\ p.pc = "get"
      /\ p.op = "heartbeatHostNode" /\ pc = "put" => row # None
  BY DEF IInv, RequestsOk, Facts, AdminOnly
<1>2. p.target \in Hosts
  BY <1>1 DEF Fields
<1>3. /\ row \in HostNodeRecord \union {None}
      /\ row # None => row.placementStatus = <<row.placement, row.status>>
  BY <1>2 DEF IInv, HostsOk
<1>4. PICK q : q = [p EXCEPT !.pc = pc, !.row = row]
  OBVIOUS
<1>5. req' = [req EXCEPT ![c] = q] /\ UNCHANGED tables /\ pc \in {"put", "notFound"}
  BY <1>4 DEF IInv, RequestsOk, GetHostNode
<1> HIDE DEF p, row
<1>6. /\ q \in RequestType /\ q.op = p.op /\ q.pc = pc
      /\ q.target = p.target /\ q.row = row /\ q.value = p.value
      /\ q.user = p.user /\ q.ws = p.ws
  BY <1>1, <1>3, <1>4, <1>5 DEF RequestType, Working
<1>7. Facts(c, q) /\ ~Decides(q)
  BY <1>1, <1>3, <1>5, <1>6 DEF Facts, Fields, Checked, RunChecked, ItemChecked, Awaited,
                                Answered, Decides, SurfaceOrSource, AdminOnly
<1>8. q.user = req[c].user /\ q.ws = req[c].ws
  BY <1>6 DEF p
<1> QED
  BY <1>5, <1>6, <1>7, <1>8, OnlyMoves

LEMMA LogIsDistinct ==
    ASSUME LogOk, NEW r \in WorkIds, NEW after \in Nat
    PROVE  Distinct(log[r]) /\ Distinct(Later(r, after)) /\ Distinct(ListEvents(r, after))
<1>1. log[r] \subseteq EventRecord /\ Distinct(log[r])
  BY DEF LogOk, Distinct, Positioned, EventRecord
<1>2. Later(r, after) \in SUBSET log[r] /\ ListEvents(r, after) \in SUBSET log[r]
  BY DEF Later, ListEvents
<1>3. \A S \in SUBSET log[r] : Distinct(S)
  BY <1>1, FS_Subset DEF Distinct, Positioned
<1> QED
  BY <1>1, <1>2, <1>3

LEMMA EngagementReads ==
    ASSUME IInv, NEW c \in Requests, UNCHANGED scenario,
           \/ /\ At(c, "userEngagement", "run")
              /\ Check(c, OwnsRun(req[c]),
                       IF req[c].value = Blank THEN "badRequest" ELSE "page")
           \/ At(c, "userEngagement", "page") /\ NextEventSeq(c)
    PROVE  IInv' /\ ChangesStep
<1>1. req[c].pc \in Working /\ req[c].op = "userEngagement"
  BY DEF At, Working
<1>2. CASE /\ At(c, "userEngagement", "run")
           /\ Check(c, OwnsRun(req[c]),
                    IF req[c].value = Blank THEN "badRequest" ELSE "page")
  <2>1. UNCHANGED tables
    BY <1>2 DEF Check
  <2>2. CASE ~OwnsRun(req[c]) \/ req[c].value = Blank
    BY <1>1, <1>2, <2>1, <2>2, Stops DEF Check
  <2>3. CASE OwnsRun(req[c]) /\ req[c].value # Blank
    <3>1. PICK q : q = [req[c] EXCEPT !.pc = "page"]
      OBVIOUS
    <3>2. /\ q.op = "userEngagement" /\ q.pc = "page"
          /\ q.run = req[c].run /\ q.user = req[c].user /\ q.ws = req[c].ws
      BY <1>1, <3>1, AtAnotherPc DEF Working
    <3>3. OwnsRun(q)
      BY <2>3, <3>2 DEF OwnsRun
    <3>4. Checked(q) /\ Awaited(q) /\ Answered(c, q) /\ ~Decides(q)
      BY <3>2, <3>3 DEF Checked, ItemChecked, Awaited, Answered, Decides,
                        SurfaceOrSource, AdminOnly
    <3>5. Goto(c, "page")
      BY <1>2, <2>3 DEF Check
    <3> QED
      BY <1>1, <2>1, <3>1, <3>4, <3>5, Passes DEF Working
  <2> QED
    BY <2>2, <2>3
<1>3. CASE At(c, "userEngagement", "page") /\ NextEventSeq(c)
  <2> DEFINE p == req[c]
             page == ListEvents(p.run, p.latest)
             next == IF Cardinality(page) < PageSize THEN "event" ELSE "page"
             last == CHOOSE n \in {e.seq : e \in page} : \A e \in page : e.seq <= n
             latest == IF page = {} THEN p.latest ELSE last
  <2>1. /\ p \in RequestType /\ Fields(p) /\ Checked(p)
        /\ p.op = "userEngagement" /\ p.pc = "page"
    BY <1>3 DEF IInv, RequestsOk, Facts, At
  <2>2. p.run \in WorkIds /\ p.latest \in Nat /\ OwnsRun(p)
    BY <2>1 DEF Fields, Checked, RunChecked, RequestType
  <2>3. Positioned(page)
    BY <2>2, LogIsDistinct DEF IInv, Distinct
  <2>4. page # {} => last \in Nat
    BY <2>3, LastPosition
  <2>5. UNCHANGED tables
    BY <1>3 DEF NextEventSeq
  <2>6. req' = [req EXCEPT ![c].pc = next, ![c].latest = latest]
    BY <1>3 DEF NextEventSeq
  <2> HIDE DEF next, last
  <2>7. latest \in Nat /\ next \in {"event", "page"}
    BY <2>2, <2>4 DEF next
  <2> HIDE DEF latest
  <2>8. PICK q : q = [p EXCEPT !.pc = next, !.latest = latest]
    OBVIOUS
  <2>9. req' = [req EXCEPT ![c] = q]
    BY <2>6, <2>8 DEF IInv, RequestsOk
  <2>10. q.user = req[c].user /\ q.ws = req[c].ws
    BY <2>1, <2>8 DEF RequestType
  <2> HIDE DEF p, page
  <2>11. /\ q \in RequestType /\ q.op = "userEngagement" /\ q.pc \in {"event", "page"}
         /\ q.run = p.run /\ q.user = p.user /\ q.ws = p.ws
    BY <2>1, <2>7, <2>8 DEF RequestType, Working
  <2>12. Facts(c, q) /\ ~Decides(q)
    BY <2>2, <2>11 DEF Facts, Fields, Checked, ItemChecked, Awaited, OwnsRun,
                       Answered, Decides, SurfaceOrSource, AdminOnly
  <2> QED
    BY <2>5, <2>9, <2>10, <2>11, <2>12, OnlyMoves
<1> QED
  BY <1>2, <1>3

LEMMA Crashes ==
    ASSUME IInv, NEW c \in Requests, UNCHANGED scenario, Crash(c)
    PROVE  IInv' /\ ChangesStep
BY Stops DEF Crash

-----------------------------------------------------------------------------
(***************************************************************************)
(* A new request: what the handlers' routes parse.                         *)
(***************************************************************************)
\* What a call carries, whatever it asks for.
Carried(ask, a) == ask \in RequestType /\ ask.user = a.user /\ ask.ws = a.ws

\* The ids that a client can name are ids of the tables.
LEMMA StoredIds ==
    ASSUME IInv
    PROVE  /\ Stored(items) \subseteq WorkIds /\ Stored(runs) \subseteq WorkIds
           /\ Stored(approvals) \subseteq Requests /\ Stored(surfaces) \subseteq Requests
BY DEF Stored, IInv, ItemsOk, RunsOk, ApprovalsOk, SurfacesOk

\* A request's fields, one lemma per family of routes.
LEMMA WorkItemAsksCarry ==
    ASSUME IInv, NEW a \in Callers, NEW ask \in WorkItemAsks(a)
    PROVE  /\ Carried(ask, a)
           /\ \/ ask.op = "createWorkItem" /\ ask.run = None /\ ask.item = None /\ ask.target = None
                 /\ ask.value \in Keys \union {None, Blank}
              \/ ask.op = "updateWorkItemStatus" /\ ask.run = None /\ ask.target = None
                 /\ ask.item \in WorkIds
              \/ ask.op = "createWorkItemRun" /\ ask.run = None /\ ask.target = None
                 /\ ask.item \in WorkIds /\ ask.value \in Keys \union {None}
<1>1. a.user \in Users /\ a.ws \in Workspaces
  BY DEF Users, Workspaces
<1>2. CASE \E k \in Keys \union {None, Blank} :
             ask = AskOn("createWorkItem", a, None, None, k)
  <2>1. PICK k \in Keys \union {None, Blank} : ask = AskOn("createWorkItem", a, None, None, k)
    BY <1>2
  <2>2. ask = [op |-> "createWorkItem", user |-> a.user, ws |-> a.ws, run |-> None,
               item |-> None, target |-> None, value |-> k, row |-> None,
               latest |-> 0, pc |-> "idle"]
    BY <2>1 DEF AskOn, AskFor, Ask
  <2> QED
    BY <1>1, <2>2 DEF Carried, RequestType
<1>3. CASE \E i \in Stored(items), s \in Statuses :
             ask = AskOn("updateWorkItemStatus", a, None, i, s)
  <2>1. PICK i \in Stored(items), s \in Statuses : ask = AskOn("updateWorkItemStatus", a, None, i, s)
    BY <1>3
  <2>2. ask = [op |-> "updateWorkItemStatus", user |-> a.user, ws |-> a.ws, run |-> None,
               item |-> i, target |-> None, value |-> s, row |-> None,
               latest |-> 0, pc |-> "idle"]
    BY <2>1 DEF AskOn, AskFor, Ask
  <2> QED
    BY <1>1, <2>2, StoredIds DEF Carried, RequestType
<1>4. CASE \E i \in Stored(items), k \in Keys \union {None} :
             ask = AskOn("createWorkItemRun", a, None, i, k)
  <2>1. PICK i \in Stored(items), k \in Keys \union {None} : ask = AskOn("createWorkItemRun", a, None, i, k)
    BY <1>4
  <2>2. ask = [op |-> "createWorkItemRun", user |-> a.user, ws |-> a.ws, run |-> None,
               item |-> i, target |-> None, value |-> k, row |-> None,
               latest |-> 0, pc |-> "idle"]
    BY <2>1 DEF AskOn, AskFor, Ask
  <2> QED
    BY <1>1, <2>2, StoredIds DEF Carried, RequestType
<1> QED
  BY <1>2, <1>3, <1>4 DEF WorkItemAsks

LEMMA ApprovalAsksCarry ==
    ASSUME IInv, NEW a \in Callers, NEW ask \in ApprovalAsks(a)
    PROVE  /\ Carried(ask, a)
           /\ \/ ask.op = "createApproval" /\ ask.target = None
                 /\ ask.run \in WorkIds
              \/ ask.op = "decideApproval" /\ ask.run = None /\ ask.item = None
                 /\ ask.target \in Requests
<1>1. a.user \in Users /\ a.ws \in Workspaces
  BY DEF Users, Workspaces
<1>2. CASE \E r \in Stored(runs), i \in Stored(items) \union {None}, v \in {None, Blank} :
             ask = AskOn("createApproval", a, r, i, v)
  <2>1. PICK r \in Stored(runs), i \in Stored(items) \union {None}, v \in {None, Blank} :
          ask = AskOn("createApproval", a, r, i, v)
    BY <1>2
  <2>2. ask = [op |-> "createApproval", user |-> a.user, ws |-> a.ws, run |-> r,
               item |-> i, target |-> None, value |-> v, row |-> None,
               latest |-> 0, pc |-> "idle"]
    BY <2>1 DEF AskOn, AskFor, Ask
  <2> QED
    BY <1>1, <2>1, <2>2, StoredIds DEF Carried, RequestType
<1>3. CASE \E t \in Stored(approvals), d \in Decisions :
             ask = AskFor("decideApproval", a, t, d)
  <2>1. PICK t \in Stored(approvals), d \in Decisions : ask = AskFor("decideApproval", a, t, d)
    BY <1>3
  <2>2. ask = [op |-> "decideApproval", user |-> a.user, ws |-> a.ws, run |-> None,
               item |-> None, target |-> t, value |-> d, row |-> None,
               latest |-> 0, pc |-> "idle"]
    BY <2>1 DEF AskOn, AskFor, Ask
  <2> QED
    BY <1>1, <2>2, StoredIds DEF Carried, RequestType
<1> QED
  BY <1>2, <1>3 DEF ApprovalAsks

LEMMA SurfaceAsksCarry ==
    ASSUME IInv, NEW a \in Callers, NEW ask \in SurfaceAsks(a)
    PROVE  /\ Carried(ask, a)
           /\ \/ ask.op = "createSurface" /\ ask.target = None
              \/ ask.op = "updateSurface" /\ ask.run = None /\ ask.item = None
                 /\ ask.target \in Requests
              \/ ask.op = "publishSurface" /\ ask.run = None /\ ask.item = None
                 /\ ask.target \in Requests /\ ask.value \in Urls \union {None}
<1>1. a.user \in Users /\ a.ws \in Workspaces
  BY DEF Users, Workspaces
<1>2. CASE \E r \in Stored(runs) \union {None}, i \in Stored(items) \union {None}, s \in Statuses :
             ask = AskOn("createSurface", a, r, i, s)
  <2>1. PICK r \in Stored(runs) \union {None}, i \in Stored(items) \union {None}, s \in Statuses : ask = AskOn("createSurface", a, r, i, s)
    BY <1>2
  <2>2. ask = [op |-> "createSurface", user |-> a.user, ws |-> a.ws, run |-> r,
               item |-> i, target |-> None, value |-> s, row |-> None,
               latest |-> 0, pc |-> "idle"]
    BY <2>1 DEF AskOn, AskFor, Ask
  <2> QED
    BY <1>1, <2>2, StoredIds DEF Carried, RequestType
<1>3. CASE \E t \in Stored(surfaces), s \in Statuses \union {None} :
             ask = AskFor("updateSurface", a, t, s)
  <2>1. PICK t \in Stored(surfaces), s \in Statuses \union {None} : ask = AskFor("updateSurface", a, t, s)
    BY <1>3
  <2>2. ask = [op |-> "updateSurface", user |-> a.user, ws |-> a.ws, run |-> None,
               item |-> None, target |-> t, value |-> s, row |-> None,
               latest |-> 0, pc |-> "idle"]
    BY <2>1 DEF AskOn, AskFor, Ask
  <2> QED
    BY <1>1, <2>2, StoredIds DEF Carried, RequestType
<1>4. CASE \E t \in Stored(surfaces), u \in Urls \union {None} :
             ask = AskFor("publishSurface", a, t, u)
  <2>1. PICK t \in Stored(surfaces), u \in Urls \union {None} : ask = AskFor("publishSurface", a, t, u)
    BY <1>4
  <2>2. ask = [op |-> "publishSurface", user |-> a.user, ws |-> a.ws, run |-> None,
               item |-> None, target |-> t, value |-> u, row |-> None,
               latest |-> 0, pc |-> "idle"]
    BY <2>1 DEF AskOn, AskFor, Ask
  <2> QED
    BY <1>1, <2>2, StoredIds DEF Carried, RequestType
<1> QED
  BY <1>2, <1>3, <1>4 DEF SurfaceAsks

LEMMA DataSourceRefAsksCarry ==
    ASSUME IInv, NEW a \in Callers, NEW ask \in DataSourceRefAsks(a)
    PROVE  /\ Carried(ask, a)
           /\ \/ ask.op = "createDataSourceRef" /\ ask.target = None
<1>1. a.user \in Users /\ a.ws \in Workspaces
  BY DEF Users, Workspaces
<1>2. CASE \E r \in Stored(runs) \union {None}, i \in Stored(items) \union {None}, v \in {None, Blank} :
             ask = AskOn("createDataSourceRef", a, r, i, v)
  <2>1. PICK r \in Stored(runs) \union {None}, i \in Stored(items) \union {None}, v \in {None, Blank} : ask = AskOn("createDataSourceRef", a, r, i, v)
    BY <1>2
  <2>2. ask = [op |-> "createDataSourceRef", user |-> a.user, ws |-> a.ws, run |-> r,
               item |-> i, target |-> None, value |-> v, row |-> None,
               latest |-> 0, pc |-> "idle"]
    BY <2>1 DEF AskOn, AskFor, Ask
  <2> QED
    BY <1>1, <2>2, StoredIds DEF Carried, RequestType
<1> QED
  BY <1>2 DEF DataSourceRefAsks

LEMMA AgentProfileAsksCarry ==
    ASSUME NEW a \in Callers, NEW ask \in AgentProfileAsks(a)
    PROVE  /\ Carried(ask, a)
           /\ \/ ask.op = "createAgentProfileDraft" /\ ask.run = None /\ ask.item = None
                 /\ ask.target \in ProfileKeys /\ ask.target[1] = a.ws /\ ask.value \in Contents \union {Blank}
              \/ ask.op = "approveAgentProfileVersion" /\ ask.run = None /\ ask.item = None /\ ask.value = None
                 /\ ask.target \in ProfileKeys
<1>1. a.user \in Users /\ a.ws \in Workspaces
  BY DEF Users, Workspaces
<1>2. CASE \E p \in Profiles, x \in Contents \union {Blank} :
             ask = AskFor("createAgentProfileDraft", a, <<a.ws, p>>, x)
  <2>1. PICK p \in Profiles, x \in Contents \union {Blank} : ask = AskFor("createAgentProfileDraft", a, <<a.ws, p>>, x)
    BY <1>2
  <2>2. ask = [op |-> "createAgentProfileDraft", user |-> a.user, ws |-> a.ws, run |-> None,
               item |-> None, target |-> <<a.ws, p>>, value |-> x, row |-> None,
               latest |-> 0, pc |-> "idle"]
    BY <2>1 DEF AskOn, AskFor, Ask
  <2>3. <<a.ws, p>> \in ProfileKeys
    BY <1>1 DEF ProfileKeys
  <2> QED
    BY <1>1, <2>2, <2>3 DEF Carried, RequestType
<1>3. CASE \E p \in Profiles :
             ask = AskFor("approveAgentProfileVersion", a, <<a.ws, p>>, None)
  <2>1. PICK p \in Profiles : ask = AskFor("approveAgentProfileVersion", a, <<a.ws, p>>, None)
    BY <1>3
  <2>2. ask = [op |-> "approveAgentProfileVersion", user |-> a.user, ws |-> a.ws, run |-> None,
               item |-> None, target |-> <<a.ws, p>>, value |-> None, row |-> None,
               latest |-> 0, pc |-> "idle"]
    BY <2>1 DEF AskOn, AskFor, Ask
  <2>3. <<a.ws, p>> \in ProfileKeys
    BY <1>1 DEF ProfileKeys
  <2> QED
    BY <1>1, <2>2, <2>3 DEF Carried, RequestType
<1> QED
  BY <1>2, <1>3 DEF AgentProfileAsks

LEMMA RunnerStateAsksCarry ==
    ASSUME NEW a \in Callers, NEW ask \in RunnerStateAsks(a)
    PROVE  /\ Carried(ask, a)
           /\ \/ ask.op = "registerHostNode" /\ ask.run = None /\ ask.item = None
                 /\ ask.target \in Hosts /\ ask.value \in Placements \union {Blank}
              \/ ask.op = "heartbeatHostNode" /\ ask.run = None /\ ask.item = None
                 /\ ask.target \in Hosts /\ ask.value \in (Statuses \ {Blank}) \union {None}
<1>1. a.user \in Users /\ a.ws \in Workspaces
  BY DEF Users, Workspaces
<1>2. CASE \E h \in Hosts, p \in Placements \union {Blank} :
             ask = AskFor("registerHostNode", a, h, p)
  <2>1. PICK h \in Hosts, p \in Placements \union {Blank} : ask = AskFor("registerHostNode", a, h, p)
    BY <1>2
  <2>2. ask = [op |-> "registerHostNode", user |-> a.user, ws |-> a.ws, run |-> None,
               item |-> None, target |-> h, value |-> p, row |-> None,
               latest |-> 0, pc |-> "idle"]
    BY <2>1 DEF AskOn, AskFor, Ask
  <2> QED
    BY <1>1, <2>2 DEF Carried, RequestType
<1>3. CASE \E h \in Hosts, s \in (Statuses \ {Blank}) \union {None} :
             ask = AskFor("heartbeatHostNode", a, h, s)
  <2>1. PICK h \in Hosts, s \in (Statuses \ {Blank}) \union {None} : ask = AskFor("heartbeatHostNode", a, h, s)
    BY <1>3
  <2>2. ask = [op |-> "heartbeatHostNode", user |-> a.user, ws |-> a.ws, run |-> None,
               item |-> None, target |-> h, value |-> s, row |-> None,
               latest |-> 0, pc |-> "idle"]
    BY <2>1 DEF AskOn, AskFor, Ask
  <2> QED
    BY <1>1, <2>2 DEF Carried, RequestType
<1> QED
  BY <1>2, <1>3 DEF RunnerStateAsks

LEMMA EngagementAsksCarry ==
    ASSUME IInv, NEW a \in Callers, NEW ask \in EngagementAsks(a)
    PROVE  /\ Carried(ask, a)
           /\ \/ ask.op = "userEngagement" /\ ask.item = None /\ ask.target = None
                 /\ ask.run \in WorkIds
<1>1. a.user \in Users /\ a.ws \in Workspaces
  BY DEF Users, Workspaces
<1>2. CASE \E r \in Stored(runs), v \in {None, Blank} :
             ask = AskOn("userEngagement", a, r, None, v)
  <2>1. PICK r \in Stored(runs), v \in {None, Blank} : ask = AskOn("userEngagement", a, r, None, v)
    BY <1>2
  <2>2. ask = [op |-> "userEngagement", user |-> a.user, ws |-> a.ws, run |-> r,
               item |-> None, target |-> None, value |-> v, row |-> None,
               latest |-> 0, pc |-> "idle"]
    BY <2>1 DEF AskOn, AskFor, Ask
  <2> QED
    BY <1>1, <2>2, StoredIds DEF Carried, RequestType
<1> QED
  BY <1>2 DEF EngagementAsks

\* Where the handler of a valid request begins, and that it knows nothing yet
\* that it would have to look up.
LEMMA Begins ==
    ASSUME IInv, NEW c \in Requests, NEW a \in Callers, NEW ask \in Asks(a),
           ~BadRequest(ask), NEW q, q = [ask EXCEPT !.pc = FirstCall(ask)]
    PROVE  Carried(ask, a) /\ FirstCall(ask) \in Working /\ Facts(c, q)
<1> USE RecordsAssumption
<1>1. /\ None \notin WorkIds /\ None \notin Requests
      /\ None \notin ProfileKeys /\ None \notin Hosts
  BY DEF WorkIds
<1> DEFINE Begun(op, pc) ==
             /\ Carried(ask, a) /\ ask.op = op /\ FirstCall(ask) = pc
<1>2. ASSUME NEW op, NEW pc \in Working, Begun(op, pc)
      PROVE  /\ FirstCall(ask) \in Working /\ q.op = op /\ q.pc = pc
             /\ q.user = ask.user /\ q.ws = ask.ws
             /\ q.run = ask.run /\ q.item = ask.item
             /\ q.target = ask.target /\ q.value = ask.value
  BY <1>2 DEF Carried, RequestType
<1>3. CASE ask \in WorkItemAsks(a)
  <2>1. CASE ask.op = "createWorkItem"
    <3>1. ask.value \in Keys \union {None} /\ Begun("createWorkItem", IF ask.value = None THEN "put" ELSE "probe")
      BY <1>3, <2>1, WorkItemAsksCarry DEF BadRequest, FirstCall
    <3>2. PICK pc \in {"put", "probe"} : Begun("createWorkItem", pc)
      BY <3>1
    <3> QED
      BY <1>2, <3>1, <3>2 DEF Facts, Fields, Checked, RunChecked, ItemChecked, Awaited,
                              Answered, SurfaceOrSource, AdminOnly, Working
  <2>2. CASE ask.op = "updateWorkItemStatus"
    <3>1. ask.item \in WorkIds /\ Begun("updateWorkItemStatus", "item")
      BY <1>1, <1>3, <2>2, WorkItemAsksCarry DEF FirstCall
    <3> QED
      BY <1>2, <3>1 DEF Facts, Fields, Checked, RunChecked, ItemChecked, Awaited,
                        Answered, SurfaceOrSource, AdminOnly, Working
  <2>3. CASE ask.op = "createWorkItemRun"
    <3>1. /\ ask.item \in WorkIds /\ ask.value \in Keys \union {None}
          /\ Begun("createWorkItemRun", "item")
      BY <1>1, <1>3, <2>3, WorkItemAsksCarry DEF FirstCall
    <3> QED
      BY <1>2, <3>1 DEF Facts, Fields, Checked, RunChecked, ItemChecked, Awaited,
                        Answered, SurfaceOrSource, AdminOnly, Working
  <2> QED
    BY <1>3, <2>1, <2>2, <2>3, WorkItemAsksCarry
<1>4. CASE ask \in ApprovalAsks(a)
  <2>1. CASE ask.op = "createApproval"
    <3>1. ask.run \in WorkIds /\ Begun("createApproval", "run")
      BY <1>1, <1>4, <2>1, ApprovalAsksCarry DEF FirstCall
    <3> QED
      BY <1>2, <3>1 DEF Facts, Fields, Checked, RunChecked, ItemChecked, Awaited,
                        Answered, SurfaceOrSource, AdminOnly, Working
  <2>2. CASE ask.op = "decideApproval"
    <3>1. ask.target \in Requests /\ Begun("decideApproval", "get")
      BY <1>1, <1>4, <2>2, ApprovalAsksCarry DEF FirstCall
    <3> QED
      BY <1>2, <3>1 DEF Facts, Fields, Checked, RunChecked, ItemChecked, Awaited,
                        Answered, SurfaceOrSource, AdminOnly, Working
  <2> QED
    BY <1>4, <2>1, <2>2, ApprovalAsksCarry
<1>5. CASE ask \in SurfaceAsks(a)
  <2>1. CASE ask.op = "createSurface"
    <3>1. ask.value \in SurfaceStatuses /\ ask.target = None
      BY <1>5, <2>1, SurfaceAsksCarry DEF BadRequest
    <3>2. Begun("createSurface", IF ask.run # None THEN "run"
                                 ELSE IF ask.item # None THEN "item" ELSE "put")
      BY <1>5, <2>1, <3>1, SurfaceAsksCarry DEF FirstCall
    <3>3. PICK pc \in {"run", "item", "put"} :
             /\ Begun("createSurface", pc)
             /\ pc # "run" => ask.run = None
             /\ pc = "put" => ask.item = None
      BY <3>2
    <3> QED
      BY <1>2, <3>1, <3>3 DEF Facts, Fields, Checked, RunChecked, ItemChecked, Awaited,
                              Answered, SurfaceOrSource, AdminOnly, Working
  <2>2. CASE ask.op = "updateSurface"
    <3>1. ask.target \in Requests /\ Begun("updateSurface", "get")
      BY <1>1, <1>5, <2>2, SurfaceAsksCarry DEF FirstCall
    <3> QED
      BY <1>2, <3>1 DEF Facts, Fields, Checked, RunChecked, ItemChecked, Awaited,
                        Answered, SurfaceOrSource, AdminOnly, Working
  <2>3. CASE ask.op = "publishSurface"
    <3>1. /\ ask.target \in Requests /\ ask.value \in Urls \union {None}
          /\ Begun("publishSurface", "get")
      BY <1>1, <1>5, <2>3, SurfaceAsksCarry DEF FirstCall
    <3> QED
      BY <1>2, <3>1 DEF Facts, Fields, Checked, RunChecked, ItemChecked, Awaited,
                        Answered, SurfaceOrSource, AdminOnly, Working
  <2> QED
    BY <1>5, <2>1, <2>2, <2>3, SurfaceAsksCarry
<1>6. CASE ask \in DataSourceRefAsks(a)
  <2>1. ask.op = "createDataSourceRef" /\ ask.target = None /\ (ask.run # None \/ ask.item # None)
    BY <1>6, DataSourceRefAsksCarry DEF BadRequest
  <2>2. Begun("createDataSourceRef", IF ask.run # None THEN "run" ELSE "item")
    BY <1>6, <2>1, DataSourceRefAsksCarry DEF FirstCall
  <2>3. PICK pc \in {"run", "item"} :
           Begun("createDataSourceRef", pc) /\ (pc # "run" => ask.run = None)
    BY <2>2
  <2> QED
    BY <1>2, <2>1, <2>3 DEF Facts, Fields, Checked, RunChecked, ItemChecked, Awaited,
                            Answered, SurfaceOrSource, AdminOnly, Working
<1>7. CASE ask \in AgentProfileAsks(a)
  <2>1. CASE ask.op = "createAgentProfileDraft"
    <3>1. /\ ask.target \in ProfileKeys /\ ask.target[1] = a.ws /\ ask.value \in Contents
          /\ Begun("createAgentProfileDraft", "bundle") /\ ask.ws = a.ws
      BY <1>7, <2>1, AgentProfileAsksCarry DEF BadRequest, FirstCall, Carried
    <3> QED
      BY <1>2, <3>1 DEF Facts, Fields, Checked, RunChecked, ItemChecked, Awaited,
                        Answered, SurfaceOrSource, AdminOnly, Working
  <2>2. CASE ask.op = "approveAgentProfileVersion"
    <3>1. ask.target \in ProfileKeys /\ Begun("approveAgentProfileVersion", "get")
      BY <1>1, <1>7, <2>2, AgentProfileAsksCarry DEF FirstCall
    <3> QED
      BY <1>2, <3>1 DEF Facts, Fields, Checked, RunChecked, ItemChecked, Awaited,
                        Answered, SurfaceOrSource, AdminOnly, Working
  <2> QED
    BY <1>7, <2>1, <2>2, AgentProfileAsksCarry
<1>8. CASE ask \in RunnerStateAsks(a)
  <2>1. CASE ask.op = "registerHostNode"
    <3>1. /\ ask.target \in Hosts /\ ask.value \in Placements
          /\ Begun("registerHostNode", "get")
      BY <1>1, <1>8, <2>1, RunnerStateAsksCarry DEF BadRequest, FirstCall
    <3> QED
      BY <1>2, <3>1 DEF Facts, Fields, Checked, RunChecked, ItemChecked, Awaited,
                        Answered, SurfaceOrSource, AdminOnly, Working
  <2>2. CASE ask.op = "heartbeatHostNode"
    <3>1. /\ ask.target \in Hosts /\ ask.value \in (Statuses \ {Blank}) \union {None}
          /\ Begun("heartbeatHostNode", "get")
      BY <1>1, <1>8, <2>2, RunnerStateAsksCarry DEF FirstCall
    <3> QED
      BY <1>2, <3>1 DEF Facts, Fields, Checked, RunChecked, ItemChecked, Awaited,
                        Answered, SurfaceOrSource, AdminOnly, Working
  <2> QED
    BY <1>8, <2>1, <2>2, RunnerStateAsksCarry
<1>9. CASE ask \in EngagementAsks(a)
  <2>1. ask.run \in WorkIds /\ Begun("userEngagement", "run")
    BY <1>1, <1>9, EngagementAsksCarry DEF FirstCall
  <2> QED
    BY <1>2, <2>1 DEF Facts, Fields, Checked, RunChecked, ItemChecked, Awaited,
                      Answered, SurfaceOrSource, AdminOnly, Working
<1> QED
  BY <1>3, <1>4, <1>5, <1>6, <1>7, <1>8, <1>9 DEF Asks

LEMMA Receives ==
    ASSUME IInv, NEW c \in Requests, UNCHANGED scenario, Receive(c)
    PROVE  IInv' /\ ChangesStep
<1>1. PICK a \in scenario.callers : \E ask \in Asks(a) :
         req' = [req EXCEPT ![c] = [ask EXCEPT !.pc =
              IF \/ ~HasProductAccessGroup(a)
                 \/ ask.op \in AdminOnly /\ ~IsAdminUser(a) THEN "forbidden"
              ELSE IF BadRequest(ask) THEN "badRequest"
              ELSE FirstCall(ask)]]
  BY DEF Receive
<1>2. PICK ask \in Asks(a) :
         req' = [req EXCEPT ![c] = [ask EXCEPT !.pc =
              IF \/ ~HasProductAccessGroup(a)
                 \/ ask.op \in AdminOnly /\ ~IsAdminUser(a) THEN "forbidden"
              ELSE IF BadRequest(ask) THEN "badRequest"
              ELSE FirstCall(ask)]]
  BY <1>1
<1>3. a \in Callers /\ req[c].pc = "idle" /\ UNCHANGED tables
  BY RecordsAssumption DEF Receive, IInv
<1>4. Carried(ask, a)
  BY <1>3, WorkItemAsksCarry, ApprovalAsksCarry, SurfaceAsksCarry, DataSourceRefAsksCarry,
     AgentProfileAsksCarry, RunnerStateAsksCarry, EngagementAsksCarry DEF Asks
<1>5. ASSUME NEW pc \in {"forbidden", "badRequest"},
             req' = [req EXCEPT ![c] = [ask EXCEPT !.pc = pc]]
      PROVE  IInv' /\ ChangesStep
  <2>1. PICK q : q = [ask EXCEPT !.pc = pc]
    OBVIOUS
  <2>2. q \in RequestType /\ q.pc = pc
    BY <1>4, <2>1 DEF Carried, RequestType
  <2>3. Facts(c, q) /\ ~Decides(q)
    BY <2>2 DEF Facts, Fields, Checked, RunChecked, ItemChecked, Awaited, Answered, Decides
  <2> QED
    BY <1>3, <1>5, <2>1, <2>2, <2>3, OnlyMoves
<1>6. ASSUME ~BadRequest(ask),
             req' = [req EXCEPT ![c] = [ask EXCEPT !.pc = FirstCall(ask)]]
      PROVE  IInv' /\ ChangesStep
  <2>1. PICK q : q = [ask EXCEPT !.pc = FirstCall(ask)]
    OBVIOUS
  <2>2. FirstCall(ask) \in Working /\ Facts(c, q)
    BY <1>3, <1>6, <2>1, Begins
  <2>3. q \in RequestType /\ q.pc = FirstCall(ask)
    BY <1>4, <2>1, <2>2 DEF Carried, RequestType
  <2>4. ~Decides(q) /\ q.pc # "idle"
    <3>1. FirstCall(ask) # "update"
      BY DEF FirstCall
    <3> QED
      BY <2>2, <2>3, <3>1 DEF Decides, Working
  <2> QED
    BY <1>3, <1>6, <2>1, <2>2, <2>3, <2>4, OnlyMoves
<1>7. CASE \/ ~HasProductAccessGroup(a)
           \/ ask.op \in AdminOnly /\ ~IsAdminUser(a)
  BY <1>2, <1>5, <1>7
<1>8. CASE ~(\/ ~HasProductAccessGroup(a)
             \/ ask.op \in AdminOnly /\ ~IsAdminUser(a))
  BY <1>2, <1>5, <1>6, <1>8
<1> QED
  BY <1>7, <1>8

-----------------------------------------------------------------------------
(***************************************************************************)
(* The writes of the handlers.                                             *)
(***************************************************************************)

\* The request that writes is the one that moves.
LEMMA WriterMoves ==
    ASSUME IInv, NEW c \in Requests, req[c].pc \in Working,
           NEW pc \in Answers \union Working, Goto(c, pc),
           NEW q, q = [req[c] EXCEPT !.pc = pc]
    PROVE  /\ req' = [req EXCEPT ![c] = q] /\ q \in RequestType
           /\ \A d \in Requests : req[d].pc # "idle" =>
                req'[d].pc # "idle" /\ req'[d].user = req[d].user /\ req'[d].ws = req[d].ws
<1>1. req' = [req EXCEPT ![c] = q] /\ req \in [Requests -> RequestType]
  BY DEF Goto, IInv, RequestsOk
<1>2. q \in RequestType /\ q.pc # "idle" /\ q.user = req[c].user /\ q.ws = req[c].ws
  BY AtAnotherPc
<1> QED
  BY <1>1, <1>2

LEMMA NewIdIs ==
    ASSUME IInv, NEW c \in Requests,
           req[c].op \in {"createWorkItem", "createWorkItemRun"},
           req[c].pc \notin {"idle", "forbidden", "badRequest"}
    PROVE  /\ NewId(c) \in WorkIds
           /\ NewId(c) \in Scopes => NewId(c) = <<req[c].user, req[c].ws, req[c].value>>
           /\ NewId(c) \in Requests => NewId(c) = c
<1>1. req[c].user \in Users /\ req[c].ws \in Workspaces /\ req[c].value \in Keys \union {None}
  BY DEF IInv, RequestsOk, RequestType, Facts, Fields
<1>2. CASE req[c].value = None
  BY <1>2, RecordsAssumption DEF NewId, WorkIds
<1>3. CASE req[c].value # None
  <2>1. NewId(c) = <<req[c].user, req[c].ws, req[c].value>> /\ NewId(c) \in Scopes
    BY <1>1, <1>3 DEF NewId, Scope, Scopes
  <2> QED
    BY <2>1, RecordsAssumption DEF WorkIds
<1> QED
  BY <1>2, <1>3

LEMMA CreateWorkItemWrites ==
    ASSUME IInv, NEW c \in Requests, UNCHANGED scenario,
           At(c, "createWorkItem", "put"),
           PutWorkItem(c, [user |-> req[c].user, ws |-> req[c].ws,
                           status |-> "open", wsStatus |-> <<req[c].ws, "open">>])
    PROVE  IInv' /\ ChangesStep
<1> DEFINE row == [user |-> req[c].user, ws |-> req[c].ws,
                   status |-> "open", wsStatus |-> <<req[c].ws, "open">>]
<1>1. /\ req[c].pc \in Working /\ req[c].op = "createWorkItem"
      /\ UNCHANGED <<runs, approvals, surfaces, sources, profiles, bundles, hosts, log, artifacts>>
  BY DEF At, Working, PutWorkItem, links, registry, ledger
<1>2. CASE items[NewId(c)] # None
  <2>1. Goto(c, "error") /\ UNCHANGED tables
    BY <1>2 DEF PutWorkItem, PutNew, tables, work
  <2> QED
    BY <1>1, <2>1, Stops
<1>3. CASE items[NewId(c)] = None
  <2>1. items' = [items EXCEPT ![NewId(c)] = row] /\ Goto(c, "created")
    BY <1>3 DEF PutWorkItem, PutNew
  <2>2. PICK q : q = [req[c] EXCEPT !.pc = "created"]
    OBVIOUS
  <2>3. /\ q.op = "createWorkItem" /\ q.pc = "created" /\ q.value = req[c].value
        /\ q.user = req[c].user /\ q.ws = req[c].ws /\ Fields(q)
    BY <1>1, <2>2, AtAnotherPc DEF Answers
  <2>4. /\ req' = [req EXCEPT ![c] = q] /\ q \in RequestType
        /\ \A d \in Requests : req[d].pc # "idle" =>
             req'[d].pc # "idle" /\ req'[d].user = req[d].user /\ req'[d].ws = req[d].ws
    BY <1>1, <2>1, <2>2, WriterMoves DEF Answers
  <2>5. /\ NewId(c) \in WorkIds
        /\ NewId(c) \in Scopes => NewId(c) = <<req[c].user, req[c].ws, req[c].value>>
        /\ NewId(c) \in Requests => NewId(c) = c
    BY <1>1, NewIdIs DEF Working
  <2>6. row \in WorkItemRecord /\ row # None /\ row.wsStatus = <<row.ws, row.status>>
    <3>1. req[c].user \in Users /\ req[c].ws \in Workspaces
      BY DEF IInv, RequestsOk, RequestType
    <3>2. row \in WorkItemRecord
      BY <3>1 DEF WorkItemRecord, WorkStatuses
    <3> QED
      BY <3>2, RecordsAssumption
  <2>7. row.user = q.user /\ row.ws = q.ws
    BY <2>3
  <2> HIDE DEF row
  <2>8. \A i \in WorkIds : items'[i] = IF i = NewId(c) THEN row ELSE items[i]
    BY <2>1, <2>5 DEF IInv, ItemsOk
  <2>9. Kept
    BY <1>1, <1>3, <2>4, <2>8 DEF Kept, SameOwnerAs
  <2>10. Keyed(items)'
    <3>1. Keyed(items) /\ req \in [Requests -> RequestType]
      BY DEF IInv, ItemsOk, RequestsOk
    <3>2. ASSUME NEW i \in WorkIds, items'[i] # None
          PROVE  /\ i \in Scopes => items'[i].user = i[1] /\ items'[i].ws = i[2]
                 /\ i \in Requests => req'[i].pc # "idle" /\ SameOwner(items'[i], req'[i])
      <4>1. CASE i = NewId(c)
        BY <2>3, <2>4, <2>5, <2>6, <2>7, <2>8, <3>1, <4>1 DEF SameOwner
      <4>2. CASE i # NewId(c)
        BY <2>4, <2>8, <3>1, <3>2, <4>2 DEF Keyed, SameOwner
      <4> QED
        BY <4>1, <4>2
    <3> QED
      BY <3>2 DEF Keyed, SameOwner
  <2>11. ItemsOk'
    <3>1. items' \in [WorkIds -> WorkItemRecord \union {None}]
      BY <2>1, <2>6 DEF IInv, ItemsOk
    <3>2. \A i \in WorkIds :
            items'[i] # None => items'[i].wsStatus = <<items'[i].ws, items'[i].status>>
      BY <2>6, <2>8 DEF IInv, ItemsOk
    <3> QED
      BY <2>10, <3>1, <3>2 DEF ItemsOk
  <2>12. items'[IdOf(c, q)] # None
    <3>1. IdOf(c, q) = NewId(c)
      BY <2>3 DEF IdOf, NewId, Scope
    <3> QED
      BY <2>5, <2>6, <2>8, <3>1
  <2>13. Facts(c, q)'
    BY <2>3, <2>12 DEF Facts, Fields, Checked, RunChecked, ItemChecked, Awaited, Answered,
                       IdOf, Scope, SurfaceOrSource, AdminOnly
  <2>14. RequestsOk'
    BY <2>4, <2>9, <2>13, OneMoves
  <2>15. IInv'
    BY <1>1, <2>9, <2>11, <2>14, WorkStays, LinksTablesStay, OtherTablesStay DEF IInv
  <2>16. SettledStep
    BY <1>1, <2>3, <2>4, SettledKept DEF IInv, RequestsOk, Decides
  <2>17. StatusStep
    BY <1>3, <2>8 DEF StatusStep
  <2> QED
    BY <1>1, <2>15, <2>16, <2>17 DEF ChangesStep, UrlStep, ApprovalStep
<1> QED
  BY <1>2, <1>3

LEMMA UpdateWorkItemStatusWrites ==
    ASSUME IInv, NEW c \in Requests, UNCHANGED scenario,
           At(c, "updateWorkItemStatus", "update"), UpdateWorkItemStatus(c)
    PROVE  IInv' /\ ChangesStep
<1> DEFINE p == req[c]
           old == items[p.item]
           new == [old EXCEPT !.status = p.value, !.wsStatus = <<p.ws, p.value>>]
<1>1. /\ p.pc \in Working /\ p.op = "updateWorkItemStatus" /\ Goto(c, "ok")
      /\ items' = [items EXCEPT ![p.item].status = p.value,
                                ![p.item].wsStatus = <<p.ws, p.value>>]
      /\ UNCHANGED <<runs, approvals, surfaces, sources, profiles, bundles, hosts, log, artifacts>>
  BY DEF At, Working, UpdateWorkItemStatus, UpdateWorkItem, links, registry, ledger
<1>2. /\ p \in RequestType /\ p.item \in WorkIds /\ p.value \in WorkStatuses
      /\ OwnsItem(p)
  <2>1. p \in RequestType /\ Facts(c, p) /\ p.op = "updateWorkItemStatus" /\ p.pc = "update"
    BY DEF At, IInv, RequestsOk
  <2> QED
    BY <2>1 DEF Facts, Fields, Awaited, Checked, ItemChecked
<1>3. /\ old # None /\ old.user = p.user /\ old.ws = p.ws
      /\ old \in WorkItemRecord
  <2>1. old # None /\ old.user = p.user /\ old.ws = p.ws
    BY <1>2 DEF OwnsItem, OwnedBy, GetWorkItem, ByKey
  <2> QED
    BY <1>2, <2>1 DEF IInv, ItemsOk
<1>4. items' = [items EXCEPT ![p.item] = new]
  BY <1>1, <1>2 DEF IInv, ItemsOk
<1>5. PICK q : q = [req[c] EXCEPT !.pc = "ok"]
  OBVIOUS
<1>6. q.op = "updateWorkItemStatus" /\ q.pc = "ok" /\ Fields(q)
  BY <1>1, <1>5, AtAnotherPc DEF Answers
<1>7. /\ req' = [req EXCEPT ![c] = q] /\ q \in RequestType
      /\ \A d \in Requests : req[d].pc # "idle" =>
           req'[d].pc # "idle" /\ req'[d].user = req[d].user /\ req'[d].ws = req[d].ws
  BY <1>1, <1>5, WriterMoves DEF Answers
<1>8. At(c, "updateWorkItemStatus", "update") /\ req[c].item = p.item /\ req[c].user = p.user /\ req[c].value = p.value
  OBVIOUS
<1> HIDE DEF p, old
<1>9. /\ new \in WorkItemRecord /\ new.user = old.user /\ new.ws = old.ws
      /\ new.status = p.value /\ new.wsStatus = <<new.ws, new.status>>
  BY <1>2, <1>3 DEF WorkItemRecord, RequestType
<1>10. new # None
  BY <1>9, RecordsAssumption
<1> HIDE DEF new
<1>11. \A i \in WorkIds : items'[i] = IF i = p.item THEN new ELSE items[i]
  BY <1>2, <1>4 DEF IInv, ItemsOk
<1>12. \A i \in WorkIds : items[i] # None => SameOwnerAs(items'[i], items[i])
  BY <1>9, <1>10, <1>11 DEF SameOwnerAs, old
<1>13. Kept
  BY <1>1, <1>7, <1>12 DEF Kept, SameOwnerAs
<1>14. ItemsOk'
  <2>1. items' \in [WorkIds -> WorkItemRecord \union {None}]
    BY <1>4, <1>9 DEF IInv, ItemsOk
  <2>2. \A i \in WorkIds : items'[i] # None =>
           /\ SameOwnerAs(items'[i], items[i]) /\ items[i] # None
           /\ items'[i].wsStatus = <<items'[i].ws, items'[i].status>>
    BY <1>3, <1>9, <1>11, <1>12 DEF old, IInv, ItemsOk
  <2>3. Keyed(items)'
    BY <1>7, <2>2 DEF Keyed, SameOwner, SameOwnerAs, IInv, ItemsOk
  <2> QED
    BY <2>1, <2>2, <2>3 DEF ItemsOk
<1>15. Facts(c, q)'
  BY <1>6 DEF Facts, Fields, Checked, RunChecked, ItemChecked, Awaited, Answered,
              SurfaceOrSource, AdminOnly
<1>16. RequestsOk'
  BY <1>7, <1>13, <1>15, OneMoves
<1>17. IInv'
  BY <1>1, <1>13, <1>14, <1>16, WorkStays, LinksTablesStay, OtherTablesStay DEF IInv
<1>18. SettledStep
  BY <1>1, <1>6, <1>7, SettledKept DEF IInv, RequestsOk, Decides
<1>19. StatusStep
  <2> SUFFICES ASSUME NEW i \in WorkIds, items[i] # None, items'[i] # items[i]
               PROVE  /\ At(c, "updateWorkItemStatus", "update") /\ req[c].item = i
                      /\ req[c].user = items[i].user /\ items'[i].status = req[c].value
    BY DEF StatusStep
  <2>1. i = p.item /\ items'[i] = new /\ items[i] = old
    BY <1>11 DEF old
  <2> QED
    BY <1>3, <1>8, <1>9, <2>1
<1> QED
  BY <1>1, <1>17, <1>18, <1>19 DEF ChangesStep, UrlStep, ApprovalStep

\* A run of a work item: its ledger is written once, and a request that finds
\* it leaves it as it is (create-run.ts:24-60).
LEMMA CreateWorkItemRunWrites ==
    ASSUME IInv, NEW c \in Requests, UNCHANGED scenario,
           At(c, "createWorkItemRun", "ledger"), CreateRunLedger(c)
    PROVE  IInv' /\ ChangesStep
<1> DEFINE row == [user |-> req[c].user, ws |-> req[c].ws, item |-> req[c].item]
<1>1. /\ req[c].pc \in Working /\ req[c].op = "createWorkItemRun"
      /\ UNCHANGED <<items, approvals, surfaces, sources, profiles, bundles, hosts, log, artifacts>>
  BY DEF At, Working, CreateRunLedger, links, registry, ledger
<1>2. /\ req[c] \in RequestType /\ req[c].item \in WorkIds /\ OwnsItem(req[c])
  <2>1. /\ req[c] \in RequestType /\ Facts(c, req[c])
        /\ req[c].op = "createWorkItemRun" /\ req[c].pc = "ledger"
    BY DEF At, IInv, RequestsOk
  <2> QED
    BY <2>1 DEF Facts, Fields, Checked, ItemChecked
<1>3. PICK q : q = [req[c] EXCEPT !.pc = "accepted"]
  OBVIOUS
<1>4. /\ q.op = "createWorkItemRun" /\ q.pc = "accepted" /\ q.value = req[c].value
      /\ q.item = req[c].item /\ q.user = req[c].user /\ q.ws = req[c].ws /\ Fields(q)
  BY <1>1, <1>3, AtAnotherPc DEF Answers
<1>5. OwnsItem(q) /\ IdOf(c, q) = NewId(c)
  BY <1>2, <1>4 DEF OwnsItem, IdOf, NewId, Scope
<1>6. CASE runs[NewId(c)] # None
  <2>1. UNCHANGED tables /\ (Goto(c, "accepted") \/ Goto(c, "error"))
    BY <1>1, <1>6 DEF CreateRunLedger, tables, work, links, registry, ledger
  <2>2. ASSUME Goto(c, "accepted") PROVE IInv' /\ ChangesStep
    <3>1. Checked(q) /\ Awaited(q) /\ Answered(c, q) /\ ~Decides(q)
      BY <1>4, <1>5, <1>6 DEF Checked, RunChecked, Awaited, Answered, Decides,
                              SurfaceOrSource, AdminOnly
    <3> QED
      BY <1>1, <1>3, <2>1, <2>2, <3>1, Passes DEF Answers
  <2> QED
    BY <1>1, <2>1, <2>2, Stops
<1>7. CASE runs[NewId(c)] = None
  <2>1. runs' = [runs EXCEPT ![NewId(c)] = row] /\ Goto(c, "accepted")
    BY <1>7 DEF CreateRunLedger
  <2>2. /\ req' = [req EXCEPT ![c] = q] /\ q \in RequestType
        /\ \A d \in Requests : req[d].pc # "idle" =>
             req'[d].pc # "idle" /\ req'[d].user = req[d].user /\ req'[d].ws = req[d].ws
    BY <1>1, <1>3, <2>1, WriterMoves DEF Answers
  <2>3. /\ NewId(c) \in WorkIds
        /\ NewId(c) \in Scopes => NewId(c) = <<req[c].user, req[c].ws, req[c].value>>
        /\ NewId(c) \in Requests => NewId(c) = c
    BY <1>1, NewIdIs DEF Working
  <2>4. row \in RunRecord /\ row # None
    <3>1. row \in RunRecord
      BY <1>2 DEF RequestType, RunRecord
    <3> QED
      BY <3>1, RecordsAssumption
  <2>5. row.user = q.user /\ row.ws = q.ws /\ ItemIsOwned(row)
    <3>1. row.user = req[c].user /\ row.ws = req[c].ws /\ row.item = req[c].item
      OBVIOUS
    <3> QED
      BY <1>2, <1>4, <3>1 DEF ItemIsOwned, OwnsItem
  <2>6. PICK new : new = row
    OBVIOUS
  <2> HIDE DEF row
  <2>7. \A r \in WorkIds : runs'[r] = IF r = NewId(c) THEN new ELSE runs[r]
    BY <2>1, <2>3, <2>6 DEF IInv, RunsOk
  <2>8. Kept
    BY <1>1, <1>7, <2>2, <2>7 DEF Kept, SameOwnerAs
  <2>9. Keyed(runs)'
    <3>1. Keyed(runs) /\ req \in [Requests -> RequestType]
      BY DEF IInv, RunsOk, RequestsOk
    <3>2. ASSUME NEW i \in WorkIds, runs'[i] # None
          PROVE  /\ i \in Scopes => runs'[i].user = i[1] /\ runs'[i].ws = i[2]
                 /\ i \in Requests => req'[i].pc # "idle" /\ SameOwner(runs'[i], req'[i])
      <4>1. CASE i = NewId(c)
        BY <1>4, <2>2, <2>3, <2>4, <2>5, <2>6, <2>7, <3>1, <4>1 DEF SameOwner
      <4>2. CASE i # NewId(c)
        BY <2>2, <2>7, <3>1, <3>2, <4>2 DEF Keyed, SameOwner
      <4> QED
        BY <4>1, <4>2
    <3> QED
      BY <3>2 DEF Keyed, SameOwner
  <2>10. RunsOk'
    <3>1. runs' \in [WorkIds -> RunRecord \union {None}]
      BY <2>1, <2>4 DEF IInv, RunsOk
    <3>2. ASSUME NEW r \in WorkIds, runs'[r] # None PROVE ItemIsOwned(runs[r])'
      <4>1. PICK x : x = runs'[r]
        OBVIOUS
      <4>2. x \in RunRecord /\ ItemIsOwned(x)
        BY <2>4, <2>5, <2>6, <2>7, <3>2, <4>1 DEF IInv, RunsOk
      <4>3. ItemIsOwned(x)'
        BY <2>8, <4>2, ItemLinkStays DEF RunRecord
      <4> QED
        BY <4>1, <4>3 DEF ItemIsOwned
    <3> QED
      BY <2>9, <3>1, <3>2 DEF RunsOk
  <2>11. runs'[IdOf(c, q)] # None
    BY <1>5, <2>3, <2>4, <2>6, <2>7
  <2>12. OwnsItem(q)'
    BY <1>1, <1>5 DEF OwnsItem, GetWorkItem, ByKey
  <2>13. Facts(c, q)'
    BY <1>4, <2>11, <2>12 DEF Facts, Fields, Checked, RunChecked, Awaited, Answered,
                              IdOf, Scope, SurfaceOrSource, AdminOnly
  <2>14. RequestsOk'
    BY <2>2, <2>8, <2>13, OneMoves
  <2>15. IInv'
    BY <1>1, <2>8, <2>10, <2>14, WorkStays, LinksTablesStay, OtherTablesStay DEF IInv
  <2>16. SettledStep
    BY <1>1, <1>4, <2>2, SettledKept DEF IInv, RequestsOk, Decides
  <2> QED
    BY <1>1, <2>15, <2>16 DEF ChangesStep, StatusStep, UrlStep, ApprovalStep
<1> QED
  BY <1>6, <1>7

LEMMA CreateApprovalWrites ==
    ASSUME IInv, NEW c \in Requests, UNCHANGED scenario,
           At(c, "createApproval", "put"),
           PutApproval(c, [user |-> req[c].user, ws |-> req[c].ws, run |-> req[c].run,
                           item |-> req[c].item, status |-> "requested",
                           decidedBy |-> None])
    PROVE  IInv' /\ ChangesStep
<1> DEFINE row == [user |-> req[c].user, ws |-> req[c].ws, run |-> req[c].run,
                   item |-> req[c].item, status |-> "requested", decidedBy |-> None]
<1>1. /\ req[c].pc \in Working /\ req[c].op = "createApproval"
      /\ UNCHANGED <<items, runs, surfaces, sources, profiles, bundles, hosts, log, artifacts>>
  BY DEF At, Working, PutApproval, work, registry, ledger
<1>2. CASE approvals[c] # None
  <2>1. Goto(c, "error") /\ UNCHANGED tables
    BY <1>1, <1>2 DEF PutApproval, PutNew, tables, work, links, registry, ledger
  <2> QED
    BY <1>1, <2>1, Stops
<1>3. CASE approvals[c] = None
  <2>1. approvals' = [approvals EXCEPT ![c] = row] /\ Goto(c, "created")
    BY <1>3 DEF PutApproval, PutNew
  <2>2. /\ req[c] \in RequestType /\ req[c].run \in WorkIds /\ OwnsRun(req[c])
    <3>1. /\ req[c] \in RequestType /\ Facts(c, req[c])
          /\ req[c].op = "createApproval" /\ req[c].pc = "put"
      BY DEF At, IInv, RequestsOk
    <3> QED
      BY <3>1 DEF Facts, Fields, Checked, RunChecked
  <2>3. PICK q : q = [req[c] EXCEPT !.pc = "created"]
    OBVIOUS
  <2>4. /\ q.op = "createApproval" /\ q.pc = "created" /\ q.run = req[c].run
        /\ q.user = req[c].user /\ q.ws = req[c].ws /\ Fields(q)
    BY <1>1, <2>3, AtAnotherPc DEF Answers
  <2>5. /\ req' = [req EXCEPT ![c] = q] /\ q \in RequestType
        /\ \A d \in Requests : req[d].pc # "idle" =>
             req'[d].pc # "idle" /\ req'[d].user = req[d].user /\ req'[d].ws = req[d].ws
    BY <1>1, <2>1, <2>3, WriterMoves DEF Answers
  <2>6. PICK new : new = row
    OBVIOUS
  <2>7. /\ new \in ApprovalRecord /\ new.user = q.user /\ new.ws = q.ws /\ new.run = q.run
        /\ new.status = "requested" /\ new.decidedBy = None
    BY <2>2, <2>4, <2>6 DEF ApprovalRecord, RequestType
  <2>8. \A x \in Requests : approvals'[x] = IF x = c THEN new ELSE approvals[x]
    BY <2>1, <2>6 DEF IInv, ApprovalsOk
  <2> HIDE DEF row
  <2>9. OwnsRun(q) /\ OwnsRun(q)' /\ new # None
    BY <1>1, <2>2, <2>4, <2>7, RecordsAssumption DEF OwnsRun, GetRunById
  <2>10. Kept
    BY <1>1, <1>3, <2>5, <2>8 DEF Kept, SameOwnerAs
  <2>11. ApprovalsOk'
    <3>1. approvals' \in [Requests -> ApprovalRecord \union {None}]
      BY <2>1, <2>6, <2>7 DEF IInv, ApprovalsOk
    <3>2. ASSUME NEW x \in Requests, approvals'[x] # None
          PROVE  /\ RunIsOwned(approvals[x])'
                 /\ approvals'[x].status = "requested" <=> approvals'[x].decidedBy = None
      <4>1. PICK y : y = approvals'[x]
        OBVIOUS
      <4>2. RunIsOwned(new)
        BY <2>7, <2>9 DEF RunIsOwned, OwnsRun, GetRunById
      <4>3. /\ y \in ApprovalRecord /\ RunIsOwned(y)
            /\ y.status = "requested" <=> y.decidedBy = None
        BY <2>7, <2>8, <3>2, <4>1, <4>2 DEF IInv, ApprovalsOk
      <4>4. RunIsOwned(y)'
        BY <2>10, <4>3, RunLinkStays DEF ApprovalRecord
      <4> QED
        BY <4>1, <4>3, <4>4 DEF RunIsOwned
    <3> QED
      BY <3>1, <3>2 DEF ApprovalsOk
  <2>12. SameOwner(approvals'[c], q) /\ approvals'[c].run = q.run
    BY <2>7, <2>8, <2>9 DEF SameOwner
  <2>13. Facts(c, q)'
    BY <2>4, <2>9, <2>12 DEF Facts, Fields, Checked, ItemChecked, Awaited, Answered,
                             SurfaceOrSource, AdminOnly, SameOwner
  <2>14. RequestsOk'
    BY <2>5, <2>10, <2>13, OneMoves
  <2>15. IInv'
    BY <1>1, <2>10, <2>11, <2>14, WorkStays, LinksTablesStay, OtherTablesStay DEF IInv
  <2>16. SettledStep
    <3>1. req \in [Requests -> RequestType]
      BY DEF IInv, RequestsOk
    <3> QED
      BY <1>3, <2>4, <2>5, <2>8, <3>1 DEF SettledStep, Settled, At
  <2> QED
    BY <1>1, <2>15, <2>16 DEF ChangesStep, StatusStep, UrlStep, ApprovalStep
<1> QED
  BY <1>2, <1>3

LEMMA DecideApprovalWrites ==
    ASSUME IInv, NEW c \in Requests, UNCHANGED scenario,
           At(c, "decideApproval", "update"), DecideApproval(c)
    PROVE  IInv' /\ ChangesStep
<1> DEFINE p == req[c]
           old == approvals[p.target]
           new == [old EXCEPT !.status = p.value, !.decidedBy = p.user]
<1>1. /\ p.pc \in Working /\ p.op = "decideApproval" /\ p.pc = "update" /\ Goto(c, "ok")
      /\ approvals' = [approvals EXCEPT ![p.target].status = p.value,
                                        ![p.target].decidedBy = p.user]
      /\ UNCHANGED <<items, runs, surfaces, sources, profiles, bundles, hosts, log, artifacts>>
  BY DEF At, Working, DecideApproval, UpdateApproval, work, registry, ledger
<1>2. /\ p \in RequestType /\ p.target \in Requests
      /\ old # None /\ p.value \in {"approved", "rejected"}
  <2>1. p \in RequestType /\ Facts(c, p) /\ p.op = "decideApproval" /\ p.pc = "update"
    BY DEF At, IInv, RequestsOk
  <2> QED
    BY <2>1 DEF Facts, Fields, Awaited
<1>3. old \in ApprovalRecord
  BY <1>2 DEF IInv, ApprovalsOk
<1>4. approvals' = [approvals EXCEPT ![p.target] = new]
  BY <1>1, <1>2 DEF IInv, ApprovalsOk
<1>5. PICK q : q = [req[c] EXCEPT !.pc = "ok"]
  OBVIOUS
<1>6. q.op = "decideApproval" /\ q.pc = "ok" /\ Fields(q)
  BY <1>1, <1>5, AtAnotherPc DEF Answers
<1>7. /\ req' = [req EXCEPT ![c] = q] /\ q \in RequestType
      /\ \A d \in Requests : req[d].pc # "idle" =>
           req'[d].pc # "idle" /\ req'[d].user = req[d].user /\ req'[d].ws = req[d].ws
  BY <1>1, <1>5, WriterMoves DEF Answers
<1>8. At(c, "decideApproval", "update") /\ req[c].target = p.target
  OBVIOUS
<1> HIDE DEF p, old
<1>9. /\ new \in ApprovalRecord
      /\ new.user = old.user /\ new.ws = old.ws /\ new.run = old.run
      /\ new.status \in {"approved", "rejected"} /\ new.decidedBy = p.user /\ p.user \in Users
  BY <1>2, <1>3 DEF ApprovalRecord, RequestType
<1>10. new # None /\ new.decidedBy # None
  BY <1>9, RecordsAssumption
<1> HIDE DEF new
<1>11. \A x \in Requests : approvals'[x] = IF x = p.target THEN new ELSE approvals[x]
  BY <1>2, <1>4 DEF IInv, ApprovalsOk
<1>12. Kept
  BY <1>1, <1>7, <1>9, <1>10, <1>11 DEF Kept, SameOwnerAs, old
<1>13. ApprovalsOk'
  <2>1. approvals' \in [Requests -> ApprovalRecord \union {None}]
    BY <1>4, <1>9 DEF IInv, ApprovalsOk
  <2>2. ASSUME NEW x \in Requests, approvals'[x] # None
        PROVE  /\ RunIsOwned(approvals[x])'
               /\ approvals'[x].status = "requested" <=> approvals'[x].decidedBy = None
    <3>1. PICK y : y = approvals'[x]
      OBVIOUS
    <3>2. RunIsOwned(new)
      BY <1>2, <1>9 DEF RunIsOwned, IInv, ApprovalsOk, old
    <3>3. /\ y \in ApprovalRecord /\ RunIsOwned(y)
          /\ y.status = "requested" <=> y.decidedBy = None
      BY <1>9, <1>10, <1>11, <2>2, <3>1, <3>2 DEF IInv, ApprovalsOk
    <3>4. RunIsOwned(y)'
      BY <1>12, <3>3, RunLinkStays DEF ApprovalRecord
    <3> QED
      BY <3>1, <3>3, <3>4 DEF RunIsOwned
  <2> QED
    BY <2>1, <2>2 DEF ApprovalsOk
<1>14. Facts(c, q)'
  BY <1>6 DEF Facts, Fields, Checked, RunChecked, ItemChecked, Awaited, Answered,
              SurfaceOrSource, AdminOnly
<1>15. RequestsOk'
  BY <1>7, <1>12, <1>14, OneMoves
<1>16. IInv'
  BY <1>1, <1>12, <1>13, <1>15, WorkStays, LinksTablesStay, OtherTablesStay DEF IInv
<1>17. SettledStep
  <2>1. req \in [Requests -> RequestType]
    BY DEF IInv, RequestsOk
  <2>2. ASSUME NEW x \in Requests, Settled(x)
        PROVE  Settled(x)' /\ approvals'[x] = approvals[x]
    <3>1. x # p.target
      BY <1>8, <2>2 DEF Settled
    <3> QED
      BY <1>6, <1>7, <1>11, <2>1, <2>2, <3>1 DEF Settled, At
  <2> QED
    BY <2>2 DEF SettledStep
<1> QED
  BY <1>1, <1>16, <1>17 DEF ChangesStep, StatusStep, UrlStep, ApprovalStep

LEMMA CreateSurfaceWrites ==
    ASSUME IInv, NEW c \in Requests, UNCHANGED scenario,
           At(c, "createSurface", "put"),
           PutSurface(c, [user |-> req[c].user, ws |-> req[c].ws,
                          run |-> req[c].run, item |-> req[c].item,
                          status |-> req[c].value,
                          wsStatus |-> <<req[c].ws, req[c].value>>, url |-> None])
    PROVE  IInv' /\ ChangesStep
<1> DEFINE row == [user |-> req[c].user, ws |-> req[c].ws,
                   run |-> req[c].run, item |-> req[c].item,
                   status |-> req[c].value,
                   wsStatus |-> <<req[c].ws, req[c].value>>, url |-> None]
<1>1. /\ req[c].pc \in Working /\ req[c].op = "createSurface"
      /\ UNCHANGED <<items, runs, approvals, sources, profiles, bundles, hosts, log, artifacts>>
  BY DEF At, Working, PutSurface, work, registry, ledger
<1>2. CASE surfaces[c] # None
  <2>1. Goto(c, "error") /\ UNCHANGED tables
    BY <1>1, <1>2 DEF PutSurface, PutNew, tables, work, links, registry, ledger
  <2> QED
    BY <1>1, <2>1, Stops
<1>3. CASE surfaces[c] = None
  <2>1. surfaces' = [surfaces EXCEPT ![c] = row] /\ Goto(c, "created")
    BY <1>3 DEF PutSurface, PutNew
  <2>2. /\ req[c] \in RequestType /\ req[c].value \in SurfaceStatuses
        /\ req[c].run # None => OwnsRun(req[c])
        /\ req[c].item # None => OwnsItem(req[c])
    <3>1. /\ req[c] \in RequestType /\ Facts(c, req[c])
          /\ req[c].op = "createSurface" /\ req[c].pc = "put"
      BY DEF At, IInv, RequestsOk
    <3> QED
      BY <3>1 DEF Facts, Fields, Checked, RunChecked, ItemChecked, SurfaceOrSource
  <2>3. PICK q : q = [req[c] EXCEPT !.pc = "created"]
    OBVIOUS
  <2>4. /\ q.op = "createSurface" /\ q.pc = "created"
        /\ q.run = req[c].run /\ q.item = req[c].item
        /\ q.user = req[c].user /\ q.ws = req[c].ws /\ Fields(q)
    BY <1>1, <2>3, AtAnotherPc DEF Answers
  <2>5. /\ req' = [req EXCEPT ![c] = q] /\ q \in RequestType
        /\ \A d \in Requests : req[d].pc # "idle" =>
             req'[d].pc # "idle" /\ req'[d].user = req[d].user /\ req'[d].ws = req[d].ws
    BY <1>1, <2>1, <2>3, WriterMoves DEF Answers
  <2>6. PICK new : new = row
    OBVIOUS
  <2>7. /\ new \in SurfaceRecord /\ new.user = q.user /\ new.ws = q.ws
        /\ new.run = q.run /\ new.item = q.item
        /\ new.wsStatus = <<new.ws, new.status>>
    BY <2>2, <2>4, <2>6 DEF SurfaceRecord, RequestType
  <2>8. \A x \in Requests : surfaces'[x] = IF x = c THEN new ELSE surfaces[x]
    BY <2>1, <2>6 DEF IInv, SurfacesOk
  <2> HIDE DEF row
  <2>9. /\ q.run # None => OwnsRun(q) /\ OwnsRun(q)'
        /\ q.item # None => OwnsItem(q) /\ OwnsItem(q)'
        /\ new # None
    BY <1>1, <2>2, <2>4, <2>7, RecordsAssumption
    DEF OwnsRun, GetRunById, OwnsItem, GetWorkItem, ByKey
  <2>10. Kept
    BY <1>1, <1>3, <2>5, <2>8 DEF Kept, SameOwnerAs
  <2>11. SurfacesOk'
    <3>1. surfaces' \in [Requests -> SurfaceRecord \union {None}]
      BY <2>1, <2>6, <2>7 DEF IInv, SurfacesOk
    <3>2. ASSUME NEW x \in Requests, surfaces'[x] # None
          PROVE  /\ RunIsOwned(surfaces[x])' /\ ItemIsOwned(surfaces[x])'
                 /\ surfaces'[x].wsStatus = <<surfaces'[x].ws, surfaces'[x].status>>
      <4>1. PICK y : y = surfaces'[x]
        OBVIOUS
      <4>2. RunIsOwned(new) /\ ItemIsOwned(new)
        BY <2>7, <2>9 DEF RunIsOwned, OwnsRun, GetRunById, ItemIsOwned, OwnsItem
      <4>3. /\ y \in SurfaceRecord /\ RunIsOwned(y) /\ ItemIsOwned(y)
            /\ y.wsStatus = <<y.ws, y.status>>
        BY <2>7, <2>8, <3>2, <4>1, <4>2 DEF IInv, SurfacesOk
      <4>4. RunIsOwned(y)' /\ ItemIsOwned(y)'
        BY <2>10, <4>3, LinksStay DEF SurfaceRecord
      <4> QED
        BY <4>1, <4>3, <4>4 DEF RunIsOwned, ItemIsOwned
    <3> QED
      BY <3>1, <3>2 DEF SurfacesOk
  <2>12. SameOwner(surfaces'[c], q) /\ surfaces'[c].run = q.run /\ surfaces'[c].item = q.item
    BY <2>7, <2>8, <2>9 DEF SameOwner
  <2>13. Facts(c, q)'
    BY <2>4, <2>9, <2>12 DEF Facts, Fields, Checked, RunChecked, ItemChecked, Awaited,
                             Answered, SurfaceOrSource, AdminOnly, SameOwner
  <2>14. RequestsOk'
    BY <2>5, <2>10, <2>13, OneMoves
  <2>15. IInv'
    BY <1>1, <2>10, <2>11, <2>14, WorkStays, LinksTablesStay, OtherTablesStay DEF IInv
  <2>16. SettledStep
    BY <1>1, <2>4, <2>5, SettledKept DEF IInv, RequestsOk, Decides
  <2>17. UrlStep
    BY <1>3, <2>8 DEF UrlStep
  <2> QED
    BY <1>1, <2>15, <2>16, <2>17 DEF ChangesStep, StatusStep, ApprovalStep
<1> QED
  BY <1>2, <1>3

LEMMA CreateDataSourceRefWrites ==
    ASSUME IInv, NEW c \in Requests, UNCHANGED scenario,
           At(c, "createDataSourceRef", "put"),
           PutDataSourceRef(c, [user |-> req[c].user, ws |-> req[c].ws,
                                run |-> req[c].run, item |-> req[c].item])
    PROVE  IInv' /\ ChangesStep
<1> DEFINE row == [user |-> req[c].user, ws |-> req[c].ws,
                   run |-> req[c].run, item |-> req[c].item]
<1>1. /\ req[c].pc \in Working /\ req[c].op = "createDataSourceRef"
      /\ UNCHANGED <<items, runs, approvals, surfaces, profiles, bundles, hosts, log, artifacts>>
  BY DEF At, Working, PutDataSourceRef, work, registry, ledger
<1>2. CASE sources[c] # None
  <2>1. Goto(c, "error") /\ UNCHANGED tables
    BY <1>1, <1>2 DEF PutDataSourceRef, PutNew, tables, work, links, registry, ledger
  <2> QED
    BY <1>1, <2>1, Stops
<1>3. CASE sources[c] = None
  <2>1. sources' = [sources EXCEPT ![c] = row] /\ Goto(c, "created")
    BY <1>3 DEF PutDataSourceRef, PutNew
  <2>2. /\ req[c] \in RequestType
        /\ req[c].run # None => OwnsRun(req[c])
        /\ req[c].item # None => OwnsItem(req[c])
    <3>1. /\ req[c] \in RequestType /\ Facts(c, req[c])
          /\ req[c].op = "createDataSourceRef" /\ req[c].pc = "put"
      BY DEF At, IInv, RequestsOk
    <3> QED
      BY <3>1 DEF Facts, Fields, Checked, RunChecked, ItemChecked, SurfaceOrSource
  <2>3. PICK q : q = [req[c] EXCEPT !.pc = "created"]
    OBVIOUS
  <2>4. /\ q.op = "createDataSourceRef" /\ q.pc = "created"
        /\ q.run = req[c].run /\ q.item = req[c].item
        /\ q.user = req[c].user /\ q.ws = req[c].ws /\ Fields(q)
    BY <1>1, <2>3, AtAnotherPc DEF Answers
  <2>5. /\ req' = [req EXCEPT ![c] = q] /\ q \in RequestType
        /\ \A d \in Requests : req[d].pc # "idle" =>
             req'[d].pc # "idle" /\ req'[d].user = req[d].user /\ req'[d].ws = req[d].ws
    BY <1>1, <2>1, <2>3, WriterMoves DEF Answers
  <2>6. PICK new : new = row
    OBVIOUS
  <2>7. /\ new \in DataSourceRefRecord /\ new.user = q.user /\ new.ws = q.ws
        /\ new.run = q.run /\ new.item = q.item
    BY <2>2, <2>4, <2>6 DEF DataSourceRefRecord, RequestType
  <2>8. \A x \in Requests : sources'[x] = IF x = c THEN new ELSE sources[x]
    BY <2>1, <2>6 DEF IInv, SourcesOk
  <2> HIDE DEF row
  <2>9. /\ q.run # None => OwnsRun(q) /\ OwnsRun(q)'
        /\ q.item # None => OwnsItem(q) /\ OwnsItem(q)'
        /\ new # None
    BY <1>1, <2>2, <2>4, <2>7, RecordsAssumption
    DEF OwnsRun, GetRunById, OwnsItem, GetWorkItem, ByKey
  <2>10. Kept
    BY <1>1, <1>3, <2>5, <2>8 DEF Kept, SameOwnerAs
  <2>11. SourcesOk'
    <3>1. sources' \in [Requests -> DataSourceRefRecord \union {None}]
      BY <2>1, <2>6, <2>7 DEF IInv, SourcesOk
    <3>2. ASSUME NEW x \in Requests, sources'[x] # None
          PROVE  RunIsOwned(sources[x])' /\ ItemIsOwned(sources[x])'
      <4>1. PICK y : y = sources'[x]
        OBVIOUS
      <4>2. RunIsOwned(new) /\ ItemIsOwned(new)
        BY <2>7, <2>9 DEF RunIsOwned, OwnsRun, GetRunById, ItemIsOwned, OwnsItem
      <4>3. /\ y \in DataSourceRefRecord /\ RunIsOwned(y) /\ ItemIsOwned(y)
        BY <2>7, <2>8, <3>2, <4>1, <4>2 DEF IInv, SourcesOk
      <4>4. RunIsOwned(y)' /\ ItemIsOwned(y)'
        BY <2>10, <4>3, LinksStay DEF DataSourceRefRecord
      <4> QED
        BY <4>1, <4>3, <4>4 DEF RunIsOwned, ItemIsOwned
    <3> QED
      BY <3>1, <3>2 DEF SourcesOk
  <2>12. SameOwner(sources'[c], q) /\ sources'[c].run = q.run /\ sources'[c].item = q.item
    BY <2>7, <2>8, <2>9 DEF SameOwner
  <2>13. Facts(c, q)'
    BY <2>4, <2>9, <2>12 DEF Facts, Fields, Checked, RunChecked, ItemChecked, Awaited,
                             Answered, SurfaceOrSource, AdminOnly, SameOwner
  <2>14. RequestsOk'
    BY <2>5, <2>10, <2>13, OneMoves
  <2>15. IInv'
    BY <1>1, <2>10, <2>11, <2>14, WorkStays, LinksTablesStay, OtherTablesStay DEF IInv
  <2>16. SettledStep
    BY <1>1, <2>4, <2>5, SettledKept DEF IInv, RequestsOk, Decides
  <2> QED
    BY <1>1, <2>15, <2>16 DEF ChangesStep, StatusStep, UrlStep, ApprovalStep
<1> QED
  BY <1>2, <1>3

\* An update writes the fields that it was given, and a status with its index
\* key: a URL that is there stays or is replaced (dynamo-store.ts:160-186).
LEMMA StoresSurface ==
    ASSUME IInv, NEW c \in Requests, UNCHANGED scenario,
           req[c].op \in {"updateSurface", "publishSurface"}, req[c].pc = "update",
           NEW s \in SurfaceStatuses \union {None}, NEW u \in Urls \union {None},
           StoreSurface(req[c].target, s, u), Goto(c, "ok"),
           UNCHANGED <<items, runs, approvals, sources, profiles, bundles, hosts, log, artifacts>>
    PROVE  IInv' /\ ChangesStep
<1> DEFINE p == req[c]
           old == surfaces[p.target]
           status == IF s = None THEN old.status ELSE s
           wsStatus == IF s = None THEN old.wsStatus ELSE <<old.ws, s>>
           url == IF u = None THEN old.url ELSE u
           new == [old EXCEPT !.status = status, !.wsStatus = wsStatus, !.url = url]
<1>1. p.pc \in Working /\ p \in RequestType /\ p.target \in Requests /\ old # None
  <2>1. p \in RequestType /\ Facts(c, p) /\ p.pc = "update"
        /\ p.op \in {"updateSurface", "publishSurface"}
    BY DEF IInv, RequestsOk
  <2> QED
    BY <2>1 DEF Facts, Fields, Awaited, Working
<1>2. /\ old \in SurfaceRecord /\ RunIsOwned(old) /\ ItemIsOwned(old)
      /\ old.wsStatus = <<old.ws, old.status>>
  BY <1>1 DEF IInv, SurfacesOk
<1>3. surfaces' = [surfaces EXCEPT ![p.target] = new]
  <2>1. surfaces' = [surfaces EXCEPT ![p.target].status = status,
                                     ![p.target].wsStatus = wsStatus,
                                     ![p.target].url = url]
    BY DEF StoreSurface
  <2>2. surfaces \in [Requests -> SurfaceRecord \union {None}]
    BY DEF IInv, SurfacesOk
  <2> HIDE DEF status, wsStatus, url
  <2> QED
    BY <1>1, <2>1, <2>2
<1>4. PICK q : q = [req[c] EXCEPT !.pc = "ok"]
  OBVIOUS
<1>5. q.op \in {"updateSurface", "publishSurface"} /\ q.pc = "ok" /\ Fields(q)
  BY <1>1, <1>4, AtAnotherPc DEF Answers
<1>6. /\ req' = [req EXCEPT ![c] = q] /\ q \in RequestType
      /\ \A d \in Requests : req[d].pc # "idle" =>
           req'[d].pc # "idle" /\ req'[d].user = req[d].user /\ req'[d].ws = req[d].ws
  BY <1>1, <1>4, WriterMoves DEF Answers
<1> HIDE DEF p, old
<1>7. /\ status \in SurfaceStatuses /\ wsStatus = <<old.ws, status>>
      /\ url \in Urls \union {None} /\ (old.url # None => url # None)
  BY <1>2 DEF SurfaceRecord
<1>8. wsStatus \in Workspaces \X SurfaceStatuses
  BY <1>2, <1>7 DEF SurfaceRecord
<1> HIDE DEF status, wsStatus, url
<1>9. /\ new \in SurfaceRecord
      /\ new.user = old.user /\ new.ws = old.ws /\ new.run = old.run /\ new.item = old.item
      /\ new.wsStatus = <<new.ws, new.status>>
      /\ old.url # None => new.url # None
  BY <1>2, <1>7, <1>8 DEF SurfaceRecord
<1>10. new # None
  BY <1>9, RecordsAssumption
<1> HIDE DEF new
<1>11. \A x \in Requests : surfaces'[x] = IF x = p.target THEN new ELSE surfaces[x]
  BY <1>1, <1>3 DEF IInv, SurfacesOk
<1>12. Kept
  BY <1>6, <1>9, <1>10, <1>11 DEF Kept, SameOwnerAs, old
<1>13. SurfacesOk'
  <2>1. surfaces' \in [Requests -> SurfaceRecord \union {None}]
    BY <1>3, <1>9 DEF IInv, SurfacesOk
  <2>2. ASSUME NEW x \in Requests, surfaces'[x] # None
        PROVE  /\ RunIsOwned(surfaces[x])' /\ ItemIsOwned(surfaces[x])'
               /\ surfaces'[x].wsStatus = <<surfaces'[x].ws, surfaces'[x].status>>
    <3>1. PICK y : y = surfaces'[x]
      OBVIOUS
    <3>2. RunIsOwned(new) /\ ItemIsOwned(new)
      BY <1>2, <1>9 DEF RunIsOwned, ItemIsOwned
    <3>3. /\ y \in SurfaceRecord /\ RunIsOwned(y) /\ ItemIsOwned(y)
          /\ y.wsStatus = <<y.ws, y.status>>
      BY <1>9, <1>11, <2>2, <3>1, <3>2 DEF IInv, SurfacesOk
    <3>4. RunIsOwned(y)' /\ ItemIsOwned(y)'
      BY <1>12, <3>3, LinksStay DEF SurfaceRecord
    <3> QED
      BY <3>1, <3>3, <3>4 DEF RunIsOwned, ItemIsOwned
  <2> QED
    BY <2>1, <2>2 DEF SurfacesOk
<1>14. Facts(c, q)'
  BY <1>5 DEF Facts, Fields, Checked, RunChecked, ItemChecked, Awaited, Answered,
              SurfaceOrSource, AdminOnly
<1>15. RequestsOk'
  BY <1>6, <1>12, <1>14, OneMoves
<1>16. IInv'
  BY <1>12, <1>13, <1>15, WorkStays, LinksTablesStay, OtherTablesStay DEF IInv
<1>17. SettledStep
  BY <1>5, <1>6, SettledKept DEF IInv, RequestsOk, Decides
<1>18. UrlStep
  BY <1>9, <1>11 DEF UrlStep, old
<1> QED
  BY <1>16, <1>17, <1>18 DEF ChangesStep, StatusStep, ApprovalStep

LEMMA SurfaceUpdates ==
    ASSUME IInv, NEW c \in Requests, UNCHANGED scenario,
           \/ At(c, "updateSurface", "update") /\ UpdateSurface(c)
           \/ At(c, "publishSurface", "update") /\ PublishSurface(c)
    PROVE  IInv' /\ ChangesStep
<1>1. Facts(c, req[c])
  BY DEF IInv, RequestsOk
<1>2. CASE At(c, "updateSurface", "update") /\ UpdateSurface(c)
  <2>1. /\ StoreSurface(req[c].target, req[c].value, None) /\ Goto(c, "ok")
        /\ UNCHANGED <<items, runs, approvals, sources, profiles, bundles, hosts, log, artifacts>>
    BY <1>2 DEF At, UpdateSurface, work, registry, ledger
  <2>2. req[c].value \in SurfaceStatuses \union {None}
    BY <1>1, <1>2 DEF At, Facts, Awaited
  <2> QED
    BY <1>2, <2>1, <2>2, StoresSurface DEF At
<1>3. CASE At(c, "publishSurface", "update") /\ PublishSurface(c)
  <2>1. /\ StoreSurface(req[c].target, "published", req[c].value) /\ Goto(c, "ok")
        /\ UNCHANGED <<items, runs, approvals, sources, profiles, bundles, hosts, log, artifacts>>
    BY <1>3 DEF At, PublishSurface, work, registry, ledger
  <2>2. req[c].value \in Urls \union {None} /\ "published" \in SurfaceStatuses
    BY <1>1, <1>3 DEF At, Facts, Fields, SurfaceStatuses
  <2> QED
    BY <1>3, <2>1, <2>2, StoresSurface DEF At
<1> QED
  BY <1>2, <1>3

\* A bundle is put, over one that is there or not; nothing else changes.
LEMMA BundleWrites ==
    ASSUME IInv, NEW c \in Requests, UNCHANGED scenario, req[c].pc = "bundle",
           NEW profile \in AgentProfileVersion, NEW next,
           \/ req[c].op = "createAgentProfileDraft" /\ next = "put"
           \/ req[c].op = "approveAgentProfileVersion" /\ next = "update",
           PutBundle(c, profile, next)
    PROVE  IInv' /\ ChangesStep
<1>1. /\ bundles' = [bundles EXCEPT ![req[c].target] = profile] /\ Goto(c, next)
      /\ UNCHANGED <<items, runs, approvals, surfaces, sources, profiles, hosts, log, artifacts>>
  BY DEF PutBundle, work, links, ledger
<1>2. req[c].pc \in Working /\ next \in Working
  BY DEF Working
<1>3. /\ req[c].target \in ProfileKeys
      /\ Facts(c, req[c])
  BY DEF IInv, RequestsOk, Facts, Fields
<1>4. PICK q : q = [req[c] EXCEPT !.pc = next]
  OBVIOUS
<1>5. /\ q.op = req[c].op /\ q.pc = next /\ q.target = req[c].target
      /\ q.row = req[c].row /\ Fields(q)
  BY <1>2, <1>4, AtAnotherPc
<1>6. /\ req' = [req EXCEPT ![c] = q] /\ q \in RequestType
      /\ \A d \in Requests : req[d].pc # "idle" =>
           req'[d].pc # "idle" /\ req'[d].user = req[d].user /\ req'[d].ws = req[d].ws
  BY <1>1, <1>2, <1>4, WriterMoves
<1>7. \A p \in ProfileKeys : bundles'[p] = IF p = req[c].target THEN profile ELSE bundles[p]
  BY <1>1, <1>3 DEF IInv, ProfilesOk
<1>8. profile # None
  BY RecordsAssumption
<1>9. Kept
  BY <1>1, <1>6, <1>7, <1>8 DEF Kept, SameOwnerAs
<1>10. ProfilesOk'
  BY <1>1, <1>7, <1>8 DEF IInv, ProfilesOk, RowsHaveBundles
<1>11. Facts(c, q)'
  BY <1>1, <1>3, <1>5, <1>7, <1>8 DEF Facts, Fields, Checked, RunChecked, ItemChecked,
                                      Awaited, Answered, SurfaceOrSource, AdminOnly
<1>12. RequestsOk'
  BY <1>6, <1>9, <1>11, OneMoves
<1>13. IInv'
  BY <1>1, <1>9, <1>10, <1>12, WorkStays, LinksTablesStay, OtherTablesStay DEF IInv
<1>14. SettledStep
  BY <1>1, <1>5, <1>6, SettledKept DEF IInv, RequestsOk, Decides
<1> QED
  BY <1>1, <1>13, <1>14 DEF ChangesStep, StatusStep, UrlStep, ApprovalStep

LEMMA CreateAgentProfileDraftWrites ==
    ASSUME IInv, NEW c \in Requests, UNCHANGED scenario,
           At(c, "createAgentProfileDraft", "put"),
           PutAgentProfileVersion(c, [user |-> req[c].user, profile |-> Draft(req[c].value)])
    PROVE  IInv' /\ ChangesStep
<1> DEFINE row == [user |-> req[c].user, profile |-> Draft(req[c].value)]
<1>1. /\ req[c].pc \in Working /\ req[c].op = "createAgentProfileDraft"
      /\ UNCHANGED <<items, runs, approvals, surfaces, sources, bundles, hosts, log, artifacts>>
  BY DEF At, Working, PutAgentProfileVersion, work, links, ledger
<1>2. CASE profiles[req[c].target] # None
  <2>1. Goto(c, "error") /\ UNCHANGED tables
    BY <1>1, <1>2
    DEF PutAgentProfileVersion, PutNew, tables, work, links, registry, ledger
  <2> QED
    BY <1>1, <2>1, Stops
<1>3. CASE profiles[req[c].target] = None
  <2>1. profiles' = [profiles EXCEPT ![req[c].target] = row] /\ Goto(c, "created")
    BY <1>3 DEF PutAgentProfileVersion, PutNew
  <2>2. /\ req[c] \in RequestType /\ req[c].target \in ProfileKeys
        /\ req[c].value \in Contents /\ bundles[req[c].target] # None
    <3>1. /\ req[c] \in RequestType /\ Facts(c, req[c])
          /\ req[c].op = "createAgentProfileDraft" /\ req[c].pc = "put"
      BY DEF At, IInv, RequestsOk
    <3> QED
      BY <3>1 DEF Facts, Fields, Awaited
  <2>3. PICK q : q = [req[c] EXCEPT !.pc = "created"]
    OBVIOUS
  <2>4. /\ q.op = "createAgentProfileDraft" /\ q.pc = "created"
        /\ q.target = req[c].target /\ q.user = req[c].user /\ Fields(q)
    BY <1>1, <2>3, AtAnotherPc DEF Answers
  <2>5. /\ req' = [req EXCEPT ![c] = q] /\ q \in RequestType
        /\ \A d \in Requests : req[d].pc # "idle" =>
             req'[d].pc # "idle" /\ req'[d].user = req[d].user /\ req'[d].ws = req[d].ws
    BY <1>1, <2>1, <2>3, WriterMoves DEF Answers
  <2>6. PICK new : new = row
    OBVIOUS
  <2>7. new \in AgentProfileRecord /\ new.user = q.user
    BY <2>2, <2>4, <2>6 DEF AgentProfileRecord, AgentProfileVersion, Draft, RequestType
  <2>8. \A p \in ProfileKeys : profiles'[p] = IF p = q.target THEN new ELSE profiles[p]
    BY <2>1, <2>2, <2>4, <2>6 DEF IInv, ProfilesOk
  <2>9. new # None
    BY <2>7, RecordsAssumption
  <2> HIDE DEF row
  <2>10. Kept
    BY <1>1, <1>3, <2>4, <2>5, <2>8 DEF Kept, SameOwnerAs
  <2>11. ProfilesOk'
    BY <1>1, <2>1, <2>2, <2>4, <2>6, <2>7, <2>8 DEF IInv, ProfilesOk, RowsHaveBundles
  <2>12. Facts(c, q)'
    BY <1>1, <2>2, <2>4, <2>7, <2>8, <2>9
    DEF Facts, Fields, Checked, RunChecked, ItemChecked, Awaited, Answered,
        SurfaceOrSource, AdminOnly
  <2>13. RequestsOk'
    BY <2>5, <2>10, <2>12, OneMoves
  <2>14. IInv'
    BY <1>1, <2>10, <2>11, <2>13, WorkStays, LinksTablesStay, OtherTablesStay DEF IInv
  <2>15. SettledStep
    BY <1>1, <2>4, <2>5, SettledKept DEF IInv, RequestsOk, Decides
  <2>16. ApprovalStep
    BY <1>3, <2>4, <2>8 DEF ApprovalStep
  <2> QED
    BY <1>1, <2>14, <2>15, <2>16 DEF ChangesStep, StatusStep, UrlStep
<1> QED
  BY <1>2, <1>3

\* The approved version has the content that was read; rows never change theirs,
\* so that approving once more writes what is there (dynamo-store.ts:268-294).
LEMMA ApproveWrites ==
    ASSUME IInv, NEW c \in Requests, UNCHANGED scenario,
           At(c, "approveAgentProfileVersion", "update"), UpdateAgentProfileVersion(c),
           Goto(c, "ok")
    PROVE  IInv' /\ ChangesStep
<1> DEFINE p == req[c]
           old == profiles[p.target]
           version == Approved(p.row.profile)
           new == [old EXCEPT !.profile = version]
<1>1. /\ p.pc \in Working /\ p.op = "approveAgentProfileVersion"
      /\ profiles' = [profiles EXCEPT ![p.target].profile = version]
      /\ UNCHANGED <<items, runs, approvals, surfaces, sources, bundles, hosts, log, artifacts>>
  BY DEF At, Working, UpdateAgentProfileVersion, work, links, ledger
<1>2. /\ p \in RequestType /\ p.target \in ProfileKeys /\ p.row \in AgentProfileRecord
      /\ old # None /\ old.profile.content = p.row.profile.content
  <2>1. /\ p \in RequestType /\ Facts(c, p)
        /\ p.op = "approveAgentProfileVersion" /\ p.pc = "update"
    BY DEF At, IInv, RequestsOk
  <2> QED
    BY <2>1 DEF Facts, Fields, Awaited
<1>3. old \in AgentProfileRecord
  BY <1>2 DEF IInv, ProfilesOk
<1>4. profiles' = [profiles EXCEPT ![p.target] = new]
  BY <1>1, <1>2 DEF IInv, ProfilesOk
<1>5. PICK q : q = [req[c] EXCEPT !.pc = "ok"]
  OBVIOUS
<1>6. q.op = "approveAgentProfileVersion" /\ q.pc = "ok" /\ Fields(q)
  BY <1>1, <1>5, AtAnotherPc DEF Answers
<1>7. /\ req' = [req EXCEPT ![c] = q] /\ q \in RequestType
      /\ \A d \in Requests : req[d].pc # "idle" =>
           req'[d].pc # "idle" /\ req'[d].user = req[d].user /\ req'[d].ws = req[d].ws
  BY <1>1, <1>5, WriterMoves DEF Answers
<1> HIDE DEF p, old
<1>8. /\ version \in AgentProfileVersion
      /\ version = [state |-> "approved", content |-> old.profile.content]
  BY <1>2, <1>3 DEF AgentProfileRecord, AgentProfileVersion, Approved
<1> HIDE DEF version
<1>9. /\ new \in AgentProfileRecord /\ new.user = old.user /\ new.profile = version
      /\ new.profile.content = old.profile.content
  BY <1>3, <1>8 DEF AgentProfileRecord
<1>10. new # None
  BY <1>9, RecordsAssumption
<1>11. old.profile.state = "approved" => new = old
  <2>1. old.profile.state = "approved" => version = old.profile
    BY <1>3, <1>8 DEF AgentProfileRecord, AgentProfileVersion
  <2> QED
    BY <1>3, <2>1 DEF AgentProfileRecord
<1> HIDE DEF new
<1>12. \A x \in ProfileKeys : profiles'[x] = IF x = p.target THEN new ELSE profiles[x]
  BY <1>2, <1>4 DEF IInv, ProfilesOk
<1>13. Kept
  BY <1>1, <1>7, <1>9, <1>10, <1>12 DEF Kept, SameOwnerAs, old
<1>14. ProfilesOk'
  <2>1. profiles' \in [ProfileKeys -> AgentProfileRecord \union {None}]
    BY <1>4, <1>9 DEF IInv, ProfilesOk
  <2>2. RowsHaveBundles'
    BY <1>1, <1>2, <1>12 DEF IInv, ProfilesOk, RowsHaveBundles, old
  <2> QED
    BY <1>1, <2>1, <2>2 DEF IInv, ProfilesOk
<1>15. Facts(c, q)'
  BY <1>6 DEF Facts, Fields, Checked, RunChecked, ItemChecked, Awaited, Answered,
              SurfaceOrSource, AdminOnly
<1>16. RequestsOk'
  BY <1>7, <1>13, <1>15, OneMoves
<1>17. IInv'
  BY <1>1, <1>13, <1>14, <1>16, WorkStays, LinksTablesStay, OtherTablesStay DEF IInv
<1>18. SettledStep
  BY <1>1, <1>6, <1>7, SettledKept DEF IInv, RequestsOk, Decides
<1>19. ApprovalStep
  BY <1>11, <1>12 DEF ApprovalStep, old
<1> QED
  BY <1>1, <1>17, <1>18, <1>19 DEF ChangesStep, StatusStep, UrlStep

\* A host row that is put back whole is made of one copy, so that its index key
\* agrees with its status (user-runners.ts:20-84).
LEMMA HostNodeWrites ==
    ASSUME IInv, NEW c \in Requests, UNCHANGED scenario,
           req[c].op \in AdminOnly, req[c].pc = "put",
           NEW row \in HostNodeRecord, row.placementStatus = <<row.placement, row.status>>,
           PutHostNode(c, row)
    PROVE  IInv' /\ ChangesStep
<1>1. /\ hosts' = [hosts EXCEPT ![req[c].target] = row] /\ Goto(c, "ok")
      /\ UNCHANGED <<items, runs, approvals, surfaces, sources, profiles, bundles, log, artifacts>>
  BY DEF PutHostNode, work, links, ledger
<1>2. req[c].pc \in Working
  BY DEF Working
<1>3. PICK q : q = [req[c] EXCEPT !.pc = "ok"]
  OBVIOUS
<1>4. q.op \in AdminOnly /\ q.pc = "ok" /\ Fields(q)
  BY <1>2, <1>3, AtAnotherPc DEF Answers
<1>5. /\ req' = [req EXCEPT ![c] = q] /\ q \in RequestType
      /\ \A d \in Requests : req[d].pc # "idle" =>
           req'[d].pc # "idle" /\ req'[d].user = req[d].user /\ req'[d].ws = req[d].ws
  BY <1>1, <1>2, <1>3, WriterMoves DEF Answers
<1>6. Kept
  BY <1>1, <1>5 DEF Kept, SameOwnerAs
<1>7. HostsOk'
  BY <1>1 DEF IInv, HostsOk
<1>8. Facts(c, q)'
  BY <1>4 DEF Facts, Fields, Checked, RunChecked, ItemChecked, Awaited, Answered,
              SurfaceOrSource, AdminOnly
<1>9. RequestsOk'
  BY <1>5, <1>6, <1>8, OneMoves
<1>10. IInv'
  BY <1>1, <1>6, <1>7, <1>9, WorkStays, LinksTablesStay, OtherTablesStay DEF IInv
<1>11. SettledStep
  BY <1>1, <1>4, <1>5, SettledKept DEF IInv, RequestsOk, Decides
<1> QED
  BY <1>1, <1>10, <1>11 DEF ChangesStep, StatusStep, UrlStep, ApprovalStep

LEMMA HostNodePuts ==
    ASSUME IInv, NEW c \in Requests, UNCHANGED scenario,
           \/ At(c, "registerHostNode", "put") /\ RegisterHostNode(c)
           \/ At(c, "heartbeatHostNode", "put") /\ HeartbeatHostNode(c)
    PROVE  IInv' /\ ChangesStep
<1> DEFINE p == req[c]
<1>1. p \in RequestType /\ Fields(p) /\ Awaited(p)
  BY DEF IInv, RequestsOk, Facts
<1>2. CASE At(c, "registerHostNode", "put") /\ RegisterHostNode(c)
  <2> DEFINE status == IF p.row = None THEN "online" ELSE p.row.status
             row == [placement |-> p.value, status |-> status,
                     placementStatus |-> <<p.value, status>>,
                     by |-> IF p.row = None THEN p.user ELSE p.row.by]
  <2>1. p.op = "registerHostNode" /\ p.op \in AdminOnly /\ p.pc = "put" /\ PutHostNode(c, row)
    BY <1>2 DEF At, RegisterHostNode, AdminOnly
  <2>2. p.row \in HostNodeRecord \union {None} /\ p.value \in Placements /\ p.user \in Users
    BY <1>1, <2>1 DEF Fields, Awaited, RequestType
  <2>3. status \in HostStatuses
    BY <2>2 DEF HostNodeRecord, HostStatuses
  <2>4. (IF p.row = None THEN p.user ELSE p.row.by) \in Users
    BY <2>2 DEF HostNodeRecord
  <2>5. row \in HostNodeRecord /\ row.placementStatus = <<row.placement, row.status>>
    BY <2>2, <2>3, <2>4 DEF HostNodeRecord
  <2> HIDE DEF row
  <2> QED
    BY <2>1, <2>5, HostNodeWrites
<1>3. CASE At(c, "heartbeatHostNode", "put") /\ HeartbeatHostNode(c)
  <2> DEFINE old == p.row
             status == IF p.value = None THEN old.status ELSE p.value
             row == [old EXCEPT !.status = status,
                                !.placementStatus = <<old.placement, status>>]
  <2>1. p.op = "heartbeatHostNode" /\ p.op \in AdminOnly /\ p.pc = "put" /\ PutHostNode(c, row)
    BY <1>3 DEF At, HeartbeatHostNode, AdminOnly
  <2>2. old \in HostNodeRecord /\ p.value \in (Statuses \ {Blank}) \union {None}
    BY <1>1, <2>1 DEF Fields, Awaited
  <2>3. status \in HostStatuses
    BY <2>2 DEF HostNodeRecord, HostStatuses
  <2> HIDE DEF old, status
  <2>4. row \in HostNodeRecord /\ row.placementStatus = <<row.placement, row.status>>
    BY <2>2, <2>3 DEF HostNodeRecord
  <2> HIDE DEF row
  <2> QED
    BY <2>1, <2>4, HostNodeWrites
<1> QED
  BY <1>2, <1>3

\* A log with one more event at a position that was free.
LEMMA LogGrows ==
    ASSUME LogOk, NEW r \in WorkIds, NEW event \in EventRecord, event.seq # 0,
           \A e \in log[r] : e.seq # event.seq,
           log' = [log EXCEPT ![r] = @ \union {event}]
    PROVE  LogOk' /\ \A i \in WorkIds : log[i] \subseteq log'[i]
<1>1. \A i \in WorkIds : log'[i] = IF i = r THEN log[r] \union {event} ELSE log[i]
  BY DEF LogOk
<1>2. log' \in [WorkIds -> SUBSET EventRecord]
  BY <1>1 DEF LogOk
<1>3. IsFiniteSet(log[r] \union {event})
  BY FS_AddElement DEF LogOk
<1>4. ASSUME NEW i \in WorkIds
      PROVE  /\ IsFiniteSet(log'[i])
             /\ \A e \in log'[i] : e.seq # 0 /\ \A f \in log'[i] : f.seq = e.seq => f = e
  BY <1>1, <1>3 DEF LogOk
<1> QED
  BY <1>1, <1>2, <1>4 DEF LogOk

LEMMA EngagementWrites ==
    ASSUME IInv, NEW c \in Requests, UNCHANGED scenario,
           At(c, "userEngagement", "event"),
           PutEvent(c, req[c].run, [seq |-> req[c].latest + 1, by |-> c]),
           UNCHANGED <<work, links, registry, artifacts>>
    PROVE  IInv' /\ ChangesStep
<1> DEFINE event == [seq |-> req[c].latest + 1, by |-> c]
<1>1. /\ req[c].pc \in Working /\ req[c].op = "userEngagement"
      /\ UNCHANGED <<items, runs, approvals, surfaces, sources, profiles, bundles, hosts,
                     artifacts>>
  BY DEF At, Working, work, links, registry
<1>2. /\ req[c] \in RequestType /\ req[c].run \in WorkIds /\ OwnsRun(req[c])
  <2>1. /\ req[c] \in RequestType /\ Facts(c, req[c])
        /\ req[c].op = "userEngagement" /\ req[c].pc = "event"
    BY DEF At, IInv, RequestsOk
  <2> QED
    BY <2>1 DEF Facts, Fields, Checked, RunChecked
<1>3. CASE \E e \in log[req[c].run] : e.seq = event.seq
  <2>1. Goto(c, "error") /\ UNCHANGED tables
    BY <1>1, <1>3 DEF PutEvent, tables, work, links, registry, ledger
  <2> QED
    BY <1>1, <2>1, Stops
<1>4. CASE ~\E e \in log[req[c].run] : e.seq = event.seq
  <2>1. log' = [log EXCEPT ![req[c].run] = @ \union {event}] /\ Goto(c, "accepted")
    BY <1>4 DEF PutEvent
  <2>2. event \in EventRecord /\ event.seq # 0
    BY <1>2 DEF RequestType, EventRecord
  <2>3. \A e \in log[req[c].run] : e.seq # event.seq
    BY <1>4
  <2>4. PICK q : q = [req[c] EXCEPT !.pc = "accepted"]
    OBVIOUS
  <2>5. /\ q.op = "userEngagement" /\ q.pc = "accepted" /\ q.run = req[c].run
        /\ q.latest = req[c].latest /\ q.user = req[c].user /\ q.ws = req[c].ws /\ Fields(q)
    BY <1>1, <2>4, AtAnotherPc DEF Answers
  <2>6. /\ req' = [req EXCEPT ![c] = q] /\ q \in RequestType
        /\ \A d \in Requests : req[d].pc # "idle" =>
             req'[d].pc # "idle" /\ req'[d].user = req[d].user /\ req'[d].ws = req[d].ws
    BY <1>1, <2>1, <2>4, WriterMoves DEF Answers
  <2>7. event = [seq |-> q.latest + 1, by |-> c] /\ event \in log'[q.run]
    BY <1>2, <2>1, <2>5 DEF IInv, LogOk
  <2> HIDE DEF event
  <2>8. LogOk' /\ \A i \in WorkIds : log[i] \subseteq log'[i]
    BY <1>2, <2>1, <2>2, <2>3, LogGrows DEF IInv
  <2>9. Kept
    BY <1>1, <2>6, <2>8 DEF Kept, SameOwnerAs
  <2>10. OwnsRun(q)'
    BY <1>1, <1>2, <2>5 DEF OwnsRun, GetRunById
  <2>11. Facts(c, q)'
    BY <2>5, <2>7, <2>10 DEF Facts, Fields, Checked, ItemChecked, Awaited, Answered,
                             SurfaceOrSource, AdminOnly
  <2>12. RequestsOk'
    BY <2>6, <2>9, <2>11, OneMoves
  <2>13. IInv'
    BY <1>1, <2>8, <2>9, <2>12, WorkStays, LinksTablesStay, OtherTablesStay DEF IInv
  <2>14. SettledStep
    BY <1>1, <2>5, <2>6, SettledKept DEF IInv, RequestsOk, Decides
  <2> QED
    BY <1>1, <2>13, <2>14 DEF ChangesStep, StatusStep, UrlStep, ApprovalStep
<1> QED
  BY <1>3, <1>4

\* A step of the agents moves no request.
LEMMA NobodyMoves ==
    ASSUME IInv, Kept, UNCHANGED <<req, scenario, approvals>>
    PROVE  RequestsOk' /\ SettledStep
<1>1. ASSUME NEW d \in Requests PROVE Facts(d, req[d])'
  <2>1. PICK p : p = req[d]
    OBVIOUS
  <2>2. p \in RequestType /\ Facts(d, p) /\ req'[d] = p
    BY <2>1 DEF IInv, RequestsOk
  <2>3. Facts(d, p)'
    BY <2>2, FactsStay
  <2> QED
    BY <2>2, <2>3 DEF Facts, Fields, Checked, RunChecked, ItemChecked, Awaited,
                      Answered, IdOf, Scope, OwnsRun, OwnsItem, SameOwner
<1> QED
  BY <1>1 DEF RequestsOk, IInv, SettledStep, Settled, At

LEMMA AgentEvents ==
    ASSUME IInv, UNCHANGED scenario, NEW r \in WorkIds, NEW n \in AgentSeqs, AgentEvent(r, n)
    PROVE  IInv' /\ ChangesStep
<1> DEFINE event == [seq |-> n, by |-> "agent"]
<1>1. /\ log' = [log EXCEPT ![r] = @ \union {event}]
      /\ UNCHANGED <<req, items, runs, approvals, surfaces, sources, profiles, bundles, hosts,
                     artifacts>>
      /\ \A e \in log[r] : e.seq # event.seq
  BY DEF AgentEvent, work, links, registry
<1>2. event \in EventRecord /\ event.seq # 0
  BY RecordsAssumption DEF EventRecord
<1> HIDE DEF event
<1>3. LogOk' /\ \A i \in WorkIds : log[i] \subseteq log'[i]
  BY <1>1, <1>2, LogGrows DEF IInv
<1>4. Kept
  BY <1>1, <1>3 DEF Kept, SameOwnerAs
<1>5. RequestsOk' /\ SettledStep
  BY <1>1, <1>4, NobodyMoves
<1>6. IInv'
  BY <1>1, <1>3, <1>4, <1>5, WorkStays, LinksTablesStay, OtherTablesStay DEF IInv
<1> QED
  BY <1>1, <1>5, <1>6 DEF ChangesStep, StatusStep, UrlStep, ApprovalStep

LEMMA AgentArtifacts ==
    ASSUME IInv, UNCHANGED scenario, NEW r \in WorkIds, AgentArtifact(r)
    PROVE  IInv' /\ ChangesStep
<1>1. /\ runs[r] # None
      /\ UNCHANGED <<req, items, runs, approvals, surfaces, sources, profiles, bundles, hosts,
                     log>>
  BY DEF AgentArtifact, work, links, registry
<1>2. PICK x \in {<<runs[r].item, TRUE>>, <<runs[r].item, FALSE>>, <<None, TRUE>>} :
         artifacts' = artifacts \union
           {[user |-> runs[r].user, ws |-> runs[r].ws, run |-> r,
             item |-> x[1], located |-> x[2]]}
  BY DEF AgentArtifact
<1>3. PICK new : new = [user |-> runs[r].user, ws |-> runs[r].ws, run |-> r,
                        item |-> x[1], located |-> x[2]]
  OBVIOUS
<1>4. runs[r] \in RunRecord
  BY <1>1 DEF IInv, RunsOk
<1>5. x[1] \in {runs[r].item, None} /\ x[2] \in BOOLEAN
  <2>1. ASSUME NEW a, NEW b, x = <<a, b>>
        PROVE  x[1] = a /\ x[2] = b
    BY <2>1
  <2>2. x = <<runs[r].item, TRUE>> => x[1] = runs[r].item /\ x[2] = TRUE
    BY <2>1
  <2>3. x = <<runs[r].item, FALSE>> => x[1] = runs[r].item /\ x[2] = FALSE
    BY <2>1
  <2>4. x = <<None, TRUE>> => x[1] = None /\ x[2] = TRUE
    BY <2>1
  <2>5. x[1] \in {runs[r].item, None} /\ x[2] \in {TRUE, FALSE}
    BY <2>2, <2>3, <2>4
  <2> QED
    BY <2>5
<1>6. /\ new \in ArtifactRecord /\ new.run = r /\ SameOwner(runs[r], new)
      /\ new.item # None => new.item = runs[r].item
  BY <1>1, <1>3, <1>4, <1>5 DEF RunRecord, ArtifactRecord, SameOwner
<1>7. artifacts' = artifacts \union {new}
  BY <1>2, <1>3
<1>8. ArtifactsOk'
  BY <1>1, <1>6, <1>7 DEF IInv, ArtifactsOk, SameOwner
<1>9. Kept
  BY <1>1 DEF Kept, SameOwnerAs
<1>10. RequestsOk' /\ SettledStep
  BY <1>1, <1>9, NobodyMoves
<1>11. IInv'
  BY <1>1, <1>8, <1>9, <1>10, WorkStays, LinksTablesStay, OtherTablesStay DEF IInv
<1> QED
  BY <1>1, <1>10, <1>11 DEF ChangesStep, StatusStep, UrlStep, ApprovalStep

LEMMA Stutters ==
    ASSUME IInv, UNCHANGED vars
    PROVE  IInv' /\ ChangesStep
<1>1. UNCHANGED <<req, items, runs, approvals, surfaces, sources, profiles, bundles, hosts, log,
                  artifacts, scenario>>
  BY DEF vars, tables, work, links, registry, ledger
<1>2. Kept
  BY <1>1 DEF Kept, SameOwnerAs
<1>3. RequestsOk' /\ SettledStep
  BY <1>1, <1>2, NobodyMoves
<1>4. IInv'
  BY <1>1, <1>2, <1>3, WorkStays, LinksTablesStay, OtherTablesStay DEF IInv
<1> QED
  BY <1>1, <1>3, <1>4 DEF ChangesStep, StatusStep, UrlStep, ApprovalStep

\* One step: every handler's calls, the ends of invocations, and the agents.
LEMMA HandlerSteps ==
    ASSUME IInv, NEW c \in Requests, UNCHANGED scenario, Handler(c)
    PROVE  IInv' /\ ChangesStep
<1>1. CASE CreateWorkItem(c)
  BY <1>1, CreateWorkItemProbe, CreateWorkItemWrites DEF CreateWorkItem
<1>2. CASE UpdateWorkItemStatus(c)
  <2>1. CASE At(c, "updateWorkItemStatus", "update")
    BY <1>2, <2>1, UpdateWorkItemStatusWrites
  <2>2. CASE ~At(c, "updateWorkItemStatus", "update")
    BY <1>2, <2>2, UpdateWorkItemStatusReads DEF UpdateWorkItemStatus
  <2> QED
    BY <2>1, <2>2
<1>3. CASE CreateWorkItemRun(c)
  BY <1>3, CreateWorkItemRunReads, CreateWorkItemRunWrites DEF CreateWorkItemRun
<1>4. CASE CreateApproval(c)
  BY <1>4, CreateApprovalReads, CreateApprovalWrites DEF CreateApproval
<1>5. CASE DecideApproval(c)
  <2>1. At(c, "decideApproval", "get") \/ At(c, "decideApproval", "update")
    BY <1>5 DEF DecideApproval
  <2> QED
    BY <1>5, <2>1, DecideApprovalReads, DecideApprovalWrites
<1>6. CASE CreateSurface(c)
  <2>1. CASE At(c, "createSurface", "put")
    BY <1>6, <2>1, CreateSurfaceWrites DEF CreateSurface, At
  <2>2. CASE ~At(c, "createSurface", "put")
    <3>1. /\ req[c].op \in SurfaceOrSource
          /\ \/ req[c].pc = "run" /\ Check(c, OwnsRun(req[c]), AfterRun(req[c]))
             \/ req[c].pc = "item" /\ Check(c, OwnsItem(req[c]), "put")
      BY <1>6, <2>2 DEF CreateSurface, At, SurfaceOrSource
    <3> QED
      BY <3>1, LinkReads
  <2> QED
    BY <2>1, <2>2
<1>7. CASE UpdateSurface(c)
  <2>1. At(c, "updateSurface", "get") \/ At(c, "updateSurface", "update")
    BY <1>7 DEF UpdateSurface
  <2> QED
    BY <1>7, <2>1, UpdateSurfaceReads, SurfaceUpdates
<1>8. CASE PublishSurface(c)
  <2>1. At(c, "publishSurface", "get") \/ At(c, "publishSurface", "update")
    BY <1>8 DEF PublishSurface
  <2> QED
    BY <1>8, <2>1, PublishSurfaceReads, SurfaceUpdates
<1>9. CASE CreateDataSourceRef(c)
  <2>1. CASE At(c, "createDataSourceRef", "put")
    BY <1>9, <2>1, CreateDataSourceRefWrites DEF CreateDataSourceRef, At
  <2>2. CASE ~At(c, "createDataSourceRef", "put")
    <3>1. /\ req[c].op \in SurfaceOrSource
          /\ \/ req[c].pc = "run" /\ Check(c, OwnsRun(req[c]), AfterRun(req[c]))
             \/ req[c].pc = "item" /\ Check(c, OwnsItem(req[c]), "put")
      BY <1>9, <2>2 DEF CreateDataSourceRef, At, SurfaceOrSource
    <3> QED
      BY <3>1, LinkReads
  <2> QED
    BY <2>1, <2>2
<1>10. CASE CreateAgentProfileDraft(c)
  <2>1. CASE At(c, "createAgentProfileDraft", "put")
    BY <1>10, <2>1, CreateAgentProfileDraftWrites DEF CreateAgentProfileDraft, At
  <2>2. CASE ~At(c, "createAgentProfileDraft", "put")
    <3>1. /\ req[c].op = "createAgentProfileDraft" /\ req[c].pc = "bundle"
          /\ PutBundle(c, Draft(req[c].value), "put")
      BY <1>10, <2>2 DEF CreateAgentProfileDraft, At
    <3>2. req[c].value \in Contents
      BY <3>1 DEF IInv, RequestsOk, Facts, Fields
    <3>3. Draft(req[c].value) \in AgentProfileVersion
      BY <3>2 DEF Draft, AgentProfileVersion
    <3> QED
      BY <3>1, <3>3, BundleWrites
  <2> QED
    BY <2>1, <2>2
<1>11. CASE ApproveAgentProfileVersion(c)
  <2>1. CASE At(c, "approveAgentProfileVersion", "get")
    BY <1>11, <2>1, ApproveReads
  <2>2. CASE At(c, "approveAgentProfileVersion", "bundle")
    <3>1. /\ req[c].op = "approveAgentProfileVersion" /\ req[c].pc = "bundle"
          /\ PutBundle(c, Approved(req[c].row.profile), "update")
      BY <1>11, <2>2 DEF ApproveAgentProfileVersion, At
    <3>2. req[c].row \in AgentProfileRecord
      BY <3>1 DEF IInv, RequestsOk, Facts, Awaited
    <3>3. Approved(req[c].row.profile) \in AgentProfileVersion
      BY <3>2 DEF Approved, AgentProfileVersion, AgentProfileRecord
    <3> QED
      BY <3>1, <3>3, BundleWrites
  <2>3. CASE At(c, "approveAgentProfileVersion", "update")
    BY <1>11, <2>3, ApproveWrites DEF ApproveAgentProfileVersion, At
  <2> QED
    BY <1>11, <2>1, <2>2, <2>3 DEF ApproveAgentProfileVersion
<1>12. CASE RegisterHostNode(c)
  <2>1. CASE At(c, "registerHostNode", "put")
    BY <1>12, <2>1, HostNodePuts
  <2>2. CASE ~At(c, "registerHostNode", "put")
    BY <1>12, <2>2, HostNodeReads DEF RegisterHostNode, At
  <2> QED
    BY <2>1, <2>2
<1>13. CASE HeartbeatHostNode(c)
  <2>1. CASE At(c, "heartbeatHostNode", "put")
    BY <1>13, <2>1, HostNodePuts
  <2>2. CASE ~At(c, "heartbeatHostNode", "put")
    BY <1>13, <2>2, HostNodeReads DEF HeartbeatHostNode, At
  <2> QED
    BY <2>1, <2>2
<1>14. CASE UserEngagement(c)
  <2>1. CASE At(c, "userEngagement", "event")
    BY <1>14, <2>1, EngagementWrites DEF UserEngagement, At
  <2>2. CASE ~At(c, "userEngagement", "event")
    BY <1>14, <2>2, EngagementReads DEF UserEngagement
  <2> QED
    BY <2>1, <2>2
<1> QED
  BY <1>1, <1>2, <1>3, <1>4, <1>5, <1>6, <1>7, <1>8, <1>9, <1>10, <1>11, <1>12, <1>13, <1>14
     DEF Handler

LEMMA Steps ==
    ASSUME IInv, [Next]_vars
    PROVE  IInv' /\ ChangesStep
<1>1. CASE UNCHANGED vars
  BY <1>1, Stutters
<1>2. CASE Next
  <2>1. UNCHANGED scenario
    BY <1>2 DEF Next
  <2>2. ASSUME NEW c \in Requests, Receive(c) \/ Handler(c) \/ Crash(c)
        PROVE  IInv' /\ ChangesStep
    BY <2>1, <2>2, Receives, HandlerSteps, Crashes
  <2>3. ASSUME NEW r \in WorkIds,
               AgentArtifact(r) \/ \E n \in AgentSeqs : AgentEvent(r, n)
        PROVE  IInv' /\ ChangesStep
    BY <2>1, <2>3, AgentArtifacts, AgentEvents
  <2>4. CASE Quiescent
    BY <2>1, <2>4, Stutters DEF Quiescent, vars
  <2> QED
    BY <1>2, <2>2, <2>3, <2>4 DEF Next
<1> QED
  BY <1>1, <1>2

-----------------------------------------------------------------------------
(***************************************************************************)
(* The invariant, and what follows from it.                                *)
(***************************************************************************)
LEMMA InitIInv == Init => IInv
<1> SUFFICES ASSUME Init PROVE IInv
  OBVIOUS
<1> USE RecordsAssumption
<1>1. /\ Founder.user \in Users /\ Founder.ws \in Workspaces /\ FirstScope \in Scopes
      /\ FirstScope \in WorkIds /\ FirstScope \notin Requests
      /\ FirstScope[1] = Founder.user /\ FirstScope[2] = Founder.ws
  BY DEF Users, Workspaces, FirstScope, Scopes, WorkIds
<1>2. req = [c \in Requests |-> Ask("none", Founder)]
  BY DEF Init
<1>3. RequestsOk
  <2>1. Ask("none", Founder) \in RequestType
    BY <1>1 DEF Ask, RequestType
  <2>2. \A c \in Requests : req[c].pc = "idle" /\ req[c].op = "none"
    BY <1>2 DEF Ask
  <2>3. \A c \in Requests : Facts(c, req[c])
    BY <2>2 DEF Facts, Fields, Checked, RunChecked, ItemChecked, Awaited, Answered,
                SurfaceOrSource, AdminOnly
  <2> QED
    BY <1>2, <2>1, <2>3 DEF RequestsOk
<1>4. PICK item : item = [user |-> Founder.user, ws |-> Founder.ws, status |-> "open",
                          wsStatus |-> <<Founder.ws, "open">>]
  OBVIOUS
<1>5. item \in WorkItemRecord /\ item # None
  BY <1>1, <1>4 DEF WorkItemRecord, WorkStatuses
<1>6. items = [i \in WorkIds |-> IF i # FirstScope THEN None ELSE item]
  BY <1>4 DEF Init
<1>7. ItemsOk
  BY <1>1, <1>4, <1>5, <1>6 DEF ItemsOk, Keyed
<1>8. PICK run : run = [user |-> Founder.user, ws |-> Founder.ws, item |-> FirstScope]
  OBVIOUS
<1>9. run \in RunRecord /\ run # None
  BY <1>1, <1>8 DEF RunRecord
<1>10. runs = [r \in WorkIds |-> IF r # FirstScope THEN None ELSE run]
  BY <1>8 DEF Init
<1>11. RunsOk
  <2>1. ItemIsOwned(run)
    BY <1>1, <1>4, <1>5, <1>6, <1>8 DEF ItemIsOwned, OwnedBy, GetWorkItem, ByKey
  <2> QED
    BY <1>1, <1>8, <1>9, <1>10, <2>1 DEF RunsOk, Keyed
<1>12. ApprovalsOk /\ SurfacesOk /\ SourcesOk
  BY DEF Init, ApprovalsOk, SurfacesOk, SourcesOk
<1>13. ProfilesOk /\ HostsOk /\ ArtifactsOk
  BY DEF Init, ProfilesOk, RowsHaveBundles, HostsOk, ArtifactsOk
<1>14. LogOk
  <2>1. PICK event : event = [seq |-> 1, by |-> "agent"]
    OBVIOUS
  <2>2. event \in EventRecord /\ event.seq # 0
    BY <2>1 DEF EventRecord
  <2>3. log = [r \in WorkIds |-> IF r # FirstScope THEN {} ELSE {event}]
    BY <2>1 DEF Init
  <2> QED
    BY <2>2, <2>3, FS_EmptySet, FS_Singleton DEF LogOk
<1> QED
  BY <1>3, <1>7, <1>11, <1>12, <1>13, <1>14 DEF IInv, Init

\* The inductive invariant holds in every reachable state.
THEOREM Invariance == Spec => []IInv
<1>1. IInv /\ [Next]_vars => IInv'
  BY Steps
<1> QED
  BY InitIInv, <1>1, PTL DEF Spec

-----------------------------------------------------------------------------
(***************************************************************************)
(* The properties of the runs.                                             *)
(***************************************************************************)
LEMMA RowsFollow == IInv => RowsSound
<1> SUFFICES ASSUME IInv PROVE RowsSound
  OBVIOUS
<1>1. TypeOK
  BY DEF IInv, TypeOK, RequestsOk, ItemsOk, RunsOk, ApprovalsOk, SurfacesOk, SourcesOk,
         ProfilesOk, HostsOk, ArtifactsOk, LogOk
<1>2. LinksOwned
  <2>1. ASSUME NEW x \in artifacts PROVE RunIsOwned(x) /\ ItemIsOwned(x)
    <3>1. x \in ArtifactRecord /\ SameOwner(runs[x.run], x)
          /\ (x.item # None => x.item = runs[x.run].item)
      BY DEF IInv, ArtifactsOk
    <3>2. x.run \in WorkIds
      BY <3>1 DEF ArtifactRecord
    <3>3. ItemIsOwned(runs[x.run])
      BY <3>1, <3>2 DEF IInv, RunsOk, SameOwner
    <3> QED
      BY <3>1, <3>3 DEF RunIsOwned, ItemIsOwned, SameOwner, OwnedBy
  <2> QED
    BY <2>1 DEF LinksOwned, IInv, RunsOk, ApprovalsOk, SurfacesOk, SourcesOk
<1>3. IndexedStatus
  BY DEF IndexedStatus, IInv, ItemsOk, SurfacesOk, HostsOk
<1>4. RowsHaveBundles
  BY DEF IInv, ProfilesOk
<1> QED
  BY <1>1, <1>2, <1>3, <1>4 DEF RowsSound

\* Rows agree with their index keys and bundles, and with the runs and work items
\* that their handlers check before they store the link, in any interleaving of
\* any number of invocations that may end between two of their calls
\* (approvals.ts:42-69, surfaces.ts:84-117, work-items.ts:126-129,
\* agent-profiles.ts:39-61, 133-150, user-runners.ts:73-82).  An approval's work
\* item, which nobody checks, may be of another user.
THEOREM RowsAgree == Spec => []RowsSound
BY Invariance, RowsFollow, PTL

\* A request that was answered is in its caller's lists.
LEMMA AnswersFollow == IInv => AnswersListed
<1> SUFFICES ASSUME IInv, NEW c \in Requests, NEW q, q = req[c],
                    q.pc \in {"created", "ok", "accepted"}
             PROVE  /\ q.op = "createWorkItem" => NewId(c) \in ListWorkItems(q)
                    /\ q.op = "createWorkItemRun" => NewId(c) \in ListRuns(q)
                    /\ q.op = "createApproval" => c \in ListApprovalsForRun(q, q.run)
                    /\ q.op = "createSurface" =>
                         /\ q.run # None => c \in ListSurfacesForRun(q, q.run)
                         /\ q.item # None => c \in ListSurfacesForWorkItem(q, q.item)
                    /\ q.op = "createDataSourceRef" =>
                         /\ q.run # None => c \in ListDataSourceRefsForRun(q, q.run)
                         /\ q.item # None => c \in ListDataSourceRefsForWorkItem(q, q.item)
                    /\ q.op = "createAgentProfileDraft" =>
                         q.target \in ListAgentProfiles(q)
  BY DEF AnswersListed
<1>1. q \in RequestType /\ Fields(q) /\ Checked(q) /\ Answered(c, q)
  BY DEF IInv, RequestsOk, Facts
<1>2. q.run \in WorkIds \union {None} /\ q.item \in WorkIds \union {None}
  BY <1>1 DEF RequestType
<1>3. q.pc \notin {"idle", "forbidden", "badRequest"}
  OBVIOUS
<1>4. ASSUME q.op \in {"createWorkItem", "createWorkItemRun"}
      PROVE  /\ NewId(c) \in WorkIds /\ NewId(c) = IdOf(c, q)
             /\ q.value = None => NewId(c) = c /\ c \notin Scopes
             /\ q.value # None => /\ NewId(c) \in Scopes
                                  /\ NewId(c)[1] = q.user /\ NewId(c)[2] = q.ws
  <2>1. NewId(c) = IdOf(c, q)
    BY DEF NewId, IdOf, Scope
  <2>2. q.user \in Users /\ q.ws \in Workspaces /\ q.value \in Keys \union {None}
    BY <1>1, <1>3, <1>4 DEF RequestType, Fields
  <2>3. CASE q.value = None
    <3>1. NewId(c) = c
      BY <2>3 DEF NewId
    <3> QED
      BY <2>1, <2>3, <3>1, RecordsAssumption DEF WorkIds
  <2>4. CASE q.value # None
    <3>1. NewId(c) = <<q.user, q.ws, q.value>>
      BY <2>4 DEF NewId, Scope
    <3> QED
      BY <2>1, <2>2, <2>4, <3>1 DEF Scopes, WorkIds
  <2> QED
    BY <2>3, <2>4
<1>5. ASSUME q.op = "createWorkItem" PROVE NewId(c) \in ListWorkItems(q)
  <2>1. NewId(c) \in WorkIds /\ items[NewId(c)] # None
    BY <1>1, <1>4, <1>5 DEF Answered
  <2>2. items[NewId(c)].user = q.user /\ items[NewId(c)].ws = q.ws
    BY <1>4, <1>5, <2>1 DEF IInv, ItemsOk, Keyed, SameOwner
  <2> QED
    BY <2>1, <2>2 DEF ListWorkItems, ListWorkItemsForUser, OfUser, OwnedBy
<1>6. ASSUME q.op = "createWorkItemRun" PROVE NewId(c) \in ListRuns(q)
  <2>1. NewId(c) \in WorkIds /\ runs[NewId(c)] # None
    BY <1>1, <1>4, <1>6 DEF Answered
  <2>2. runs[NewId(c)].user = q.user /\ runs[NewId(c)].ws = q.ws
    BY <1>4, <1>6, <2>1 DEF IInv, RunsOk, Keyed, SameOwner
  <2> QED
    BY <2>1, <2>2 DEF ListRuns, ListRunsForUser, OfUser, OwnedBy
<1>7. ASSUME RunChecked(q), q.run # None
      PROVE  OwnedBy(runs[q.run], q.user) /\ runs[q.run].ws = q.ws
  BY <1>1, <1>7 DEF Checked, OwnsRun, GetRunById
<1>8. ASSUME ItemChecked(q) PROVE ShowsItem(q, q.item)
  BY <1>1, <1>8 DEF Checked, OwnsItem, ShowsItem
<1>9. ASSUME q.op = "createApproval" PROVE c \in ListApprovalsForRun(q, q.run)
  <2>1. SameOwner(approvals[c], q) /\ approvals[c].run = q.run
    BY <1>1, <1>9 DEF Answered
  <2>2. RunChecked(q) /\ q.run # None
    BY <1>1, <1>3, <1>9, RecordsAssumption DEF RunChecked, Fields
  <2>3. c \in Stored(approvals)
    BY <2>1 DEF Stored, SameOwner, IInv, ApprovalsOk
  <2> QED
    BY <1>7, <2>1, <2>2, <2>3 DEF ListApprovalsForRun, LinkedToRun, RowsForRun, OfUser,
                                  OwnedBy, SameOwner
<1>10. ASSUME q.op = "createSurface"
       PROVE  /\ q.run # None => c \in ListSurfacesForRun(q, q.run)
              /\ q.item # None => c \in ListSurfacesForWorkItem(q, q.item)
  <2>1. SameOwner(surfaces[c], q) /\ surfaces[c].run = q.run /\ surfaces[c].item = q.item
    BY <1>1, <1>10 DEF Answered
  <2>2. (q.run # None => RunChecked(q)) /\ (q.item # None => ItemChecked(q))
    BY <1>10 DEF RunChecked, ItemChecked, SurfaceOrSource
  <2>3. c \in Stored(surfaces)
    BY <2>1 DEF Stored, SameOwner, IInv, SurfacesOk
  <2> QED
    BY <1>7, <1>8, <2>1, <2>2, <2>3
       DEF ListSurfacesForRun, ListSurfacesForWorkItem, LinkedToRun, LinkedToItem, RowsForRun,
           RowsForWorkItem, OfUser, OwnedBy, SameOwner
<1>11. ASSUME q.op = "createDataSourceRef"
       PROVE  /\ q.run # None => c \in ListDataSourceRefsForRun(q, q.run)
              /\ q.item # None => c \in ListDataSourceRefsForWorkItem(q, q.item)
  <2>1. SameOwner(sources[c], q) /\ sources[c].run = q.run /\ sources[c].item = q.item
    BY <1>1, <1>11 DEF Answered
  <2>2. (q.run # None => RunChecked(q)) /\ (q.item # None => ItemChecked(q))
    BY <1>11 DEF RunChecked, ItemChecked, SurfaceOrSource
  <2>3. c \in Stored(sources)
    BY <2>1 DEF Stored, SameOwner, IInv, SourcesOk
  <2> QED
    BY <1>7, <1>8, <2>1, <2>2, <2>3
       DEF ListDataSourceRefsForRun, ListDataSourceRefsForWorkItem, LinkedToRun, LinkedToItem,
           RowsForRun, RowsForWorkItem, OfUser, OwnedBy, SameOwner
<1>12. ASSUME q.op = "createAgentProfileDraft" PROVE q.target \in ListAgentProfiles(q)
  BY <1>1, <1>3, <1>12 DEF Answered, Fields, ListAgentProfiles, OwnedBy
<1> QED
  BY <1>5, <1>6, <1>9, <1>10, <1>11, <1>12

LEMMA WorkFollows == IInv => WorkListedToOwner
<1> SUFFICES ASSUME IInv, NEW a \in Callers, NEW r \in WorkIds,
                    runs[r] # None, runs[r].item # None
             PROVE  WorkListedToOwner!(a, r)!2
  BY DEF WorkListedToOwner
<1> DEFINE owns == HasProductAccessGroup(a) /\ runs[r].user = a.user
           here == runs[r].ws = a.ws
<1>1. ShowsRun(a, r) <=> runs[r].user = a.user
  BY DEF ShowsRun, OwnedBy, GetRunById
<1>2. r \in ListRuns(a) <=> runs[r].user = a.user /\ here
  BY DEF ListRuns, ListRunsForUser, OfUser, OwnedBy
<1>3. runs[r].user = a.user /\ here => ShowsItem(a, runs[r].item)
  BY DEF IInv, RunsOk, ItemIsOwned, ShowsItem
<1>4. runs[r].user = a.user => (r \in ListWorkItemRuns(a, runs[r].item) <=> here)
  <2>1. r \in ListRunsForWorkItem(runs[r].item)
    BY DEF ListRunsForWorkItem, Stored, IInv, RunsOk
  <2> QED
    BY <1>3, <2>1 DEF ListWorkItemRuns, OfUser, OwnedBy
<1>5. ASSUME NEW e \in ListEvents(r, 0)
      PROVE  <<r, e>> \in ListWorkItemEvents(a, runs[r].item)
               <=> r \in ListWorkItemRuns(a, runs[r].item)
  BY DEF ListWorkItemEvents
<1>6. /\ RunHandlers(a, r).shown <=> owns
      /\ RunHandlers(a, r).listed <=> owns /\ here
      /\ RunHandlers(a, r).events = IF owns THEN ListEvents(r, 0) ELSE {}
  BY <1>1, <1>2 DEF RunHandlers, NothingShown, ListRunEvents
<1>7. ASSUME NEW x \in artifacts, x.run = r
      PROVE  /\ x \in ArtifactsHandler(a, r).ofItem <=> owns /\ here /\ x.item # None
             /\ x \in ArtifactsHandler(a, r).ofRun <=> owns
             /\ x \in ArtifactsHandler(a, r).one <=> owns
             /\ x \in ArtifactsHandler(a, r).download <=> owns /\ x.located
  <2>1. /\ SameOwner(runs[r], x) /\ x \in ArtifactRecord
        /\ x.item # None => x.item = runs[r].item
    BY <1>7 DEF IInv, ArtifactsOk
  <2>2. x # None
    BY <2>1, RecordsAssumption
  <2>3. OfUser(x, a.user, runs[r].ws) <=> runs[r].user = a.user
    BY <2>1, <2>2 DEF SameOwner, OfUser, OwnedBy
  <2>4. OfUser(x, a.user, a.ws) <=> runs[r].user = a.user /\ here
    BY <2>1, <2>2 DEF SameOwner, OfUser, OwnedBy
  <2>5. x \in ArtifactsHandler(a, r).ofItem <=> owns /\ here /\ x.item # None
    <3>1. x \in ListWorkItemArtifacts(a, runs[r].item)
            <=> runs[r].user = a.user /\ here /\ x.item # None
      BY <1>3, <2>1, <2>4 DEF ListWorkItemArtifacts, ListArtifactsForWorkItem
    <3> QED
      BY <3>1 DEF ArtifactsHandler, NoArtifacts
  <2>6. x \in ArtifactsHandler(a, r).ofRun <=> owns
    <3>1. x \in ListRunArtifacts(a, r) <=> runs[r].user = a.user
      BY <1>7, <2>3 DEF ListRunArtifacts, ListArtifactsForRun, OwnedBy
    <3> QED
      BY <3>1 DEF ArtifactsHandler, NoArtifacts
  <2>7. x \in ArtifactsHandler(a, r).one <=> owns
    <3>1. x \in GetRunArtifact(a, r) <=> runs[r].user = a.user
      BY <1>1, <1>7, <2>3 DEF GetRunArtifact, GetArtifact
    <3> QED
      BY <3>1 DEF ArtifactsHandler, NoArtifacts
  <2>8. x \in ArtifactsHandler(a, r).download <=> owns /\ x.located
    <3>1. x \in GetArtifactDownloadUrl(a, r) <=> runs[r].user = a.user /\ x.located
      BY <1>1, <1>7, <2>3 DEF GetArtifactDownloadUrl, GetArtifact
    <3> QED
      BY <3>1 DEF ArtifactsHandler, NoArtifacts
  <2> QED
    BY <2>5, <2>6, <2>7, <2>8
<1> QED
  BY <1>4, <1>5, <1>6, <1>7

LEMMA AdminsFollow == IInv => AdminsFollowRuns
<1> SUFFICES ASSUME IInv, NEW a \in Callers
             PROVE  /\ ~IsAdminUser(a) => /\ ListAdminRuns(a) = {}
                                          /\ \A r \in WorkIds : ListAdminRunEvents(a, r, 0) = {}
                    /\ IsAdminUser(a) => \A r \in Stored(runs) :
                         \E s \in ListAdminRuns(a) :
                           /\ s.run = r
                           /\ s.eventCount = Cardinality({e \in log[r] : e.seq <= s.latest})
                           /\ \A e \in log[r] : e.seq > s.latest =>
                                \/ e \in ListAdminRunEvents(a, r, s.latest)
                                \/ Cardinality(ListAdminRunEvents(a, r, s.latest)) = PageSize
  BY DEF AdminsFollowRuns
<1>1. ~IsAdminUser(a) => /\ ListAdminRuns(a) = {}
                         /\ \A r \in WorkIds : ListAdminRunEvents(a, r, 0) = {}
  BY DEF ListAdminRuns, ListAdminRunEvents
<1>2. ASSUME IsAdminUser(a), NEW r \in Stored(runs)
      PROVE  \E s \in ListAdminRuns(a) :
               /\ s.run = r
               /\ s.eventCount = Cardinality({e \in log[r] : e.seq <= s.latest})
               /\ \A e \in log[r] : e.seq > s.latest =>
                    \/ e \in ListAdminRunEvents(a, r, s.latest)
                    \/ Cardinality(ListAdminRunEvents(a, r, s.latest)) = PageSize
  <2> DEFINE events == ListEvents(r, 0)
             latest == IF events = {} THEN 0
                       ELSE CHOOSE n \in {e.seq : e \in events} : \A e \in events : e.seq <= n
             upTo == {e \in log[r] : e.seq <= latest}
  <2>1. r \in WorkIds /\ LogOk /\ runs[r] # None
    BY StoredIds DEF IInv, Stored
  <2>2. log[r] = Later(r, 0) /\ \A e \in log[r] : e.seq \in Nat /\ e.seq # 0
    BY <2>1 DEF LogOk, Later, EventRecord
  <2>3. events = Page(log[r]) /\ Distinct(log[r]) /\ Distinct(events)
    BY <2>1, <2>2, ListIsPage, LogIsDistinct
  <2>4. latest \in Nat /\ events \subseteq log[r] /\ \A e \in events : e.seq <= latest
    BY <2>3, LastPosition DEF Distinct, Page
  <2>5. events # {} => \E f \in events : f.seq = latest
    BY <2>3, LastPosition DEF Distinct
  <2> HIDE DEF latest, events
  <2>6. events = upTo
    <3>1. ASSUME NEW e \in log[r], e.seq <= latest PROVE e \in events
      <4>1. CASE events = {}
        BY <2>2, <2>4, <3>1, <4>1 DEF latest, events
      <4>2. CASE events # {}
        BY <2>3, <2>5, <3>1, <4>2, PageHasNoGap DEF Distinct
      <4> QED
        BY <4>1, <4>2
    <3> QED
      BY <2>4, <3>1
  <2>7. SummarizeRun(r) = [run |-> r, eventCount |-> Cardinality(events), latest |-> latest]
    BY DEF SummarizeRun, latest, events
  <2>8. SummarizeRun(r) \in ListAdminRuns(a)
    BY <1>2 DEF ListAdminRuns, ListRecentRuns
  <2>9. ASSUME NEW e \in log[r], e.seq > latest
        PROVE  \/ e \in ListAdminRunEvents(a, r, latest)
               \/ Cardinality(ListAdminRunEvents(a, r, latest)) = PageSize
    <3>1. ListAdminRunEvents(a, r, latest) = Page(Later(r, latest))
      BY <1>2, <2>1, ListIsPage DEF ListAdminRunEvents, GetRunById
    <3>2. e \in Later(r, latest) /\ Distinct(Later(r, latest))
      BY <2>1, <2>4, <2>9, LogIsDistinct DEF Later
    <3> QED
      BY <3>1, <3>2, PageIsFull
  <2>10. PICK s : s = SummarizeRun(r)
    OBVIOUS
  <2>11. s \in ListAdminRuns(a) /\ s.run = r /\ s.latest = latest
         /\ s.eventCount = Cardinality(upTo)
    BY <2>6, <2>7, <2>8, <2>10
  <2> QED
    BY <2>9, <2>11
<1> QED
  BY <1>1, <1>2

\* Users are listed what they were told of and own, with its events and artifacts
\* and nothing of others, and an admin can follow any run to the end of its log
\* page by page, whatever size a page has and in whatever order events were
\* appended (work-items.ts:159-183, artifacts.ts:26-116, query-runs.ts:67-147).
THEOREM ListsShow == Spec => []ListsSound
<1>1. IInv => ListsSound
  BY AnswersFollow, WorkFollows, AdminsFollow DEF ListsSound
<1> QED
  BY <1>1, Invariance, PTL

LEMMA EngagementsFollow == IInv => EngagementsKept
<1> SUFFICES ASSUME IInv, NEW c \in Requests, At(c, "userEngagement", "accepted"),
                    NEW mine, mine = [seq |-> req[c].latest + 1, by |-> c]
             PROVE  /\ mine \in ListRunEvents(req[c], req[c].run, req[c].latest)
                    /\ \A e \in log[req[c].run] : e.seq = mine.seq => e = mine
  BY DEF EngagementsKept
<1> DEFINE r == req[c].run
           after == req[c].latest
<1>1. /\ req[c] \in RequestType /\ Fields(req[c]) /\ Checked(req[c])
      /\ Answered(c, req[c]) /\ req[c].op = "userEngagement" /\ req[c].pc = "accepted"
  BY DEF IInv, RequestsOk, Facts, At
<1>2. after \in Nat /\ r \in WorkIds /\ mine \in log[r]
  BY <1>1 DEF RequestType, Fields, Answered
<1>3. RunChecked(req[c])
  BY <1>1 DEF RunChecked
<1>4. ShowsRun(req[c], r)
  BY <1>1, <1>3 DEF Checked, OwnsRun, ShowsRun
<1> HIDE DEF r, after
<1>5. mine.seq = after + 1
  BY DEF after
<1>6. mine \in Later(r, after) /\ \A e \in log[r] : e.seq \in Nat
  BY <1>2, <1>5 DEF Later, IInv, LogOk, EventRecord
<1>7. Before(Later(r, after), mine) = {}
  BY <1>2, <1>5, <1>6 DEF Later, Before
<1>8. mine \in Page(Later(r, after))
  <2>1. Cardinality(Before(Later(r, after), mine)) = 0
    BY <1>7, FS_EmptySet
  <2> QED
    BY <1>6, <2>1, RecordsAssumption DEF Page
<1>9. mine \in ListRunEvents(req[c], r, after)
  BY <1>4, <1>8, ListIsPage DEF ListRunEvents
<1> QED
  BY <1>2, <1>9 DEF r, after, IInv, LogOk

LEMMA DecisionsFollow == IInv => DecisionsStand
BY DEF IInv, ApprovalsOk, RequestsOk, Facts, Awaited, DecisionsStand, At

\* An engagement that was accepted is in its run's log, alone at its position and
\* on the page after the position before it, and a decided approval is never open
\* again (handlers.ts:858-886, 998-1017, approvals.ts:126-140).
THEOREM AnswersLast == Spec => []AnswersStand
<1>1. IInv => AnswersStand
  BY EngagementsFollow, DecisionsFollow DEF AnswersStand
<1> QED
  BY <1>1, Invariance, PTL

\* No step undoes a final decision, sets a status that its owner did not ask for,
\* drops a URL or makes an approved version a draft again (approvals.ts:126-140,
\* work-items.ts:28-54, surfaces.ts:200, dynamo-store.ts:74-80, 160-186, 296-302).
THEOREM ChangesAreAsked == Spec => ChangesAsked
<1>1. IInv /\ [Next]_vars => ChangesStep
  BY Steps
<1>2. ChangesStep =>
        /\ \A x \in Requests : Settled(x) => Settled(x)' /\ approvals'[x] = approvals[x]
        /\ \A i \in WorkIds :
             items[i] # None /\ items'[i] # items[i] =>
               \E c \in Requests :
                 /\ At(c, "updateWorkItemStatus", "update") /\ req[c].item = i
                 /\ req[c].user = items[i].user /\ items'[i].status = req[c].value
        /\ \A c \in Requests :
             surfaces[c] # None /\ surfaces[c].url # None => surfaces'[c].url # None
        /\ \A p \in ProfileKeys :
             profiles[p] # None /\ profiles[p].profile.state = "approved" =>
               profiles'[p] = profiles[p]
  BY DEF ChangesStep, SettledStep, StatusStep, UrlStep, ApprovalStep
<1> QED
  BY <1>1, <1>2, Invariance, PTL
     DEF Spec, ChangesAsked, SettledStays, StatusChangesAsked, UrlKept, ApprovalKept

(***************************************************************************)
(* The log of each run is the append-only log of EventLog.                 *)
(***************************************************************************)

\* An event put where a run's log has none is an append to that log and nothing
\* to the logs of other runs.
LEMMA PutAppends ==
    ASSUME log \in [WorkIds -> SUBSET EventRecord], NEW r \in WorkIds, NEW i \in WorkIds,
           NEW event, \A e \in log[i] : e.seq # event.seq,
           log' = [log EXCEPT ![i] = @ \union {event}]
    PROVE  [Log(r)!Next]_(log[r])
<1>1. CASE i = r
  <2>1. log'[r] = log[r] \union {event}
    BY <1>1
  <2>2. Log(r)!Append(event)
    BY <1>1, <2>1 DEF Log!Append
  <2> QED
    BY <2>1, <2>2 DEF Log!Next
<1>2. CASE i # r
  BY <1>2
<1> QED
  BY <1>1, <1>2

\* Only an engagement and an agent's event touch a log.
LEMMA WhoAppends ==
    ASSUME [Next]_vars, log' # log
    PROVE  \/ \E c \in Requests : /\ At(c, "userEngagement", "event")
                                  /\ PutEvent(c, req[c].run, [seq |-> req[c].latest + 1, by |-> c])
           \/ \E r \in WorkIds, n \in AgentSeqs : AgentEvent(r, n)
<1> USE DEF tables, ledger
<1>1. ASSUME NEW c \in Requests, CreateWorkItem(c) \/ UpdateWorkItemStatus(c) \/ CreateWorkItemRun(c)
      PROVE  log' = log
  BY <1>1 DEF CreateWorkItem, PutWorkItem, UpdateWorkItemStatus, Check, CreateWorkItemRun,
              CreateRunLedger
<1>2. ASSUME NEW c \in Requests, CreateApproval(c) \/ DecideApproval(c)
      PROVE  log' = log
  BY <1>2 DEF CreateApproval, PutApproval, DecideApproval, UpdateApproval, Check
<1>3. ASSUME NEW c \in Requests, CreateSurface(c) \/ UpdateSurface(c) \/ PublishSurface(c)
      PROVE  log' = log
  BY <1>3 DEF CreateSurface, PutSurface, UpdateSurface, PublishSurface, Check
<1>4. ASSUME NEW c \in Requests, CreateDataSourceRef(c) \/ CreateAgentProfileDraft(c)
      PROVE  log' = log
  BY <1>4 DEF CreateDataSourceRef, PutDataSourceRef, Check, CreateAgentProfileDraft, PutBundle,
              PutAgentProfileVersion
<1>5. ASSUME NEW c \in Requests, ApproveAgentProfileVersion(c) PROVE log' = log
  BY <1>5 DEF ApproveAgentProfileVersion, PutBundle, UpdateAgentProfileVersion
<1>6. ASSUME NEW c \in Requests, RegisterHostNode(c) \/ HeartbeatHostNode(c)
      PROVE  log' = log
  BY <1>6 DEF RegisterHostNode, HeartbeatHostNode, GetHostNode, PutHostNode
<1>7. ASSUME NEW c \in Requests, UserEngagement(c)
      PROVE  /\ At(c, "userEngagement", "event")
             /\ PutEvent(c, req[c].run, [seq |-> req[c].latest + 1, by |-> c])
  BY <1>7 DEF UserEngagement, Check, NextEventSeq
<1>8. ASSUME NEW c \in Requests, Receive(c) \/ Crash(c) PROVE log' = log
  BY <1>8 DEF Receive, Crash
<1>9. ASSUME NEW r \in WorkIds, AgentArtifact(r) PROVE log' = log
  BY <1>9 DEF AgentArtifact
<1>10. Quiescent \/ UNCHANGED vars => log' = log
  BY DEF Quiescent, vars
<1> QED
  BY <1>1, <1>2, <1>3, <1>4, <1>5, <1>6, <1>7, <1>8, <1>9, <1>10 DEF Next, Handler

LEMMA LogStep ==
    ASSUME IInv, [Next]_vars, NEW r \in WorkIds
    PROVE  [Log(r)!Next]_(log[r])
<1>1. log \in [WorkIds -> SUBSET EventRecord]
  BY DEF IInv, LogOk
<1>2. ASSUME NEW c \in Requests, At(c, "userEngagement", "event"), log' # log,
             PutEvent(c, req[c].run, [seq |-> req[c].latest + 1, by |-> c])
      PROVE  [Log(r)!Next]_(log[r])
  <2>1. req[c].run \in WorkIds
    BY <1>2 DEF At, IInv, RequestsOk, Facts, Fields, Checked, RunChecked
  <2>2. PICK event : /\ log' = [log EXCEPT ![req[c].run] = @ \union {event}]
                     /\ \A e \in log[req[c].run] : e.seq # event.seq
    BY <1>2 DEF PutEvent
  <2> QED
    BY <1>1, <2>1, <2>2, PutAppends
<1>3. ASSUME NEW i \in WorkIds, NEW n \in AgentSeqs, AgentEvent(i, n)
      PROVE  [Log(r)!Next]_(log[r])
  <2>1. PICK event : event = [seq |-> n, by |-> "agent"]
    OBVIOUS
  <2>2. event.seq = n
    BY <2>1
  <2>3. /\ log' = [log EXCEPT ![i] = @ \union {event}]
        /\ \A e \in log[i] : e.seq # event.seq
    BY <1>3, <2>1, <2>2 DEF AgentEvent
  <2> QED
    BY <1>1, <2>3, PutAppends
<1> QED
  BY <1>2, <1>3, WhoAppends

\* The events of engagements and agents, whose positions are sought or counted
\* without a lock, implement the append-only log for every run
\* (handlers.ts:858-886, 998-1017, dynamo-store.ts:490-496).
THEOREM Implements == Spec => LogSpec
<1>1. ASSUME NEW r \in WorkIds
      PROVE  Spec => Log(r)!Spec
  <2>1. Init => Log(r)!Init
    BY DEF Init, Log!Init
  <2> QED
    BY <2>1, LogStep, Invariance, PTL DEF Spec, Log!Spec
<1> QED
  BY <1>1 DEF LogSpec

=============================================================================
