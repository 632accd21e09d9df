----------------------- MODULE HarnessDispatch_proofs -----------------------
(***************************************************************************)
(* Proofs about the dispatch queue and its workers, for any number of      *)
(* workers, runs and attempts and for readings of the clock of any age:    *)
(* types, bounds, that each call of the harness has a marker and a claim   *)
(* of its own, that the leases implement DispatchMarked, and that nothing  *)
(* workers do late changes a settled run; and about the composition of     *)
(* queue and ingress that the run harness checks.                          *)
(***************************************************************************)
EXTENDS MCHarness, HarnessReservations_proofs

(* EndTick leaves a worker idle, with neither claim nor view. *)
LEMMA EndTickType ==
  ASSUME DispatchTypeOK, NEW w \in Workers, EndTick(w)
  PROVE  /\ pc' \in [Workers -> {"idle", "choosing"} \cup Holding]
         /\ job' \in [Workers -> Jobs \cup {None}]
         /\ \A v \in Workers : pc'[v] \in Holding => job'[v] \in Jobs
         /\ view' \in [Workers -> Views]
BY DEF EndTick, Goto, DispatchTypeOK, Holding, NoView, Views

(* A step that moves a worker that holds a job to another holding label. *)
LEMMA GotoType ==
  ASSUME DispatchTypeOK, NEW w \in Workers, NEW l \in Holding, pc[w] \in Holding, Goto(w, l),
         UNCHANGED <<job, view>>
  PROVE  /\ pc' \in [Workers -> {"idle", "choosing"} \cup Holding]
         /\ job' \in [Workers -> Jobs \cup {None}]
         /\ \A v \in Workers : pc'[v] \in Holding => job'[v] \in Jobs
         /\ view' \in [Workers -> Views]
BY DEF Goto, DispatchTypeOK

(* Writing a well-typed row keeps the lease table well typed. *)
LEMMA SetLeaseType ==
  ASSUME lease \in [RunIds -> Leases], NEW r \in RunIds, NEW row \in Leases, SetLease(r, row)
  PROVE  lease' \in [RunIds -> Leases]
BY DEF SetLease

LEMMA ClaimQueryType ==
  ASSUME DispatchTypeOK, NEW w \in Workers, ClaimQuery(w)
  PROVE  DispatchTypeOK'
<1>1. TypeOK'
  BY DEF DispatchTypeOK, TypeOK, ClaimQuery, vars, runVars
<1>2. view' \in [Workers -> Views]
  <2>1. PICK at \in Readings :
          view' = [view EXCEPT ![w] = [at |-> at, due |-> {r \in RunIds : Claimable(r, at)}]]
    BY DEF ClaimQuery
  <2>2. at \in Nat
    BY ReadingsType DEF DispatchTypeOK, TypeOK
  <2>3. [at |-> at, due |-> {r \in RunIds : Claimable(r, at)}] \in Views
    BY <2>2 DEF Views
  <2> QED
    BY <2>1, <2>3 DEF DispatchTypeOK
<1> QED
  BY <1>1, <1>2 DEF ClaimQuery, Goto, DispatchTypeOK, Holding

LEMMA ClaimLeaseType ==
  ASSUME DispatchTypeOK, NEW w \in Workers, NEW r \in RunIds, ClaimLease(w, r)
  PROVE  DispatchTypeOK'
<1>1. TypeOK'
  BY DEF DispatchTypeOK, TypeOK, ClaimLease, vars, runVars
<1> DEFINE at   == view[w].at
           ends == Lesser(at + LeaseTime, deadline[r])
           gen  == lease[r].generation + 1
           row  == [state |-> "leased", generation |-> gen,
                    attempt |-> lease[r].attempt + 1, until |-> ends, eligible |-> at]
<1>2. at \in Nat /\ deadline[r] \in Nat /\ gen \in Nat /\ lease[r].attempt + 1 \in Nat
  BY DEF DispatchTypeOK, TypeOK, Views, Leases
<1>3. ends \in Nat
  BY <1>2, DispatchAssumption DEF Lesser
<1>4. row \in Leases
  BY <1>2, <1>3 DEF Leases, LeaseStates, Held
<1>5. lease' = [lease EXCEPT ![r] = row]
  BY DEF ClaimLease
<1>6. [run |-> r, token |-> gen, until |-> ends] \in Jobs
  BY <1>2, <1>3 DEF Jobs
<1>7. job' = [job EXCEPT ![w] = [run |-> r, token |-> gen, until |-> ends]]
  BY DEF ClaimLease
<1> HIDE DEF at, ends, gen, row
<1>8. lease' \in [RunIds -> Leases]
  BY <1>4, <1>5 DEF DispatchTypeOK
<1>9. job' \in [Workers -> Jobs \cup {None}] /\ job'[w] \in Jobs
  BY <1>6, <1>7 DEF DispatchTypeOK
<1>10. \A v \in Workers : pc'[v] \in Holding => job'[v] \in Jobs
  BY <1>7, <1>9 DEF DispatchTypeOK, ClaimLease, Goto
<1>11. /\ view' \in [Workers -> Views]
       /\ pc' \in [Workers -> {"idle", "choosing"} \cup Holding]
  BY DEF DispatchTypeOK, ClaimLease, Goto, NoView, Views, Holding
<1> QED
  BY <1>1, <1>8, <1>9, <1>10, <1>11 DEF DispatchTypeOK, ClaimLease

(* Renewing, releasing and marking rewrite some fields of the held row. *)
LEMMA RenewType ==
  ASSUME DispatchTypeOK, NEW w \in Workers, Renew(w)
  PROVE  DispatchTypeOK'
<1> DEFINE r == job[w].run
<1>1. r \in RunIds /\ lease[r] \in Leases /\ deadline[r] \in Nat
  BY DEF Renew, DispatchTypeOK, TypeOK, Holding, Jobs
<1>2. PICK at \in Readings :
        SetLease(r, [lease[r] EXCEPT !.until = Lesser(at + LeaseTime, deadline[r])])
  BY DEF Renew
<1>3. Lesser(at + LeaseTime, deadline[r]) \in Nat
  BY <1>1, ReadingsType, DispatchAssumption DEF Lesser, DispatchTypeOK, TypeOK
<1>4. [lease[r] EXCEPT !.until = Lesser(at + LeaseTime, deadline[r])] \in Leases
  BY <1>1, <1>3 DEF Leases
<1>5. lease' \in [RunIds -> Leases]
  BY <1>1, <1>2, <1>4, SetLeaseType DEF DispatchTypeOK
<1>6. TypeOK'
  BY DEF DispatchTypeOK, TypeOK, Renew, vars, runVars
<1> QED
  BY <1>5, <1>6 DEF Renew, DispatchTypeOK

(* While the database serializes claims, a lease's attempts are counted one *)
(* by one: what a claim's query saw of them is still so when it commits.    *)
ClaimsSerialized ==
  /\ \A v, w \in Workers : pc[v] = "choosing" /\ pc[w] = "choosing" => v = w
  /\ \A w \in Workers : pc[w] = "choosing" =>
       \A r \in view[w].due : lease[r].attempt < MaxAttempts

AttemptsCounted ==
  \A r \in RunIds :
    /\ lease[r].attempt <= MaxAttempts
    /\ lease[r].state = "none" => lease[r].attempt = 0
    /\ lease[r].state = "leased" => lease[r].attempt >= 1
    /\ lease[r].state = "exhausted" => lease[r].attempt = MaxAttempts

TypeInv == DispatchTypeOK /\ ClaimsSerialized /\ AttemptsCounted

(* What a release writes: a lease that keeps its generation and attempts. *)
LEMMA ReleasedRow ==
  ASSUME TypeInv, NEW w \in Workers, ReleaseForRetry(w)
  PROVE  \E row \in Leases :
           /\ SetLease(job[w].run, row)
           /\ row.generation = lease[job[w].run].generation
           /\ row.attempt = lease[job[w].run].attempt
           /\ row.state \in {"exhausted", "retry"}
<1> DEFINE r == job[w].run
<1>1. r \in RunIds /\ lease[r] \in Leases
  BY DEF ReleaseForRetry, TypeInv, DispatchTypeOK, Holding, Jobs
<1>2. PICK at \in Readings :
        /\ HoldsLive(w, at)
        /\ SetLease(r, [lease[r] EXCEPT
             !.state = IF lease[r].attempt >= MaxAttempts THEN "exhausted" ELSE "retry",
             !.until = at, !.eligible = at + Backoff(lease[r].attempt)])
  BY DEF ReleaseForRetry
<1>3. lease[r].attempt \in 1 .. MaxAttempts
  BY <1>1, <1>2, DispatchAssumption DEF HoldsLive, Holds, TypeInv, AttemptsCounted, Leases
<1>4. Backoff(lease[r].attempt) \in Nat
  <2>1. \A n \in 1 .. MaxAttempts : RetryFloor[n] \in Nat
    BY DispatchAssumption
  <2>2. RetryFloor[lease[r].attempt] \in Nat
    BY <1>3, <2>1
  <2>3. RetryDelay \in Nat
    BY DispatchAssumption
  <2> QED
    BY <2>2, <2>3 DEF Backoff, Greater
<1>5. at \in Nat
  BY ReadingsType DEF TypeInv, DispatchTypeOK, TypeOK
<1> DEFINE state == IF lease[r].attempt >= MaxAttempts THEN "exhausted" ELSE "retry"
           later == at + Backoff(lease[r].attempt)
           row   == [lease[r] EXCEPT !.state = state, !.until = at, !.eligible = later]
<1>6. /\ row \in Leases /\ row.generation = lease[r].generation
      /\ row.attempt = lease[r].attempt /\ row.state \in {"exhausted", "retry"}
  <2>1. state \in {"exhausted", "retry"} /\ state \in LeaseStates
    BY DEF LeaseStates
  <2>2. later \in Nat
    BY <1>4, <1>5
  <2> HIDE DEF state, later
  <2> QED
    BY <1>1, <1>5, <2>1, <2>2 DEF Leases
<1> QED
  BY <1>2, <1>6

LEMMA ReleaseType ==
  ASSUME TypeInv, NEW w \in Workers, ReleaseForRetry(w)
  PROVE  DispatchTypeOK'
<1>1. job[w].run \in RunIds
  BY DEF ReleaseForRetry, TypeInv, DispatchTypeOK, Holding, Jobs
<1>2. lease' \in [RunIds -> Leases]
  BY <1>1, ReleasedRow, SetLeaseType DEF TypeInv, DispatchTypeOK
<1>3. TypeOK'
  BY DEF TypeInv, DispatchTypeOK, TypeOK, ReleaseForRetry, vars, runVars
<1> QED
  BY <1>2, <1>3, EndTickType DEF ReleaseForRetry, TypeInv, DispatchTypeOK

(* Steps that write the audit of a run and one field of its lease. *)
LEMMA MarkType ==
  ASSUME DispatchTypeOK, NEW w \in Workers, MarkDispatchStarted(w)
  PROVE  DispatchTypeOK'
<1> DEFINE r == job[w].run
<1>1. r \in RunIds /\ lease[r] \in Leases
  BY DEF MarkDispatchStarted, DispatchTypeOK, Holding, Jobs
<1>2. [lease[r] EXCEPT !.state = "dispatching"] \in Leases
  BY <1>1 DEF Leases, LeaseStates, Held
<1>3. lease' \in [RunIds -> Leases]
  BY <1>1, <1>2, SetLeaseType DEF MarkDispatchStarted, DispatchTypeOK
<1>4. trail' \in [RunIds -> Seq(AuditRows)]
  BY <1>1, AuditType DEF MarkDispatchStarted, DispatchTypeOK, TypeOK, AuditKinds, Statuses, Active
<1>5. TypeOK'
  BY <1>4 DEF DispatchTypeOK, TypeOK, MarkDispatchStarted
<1> QED
  BY <1>3, <1>5, GotoType DEF MarkDispatchStarted, DispatchTypeOK, Holding

LEMMA InvokeType ==
  ASSUME DispatchTypeOK, NEW w \in Workers, Invoke(w) \/ ProviderAnswer(w) \/ PreflightPass(w)
                                            \/ PreflightFail(w)
  PROVE  DispatchTypeOK'
<1>1. TypeOK'
  BY DEF DispatchTypeOK, TypeOK, Invoke, ProviderAnswer, PreflightPass, PreflightFail, vars, runVars
<1>2. invocations' \in [RunIds -> Nat]
  BY DEF DispatchTypeOK, Invoke, ProviderAnswer, PreflightPass, PreflightFail, Holding, Jobs
<1>3. /\ pc' \in [Workers -> {"idle", "choosing"} \cup Holding]
      /\ \A v \in Workers : pc'[v] \in Holding => job'[v] \in Jobs
  BY DEF DispatchTypeOK, Invoke, ProviderAnswer, PreflightPass, PreflightFail, Holding, Goto
<1> QED
  BY <1>1, <1>2, <1>3 DEF DispatchTypeOK, Invoke, ProviderAnswer, PreflightPass, PreflightFail

LEMMA AcknowledgeType ==
  ASSUME DispatchTypeOK, NEW w \in Workers, Acknowledge(w)
  PROVE  DispatchTypeOK'
<1> DEFINE r == job[w].run
<1>1. r \in RunIds /\ lease[r] \in Leases
  BY DEF Acknowledge, DispatchTypeOK, Holding, Jobs
<1>2. [lease[r] EXCEPT !.state = "acknowledged"] \in Leases
  BY <1>1 DEF Leases, LeaseStates, Held
<1>3. lease' \in [RunIds -> Leases]
  BY <1>1, <1>2, SetLeaseType DEF Acknowledge, DispatchTypeOK
<1>4. TypeOK'
  BY <1>1, StartType DEF Acknowledge, DispatchTypeOK
<1>5. CASE EndTick(w)
  BY <1>3, <1>4, <1>5, EndTickType DEF Acknowledge, DispatchTypeOK
<1>6. CASE Goto(w, "holding") /\ UNCHANGED <<job, view>>
  BY <1>3, <1>4, <1>6, GotoType DEF Acknowledge, DispatchTypeOK, Holding
<1> QED
  BY <1>5, <1>6 DEF Acknowledge

LEMMA RecordType ==
  ASSUME DispatchTypeOK, NEW w \in Workers, RecordUnknownOutcome(w)
  PROVE  DispatchTypeOK'
<1> DEFINE r == job[w].run
<1>1. r \in RunIds /\ lease[r] \in Leases /\ status[r] \in Statuses
  BY DEF RecordUnknownOutcome, DispatchTypeOK, TypeOK, Holding, Jobs
<1>2. [lease[r] EXCEPT !.state = "reconciliation"] \in Leases
  BY <1>1 DEF Leases, LeaseStates, Held
<1>3. lease' \in [RunIds -> Leases]
  BY <1>1, <1>2, SetLeaseType DEF RecordUnknownOutcome, DispatchTypeOK
<1>4. trail' \in [RunIds -> Seq(AuditRows)]
  BY <1>1, AuditType DEF RecordUnknownOutcome, DispatchTypeOK, TypeOK, AuditKinds
<1>5. TypeOK'
  BY <1>4 DEF DispatchTypeOK, TypeOK, RecordUnknownOutcome
<1> QED
  BY <1>3, <1>5, EndTickType DEF RecordUnknownOutcome, DispatchTypeOK

LEMMA AbandonType ==
  ASSUME DispatchTypeOK, NEW w \in Workers, Abandon(w)
  PROVE  DispatchTypeOK'
<1>1. TypeOK'
  BY DEF DispatchTypeOK, TypeOK, Abandon, vars, runVars
<1> QED
  BY <1>1, EndTickType DEF Abandon, DispatchTypeOK

LEMMA StoreStepType ==
  ASSUME DispatchTypeOK, StoreStep
  PROVE  DispatchTypeOK'
<1>1. TypeOK'
  BY ReserveType, RequestCancelType, ApplyEventType, ExpireDueType, TickType
  DEF StoreStep, DispatchTypeOK
<1> QED
  BY <1>1 DEF StoreStep, DispatchTypeOK, dispatchVars

LEMMA WorkerStepType ==
  ASSUME TypeInv, NEW w \in Workers, WorkerStep(w)
  PROVE  DispatchTypeOK'
<1>1. DispatchTypeOK
  BY DEF TypeInv
<1> QED
  BY <1>1, ClaimQueryType, ClaimLeaseType, RenewType, InvokeType, ReleaseType, MarkType,
     AcknowledgeType, RecordType, AbandonType DEF WorkerStep

-----------------------------------------------------------------------------
(* Every step but a claim's commit leaves the count of attempts alone, and  *)
(* an exhausted lease is written only at the last attempt.                  *)
LEMMA AttemptsStep ==
  ASSUME TypeInv, NEW w \in Workers, WorkerStep(w)
  PROVE  AttemptsCounted' /\ ClaimsSerialized'
<1> USE DEF TypeInv
<1>1. CASE ClaimQuery(w)
  <2>1. AttemptsCounted'
    BY <1>1 DEF ClaimQuery, AttemptsCounted
  <2>2. PICK at \in Readings :
          view' = [view EXCEPT ![w] = [at |-> at, due |-> {r \in RunIds : Claimable(r, at)}]]
    BY <1>1 DEF ClaimQuery
  <2>3. \A r \in RunIds : Claimable(r, at) => lease[r].attempt < MaxAttempts
    <3> SUFFICES ASSUME NEW r \in RunIds, Claimable(r, at)
                 PROVE  lease[r].attempt < MaxAttempts
      OBVIOUS
    <3>1. CASE lease[r].state = "none"
      BY <3>1, DispatchAssumption DEF AttemptsCounted
    <3> QED
      BY <3>1 DEF Claimable
  <2>4. ClaimsSerialized'
    BY <1>1, <2>2, <2>3 DEF ClaimQuery, ClaimsSerialized, DispatchTypeOK, Goto, TenantLocked
  <2> QED
    BY <2>1, <2>4
<1>2. ASSUME NEW r \in RunIds, ClaimLease(w, r)
      PROVE  AttemptsCounted' /\ ClaimsSerialized'
  <2>1. lease[r].attempt \in Nat /\ lease[r].attempt < MaxAttempts
    BY <1>2 DEF ClaimLease, ClaimsSerialized, DispatchTypeOK, Leases
  <2>2. \A s \in RunIds :
          /\ s # r => lease'[s] = lease[s]
          /\ lease'[r].state = "leased" /\ lease'[r].attempt = lease[r].attempt + 1
    BY <1>2 DEF ClaimLease, DispatchTypeOK
  <2>3. AttemptsCounted'
    BY <2>1, <2>2, DispatchAssumption DEF AttemptsCounted
  <2>4. \A v \in Workers : pc'[v] = "choosing" => FALSE
    BY <1>2 DEF ClaimLease, Goto, ClaimsSerialized, DispatchTypeOK
  <2> QED
    BY <2>3, <2>4 DEF ClaimsSerialized
<1>3. ASSUME /\ \A v \in Workers : pc'[v] = "choosing" => pc[v] = "choosing" /\ view'[v] = view[v]
             /\ \A s \in RunIds :
                  /\ lease'[s].attempt = lease[s].attempt
                  /\ \/ lease'[s].state = lease[s].state
                     \/ lease'[s].state \notin {"none", "leased", "exhausted"}
                     \/ lease'[s].state = "exhausted" /\ lease[s].attempt >= MaxAttempts
      PROVE  AttemptsCounted' /\ ClaimsSerialized'
  <2>1. \A s \in RunIds : lease[s].attempt \in Nat
    BY DEF DispatchTypeOK, Leases
  <2>2. AttemptsCounted'
    BY <1>3, <2>1, DispatchAssumption DEF AttemptsCounted
  <2>3. ClaimsSerialized'
    BY <1>3 DEF ClaimsSerialized, DispatchTypeOK, Views
  <2> QED
    BY <2>2, <2>3
<1>4. CASE Renew(w)
  BY <1>3, <1>4 DEF Renew, SetLease, DispatchTypeOK, Leases
<1>5. CASE PreflightPass(w) \/ PreflightFail(w) \/ Invoke(w) \/ ProviderAnswer(w)
  BY <1>3, <1>5 DEF PreflightPass, PreflightFail, Invoke, ProviderAnswer, Goto, DispatchTypeOK
<1>6. CASE ReleaseForRetry(w)
  BY <1>3, <1>6 DEF ReleaseForRetry, SetLease, EndTick, Goto, DispatchTypeOK, Leases
<1>7. CASE MarkDispatchStarted(w)
  BY <1>3, <1>7 DEF MarkDispatchStarted, SetLease, Goto, DispatchTypeOK, Leases
<1>8. CASE Acknowledge(w)
  BY <1>3, <1>8 DEF Acknowledge, SetLease, EndTick, Goto, DispatchTypeOK, Leases
<1>9. CASE RecordUnknownOutcome(w)
  BY <1>3, <1>9 DEF RecordUnknownOutcome, SetLease, EndTick, Goto, DispatchTypeOK, Leases
<1>10. CASE Abandon(w)
  BY <1>3, <1>10 DEF Abandon, EndTick, Goto, DispatchTypeOK
<1> QED
  BY <1>1, <1>2, <1>4, <1>5, <1>6, <1>7, <1>8, <1>9, <1>10 DEF WorkerStep

LEMMA TypeInvInit == DispatchInit => TypeInv
BY InitType, DispatchAssumption
DEF DispatchInit, TypeInv, DispatchTypeOK, ClaimsSerialized, AttemptsCounted, NoLease, NoView,
    Leases, LeaseStates, Views, Holding

LEMMA TypeInvStep == TypeInv /\ [DispatchNext]_allVars => TypeInv'
<1> SUFFICES ASSUME TypeInv, [DispatchNext]_allVars PROVE TypeInv'
  OBVIOUS
<1>1. CASE StoreStep
  BY <1>1, StoreStepType
  DEF TypeInv, StoreStep, dispatchVars, ClaimsSerialized, AttemptsCounted
<1>2. CASE \E w \in Workers : WorkerStep(w)
  BY <1>2, WorkerStepType, AttemptsStep DEF TypeInv
<1>3. CASE UNCHANGED allVars
  BY <1>3 DEF allVars, vars, runVars, dispatchVars, TypeInv, DispatchTypeOK, TypeOK,
     ClaimsSerialized, AttemptsCounted
<1> QED
  BY <1>1, <1>2, <1>3 DEF DispatchNext

(***************************************************************************)
(* The lease table, the workers and the run table keep their types; that   *)
(* a retry has a floor for its delay needs the count of attempts.          *)
(***************************************************************************)
THEOREM DispatchTyped == DispatchSpec => []DispatchTypeOK
<1>1. TypeInv => DispatchTypeOK
  BY DEF TypeInv
<1> QED
  BY TypeInvInit, TypeInvStep, <1>1, PTL DEF DispatchSpec

(***************************************************************************)
(* A run is claimed at most MaxAttempts times, however late the clocks and *)
(* whatever commits between a claim's query and its upsert: the tenant     *)
(* row's lock keeps the count that the query read.                         *)
(***************************************************************************)
THEOREM ClaimsBounded == DispatchSpec => []AttemptsBounded
<1>1. TypeInv => AttemptsBounded
  BY DEF TypeInv, AttemptsCounted, AttemptsBounded
<1> QED
  BY TypeInvInit, TypeInvStep, <1>1, PTL DEF DispatchSpec

-----------------------------------------------------------------------------
(***************************************************************************)
(* Why each call of the harness has a marker and a claim of its own, with  *)
(* readings of the clock as old as they may be.  A token belongs to one    *)
(* worker at a time and is never newer than the row's.  A worker that can  *)
(* still call has a marker that was not called under, and one that can     *)
(* still mark has a claim without a marker: the two are counted.  A worker *)
(* past the marker whose token is the row's holds it in dispatching; if    *)
(* it is not, its marker was overtaken and any that stands is another's.   *)
(***************************************************************************)
TokensFenced ==
  /\ \A w \in Workers : pc[w] \in Holding => job[w].token <= lease[job[w].run].generation
  /\ \A v, w \in Workers :
       /\ pc[v] \in Holding /\ pc[w] \in Holding
       /\ job[v].run = job[w].run /\ job[v].token = job[w].token
       => v = w

Calling(r)  == {w \in Workers : pc[w] = "marked" /\ job[w].run = r}
Unmarked(r) == {w \in Workers : pc[w] \in {"preflight", "marking"} /\ job[w].run = r}
MarkCount(r) == Cardinality(Marks(r))

CountedOf(r) ==
  /\ invocations[r] + Cardinality(Calling(r)) <= MarkCount(r)
  /\ MarkCount(r) + Cardinality(Unmarked(r)) <= lease[r].attempt

MarkedOf(w) ==
  LET r == job[w].run IN
  /\ MarkCount(r) >= 1
  /\ IF job[w].token = lease[r].generation THEN lease[r].state = "dispatching"
     ELSE lease[r].state \in Held => MarkCount(r) >= 2
  /\ pc[w] # "marked" => invocations[r] >= 1

Gone(r) == status[r] \notin {"none", "queued"}

MarkersCounted   == \A r \in RunIds : CountedOf(r)
InvokersMarked   == \A w \in Workers : pc[w] \in Past => MarkedOf(w)
AcknowledgedGone == \A r \in RunIds : lease[r].state = "acknowledged" => Gone(r)

MarkInv == TypeInv /\ TokensFenced /\ MarkersCounted /\ InvokersMarked /\ AcknowledgedGone

(* The sets that are counted are finite: so are the workers, and any trail. *)
LEMMA CountsFinite ==
  ASSUME DispatchTypeOK, NEW r \in RunIds
  PROVE  /\ IsFiniteSet(Calling(r)) /\ Cardinality(Calling(r)) \in Nat
         /\ IsFiniteSet(Unmarked(r)) /\ Cardinality(Unmarked(r)) \in Nat
         /\ IsFiniteSet(Marks(r)) /\ MarkCount(r) \in Nat
<1>1. Calling(r) \subseteq Workers /\ Unmarked(r) \subseteq Workers
  BY DEF Calling, Unmarked
<1>2. /\ IsFiniteSet(Calling(r)) /\ Cardinality(Calling(r)) \in Nat
      /\ IsFiniteSet(Unmarked(r)) /\ Cardinality(Unmarked(r)) \in Nat
  BY <1>1, DispatchAssumption, FS_Subset, FS_CardinalityType
<1>3. trail[r] \in Seq(AuditRows)
  BY DEF DispatchTypeOK, TypeOK
<1>4. IsFiniteSet(Marks(r)) /\ MarkCount(r) \in Nat
  BY <1>3, RowsFinite DEF Marks, MarkCount, RowsOf
<1> QED
  BY <1>2, <1>4

One(b) == IF b THEN 1 ELSE 0

(* Two sets that agree but for one element differ by it in size. *)
LEMMA CountOne ==
  ASSUME NEW S, IsFiniteSet(S), NEW T, NEW x, S \ {x} = T \ {x}
  PROVE  Cardinality(T) = Cardinality(S) + One(x \in T) - One(x \in S)
<1> DEFINE U == S \ {x}
<1>1. IsFiniteSet(U) /\ Cardinality(U) \in Nat /\ x \notin U
  BY FS_Subset, FS_CardinalityType
<1>2. ASSUME NEW V, V \ {x} = U PROVE Cardinality(V) = Cardinality(U) + One(x \in V)
  <2>1. CASE x \in V
    <3>1. V = U \cup {x}
      BY <1>2, <2>1
    <3> QED
      BY <1>1, <2>1, <3>1, FS_AddElement DEF One
  <2>2. CASE x \notin V
    <3>1. V = U
      BY <1>2, <2>2
    <3> QED
      BY <1>1, <2>2, <3>1 DEF One
  <2> QED
    BY <2>1, <2>2
<1> HIDE DEF U
<1>3. Cardinality(S) = Cardinality(U) + One(x \in S) /\ Cardinality(T) = Cardinality(U) + One(x \in T)
  BY <1>2 DEF U
<1> QED
  BY <1>1, <1>3 DEF One

(* A step of one worker changes the counts by what it does itself. *)
OthersStand(w) == \A v \in Workers : v # w => pc'[v] = pc[v] /\ job'[v] = job[v]

LEMMA CountsMove ==
  ASSUME DispatchTypeOK, NEW w \in Workers, OthersStand(w), NEW r \in RunIds
  PROVE  /\ Cardinality(Calling(r)') =
              Cardinality(Calling(r)) + One(w \in Calling(r)') - One(w \in Calling(r))
         /\ Cardinality(Unmarked(r)') =
              Cardinality(Unmarked(r)) + One(w \in Unmarked(r)') - One(w \in Unmarked(r))
<1>1. Calling(r) \ {w} = Calling(r)' \ {w} /\ Unmarked(r) \ {w} = Unmarked(r)' \ {w}
  BY DEF OthersStand, Calling, Unmarked
<1> QED
  BY <1>1, CountsFinite, CountOne

(* The marks of a run grow by one row of its trail, and by no other. *)
LEMMA MarksAppend ==
  ASSUME DispatchTypeOK, NEW r \in RunIds, NEW row \in AuditRows,
         trail'[r] = Append(trail[r], row)
  PROVE  MarkCount(r)' = MarkCount(r) + One(row.action = "dispatchStarted")
<1>1. trail[r] \in Seq(AuditRows)
  BY DEF DispatchTypeOK, TypeOK
<1>2. MarkCount(r) = Cardinality(RowsOf(trail[r], "dispatchStarted"))
  BY DEF Marks, MarkCount, RowsOf
<1>3. MarkCount(r)' = Cardinality(RowsOf(trail'[r], "dispatchStarted"))
  BY DEF Marks, MarkCount, RowsOf
<1> QED
  BY <1>1, <1>2, <1>3, RowsAppend DEF One

LEMMA MarksStay ==
  ASSUME NEW r \in RunIds, trail'[r] = trail[r]
  PROVE  MarkCount(r)' = MarkCount(r)
BY DEF MarkCount, Marks

(* What a worker's step keeps, from what it changes: the tokens, the counts *)
(* of a run, and what is known of a worker past the marker.                 *)
LEMMA TokensKept ==
  ASSUME MarkInv, NEW w \in Workers, OthersStand(w),
         pc'[w] \in Holding => pc[w] \in Holding /\ job'[w] = job[w],
         \A r \in RunIds : lease'[r].generation = lease[r].generation
  PROVE  TokensFenced'
BY DEF MarkInv, TypeInv, DispatchTypeOK, Jobs, TokensFenced, OthersStand

LEMMA CountsKept ==
  ASSUME MarkInv, NEW w \in Workers, OthersStand(w), NEW r \in RunIds,
         MarkCount(r)' = MarkCount(r), invocations'[r] = invocations[r],
         lease'[r].attempt = lease[r].attempt,
         w \in Calling(r)' => w \in Calling(r),
         w \in Unmarked(r)' => w \in Unmarked(r)
  PROVE  CountedOf(r)'
<1>1. DispatchTypeOK /\ CountedOf(r)
  BY DEF MarkInv, TypeInv, MarkersCounted
<1>2. /\ Cardinality(Calling(r)) \in Nat /\ Cardinality(Unmarked(r)) \in Nat
      /\ MarkCount(r) \in Nat /\ invocations[r] \in Nat /\ lease[r].attempt \in Nat
  BY <1>1, CountsFinite DEF DispatchTypeOK, Leases
<1>3. Cardinality(Calling(r)') <= Cardinality(Calling(r)) /\ Cardinality(Calling(r)') \in Int
  BY <1>1, <1>2, CountsMove DEF One
<1>4. Cardinality(Unmarked(r)') <= Cardinality(Unmarked(r)) /\ Cardinality(Unmarked(r)') \in Int
  BY <1>1, <1>2, CountsMove DEF One
<1> QED
  BY <1>1, <1>2, <1>3, <1>4 DEF CountedOf

LEMMA MarkedKept ==
  ASSUME MarkInv, NEW v \in Workers, pc[v] \in Past, pc'[v] = pc[v], job'[v] = job[v],
         NEW r \in RunIds, r = job[v].run,
         MarkCount(r)' \in Nat, MarkCount(r)' >= MarkCount(r), invocations'[r] = invocations[r],
         lease'[r].generation = lease[r].generation,
         job[v].token = lease[r].generation => lease'[r].state = lease[r].state,
         lease'[r].state \in Held => lease[r].state \in Held \/ MarkCount(r)' > MarkCount(r)
  PROVE  MarkedOf(v)'
<1>1. DispatchTypeOK /\ MarkedOf(v)
  BY DEF MarkInv, TypeInv, InvokersMarked
<1>2. MarkCount(r) \in Nat /\ invocations[r] \in Nat
  BY <1>1, CountsFinite DEF DispatchTypeOK
<1> QED
  BY <1>1, <1>2 DEF MarkedOf

Kept == TokensFenced /\ MarkersCounted /\ InvokersMarked /\ AcknowledgedGone

(* A worker past the marker, or holding a claim, has a run. *)
LEMMA HolderRun ==
  ASSUME DispatchTypeOK, NEW w \in Workers, pc[w] \in Holding
  PROVE  /\ job[w].run \in RunIds /\ job[w].token \in Nat
         /\ lease[job[w].run] \in Leases
BY DEF DispatchTypeOK, Jobs

(* Steps that write neither a lease nor an audit row, nor call. *)
LEMMA KeptQuiet ==
  ASSUME MarkInv, NEW w \in Workers,
         ClaimQuery(w) \/ PreflightPass(w) \/ PreflightFail(w) \/ ProviderAnswer(w) \/ Abandon(w)
  PROVE  Kept'
<1> USE DEF MarkInv, TypeInv
<1>1. /\ OthersStand(w)
      /\ lease' = lease /\ invocations' = invocations /\ trail' = trail /\ status' = status
  BY DEF ClaimQuery, PreflightPass, PreflightFail, ProviderAnswer, Abandon, EndTick, Goto,
     OthersStand, DispatchTypeOK, vars, runVars
<1>2. /\ pc'[w] \in Holding => pc[w] \in Holding /\ job'[w] = job[w]
      /\ pc'[w] \in Past => pc'[w] = "acking" /\ pc[w] = "invoked"
      /\ pc'[w] \in {"preflight", "marking"} => pc[w] = "preflight"
  BY DEF ClaimQuery, PreflightPass, PreflightFail, ProviderAnswer, Abandon, EndTick, Goto,
     DispatchTypeOK, Holding, Past
<1>3. TokensFenced'
  BY <1>1, <1>2, TokensKept
<1>4. MarkersCounted'
  <2> SUFFICES ASSUME NEW r \in RunIds PROVE CountedOf(r)'
    BY DEF MarkersCounted
  <2>1. w \notin Calling(r)' /\ (w \in Unmarked(r)' => w \in Unmarked(r))
    BY <1>2 DEF Calling, Unmarked, Past, Holding
  <2> QED
    BY <1>1, <2>1, MarksStay, CountsKept
<1>5. InvokersMarked'
  <2> SUFFICES ASSUME NEW v \in Workers, pc'[v] \in Past PROVE MarkedOf(v)'
    BY DEF InvokersMarked
  <2>1. pc[v] \in Past /\ job'[v] = job[v] /\ (pc[v] = "marked" => pc'[v] = "marked")
    BY <1>1, <1>2 DEF OthersStand, Past, Holding
  <2>2. job[v].run \in RunIds
    BY <2>1, HolderRun DEF Past, Holding
  <2>3. MarkedOf(v) /\ MarkCount(job[v].run)' = MarkCount(job[v].run)
    BY <1>1, <2>1, <2>2, MarksStay DEF InvokersMarked
  <2>4. pc'[v] # "marked" => pc[v] # "marked"
    BY <2>1
  <2> QED
    BY <1>1, <2>1, <2>3, <2>4 DEF MarkedOf
<1>6. AcknowledgedGone'
  BY <1>1 DEF AcknowledgedGone, Gone
<1> QED
  BY <1>3, <1>4, <1>5, <1>6 DEF Kept

(* A claim puts every earlier token behind the row's, and is one attempt.   *)
LEMMA KeptClaim ==
  ASSUME MarkInv, NEW w \in Workers, NEW r \in RunIds, ClaimLease(w, r)
  PROVE  Kept'
<1> USE DEF MarkInv, TypeInv
<1> DEFINE gen == lease[r].generation + 1
<1>1. /\ \A s \in RunIds : s # r => lease'[s] = lease[s]
      /\ lease'[r].state = "leased" /\ lease'[r].generation = gen
      /\ lease'[r].attempt = lease[r].attempt + 1
      /\ invocations' = invocations /\ trail' = trail /\ status' = status
  BY DEF ClaimLease, DispatchTypeOK, vars, runVars
<1>2. /\ OthersStand(w) /\ pc[w] = "choosing" /\ pc'[w] = "preflight"
      /\ job'[w].run = r /\ job'[w].token = gen
  BY DEF ClaimLease, DispatchTypeOK, Goto, OthersStand
<1>3. lease[r].generation \in Nat /\ lease[r].attempt \in Nat
  BY DEF DispatchTypeOK, Leases
<1>4. \A v \in Workers : pc[v] \in Holding => job[v].token \in Nat /\ job[v].run \in RunIds
  BY HolderRun
<1>5. \A v \in Workers : v # w /\ pc[v] \in Holding /\ job[v].run = r => job[v].token < gen
  BY <1>3, <1>4 DEF TokensFenced
<1>6. gen \in Nat
  BY <1>3
<1> HIDE DEF gen
<1>7. TokensFenced'
  <2>1. \A v \in Workers : pc'[v] \in Holding => job'[v].token <= lease'[job'[v].run].generation
    <3> SUFFICES ASSUME NEW v \in Workers, pc'[v] \in Holding
                 PROVE  job'[v].token <= lease'[job'[v].run].generation
      OBVIOUS
    <3>1. CASE v = w
      BY <3>1, <1>1, <1>2, <1>6
    <3>2. CASE v # w /\ job[v].run = r
      BY <3>2, <1>1, <1>2, <1>4, <1>5, <1>6 DEF OthersStand
    <3>3. CASE v # w /\ job[v].run # r
      BY <3>3, <1>1, <1>2, <1>4 DEF TokensFenced, OthersStand
    <3> QED
      BY <3>1, <3>2, <3>3
  <2>2. \A v \in Workers : v # w /\ pc[v] \in Holding /\ job[v].run = r => job[v].token # gen
    BY <1>4, <1>5, <1>6
  <2>3. \A u, v \in Workers :
          /\ pc'[u] \in Holding /\ pc'[v] \in Holding
          /\ job'[u].run = job'[v].run /\ job'[u].token = job'[v].token
          => u = v
    BY <1>2, <2>2 DEF TokensFenced, OthersStand
  <2> QED
    BY <2>1, <2>3 DEF TokensFenced
<1>8. MarkersCounted'
  <2> SUFFICES ASSUME NEW s \in RunIds PROVE CountedOf(s)'
    BY DEF MarkersCounted
  <2>1. MarkCount(s)' = MarkCount(s)
    BY <1>1, MarksStay
  <2>2. w \notin Calling(s)' /\ w \notin Calling(s) /\ w \notin Unmarked(s)
    BY <1>2 DEF Calling, Unmarked
  <2>3. CASE s # r
    <3>1. w \notin Unmarked(s)'
      BY <1>2, <2>3 DEF Unmarked
    <3> QED
      BY <1>1, <1>2, <2>1, <2>2, <2>3, <3>1, CountsKept
  <2>4. CASE s = r
    <3>1. w \in Unmarked(s)'
      BY <1>2, <2>4 DEF Unmarked
    <3>2. /\ Cardinality(Calling(s)') = Cardinality(Calling(s))
          /\ Cardinality(Unmarked(s)') = Cardinality(Unmarked(s)) + 1
          /\ Cardinality(Calling(s)) \in Nat /\ Cardinality(Unmarked(s)) \in Nat
          /\ MarkCount(s) \in Nat
      BY <1>2, <2>2, <3>1, CountsMove, CountsFinite DEF One
    <3>3. CountedOf(s)
      BY DEF MarkersCounted
    <3> QED
      BY <1>1, <1>3, <2>1, <2>4, <3>2, <3>3 DEF CountedOf
  <2> QED
    BY <2>3, <2>4
<1>9. InvokersMarked'
  <2> SUFFICES ASSUME NEW v \in Workers, pc'[v] \in Past PROVE MarkedOf(v)'
    BY DEF InvokersMarked
  <2>1. v # w
    BY <1>2 DEF Past
  <2>2. pc[v] \in Past /\ job'[v] = job[v] /\ pc'[v] = pc[v] /\ pc[v] \in Holding
    BY <2>1, <1>2 DEF OthersStand, Past, Holding
  <2>3. job[v].run \in RunIds /\ MarkedOf(v) /\ MarkCount(job[v].run)' = MarkCount(job[v].run)
    BY <1>1, <1>4, <2>2, MarksStay DEF InvokersMarked
  <2>4. CASE job[v].run # r
    BY <1>1, <2>2, <2>3, <2>4 DEF MarkedOf
  <2>5. CASE job[v].run = r
    <3>1. job[v].token # gen
      BY <1>4, <1>5, <1>6, <2>1, <2>2, <2>5
    <3> QED
      BY <1>1, <2>2, <2>3, <2>5, <3>1 DEF MarkedOf, Held
  <2> QED
    BY <2>4, <2>5
<1>10. AcknowledgedGone'
  BY <1>1 DEF AcknowledgedGone, Gone
<1> QED
  BY <1>7, <1>8, <1>9, <1>10 DEF Kept

(* A worker past the marker with the row's own token finds it dispatching. *)
LEMMA PastToken ==
  ASSUME MarkInv, NEW v \in Workers, pc[v] \in Past,
         job[v].token = lease[job[v].run].generation
  PROVE  lease[job[v].run].state = "dispatching"
BY DEF MarkInv, InvokersMarked, MarkedOf

LEMMA HolderLive ==
  ASSUME NEW w \in Workers, Renew(w) \/ ReleaseForRetry(w)
  PROVE  pc[w] \in Holding /\ \E at \in Readings : HoldsLive(w, at)
<1>1. CASE Renew(w)
  BY <1>1, Zenon DEF Renew, Holding
<1>2. CASE ReleaseForRetry(w)
  BY <1>2, Zenon DEF ReleaseForRetry, Holding
<1> QED
  BY <1>1, <1>2

(* Renewing and releasing rewrite a live lease, which nobody past the       *)
(* marker can hold: its state stays outside Held.                           *)
LEMMA KeptHold ==
  ASSUME MarkInv, NEW w \in Workers, Renew(w) \/ ReleaseForRetry(w)
  PROVE  Kept'
<1> USE DEF MarkInv, TypeInv
<1>1. PICK r \in RunIds : r = job[w].run
  BY HolderLive, HolderRun
<1>2. lease[r].state = "leased"
  BY <1>1, HolderLive DEF HoldsLive, Holds
<1>3. /\ \A s \in RunIds : s # r => lease'[s] = lease[s]
      /\ lease'[r].generation = lease[r].generation /\ lease'[r].attempt = lease[r].attempt
      /\ lease'[r].state \notin Held
  <2>1. CASE Renew(w)
    BY <1>1, <1>2, <2>1 DEF Renew, SetLease, DispatchTypeOK, Leases, Held
  <2>2. CASE ReleaseForRetry(w)
    <3>1. PICK row \in Leases :
            /\ lease' = [lease EXCEPT ![r] = row]
            /\ row.generation = lease[r].generation /\ row.attempt = lease[r].attempt
            /\ row.state \in {"exhausted", "retry"}
      BY <1>1, <2>2, ReleasedRow DEF SetLease
    <3> QED
      BY <3>1 DEF DispatchTypeOK, Held
  <2> QED
    BY <2>1, <2>2
<1>4. /\ OthersStand(w) /\ invocations' = invocations /\ trail' = trail /\ status' = status
      /\ pc'[w] \in Holding => pc[w] \in Holding /\ job'[w] = job[w]
      /\ pc'[w] \in {"preflight", "marking"} => pc'[w] = pc[w]
      /\ pc'[w] \notin Past
  BY DEF Renew, ReleaseForRetry, EndTick, Goto, OthersStand, DispatchTypeOK, Past, Holding,
     vars, runVars
<1>5. TokensFenced'
  BY <1>3, <1>4, TokensKept
<1>6. MarkersCounted'
  <2> SUFFICES ASSUME NEW s \in RunIds PROVE CountedOf(s)'
    BY DEF MarkersCounted
  <2>1. w \notin Calling(s)' /\ (w \in Unmarked(s)' => w \in Unmarked(s))
    BY <1>4 DEF Calling, Unmarked, Past, Holding
  <2> QED
    BY <1>3, <1>4, <2>1, MarksStay, CountsKept
<1>7. InvokersMarked'
  <2> SUFFICES ASSUME NEW v \in Workers, pc'[v] \in Past PROVE MarkedOf(v)'
    BY DEF InvokersMarked
  <2>1. pc[v] \in Past /\ pc'[v] = pc[v] /\ job'[v] = job[v] /\ pc[v] \in Holding
    BY <1>4 DEF OthersStand, Past, Holding
  <2>2. PICK s \in RunIds : s = job[v].run
    BY <2>1, HolderRun
  <2>3. MarkCount(s)' = MarkCount(s) /\ MarkCount(s) \in Nat
    BY <1>4, MarksStay, CountsFinite
  <2>4. s = r => job[v].token # lease[r].generation
    BY <1>2, <2>1, <2>2, PastToken
  <2> QED
    BY <1>3, <1>4, <2>1, <2>2, <2>3, <2>4, MarkedKept
<1>8. AcknowledgedGone'
  BY <1>3, <1>4 DEF AcknowledgedGone, Gone, Held
<1> QED
  BY <1>5, <1>6, <1>7, <1>8, Zenon DEF Kept

(* The marker uses up the claim it is made under: of the claims without a   *)
(* marker there is one fewer, and of the markers without a call one more.   *)
LEMMA KeptMark ==
  ASSUME MarkInv, NEW w \in Workers, MarkDispatchStarted(w)
  PROVE  Kept'
<1> USE DEF MarkInv, TypeInv
<1>1. PICK r \in RunIds : r = job[w].run /\ lease[r] \in Leases
  BY HolderRun DEF MarkDispatchStarted, Holding
<1>2. lease[r].state = "leased" /\ lease[r].generation = job[w].token
  BY <1>1 DEF MarkDispatchStarted, HoldsLive, Holds
<1>3. /\ \A s \in RunIds : s # r => lease'[s] = lease[s]
      /\ lease'[r].generation = lease[r].generation /\ lease'[r].attempt = lease[r].attempt
      /\ lease'[r].state = "dispatching"
  <2>1. lease' = [lease EXCEPT ![r] = [lease[r] EXCEPT !.state = "dispatching"]]
    BY <1>1 DEF MarkDispatchStarted, SetLease
  <2> QED
    BY <1>1, <2>1 DEF DispatchTypeOK, Leases
<1>4. /\ pc[w] = "marking" /\ pc'[w] = "marked" /\ job' = job /\ OthersStand(w)
      /\ invocations' = invocations /\ status' = status
  BY DEF MarkDispatchStarted, Goto, DispatchTypeOK, OthersStand
<1>5. /\ \A s \in RunIds : s # r => trail'[s] = trail[s]
      /\ trail'[r] = Append(trail[r], Row("dispatchStarted", "queued", "queued"))
      /\ Row("dispatchStarted", "queued", "queued") \in AuditRows
  BY <1>1 DEF MarkDispatchStarted, Audit, Row, AuditRows, AuditKinds, Statuses, Active,
     DispatchTypeOK, TypeOK
<1>6. MarkCount(r)' = MarkCount(r) + 1 /\ \A s \in RunIds : s # r => MarkCount(s)' = MarkCount(s)
  BY <1>5, MarksAppend, MarksStay DEF Row, One
<1>7. TokensFenced'
  BY <1>3, <1>4, TokensKept DEF Holding
<1>8. MarkersCounted'
  <2> SUFFICES ASSUME NEW s \in RunIds PROVE CountedOf(s)'
    BY DEF MarkersCounted
  <2>1. CASE s # r
    <3>1. w \notin Calling(s)' /\ w \notin Unmarked(s)'
      BY <1>1, <1>4, <2>1 DEF Calling, Unmarked
    <3> QED
      BY <1>3, <1>4, <1>6, <2>1, <3>1, CountsKept
  <2>2. CASE s = r
    <3>1. /\ w \in Calling(s)' /\ w \notin Calling(s)
          /\ w \notin Unmarked(s)' /\ w \in Unmarked(s)
      BY <1>1, <1>4, <2>2 DEF Calling, Unmarked
    <3>2. /\ Cardinality(Calling(s)') = Cardinality(Calling(s)) + 1
          /\ Cardinality(Unmarked(s)') = Cardinality(Unmarked(s)) - 1
      BY <1>4, <3>1, CountsMove, CountsFinite DEF One
    <3>3. /\ Cardinality(Calling(s)) \in Nat /\ Cardinality(Unmarked(s)) \in Nat
          /\ MarkCount(s) \in Nat /\ invocations[s] \in Nat /\ lease[s].attempt \in Nat
      BY CountsFinite DEF DispatchTypeOK, Leases
    <3>4. CountedOf(s)
      BY DEF MarkersCounted
    <3> QED
      BY <1>3, <1>4, <1>6, <2>2, <3>2, <3>3, <3>4 DEF CountedOf
  <2> QED
    BY <2>1, <2>2
<1>9. InvokersMarked'
  <2> SUFFICES ASSUME NEW v \in Workers, pc'[v] \in Past PROVE MarkedOf(v)'
    BY DEF InvokersMarked
  <2>1. MarkCount(r) \in Nat
    BY CountsFinite
  <2>2. CASE v = w
    BY <1>1, <1>2, <1>3, <1>4, <1>6, <2>1, <2>2 DEF MarkedOf
  <2>3. CASE v # w
    <3>1. pc[v] \in Past /\ pc'[v] = pc[v] /\ job'[v] = job[v] /\ pc[v] \in Holding
      BY <1>4, <2>3 DEF OthersStand, Past, Holding
    <3>2. PICK s \in RunIds : s = job[v].run
      BY <3>1, HolderRun
    <3>3. s = r => job[v].token # lease[r].generation
      BY <1>2, <3>1, <3>2, PastToken
    <3>4. MarkCount(s) \in Nat
      BY CountsFinite
    <3> QED
      BY <1>3, <1>4, <1>6, <3>1, <3>2, <3>3, <3>4, MarkedKept
  <2> QED
    BY <2>2, <2>3
<1>10. AcknowledgedGone'
  BY <1>3, <1>4 DEF AcknowledgedGone, Gone
<1> QED
  BY <1>7, <1>8, <1>9, <1>10 DEF Kept

(* The call uses up the marker it is made under. *)
LEMMA KeptInvoke ==
  ASSUME MarkInv, NEW w \in Workers, Invoke(w)
  PROVE  Kept'
<1> USE DEF MarkInv, TypeInv
<1>1. PICK r \in RunIds : r = job[w].run
  BY HolderRun DEF Invoke, Holding
<1>2. /\ pc[w] = "marked" /\ pc'[w] = "invoked" /\ job' = job /\ lease' = lease /\ OthersStand(w)
      /\ trail' = trail /\ status' = status
      /\ \A s \in RunIds : s # r => invocations'[s] = invocations[s]
      /\ invocations'[r] = invocations[r] + 1 /\ invocations[r] \in Nat
  BY <1>1 DEF Invoke, Goto, DispatchTypeOK, OthersStand, vars, runVars
<1>3. \A s \in RunIds : MarkCount(s)' = MarkCount(s)
  BY <1>2, MarksStay
<1>4. TokensFenced'
  BY <1>2, TokensKept DEF Holding
<1>5. MarkersCounted'
  <2> SUFFICES ASSUME NEW s \in RunIds PROVE CountedOf(s)'
    BY DEF MarkersCounted
  <2>1. w \notin Calling(s)' /\ w \notin Unmarked(s)'
    BY <1>2 DEF Calling, Unmarked
  <2>2. CASE s # r
    BY <1>2, <1>3, <2>1, <2>2, CountsKept
  <2>3. CASE s = r
    <3>1. w \in Calling(s) /\ w \notin Unmarked(s)
      BY <1>1, <1>2, <2>3 DEF Calling, Unmarked
    <3>2. /\ Cardinality(Calling(s)') = Cardinality(Calling(s)) - 1
          /\ Cardinality(Unmarked(s)') = Cardinality(Unmarked(s))
      BY <1>2, <2>1, <3>1, CountsMove, CountsFinite DEF One
    <3>3. Cardinality(Calling(s)) \in Nat /\ Cardinality(Unmarked(s)) \in Nat /\ MarkCount(s) \in Nat
      BY CountsFinite
    <3>4. CountedOf(s)
      BY DEF MarkersCounted
    <3> QED
      BY <1>2, <1>3, <2>3, <3>2, <3>3, <3>4 DEF CountedOf
  <2> QED
    BY <2>2, <2>3
<1>6. InvokersMarked'
  <2> SUFFICES ASSUME NEW v \in Workers, pc'[v] \in Past PROVE MarkedOf(v)'
    BY DEF InvokersMarked
  <2>1. pc[v] \in Past /\ pc[v] \in Holding /\ (v # w => pc'[v] = pc[v])
    BY <1>2 DEF OthersStand, Past, Holding
  <2>2. PICK s \in RunIds : s = job[v].run
    BY <2>1, HolderRun
  <2>3. MarkedOf(v) /\ invocations[s] \in Nat /\ (v = w => s = r)
    BY <1>1, <2>1, <2>2 DEF InvokersMarked, DispatchTypeOK
  <2>4. pc'[v] # "marked" => invocations'[s] >= 1
    BY <1>2, <2>1, <2>2, <2>3 DEF MarkedOf
  <2> QED
    BY <1>2, <1>3, <2>2, <2>3, <2>4 DEF MarkedOf
<1>7. AcknowledgedGone'
  BY <1>2 DEF AcknowledgedGone, Gone
<1> QED
  BY <1>4, <1>5, <1>6, <1>7 DEF Kept

(* A row of another kind leaves the marks of every run as they are. *)
LEMMA RowStays ==
  ASSUME DispatchTypeOK, NEW s \in RunIds, NEW row \in AuditRows, row.action # "dispatchStarted",
         trail' = [trail EXCEPT ![s] = Append(@, row)], NEW r \in RunIds
  PROVE  MarkCount(r)' = MarkCount(r)
<1>1. CASE r # s
  BY <1>1, MarksStay DEF DispatchTypeOK, TypeOK
<1>2. CASE r = s
  <2>1. trail'[r] = Append(trail[r], row)
    BY <1>2 DEF DispatchTypeOK, TypeOK
  <2> QED
    BY <2>1, MarksAppend, CountsFinite DEF One
<1> QED
  BY <1>1, <1>2

(* Settling a dispatch writes such a row for the worker's run. *)
LEMMA SettleRow ==
  ASSUME DispatchTypeOK, NEW w \in Workers, Acknowledge(w) \/ RecordUnknownOutcome(w)
  PROVE  \E row \in AuditRows :
           /\ row.action # "dispatchStarted"
           /\ trail' = [trail EXCEPT ![job[w].run] = Append(@, row)]
<1>1. CASE Acknowledge(w)
  BY <1>1 DEF Acknowledge, Start, Audit, Row, AuditRows, AuditKinds, Statuses, Active
<1>2. CASE RecordUnknownOutcome(w)
  <2>1. job[w].run \in RunIds
    BY <1>2, HolderRun DEF RecordUnknownOutcome, Holding
  <2> QED
    BY <1>2, <2>1 DEF RecordUnknownOutcome, Audit, Row, AuditRows, AuditKinds, DispatchTypeOK, TypeOK
<1> QED
  BY <1>1, <1>2

(* Settling a dispatch: the worker leaves and its run stays in Held. *)
LEMMA KeptSettle ==
  ASSUME MarkInv, NEW w \in Workers, Acknowledge(w) \/ RecordUnknownOutcome(w)
  PROVE  Kept'
<1> USE DEF MarkInv, TypeInv
<1>1. PICK r \in RunIds : r = job[w].run /\ lease[r] \in Leases /\ pc[w] \in Holding
  BY HolderRun DEF Acknowledge, RecordUnknownOutcome, Holding
<1>2. lease[r].state = "dispatching" /\ lease[r].generation = job[w].token
  BY <1>1 DEF Acknowledge, RecordUnknownOutcome, Holds
<1>3. /\ \A s \in RunIds : s # r => lease'[s] = lease[s]
      /\ lease'[r].generation = lease[r].generation /\ lease'[r].attempt = lease[r].attempt
  BY <1>1 DEF Acknowledge, RecordUnknownOutcome, SetLease, DispatchTypeOK, Leases
<1>4. /\ OthersStand(w) /\ invocations' = invocations
      /\ pc'[w] \in Holding => job'[w] = job[w]
      /\ pc'[w] \notin Past /\ pc'[w] \notin {"preflight", "marking"}
  BY DEF Acknowledge, RecordUnknownOutcome, EndTick, Goto, OthersStand, DispatchTypeOK, Past, Holding
<1>5. PICK row \in AuditRows :
        /\ row.action # "dispatchStarted"
        /\ trail' = [trail EXCEPT ![r] = Append(@, row)]
  BY <1>1, SettleRow
<1>6. \A s \in RunIds : MarkCount(s)' = MarkCount(s) /\ MarkCount(s) \in Nat
  BY <1>5, RowStays, CountsFinite
<1>7. TokensFenced'
  BY <1>1, <1>3, <1>4, TokensKept
<1>8. MarkersCounted'
  <2> SUFFICES ASSUME NEW s \in RunIds PROVE CountedOf(s)'
    BY DEF MarkersCounted
  <2>1. w \notin Calling(s)' /\ w \notin Unmarked(s)'
    BY <1>4 DEF Calling, Unmarked, Past
  <2> QED
    BY <1>3, <1>4, <1>6, <2>1, CountsKept
<1>9. InvokersMarked'
  <2> SUFFICES ASSUME NEW v \in Workers, pc'[v] \in Past PROVE MarkedOf(v)'
    BY DEF InvokersMarked
  <2>1. v # w /\ pc[v] \in Past /\ pc'[v] = pc[v] /\ job'[v] = job[v] /\ pc[v] \in Holding
    BY <1>4 DEF OthersStand, Past, Holding
  <2>2. PICK s \in RunIds : s = job[v].run
    BY <2>1, HolderRun
  <2>3. s = r => job[v].token # lease[r].generation /\ lease[r].state \in Held
    BY <1>1, <1>2, <2>1, <2>2 DEF TokensFenced, Held
  <2> QED
    BY <1>3, <1>4, <1>6, <2>1, <2>2, <2>3, MarkedKept
<1>10. AcknowledgedGone'
  <2>1. CASE Acknowledge(w)
    <3>1. status'[r] = "running" /\ \A s \in RunIds : s # r => status'[s] = status[s]
      BY <1>1, <2>1 DEF Acknowledge, Start, DispatchTypeOK, TypeOK
    <3> QED
      BY <1>3, <3>1 DEF AcknowledgedGone, Gone
  <2>2. CASE RecordUnknownOutcome(w)
    <3>1. status' = status /\ lease'[r].state = "reconciliation"
      BY <1>1, <2>2 DEF RecordUnknownOutcome, SetLease, DispatchTypeOK, Leases
    <3> QED
      BY <1>3, <3>1 DEF AcknowledgedGone, Gone
  <2> QED
    BY <2>1, <2>2
<1> QED
  BY <1>7, <1>8, <1>9, <1>10 DEF Kept

(* A run that left the queue does not come back to it. *)
LEMMA GoneStays ==
  ASSUME DispatchTypeOK, StoreStep, NEW r \in RunIds, Gone(r)
  PROVE  Gone(r)'
<1>1. CASE \E q \in Requests : Reserve(q)
  BY <1>1 DEF Reserve, Reserved, Gone, DispatchTypeOK, TypeOK
<1>2. CASE \E s \in RunIds : RequestCancel(s)
  BY <1>2 DEF RequestCancel, Gone, DispatchTypeOK, TypeOK
<1>3. ASSUME NEW s \in RunIds, NEW p \in Payloads, NEW d \in DeliveryIds \cup {None},
             ApplyEvent(s, p, d)
      PROVE  Gone(r)'
  <2>1. status' = [status EXCEPT ![s] = p.status] /\ p.status \in EventStatuses
    BY <1>3, PayloadsAssumption DEF ApplyEvent, EventOf
  <2> QED
    BY <2>1 DEF EventStatuses, Gone, DispatchTypeOK, TypeOK
<1>4. CASE ExpireDue
  BY <1>4 DEF ExpireDue, Gone, DispatchTypeOK, TypeOK
<1>5. CASE Tick
  BY <1>5 DEF Tick, runVars, Gone
<1> QED
  BY <1>1, <1>2, <1>3, <1>4, <1>5 DEF StoreStep

(* The store writes audit rows of its own kinds only. *)
LEMMA StoreMarks ==
  ASSUME DispatchTypeOK, StoreStep, NEW r \in RunIds
  PROVE  MarkCount(r)' = MarkCount(r)
<1>1. ASSUME NEW s \in RunIds, NEW row \in AuditRows, row.action # "dispatchStarted",
             trail' = [trail EXCEPT ![s] = Append(@, row)]
      PROVE  MarkCount(r)' = MarkCount(r)
  BY <1>1, RowStays
<1>2. ASSUME NEW q \in Requests, Reserve(q) PROVE MarkCount(r)' = MarkCount(r)
  <2>1. Row("reserved", None, "queued") \in AuditRows /\ q.run \in RunIds
    BY RequestsAssumption DEF Row, AuditRows, AuditKinds, Statuses, Active
  <2> QED
    BY <1>1, <1>2, <2>1 DEF Reserve, Audit, Row
<1>3. ASSUME NEW s \in RunIds, RequestCancel(s) PROVE MarkCount(r)' = MarkCount(r)
  <2>1. Row("cancelRequested", status[s], "cancelRequested") \in AuditRows
    BY <1>3 DEF RequestCancel, Row, AuditRows, AuditKinds, Statuses, Active
  <2> QED
    BY <1>1, <1>3, <2>1 DEF RequestCancel, Audit, Row
<1>4. ASSUME NEW s \in RunIds, NEW p \in Payloads, NEW d \in DeliveryIds \cup {None},
             ApplyEvent(s, p, d)
      PROVE  MarkCount(r)' = MarkCount(r)
  <2>1. Row("eventApplied", status[s], EventOf(p).status) \in AuditRows
    BY <1>4, PayloadsAssumption
    DEF ApplyEvent, Admissible, EventOf, EventStatuses, Row, AuditRows, AuditKinds, Statuses,
        Active, Terminal
  <2> QED
    BY <1>1, <1>4, <2>1 DEF ApplyEvent, Audit, Row
<1>5. CASE ExpireDue
  <2>1. Row("expired", None, "timedOut") \in AuditRows
    BY DEF Row, AuditRows, AuditKinds, Statuses, Terminal
  <2>2. \/ trail'[r] = trail[r]
        \/ trail'[r] = Append(trail[r], Row("expired", None, "timedOut"))
    BY <1>5 DEF ExpireDue
  <2>3. CASE trail'[r] = Append(trail[r], Row("expired", None, "timedOut"))
    BY <2>1, <2>3, MarksAppend, CountsFinite DEF Row, One
  <2> QED
    BY <2>2, <2>3, MarksStay
<1>6. CASE Tick
  BY <1>6, MarksStay DEF Tick, runVars
<1> QED
  BY <1>2, <1>3, <1>4, <1>5, <1>6 DEF StoreStep

(* Callers, receipts and the clock write none of the dispatch tables. *)
LEMMA KeptStore ==
  ASSUME MarkInv, StoreStep
  PROVE  Kept'
<1> USE DEF MarkInv, TypeInv
<1>1. lease' = lease /\ pc' = pc /\ job' = job /\ invocations' = invocations
  BY DEF StoreStep, dispatchVars
<1>2. \A r \in RunIds : MarkCount(r)' = MarkCount(r)
  BY StoreMarks
<1>3. TokensFenced'
  BY <1>1 DEF TokensFenced
<1>4. MarkersCounted'
  <2> SUFFICES ASSUME NEW r \in RunIds PROVE CountedOf(r)'
    BY DEF MarkersCounted
  <2>1. Calling(r)' = Calling(r) /\ Unmarked(r)' = Unmarked(r) /\ CountedOf(r)
    BY <1>1 DEF Calling, Unmarked, MarkersCounted
  <2> QED
    BY <1>1, <1>2, <2>1 DEF CountedOf
<1>5. InvokersMarked'
  <2> SUFFICES ASSUME NEW v \in Workers, pc'[v] \in Past PROVE MarkedOf(v)'
    BY DEF InvokersMarked
  <2>1. job[v].run \in RunIds /\ MarkedOf(v)
    BY <1>1, HolderRun DEF InvokersMarked, Past, Holding
  <2> QED
    BY <1>1, <1>2, <2>1 DEF MarkedOf
<1>6. AcknowledgedGone'
  BY <1>1, GoneStays DEF AcknowledgedGone
<1> QED
  BY <1>3, <1>4, <1>5, <1>6 DEF Kept

LEMMA MarkInit == DispatchInit => MarkInv
<1> SUFFICES ASSUME DispatchInit PROVE MarkInv
  OBVIOUS
<1>1. TypeInv
  BY TypeInvInit
<1>2. TokensFenced /\ InvokersMarked /\ AcknowledgedGone
  BY DEF DispatchInit, NoLease, TokensFenced, InvokersMarked, AcknowledgedGone, Holding, Past
<1>3. MarkersCounted
  <2> SUFFICES ASSUME NEW r \in RunIds PROVE CountedOf(r)
    BY DEF MarkersCounted
  <2>1. Calling(r) = {} /\ Unmarked(r) = {}
    BY DEF DispatchInit, Calling, Unmarked
  <2>2. trail[r] = <<>>
    BY DEF DispatchInit, Init
  <2>3. Marks(r) = {}
    BY <2>2 DEF Marks
  <2>4. Cardinality({}) = 0
    BY FS_EmptySet
  <2> QED
    BY <2>1, <2>3, <2>4 DEF CountedOf, MarkCount, DispatchInit, NoLease
<1> QED
  BY <1>1, <1>2, <1>3 DEF MarkInv

LEMMA MarkStep == MarkInv /\ [DispatchNext]_allVars => MarkInv'
<1> SUFFICES ASSUME MarkInv, [DispatchNext]_allVars PROVE MarkInv'
  OBVIOUS
<1>1. TypeInv'
  BY TypeInvStep DEF MarkInv
<1>2. Kept' => MarkInv'
  BY <1>1 DEF Kept, MarkInv
<1>3. CASE StoreStep
  BY <1>2, <1>3, KeptStore
<1>4. ASSUME NEW w \in Workers, WorkerStep(w) PROVE MarkInv'
  BY <1>2, <1>4, KeptQuiet, KeptClaim, KeptHold, KeptMark, KeptInvoke, KeptSettle DEF WorkerStep
<1>5. CASE UNCHANGED allVars
  <2>1. lease' = lease /\ pc' = pc /\ job' = job /\ invocations' = invocations
        /\ trail' = trail /\ status' = status
    BY <1>5 DEF allVars, vars, runVars, dispatchVars
  <2> QED
    BY <1>1, <2>1
    DEF MarkInv, TokensFenced, MarkersCounted, CountedOf, Calling, Unmarked, MarkCount, Marks,
        InvokersMarked, MarkedOf, AcknowledgedGone, Gone
<1> QED
  BY <1>3, <1>4, <1>5 DEF DispatchNext

(* The invariant's counts, in the form the theorems use. *)
LEMMA MarkBounds ==
  ASSUME MarkInv, NEW r \in RunIds
  PROVE  /\ invocations[r] \in Nat /\ MarkCount(r) \in Nat /\ lease[r].attempt \in Nat
         /\ invocations[r] <= MarkCount(r)
         /\ MarkCount(r) <= lease[r].attempt
         /\ lease[r].attempt <= MaxAttempts
         /\ Calling(r) # {} => invocations[r] < MarkCount(r)
         /\ Unmarked(r) # {} => MarkCount(r) < lease[r].attempt
<1>1. DispatchTypeOK /\ CountedOf(r) /\ lease[r].attempt <= MaxAttempts
  BY DEF MarkInv, TypeInv, MarkersCounted, AttemptsCounted
<1>2. invocations[r] \in Nat /\ lease[r].attempt \in Nat
  BY <1>1 DEF DispatchTypeOK, Leases
<1>3. /\ Cardinality(Calling(r)) \in Nat /\ Cardinality(Unmarked(r)) \in Nat /\ MarkCount(r) \in Nat
      /\ Calling(r) # {} => Cardinality(Calling(r)) # 0
      /\ Unmarked(r) # {} => Cardinality(Unmarked(r)) # 0
  BY <1>1, CountsFinite, FS_EmptySet
<1> QED
  BY <1>1, <1>2, <1>3 DEF CountedOf

(***************************************************************************)
(* Each call of the customer's harness has an audited marker of its own    *)
(* and each marker a claim of its own, for any number of workers and runs, *)
(* whatever fails and however old the readings of the clock are: a run is  *)
(* called at most MaxAttempts times and never without an audit row.        *)
(***************************************************************************)
THEOREM CallsMarked == DispatchSpec => []EveryCallMarked
<1>1. MarkInv => EveryCallMarked
  BY MarkBounds DEF EveryCallMarked, MarkCount
<1> QED
  BY MarkInit, MarkStep, <1>1, PTL DEF DispatchSpec

(***************************************************************************)
(* A worker past the marker holds its run's dispatching lease or has a     *)
(* token older than the row's, so the fence refuses what it sends; and no  *)
(* two of them share a claim.                                              *)
(***************************************************************************)
THEOREM NewestInvokersHold == DispatchSpec => []NewestInvokerHolds
<1>1. MarkInv => NewestInvokerHolds
  <2> SUFFICES ASSUME MarkInv, NEW w \in Workers, pc[w] \in Past
               PROVE  /\ \/ Holds(w, "dispatching")
                         \/ job[w].token < lease[job[w].run].generation
                      /\ \A v \in Workers :
                           /\ pc[v] \in Past
                           /\ job[v].run = job[w].run /\ job[v].token = job[w].token
                           => v = w
    BY DEF NewestInvokerHolds
  <2> USE DEF MarkInv, TypeInv
  <2>1. pc[w] \in Holding
    BY DEF Past, Holding
  <2>2. job[w].token \in Nat /\ lease[job[w].run].generation \in Nat
    BY <2>1, HolderRun DEF Leases
  <2>3. job[w].token <= lease[job[w].run].generation
    BY <2>1 DEF TokensFenced
  <2>4. CASE job[w].token = lease[job[w].run].generation
    BY <2>1, <2>4, PastToken DEF TokensFenced, Holds, Past, Holding
  <2>5. CASE job[w].token # lease[job[w].run].generation
    BY <2>1, <2>2, <2>3, <2>5 DEF TokensFenced, Past, Holding
  <2> QED
    BY <2>4, <2>5
<1> QED
  BY MarkInit, MarkStep, <1>1, PTL DEF DispatchSpec

-----------------------------------------------------------------------------
(***************************************************************************)
(* The implementation of DispatchMarked.  The state function Phase changes *)
(* where a worker marks, acknowledges or holds its own run, from open to   *)
(* closed where the store takes a run out of the queue, and back to open   *)
(* where a claim takes over a run that was marked since its query.         *)
(***************************************************************************)
LEMMA MarkedSame ==
  ASSUME \A s \in RunIds : Phase(s)' = Phase(s) /\ MarkCount(s)' = MarkCount(s),
         invocations' = invocations
  PROVE  UNCHANGED Marked!markedVars
BY DEF Marked!markedVars, MarkCount

(* A step that changes the phase of one run, from a phase to another. *)
LEMMA MarkedMove ==
  ASSUME NEW r \in RunIds, NEW from, NEW to,
         Phase(r) = from, Phase(r)' = to,
         \A s \in RunIds : s # r => Phase(s)' = Phase(s)
  PROVE  Marked!Move(r, from, to)
BY DEF Marked!Move

LEMMA StoreCloses ==
  ASSUME MarkInv, StoreStep
  PROVE  Marked!Close
<1> DEFINE S == {r \in RunIds : Phase(r) = "open" /\ Phase(r)' = "closed"}
<1>1. lease' = lease /\ invocations' = invocations
  BY DEF StoreStep, dispatchVars
<1>2. \A r \in RunIds : Phase(r)' = (IF r \in S THEN "closed" ELSE Phase(r))
  <2> SUFFICES ASSUME NEW r \in RunIds
               PROVE  Phase(r)' = (IF r \in S THEN "closed" ELSE Phase(r))
    OBVIOUS
  <2>1. Gone(r) => Gone(r)'
    BY GoneStays DEF MarkInv, TypeInv
  <2> QED
    BY <1>1, <2>1 DEF Phase, Gone
<1>3. S \in SUBSET {r \in RunIds : [s \in RunIds |-> Phase(s)][r] = "open"}
  OBVIOUS
<1>4. [r \in RunIds |-> Phase(r)]' =
        [r \in RunIds |-> IF r \in S THEN "closed" ELSE [s \in RunIds |-> Phase(s)][r]]
  BY <1>2
<1>5. [r \in RunIds |-> Cardinality(Marks(r))]' = [r \in RunIds |-> Cardinality(Marks(r))]
  BY StoreMarks DEF MarkCount, MarkInv, TypeInv
<1> HIDE DEF S
<1> QED
  BY <1>1, <1>3, <1>4, <1>5 DEF Marked!Close

(* A claim opens again a run that was marked after the claim's query. *)
LEMMA ClaimOvertakes ==
  ASSUME MarkInv, NEW w \in Workers, NEW r \in RunIds, ClaimLease(w, r)
  PROVE  Marked!Overtake(r) \/ UNCHANGED Marked!markedVars
<1> USE DEF MarkInv, TypeInv
<1>1. /\ \A s \in RunIds : s # r => lease'[s] = lease[s]
      /\ lease'[r].state = "leased"
      /\ invocations' = invocations /\ trail' = trail /\ status' = status /\ status[r] = "queued"
  BY DEF ClaimLease, DispatchTypeOK, vars, runVars
<1>2. \A s \in RunIds : MarkCount(s)' = MarkCount(s)
  BY <1>1, MarksStay
<1>3. \A s \in RunIds : s # r => Phase(s)' = Phase(s)
  BY <1>1 DEF Phase
<1>4. Phase(r)' = "open"
  BY <1>1 DEF Phase
<1>5. lease[r].state \notin {"reconciliation", "acknowledged"}
  BY <1>1 DEF ClaimLease, AcknowledgedGone, Gone
<1>6. CASE lease[r].state = "dispatching"
  <2>1. Marked!Move(r, "committed", "open")
    BY <1>3, <1>4, <1>6, MarkedMove DEF Phase
  <2>2. lease[r].attempt < MaxAttempts
    BY DEF ClaimLease, ClaimsSerialized
  <2>3. MarkCount(r) < MaxAttempts
    BY <2>2, MarkBounds, DispatchAssumption
  <2> QED
    BY <1>1, <1>2, <2>1, <2>3 DEF Marked!Overtake, MarkCount
<1>7. CASE lease[r].state # "dispatching"
  <2>1. Phase(r) = "open"
    BY <1>1, <1>5, <1>7 DEF Phase
  <2> QED
    BY <1>1, <1>2, <1>3, <1>4, <2>1, MarkedSame
<1> QED
  BY <1>6, <1>7

(* The marker is committed under a claim that has none yet. *)
LEMMA MarkCommits ==
  ASSUME MarkInv, NEW w \in Workers, MarkDispatchStarted(w)
  PROVE  \E r \in RunIds : Marked!Commit(r)
<1> USE DEF MarkInv, TypeInv
<1>1. PICK r \in RunIds : r = job[w].run
  BY HolderRun DEF MarkDispatchStarted, Holding
<1>2. lease[r].state = "leased" /\ status[r] = "queued"
  BY <1>1 DEF MarkDispatchStarted, HoldsLive, Holds, Startable
<1>3. lease' = [lease EXCEPT ![r] = [lease[r] EXCEPT !.state = "dispatching"]]
  BY <1>1 DEF MarkDispatchStarted, SetLease
<1>4. /\ lease'[r].state = "dispatching"
      /\ \A s \in RunIds : s # r => lease'[s] = lease[s]
      /\ UNCHANGED <<invocations, status>>
  BY <1>1, <1>3 DEF MarkDispatchStarted, DispatchTypeOK, Leases
<1>5. /\ \A s \in RunIds : s # r => trail'[s] = trail[s]
      /\ trail'[r] = Append(trail[r], Row("dispatchStarted", "queued", "queued"))
      /\ Row("dispatchStarted", "queued", "queued") \in AuditRows
  BY <1>1 DEF MarkDispatchStarted, Audit, Row, AuditRows, AuditKinds, Statuses, Active,
     DispatchTypeOK, TypeOK
<1>6. MarkCount(r)' = MarkCount(r) + 1 /\ \A s \in RunIds : s # r => MarkCount(s)' = MarkCount(s)
  BY <1>5, MarksAppend, MarksStay DEF Row, One
<1>7. Marked!Move(r, "open", "committed")
  BY <1>2, <1>4, MarkedMove DEF Phase
<1>8. MarkCount(r) < MaxAttempts
  <2>1. w \in Unmarked(r)
    BY <1>1 DEF MarkDispatchStarted, Unmarked
  <2> QED
    BY <2>1, MarkBounds, DispatchAssumption
<1>9. [s \in RunIds |-> Cardinality(Marks(s))]' =
        [[s \in RunIds |-> Cardinality(Marks(s))] EXCEPT ![r] = @ + 1]
  BY <1>6 DEF MarkCount
<1>10. [s \in RunIds |-> Cardinality(Marks(s))][r] < MaxAttempts
  BY <1>8 DEF MarkCount
<1>11. Marked!Commit(r)
  BY <1>4, <1>7, <1>9, <1>10 DEF Marked!Commit
<1> QED
  BY <1>11

(* The call is made under the marker that stands or under one overtaken. *)
LEMMA InvokeCalls ==
  ASSUME MarkInv, NEW w \in Workers, Invoke(w)
  PROVE  \E r \in RunIds : Marked!Call(r)
<1> USE DEF MarkInv, TypeInv
<1>1. PICK r \in RunIds : r = job[w].run
  BY HolderRun DEF Invoke, Holding
<1>2. /\ pc[w] = "marked" /\ lease' = lease /\ status' = status /\ trail' = trail
      /\ invocations' = [invocations EXCEPT ![r] = @ + 1]
  BY <1>1 DEF Invoke, vars, runVars
<1>3. \A s \in RunIds : Phase(s)' = Phase(s) /\ MarkCount(s)' = MarkCount(s)
  BY <1>2, MarksStay DEF Phase
<1>4. invocations[r] < MarkCount(r) /\ MarkCount(r) \in Nat
  <2>1. w \in Calling(r)
    BY <1>1, <1>2 DEF Calling
  <2> QED
    BY <2>1, MarkBounds
<1>5. MarkedOf(w)
  BY <1>2 DEF InvokersMarked, Past
<1>6. Phase(r) \in {"committed", "confirmed", "held"} => lease[r].state \in Held
  BY DEF Phase, Held
<1>7. lease[r].state = "dispatching" => Phase(r) = "committed"
  BY DEF Phase
<1>8. Phase(r) = "committed" \/ MarkCount(r) - (IF Phase(r) \in Marked!Standing THEN 1 ELSE 0) > 0
  BY <1>1, <1>4, <1>5, <1>6, <1>7 DEF MarkedOf, Marked!Standing
<1>9. Marked!Overtaken(r) = MarkCount(r) - (IF Phase(r) \in Marked!Standing THEN 1 ELSE 0)
  BY DEF Marked!Overtaken, MarkCount
<1>10. UNCHANGED <<[s \in RunIds |-> Phase(s)], [s \in RunIds |-> Cardinality(Marks(s))]>>
  BY <1>3 DEF MarkCount
<1>11. Marked!Call(r)
  BY <1>2, <1>4, <1>8, <1>9, <1>10 DEF Marked!Call, MarkCount
<1> QED
  BY <1>11

(* What settles a dispatch moves the run from its marker. *)
LEMMA SettleMoves ==
  ASSUME MarkInv, NEW w \in Workers, Acknowledge(w) \/ RecordUnknownOutcome(w)
  PROVE  \E r \in RunIds : Marked!Confirm(r) \/ Marked!Hold(r)
<1> USE DEF MarkInv, TypeInv
<1>1. PICK r \in RunIds : r = job[w].run /\ lease[r] \in Leases
  BY HolderRun DEF Acknowledge, RecordUnknownOutcome, Holding
<1>2. lease[r].state = "dispatching"
  BY <1>1 DEF Acknowledge, RecordUnknownOutcome, Holds
<1>3. invocations' = invocations
  BY DEF Acknowledge, RecordUnknownOutcome
<1>4. PICK row \in AuditRows :
        /\ row.action # "dispatchStarted"
        /\ trail' = [trail EXCEPT ![r] = Append(@, row)]
  BY <1>1, SettleRow
<1>5. \A s \in RunIds : MarkCount(s)' = MarkCount(s)
  BY <1>4, RowStays
<1>6. UNCHANGED [s \in RunIds |-> Cardinality(Marks(s))]
  BY <1>5 DEF MarkCount
<1>7. CASE Acknowledge(w)
  <2>1. /\ lease'[r].state = "acknowledged"
        /\ \A s \in RunIds : s # r => lease'[s] = lease[s] /\ status'[s] = status[s]
    BY <1>1, <1>7 DEF Acknowledge, Start, SetLease, DispatchTypeOK, TypeOK, Leases
  <2>2. Marked!Move(r, "committed", "confirmed")
    BY <1>2, <2>1, MarkedMove DEF Phase
  <2>3. invocations[r] > 0
    <3>1. MarkedOf(w) /\ pc[w] = "acking"
      BY <1>7 DEF Acknowledge, InvokersMarked, Past
    <3> QED
      BY <1>1, <3>1, MarkBounds DEF MarkedOf
  <2>4. Marked!Confirm(r)
    BY <1>3, <1>6, <2>2, <2>3 DEF Marked!Confirm
  <2> QED
    BY <2>4
<1>8. CASE RecordUnknownOutcome(w)
  <2>1. /\ lease'[r].state = "reconciliation" /\ status' = status
        /\ \A s \in RunIds : s # r => lease'[s] = lease[s]
    BY <1>1, <1>8 DEF RecordUnknownOutcome, SetLease, DispatchTypeOK, Leases
  <2>2. Marked!Move(r, "committed", "held")
    BY <1>2, <2>1, MarkedMove DEF Phase
  <2>3. Marked!Hold(r)
    BY <1>3, <1>6, <2>2 DEF Marked!Hold
  <2> QED
    BY <2>3
<1> QED
  BY <1>7, <1>8

LEMMA WorkerImplements ==
  ASSUME MarkInv, NEW w \in Workers, WorkerStep(w)
  PROVE  Marked!Next \/ UNCHANGED Marked!markedVars
<1> USE DEF MarkInv, TypeInv
<1>1. ASSUME UNCHANGED <<invocations, status, trail>>,
             \A s \in RunIds : lease'[s].state = lease[s].state
                            \/ (lease[s].state \notin Held /\ lease'[s].state \notin Held)
      PROVE  UNCHANGED Marked!markedVars
  <2>1. \A s \in RunIds : Phase(s)' = Phase(s) /\ MarkCount(s)' = MarkCount(s)
    BY <1>1, MarksStay DEF Phase, Held
  <2> QED
    BY <1>1, <2>1, MarkedSame
<1>2. CASE ClaimQuery(w) \/ PreflightPass(w) \/ PreflightFail(w) \/ ProviderAnswer(w) \/ Abandon(w)
  BY <1>1, <1>2 DEF ClaimQuery, PreflightPass, PreflightFail, ProviderAnswer, Abandon, vars, runVars
<1>3. CASE Renew(w)
  BY <1>1, <1>3 DEF Renew, SetLease, DispatchTypeOK, Leases, vars, runVars
<1>4. CASE ReleaseForRetry(w)
  <2>1. PICK r \in RunIds : r = job[w].run /\ lease[r].state = "leased"
    BY <1>4, HolderRun DEF ReleaseForRetry, HoldsLive, Holds, Holding
  <2>2. PICK row \in Leases :
          lease' = [lease EXCEPT ![r] = row] /\ row.state \in {"exhausted", "retry"}
    BY <1>4, <2>1, ReleasedRow DEF SetLease
  <2>3. /\ lease'[r].state \notin Held /\ lease[r].state \notin Held
        /\ \A s \in RunIds : s # r => lease'[s] = lease[s]
    BY <2>1, <2>2 DEF DispatchTypeOK, Held
  <2> QED
    BY <1>1, <1>4, <2>3 DEF ReleaseForRetry, vars, runVars
<1> QED
  BY <1>2, <1>3, <1>4, ClaimOvertakes, MarkCommits, InvokeCalls, SettleMoves
  DEF WorkerStep, Marked!Next

(***************************************************************************)
(* The leases and workers implement DispatchMarked however old a reading   *)
(* of the clock is: a run closed before any marker is never called, one    *)
(* confirmed or held is never claimed again, only a call that was made is  *)
(* confirmed, and only an overtaken claim calls a run that stands open.    *)
(***************************************************************************)
THEOREM LeasesImplementMarked == DispatchSpec => ImplementsDispatchMarked
<1>1. DispatchInit => Marked!Init
  <2> SUFFICES ASSUME DispatchInit PROVE Marked!Init
    OBVIOUS
  <2>1. \A r \in RunIds : Phase(r) = "open" /\ Marks(r) = {}
    <3>1. \A r \in RunIds : trail[r] = <<>> /\ status[r] = "none" /\ lease[r].state = "none"
      BY DEF DispatchInit, Init, NoLease
    <3> QED
      BY <3>1 DEF Phase, Marks
  <2>2. Cardinality({}) = 0
    BY FS_EmptySet
  <2>3. [r \in RunIds |-> Cardinality(Marks(r))] = [r \in RunIds |-> 0]
    BY <2>1, <2>2
  <2>4. [r \in RunIds |-> Phase(r)] = [r \in RunIds |-> "open"]
    BY <2>1
  <2> QED
    BY <2>3, <2>4 DEF Marked!Init, DispatchInit
<1>2. MarkInv /\ [DispatchNext]_allVars => [Marked!Next]_(Marked!markedVars)
  <2> SUFFICES ASSUME MarkInv, [DispatchNext]_allVars
               PROVE  Marked!Next \/ UNCHANGED Marked!markedVars
    OBVIOUS
  <2>1. CASE StoreStep
    BY <2>1, StoreCloses DEF Marked!Next
  <2>2. CASE \E w \in Workers : WorkerStep(w)
    BY <2>2, WorkerImplements
  <2>3. CASE UNCHANGED allVars
    <3>1. UNCHANGED <<lease, status, trail, invocations>>
      BY <2>3 DEF allVars, vars, runVars, dispatchVars
    <3>2. \A s \in RunIds : Phase(s)' = Phase(s) /\ MarkCount(s)' = MarkCount(s)
      BY <3>1, MarksStay DEF Phase
    <3> QED
      BY <3>1, <3>2, MarkedSame
  <2> QED
    BY <2>1, <2>2, <2>3 DEF DispatchNext
<1> QED
  BY MarkInit, MarkStep, <1>1, <1>2, PTL
  DEF DispatchSpec, ImplementsDispatchMarked, Marked!Spec
-----------------------------------------------------------------------------
(* A claimed run has a row, and a row's deadline is written once: claims    *)
(* and renewals are cut at it and a release only brings the end forward.    *)
DeadlineOf(r) == lease[r].state # "none" => status[r] # "none" /\ lease[r].until <= deadline[r]

DeadlineInv == TypeInv /\ \A r \in RunIds : DeadlineOf(r)

LEMMA LesserBound ==
  ASSUME NEW a \in Nat, NEW b \in Nat
  PROVE  Lesser(a, b) <= b
BY DEF Lesser

(* A run on file stays on file, with its deadline. *)
LEMMA DeadlineStays ==
  ASSUME TypeInv, StoreStep, NEW r \in RunIds, status[r] # "none"
  PROVE  status'[r] # "none" /\ UNCHANGED deadline[r]
<1> USE DEF TypeInv, DispatchTypeOK, TypeOK
<1>1. CASE \E q \in Requests : Reserve(q)
  BY <1>1 DEF Reserve, Reserved
<1>2. CASE \E s \in RunIds : RequestCancel(s)
  BY <1>2 DEF RequestCancel
<1>3. CASE \E s \in RunIds, p \in Payloads, d \in DeliveryIds \cup {None} : ApplyEvent(s, p, d)
  BY <1>3, PayloadsAssumption DEF ApplyEvent, EventOf, EventStatuses
<1>4. CASE ExpireDue
  BY <1>4 DEF ExpireDue
<1>5. CASE Tick
  BY <1>5 DEF Tick, runVars
<1> QED
  BY <1>1, <1>2, <1>3, <1>4, <1>5 DEF StoreStep

LEMMA DeadlineWorker ==
  ASSUME DeadlineInv, NEW w \in Workers, WorkerStep(w), NEW r \in RunIds
  PROVE  DeadlineOf(r)'
<1> USE DEF TypeInv
<1>1. DispatchTypeOK /\ TypeOK /\ DeadlineOf(r) /\ deadline[r] \in Nat /\ lease[r].until \in Nat
  BY DEF DeadlineInv, DispatchTypeOK, TypeOK, Leases
<1>2. ASSUME NEW s \in RunIds, ClaimLease(w, s) PROVE DeadlineOf(r)'
  <2>1. CASE r # s
    BY <1>1, <1>2, <2>1 DEF ClaimLease, DispatchTypeOK, vars, runVars, DeadlineOf
  <2>2. CASE r = s
    <3>1. view[w].at + LeaseTime \in Nat
      BY <1>1, DispatchAssumption DEF DispatchTypeOK, Views
    <3>2. /\ lease'[r].until = Lesser(view[w].at + LeaseTime, deadline[r])
          /\ status'[r] = "queued" /\ UNCHANGED deadline
      BY <1>1, <1>2, <2>2 DEF ClaimLease, DispatchTypeOK, vars, runVars
    <3> QED
      BY <1>1, <3>1, <3>2, LesserBound DEF DeadlineOf
  <2> QED
    BY <2>1, <2>2
<1>3. ASSUME UNCHANGED deadline, status[r] # "none" => status'[r] # "none",
             lease'[r].state # "none" => lease[r].state # "none",
             lease'[r].until <= lease[r].until \/ lease'[r].until <= deadline[r],
             lease'[r].until \in Nat
      PROVE  DeadlineOf(r)'
  BY <1>1, <1>3 DEF DeadlineOf
<1>4. CASE Renew(w)
  <2>1. PICK at \in Readings : /\ HoldsLive(w, at)
                              /\ SetLease(job[w].run, [lease[job[w].run] EXCEPT
                                     !.until = Lesser(at + LeaseTime, deadline[job[w].run])])
    BY <1>4 DEF Renew
  <2>2. at + LeaseTime \in Nat
    BY <1>1, ReadingsType, DispatchAssumption DEF TypeOK
  <2>3. \/ lease'[r] = lease[r]
        \/ /\ lease'[r].until = Lesser(at + LeaseTime, deadline[r])
           /\ lease'[r].state = lease[r].state
    BY <1>1, <2>1 DEF SetLease, DispatchTypeOK, Leases
  <2>4. lease'[r].until <= lease[r].until \/ lease'[r].until <= deadline[r]
    BY <1>1, <2>2, <2>3, LesserBound
  <2>5. UNCHANGED <<status, deadline>>
    BY <1>4 DEF Renew, vars, runVars
  <2>6. lease'[r].until \in Nat
    BY <1>1, <2>2, <2>3 DEF Lesser
  <2> QED
    BY <1>3, <2>3, <2>4, <2>5, <2>6
<1>5. CASE ReleaseForRetry(w)
  <2>1. PICK at \in Readings :
          /\ HoldsLive(w, at)
          /\ SetLease(job[w].run, [lease[job[w].run] EXCEPT
               !.state = IF lease[job[w].run].attempt >= MaxAttempts THEN "exhausted" ELSE "retry",
               !.until = at, !.eligible = at + Backoff(lease[job[w].run].attempt)])
    BY <1>5 DEF ReleaseForRetry
  <2>2. at \in Nat
    BY <1>1, ReadingsType DEF TypeOK
  <2>3. \/ lease'[r] = lease[r]
        \/ /\ lease'[r].until = at /\ at < lease[r].until
           /\ lease[r].state = "leased"
    BY <1>1, <2>1 DEF SetLease, HoldsLive, Holds, DispatchTypeOK, Leases
  <2>4. UNCHANGED <<status, deadline>>
    BY <1>5 DEF ReleaseForRetry, vars, runVars
  <2> QED
    BY <1>1, <1>3, <2>2, <2>3, <2>4
<1>6. CASE MarkDispatchStarted(w) \/ RecordUnknownOutcome(w)
  <2>1. /\ UNCHANGED <<status, deadline>>
        /\ lease'[r].until = lease[r].until
        /\ lease'[r] = lease[r] \/ lease[r].state \in {"leased", "dispatching"}
    BY <1>1, <1>6 DEF MarkDispatchStarted, RecordUnknownOutcome, SetLease, HoldsLive, Holds,
                      DispatchTypeOK, Leases
  <2> QED
    BY <1>1, <1>3, <2>1
<1>7. CASE Acknowledge(w)
  <2>1. UNCHANGED deadline /\ (status'[r] = status[r] \/ status'[r] = "running")
    BY <1>1, <1>7 DEF Acknowledge, Start, TypeOK
  <2>2. /\ lease'[r].until = lease[r].until
        /\ lease'[r] = lease[r] \/ lease[r].state = "dispatching"
    BY <1>1, <1>7 DEF Acknowledge, SetLease, Holds, DispatchTypeOK, Leases
  <2> QED
    BY <1>1, <1>3, <2>1, <2>2
<1>8. CASE ClaimQuery(w) \/ PreflightPass(w) \/ PreflightFail(w) \/ Invoke(w)
           \/ ProviderAnswer(w) \/ Abandon(w)
  BY <1>1, <1>8 DEF ClaimQuery, PreflightPass, PreflightFail, Invoke, ProviderAnswer, Abandon,
                    vars, runVars, DeadlineOf
<1> QED
  BY <1>2, <1>4, <1>5, <1>6, <1>7, <1>8 DEF WorkerStep

LEMMA DeadlineStep == DeadlineInv /\ [DispatchNext]_allVars => DeadlineInv'
<1> SUFFICES ASSUME DeadlineInv, [DispatchNext]_allVars PROVE DeadlineInv'
  OBVIOUS
<1>1. TypeInv /\ TypeInv'
  BY TypeInvStep DEF DeadlineInv
<1>2. CASE StoreStep
  <2>1. lease' = lease
    BY <1>2 DEF StoreStep, dispatchVars
  <2> QED
    BY <1>1, <1>2, <2>1, DeadlineStays DEF DeadlineInv, DeadlineOf
<1>3. CASE \E w \in Workers : WorkerStep(w)
  BY <1>1, <1>3, DeadlineWorker DEF DeadlineInv
<1>4. CASE UNCHANGED allVars
  BY <1>1, <1>4 DEF allVars, vars, runVars, dispatchVars, DeadlineInv, DeadlineOf
<1> QED
  BY <1>2, <1>3, <1>4 DEF DispatchNext

(***************************************************************************)
(* No lease outlives its run's deadline, however late the clock that a     *)
(* claim or a renewal read it by.                                          *)
(***************************************************************************)
THEOREM LeasesEndByDeadline == DispatchSpec => []LeaseWithinDeadline
<1>1. DispatchInit => DeadlineInv
  BY TypeInvInit DEF DispatchInit, DeadlineInv, DeadlineOf, NoLease
<1>2. DeadlineInv => LeaseWithinDeadline
  BY DEF DeadlineInv, DeadlineOf, LeaseWithinDeadline
<1> QED
  BY <1>1, <1>2, DeadlineStep, PTL DEF DispatchSpec

-----------------------------------------------------------------------------
LEMMA CancelThroughDispatch ==
  ASSUME DispatchTypeOK, [DispatchNext]_allVars, NEW r \in RunIds, status[r] = "cancelRequested"
  PROVE  status'[r] \in {"cancelRequested", "canceled", "failed", "timedOut"}
<1>1. TypeOK
  BY DEF DispatchTypeOK
<1>2. CASE StoreStep
  <2>1. Next
    BY <1>2 DEF StoreStep, StoreNext, Next
  <2> QED
    BY <1>1, <2>1, CancelStep
<1>3. CASE \E w \in Workers : Acknowledge(w)
  <2>1. PICK w \in Workers : Acknowledge(w)
    BY <1>3
  <2>2. /\ status' = [status EXCEPT ![job[w].run] = "running"]
        /\ status[job[w].run] = "queued"
    BY <2>1 DEF Acknowledge, Startable, Start
  <2> QED
    BY <1>1, <2>2 DEF TypeOK
<1>4. CASE UNCHANGED status
  BY <1>4
<1>5. CASE \E w \in Workers : WorkerStep(w) /\ ~Acknowledge(w)
  <2>1. PICK w \in Workers : WorkerStep(w) /\ ~Acknowledge(w)
    BY <1>5
  <2>2. CASE ClaimQuery(w) \/ \E s \in RunIds : ClaimLease(w, s)
    BY <1>4, <2>2, SMTT(30) DEF ClaimQuery, ClaimLease, vars, runVars
  <2>3. CASE Renew(w) \/ PreflightPass(w) \/ PreflightFail(w) \/ ReleaseForRetry(w)
    BY <1>4, <2>3 DEF Renew, PreflightPass, PreflightFail, ReleaseForRetry, vars, runVars
  <2>4. CASE MarkDispatchStarted(w) \/ Invoke(w) \/ ProviderAnswer(w)
             \/ RecordUnknownOutcome(w) \/ Abandon(w)
    BY <1>4, <2>4 DEF MarkDispatchStarted, Invoke, ProviderAnswer, RecordUnknownOutcome, Abandon,
                      vars, runVars
  <2> QED
    BY <2>1, <2>2, <2>3, <2>4 DEF WorkerStep
<1> QED
  BY <1>2, <1>3, <1>4, <1>5 DEF DispatchNext, allVars, vars, runVars

(***************************************************************************)
(* The dispatcher never overwrites a cancellation: an acknowledgement that *)
(* comes after it does not make the run run.                               *)
(***************************************************************************)
THEOREM DispatchKeepsCancellations == DispatchSpec => CancelSticks
<1>1. DispatchTypeOK /\ [DispatchNext]_allVars =>
        [\A r \in RunIds : status[r] = "cancelRequested" =>
           status'[r] \in {"cancelRequested", "canceled", "failed", "timedOut"}]_vars
  BY CancelThroughDispatch
<1> QED
  BY DispatchTyped, <1>1, PTL DEF DispatchSpec, CancelSticks

-----------------------------------------------------------------------------
(* A settled run is not queued, so no worker claims, marks or acknowledges  *)
(* it; all that can be added is that its dispatch was left unresolved.      *)
LEMMA SettledThroughDispatch ==
  ASSUME DispatchTypeOK, [DispatchNext]_allVars, NEW r \in RunIds, status[r] \in Terminal
  PROVE  /\ UNCHANGED <<status[r], latest[r], events[r], deliveries[r]>>
         /\ \/ UNCHANGED trail[r]
            \/ trail'[r] = Append(trail[r], Row("reconciliationRequired", status[r], status[r]))
<1>1. TypeOK /\ status[r] # "queued"
  BY DEF DispatchTypeOK, Terminal
<1>2. CASE StoreStep
  <2>1. Next
    BY <1>2 DEF StoreStep, StoreNext, Next
  <2> QED
    BY <1>1, <2>1, SettledStep
<1>3. CASE \E w \in Workers : Acknowledge(w)
  BY <1>1, <1>3 DEF Acknowledge, Startable, Start, Audit, TypeOK
<1>4. CASE \E w \in Workers : MarkDispatchStarted(w)
  <2>1. PICK w \in Workers : MarkDispatchStarted(w)
    BY <1>4
  <2>2. status[job[w].run] = "queued" /\ Audit(job[w].run, "dispatchStarted", "queued", "queued")
    BY <2>1 DEF MarkDispatchStarted, Startable
  <2>3. UNCHANGED <<status, latest, events, deliveries>>
    BY <2>1 DEF MarkDispatchStarted
  <2> QED
    BY <1>1, <2>2, <2>3 DEF Audit, TypeOK
<1>5. CASE \E w \in Workers : RecordUnknownOutcome(w)
  <2>1. PICK w \in Workers : RecordUnknownOutcome(w)
    BY <1>5
  <2>2. Audit(job[w].run, "reconciliationRequired", status[job[w].run], status[job[w].run])
    BY <2>1 DEF RecordUnknownOutcome
  <2>3. UNCHANGED <<status, latest, events, deliveries>>
    BY <2>1 DEF RecordUnknownOutcome
  <2> QED
    BY <1>1, <2>2, <2>3 DEF Audit, TypeOK
<1>6. CASE UNCHANGED <<status, latest, events, deliveries, trail>>
  BY <1>6
<1>7. CASE \E w \in Workers : ClaimQuery(w) \/ \E s \in RunIds : ClaimLease(w, s)
  BY <1>6, <1>7 DEF ClaimQuery, ClaimLease, vars, runVars
<1>8. CASE \E w \in Workers : \/ Renew(w) \/ PreflightPass(w) \/ PreflightFail(w)
                             \/ ReleaseForRetry(w) \/ Invoke(w) \/ ProviderAnswer(w) \/ Abandon(w)
  <2>1. PICK w \in Workers : \/ Renew(w) \/ PreflightPass(w) \/ PreflightFail(w)
                             \/ ReleaseForRetry(w) \/ Invoke(w) \/ ProviderAnswer(w) \/ Abandon(w)
    BY <1>8
  <2>2. CASE Renew(w) \/ PreflightPass(w) \/ PreflightFail(w) \/ ReleaseForRetry(w)
    BY <1>6, <2>2 DEF Renew, PreflightPass, PreflightFail, ReleaseForRetry, vars, runVars
  <2>3. CASE Invoke(w) \/ ProviderAnswer(w) \/ Abandon(w)
    BY <1>6, <2>3 DEF Invoke, ProviderAnswer, Abandon, vars, runVars
  <2> QED
    BY <2>1, <2>2, <2>3
<1>9. UNCHANGED allVars => UNCHANGED <<status, latest, events, deliveries, trail>>
  BY DEF allVars, vars, runVars
<1> QED
  BY <1>2, <1>3, <1>4, <1>5, <1>6, <1>7, <1>8, <1>9 DEF DispatchNext, WorkerStep

(***************************************************************************)
(* Nothing that workers do late, after their run was settled by a receipt, *)
(* a cancellation or a timeout, changes what was settled.                  *)
(***************************************************************************)
THEOREM DispatchKeepsSettled == DispatchSpec => SettledIsFinal
<1>1. DispatchTypeOK /\ [DispatchNext]_allVars =>
        [\A r \in RunIds : status[r] \in Terminal =>
           /\ UNCHANGED <<status[r], latest[r], events[r], deliveries[r]>>
           /\ \/ UNCHANGED trail[r]
              \/ trail'[r] = Append(trail[r], Row("reconciliationRequired", status[r], status[r]))]_vars
  BY SettledThroughDispatch
<1> QED
  BY DispatchTyped, <1>1, PTL DEF DispatchSpec, SettledIsFinal

-----------------------------------------------------------------------------
(***************************************************************************)
(* The run harness starts the signed ingress or the dispatch queue, and    *)
(* the part that steps is a behaviour of that component.                   *)
(***************************************************************************)
THEOREM HarnessIsEither == HarnessSpec => IngressSpec \/ DispatchSpec
<1> DEFINE Queue == part = "dispatch"
<1>1. HarnessInit => IngressInit /\ DispatchInit
  BY DEF HarnessInit
<1>2. Queue /\ [HarnessNext]_<<part, allVars, quarantine>> => Queue' /\ [DispatchNext]_allVars
  BY DEF HarnessNext, allVars
<1>3. ~Queue /\ [HarnessNext]_<<part, allVars, quarantine>> => ~Queue' /\ [IngressNext]_ingressVars
  BY DEF HarnessNext, allVars, ingressVars
<1> HIDE DEF Queue
<1> QED
  BY <1>1, <1>2, <1>3, PTL DEF HarnessSpec, IngressSpec, DispatchSpec

(* Every row, every delivery and every worker keeps its shape.             *)
THEOREM HarnessTyped == HarnessSpec => []HarnessTypeOK
<1>1. HarnessInit => IngressTypeOK /\ TypeInv
  BY InitType, TypeInvInit DEF HarnessInit, IngressInit, IngressTypeOK
<1>2. IngressTypeOK /\ TypeInv /\ [HarnessNext]_<<part, allVars, quarantine>>
      => (IngressTypeOK /\ TypeInv)'
  <2> SUFFICES ASSUME IngressTypeOK, TypeInv, [HarnessNext]_<<part, allVars, quarantine>>
               PROVE  IngressTypeOK' /\ TypeInv'
    OBVIOUS
  <2>1. CASE IngressNext /\ UNCHANGED dispatchVars
    <3>1. IngressTypeOK'
      BY <2>1, IngressTypeStep
    <3> QED
      BY <2>1, <3>1
      DEF IngressTypeOK, TypeInv, DispatchTypeOK, dispatchVars, ClaimsSerialized, AttemptsCounted
  <2>2. CASE [DispatchNext]_allVars /\ UNCHANGED quarantine
    <3>1. TypeInv'
      BY <2>2, TypeInvStep
    <3> QED
      BY <2>2, <3>1 DEF IngressTypeOK, TypeInv, DispatchTypeOK
  <2> QED
    BY <2>1, <2>2 DEF HarnessNext
<1>3. IngressTypeOK /\ TypeInv => HarnessTypeOK
  BY DEF HarnessTypeOK, TypeInv
<1> QED
  BY <1>1, <1>2, <1>3, PTL DEF HarnessSpec

(* Under either, a settled run is final and a cancellation request stands. *)
THEOREM HarnessStepsSafe == HarnessSpec => SettledIsFinal /\ CancelSticks
BY HarnessIsEither, IngressKeepsStore, SettledRunsAreFinal, CancellationsStick,
   DispatchKeepsSettled, DispatchKeepsCancellations, PTL
=============================================================================
