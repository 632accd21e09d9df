--------------------- MODULE HarnessReservations_proofs ---------------------
(***************************************************************************)
(* Proofs about the reservation store, for any runs, requests, payloads    *)
(* and limits: its type, what a step may never do to a run that is settled *)
(* or whose cancellation was requested, that a request names one run, that *)
(* outcomes have receipts and audit rows, and that the quota is held.      *)
(* About the signed ingress: it keeps the store's promises, and a verdict  *)
(* on a delivery stands.                                                   *)
(***************************************************************************)
EXTENDS HarnessIngress, SumTheorems, TLAPS

(* A reading of the clock is a natural number that is not in the future. *)
LEMMA ReadingsType ==
  ASSUME now \in Nat, NEW at \in Readings
  PROVE  at \in Nat /\ at <= now
BY DEF Readings

(* The audit row an operation appends keeps the trail well typed. *)
LEMMA AuditType ==
  ASSUME trail \in [RunIds -> Seq(AuditRows)], NEW r \in RunIds,
         NEW a \in AuditKinds, NEW f \in Statuses \cup {None}, NEW t \in Statuses,
         Audit(r, a, f, t)
  PROVE  trail' \in [RunIds -> Seq(AuditRows)]
<1>1. Row(a, f, t) \in AuditRows
  BY DEF Row, AuditRows
<1>2. Append(trail[r], Row(a, f, t)) \in Seq(AuditRows)
  BY <1>1
<1> QED
  BY <1>2 DEF Audit

LEMMA ReserveType ==
  ASSUME TypeOK, NEW q \in Requests, Reserve(q)
  PROVE  TypeOK'
<1> USE RequestsAssumption
<1>1. q.run \in RunIds /\ q.duration \in Nat
  OBVIOUS
<1>2. deadline' \in [RunIds -> Nat]
  BY <1>1, ReadingsType DEF Reserve, TypeOK
<1>3. trail' \in [RunIds -> Seq(AuditRows)]
  BY <1>1, AuditType DEF Reserve, TypeOK, AuditKinds, Statuses, Active
<1> QED
  BY <1>1, <1>2, <1>3 DEF Reserve, TypeOK, Statuses, Active

LEMMA StartType ==
  ASSUME TypeOK, NEW r \in RunIds, NEW ext \in ExternalIds, Start(r, ext), UNCHANGED now
  PROVE  TypeOK'
<1>1. trail' \in [RunIds -> Seq(AuditRows)]
  BY AuditType DEF Start, TypeOK, AuditKinds, Statuses, Active
<1> QED
  BY <1>1 DEF Start, TypeOK, Statuses, Active

LEMMA RequestCancelType ==
  ASSUME TypeOK, NEW r \in RunIds, RequestCancel(r)
  PROVE  TypeOK'
<1>1. status[r] \in Statuses
  BY DEF RequestCancel, Statuses, Active
<1>2. trail' \in [RunIds -> Seq(AuditRows)]
  BY <1>1, AuditType DEF RequestCancel, TypeOK, AuditKinds, Statuses, Active
<1> QED
  BY <1>2 DEF RequestCancel, TypeOK, Statuses, Active

LEMMA ApplyEventType ==
  ASSUME TypeOK, NEW r \in RunIds, NEW p \in Payloads, NEW d \in DeliveryIds \cup {None},
         ApplyEvent(r, p, d)
  PROVE  TypeOK'
<1> DEFINE e == EventOf(p)
<1>1. e \in Events /\ e.seq \in Nat /\ e.status \in Statuses
  BY PayloadsAssumption DEF EventOf, Events, EventStatuses, Statuses, Active, Terminal
<1>2. status[r] \in Statuses
  BY DEF ApplyEvent, Admissible, Statuses
<1>3. trail' \in [RunIds -> Seq(AuditRows)]
  BY <1>1, <1>2, AuditType DEF ApplyEvent, TypeOK, AuditKinds
<1>4. ASSUME d # None
      PROVE  [id |-> d, event |-> e.id, sha |-> p] \in Deliveries
  BY <1>1, <1>4 DEF Deliveries
<1>5. deliveries' \in [RunIds -> SUBSET Deliveries]
  BY <1>4 DEF ApplyEvent, TypeOK
<1>6. events' \in [RunIds -> SUBSET Events]
  BY <1>1 DEF ApplyEvent, TypeOK
<1>7. /\ status' \in [RunIds -> Statuses \cup {"none"}]
      /\ latest' \in [RunIds -> Nat]
  BY <1>1 DEF ApplyEvent, TypeOK
<1> QED
  BY <1>3, <1>5, <1>6, <1>7 DEF ApplyEvent, TypeOK

LEMMA ExpireDueType ==
  ASSUME TypeOK, ExpireDue
  PROVE  TypeOK'
<1>1. Row("expired", None, "timedOut") \in AuditRows
  BY DEF Row, AuditRows, AuditKinds, Statuses, Terminal
<1>2. \A r \in RunIds : Append(trail[r], Row("expired", None, "timedOut")) \in Seq(AuditRows)
  BY <1>1 DEF TypeOK
<1>3. trail' \in [RunIds -> Seq(AuditRows)]
  BY <1>2 DEF ExpireDue, TypeOK
<1>4. status' \in [RunIds -> Statuses \cup {"none"}]
  BY DEF ExpireDue, TypeOK, Statuses, Terminal
<1> QED
  BY <1>3, <1>4 DEF ExpireDue, TypeOK

LEMMA TickType ==
  ASSUME TypeOK, Tick
  PROVE  TypeOK'
BY DEF Tick, TypeOK, runVars

LEMMA InitType == Init => TypeOK
BY DEF Init, TypeOK

LEMMA TypeStep == TypeOK /\ [Next]_vars => TypeOK'
<1> SUFFICES ASSUME TypeOK, [Next]_vars PROVE TypeOK'
  OBVIOUS
<1>1. CASE StoreNext
  BY <1>1, ReserveType, RequestCancelType, ApplyEventType, ExpireDueType DEF StoreNext
<1>2. CASE \E r \in RunIds, ext \in ExternalIds : MarkRunning(r, ext)
  BY <1>2, StartType DEF MarkRunning
<1>3. CASE Tick
  BY <1>3, TickType
<1>4. CASE UNCHANGED vars
  BY <1>4 DEF vars, runVars, TypeOK
<1> QED
  BY <1>1, <1>2, <1>3, <1>4 DEF Next

(***************************************************************************)
(* The rows of the store's tables always have the types the schema gives   *)
(* them, whatever requests, receipts and sweeps arrive.                    *)
(***************************************************************************)
THEOREM ReservationsTyped == Spec => []TypeOK
BY InitType, TypeStep, PTL DEF Spec

-----------------------------------------------------------------------------
(* No step of the store or of the clock touches a settled run. *)
LEMMA SettledStep ==
  ASSUME TypeOK, [Next]_vars, NEW r \in RunIds, status[r] \in Terminal
  PROVE  UNCHANGED <<status[r], latest[r], events[r], deliveries[r], trail[r]>>
<1>1. status[r] \notin Active /\ status[r] # "none"
  BY DEF Active, Terminal
<1>2. CASE \E q \in Requests : Reserve(q)
  BY <1>1, <1>2 DEF Reserve, Reserved, Audit, TypeOK
<1>3. CASE \E s \in RunIds : RequestCancel(s)
  BY <1>1, <1>3 DEF RequestCancel, Active, Audit, TypeOK
<1>4. CASE \E s \in RunIds, p \in Payloads, d \in DeliveryIds \cup {None} : ApplyEvent(s, p, d)
  BY <1>1, <1>4 DEF ApplyEvent, Admissible, Audit, TypeOK
<1>5. CASE ExpireDue
  BY <1>1, <1>5 DEF ExpireDue, Due, ActiveRuns, TypeOK
<1>6. CASE \E s \in RunIds, ext \in ExternalIds : MarkRunning(s, ext)
  BY <1>1, <1>6 DEF MarkRunning, Startable, Start, Active, Audit, TypeOK
<1>7. CASE Tick \/ UNCHANGED vars
  BY <1>7 DEF Tick, vars, runVars
<1> QED
  BY <1>2, <1>3, <1>4, <1>5, <1>6, <1>7 DEF Next, StoreNext

(***************************************************************************)
(* A settled run never reopens and takes no further receipt, and the store *)
(* itself adds nothing to its audit.                                       *)
(***************************************************************************)
THEOREM SettledRunsAreFinal == Spec => SettledIsFinal
<1>1. TypeOK /\ [Next]_vars =>
        [\A r \in RunIds : status[r] \in Terminal =>
           /\ UNCHANGED <<status[r], latest[r], events[r], deliveries[r]>>
           /\ \/ UNCHANGED trail[r]
              \/ trail'[r] = Append(trail[r], Row("reconciliationRequired", status[r], status[r]))]_vars
  BY SettledStep
<1> QED
  BY ReservationsTyped, <1>1, PTL DEF Spec, SettledIsFinal

LEMMA CancelStep ==
  ASSUME TypeOK, [Next]_vars, NEW r \in RunIds, status[r] = "cancelRequested"
  PROVE  status'[r] \in {"cancelRequested", "canceled", "failed", "timedOut"}
<1>1. CASE \E q \in Requests : Reserve(q)
  BY <1>1 DEF Reserve, Reserved, TypeOK
<1>2. CASE \E s \in RunIds : RequestCancel(s)
  BY <1>2 DEF RequestCancel, TypeOK
<1>3. CASE \E s \in RunIds, p \in Payloads, d \in DeliveryIds \cup {None} : ApplyEvent(s, p, d)
  BY <1>3 DEF ApplyEvent, Admissible, TypeOK
<1>4. CASE ExpireDue
  BY <1>4 DEF ExpireDue, TypeOK
<1>5. CASE \E s \in RunIds, ext \in ExternalIds : MarkRunning(s, ext)
  BY <1>5 DEF MarkRunning, Startable, Start, TypeOK
<1>6. CASE Tick \/ UNCHANGED vars
  BY <1>6 DEF Tick, vars, runVars
<1> QED
  BY <1>1, <1>2, <1>3, <1>4, <1>5, <1>6 DEF Next, StoreNext

(***************************************************************************)
(* A run whose cancellation was requested neither runs nor succeeds.       *)
(***************************************************************************)
THEOREM CancellationsStick == Spec => CancelSticks
<1>1. TypeOK /\ [Next]_vars =>
        [\A r \in RunIds : status[r] = "cancelRequested" =>
           status'[r] \in {"cancelRequested", "canceled", "failed", "timedOut"}]_vars
  BY CancelStep
<1> QED
  BY ReservationsTyped, <1>1, PTL DEF Spec, CancelSticks

-----------------------------------------------------------------------------
(* A row exists exactly for the requests that were reserved. *)
RowsOwned == \A r \in Reserved : request[r] \in Requests /\ request[r].run = r

KeyInv == TypeOK /\ RowsOwned /\ KeyNamesOneRun

LEMMA KeyStep == KeyInv /\ [Next]_vars => KeyInv'
<1> SUFFICES ASSUME KeyInv, [Next]_vars PROVE KeyInv'
  OBVIOUS
<1>1. TypeOK /\ TypeOK'
  BY TypeStep DEF KeyInv
<1>2. ASSUME NEW q \in Requests, Reserve(q) PROVE RowsOwned' /\ KeyNamesOneRun'
  <2>1. q.run \in RunIds /\ q.run \notin Reserved
    BY <1>2, RequestsAssumption DEF Reserve
  <2>2. /\ request'[q.run] = q /\ Reserved' = Reserved \cup {q.run}
        /\ \A r \in Reserved : request'[r] = request[r]
    BY <1>1, <1>2, <2>1 DEF Reserve, Reserved, TypeOK
  <2>3. \A r \in Reserved : request[r].key # q.key
    BY <1>2 DEF Reserve, KeyUnused
  <2> QED
    BY <2>1, <2>2, <2>3 DEF KeyInv, RowsOwned, KeyNamesOneRun
<1>3. ASSUME Reserved' = Reserved, UNCHANGED request PROVE RowsOwned' /\ KeyNamesOneRun'
  BY <1>3 DEF KeyInv, RowsOwned, KeyNamesOneRun
<1>4. CASE \E s \in RunIds : RequestCancel(s)
  BY <1>1, <1>3, <1>4 DEF KeyInv, RequestCancel, Reserved, TypeOK
<1>5. CASE \E s \in RunIds, p \in Payloads, d \in DeliveryIds \cup {None} : ApplyEvent(s, p, d)
  <2>1. \A p \in Payloads : EventOf(p).status # "none"
    BY PayloadsAssumption DEF EventOf, EventStatuses
  <2>2. Reserved' = Reserved /\ UNCHANGED request
    BY <1>1, <1>5, <2>1 DEF ApplyEvent, Admissible, Reserved, Active, TypeOK
  <2> QED
    BY <1>1, <1>3, <2>2 DEF KeyInv
<1>6. CASE ExpireDue
  BY <1>1, <1>3, <1>6 DEF KeyInv, ExpireDue, Due, ActiveRuns, Active, Reserved, TypeOK
<1>7. CASE \E s \in RunIds, ext \in ExternalIds : MarkRunning(s, ext)
  BY <1>1, <1>3, <1>7 DEF KeyInv, MarkRunning, Startable, Start, Reserved, TypeOK
<1>8. CASE Tick \/ UNCHANGED vars
  BY <1>1, <1>3, <1>8 DEF KeyInv, Tick, vars, runVars, Reserved
<1> QED
  BY <1>1, <1>2, <1>4, <1>5, <1>6, <1>7, <1>8 DEF Next, StoreNext, KeyInv

(***************************************************************************)
(* An idempotency key names one run for ever.                              *)
(***************************************************************************)
THEOREM KeysNameOneRun == Spec => []KeyNamesOneRun
<1>1. Init => KeyInv
  BY InitType DEF Init, KeyInv, RowsOwned, KeyNamesOneRun, Reserved
<1>2. KeyInv => KeyNamesOneRun
  BY DEF KeyInv
<1> QED
  BY <1>1, <1>2, KeyStep, PTL DEF Spec

-----------------------------------------------------------------------------
(* The row's sequence is that of a receipt and no receipt is ahead of it;   *)
(* an outcome only the harness can report is that of the newest receipt.    *)
Newest(r) ==
  /\ \A e \in events[r] : e.seq <= latest[r]
  /\ latest[r] = 0 \/ \E e \in events[r] : e.seq = latest[r]
  /\ status[r] \in {"succeeded", "failed", "canceled"} =>
       \E e \in events[r] : e.seq = latest[r] /\ e.status = status[r]

Unique(r) == \A e, f \in events[r] : e.id = f.id \/ e.seq = f.seq => e = f

Delivered(r) ==
  /\ \A x, y \in deliveries[r] : x.id = y.id => x = y
  /\ \A x \in deliveries[r] : EventOf(x.sha) \in events[r] /\ EventOf(x.sha).id = x.event

ReceiptInv == TypeOK /\ \A r \in RunIds : Newest(r) /\ Unique(r) /\ Delivered(r)

LEMMA ReceiptApply ==
  ASSUME ReceiptInv, NEW s \in RunIds, NEW p \in Payloads, NEW d \in DeliveryIds \cup {None},
         ApplyEvent(s, p, d), NEW r \in RunIds
  PROVE  Newest(r)' /\ Unique(r)' /\ Delivered(r)'
<1> DEFINE e == EventOf(p)
           x == [id |-> d, event |-> e.id, sha |-> p]
<1>1. e.seq \in Nat /\ latest[s] \in Nat /\ e.seq > latest[s]
  BY PayloadsAssumption DEF EventOf, ApplyEvent, Admissible, ReceiptInv, TypeOK
<1>2. CASE r # s
  BY <1>2 DEF ApplyEvent, ReceiptInv, TypeOK, Newest, Unique, Delivered
<1>3. CASE r = s
  <2>1. /\ events'[r] = events[r] \cup {e} /\ latest'[r] = e.seq /\ status'[r] = e.status
        /\ deliveries'[r] = deliveries[r] \cup (IF d = None THEN {} ELSE {x})
    BY <1>3 DEF ApplyEvent, ReceiptInv, TypeOK
  <2>2. \A f \in events[r] : f.seq \in Nat /\ f.seq < e.seq /\ f.id # e.id
    <3> SUFFICES ASSUME NEW f \in events[r]
                 PROVE  f.seq \in Nat /\ f.seq < e.seq /\ f.id # e.id
      OBVIOUS
    <3>1. f.seq \in Nat
      BY PayloadsAssumption DEF ReceiptInv, TypeOK, Events, EventOf
    <3>2. f.seq <= latest[r]
      BY DEF ReceiptInv, Newest
    <3>3. f.id # e.id
      BY <1>3 DEF ApplyEvent, EventKnown
    <3> QED
      BY <1>1, <1>3, <3>1, <3>2, <3>3
  <2>3. d # None => \A y \in deliveries[r] : y.id # d
    BY <1>3 DEF ApplyEvent, DeliveryKnown
  <2>4. x.id = d /\ x.sha = p /\ x.event = e.id
    OBVIOUS
  <2> HIDE DEF x
  <2>5. Delivered(r)'
    BY <2>1, <2>3, <2>4 DEF Delivered, ReceiptInv
  <2> HIDE DEF e
  <2>6. Newest(r)'
    BY <1>1, <2>1, <2>2 DEF Newest
  <2>7. Unique(r)'
    BY <1>1, <2>1, <2>2 DEF Unique, ReceiptInv
  <2> QED
    BY <2>5, <2>6, <2>7
<1> QED
  BY <1>2, <1>3

LEMMA ReceiptStep == ReceiptInv /\ [Next]_vars => ReceiptInv'
<1> SUFFICES ASSUME ReceiptInv, [Next]_vars PROVE ReceiptInv'
  OBVIOUS
<1>1. TypeOK'
  BY TypeStep DEF ReceiptInv
<1>2. CASE \E s \in RunIds, p \in Payloads, d \in DeliveryIds \cup {None} : ApplyEvent(s, p, d)
  BY <1>1, <1>2, ReceiptApply DEF ReceiptInv
<1>3. ASSUME UNCHANGED <<latest, events, deliveries>>,
             \A r \in RunIds : \/ status'[r] = status[r]
                              \/ status'[r] \notin {"succeeded", "failed", "canceled"}
      PROVE  ReceiptInv'
  BY <1>1, <1>3 DEF ReceiptInv, Newest, Unique, Delivered
<1>4. CASE \E q \in Requests : Reserve(q)
  BY <1>3, <1>4 DEF Reserve, ReceiptInv, TypeOK
<1>5. CASE \E s \in RunIds : RequestCancel(s)
  BY <1>3, <1>5 DEF RequestCancel, ReceiptInv, TypeOK
<1>6. CASE ExpireDue
  BY <1>3, <1>6 DEF ExpireDue, ReceiptInv, TypeOK
<1>7. CASE \E s \in RunIds, ext \in ExternalIds : MarkRunning(s, ext)
  BY <1>3, <1>7 DEF MarkRunning, Start, ReceiptInv, TypeOK
<1>8. CASE Tick \/ UNCHANGED vars
  BY <1>3, <1>8 DEF Tick, vars, runVars
<1> QED
  BY <1>2, <1>4, <1>5, <1>6, <1>7, <1>8 DEF Next, StoreNext

LEMMA ReceiptInit == Init => ReceiptInv
BY InitType DEF Init, ReceiptInv, Newest, Unique, Delivered

(***************************************************************************)
(* The store never makes an outcome up: a run is succeeded, failed or      *)
(* canceled only if its newest receipt says so.                            *)
(***************************************************************************)
THEOREM OutcomesEvidenced == Spec => []OutcomeIsEvidenced
<1>1. ReceiptInv => OutcomeIsEvidenced
  BY DEF ReceiptInv, Newest, OutcomeIsEvidenced
<1> QED
  BY ReceiptInit, ReceiptStep, <1>1, PTL DEF Spec

(***************************************************************************)
(* The receipts of a run are unique and ordered, the row names the newest, *)
(* and every delivery on record is on record with its event.               *)
(***************************************************************************)
THEOREM ReceiptsConsistent == Spec => []ReceiptsAgree
<1>1. ReceiptInv => ReceiptsAgree
  <2> SUFFICES ASSUME ReceiptInv, NEW r \in RunIds
               PROVE  latest[r] = Max({e.seq : e \in events[r]} \cup {0})
    BY DEF ReceiptInv, Unique, Delivered, ReceiptsAgree
  <2> DEFINE S == {e.seq : e \in events[r]} \cup {0}
  <2>1. latest[r] \in Nat /\ S \subseteq Nat
    <3>1. latest[r] \in Nat /\ events[r] \subseteq Events
      BY DEF ReceiptInv, TypeOK
    <3>2. \A e \in Events : e.seq \in Nat
      BY PayloadsAssumption DEF Events, EventOf
    <3> QED
      BY <3>1, <3>2
  <2>2. latest[r] \in S /\ \A y \in S : latest[r] >= y
    BY <2>1 DEF ReceiptInv, Newest
  <2> HIDE DEF S
  <2>3. \A x \in S : (\A y \in S : x >= y) => x = latest[r]
    BY <2>1, <2>2
  <2>4. Max(S) = latest[r]
    BY <2>2, <2>3 DEF Max
  <2> QED
    BY <2>4 DEF S
<1> QED
  BY ReceiptInit, ReceiptStep, <1>1, PTL DEF Spec

-----------------------------------------------------------------------------
(* The quota: what the active runs hold is a sum over a finite set of rows. *)
QuotaInv == KeyInv /\ IsFiniteSet(ActiveRuns) /\ QuotaHeld

Costs(S) == [r \in S |-> request[r].cost]

LEMMA QuotaOfActive ==
  /\ QuotaHeld <=> Cardinality(ActiveRuns) <= MaxActive /\ ReservedCost <= MaxCost
  /\ ReservedCost = SumFunctionOnSet(Costs(ActiveRuns), ActiveRuns)
BY DEF QuotaHeld, ReservedCost, ActiveRuns, Active, SumFunction, Costs

LEMMA CostsOfRows ==
  ASSUME KeyInv, NEW r \in ActiveRuns
  PROVE  r \in RunIds /\ r \in Reserved /\ request[r].cost \in Nat
BY RequestsAssumption DEF KeyInv, RowsOwned, ActiveRuns, Reserved, Active

(* Runs that settle give their share of the quota back.                     *)
LEMMA QuotaFewer ==
  ASSUME QuotaInv, ActiveRuns' \subseteq ActiveRuns, UNCHANGED request
  PROVE  IsFiniteSet(ActiveRuns)' /\ QuotaHeld'
<1> DEFINE f == Costs(ActiveRuns)
           g == Costs(ActiveRuns)'
<1>1. IsFiniteSet(ActiveRuns) /\ \A r \in ActiveRuns : f[r] \in Nat
  BY CostsOfRows DEF QuotaInv, Costs
<1>2. IsFiniteSet(ActiveRuns') /\ Cardinality(ActiveRuns') <= Cardinality(ActiveRuns)
  BY <1>1, FS_Subset
<1>3. \A r \in ActiveRuns' : g[r] = f[r]
  BY DEF Costs
<1> HIDE DEF f, g
<1>4. SumFunctionOnSet(g, ActiveRuns') = SumFunctionOnSet(f, ActiveRuns')
  BY <1>1, <1>2, <1>3, SumSame
<1>5. /\ SumFunctionOnSet(f, ActiveRuns') \in Nat /\ SumFunctionOnSet(f, ActiveRuns) \in Nat
      /\ SumFunctionOnSet(f, ActiveRuns') <= SumFunctionOnSet(f, ActiveRuns)
  BY <1>1, SumSubset
<1>6. /\ Cardinality(ActiveRuns) <= MaxActive /\ SumFunctionOnSet(f, ActiveRuns) <= MaxCost
      /\ Cardinality(ActiveRuns) \in Nat /\ Cardinality(ActiveRuns') \in Nat
  BY <1>1, <1>2, QuotaOfActive, FS_CardinalityType DEF QuotaInv, f
<1>7. QuotaHeld' <=> Cardinality(ActiveRuns') <= MaxActive /\ SumFunctionOnSet(g, ActiveRuns') <= MaxCost
  BY DEF QuotaHeld, ActiveRuns, Active, SumFunction, Costs, g
<1> QED
  BY <1>2, <1>4, <1>5, <1>6, <1>7, BoundsAssumption

(* A reserve adds one run to them, and its cost, within both limits.        *)
LEMMA QuotaReserve ==
  ASSUME QuotaInv, NEW q \in Requests, Reserve(q)
  PROVE  IsFiniteSet(ActiveRuns)' /\ QuotaHeld'
<1> DEFINE f == Costs(ActiveRuns)
           g == Costs(ActiveRuns)'
<1>1. IsFiniteSet(ActiveRuns) /\ \A r \in ActiveRuns : f[r] \in Nat
  BY CostsOfRows DEF QuotaInv, Costs
<1>2. q.run \in RunIds /\ q.cost \in Nat /\ q.run \notin Reserved
  BY RequestsAssumption DEF Reserve
<1>3. q.run \notin ActiveRuns
  BY <1>2 DEF ActiveRuns, Reserved, Active
<1>4. ActiveRuns' = ActiveRuns \cup {q.run}
  BY <1>2 DEF Reserve, ActiveRuns, Active, QuotaInv, KeyInv, TypeOK
<1>5. g[q.run] = q.cost /\ \A r \in ActiveRuns : g[r] = f[r]
  BY <1>2, <1>3, <1>4 DEF Reserve, QuotaInv, KeyInv, TypeOK, Costs, ActiveRuns
<1> HIDE DEF f, g
<1>6. /\ IsFiniteSet(ActiveRuns') /\ Cardinality(ActiveRuns') = Cardinality(ActiveRuns) + 1
      /\ Cardinality(ActiveRuns) \in Nat
  BY <1>1, <1>3, <1>4, FS_AddElement, FS_CardinalityType
<1>7. SumFunctionOnSet(g, ActiveRuns') = SumFunctionOnSet(g, ActiveRuns) + g[q.run]
  <2>1. \A r \in ActiveRuns \cup {q.run} : g[r] \in Int
    BY <1>1, <1>2, <1>5
  <2> QED
    BY <1>1, <1>3, <1>4, <2>1, SumAdd
<1>8. SumFunctionOnSet(g, ActiveRuns) = SumFunctionOnSet(f, ActiveRuns)
  BY <1>1, <1>5, SumSame
<1>9. Cardinality(ActiveRuns) < MaxActive /\ SumFunctionOnSet(f, ActiveRuns) + q.cost <= MaxCost
  BY QuotaOfActive DEF Reserve, HasQuota, f
<1>10. QuotaHeld' <=> Cardinality(ActiveRuns') <= MaxActive /\ SumFunctionOnSet(g, ActiveRuns') <= MaxCost
  BY DEF QuotaHeld, ActiveRuns, Active, SumFunction, Costs, g
<1> QED
  BY <1>5, <1>6, <1>7, <1>8, <1>9, <1>10, BoundsAssumption

LEMMA QuotaStep == QuotaInv /\ [Next]_vars => QuotaInv'
<1> SUFFICES ASSUME QuotaInv, [Next]_vars PROVE QuotaInv'
  OBVIOUS
<1>1. KeyInv' /\ TypeOK
  BY KeyStep DEF QuotaInv, KeyInv
<1>2. CASE \E q \in Requests : Reserve(q)
  BY <1>1, <1>2, QuotaReserve DEF QuotaInv
<1>3. ASSUME UNCHANGED request, \A r \in RunIds : status'[r] \in Active => status[r] \in Active
      PROVE  QuotaInv'
  BY <1>1, <1>3, QuotaFewer DEF QuotaInv, ActiveRuns
<1>4. CASE \E s \in RunIds : RequestCancel(s)
  BY <1>1, <1>3, <1>4 DEF RequestCancel, TypeOK, Active
<1>5. CASE \E s \in RunIds, p \in Payloads, d \in DeliveryIds \cup {None} : ApplyEvent(s, p, d)
  BY <1>1, <1>3, <1>5 DEF ApplyEvent, Admissible, TypeOK
<1>6. CASE ExpireDue
  BY <1>1, <1>3, <1>6 DEF ExpireDue, TypeOK, Active
<1>7. CASE \E s \in RunIds, ext \in ExternalIds : MarkRunning(s, ext)
  BY <1>1, <1>3, <1>7 DEF MarkRunning, Startable, Start, TypeOK, Active
<1>8. CASE Tick \/ UNCHANGED vars
  BY <1>3, <1>8 DEF Tick, vars, runVars
<1> QED
  BY <1>2, <1>4, <1>5, <1>6, <1>7, <1>8 DEF Next, StoreNext

LEMMA QuotaInit == Init => QuotaInv
<1> SUFFICES ASSUME Init PROVE QuotaInv
  OBVIOUS
<1>1. ActiveRuns = {}
  BY DEF Init, ActiveRuns, Active
<1>2. KeyInv
  BY InitType DEF Init, KeyInv, RowsOwned, KeyNamesOneRun, Reserved
<1> QED
  BY <1>1, <1>2, QuotaOfActive, SumEmpty, FS_EmptySet, BoundsAssumption DEF QuotaInv

(***************************************************************************)
(* The active runs never exceed the tenant's limits on their number and on *)
(* their cost, in whatever order runs are reserved, settle and expire.     *)
(***************************************************************************)
THEOREM QuotaAlwaysHeld == Spec => []QuotaHeld
<1>1. QuotaInv => QuotaHeld
  BY DEF QuotaInv
<1> QED
  BY <1>1, QuotaInit, QuotaStep, PTL DEF Spec
-----------------------------------------------------------------------------
(* The audit: every step of a run appends one row that continues the chain. *)
Applied(t) == {i \in 1 .. Len(t) : t[i].action = "eventApplied"}

Explained(r) ==
  /\ trail[r] # <<>> /\ trail[r][Len(trail[r])].to = status[r]
  /\ \A i \in 1 .. Len(trail[r]) - 1 : trail[r][i + 1].from \in {trail[r][i].to, None}

AuditOf(r) ==
  /\ IsFiniteSet(events[r])
  /\ Cardinality(Applied(trail[r])) = Cardinality(events[r])
  /\ IF status[r] = "none" THEN trail[r] = <<>> ELSE Explained(r)

AuditInv == TypeOK /\ \A r \in RunIds : AuditOf(r)

(* The rows of a trail that record one kind of action. *)
RowsOf(t, kind) == {i \in 1 .. Len(t) : t[i].action = kind}

LEMMA RowsFinite ==
  ASSUME NEW t \in Seq(AuditRows), NEW kind
  PROVE  IsFiniteSet(RowsOf(t, kind)) /\ Cardinality(RowsOf(t, kind)) \in Nat
<1>1. Len(t) \in Int /\ IsFiniteSet(1 .. Len(t))
  BY FS_Interval
<1> QED
  BY <1>1, FS_Subset, FS_CardinalityType DEF RowsOf

(* A row more is counted when it is of that kind. *)
LEMMA RowsAppend ==
  ASSUME NEW t \in Seq(AuditRows), NEW row \in AuditRows, NEW kind
  PROVE  Cardinality(RowsOf(Append(t, row), kind)) =
           Cardinality(RowsOf(t, kind)) + IF row.action = kind THEN 1 ELSE 0
<1> DEFINE n == Len(t) + 1
           u == Append(t, row)
<1>1. n \in Nat /\ Len(u) = n /\ u[n] = row /\ \A i \in 1 .. Len(t) : u[i] = t[i]
  OBVIOUS
<1>2. n \notin RowsOf(t, kind)
  BY DEF RowsOf
<1>3. RowsOf(u, kind) = IF row.action = kind THEN RowsOf(t, kind) \cup {n} ELSE RowsOf(t, kind)
  <2> HIDE DEF u
  <2>1. \A i \in 1 .. n : i \in 1 .. Len(t) \/ i = n
    BY <1>1
  <2>2. 1 .. Len(t) \subseteq 1 .. n /\ n \in 1 .. n
    BY <1>1
  <2> HIDE DEF n
  <2> QED
    BY <1>1, <2>1, <2>2 DEF RowsOf
<1>4. IsFiniteSet(RowsOf(t, kind)) /\ Cardinality(RowsOf(t, kind)) \in Nat
  BY RowsFinite
<1>5. Cardinality(RowsOf(t, kind) \cup {n}) = Cardinality(RowsOf(t, kind)) + 1
  BY <1>2, <1>4, FS_AddElement
<1>6. CASE row.action = kind
  <2>1. RowsOf(u, kind) = RowsOf(t, kind) \cup {n}
    BY <1>3, <1>6
  <2> QED
    BY <1>5, <1>6, <2>1
<1>7. CASE row.action # kind
  <2>1. RowsOf(u, kind) = RowsOf(t, kind)
    BY <1>3, <1>7
  <2> QED
    BY <1>4, <1>7, <2>1
<1> QED
  BY <1>6, <1>7

LEMMA AppliedAppend ==
  ASSUME NEW t \in Seq(AuditRows), NEW row \in AuditRows
  PROVE  /\ IsFiniteSet(Applied(t)) /\ Cardinality(Applied(t)) \in Nat
         /\ Cardinality(Applied(Append(t, row))) =
              Cardinality(Applied(t)) + IF row.action = "eventApplied" THEN 1 ELSE 0
BY RowsFinite, RowsAppend DEF Applied, RowsOf

LEMMA AuditAppend ==
  ASSUME AuditInv, NEW r \in RunIds, NEW row \in AuditRows,
         trail'[r] = Append(trail[r], row), row.to = status'[r], status'[r] # "none",
         status[r] = "none" \/ row.from \in {status[r], None},
         \/ row.action # "eventApplied" /\ UNCHANGED events[r]
         \/ row.action = "eventApplied" /\ \E e : e \notin events[r] /\ events'[r] = events[r] \cup {e}
  PROVE  AuditOf(r)'
<1> DEFINE t == trail[r]
           u == trail'[r]
<1>1. t \in Seq(AuditRows) /\ IsFiniteSet(events[r]) /\ Cardinality(Applied(t)) = Cardinality(events[r])
  BY DEF AuditInv, TypeOK, AuditOf
<1>2. /\ Cardinality(Applied(t)) \in Nat
      /\ Cardinality(Applied(u)) = Cardinality(Applied(t)) + IF row.action = "eventApplied" THEN 1 ELSE 0
  BY <1>1, AppliedAppend
<1>3. IsFiniteSet(events'[r]) /\ Cardinality(Applied(u)) = Cardinality(events'[r])
  <2>1. CASE row.action # "eventApplied" /\ UNCHANGED events[r]
    BY <1>1, <1>2, <2>1
  <2>2. ASSUME row.action = "eventApplied",
               NEW e, e \notin events[r], events'[r] = events[r] \cup {e}
        PROVE  IsFiniteSet(events'[r]) /\ Cardinality(Applied(u)) = Cardinality(events'[r])
    <3>1. IsFiniteSet(events'[r]) /\ Cardinality(events'[r]) = Cardinality(events[r]) + 1
      BY <1>1, <2>2, FS_AddElement
    <3> QED
      BY <1>1, <1>2, <2>2, <3>1
  <2> QED
    BY <2>1, <2>2
<1>4. u # <<>> /\ u[Len(u)] = row /\ Len(u) = Len(t) + 1 /\ \A i \in 1 .. Len(t) : u[i] = t[i]
  BY <1>1
<1>5. ASSUME NEW i \in 1 .. Len(t) PROVE u[i + 1].from \in {u[i].to, None}
  <2>1. Len(t) \in Nat /\ Explained(r)
    BY <1>1, <1>5 DEF AuditInv, AuditOf
  <2>2. CASE i = Len(t)
    BY <1>4, <2>1, <2>2 DEF Explained, AuditInv, AuditOf
  <2>3. CASE i # Len(t)
    <3>1. i \in 1 .. Len(t) - 1 /\ i + 1 \in 1 .. Len(t)
      BY <2>1, <2>3
    <3> QED
      BY <1>4, <2>1, <3>1 DEF Explained
  <2> QED
    BY <2>2, <2>3
<1>6. Explained(r)'
  <2>1. Len(u) - 1 = Len(t)
    BY <1>1, <1>4
  <2> QED
    BY <1>4, <1>5, <2>1 DEF Explained
<1> QED
  BY <1>3, <1>6 DEF AuditOf

(* An operation that appends to the trail of one run leaves the others alone. *)
LEMMA AuditOthers ==
  ASSUME AuditInv, NEW s \in RunIds, NEW a, NEW f, NEW t, Audit(s, a, f, t),
         NEW r \in RunIds, r # s, UNCHANGED <<status[r], events[r]>>
  PROVE  AuditOf(r)'
<1>1. UNCHANGED trail[r]
  BY DEF AuditInv, TypeOK, Audit
<1> QED
  BY <1>1 DEF AuditInv, AuditOf, Explained

LEMMA AuditStep == AuditInv /\ [Next]_vars => AuditInv'
<1> SUFFICES ASSUME AuditInv, [Next]_vars PROVE AuditInv'
  OBVIOUS
<1> USE DEF Row
<1>1. TypeOK /\ TypeOK' /\ "none" \notin Statuses
  BY TypeStep DEF AuditInv, Statuses, Active, Terminal
<1>2. \A a \in AuditKinds, f \in Statuses \cup {None}, t \in Statuses : Row(a, f, t) \in AuditRows
  BY DEF AuditRows
<1>3. ASSUME NEW s \in RunIds, NEW a \in AuditKinds \ {"eventApplied"},
             NEW f \in Statuses \cup {None}, NEW t \in Statuses, Audit(s, a, f, t),
             status' = [status EXCEPT ![s] = t], status[s] = "none" \/ f \in {status[s], None},
             UNCHANGED events
      PROVE  AuditInv'
  <2>1. Row(a, f, t) \in AuditRows /\ trail'[s] = Append(trail[s], Row(a, f, t)) /\ status'[s] = t
    BY <1>1, <1>2, <1>3 DEF Audit, TypeOK
  <2>2. AuditOf(s)'
    BY <1>1, <1>3, <2>1, AuditAppend
  <2>3. \A r \in RunIds : r # s => AuditOf(r)'
    BY <1>1, <1>3, AuditOthers DEF TypeOK
  <2> QED
    BY <1>1, <2>2, <2>3 DEF AuditInv
<1>4. CASE \E q \in Requests : Reserve(q)
  BY <1>3, <1>4, RequestsAssumption DEF Reserve, AuditKinds, Statuses, Active, Reserved
<1>5. CASE \E s \in RunIds : RequestCancel(s)
  BY <1>3, <1>5 DEF RequestCancel, AuditKinds, Statuses, Active
<1>6. CASE \E s \in RunIds, ext \in ExternalIds : MarkRunning(s, ext)
  BY <1>3, <1>6 DEF MarkRunning, Startable, Start, AuditKinds, Statuses, Active
<1>7. ASSUME NEW s \in RunIds, NEW p \in Payloads, NEW d \in DeliveryIds \cup {None},
             ApplyEvent(s, p, d)
      PROVE  AuditInv'
  <2> DEFINE e == EventOf(p)
             row == Row("eventApplied", status[s], e.status)
  <2>1. e.status \in Statuses /\ status[s] \in Statuses
    BY <1>7, PayloadsAssumption DEF EventOf, EventStatuses, Statuses, Active, Terminal, ApplyEvent, Admissible
  <2>2. row \in AuditRows
    BY <1>2, <2>1 DEF AuditKinds
  <2>3. /\ Audit(s, "eventApplied", status[s], e.status)
        /\ trail'[s] = Append(trail[s], row) /\ status'[s] = e.status
        /\ e \notin events[s] /\ events'[s] = events[s] \cup {e}
        /\ \A r \in RunIds : r # s => UNCHANGED <<status[r], events[r]>>
    BY <1>1, <1>7 DEF ApplyEvent, EventKnown, Audit, TypeOK
  <2> HIDE DEF e
  <2>4. AuditOf(s)'
    BY <1>1, <2>1, <2>2, <2>3, AuditAppend
  <2>5. \A r \in RunIds : r # s => AuditOf(r)'
    BY <2>3, AuditOthers
  <2> QED
    BY <1>1, <2>4, <2>5 DEF AuditInv
<1>8. CASE ExpireDue
  <2> SUFFICES ASSUME NEW r \in RunIds PROVE AuditOf(r)'
    BY <1>1 DEF AuditInv
  <2> DEFINE row == Row("expired", None, "timedOut")
  <2>1. row \in AuditRows
    BY <1>2 DEF AuditKinds, Statuses, Terminal
  <2>2. \/ /\ trail'[r] = Append(trail[r], row) /\ status'[r] = "timedOut"
           /\ UNCHANGED events[r]
        \/ UNCHANGED <<trail[r], status[r], events[r]>>
    BY <1>1, <1>8 DEF ExpireDue, TypeOK
  <2>3. CASE trail'[r] = Append(trail[r], row) /\ status'[r] = "timedOut" /\ UNCHANGED events[r]
    BY <2>1, <2>3, AuditAppend
  <2>4. CASE UNCHANGED <<trail[r], status[r], events[r]>>
    BY <2>4 DEF AuditInv, AuditOf, Explained
  <2> QED
    BY <2>2, <2>3, <2>4
<1>9. CASE Tick \/ UNCHANGED vars
  BY <1>1, <1>9 DEF Tick, vars, runVars, AuditInv, AuditOf, Explained
<1> QED
  BY <1>4, <1>5, <1>6, <1>7, <1>8, <1>9 DEF Next, StoreNext

LEMMA AuditInit == Init => AuditInv
<1>1. Applied(<<>>) = {}
  BY DEF Applied
<1> QED
  BY <1>1, InitType, FS_EmptySet DEF Init, AuditInv, AuditOf

(***************************************************************************)
(* The audit of a run is a chain that ends in its status, with exactly one *)
(* eventApplied row per receipt.                                           *)
(***************************************************************************)
THEOREM AuditsExplain == Spec => []AuditExplains
<1>1. AuditInv => AuditExplains
  BY DEF AuditInv, AuditOf, Explained, Applied, AuditExplains, Reserved, Quantify
<1> QED
  BY <1>1, AuditInit, AuditStep, PTL DEF Spec

-----------------------------------------------------------------------------
(* The store with its ingress: every step of the whole is one of the store  *)
(* or leaves the store alone, so the theorems above hold of it as well.     *)
LEMMA IngressStepOfStore == [IngressNext]_ingressVars => [Next]_vars
BY DEF IngressNext, ingressVars, OtherCalls, Deliver, Accept, Quarantine, PurgeExpired,
       Next, StoreNext

(***************************************************************************)
(* The store behind the signed ingress is the store: a delivery can do to  *)
(* it nothing that the store's own operations do not do.                   *)
(***************************************************************************)
THEOREM IngressKeepsStore == IngressSpec => Spec
<1>1. IngressInit => Init
  BY DEF IngressInit
<1> QED
  BY <1>1, IngressStepOfStore, PTL DEF IngressSpec, Spec

LEMMA IngressTypeStep == IngressTypeOK /\ [IngressNext]_ingressVars => IngressTypeOK'
<1> SUFFICES ASSUME IngressTypeOK, [IngressNext]_ingressVars PROVE IngressTypeOK'
  OBVIOUS
<1>1. TypeOK'
  BY TypeStep, IngressStepOfStore DEF IngressTypeOK
<1> SUFFICES quarantine' \in [RunIds -> SUBSET Rejections]
  BY <1>1 DEF IngressTypeOK
<1>2. ASSUME NEW r \in RunIds, NEW d \in DeliveryIds, NEW body \in Malformed, Quarantine(r, d, body)
      PROVE  quarantine' \in [RunIds -> SUBSET Rejections]
  <2>1. \A at \in Readings : [id |-> d, sha |-> body, expires |-> at + RetentionDays[r]] \in Rejections
    BY ReadingsType, IngressAssumption DEF Rejections, IngressTypeOK, TypeOK
  <2> QED
    BY <1>2, <2>1 DEF Quarantine, IngressTypeOK
<1>3. CASE PurgeExpired
  BY <1>3 DEF PurgeExpired, IngressTypeOK
<1>4. CASE UNCHANGED quarantine
  BY <1>4 DEF IngressTypeOK
<1> QED
  BY <1>2, <1>3, <1>4 DEF IngressNext, OtherCalls, Deliver, Accept, ingressVars

(***************************************************************************)
(* The rows of the quarantine, and those of the store beside it, always    *)
(* have the types the schema gives them.                                   *)
(***************************************************************************)
THEOREM IngressTyped == IngressSpec => []IngressTypeOK
<1>1. IngressInit => IngressTypeOK
  BY InitType DEF IngressInit, IngressTypeOK
<1> QED
  BY <1>1, IngressTypeStep, PTL DEF IngressSpec

LEMMA VerdictStep ==
  ASSUME IngressTypeOK, [IngressNext]_ingressVars, NEW r \in RunIds
  PROVE  /\ \A x \in quarantine'[r] \ quarantine[r] : ~DeliveryKnown(r, x.id)
         /\ \A x \in quarantine[r] \ quarantine'[r] : x.expires <= now
<1>1. ASSUME NEW s \in RunIds, NEW d \in DeliveryIds, NEW body \in Malformed, Quarantine(s, d, body)
      PROVE  /\ \A x \in quarantine'[r] \ quarantine[r] : ~DeliveryKnown(r, x.id)
             /\ quarantine[r] \subseteq quarantine'[r]
  BY <1>1 DEF Quarantine, Retainable, IngressTypeOK
<1>2. CASE PurgeExpired
  <2>1. PICK at \in Readings : quarantine' = [s \in RunIds |-> {x \in quarantine[s] : x.expires > at}]
    BY <1>2 DEF PurgeExpired
  <2>2. at \in Nat /\ at <= now /\ now \in Nat
    BY ReadingsType DEF IngressTypeOK, TypeOK
  <2>3. \A x \in quarantine[r] : x.expires \in Nat
    BY DEF IngressTypeOK, Rejections
  <2> QED
    BY <2>1, <2>2, <2>3
<1>3. CASE UNCHANGED quarantine
  BY <1>3
<1> QED
  BY <1>1, <1>2, <1>3 DEF IngressNext, OtherCalls, Deliver, Accept, ingressVars

(***************************************************************************)
(* An accepted delivery is never put into the quarantine, with whatever    *)
(* body it comes again, and a rejection is not removed before it expires.  *)
(***************************************************************************)
THEOREM VerdictsAreFinal == IngressSpec => VerdictsStand
<1>1. IngressTypeOK /\ [IngressNext]_ingressVars =>
        [\A r \in RunIds :
           /\ \A x \in quarantine'[r] \ quarantine[r] : ~DeliveryKnown(r, x.id)
           /\ \A x \in quarantine[r] \ quarantine'[r] : x.expires <= now]_ingressVars
  BY VerdictStep
<1> QED
  BY IngressTyped, <1>1, PTL DEF IngressSpec, VerdictsStand
=============================================================================
