------------------------- MODULE HarnessReservations -------------------------
(***************************************************************************)
(* The durable store of test runs reserved for a customer's harness        *)
(* (server/harness/invocation-reservations.ts, tables of 0015 and 0016).   *)
(*                                                                         *)
(* One tenant and one adapter: every statement of the store selects by     *)
(* organization_id, so tenants share nothing but the code.  Each operation *)
(* is one database transaction that locks the run's row (or the tenant's)  *)
(* before it reads, so it is one action.  Calls that change nothing, the   *)
(* replays and the refusals, are stuttering steps.                         *)
(***************************************************************************)
EXTENDS Integers, Sequences, FiniteSets, FiniteSetsExt

CONSTANTS
  RunIds,       \* the run ids callers may choose
  Requests,     \* the validated requests they submit; a request is its digest
  Payloads,     \* the signed bodies the harness may deliver; a body is its sha256
  DeliveryIds,  \* the delivery ids those bodies may arrive under
  ExternalIds,  \* the run ids the customer's harness hands out
  MaxActive,    \* limits.maxActive
  MaxCost,      \* limits.maxReservedCostUsd, in micro-dollars
  MaxTime,      \* bound of the model on the clock
  Lag,          \* how far behind the true time a reading can be when it is used
  None          \* the SQL null

Active   == {"queued", "running", "cancelRequested"}
Terminal == {"succeeded", "failed", "timedOut", "canceled"}
Statuses == Active \cup Terminal

ASSUME BoundsAssumption ==
  /\ MaxActive \in Nat \ {0}
  /\ MaxCost \in Nat
  /\ MaxTime \in Nat
  /\ Lag \in Nat

ASSUME RequestsAssumption ==
  \A q \in Requests : /\ q.run \in RunIds
                      /\ q.cost \in Nat \ {0}
                      /\ q.duration \in Nat \ {0}

ASSUME NoneAssumption ==
  None \notin Requests /\ None \notin ExternalIds /\ None \notin DeliveryIds

EventStatuses == {"running", "succeeded", "failed", "timedOut", "canceled"}

(***************************************************************************)
(* A payload is [id, seq, status, form]: two bodies that differ only in    *)
(* form carry the same event but have different digests.                   *)
(***************************************************************************)
ASSUME PayloadsAssumption ==
  \A p \in Payloads : p.seq \in Nat \ {0} /\ p.status \in EventStatuses

VARIABLES
  now,         \* the most advanced clock of the processes
  status,      \* status of each run's row, "none" while there is no row
  request,     \* the request digest, cost, key and duration of the row
  deadline,    \* deadline_at
  external,    \* external_run_id
  latest,      \* latest_event_sequence
  events,      \* harness_eval_events of the run
  deliveries,  \* harness_eval_deliveries of the run
  trail        \* harness_eval_transitions of the run, oldest first

runVars == <<status, request, deadline, external, latest, events, deliveries, trail>>
vars    == <<now, runVars>>

EventOf(p) == [id |-> p.id, seq |-> p.seq, status |-> p.status]
Events     == {EventOf(p) : p \in Payloads}
Deliveries == [id : DeliveryIds, event : {e.id : e \in Events}, sha : Payloads]
AuditKinds == {"reserved", "started", "cancelRequested", "eventApplied", "expired",
               "dispatchStarted", "reconciliationRequired"}
AuditRows  == [action : AuditKinds, from : Statuses \cup {None}, to : Statuses]

TypeOK ==
  /\ now \in Nat
  /\ status \in [RunIds -> Statuses \cup {"none"}]
  /\ request \in [RunIds -> Requests \cup {None}]
  /\ deadline \in [RunIds -> Nat]
  /\ external \in [RunIds -> ExternalIds \cup {None}]
  /\ latest \in [RunIds -> Nat]
  /\ events \in [RunIds -> SUBSET Events]
  /\ deliveries \in [RunIds -> SUBSET Deliveries]
  /\ trail \in [RunIds -> Seq(AuditRows)]

Init ==
  /\ now = 0
  /\ status = [r \in RunIds |-> "none"]
  /\ request = [r \in RunIds |-> None]
  /\ deadline = [r \in RunIds |-> 0]
  /\ external = [r \in RunIds |-> None]
  /\ latest = [r \in RunIds |-> 0]
  /\ events = [r \in RunIds |-> {}]
  /\ deliveries = [r \in RunIds |-> {}]
  /\ trail = [r \in RunIds |-> <<>>]

-----------------------------------------------------------------------------
(* A process reads its clock, then may wait for a lock before it uses it. *)
Readings == {at \in 0 .. now : now - at <= Lag}

Row(action, from, to) == [action |-> action, from |-> from, to |-> to]
Audit(r, action, from, to) ==
  trail' = [trail EXCEPT ![r] = Append(@, Row(action, from, to))]

Reserved     == {r \in RunIds : status[r] # "none"}
ActiveRuns   == {r \in RunIds : status[r] \in Active}
ReservedCost == SumFunction([r \in ActiveRuns |-> request[r].cost])

KeyUnused(q) == \A r \in Reserved : request[r].key # q.key

(* Mutant: the active runs are compared with the cap after the insert. *)
HasQuotaOffByOne(q) ==
  /\ Cardinality(ActiveRuns) <= MaxActive
  /\ ReservedCost + q.cost <= MaxCost

HasQuota(q) ==
  /\ Cardinality(ActiveRuns) < MaxActive
  /\ ReservedCost + q.cost <= MaxCost

(* A key or a run id seen before is a replay or a conflict: nothing changes. *)
Reserve(q) ==
  /\ KeyUnused(q)
  /\ q.run \notin Reserved
  /\ HasQuota(q)
  /\ \E at \in Readings : deadline' = [deadline EXCEPT ![q.run] = at + q.duration]
  /\ status' = [status EXCEPT ![q.run] = "queued"]
  /\ request' = [request EXCEPT ![q.run] = q]
  /\ Audit(q.run, "reserved", None, "queued")
  /\ UNCHANGED <<now, external, latest, events, deliveries>>

(* The row is queued and its deadline is ahead of the caller's reading. *)
Startable(r, at) == status[r] = "queued" /\ at < deadline[r]

Start(r, ext) ==
  /\ status' = [status EXCEPT ![r] = "running"]
  /\ external' = [external EXCEPT ![r] = ext]
  /\ Audit(r, "started", "queued", "running")
  /\ UNCHANGED <<request, deadline, latest, events, deliveries>>

MarkRunning(r, ext) ==
  /\ \E at \in Readings : Startable(r, at)
  /\ Start(r, ext)
  /\ UNCHANGED now

(* Mutant: a missing row is not refused. *)
RequestCancelUnchecked(r) ==
  /\ status[r] \notin Terminal \cup {"cancelRequested"}
  /\ status' = [status EXCEPT ![r] = "cancelRequested"]
  /\ Audit(r, "cancelRequested", status[r], "cancelRequested")
  /\ UNCHANGED <<now, request, deadline, external, latest, events, deliveries>>

(* Mutant: a run nobody started is canceled outright. *)
RequestCancelOutright(r) ==
  /\ status[r] \in {"queued", "running"}
  /\ status' = [status EXCEPT ![r] = IF @ = "queued" THEN "canceled" ELSE "cancelRequested"]
  /\ Audit(r, "cancelRequested", status[r], status'[r])
  /\ UNCHANGED <<now, request, deadline, external, latest, events, deliveries>>

(* Mutant: the audited origin is a literal, as it is in the dispatch queue. *)
RequestCancelFromQueued(r) ==
  /\ status[r] \in {"queued", "running"}
  /\ status' = [status EXCEPT ![r] = "cancelRequested"]
  /\ Audit(r, "cancelRequested", "queued", "cancelRequested")
  /\ UNCHANGED <<now, request, deadline, external, latest, events, deliveries>>

RequestCancel(r) ==
  /\ status[r] \in {"queued", "running"}
  /\ status' = [status EXCEPT ![r] = "cancelRequested"]
  /\ Audit(r, "cancelRequested", status[r], "cancelRequested")
  /\ UNCHANGED <<now, request, deadline, external, latest, events, deliveries>>

-----------------------------------------------------------------------------
(* A delivery id is known: replayed, or refused as delivery_conflict. *)
DeliveryKnown(r, d) == \E x \in deliveries[r] : x.id = d

(* An event id is known: replayed, or refused as event_conflict. *)
EventKnown(r, e) == \E x \in events[r] : x.id = e.id

(* Mutant: a receipt for a settled run is not refused as late. *)
AdmissibleLate(r, e) ==
  /\ status[r] # "none"
  /\ e.seq > latest[r]
  /\ status[r] = "cancelRequested" => e.status \in {"canceled", "timedOut", "failed"}
  /\ status[r] = "queued" => e.status # "canceled"

(* Mutant: receipts apply in the order they arrive. *)
AdmissibleUnordered(r, e) ==
  /\ status[r] \in Active
  /\ status[r] = "cancelRequested" => e.status \in {"canceled", "timedOut", "failed"}
  /\ status[r] = "queued" => e.status # "canceled"

(* Mutant: a success that races a cancellation is accepted. *)
AdmissibleCancelRace(r, e) ==
  /\ status[r] \in Active
  /\ e.seq > latest[r]
  /\ status[r] = "queued" => e.status # "canceled"

(* late_event, out_of_order, cancel_race and invalid_transition. *)
Admissible(r, e) ==
  /\ status[r] \in Active
  /\ e.seq > latest[r]
  /\ status[r] = "cancelRequested" => e.status \in {"canceled", "timedOut", "failed"}
  /\ status[r] = "queued" => e.status # "canceled"

(* A direct call names no delivery; a signed one names its id and digest. *)
ApplyEvent(r, p, d) ==
  LET e == EventOf(p) IN
  /\ d # None => ~DeliveryKnown(r, d)
  /\ ~EventKnown(r, e)
  /\ Admissible(r, e)
  /\ deliveries' = [deliveries EXCEPT ![r] =
       @ \cup (IF d = None THEN {} ELSE {[id |-> d, event |-> e.id, sha |-> p]})]
  /\ events' = [events EXCEPT ![r] = @ \cup {e}]
  /\ status' = [status EXCEPT ![r] = e.status]
  /\ latest' = [latest EXCEPT ![r] = e.seq]
  /\ Audit(r, "eventApplied", status[r], e.status)
  /\ UNCHANGED <<now, request, deadline, external>>

(* One sweep expires every active run whose deadline the reading has reached. *)
Due(at) == {r \in ActiveRuns : deadline[r] <= at}

ExpireDue ==
  \E at \in Readings :
    /\ Due(at) # {}
    /\ status' = [r \in RunIds |-> IF r \in Due(at) THEN "timedOut" ELSE status[r]]
    /\ trail' = [r \in RunIds |->
                  IF r \in Due(at) THEN Append(trail[r], Row("expired", None, "timedOut"))
                                   ELSE trail[r]]
    /\ UNCHANGED <<now, request, deadline, external, latest, events, deliveries>>

Tick == now < MaxTime /\ now' = now + 1 /\ UNCHANGED runVars

(* What callers, the harness's webhooks and the reconciler do to the store. *)
StoreNext ==
  \/ \E q \in Requests : Reserve(q)
  \/ \E r \in RunIds : RequestCancel(r)
  \/ \E r \in RunIds, p \in Payloads, d \in DeliveryIds \cup {None} : ApplyEvent(r, p, d)
  \/ ExpireDue

Next ==
  \/ StoreNext
  \/ \E r \in RunIds, ext \in ExternalIds : MarkRunning(r, ext)
  \/ Tick

Spec == Init /\ [][Next]_vars
-----------------------------------------------------------------------------
(* reserve never lets the active runs exceed either limit of the tenant,   *)
(* whatever order cancellations, receipts and expiries free the quota in.  *)
QuotaHeld ==
  LET held == {r \in RunIds : status[r] \in {"queued", "running", "cancelRequested"}} IN
  /\ Cardinality(held) <= MaxActive
  /\ SumFunction([r \in held |-> request[r].cost]) <= MaxCost

(* An idempotency key names one run for ever, so a retried reserve can     *)
(* neither start a second run nor be answered with another request's run.  *)
KeyNamesOneRun ==
  \A r, t \in Reserved : request[r].key = request[t].key => r = t

(* The receipts of a run are ordered and unique, the row's sequence is     *)
(* that of the newest, and a delivery is on record only with its event.    *)
ReceiptsAgree ==
  \A r \in RunIds :
    /\ \A e, f \in events[r] : e.id = f.id \/ e.seq = f.seq => e = f
    /\ latest[r] = Max({e.seq : e \in events[r]} \cup {0})
    /\ \A x, y \in deliveries[r] : x.id = y.id => x = y
    /\ \A x \in deliveries[r] : EventOf(x.sha) \in events[r] /\ EventOf(x.sha).id = x.event

(* A run is succeeded, failed or canceled only on the harness's word: the  *)
(* newest receipt says so.  The store itself can only time a run out.      *)
OutcomeIsEvidenced ==
  \A r \in RunIds : status[r] \in {"succeeded", "failed", "canceled"} =>
    \E e \in events[r] : e.status = status[r] /\ \A f \in events[r] : f.seq <= e.seq

(* The audit of a run is a chain that ends in its status, with exactly one *)
(* eventApplied row per receipt: no transition is lost or counted twice.   *)
AuditExplains ==
  \A r \in Reserved :
    LET t == trail[r] IN
    /\ t # <<>> /\ t[Len(t)].to = status[r]
    /\ \A i \in 1 .. Len(t) - 1 : t[i + 1].from \in {t[i].to, None}
    /\ Quantify(1 .. Len(t), LAMBDA i : t[i].action = "eventApplied") = Cardinality(events[r])

(* A settled run never reopens and takes no further receipt, and its audit *)
(* gains nothing, except that its dispatch may be found unresolved later.  *)
SettledIsFinal ==
  [][\A r \in RunIds : status[r] \in Terminal =>
       /\ UNCHANGED <<status[r], latest[r], events[r], deliveries[r]>>
       /\ \/ UNCHANGED trail[r]
          \/ trail'[r] = Append(trail[r], Row("reconciliationRequired", status[r], status[r]))]_vars

(* Once cancellation is requested the run can only be canceled, fail or    *)
(* time out: it neither runs again nor succeeds.                           *)
CancelSticks ==
  [][\A r \in RunIds : status[r] = "cancelRequested" =>
       status'[r] \in {"cancelRequested", "canceled", "failed", "timedOut"}]_vars
=============================================================================
