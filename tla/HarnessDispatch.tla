--------------------------- MODULE HarnessDispatch ---------------------------
(***************************************************************************)
(* The dispatch lease queue (server/harness/dispatch-leases.ts) and the    *)
(* workers that drain it (dispatch-worker.ts), over the reservation store. *)
(*                                                                         *)
(* claim is two steps.  Its query runs at READ COMMITTED and locks the run *)
(* row only (FOR UPDATE OF r SKIP LOCKED): the lease row it joins is read  *)
(* from the statement's snapshot and is not read again when the run row's  *)
(* lock is granted, so another transaction may commit in between.  The     *)
(* other operations lock run and lease before they read, so each is one    *)
(* step.  The tenant row's lock keeps reserve, expireDue and other claims  *)
(* out while a claim is choosing.                                          *)
(*                                                                         *)
(* A worker is one call of tick.  All workers share one worker id, the     *)
(* weakest fence the queue can have; a lease token, 256 random bits drawn  *)
(* by each claim, is the generation that claim wrote.                      *)
(***************************************************************************)
EXTENDS HarnessReservations

CONSTANTS
  Workers,      \* concurrent calls of tick
  LeaseTime,    \* leaseMs
  MaxAttempts,  \* MAX_ATTEMPTS, 4 in the code
  RetryDelay,   \* the delay tick asks for, 250 ms
  RetryFloor    \* the least delay by attempt, min(60000, 100 * 2^(attempt-1)) ms

ASSUME DispatchAssumption ==
  /\ IsFiniteSet(Workers)
  /\ LeaseTime \in Nat \ {0}
  /\ MaxAttempts \in Nat \ {0}
  /\ RetryDelay \in Nat
  /\ \A n \in 1 .. MaxAttempts : RetryFloor[n] \in Nat

VARIABLES
  lease,       \* harness_eval_dispatch_leases, one row per run
  pc,          \* where each worker's tick is
  job,         \* the claim the tick holds: run, token and leaseUntil
  view,        \* what a claim's query saw: its clock reading and the due runs
  invocations  \* how often the customer's harness was invoked for each run

dispatchVars == <<lease, pc, job, view, invocations>>
allVars      == <<vars, dispatchVars>>

Held        == {"dispatching", "reconciliation", "acknowledged"}
LeaseStates == Held \cup {"none", "leased", "retry", "exhausted"}
Leases == [state : LeaseStates, generation : Nat, attempt : Nat, until : Nat, eligible : Nat]
Jobs   == [run : RunIds, token : Nat, until : Nat]
Views  == [at : Nat, due : SUBSET RunIds]
Holding == {"preflight", "releasing", "marking", "marked", "invoked", "acking", "holding"}

DispatchTypeOK ==
  /\ TypeOK
  /\ lease \in [RunIds -> Leases]
  /\ pc \in [Workers -> {"idle", "choosing"} \cup Holding]
  /\ job \in [Workers -> Jobs \cup {None}]
  /\ \A w \in Workers : pc[w] \in Holding => job[w] \in Jobs
  /\ view \in [Workers -> Views]
  /\ invocations \in [RunIds -> Nat]

NoLease == [state |-> "none", generation |-> 0, attempt |-> 0, until |-> 0, eligible |-> 0]
NoView  == [at |-> 0, due |-> {}]

DispatchInit ==
  /\ Init
  /\ lease = [r \in RunIds |-> NoLease]
  /\ pc = [w \in Workers |-> "idle"]
  /\ job = [w \in Workers |-> None]
  /\ view = [w \in Workers |-> NoView]
  /\ invocations = [r \in RunIds |-> 0]

-----------------------------------------------------------------------------
Lesser(a, b)  == IF a <= b THEN a ELSE b
Greater(a, b) == IF a >= b THEN a ELSE b

Goto(w, label) == pc' = [pc EXCEPT ![w] = label]

EndTick(w) ==
  /\ Goto(w, "idle")
  /\ job' = [job EXCEPT ![w] = None]
  /\ view' = [view EXCEPT ![w] = NoView]

(* The organizations row is locked from a claim's query to its commit. *)
TenantLocked == \E w \in Workers : pc[w] = "choosing"

(* Mutant: the lease's state is not looked at, as before 0020. *)
ClaimableInFlight(r, at) ==
  /\ Startable(r, at)
  /\ lease[r].until <= at /\ lease[r].eligible <= at /\ lease[r].attempt < MaxAttempts

(* The rows claim's query may return at a reading of the clock. *)
Claimable(r, at) ==
  /\ Startable(r, at)
  /\ \/ lease[r].state = "none"
     \/ /\ lease[r].state \in {"leased", "retry"}
        /\ lease[r].until <= at /\ lease[r].eligible <= at
        /\ lease[r].attempt < MaxAttempts

ClaimQuery(w) ==
  /\ pc[w] = "idle" /\ ~TenantLocked
  /\ \E at \in Readings :
       view' = [view EXCEPT ![w] = [at |-> at, due |-> {r \in RunIds : Claimable(r, at)}]]
  /\ Goto(w, "choosing")
  /\ UNCHANGED <<vars, lease, job, invocations>>

(* Mutant: a row held for reconciliation is overwritten as well. *)
ClaimLeaseOfAny(w, r) ==
  LET at   == view[w].at
      ends == Lesser(at + LeaseTime, deadline[r])
      gen  == lease[r].generation + 1
  IN
  /\ pc[w] = "choosing" /\ r \in view[w].due /\ status[r] = "queued"
  /\ lease' = [lease EXCEPT ![r] =
       [state |-> "leased", generation |-> gen, attempt |-> @.attempt + 1,
        until |-> ends, eligible |-> at]]
  /\ job' = [job EXCEPT ![w] = [run |-> r, token |-> gen, until |-> ends]]
  /\ view' = [view EXCEPT ![w] = NoView]
  /\ Goto(w, "preflight")
  /\ UNCHANGED <<vars, invocations>>

(* The run row is locked and, if it changed, its own condition is checked   *)
(* again.  The upsert then overwrites whatever lease it finds: only a       *)
(* reconciliation row stops it, by the check on reconciliation_reason.      *)
ClaimLease(w, r) ==
  LET at   == view[w].at
      ends == Lesser(at + LeaseTime, deadline[r])
      gen  == lease[r].generation + 1
  IN
  /\ pc[w] = "choosing" /\ r \in view[w].due
  /\ status[r] = "queued" /\ lease[r].state # "reconciliation"
  /\ lease' = [lease EXCEPT ![r] =
       [state |-> "leased", generation |-> gen, attempt |-> @.attempt + 1,
        until |-> ends, eligible |-> at]]
  /\ job' = [job EXCEPT ![w] = [run |-> r, token |-> gen, until |-> ends]]
  /\ view' = [view EXCEPT ![w] = NoView]
  /\ Goto(w, "preflight")
  /\ UNCHANGED <<vars, invocations>>

-----------------------------------------------------------------------------
(* Mutant: the token's digest is not compared. *)
HoldsUnfenced(w, state) == lease[job[w].run].state = state

(* lockedLease: the caller's token is the row's and the row has the state. *)
Holds(w, state) ==
  /\ lease[job[w].run].state = state
  /\ lease[job[w].run].generation = job[w].token

HoldsLive(w, at) == Holds(w, "leased") /\ at < lease[job[w].run].until

SetLease(r, row) == lease' = [lease EXCEPT ![r] = row]

(* Mutant: a renewal is not cut at the run's deadline. *)
RenewPastDeadline(w) ==
  LET r == job[w].run IN
  /\ pc[w] \in {"preflight", "marking", "releasing"}
  /\ \E at \in Readings :
       /\ HoldsLive(w, at) /\ Startable(r, at)
       /\ SetLease(r, [lease[r] EXCEPT !.until = at + LeaseTime])
  /\ UNCHANGED <<vars, pc, job, view, invocations>>

(* No caller in the repository renews; any holder of a token may. *)
Renew(w) ==
  LET r == job[w].run IN
  /\ pc[w] \in {"preflight", "marking", "releasing"}
  /\ \E at \in Readings :
       /\ HoldsLive(w, at) /\ Startable(r, at)
       /\ SetLease(r, [lease[r] EXCEPT !.until = Lesser(at + LeaseTime, deadline[r])])
  /\ UNCHANGED <<vars, pc, job, view, invocations>>

(* The pinned request loads, the adapter is executable and time is left. *)
PreflightPass(w) ==
  /\ pc[w] = "preflight"
  /\ \E at \in Readings : Startable(job[w].run, at) /\ at < job[w].until
  /\ Goto(w, "marking")
  /\ UNCHANGED <<vars, lease, job, view, invocations>>

PreflightFail(w) ==
  /\ pc[w] = "preflight"
  /\ Goto(w, "releasing")
  /\ UNCHANGED <<vars, lease, job, view, invocations>>

Backoff(attempt) == Greater(RetryDelay, RetryFloor[attempt])

(* Mutant: a state the schema's check does not know. *)
ReleaseToUnknownState(w) ==
  LET r == job[w].run IN
  /\ pc[w] = "releasing" /\ status[r] = "queued"
  /\ \E at \in Readings :
       /\ HoldsLive(w, at)
       /\ SetLease(r, [lease[r] EXCEPT !.state = "queued", !.until = at])
  /\ EndTick(w)
  /\ UNCHANGED <<vars, invocations>>

ReleaseForRetry(w) ==
  LET r == job[w].run IN
  /\ pc[w] = "releasing" /\ status[r] = "queued"
  /\ \E at \in Readings :
       /\ HoldsLive(w, at)
       /\ SetLease(r, [lease[r] EXCEPT
            !.state = IF lease[r].attempt >= MaxAttempts THEN "exhausted" ELSE "retry",
            !.until = at, !.eligible = at + Backoff(lease[r].attempt)])
  /\ EndTick(w)
  /\ UNCHANGED <<vars, invocations>>

(* Mutant: the marker trusts the lease and does not read the run. *)
MarkWithoutRun(w) ==
  LET r == job[w].run IN
  /\ pc[w] = "marking"
  /\ \E at \in Readings : HoldsLive(w, at)
  /\ SetLease(r, [lease[r] EXCEPT !.state = "dispatching"])
  /\ Audit(r, "dispatchStarted", "queued", "queued")
  /\ Goto(w, "marked")
  /\ UNCHANGED <<now, status, request, deadline, external, latest, events, deliveries,
                 job, view, invocations>>

MarkDispatchStarted(w) ==
  LET r == job[w].run IN
  /\ pc[w] = "marking"
  /\ \E at \in Readings : HoldsLive(w, at) /\ Startable(r, at)
  /\ SetLease(r, [lease[r] EXCEPT !.state = "dispatching"])
  /\ Audit(r, "dispatchStarted", "queued", "queued")
  /\ Goto(w, "marked")
  /\ UNCHANGED <<now, status, request, deadline, external, latest, events, deliveries,
                 job, view, invocations>>

-----------------------------------------------------------------------------
(* Mutant: a call that fails is made again under the same marker. *)
InvokeAgain(w) ==
  /\ pc[w] = "marked"
  /\ invocations' = [invocations EXCEPT ![job[w].run] = @ + 1]
  /\ Goto(w, "invoked") \/ UNCHANGED pc
  /\ UNCHANGED <<vars, lease, job, view>>

Invoke(w) ==
  /\ pc[w] = "marked"
  /\ invocations' = [invocations EXCEPT ![job[w].run] = @ + 1]
  /\ Goto(w, "invoked")
  /\ UNCHANGED <<vars, lease, job, view>>

(* A valid answer in time is acknowledged.  A timeout, an exception or an   *)
(* invalid answer is held, and so is an acknowledgement that fails.         *)
ProviderAnswer(w) ==
  /\ \/ pc[w] = "invoked" /\ Goto(w, "acking")
     \/ pc[w] \in {"invoked", "acking"} /\ Goto(w, "holding")
  /\ UNCHANGED <<vars, lease, job, view, invocations>>

(* The commit's reply may be lost: tick then tries to hold the run. *)
Acknowledge(w) ==
  LET r == job[w].run IN
  /\ pc[w] = "acking" /\ Holds(w, "dispatching")
  /\ \E at \in Readings : Startable(r, at)
  /\ \E ext \in ExternalIds : Start(r, ext)
  /\ SetLease(r, [lease[r] EXCEPT !.state = "acknowledged"])
  /\ EndTick(w) \/ (Goto(w, "holding") /\ UNCHANGED <<job, view>>)
  /\ UNCHANGED <<now, invocations>>

RecordUnknownOutcome(w) ==
  LET r == job[w].run IN
  /\ pc[w] = "holding" /\ Holds(w, "dispatching") /\ status[r] # "none"
  /\ SetLease(r, [lease[r] EXCEPT !.state = "reconciliation"])
  /\ Audit(r, "reconciliationRequired", status[r], status[r])
  /\ EndTick(w)
  /\ UNCHANGED <<now, status, request, deadline, external, latest, events, deliveries,
                 invocations>>

(* The tick ends: there was nothing to claim, a call was refused, failed or *)
(* lost its reply, or the process died.                                     *)
Abandon(w) ==
  /\ pc[w] # "idle"
  /\ EndTick(w)
  /\ UNCHANGED <<vars, lease, invocations>>

-----------------------------------------------------------------------------
WorkerStep(w) ==
  \/ ClaimQuery(w) \/ \E r \in RunIds : ClaimLease(w, r)
  \/ Renew(w) \/ PreflightPass(w) \/ PreflightFail(w) \/ ReleaseForRetry(w)
  \/ MarkDispatchStarted(w) \/ Invoke(w) \/ ProviderAnswer(w)
  \/ Acknowledge(w) \/ RecordUnknownOutcome(w) \/ Abandon(w)

(* The harness reports only on runs it was asked to execute.  markRunning   *)
(* is left out: acknowledge took its place and nothing else calls it.       *)
StoreStep ==
  /\ \/ ~TenantLocked /\ (ExpireDue \/ \E q \in Requests : Reserve(q))
     \/ \E r \in RunIds : RequestCancel(r)
     \/ \E r \in RunIds, p \in Payloads, d \in DeliveryIds \cup {None} :
          invocations[r] > 0 /\ ApplyEvent(r, p, d)
     \/ Tick
  /\ UNCHANGED dispatchVars

DispatchNext == StoreStep \/ \E w \in Workers : WorkerStep(w)

DispatchSpec == DispatchInit /\ [][DispatchNext]_allVars
-----------------------------------------------------------------------------
(* The customer's harness is invoked at most once for each run, whatever   *)
(* crashes, retries, cancellations and lease expiries happen (adr-0012).   *)
(* It holds while every transaction uses a current reading of the clock    *)
(* (Lag = 0); EveryCallMarked is what holds of older readings too.         *)
AtMostOnceInvocation == \A r \in RunIds : invocations[r] <= 1

(* A worker that may be talking to the provider holds its run's dispatching *)
(* lease: no two workers are ever past the marker for one run, and none is  *)
(* there with a lease that was reassigned.  Like AtMostOnceInvocation this  *)
(* holds of current readings of the clock only; see NewestInvokerHolds.     *)
Past == {"marked", "invoked", "acking"}
InvokerIsFenced ==
  \A w \in Workers : pc[w] \in Past =>
    /\ lease[job[w].run].state = "dispatching"
    /\ lease[job[w].run].generation = job[w].token
    /\ \A v \in Workers : pc[v] \in Past /\ job[v].run = job[w].run => v = w

(* However old the readings of the clock: each call of the harness has a    *)
(* dispatchStarted row of its own in the run's audit, and each such row a   *)
(* claim of its own.  The audit never shows fewer markers than there were   *)
(* calls, and no run is called more than MaxAttempts times.                 *)
Marks(r) == {i \in 1 .. Len(trail[r]) : trail[r][i].action = "dispatchStarted"}
EveryCallMarked ==
  \A r \in RunIds :
    /\ invocations[r] <= Cardinality(Marks(r))
    /\ Cardinality(Marks(r)) <= lease[r].attempt
    /\ lease[r].attempt <= MaxAttempts

(* However old the readings of the clock: a worker past the marker holds    *)
(* its run's dispatching lease, or a later claim has taken the run over and *)
(* its token is no longer the row's, so nothing it sends is recorded.  No   *)
(* two workers past the marker share a claim.                               *)
NewestInvokerHolds ==
  \A w \in Workers : pc[w] \in Past =>
    /\ \/ Holds(w, "dispatching")
       \/ job[w].token < lease[job[w].run].generation
    /\ \A v \in Workers :
         pc[v] \in Past /\ job[v].run = job[w].run /\ job[v].token = job[w].token => v = w

(* A lease never outlives its run's deadline, through claims and renewals.  *)
LeaseWithinDeadline ==
  \A r \in RunIds : lease[r].state # "none" => lease[r].until <= deadline[r]

(* A run is claimed at most MaxAttempts times and an exhausted lease stays. *)
AttemptsBounded ==
  \A r \in RunIds : /\ lease[r].attempt <= MaxAttempts
                    /\ lease[r].state = "exhausted" => lease[r].attempt = MaxAttempts

(* The phase a run's lease and status stand for in DispatchOnce.            *)
Phase(r) ==
  CASE lease[r].state = "acknowledged"   -> "confirmed"
    [] lease[r].state = "reconciliation" -> "held"
    [] lease[r].state = "dispatching"    -> "committed"
    [] OTHER -> IF status[r] \in {"none", "queued"} THEN "open" ELSE "closed"

Once == INSTANCE DispatchOnce
  WITH Runs <- RunIds, phase <- [r \in RunIds |-> Phase(r)], calls <- invocations

(* The leases implement the promise: nothing is sent for a run that was     *)
(* canceled or timed out before its marker, and a marker is never undone.   *)
(* This too needs current readings of the clock (Lag = 0).                  *)
ImplementsDispatchOnce == Once!Spec

Marked == INSTANCE DispatchMarked
  WITH Runs <- RunIds, MaxMarks <- MaxAttempts,
       phase <- [r \in RunIds |-> Phase(r)],
       marks <- [r \in RunIds |-> Cardinality(Marks(r))], calls <- invocations

(* Whatever the readings of the clock, the leases implement the weaker      *)
(* promise: the only way back from a marker is a claim that overtakes it,   *)
(* a confirmed or held run is never claimed again, a run closed before any  *)
(* marker is never called, and a call made late was overtaken.              *)
ImplementsDispatchMarked == Marked!Spec
=============================================================================
