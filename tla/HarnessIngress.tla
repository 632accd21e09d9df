--------------------------- MODULE HarnessIngress ---------------------------
(***************************************************************************)
(* Signed deliveries of a customer's harness (signed-event-admission.ts):  *)
(* a body that parses goes to the reservation store, one that does not to  *)
(* the quarantine (event-quarantine.ts, table of 0017).                    *)
(*                                                                         *)
(* What comes before the store is touched (the signature, the clock skew,  *)
(* the keys, the owner of the run) refuses a delivery without a trace; the *)
(* deliveries here have passed it.  Both ends lock the run's row.          *)
(***************************************************************************)
EXTENDS HarnessReservations

CONSTANTS
  Malformed,       \* signed bodies that do not parse; a body is its sha256
  RetentionDays,   \* retention_days of a run, 0 to 30 in the code
  MaxQuarantined   \* MAX_PER_RUN, 250 in the code

ASSUME IngressAssumption ==
  /\ RetentionDays \in [RunIds -> Nat]
  /\ MaxQuarantined \in Nat \ {0}
  /\ Malformed \cap Payloads = {}

VARIABLE quarantine   \* harness_eval_event_quarantine of each run

ingressVars == <<vars, quarantine>>

Rejections == [id : DeliveryIds, sha : Malformed, expires : Nat]

IngressTypeOK == TypeOK /\ quarantine \in [RunIds -> SUBSET Rejections]

IngressInit == Init /\ quarantine = [r \in RunIds |-> {}]

-----------------------------------------------------------------------------
Quarantined(r, d) == \E x \in quarantine[r] : x.id = d

(* Mutant: a delivery that was accepted is not looked for. *)
RetainableUnchecked(r, d) ==
  /\ r \in Reserved /\ RetentionDays[r] > 0
  /\ ~Quarantined(r, d)
  /\ Cardinality(quarantine[r]) < MaxQuarantined

(* Not a replay, not a conflict, not accepted before, and within the quota. *)
Retainable(r, d) ==
  /\ r \in Reserved /\ RetentionDays[r] > 0
  /\ ~Quarantined(r, d)
  /\ ~DeliveryKnown(r, d)
  /\ Cardinality(quarantine[r]) < MaxQuarantined

(* record: the reading of the clock precedes the lock. *)
Quarantine(r, d, body) ==
  /\ Retainable(r, d)
  /\ \E at \in Readings :
       quarantine' = [quarantine EXCEPT ![r] =
                       @ \cup {[id |-> d, sha |-> body, expires |-> at + RetentionDays[r]]}]
  /\ UNCHANGED vars

PurgeExpired ==
  \E at \in Readings :
    /\ quarantine' = [r \in RunIds |-> {x \in quarantine[r] : x.expires > at}]
    /\ UNCHANGED vars

(* A delivery that parses is applied; the quarantine is not consulted. *)
Accept(r, d, p) == ApplyEvent(r, p, d) /\ UNCHANGED quarantine

Deliver(r, d) ==
  \/ \E p \in Payloads : Accept(r, d, p)
  \/ \E body \in Malformed : Quarantine(r, d, body)

(* Everything else that happens to the store. *)
OtherCalls ==
  /\ \/ \E q \in Requests : Reserve(q)
     \/ \E r \in RunIds : RequestCancel(r)
     \/ \E r \in RunIds, p \in Payloads : ApplyEvent(r, p, None)
     \/ ExpireDue
     \/ \E r \in RunIds, ext \in ExternalIds : MarkRunning(r, ext)
     \/ Tick
  /\ UNCHANGED quarantine

IngressNext ==
  \/ OtherCalls
  \/ \E r \in RunIds, d \in DeliveryIds : Deliver(r, d)
  \/ PurgeExpired

IngressSpec == IngressInit /\ [][IngressNext]_ingressVars
-----------------------------------------------------------------------------
(* What a delivery was found to be is not turned round: once accepted, it    *)
(* is never put into the quarantine, with whatever body it comes again, and *)
(* a rejection on record is neither rewritten nor removed before it expires.*)
VerdictsStand ==
  [][\A r \in RunIds :
       /\ \A x \in quarantine'[r] \ quarantine[r] : ~DeliveryKnown(r, x.id)
       /\ \A x \in quarantine[r] \ quarantine'[r] : x.expires <= now]_ingressVars
=============================================================================
