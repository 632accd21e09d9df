------------------------------ MODULE MCHarness ------------------------------
(***************************************************************************)
(* Instances of the two components around the reservation store: its       *)
(* signed ingress, and the dispatch queue with its workers.  The initial   *)
(* state picks the one that takes steps.                                   *)
(*                                                                         *)
(* Ingress: six bodies that parse (the same event in two forms, the same   *)
(* id with another content, the same sequence under another id, and each   *)
(* order of the outcomes) and two that do not.  Dispatch: two workers and  *)
(* one run whose deadline falls inside the bound on the clock.             *)
(***************************************************************************)
EXTENDS HarnessIngress, HarnessDispatch

CONSTANTS r1, k1,
          Parts   \* the components a run lets take steps: "ingress", "dispatch"

OneRequest == {[run |-> r1, key |-> k1, cost |-> 1, duration |-> 4]}

Payload(i, s, st, f) == [id |-> i, seq |-> s, status |-> st, form |-> f]

TwoPayloads == {Payload("e1", 1, "running", 1), Payload("e2", 2, "succeeded", 1)}

ReceiptPayloads ==
  TwoPayloads \cup
  {Payload("e1", 1, "running", 2), Payload("e1", 2, "canceled", 1),
   Payload("e3", 2, "failed", 1), Payload("e4", 3, "running", 1)}

OneDay == [r \in RunIds |-> 1]

MalformedBodies == {[form |-> 1], [form |-> 2]}

(* The floor doubles from a tick of the clock and is capped at two. *)
DoublingFloor == [n \in 1 .. MaxAttempts |-> Lesser(2, 2 ^ (n - 1))]

VARIABLE part

HarnessInit == part \in Parts /\ IngressInit /\ DispatchInit

(* Beside the dispatch queue the store takes an early and a final event; the *)
(* variety of bodies and delivery ids is the ingress's.                      *)
TwoEvents == \A r \in RunIds : events'[r] \subseteq {EventOf(p) : p \in TwoPayloads} /\ deliveries'[r] = {}

HarnessNext ==
  \/ part = "ingress" /\ IngressNext /\ UNCHANGED <<part, dispatchVars>>
  \/ part = "dispatch" /\ DispatchNext /\ TwoEvents /\ UNCHANGED <<part, quarantine>>

HarnessSpec == HarnessInit /\ [][HarnessNext]_<<part, allVars, quarantine>>

(* Every row, every delivery and every worker has its shape. *)
HarnessTypeOK == IngressTypeOK /\ DispatchTypeOK
=============================================================================
