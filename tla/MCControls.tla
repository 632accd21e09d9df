----------------------------- MODULE MCControls -----------------------------
(***************************************************************************)
(* Instances of four components that share no table: the quota of harness  *)
(* reservations, an adapter's signing keys, its status connector, and a    *)
(* Git connection.  The initial state picks the one that takes steps.      *)
(*                                                                         *)
(* Quota: five requests for three runs, some of which reuse a key or a run *)
(* id; three cheap ones exceed the count, a dear one and any other exceed  *)
(* the cost.                                                               *)
(***************************************************************************)
EXTENDS HarnessReservations, HarnessSigningKeys, StatusConnector, GitConnection, TLC

CONSTANTS a1, a2, r1, r2, r3, k1, k2, k3

(* The concurrent calls of a component are alike; two names serve them all. *)
TwoCalls == Permutations({a1, a2})

Request(r, k, c, d) == [run |-> r, key |-> k, cost |-> c, duration |-> d]

QuotaRequests ==
  {Request(r1, k1, 4, 1), Request(r1, k1, 1, 1), Request(r2, k2, 1, 2),
   Request(r3, k3, 1, 1), Request(r3, k1, 1, 1)}

Payload(i, s, st) == [id |-> i, seq |-> s, status |-> st, form |-> 1]

QuotaPayloads == {Payload("e1", 1, "running"), Payload("e2", 2, "succeeded")}

VARIABLE part

ControlsInit ==
  /\ part \in {"quota", "keys", "connector", "git"}
  /\ Init /\ KeysInit /\ ConnectorInit /\ GitInit

ControlsNext ==
  \/ part = "quota" /\ Next /\ UNCHANGED <<part, keyVars, connectorVars, gitVars>>
  \/ part = "keys" /\ KeysNext /\ UNCHANGED <<part, vars, connectorVars, gitVars>>
  \/ part = "connector" /\ ConnectorNext /\ UNCHANGED <<part, vars, keyVars, gitVars>>
  \/ part = "git" /\ GitNext /\ UNCHANGED <<part, vars, keyVars, connectorVars>>

ControlsSpec == ControlsInit /\ [][ControlsNext]_<<part, vars, keyVars, connectorVars, gitVars>>

(* Every row and every call of the four has its shape. *)
ControlsTypeOK == TypeOK /\ KeysTypeOK /\ ConnectorTypeOK /\ GitTypeOK
=============================================================================
