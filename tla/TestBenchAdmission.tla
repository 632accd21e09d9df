------------------------- MODULE TestBenchAdmission -------------------------
(***************************************************************************)
(* The admission of observed test-bench runs: the transaction of start in  *)
(* observed-run-store.ts and the ledgers it charges                        *)
(* (monetary-admission.ts, platform-provider-admission.ts,                 *)
(* observed-admission-quota.ts), statement by statement.                   *)
(*                                                                         *)
(* Concurrent calls cross in the ledgers: a row that a transaction charged *)
(* is locked until it ends, and is charged for the day on which the        *)
(* transaction began.  A ledger is charged and never refunded, unless the  *)
(* transaction is rolled back.  What the rate card, the policy, the source *)
(* or the credentials may refuse is one nondeterministic refusal.          *)
(***************************************************************************)
EXTENDS Naturals, FiniteSets, Sequences, SequencesExt, FiniteSetsExt

CONSTANTS
  Tenants, Requests, Admitters,  \* tenants, request ids, concurrent calls of start
  LastDay,                       \* bound of the model on the days that pass
  ActiveLimit,                   \* active runs of a tenant, 2 in the code
  Cap,                           \* of each ledger; 10, 200 and 100 runs in the code
  Cost,                          \* of each source, in the monetary ledgers
  SourceOf                       \* the execution source that each request names

Ledgers == {"moneyDay", "moneyMonth", "jev", "nim", "runs"}
Sources == {"platform-nim", "workspace-openai"}

ASSUME AdmissionAssumption ==
  /\ LastDay \in Nat /\ ActiveLimit \in Nat
  /\ Cap \in [Ledgers -> Nat] /\ Cost \in [Sources -> Nat \ {0}]
  /\ SourceOf \in [Requests -> Sources]

VARIABLES
  admitted,  \* the runs that were admitted
  used,      \* what each row of the ledgers holds, also uncommitted
  tx,        \* each call and its transaction
  today

admissionVars == <<admitted, used, tx, today>>

Days  == 0 .. LastDay
LedgerRows == [ledger : Ledgers, owner : Tenants \cup {"platform"}, day : Days]
Admissions == [tenant : Tenants, request : Requests, source : Sources, day : Days,
               active : BOOLEAN]
NoTx == [at |-> "idle"]
Txs  == {NoTx} \cup [at : {"locking", "checking", "charging"}, tenant : Tenants,
                     request : Requests, source : Sources, day : Days, charged : 0 .. 5]

AdmissionTypeOK ==
  /\ admitted \subseteq Admissions
  /\ used \in [LedgerRows -> Nat]
  /\ tx \in [Admitters -> Txs]
  /\ today \in Days

AdmissionInit ==
  /\ admitted = {}
  /\ used = [l \in LedgerRows |-> 0]
  /\ tx = [a \in Admitters |-> NoTx]
  /\ today = 0

-----------------------------------------------------------------------------
LedgerRow(ledger, owner, day) == [ledger |-> ledger, owner |-> owner, day |-> day]

(* The rows that a run is charged to, in the order of the statements.  All  *)
(* the days of the model are in one month.                                  *)
Plan(run) ==
  << LedgerRow("moneyDay", run.tenant, run.day), LedgerRow("moneyMonth", run.tenant, 0),
     LedgerRow("jev", "platform", run.day) >>
  \o (IF run.source = "platform-nim"
      THEN << LedgerRow("nim", "platform", run.day) >> ELSE << >>)
  \o << LedgerRow("runs", run.tenant, run.day) >>

Charge(run, row) == IF row.ledger \in {"moneyDay", "moneyMonth"} THEN Cost[run.source] ELSE 1

(* The rows that a call has charged and therefore holds. *)
Charged(a) ==
  IF tx[a].at = "charging" THEN ToSet(SubSeq(Plan(tx[a]), 1, tx[a].charged)) ELSE {}

End(a) == tx' = [tx EXCEPT ![a] = NoTx]

(* Mutant: what was charged stays when the transaction fails. *)
RollBackNothing(a) == End(a) /\ UNCHANGED <<admitted, used, today>>

RollBack(a) ==
  /\ used' = [l \in LedgerRows |-> IF l \in Charged(a) THEN used[l] - Charge(tx[a], l)
                                                       ELSE used[l]]
  /\ End(a)
  /\ UNCHANGED <<admitted, today>>

(* The transaction begins: now() is fixed.  A request id that comes again    *)
(* with another source is refused as a replay ends, so it has one here.     *)
Ask(a, t, q) ==
  /\ tx[a] = NoTx
  /\ tx' = [tx EXCEPT ![a] = [at |-> "locking", tenant |-> t, request |-> q,
                              source |-> SourceOf[q], day |-> today, charged |-> 0]]
  /\ UNCHANGED <<admitted, used, today>>

(* The advisory lock of the tenant, held to the end of the transaction. *)
Lock(a) ==
  /\ tx[a].at = "locking"
  /\ \A b \in Admitters \ {a} :
       tx[b].at \in {"checking", "charging"} => tx[b].tenant # tx[a].tenant
  /\ tx' = [tx EXCEPT ![a].at = "checking"]
  /\ UNCHANGED <<admitted, used, today>>

SameRequest(a) ==
  {run \in admitted : run.tenant = tx[a].tenant /\ run.request = tx[a].request}

ActiveRuns(t) == {run \in admitted : run.tenant = t /\ run.active}

(* A known request is replayed or in conflict, a busy tenant is refused, and *)
(* so is what is not runnable: the call ends without a charge.              *)
Check(a) ==
  /\ tx[a].at = "checking"
  /\ \/ /\ SameRequest(a) = {} /\ Cardinality(ActiveRuns(tx[a].tenant)) < ActiveLimit
        /\ tx' = [tx EXCEPT ![a].at = "charging"]
     \/ End(a)
  /\ UNCHANGED <<admitted, used, today>>

(* Mutant: a ledger with anything left is charged. *)
ChargeBeyond(a) ==
  LET row == Plan(tx[a])[tx[a].charged + 1] IN
  /\ tx[a].at = "charging" /\ tx[a].charged < Len(Plan(tx[a]))
  /\ \A b \in Admitters \ {a} : row \notin Charged(b)
  /\ IF used[row] < Cap[row.ledger]
     THEN /\ used' = [used EXCEPT ![row] = @ + Charge(tx[a], row)]
          /\ tx' = [tx EXCEPT ![a].charged = @ + 1]
          /\ UNCHANGED <<admitted, today>>
     ELSE RollBack(a)

(* Mutant: a full ledger is waited for. *)
ChargeOrWait(a) ==
  LET row == Plan(tx[a])[tx[a].charged + 1] IN
  /\ tx[a].at = "charging" /\ tx[a].charged < Len(Plan(tx[a]))
  /\ \A b \in Admitters \ {a} : row \notin Charged(b)
  /\ used[row] + Charge(tx[a], row) <= Cap[row.ledger]
  /\ used' = [used EXCEPT ![row] = @ + Charge(tx[a], row)]
  /\ tx' = [tx EXCEPT ![a].charged = @ + 1]
  /\ UNCHANGED <<admitted, today>>

(* The next upsert: it waits for the row, and charges it if the cap allows. *)
ChargeNext(a) ==
  LET row == Plan(tx[a])[tx[a].charged + 1] IN
  /\ tx[a].at = "charging" /\ tx[a].charged < Len(Plan(tx[a]))
  /\ \A b \in Admitters \ {a} : row \notin Charged(b)
  /\ IF used[row] + Charge(tx[a], row) <= Cap[row.ledger]
     THEN /\ used' = [used EXCEPT ![row] = @ + Charge(tx[a], row)]
          /\ tx' = [tx EXCEPT ![a].charged = @ + 1]
          /\ UNCHANGED <<admitted, today>>
     ELSE RollBack(a)

(* The run, its job and the audit entry are inserted, and all is committed. *)
Admit(a) ==
  /\ tx[a].at = "charging" /\ tx[a].charged = Len(Plan(tx[a]))
  /\ admitted' = admitted \cup {[tenant |-> tx[a].tenant, request |-> tx[a].request,
                                 source |-> tx[a].source, day |-> tx[a].day, active |-> TRUE]}
  /\ End(a)
  /\ UNCHANGED <<used, today>>

(* An insert violates a constraint (the definition has an active run), a    *)
(* statement fails or the connection is lost.                               *)
Abort(a) == tx[a] # NoTx /\ RollBack(a)

(* A run completes, fails or is canceled: nothing is refunded. *)
EndRun(run) ==
  /\ run.active
  /\ admitted' = (admitted \ {run}) \cup {[run EXCEPT !.active = FALSE]}
  /\ UNCHANGED <<used, tx, today>>

Midnight == today < LastDay /\ today' = today + 1 /\ UNCHANGED <<admitted, used, tx>>

-----------------------------------------------------------------------------
Statement(a) == Lock(a) \/ Check(a) \/ ChargeNext(a) \/ Admit(a)

AdmissionNext ==
  \/ \E a \in Admitters :
       \/ \E t \in Tenants, q \in Requests : Ask(a, t, q)
       \/ Statement(a) \/ Abort(a)
  \/ \E run \in admitted : EndRun(run)
  \/ Midnight

(* PostgreSQL grants a lock in the order of the requests. *)
AdmissionFairness == \A a \in Admitters : SF_admissionVars(Statement(a))

AdmissionSpec == AdmissionInit /\ [][AdmissionNext]_admissionVars /\ AdmissionFairness
-----------------------------------------------------------------------------
(* The ledgers and the runs agree at all times: each row holds exactly what  *)
(* the admitted runs of its tenant and day and the open transactions        *)
(* charged, though they cross, fail half way or go past midnight.           *)
LedgersAgree ==
  \A row \in LedgerRows :
    used[row] =
      SumFunction([run \in {x \in admitted : row \in ToSet(Plan(x))} |-> Charge(run, row)])
      + SumFunction([a \in {b \in Admitters : row \in Charged(b)} |-> Charge(tx[a], row)])

(* No ledger goes beyond its cap, whatever the sizes of the charges, and     *)
(* concurrent calls never give a tenant more active runs than allowed.      *)
CapsHeld ==
  /\ \A row \in LedgerRows : used[row] <= Cap[row.ledger]
  /\ \A t \in Tenants : Cardinality(ActiveRuns(t)) <= ActiveLimit

(* Every call ends: the locks are taken in one order and none is kept. *)
CallsEnd == \A a \in Admitters : tx[a] # NoTx ~> tx[a] = NoTx
=============================================================================
