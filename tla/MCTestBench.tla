----------------------------- MODULE MCTestBench -----------------------------
(***************************************************************************)
(* Instances of the job queue under a handler that does anything the queue *)
(* allows, of observed runs on that queue, and of the admission of runs.   *)
(* The initial state picks which of the three takes steps, and the         *)
(* fairness of a part counts only where it does.                           *)
(***************************************************************************)
EXTENDS ObservedRun, TestBenchAdmission

CONSTANTS q1, q2

ObservedStages == Evaluating \cup {"working", "beginning", "retiring", "abandoning"}
Caps  == [moneyDay |-> 2, moneyMonth |-> 2, jev |-> 2, nim |-> 1, runs |-> 2]
Costs == [s \in Sources |-> IF s = "platform-nim" THEN 2 ELSE 1]
SourcesOf == [q \in Requests |-> IF q = q1 THEN "platform-nim" ELSE "workspace-openai"]

VARIABLE part

benchVars == <<part, observedVars, admissionVars>>

BenchInit == part \in {"queue", "runs", "admission"} /\ ObservedInit /\ AdmissionInit

InQueue(A) == part = "queue" /\ A /\ UNCHANGED <<part, runs, call, sent, admissionVars>>
InRuns(A)  == part = "runs" /\ A /\ UNCHANGED <<part, admissionVars>>
InAdmission(A) == part = "admission" /\ A /\ UNCHANGED <<part, observedVars>>

BenchNext == InQueue(QueueNext) \/ InRuns(ObservedNext) \/ InAdmission(AdmissionNext)

(* Fairness, ObservedFairness and AdmissionFairness, each where it applies. *)
BenchFairness ==
  /\ \A w \in Workers :
       /\ WF_benchVars(InQueue(Loop(w)) \/ InRuns(Loop(w) /\ Around(w)))
       /\ WF_benchVars(InQueue(Return(w)) \/ InRuns(Ends(w)))
  /\ \A j \in Jobs : WF_benchVars(InQueue(Expire(j)) \/ InRuns(LeaseEnds(j)))
  /\ \A a \in Admitters : SF_benchVars(InAdmission(Statement(a)))

BenchSpec == BenchInit /\ [][BenchNext]_benchVars /\ BenchFairness

(* Every row, call and ledger has its shape. *)
BenchTypeOK == ObservedTypeOK /\ AdmissionTypeOK
=============================================================================
