----------------------------- MODULE ObservedRun ----------------------------
(***************************************************************************)
(* Observed test-bench runs (server/test-bench): a run is started or       *)
(* canceled by a person (observed-run-store.ts) and executed by a worker   *)
(* of the job queue (observed-run-worker.ts, observed-evaluator.ts), which *)
(* calls an executor and a judge for every case.  An intent is recorded    *)
(* before each call (provider-call-intents.ts), a receipt after it         *)
(* (observed-provider-usage.ts).                                           *)
(*                                                                         *)
(* Every action is one transaction of PostgreSQL or one step of a provider *)
(* call.  The calls of a run are numbered: case i has executor call 2i - 1 *)
(* and judge call 2i.                                                      *)
(***************************************************************************)
EXTENDS JobQueue

CONSTANTS
  Definitions,  \* the test-bench definitions of the tenant
  Cases,        \* expected_cases, 1 to 4 in the code
  Capacity      \* active runs of a tenant, 2 in the code

(* The stages of the handler between beginJob and the end of its try. *)
Evaluating ==
  {"checking", "intending", "calling", "waiting", "acknowledging", "recording", "completing"}

ASSUME ObservedAssumption ==
  /\ Cases \in Nat \ {0}
  /\ Capacity \in Nat \ {0}
  /\ Stages = Evaluating \cup {"working", "beginning", "retiring", "abandoning"}
  /\ None \notin Payloads
  /\ Keys = Payloads

VARIABLES
  runs,  \* test_bench_runs with its intents and receipts
  call,  \* the call each worker is at
  sent   \* how often each call left for its provider: history

observedVars == <<queueVars, runs, call, sent>>

Runs    == Payloads
Calls   == 1 .. 2 * Cases
Active  == {"queued", "running"}
Over    == {"complete", "failed", "canceled"}
RunRows == [status : Active \cup Over \cup {"none"}, definition : Definitions \cup {None},
            completed : 0 .. Cases, intents : [Calls -> {"none", "open", "acknowledged"}],
            receipts : SUBSET Calls]

ObservedTypeOK ==
  /\ QueueTypeOK
  /\ runs \in [Runs -> RunRows]
  /\ call \in [Workers -> 0 .. 2 * Cases]
  /\ sent \in [Runs -> [Calls -> Nat]]

NoRun == [status |-> "none", definition |-> None, completed |-> 0,
          intents |-> [c \in Calls |-> "none"], receipts |-> {}]

ObservedInit ==
  /\ QueueInit
  /\ runs = [r \in Runs |-> NoRun]
  /\ call = [w \in Workers |-> 0]
  /\ sent = [r \in Runs |-> [c \in Calls |-> 0]]

-----------------------------------------------------------------------------
IsActive(r) == runs[r].status \in Active

(* The checks, the run, its job and the audit entry are one transaction     *)
(* under the tenant's advisory lock.  Quotas are in TestBenchAdmission.     *)
Start(r, d) ==
  /\ runs[r].status = "none"
  /\ Cardinality({q \in Runs : IsActive(q)}) < Capacity
  /\ \A q \in Runs : runs[q].definition = d => ~IsActive(q)
  /\ runs' = [runs EXCEPT ![r].status = "queued", ![r].definition = d]
  /\ Enqueue(r, r)
  /\ UNCHANGED <<call, sent>>

(* A job that is still queued is failed with its run. *)
Dequeue(r) ==
  jobs' = [j \in Jobs |-> IF jobs[j].payload = r /\ jobs[j].status = "queued"
                          THEN [jobs[j] EXCEPT !.status = "failed", !.lease = "null"]
                          ELSE jobs[j]]

Cancel(r) ==
  /\ IsActive(r)
  /\ runs' = [runs EXCEPT ![r].status = "canceled"]
  /\ IF runs[r].status = "queued" THEN Dequeue(r) ELSE UNCHANGED jobs
  /\ UNCHANGED <<runner, mishaps, call, sent>>

-----------------------------------------------------------------------------
At(w, labels) == runner[w].at \in labels
RunOf(w)      == jobs[runner[w].job].payload

(* A statement took effect, and its reply arrives or is lost. *)
Replied(w, next, lost) ==
  \/ Goto(w, next) /\ UNCHANGED mishaps
  \/ Goto(w, lost) /\ Mishap

(* Less than 140 seconds of the budget are left. *)
OutOfTime(w) == At(w, {"working"}) /\ Release(w) /\ Mishap /\ UNCHANGED <<runs, call, sent>>

(* Mutant: a job that was claimed before is dropped without failing its run. *)
ExamineAndDrop(w) ==
  LET run == runs[RunOf(w)] IN
  /\ At(w, {"working"})
  /\ Goto(w, IF run.status \in Over \/ runner[w].attempts # 1 \/ run.status # "queued"
             THEN "done" ELSE "beginning")
  /\ UNCHANGED <<jobs, mishaps, runs, call, sent>>

(* beginJob, the read: a job that was claimed before is not executed again. *)
Examine(w) ==
  LET run == runs[RunOf(w)] IN
  /\ At(w, {"working"})
  /\ Goto(w, IF run.status \in Over THEN "done"
             ELSE IF runner[w].attempts # 1 \/ run.status # "queued" THEN "retiring"
             ELSE "beginning")
  /\ UNCHANGED <<jobs, mishaps, runs, call, sent>>

(* Mutant: the update does not ask for a queued run. *)
BeginAnyway(w) ==
  /\ At(w, {"beginning"})
  /\ runs' = [runs EXCEPT ![RunOf(w)].status = "running"]
  /\ call' = [call EXCEPT ![w] = 1]
  /\ Replied(w, "checking", "abandoning")
  /\ UNCHANGED <<jobs, sent>>

(* beginJob, the update of a queued run. *)
Begin(w) ==
  /\ At(w, {"beginning"})
  /\ IF runs[RunOf(w)].status = "queued"
     THEN /\ runs' = [runs EXCEPT ![RunOf(w)].status = "running"]
          /\ call' = [call EXCEPT ![w] = 1]
          /\ Replied(w, "checking", "abandoning")
     ELSE Goto(w, "done") /\ UNCHANGED <<mishaps, runs, call>>
  /\ UNCHANGED <<jobs, sent>>

(* The frozen cases do not decrypt, or not to what was promised. *)
SnapshotInvalid(w) ==
  /\ At(w, {"beginning"}) /\ Goto(w, "retiring")
  /\ UNCHANGED <<jobs, mishaps, runs, call, sent>>

(* ensureNotCanceled, before each case and each judge call. *)
EnsureNotCanceled(w) ==
  /\ At(w, {"checking"}) /\ runs[RunOf(w)].status = "running"
  /\ Goto(w, "intending")
  /\ UNCHANGED <<jobs, mishaps, runs, call, sent>>

CaseOf(c)   == (c + 1) \div 2
IsJudge(c)  == c % 2 = 0

(* The intent is durable before the call leaves. *)
Intend(w) ==
  LET r == RunOf(w)  c == call[w] IN
  /\ At(w, {"intending"})
  /\ runs[r].status = "running"
  /\ CaseOf(c) = runs[r].completed + 1
  /\ IsJudge(c) => c - 1 \in runs[r].receipts
  /\ runs[r].intents[c] = "none"
  /\ runs' = [runs EXCEPT ![r].intents[c] = "open"]
  /\ Replied(w, "calling", "abandoning")
  /\ UNCHANGED <<jobs, call, sent>>

Send(w) ==
  /\ At(w, {"calling"})
  /\ sent' = [sent EXCEPT ![RunOf(w)][call[w]] = @ + 1]
  /\ Goto(w, "waiting")
  /\ UNCHANGED <<jobs, mishaps, runs, call>>

Answer(w) ==
  /\ At(w, {"waiting"}) /\ Goto(w, "acknowledging")
  /\ UNCHANGED <<jobs, mishaps, runs, call, sent>>

(* Mutant: the receipt is written and the intent stays open. *)
AcknowledgeLate(w) ==
  LET r == RunOf(w)  c == call[w] IN
  /\ At(w, {"acknowledging"})
  /\ runs[r].status \in {"running", "canceled"}
  /\ runs' = [runs EXCEPT ![r].receipts = @ \cup {c}]
  /\ IF IsJudge(c)
     THEN Replied(w, "recording", "abandoning") /\ UNCHANGED call
     ELSE Replied(w, "checking", "abandoning") /\ call' = [call EXCEPT ![w] = @ + 1]
  /\ UNCHANGED <<jobs, sent>>

(* The receipt and the end of its intent are one transaction, also when the *)
(* run was canceled while the call was on its way.                          *)
Acknowledge(w) ==
  LET r == RunOf(w)  c == call[w] IN
  /\ At(w, {"acknowledging"})
  /\ runs[r].status \in {"running", "canceled"}
  /\ runs' = [runs EXCEPT ![r].receipts = @ \cup {c}, ![r].intents[c] = "acknowledged"]
  /\ IF IsJudge(c)
     THEN Replied(w, "recording", "abandoning") /\ UNCHANGED call
     ELSE Replied(w, "checking", "abandoning") /\ call' = [call EXCEPT ![w] = @ + 1]
  /\ UNCHANGED <<jobs, sent>>

(* Mutant: the last case is followed by another. *)
RecordCaseOnAndOn(w) ==
  LET r == RunOf(w)  i == CaseOf(call[w]) IN
  /\ At(w, {"recording"})
  /\ runs[r].status = "running" /\ runs[r].completed = i - 1
  /\ runs' = [runs EXCEPT ![r].completed = i]
  /\ Replied(w, "checking", "abandoning") /\ call' = [call EXCEPT ![w] = @ + 1]
  /\ UNCHANGED <<jobs, sent>>

(* recordCase: the next case is counted while the run is running. *)
RecordCase(w) ==
  LET r == RunOf(w)  i == CaseOf(call[w]) IN
  /\ At(w, {"recording"})
  /\ runs[r].status = "running" /\ runs[r].completed = i - 1
  /\ runs' = [runs EXCEPT ![r].completed = i]
  /\ IF i = Cases
     THEN Replied(w, "completing", "abandoning") /\ UNCHANGED call
     ELSE Replied(w, "checking", "abandoning") /\ call' = [call EXCEPT ![w] = @ + 1]
  /\ UNCHANGED <<jobs, sent>>

(* complete: a receipt for both phases of every case and no open intent. *)
Score(w) ==
  LET r == RunOf(w) IN
  /\ At(w, {"completing"})
  /\ runs[r].status = "running" /\ runs[r].completed = Cases
  /\ Cardinality(runs[r].receipts) = 2 * Cases
  /\ \A c \in Calls : runs[r].intents[c] # "open"
  /\ runs' = [runs EXCEPT ![r].status = "complete"]
  /\ Replied(w, "done", "abandoning")
  /\ UNCHANGED <<jobs, call, sent>>

(* What is thrown before the end of the try: a check fails, the call or its *)
(* answer is no good, a transaction is refused or fails.                     *)
Abandon(w) ==
  /\ At(w, Evaluating \cup {"beginning"}) /\ Goto(w, "abandoning")
  /\ UNCHANGED <<jobs, mishaps, runs, call, sent>>

(* fail, which an ended run ignores.  If it throws within beginJob it is     *)
(* called again, and then the handler throws.                               *)
FailRun(w) ==
  /\ At(w, {"retiring", "abandoning"})
  /\ runs' = [runs EXCEPT ![RunOf(w)].status = IF @ \in Active THEN "failed" ELSE @]
  /\ Replied(w, "done", IF At(w, {"retiring"}) THEN "abandoning" ELSE "failing")
  /\ UNCHANGED <<jobs, call, sent>>

(* fail is rolled back. *)
FailRunFails(w) ==
  /\ At(w, {"retiring", "abandoning"})
  /\ Goto(w, IF At(w, {"retiring"}) THEN "abandoning" ELSE "failing")
  /\ Mishap
  /\ UNCHANGED <<jobs, runs, call, sent>>

-----------------------------------------------------------------------------
Ends(w) ==
  \/ Examine(w) \/ Begin(w) \/ SnapshotInvalid(w) \/ EnsureNotCanceled(w) \/ Intend(w) \/ Send(w)
  \/ Answer(w) \/ Acknowledge(w) \/ RecordCase(w) \/ Score(w) \/ Abandon(w) \/ FailRun(w)

Handle(w) == Ends(w) \/ OutOfTime(w) \/ FailRunFails(w)

(* The loop around the handler; the worker's place goes with its job. *)
Around(w) ==
  /\ Loop(w) \/ Die(w)
  /\ call' = [call EXCEPT ![w] = IF runner'[w].at = "idle" THEN 0 ELSE @]
  /\ UNCHANGED <<runs, sent>>

LeaseEnds(j) == Expire(j) /\ UNCHANGED <<runs, call, sent>>

ObservedNext ==
  \/ \E r \in Runs : Cancel(r) \/ \E d \in Definitions : Start(r, d)
  \/ \E w \in Workers : Handle(w) \/ Around(w)
  \/ \E j \in Jobs : LeaseEnds(j)

(* As for the queue; a person never has to cancel. *)
ObservedFairness ==
  /\ \A w \in Workers : WF_observedVars(Ends(w)) /\ WF_observedVars(Loop(w) /\ Around(w))
  /\ \A j \in Jobs : WF_observedVars(LeaseEnds(j))

ObservedSpec == ObservedInit /\ [][ObservedNext]_observedVars /\ ObservedFairness
-----------------------------------------------------------------------------
(* The calls of a run, as ObservedOnce sees them. *)
Book == [r \in Runs |->
          [phase     |-> IF IsActive(r) THEN "open" ELSE runs[r].status,
           announced |-> {c \in Calls : runs[r].intents[c] # "none"},
           sent      |-> {c \in Calls : sent[r][c] > 0},
           confirmed |-> runs[r].receipts]]

Once == INSTANCE ObservedOnce WITH Total <- 2 * Cases, book <- Book

(* The run keeps its promises whatever becomes of its workers. *)
ImplementsOnce == Once!OnceSpec

(* No call leaves twice, neither from two workers nor from one; and every    *)
(* call that left is on record, confirmed or not, so what a run may have     *)
(* cost is never understated.  At most one is unconfirmed.                  *)
SpendIsRecorded ==
  \A r \in Runs :
    /\ \A c \in Calls : sent[r][c] <= IF runs[r].intents[c] = "none" THEN 0 ELSE 1
    /\ Cardinality({c \in Calls : runs[r].intents[c] = "open"}) <= 1

(* A job that completed leaves a run that is over: neither a crash between   *)
(* two transactions nor a cancellation makes the queue forget a run.        *)
CompletedJobEndsRun ==
  \A j \in Jobs : jobs[j].status = "complete" => ~IsActive(jobs[j].payload)

(* adr-0022, line 21: an uncertain retry becomes a failed run. *)
FailedJobEndsRun ==
  \A j \in Jobs : jobs[j].status = "failed" => ~IsActive(jobs[j].payload)
=============================================================================
