--------------------------- MODULE EvalJobs_proofs ---------------------------
(***************************************************************************)
(* Proofs about evaluation generation, for any number of runs, callers,    *)
(* workers and mishaps: its type, that a run has one evaluator, that a     *)
(* completed job leaves a settled run and that a scored run is not scored  *)
(* again.                                                                  *)
(***************************************************************************)
EXTENDS EvalJobs, JobQueue_proofs

LEMMA StagesOfEvaluation ==
  Stages = {"working", "loaded", "generating", "caught", "retrying"} /\ None \notin Payloads
BY EvalAssumption

-----------------------------------------------------------------------------
(* The queue below the runs.                                               *)

(* The steps of the handler that write no job. *)
Moves(w) ==
  Load(w) \/ Refuse(w) \/ Begin(w) \/ Settle(w) \/ GiveUp(w) \/ Requeue(w) \/ Throw(w)

LEMMA MovesGo ==
  ASSUME NEW w \in Workers, Moves(w)
  PROVE  /\ runner[w].at \in Stages
         /\ \E l \in Stages \cup {"done", "failing"} : Goto(w, l)
         /\ UNCHANGED <<jobs, caller>>
         /\ UNCHANGED mishaps \/ Mishap
<1> USE StagesOfEvaluation DEF At
<1>1. CASE Load(w) \/ Refuse(w) \/ Begin(w) \/ Throw(w)
  BY <1>1 DEF Load, Refuse, Begin, Throw
<1>2. CASE Settle(w) \/ GiveUp(w) \/ Requeue(w)
  BY <1>2 DEF Settle, GiveUp, Requeue
<1> QED
  BY <1>1, <1>2 DEF Moves

LEMMA HandlerHolder ==
  ASSUME HolderInv, NEW w \in Workers, Handle(w)
  PROVE  HolderInv'
<1>1. QueueTypeOK
  BY DEF HolderInv
<1>2. CASE Moves(w)
  BY <1>2, MovesGo, GotoHolder
<1>3. CASE OutOfTime(w) \/ ReleaseRetry(w)
  <2>1. runner[w].at \in Stages /\ Release(w) /\ (UNCHANGED mishaps \/ Mishap)
    BY <1>3, StagesOfEvaluation DEF OutOfTime, ReleaseRetry, At
  <2>2. QueueTypeOK'
    BY <1>1, <2>1, ReleaseType, MishapType DEF QueueTypeOK
  <2> QED
    BY <2>1, <2>2, ReleaseHolder
<1>4. CASE OnProgress(w)
  BY <1>4, StagesOfEvaluation, SaveHolder DEF OnProgress, At, Holders
<1> QED
  BY <1>2, <1>3, <1>4 DEF Handle, Ends, Moves

-----------------------------------------------------------------------------
(***************************************************************************)
(* Why a run has one evaluator.  A job is made for the run that its caller *)
(* has just created, so a run has at most one job; a job has at most one   *)
(* holder (HolderInv).  A holder past the load has a run that is not       *)
(* scored, and one that returned has a run that is settled: nobody else    *)
(* writes the status of a run that exists.                                 *)
(***************************************************************************)
JobsOfRuns ==
  /\ \A j \in Jobs : jobs[j].status # "none" =>
       jobs[j].payload \in Runs /\ runs[jobs[j].payload].status # "none"
  /\ \A i, j \in Jobs :
       /\ jobs[i].status # "none" /\ jobs[j].status # "none"
       /\ jobs[i].payload = jobs[j].payload
       => i = j
  /\ JobsExist

(* A caller about to insert has a run of its own, and no job has it yet.    *)
Entrusted(c) ==
  /\ caller[c].at \in {"creating", "enqueueing"} => caller[c].skill \in Skills
  /\ caller[c].at = "enqueueing" =>
       /\ caller[c].run \in Runs /\ runs[caller[c].run].status # "none"
       /\ \A j \in Jobs : jobs[j].status # "none" => jobs[j].payload # caller[c].run

OneCreator ==
  \A c, d \in Callers :
    caller[c].at = "enqueueing" /\ caller[d].at = "enqueueing" /\ caller[c].run = caller[d].run
      => c = d

Placed(w) ==
  /\ At(w, {"loaded", "generating"}) => runs[RunOf(w)].status \notin Scored
  /\ At(w, {"done"}) => runs[RunOf(w)].status \notin Unsettled

EvalInv ==
  /\ HolderInv /\ EvalTypeOK
  /\ JobsOfRuns
  /\ \A c \in Callers : Entrusted(c)
  /\ OneCreator
  /\ CompletedJobSettled
  /\ \A w \in Workers : Placed(w)

LEMMA EvalInvInit == EvalInit => EvalInv
<1> SUFFICES ASSUME EvalInit PROVE EvalInv
  OBVIOUS
<1>1. HolderInv
  BY HolderInit DEF EvalInit
<1>2. EvalTypeOK
  <2>1. NoRun \in RunRows /\ NoCall \in Calls
    BY DEF NoRun, RunRows, NoCall, Calls
  <2> QED
    BY <1>1, <2>1 DEF EvalInit, EvalTypeOK, HolderInv
<1>3. JobsOfRuns /\ CompletedJobSettled
  BY DEF EvalInit, QueueInit, NoRow, AtRest, JobsOfRuns, JobsExist, CompletedJobSettled
<1>4. \A c \in Callers : caller[c].at = "idle"
  BY DEF EvalInit, NoCall
<1>5. \A w \in Workers : runner[w].at = "idle"
  BY DEF EvalInit, QueueInit, AtRest
<1> QED
  BY <1>1, <1>2, <1>3, <1>4, <1>5 DEF EvalInv, Entrusted, OneCreator, Placed, At

(* The run of a worker that has a job. *)
LEMMA RunOfHolder ==
  ASSUME EvalInv, NEW w \in Workers, runner[w].at \in Stages \cup {"done", "failing"}
  PROVE  /\ runner[w].job \in Jobs /\ jobs[runner[w].job].status # "none"
         /\ RunOf(w) \in Runs /\ runs[RunOf(w)].status # "none"
<1>1. runner[w].job \in Jobs /\ runner[w].job # None
  BY StagesApart, QueueAssumption DEF EvalInv, EvalTypeOK, QueueTypeOK
<1> QED
  BY <1>1 DEF EvalInv, JobsOfRuns, JobsExist, RunOf

LEMMA OneEvaluatorOfInv == EvalInv => OneEvaluator
<1> SUFFICES ASSUME EvalInv, NEW v \in Holders, NEW w \in Holders, RunOf(v) = RunOf(w)
             PROVE  v = w
  BY DEF OneEvaluator
<1>1. /\ runner[v].job \in Jobs /\ jobs[runner[v].job].status # "none"
      /\ runner[w].job \in Jobs /\ jobs[runner[w].job].status # "none"
  BY RunOfHolder DEF Holders
<1>2. runner[v].job = runner[w].job
  BY <1>1 DEF EvalInv, JobsOfRuns, RunOf
<1> QED
  BY <1>2 DEF EvalInv, HolderInv, OneHolder

(* Steps that make no job and take no run off the books. *)
LEMMA JobsOfRunsKept ==
  ASSUME JobsOfRuns, SameJobs, JobsExist',
         \A r \in Runs : runs[r].status # "none" => runs'[r].status # "none"
  PROVE  JobsOfRuns'
BY DEF JobsOfRuns, SameJobs, KeptJobs

LEMMA CallersKept ==
  ASSUME EvalInv, SameJobs, UNCHANGED caller,
         \A r \in Runs : runs[r].status # "none" => runs'[r].status # "none"
  PROVE  OneCreator' /\ \A c \in Callers : Entrusted(c)'
BY DEF EvalInv, OneCreator, Entrusted, SameJobs, KeptJobs

-----------------------------------------------------------------------------
(* The handler writes the status of the run it executes. *)
LEMMA MovesRun ==
  ASSUME EvalInv, NEW w \in Workers, Moves(w)
  PROVE  /\ runs' \in [Runs -> RunRows]
         /\ \A q \in Runs : q # RunOf(w) => runs'[q] = runs[q]
         /\ runs'[RunOf(w)].status # "none"
         /\ \E l : /\ Goto(w, l)
                   /\ l \in {"loaded", "generating"} => runs'[RunOf(w)].status \notin Scored
                   /\ l = "done" => runs'[RunOf(w)].status \notin Unsettled
         /\ runs[RunOf(w)].status \in Scored =>
              \/ runs'[RunOf(w)].status = runs[RunOf(w)].status
              \/ runs'[RunOf(w)].status = "failed" /\ runner[w].at = "caught"
<1> DEFINE r == RunOf(w)
<1>1. /\ r \in Runs /\ runs[r].status # "none" /\ runs[r] \in RunRows
      /\ runs \in [Runs -> RunRows] /\ runner[w].job \in Jobs /\ Placed(w)
  BY MovesGo, RunOfHolder DEF EvalInv, EvalTypeOK
<1> HIDE DEF r
<1>2. ASSUME NEW s \in Unsettled \cup Scored \cup {"failed"},
             \/ runs' = [runs EXCEPT ![r].status = s]
             \/ runs' = [runs EXCEPT ![r].status = s, ![r].job = runner[w].job]
      PROVE  /\ runs' \in [Runs -> RunRows] /\ runs'[r].status = s
             /\ \A q \in Runs : q # r => runs'[q] = runs[q]
  <2>1. PICK row : /\ row \in {[runs[r] EXCEPT !.status = s],
                               [runs[r] EXCEPT !.status = s, !.job = runner[w].job]}
                   /\ runs' = [runs EXCEPT ![r] = row]
    <3>1. CASE runs' = [runs EXCEPT ![r].status = s]
      BY <1>1, <3>1
    <3>2. CASE runs' = [runs EXCEPT ![r].status = s, ![r].job = runner[w].job]
      BY <1>1, <3>2
    <3> QED
      BY <1>2, <3>1, <3>2
  <2>2. row \in RunRows /\ row.status = s
    BY <1>1, <2>1 DEF RunRows
  <2> QED
    BY <1>1, <2>1, <2>2
<1> USE DEF Unsettled, Scored
<1>3. CASE Load(w) \/ Throw(w)
  BY <1>1, <1>3 DEF Load, Throw, RunRows, r
<1>4. CASE Refuse(w) \/ GiveUp(w)
  <2>1. runs' = [runs EXCEPT ![r].status = "failed"] /\ (Goto(w, "done") \/ Goto(w, "failing"))
    BY <1>4 DEF Refuse, GiveUp, SetRun, r
  <2>2. runs[r].status \in Scored => runner[w].at = "caught"
    BY <1>1, <1>4 DEF Refuse, GiveUp, At, Placed, r
  <2> QED
    BY <1>1, <1>2, <2>1, <2>2 DEF r
<1>5. CASE Begin(w)
  <2>1. /\ runs' = [runs EXCEPT ![r].status = "running", ![r].job = runner[w].job]
        /\ Goto(w, "generating")
    BY <1>5 DEF Begin, r
  <2>2. runs[r].status \notin Scored
    BY <1>1, <1>5 DEF Begin, At, Placed, r
  <2> QED
    BY <1>1, <1>2, <2>1, <2>2 DEF r
<1>6. CASE Settle(w)
  <2>1. PICK s \in Scored : runs' = [runs EXCEPT ![r].status = s]
    BY <1>6 DEF Settle, SetRun, r
  <2>2. Goto(w, "done") \/ Goto(w, "caught")
    BY <1>6 DEF Settle
  <2>3. runs[r].status \notin Scored
    BY <1>1, <1>6 DEF Settle, At, Placed, r
  <2> QED
    BY <1>1, <1>2, <2>1, <2>2, <2>3 DEF r
<1>7. CASE Requeue(w)
  <2>1. runs' = [runs EXCEPT ![r].status = "queued"] /\ Goto(w, "retrying")
    BY <1>7 DEF Requeue, SetRun, r
  <2>2. runs[r].status \notin Scored
    BY <1>1, <1>7 DEF Requeue, At, Placed, r
  <2> QED
    BY <1>1, <1>2, <2>1, <2>2 DEF r
<1> QED
  BY <1>3, <1>4, <1>5, <1>6, <1>7 DEF Moves

LEMMA MovesInv ==
  ASSUME EvalInv, HolderInv', NEW w \in Workers, Moves(w)
  PROVE  EvalInv'
<1> DEFINE r == RunOf(w)
<1>1. /\ UNCHANGED <<jobs, caller>> /\ w \in Holders /\ QueueTypeOK
      /\ runner[w].job \in Jobs /\ jobs[runner[w].job].status # "none"
      /\ r \in Runs /\ runs[r].status # "none"
  BY MovesGo, RunOfHolder DEF Holders, EvalInv, EvalTypeOK
<1>2. PICK l : /\ Goto(w, l)
               /\ l \in {"loaded", "generating"} => runs'[r].status \notin Scored
               /\ l = "done" => runs'[r].status \notin Unsettled
  BY MovesRun
<1>3. /\ runs' \in [Runs -> RunRows] /\ runs'[r].status # "none"
      /\ \A q \in Runs : q # r => runs'[q] = runs[q]
  BY MovesRun
<1>4. /\ SameJobs
      /\ \A v \in Workers : v # w => runner'[v] = runner[v]
      /\ runner'[w].at = l /\ \A v \in Workers : runner'[v].job = runner[v].job
  BY <1>1, <1>2, GotoLeaves
<1>5. EvalTypeOK'
  BY <1>1, <1>3 DEF EvalInv, EvalTypeOK, HolderInv
<1>6. JobsOfRuns'
  BY <1>1, <1>3, <1>4, JobsOfRunsKept DEF EvalInv, JobsOfRuns, JobsExist
<1>7. OneCreator' /\ \A c \in Callers : Entrusted(c)'
  BY <1>1, <1>3, <1>4, CallersKept
<1>8. CompletedJobSettled'
  <2> SUFFICES ASSUME NEW j \in Jobs, jobs[j].status = "complete"
               PROVE  runs'[jobs[j].payload].status \notin Unsettled
    BY <1>1 DEF CompletedJobSettled
  <2>1. jobs[j].payload \in Runs /\ runs[jobs[j].payload].status \notin Unsettled
    BY DEF EvalInv, CompletedJobSettled, JobsOfRuns
  <2>2. j # runner[w].job
    BY <1>1 DEF EvalInv, HolderInv, OutOfReach
  <2>3. jobs[j].payload # r
    BY <1>1, <2>2 DEF EvalInv, JobsOfRuns, RunOf
  <2> QED
    BY <1>3, <2>1, <2>3
<1>9. \A v \in Workers : RunOf(v)' = RunOf(v)
  BY <1>1, <1>4 DEF RunOf
<1>10. Placed(w)'
  BY <1>2, <1>4, <1>9 DEF Placed, At
<1>11. ASSUME NEW v \in Workers, v # w PROVE Placed(v)'
  <2> SUFFICES ASSUME At(v, {"loaded", "generating", "done"}) PROVE Placed(v)'
    BY <1>4, <1>11 DEF Placed, At
  <2>1. v \in Holders /\ RunOf(v) \in Runs
    BY StagesOfEvaluation, RunOfHolder DEF At, Holders
  <2>2. RunOf(v) # r
    BY <1>1, <1>11, <2>1, OneEvaluatorOfInv DEF OneEvaluator
  <2> QED
    BY <1>3, <1>4, <1>9, <1>11, <2>1, <2>2 DEF EvalInv, Placed, At
<1> QED
  BY <1>5, <1>6, <1>7, <1>8, <1>10, <1>11 DEF EvalInv

(* Steps of the loop and of time leave the runs alone. *)
LEMMA RunsKept ==
  ASSUME EvalInv, HolderInv', UNCHANGED <<runs, caller>>, SameJobs, JobsExist',
         \A v \in Workers : At(v, {"loaded", "generating", "done"})' => runner'[v] = runner[v],
         \A j \in Jobs : jobs'[j].status = "complete" =>
           jobs[j].status = "complete" \/ runs[jobs[j].payload].status \notin Unsettled
  PROVE  EvalInv'
<1>1. EvalTypeOK' /\ JobsOfRuns /\ JobsOfRuns'
  BY JobsOfRunsKept DEF EvalInv, EvalTypeOK, HolderInv
<1>2. OneCreator' /\ \A c \in Callers : Entrusted(c)'
  BY CallersKept
<1>3. CompletedJobSettled'
  BY DEF EvalInv, CompletedJobSettled, SameJobs, KeptJobs
<1>4. ASSUME NEW v \in Workers PROVE Placed(v)'
  <2> SUFFICES ASSUME At(v, {"loaded", "generating", "done"})' PROVE Placed(v)'
    BY DEF Placed, At
  <2>1. runner'[v] = runner[v] /\ runner[v].at \in Stages \cup {"done", "failing"}
    BY StagesOfEvaluation DEF At
  <2>2. RunOf(v)' = RunOf(v)
    BY <2>1, RunOfHolder DEF RunOf, SameJobs, KeptJobs
  <2> QED
    BY <2>1, <2>2 DEF EvalInv, Placed, At
<1> QED
  BY <1>1, <1>2, <1>3, <1>4 DEF EvalInv

LEMMA LoopInv ==
  ASSUME EvalInv, HolderInv', NEW w \in Workers, Around(w) \/ OutOfTime(w) \/ ReleaseRetry(w)
  PROVE  EvalInv'
<1>1. QueueTypeOK /\ JobsExist /\ UNCHANGED <<runs, caller>>
  BY DEF EvalInv, EvalTypeOK, JobsOfRuns, Around, OutOfTime, ReleaseRetry
<1>2. Loop(w) \/ Die(w) \/ (Release(w) /\ runner[w].at \in Stages)
  BY StagesOfEvaluation DEF Around, OutOfTime, ReleaseRetry, At
<1>3. /\ SameJobs
      /\ \A v \in Workers : v # w => runner'[v] = runner[v]
      /\ runner'[w].at \in {"idle", "claiming", "working", "failing"}
      /\ \/ runner'[w].job \in {runner[w].job, None}
         \/ runner'[w].job \in Jobs /\ jobs[runner'[w].job].status # "none"
  BY <1>1, <1>2, LoopLeaves
<1>4. JobsExist'
  <2>1. \A v \in Workers : runner[v].job \in Jobs \cup {None} /\ runner'[v].job \in Jobs \cup {None}
    BY DEF EvalInv, HolderInv, QueueTypeOK, Runners
  <2> QED
    BY <1>1, <1>3, <2>1 DEF JobsExist, SameJobs, KeptJobs
<1>5. ASSUME NEW j \in Jobs, jobs'[j].status = "complete", jobs[j].status # "complete"
      PROVE  runs[jobs[j].payload].status \notin Unsettled
  <2>1. runner[w].at = "done" /\ j = runner[w].job
    BY <1>1, <1>2, <1>5, OnlyCompleted
  <2> QED
    BY <2>1 DEF EvalInv, Placed, At, RunOf
<1> QED
  BY <1>1, <1>3, <1>4, <1>5, RunsKept DEF At

LEMMA QuietInv ==
  ASSUME EvalInv, HolderInv',
         \/ \E w \in Workers : OnProgress(w)
         \/ \E j \in Jobs : LeaseEnds(j)
         \/ UNCHANGED evalVars
  PROVE  EvalInv'
<1>1. QueueTypeOK /\ JobsExist /\ \A w \in Workers : runner[w].job \in Jobs \cup {None}
  BY DEF EvalInv, EvalTypeOK, JobsOfRuns, QueueTypeOK, Runners
<1>2. UNCHANGED <<runner, runs, caller>>
  BY DEF OnProgress, LeaseEnds, Expire, evalVars, queueVars
<1>3. \A j \in Jobs : jobs'[j].status = jobs[j].status /\ jobs'[j].payload = jobs[j].payload
  <2>1. ASSUME NEW w \in Workers, OnProgress(w)
        PROVE  \A j \in Jobs : jobs'[j].status = jobs[j].status /\ jobs'[j].payload = jobs[j].payload
    BY <2>1, StagesOfEvaluation, SaveHolder DEF OnProgress, At, Holders, EvalInv
  <2>2. ASSUME NEW i \in Jobs, LeaseEnds(i)
        PROVE  \A j \in Jobs : jobs'[j].status = jobs[j].status /\ jobs'[j].payload = jobs[j].payload
    BY <1>1, <2>2 DEF LeaseEnds, Expire, QueueTypeOK, Rows
  <2> QED
    BY <2>1, <2>2 DEF evalVars, queueVars
<1>4. SameJobs /\ JobsExist'
  BY <1>1, <1>2, <1>3 DEF SameJobs, KeptJobs, JobsExist
<1> QED
  BY <1>2, <1>3, <1>4, RunsKept

-----------------------------------------------------------------------------
(* The calls of queueEvalGeneration. *)

(* A call that writes no job and is not about to. *)
LEMMA CallerStep ==
  ASSUME EvalInv, HolderInv', NEW c \in Callers,
         UNCHANGED <<jobs, runner>>, runs' \in [Runs -> RunRows],
         \A r \in Runs : runs'[r].status = runs[r].status,
         NEW row \in Calls, caller' = [caller EXCEPT ![c] = row],
         row.at # "enqueueing", row.at = "creating" => row.skill \in Skills
  PROVE  EvalInv'
<1>1. EvalTypeOK' /\ JobsOfRuns
  BY DEF EvalInv, EvalTypeOK, HolderInv
<1>2. JobsOfRuns' /\ CompletedJobSettled'
  BY <1>1 DEF EvalInv, CompletedJobSettled, JobsOfRuns, JobsExist
<1>3. caller'[c] = row /\ \A d \in Callers : d # c => caller'[d] = caller[d]
  BY DEF EvalInv, EvalTypeOK
<1>4. OneCreator' /\ \A d \in Callers : Entrusted(d)'
  BY <1>3 DEF EvalInv, OneCreator, Entrusted
<1>5. ASSUME NEW w \in Workers PROVE Placed(w)'
  <2> SUFFICES ASSUME At(w, {"loaded", "generating", "done"}) PROVE Placed(w)'
    BY DEF Placed, At
  <2>1. RunOf(w)' = RunOf(w) /\ RunOf(w) \in Runs
    BY StagesOfEvaluation, RunOfHolder DEF At, RunOf
  <2> QED
    BY <2>1 DEF EvalInv, Placed, At
<1> QED
  BY <1>1, <1>2, <1>4, <1>5 DEF EvalInv

LEMMA QuietCaller ==
  ASSUME EvalInv, HolderInv', NEW c \in Callers,
         \/ \E k \in Skills : Ask(c, k)
         \/ EnqueueRun(c) /\ UNCHANGED jobs
         \/ SelectLive(c) \/ RecordJob(c) \/ CallFails(c)
  PROVE  EvalInv'
<1>1. caller[c] \in Calls /\ runs \in [Runs -> RunRows] /\ caller \in [Callers -> Calls]
  BY DEF EvalInv, EvalTypeOK
<1>2. NoCall \in Calls /\ NoCall.at = "idle"
  BY DEF NoCall, Calls
<1>3. ASSUME NEW k \in Skills, Ask(c, k) PROVE EvalInv'
  <2> DEFINE row == [NoCall EXCEPT !.at = "creating", !.skill = k]
  <2>1. row \in Calls /\ row.at = "creating" /\ row.skill = k
    BY DEF NoCall, Calls
  <2>2. UNCHANGED <<jobs, runner, runs>> /\ caller' = [caller EXCEPT ![c] = row]
    BY <1>3 DEF Ask, queueVars
  <2> HIDE DEF row
  <2> QED
    BY <1>1, <1>3, <2>1, <2>2, CallerStep
<1>4. CASE EnqueueRun(c) /\ UNCHANGED jobs
  <2> DEFINE row == [caller[c] EXCEPT !.at = "selecting"]
  <2>1. row \in Calls /\ row.at = "selecting"
    BY <1>1 DEF Calls
  <2>2. UNCHANGED <<runner, runs>> /\ caller' = [caller EXCEPT ![c] = row]
    BY <1>1, <1>4 DEF EnqueueRun, Enqueue, queueVars
  <2> HIDE DEF row
  <2> QED
    BY <1>1, <1>4, <2>1, <2>2, CallerStep
<1>5. CASE SelectLive(c)
  <2>1. UNCHANGED <<jobs, runner, runs>>
    BY <1>5 DEF SelectLive, queueVars
  <2>2. ASSUME NEW j \in Jobs, caller' = [caller EXCEPT ![c].at = "recording", ![c].job = j]
        PROVE  EvalInv'
    <3> DEFINE row == [caller[c] EXCEPT !.at = "recording", !.job = j]
    <3>1. row \in Calls /\ row.at = "recording"
      BY <1>1 DEF Calls
    <3>2. caller' = [caller EXCEPT ![c] = row]
      BY <1>1, <2>2
    <3> HIDE DEF row
    <3> QED
      BY <1>1, <2>1, <3>1, <3>2, CallerStep
  <2> QED
    BY <1>1, <1>2, <1>5, <2>1, <2>2, CallerStep DEF SelectLive
<1>6. CASE RecordJob(c)
  <2> DEFINE q == caller[c].run
  <2>1. \A r \in Runs : [runs[r] EXCEPT !.job = caller[c].job] \in RunRows
    BY <1>1 DEF RunRows, Calls
  <2>2. /\ runs' \in [Runs -> RunRows]
        /\ \A r \in Runs : runs'[r].status = runs[r].status
    BY <1>1, <1>6, <2>1 DEF RecordJob, RunRows
  <2>3. UNCHANGED <<jobs, runner>> /\ caller' = [caller EXCEPT ![c] = NoCall]
    BY <1>6 DEF RecordJob, queueVars
  <2> QED
    BY <1>2, <2>2, <2>3, CallerStep
<1>7. CASE CallFails(c)
  BY <1>1, <1>2, <1>7, CallerStep DEF CallFails
<1> QED
  BY <1>3, <1>4, <1>5, <1>6, <1>7

(* A run is created by one caller and nothing refers to it yet. *)
LEMMA CreateInv ==
  ASSUME EvalInv, HolderInv', NEW c \in Callers, Create(c)
  PROVE  EvalInv'
<1> DEFINE new(r) == [status |-> "queued", skill |-> caller[c].skill, job |-> None]
           row(r) == [caller[c] EXCEPT !.at = "enqueueing", !.run = r]
<1>1. /\ caller[c] \in Calls /\ runs \in [Runs -> RunRows] /\ caller \in [Callers -> Calls]
      /\ caller[c].at = "creating" /\ caller[c].skill \in Skills /\ QueueTypeOK
  BY DEF EvalInv, EvalTypeOK, Entrusted, Create
<1>2. PICK r \in Runs : /\ runs[r].status = "none" /\ runs' = [runs EXCEPT ![r] = new(r)]
                        /\ caller' = [caller EXCEPT ![c] = row(r)]
  BY <1>1 DEF Create
<1>3. /\ new(r) \in RunRows /\ new(r).status = "queued" /\ row(r) \in Calls
      /\ row(r).at = "enqueueing" /\ row(r).run = r /\ row(r).skill = caller[c].skill
  BY <1>1 DEF RunRows, Calls, Unsettled
<1> HIDE DEF new, row
<1>4. /\ runs' \in [Runs -> RunRows] /\ runs'[r].status = "queued"
      /\ \A q \in Runs : q # r => runs'[q] = runs[q]
      /\ caller' \in [Callers -> Calls] /\ caller'[c] = row(r)
      /\ \A d \in Callers : d # c => caller'[d] = caller[d]
      /\ UNCHANGED <<jobs, runner>>
  BY <1>1, <1>2, <1>3 DEF Create, queueVars
<1>5. EvalTypeOK'
  BY <1>4 DEF EvalTypeOK, HolderInv
<1>6. /\ \A j \in Jobs : jobs[j].status # "none" => jobs[j].payload \in Runs \ {r}
      /\ \A d \in Callers : caller[d].at = "enqueueing" => caller[d].run \in Runs \ {r}
  BY <1>2 DEF EvalInv, JobsOfRuns, Entrusted
<1>7. JobsOfRuns' /\ CompletedJobSettled'
  BY <1>4, <1>6 DEF EvalInv, JobsOfRuns, JobsExist, CompletedJobSettled
<1>8. OneCreator' /\ \A d \in Callers : Entrusted(d)'
  BY <1>1, <1>3, <1>4, <1>6 DEF EvalInv, OneCreator, Entrusted
<1>9. ASSUME NEW w \in Workers PROVE Placed(w)'
  <2> SUFFICES ASSUME At(w, {"loaded", "generating", "done"}) PROVE Placed(w)'
    BY <1>4 DEF Placed, At
  <2>1. RunOf(w)' = RunOf(w) /\ RunOf(w) \in Runs /\ runs[RunOf(w)].status # "none"
    BY <1>4, StagesOfEvaluation, RunOfHolder DEF At, RunOf
  <2> QED
    BY <1>2, <1>4, <2>1 DEF EvalInv, Placed, At
<1> QED
  BY <1>5, <1>7, <1>8, <1>9 DEF EvalInv

(* The job is made for the caller's own run. *)
LEMMA InsertInv ==
  ASSUME EvalInv, HolderInv', NEW c \in Callers, EnqueueRun(c), jobs' # jobs
  PROVE  EvalInv'
<1>1. /\ caller[c] \in Calls /\ caller \in [Callers -> Calls] /\ caller[c].at = "enqueueing"
      /\ caller[c].run \in Runs /\ runs[caller[c].run].status # "none"
      /\ \A j \in Jobs : jobs[j].status # "none" => jobs[j].payload # caller[c].run
      /\ QueueTypeOK /\ JobsOfRuns
  BY DEF EvalInv, EvalTypeOK, Entrusted, EnqueueRun
<1>2. /\ Enqueue(caller[c].skill, caller[c].run) /\ UNCHANGED runs
      /\ \E j \in Jobs : caller' = [caller EXCEPT ![c].at = "recording", ![c].job = j]
  BY DEF EnqueueRun, queueVars
<1>3. PICK j \in Jobs :
        /\ jobs[j].status = "none"
        /\ jobs' = [jobs EXCEPT ![j] = [status |-> "queued", key |-> caller[c].skill,
                                        payload |-> caller[c].run, attempts |-> 0, lease |-> "null"]]
  BY <1>2 DEF Enqueue, Insert
<1>4. /\ jobs'[j].status = "queued" /\ jobs'[j].payload = caller[c].run
      /\ \A i \in Jobs : i # j => jobs'[i] = jobs[i]
      /\ UNCHANGED runner
  BY <1>1, <1>2, <1>3 DEF Enqueue, QueueTypeOK
<1>5. /\ caller' \in [Callers -> Calls] /\ caller'[c].at = "recording"
      /\ \A d \in Callers : d # c => caller'[d] = caller[d]
  <2>1. PICK i \in Jobs : caller' = [caller EXCEPT ![c].at = "recording", ![c].job = i]
    BY <1>2
  <2>2. /\ [caller[c] EXCEPT !.at = "recording", !.job = i] \in Calls
        /\ [caller[c] EXCEPT !.at = "recording", !.job = i].at = "recording"
    BY <1>1 DEF Calls
  <2>3. caller' = [caller EXCEPT ![c] = [caller[c] EXCEPT !.at = "recording", !.job = i]]
    BY <1>1, <2>1
  <2> QED
    BY <1>1, <2>2, <2>3
<1>6. EvalTypeOK'
  BY <1>2, <1>5 DEF EvalInv, EvalTypeOK, HolderInv
<1>7. JobsOfRuns'
  BY <1>1, <1>2, <1>3, <1>4 DEF JobsOfRuns, JobsExist
<1>8. CompletedJobSettled'
  BY <1>2, <1>4 DEF EvalInv, CompletedJobSettled
<1>9. OneCreator' /\ \A d \in Callers : Entrusted(d)'
  BY <1>1, <1>2, <1>4, <1>5 DEF EvalInv, OneCreator, Entrusted
<1>10. ASSUME NEW w \in Workers PROVE Placed(w)'
  <2> SUFFICES ASSUME At(w, {"loaded", "generating", "done"}) PROVE Placed(w)'
    BY <1>4 DEF Placed, At
  <2>1. RunOf(w)' = RunOf(w)
    BY <1>3, <1>4, StagesOfEvaluation, RunOfHolder DEF At, RunOf
  <2> QED
    BY <1>2, <1>4, <2>1 DEF EvalInv, Placed, At
<1> QED
  BY <1>6, <1>7, <1>8, <1>9, <1>10 DEF EvalInv

LEMMA EvalHolder == EvalInv /\ [EvalNext]_evalVars => HolderInv'
<1> SUFFICES ASSUME EvalInv, [EvalNext]_evalVars PROVE HolderInv'
  OBVIOUS
<1>1. HolderInv /\ QueueTypeOK
  BY DEF EvalInv, HolderInv
<1>2. CASE UNCHANGED <<jobs, runner>> /\ (UNCHANGED mishaps \/ Mishap)
  BY <1>1, <1>2, MishapType DEF HolderInv, QueueTypeOK, OneHolder, Holders, OutOfReach
<1>3. ASSUME NEW c \in Callers, Call(c) PROVE HolderInv'
  <2>1. CASE EnqueueRun(c)
    BY <1>1, <1>2, <2>1, EnqueueHolder DEF EnqueueRun, EvalInv, Entrusted, Runs, Skills, queueVars
  <2>2. CASE ~EnqueueRun(c)
    BY <1>2, <1>3, <2>2 DEF Call, Ask, Create, SelectLive, RecordJob, CallFails, queueVars
  <2> QED
    BY <2>1, <2>2
<1>4. ASSUME NEW w \in Workers, Handle(w) \/ Around(w) PROVE HolderInv'
  BY <1>1, <1>4, HandlerHolder, LoopHolder, DieHolder DEF Around
<1>5. ASSUME NEW j \in Jobs, LeaseEnds(j) PROVE HolderInv'
  BY <1>1, <1>5, ExpireHolder DEF LeaseEnds
<1> QED
  BY <1>2, <1>3, <1>4, <1>5 DEF EvalNext, evalVars, queueVars

LEMMA EvalStep == EvalInv /\ [EvalNext]_evalVars => EvalInv'
<1> SUFFICES ASSUME EvalInv, [EvalNext]_evalVars PROVE EvalInv'
  OBVIOUS
<1>1. HolderInv'
  BY EvalHolder
<1>2. ASSUME NEW c \in Callers, Call(c) PROVE EvalInv'
  BY <1>1, <1>2, QuietCaller, CreateInv, InsertInv DEF Call
<1>3. ASSUME NEW w \in Workers, Handle(w) PROVE EvalInv'
  BY <1>1, <1>3, MovesInv, LoopInv, QuietInv DEF Handle, Ends, Moves
<1>4. ASSUME NEW w \in Workers, Around(w) PROVE EvalInv'
  BY <1>1, <1>4, LoopInv
<1>5. CASE (\E j \in Jobs : LeaseEnds(j)) \/ UNCHANGED evalVars
  BY <1>1, <1>5, QuietInv
<1> QED
  BY <1>2, <1>3, <1>4, <1>5 DEF EvalNext

(***************************************************************************)
(* The calls, the runs, the jobs and the workers keep their types.         *)
(***************************************************************************)
THEOREM EvaluationsTyped == EvalSpec => []EvalTypeOK
<1>1. EvalInv => EvalTypeOK
  BY DEF EvalInv
<1> QED
  BY <1>1, EvalInvInit, EvalStep, PTL DEF EvalSpec

(***************************************************************************)
(* A run is evaluated by one worker at a time, through releases, deaths    *)
(* and reclaims, whichever callers asked for its skill at once.            *)
(***************************************************************************)
THEOREM EvaluatedByOne == EvalSpec => []OneEvaluator
BY OneEvaluatorOfInv, EvalInvInit, EvalStep, PTL DEF EvalSpec

(***************************************************************************)
(* A job that completed leaves a run that is settled.                      *)
(***************************************************************************)
THEOREM CompletedSettled == EvalSpec => []CompletedJobSettled
<1>1. EvalInv => CompletedJobSettled
  BY Zenon DEF EvalInv
<1> QED
  BY <1>1, EvalInvInit, EvalStep, PTL DEF EvalSpec

(* What a step may do to a run that was scored. *)
LEMMA ScoredStep ==
  ASSUME EvalInv, [EvalNext]_evalVars, NEW r \in Runs, runs[r].status \in Scored
  PROVE  \/ runs'[r].status = runs[r].status
         \/ /\ runs'[r].status = "failed"
            /\ \E w \in Workers : runner[w].at = "caught" /\ RunOf(w) = r
<1>1. ASSUME NEW w \in Workers, Moves(w)
      PROVE  \/ runs'[r].status = runs[r].status
             \/ runs'[r].status = "failed" /\ runner[w].at = "caught" /\ RunOf(w) = r
  BY <1>1, MovesRun
<1>2. ASSUME NEW c \in Callers, Create(c) PROVE runs'[r].status = runs[r].status
  BY <1>2 DEF Create, Scored, EvalInv, EvalTypeOK
<1>3. ASSUME NEW c \in Callers, RecordJob(c) PROVE runs'[r].status = runs[r].status
  BY <1>3 DEF RecordJob, EvalInv, EvalTypeOK, RunRows
<1>4. CASE UNCHANGED runs
  BY <1>4
<1> QED
  BY <1>1, <1>2, <1>3, <1>4
     DEF EvalNext, evalVars, Call, Ask, EnqueueRun, SelectLive, CallFails, Handle, Ends, Moves,
         OutOfTime, ReleaseRetry, OnProgress, Around, LeaseEnds

(***************************************************************************)
(* A run that was scored is never evaluated again: only the worker that    *)
(* scored it can still call it failed, when its update's reply was lost.   *)
(***************************************************************************)
THEOREM ScoredForGood == EvalSpec => ScoredNotReopened
<1>1. EvalInv /\ [EvalNext]_evalVars =>
        [\A r \in Runs : runs[r].status \in Scored =>
           \/ runs'[r].status = runs[r].status
           \/ /\ runs'[r].status = "failed"
              /\ \E w \in Workers : runner[w].at = "caught" /\ RunOf(w) = r]_evalVars
  BY ScoredStep
<1> QED
  BY <1>1, EvalInvInit, EvalStep, PTL DEF EvalSpec, ScoredNotReopened

-----------------------------------------------------------------------------
(* Neither a caller nor a handler ends a job or takes one from its holder.  *)
LEMMA EvalLost ==
  ASSUME EvalInv, EvalInv', LostInv, [EvalNext]_evalVars
  PROVE  LostInv' /\ EndsSoundly
<1>0. HolderInv'
  BY DEF EvalInv
<1>1. ASSUME [QueueNext]_queueVars PROVE LostInv' /\ EndsSoundly
  BY <1>1, LostStep, QueueEndsSoundly
<1>2. ASSUME UNCHANGED <<jobs, runner>> PROVE LostInv' /\ EndsSoundly
  <2>1. Lost'
    BY <1>2 DEF LostInv, Lost, Expired
  <2> QED
    BY <1>0, <1>2, <2>1 DEF LostInv, EndsSoundly
<1>3. ASSUME NEW c \in Callers, Call(c) PROVE LostInv' /\ EndsSoundly
  <2>1. CASE \/ \E k \in Skills : Ask(c, k)
             \/ Create(c) \/ SelectLive(c) \/ RecordJob(c) \/ CallFails(c)
    BY <1>2, <2>1 DEF Ask, Create, SelectLive, RecordJob, CallFails, queueVars
  <2>2. CASE EnqueueRun(c)
    <3>1. caller[c].skill \in Keys /\ caller[c].run \in Payloads
      BY <2>2 DEF EnqueueRun, EvalInv, Entrusted, Runs, Skills
    <3> QED
      BY <1>1, <2>2, <3>1 DEF EnqueueRun, QueueNext, queueVars
  <2> QED
    BY <1>3, <2>1, <2>2 DEF Call
<1>4. ASSUME NEW w \in Workers, Around(w) PROVE QueueNext
  BY <1>4 DEF Around, QueueNext
<1>5. ASSUME NEW j \in Jobs, LeaseEnds(j) PROVE QueueNext
  BY <1>5 DEF LeaseEnds, QueueNext
<1>6. ASSUME NEW w \in Workers, Handle(w) PROVE Lost' /\ EndsSoundly
  <2>1. CASE Moves(w)
    BY <2>1, MovesGo, HandlerLost
  <2>2. CASE OutOfTime(w) \/ ReleaseRetry(w) \/ OnProgress(w)
    BY <2>2, StagesOfEvaluation, HandlerLost DEF OutOfTime, ReleaseRetry, OnProgress, At
  <2> QED
    BY <1>6, <2>1, <2>2 DEF Handle, Ends, Moves
<1>7. CASE UNCHANGED evalVars
  BY <1>2, <1>7 DEF evalVars, queueVars
<1> QED
  BY <1>0, <1>1, <1>3, <1>4, <1>5, <1>6, <1>7 DEF EvalNext, LostInv

(***************************************************************************)
(* A job that completed stays complete and a running one is not failed     *)
(* under its worker, whatever executeEvaluationJob and the callers that    *)
(* enqueue do: what the queue promises of any handler holds of this one,   *)
(* which also releases in its catch.                                       *)
(***************************************************************************)
THEOREM EvaluationJobsEndSoundly == EvalSpec => CompletedStays /\ FailedOnlyWhenLost
<1> DEFINE Both == EvalInv /\ LostInv
<1>1. EvalInit => Both
  BY EvalInvInit, LostInit DEF EvalInit
<1>2. Both /\ [EvalNext]_evalVars => Both' /\ EndsSoundly
  BY EvalStep, EvalLost
<1>3. Both /\ [EvalNext]_evalVars =>
        /\ [\A j \in Jobs : jobs[j].status = "complete" /\ jobs'[j].status # "complete" =>
              LateReply(j)]_queueVars
        /\ [\A j \in Jobs : jobs[j].status = "running" /\ jobs'[j].status = "failed" =>
              FailureIsOwn(j)]_queueVars
  BY <1>2 DEF EndsSoundly
<1> QED
  BY <1>1, <1>2, <1>3, PTL DEF EvalSpec, CompletedStays, FailedOnlyWhenLost, LateReply, FailureIsOwn
=============================================================================
