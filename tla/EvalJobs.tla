------------------------------ MODULE EvalJobs ------------------------------
(***************************************************************************)
(* Evaluation generation: how a run is admitted (queueEvalGeneration in    *)
(* server/jobs/enqueue.ts) and how a worker executes it                    *)
(* (runEvalGeneration in runner.ts), over the job queue.                   *)
(*                                                                         *)
(* The run (eval_generation_runs) and its job are two rows that no         *)
(* transaction spans: each step below is one statement.  The generator,    *)
(* the provider and the repository are nondeterministic.                   *)
(***************************************************************************)
EXTENDS JobQueue

CONSTANTS
  Callers,     \* concurrent calls of queueEvalGeneration
  RetryBelow   \* a provider error is retried while attempts are below it, 3 in the code

ASSUME EvalAssumption ==
  /\ RetryBelow \in Nat
  /\ Stages = {"working", "loaded", "generating", "caught", "retrying"}
  /\ None \notin Payloads

VARIABLES
  runs,   \* eval_generation_runs
  caller  \* each call: where it is, its skill, the run it created and its job

evalVars == <<queueVars, runs, caller>>

Runs       == Payloads   \* a job's payload is the run it executes
Skills     == Keys       \* and its key is the skill
Scored     == {"complete", "needs_review"}
Unsettled  == {"queued", "running"}
RunRows    == [status : Unsettled \cup Scored \cup {"none", "failed"},
               skill : Skills \cup {None}, job : Jobs \cup {None}]
Calls      == [at : {"idle", "creating", "enqueueing", "selecting", "recording"},
               skill : Skills \cup {None}, run : Runs \cup {None}, job : Jobs \cup {None}]

EvalTypeOK ==
  /\ QueueTypeOK
  /\ runs \in [Runs -> RunRows]
  /\ caller \in [Callers -> Calls]

NoRun  == [status |-> "none", skill |-> None, job |-> None]
NoCall == [at |-> "idle", skill |-> None, run |-> None, job |-> None]

EvalInit ==
  /\ QueueInit
  /\ runs = [r \in Runs |-> NoRun]
  /\ caller = [c \in Callers |-> NoCall]

-----------------------------------------------------------------------------
(* active: an unsettled run of the skill is returned instead of a new one. *)
Ask(c, k) ==
  /\ caller[c].at = "idle"
  /\ \A r \in Runs : runs[r].skill = k => runs[r].status \notin Unsettled
  /\ caller' = [caller EXCEPT ![c] = [NoCall EXCEPT !.at = "creating", !.skill = k]]
  /\ UNCHANGED <<queueVars, runs>>

Create(c) ==
  /\ caller[c].at = "creating"
  /\ \E r \in Runs :
       /\ runs[r].status = "none"
       /\ runs' = [runs EXCEPT ![r] = [status |-> "queued", skill |-> caller[c].skill,
                                       job |-> None]]
       /\ caller' = [caller EXCEPT ![c].at = "enqueueing", ![c].run = r]
  /\ UNCHANGED queueVars

(* The insert: the run is the job's payload, or there is a live job already. *)
EnqueueRun(c) ==
  /\ caller[c].at = "enqueueing"
  /\ \/ /\ Enqueue(caller[c].skill, caller[c].run)
        /\ \E j \in Jobs : /\ jobs'[j] # jobs[j]
                           /\ caller' = [caller EXCEPT ![c].at = "recording", ![c].job = j]
     \/ /\ ~KeyFree(caller[c].skill)
        /\ caller' = [caller EXCEPT ![c].at = "selecting"]
        /\ UNCHANGED queueVars
  /\ UNCHANGED runs

(* The lookup of the live job that stood in the way; it may be gone.         *)
SelectLive(c) ==
  LET found == {j \in Jobs : jobs[j].key = caller[c].skill /\ jobs[j].status \in Live} IN
  /\ caller[c].at = "selecting"
  /\ \/ \E j \in found : caller' = [caller EXCEPT ![c].at = "recording", ![c].job = j]
     \/ found = {} /\ caller' = [caller EXCEPT ![c] = NoCall]
  /\ UNCHANGED <<queueVars, runs>>

RecordJob(c) ==
  /\ caller[c].at = "recording"
  /\ runs' = [runs EXCEPT ![caller[c].run].job = caller[c].job]
  /\ caller' = [caller EXCEPT ![c] = NoCall]
  /\ UNCHANGED queueVars

(* A statement of the call fails, or its process dies. *)
CallFails(c) ==
  /\ caller[c].at # "idle"
  /\ Mishap
  /\ caller' = [caller EXCEPT ![c] = NoCall]
  /\ UNCHANGED <<jobs, runner, runs>>

-----------------------------------------------------------------------------
RunOf(w) == jobs[runner[w].job].payload

At(w, labels) == runner[w].at \in labels

SetRun(w, status) == runs' = [runs EXCEPT ![RunOf(w)].status = status]

(* Mutant: a run that was scored already is executed again. *)
LoadAlways(w) ==
  /\ At(w, {"working"}) /\ Goto(w, "loaded")
  /\ UNCHANGED <<jobs, mishaps, runs, caller>>

(* A run that is scored already only completes its job. *)
Load(w) ==
  /\ At(w, {"working"})
  /\ Goto(w, IF runs[RunOf(w)].status \in Scored THEN "done" ELSE "loaded")
  /\ UNCHANGED <<jobs, mishaps, runs, caller>>

(* Less than 200 seconds of the budget are left. *)
OutOfTime(w) == At(w, {"loaded"}) /\ Release(w) /\ Mishap /\ UNCHANGED <<runs, caller>>

(* Mutant: a refused run is not marked. *)
RefuseSilently(w) ==
  /\ At(w, {"loaded"}) /\ Goto(w, "done")
  /\ UNCHANGED <<jobs, mishaps, runs, caller>>

(* No provider is configured, no commit is pinned or SKILL.md is missing.    *)
(* If the update's reply is lost the exception leaves the handler.           *)
Refuse(w) ==
  /\ At(w, {"loaded"})
  /\ SetRun(w, "failed")
  /\ Goto(w, "done") \/ Goto(w, "failing")
  /\ UNCHANGED <<jobs, mishaps, caller>>

(* Mutant: a status the schema's check does not know. *)
BeginUnknown(w) ==
  /\ At(w, {"loaded"})
  /\ runs' = [runs EXCEPT ![RunOf(w)].status = "started"]
  /\ Goto(w, "generating")
  /\ UNCHANGED <<jobs, mishaps, caller>>

Begin(w) ==
  /\ At(w, {"loaded"})
  /\ runs' = [runs EXCEPT ![RunOf(w)].status = "running", ![RunOf(w)].job = runner[w].job]
  /\ Goto(w, "generating")
  /\ UNCHANGED <<jobs, mishaps, caller>>

OnProgress(w) ==
  /\ At(w, {"generating"}) /\ SaveProgress(w)
  /\ UNCHANGED <<runner, mishaps, runs, caller>>

(* The final update; if its reply is lost the handler goes to its catch. *)
Settle(w) ==
  /\ At(w, {"generating"})
  /\ \E s \in Scored : SetRun(w, s)
  /\ \/ Goto(w, "done") /\ UNCHANGED mishaps
     \/ Goto(w, "caught") /\ Mishap
  /\ UNCHANGED <<jobs, caller>>

(* Mutant: the catch ends the job and forgets the run. *)
GiveUpSilently(w) ==
  /\ At(w, {"generating", "caught"}) /\ Goto(w, "done")
  /\ UNCHANGED <<jobs, mishaps, runs, caller>>

(* The catch: what failed is not to be tried again. *)
GiveUp(w) ==
  /\ At(w, {"generating", "caught"})
  /\ SetRun(w, "failed") /\ Goto(w, "done")
  /\ UNCHANGED <<jobs, mishaps, caller>>

(* The catch: the provider failed and may answer later. *)
Requeue(w) ==
  /\ At(w, {"generating"}) /\ runner[w].attempts < RetryBelow
  /\ SetRun(w, "queued") /\ Goto(w, "retrying")
  /\ Mishap
  /\ UNCHANGED <<jobs, caller>>

ReleaseRetry(w) == At(w, {"retrying"}) /\ Release(w) /\ UNCHANGED <<mishaps, runs, caller>>

(* An exception outside the handler's try: the run's row cannot be read, the *)
(* pinned revision cannot be opened, or a statement of the catch fails.      *)
Throw(w) ==
  /\ At(w, Stages) /\ Goto(w, "failing")
  /\ UNCHANGED <<jobs, mishaps, runs, caller>>

-----------------------------------------------------------------------------
Call(c) ==
  \/ \E k \in Skills : Ask(c, k)
  \/ Create(c) \/ EnqueueRun(c) \/ SelectLive(c) \/ RecordJob(c) \/ CallFails(c)

Ends(w) ==
  Load(w) \/ Refuse(w) \/ Begin(w) \/ Settle(w) \/ GiveUp(w) \/ ReleaseRetry(w) \/ Throw(w)

Handle(w) == Ends(w) \/ OutOfTime(w) \/ OnProgress(w) \/ Requeue(w)

Around(w) == (Loop(w) \/ Die(w)) /\ UNCHANGED <<runs, caller>>

LeaseEnds(j) == Expire(j) /\ UNCHANGED <<runs, caller>>

EvalNext ==
  \/ \E c \in Callers : Call(c)
  \/ \E w \in Workers : Handle(w) \/ Around(w)
  \/ \E j \in Jobs : LeaseEnds(j)

EvalFairness ==
  /\ \A w \in Workers : /\ WF_evalVars(Ends(w))
                        /\ WF_evalVars(Loop(w) /\ UNCHANGED <<runs, caller>>)
  /\ \A j \in Jobs : WF_evalVars(LeaseEnds(j))

EvalSpec == EvalInit /\ [][EvalNext]_evalVars /\ EvalFairness
-----------------------------------------------------------------------------
(* A run is evaluated by one worker at a time, through releases, deaths and *)
(* reclaims: its job has one holder and no other job has it for a payload.  *)
OneEvaluator == \A v, w \in Holders : RunOf(v) = RunOf(w) => v = w

(* A job that completed leaves a run that is settled, whatever was lost     *)
(* between the update of the run and that of the job.                       *)
CompletedJobSettled ==
  \A j \in Jobs : jobs[j].status = "complete" => runs[jobs[j].payload].status \notin Unsettled

(* A run that was scored is never evaluated again: a worker that finds one  *)
(* after a crash only completes the job.  Only the worker that scored it    *)
(* can still call it failed, when the reply of its update was lost.         *)
ScoredNotReopened ==
  [][\A r \in Runs : runs[r].status \in Scored =>
       \/ runs'[r].status = runs[r].status
       \/ /\ runs'[r].status = "failed"
          /\ \E w \in Workers : runner[w].at = "caught" /\ RunOf(w) = r]_evalVars

(* A run that a job was made for is settled, or its job has failed, however *)
(* often its workers die or the provider does.                              *)
EvaluationsEnd ==
  \A j \in Jobs : jobs[j].status \in Live ~>
    \/ jobs[j].status = "failed"
    \/ jobs[j].status = "complete" /\ runs[jobs[j].payload].status \notin Unsettled

(* adr-0020, line 27, shows an error for a failed or expired job; adr-0019  *)
(* has a run whose revision cannot be read fail closed and queued again.    *)
FailedJobFailsRun ==
  \A j \in Jobs : jobs[j].status = "failed" => runs[jobs[j].payload].status \notin Unsettled

(* adr-0020, line 27, follows a created run to its completion: the job that *)
(* a run names is the one that executes it.                                 *)
JobExecutesItsRun ==
  \A r \in Runs : runs[r].job # None => jobs[runs[r].job].payload = r
=============================================================================
