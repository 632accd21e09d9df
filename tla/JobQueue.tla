------------------------------ MODULE JobQueue ------------------------------
(***************************************************************************)
(* The lease-based queue of background jobs (server/jobs/queue.ts, table   *)
(* background_jobs of 0009) and the worker loops that drain it (the worker *)
(* of runBackgroundJobs in runner.ts).                                     *)
(*                                                                         *)
(* Every call of the queue is a statement of its own.  claim is two: one   *)
(* retires jobs that keep dying, the next takes a job.  What follows a     *)
(* claim names the job by id alone, so it takes effect whoever holds the   *)
(* job by then.  An unsuccessful reply is a lost one too: the statement    *)
(* may have been committed.                                                *)
(*                                                                         *)
(* A lease is 330 seconds and a worker lives in a function that the routes *)
(* limit to 300 (maxDuration), so a lease expires only when no worker has  *)
(* the job any more.                                                       *)
(***************************************************************************)
EXTENDS Naturals, FiniteSets

CONSTANTS
  Jobs,         \* the rows the table may come to hold
  Keys,         \* organization, kind and dedupe_key of a job
  Payloads,     \* what a job is to work on
  Workers,      \* concurrent worker loops, in any number of invocations
  Stages,       \* the stages of the handler that works on a claimed job
  MaxAttempts,  \* MAX_ATTEMPTS, 4 in the code
  MaxMishaps,   \* bound of the model on deaths, lost replies and releases
  None          \* no job

ASSUME QueueAssumption ==
  /\ "working" \in Stages
  /\ Stages \cap {"idle", "claiming", "done", "failing"} = {}
  /\ MaxAttempts \in Nat \ {0}
  /\ MaxMishaps \in Nat
  /\ None \notin Jobs

VARIABLES
  jobs,    \* background_jobs
  runner,  \* each worker loop: where it is, its job and the attempts it was told
  mishaps  \* how many deaths, lost replies and releases there were

queueVars == <<jobs, runner, mishaps>>

Live == {"queued", "running"}
Rows == [status : Live \cup {"none", "complete", "failed"}, key : Keys \cup {None},
         payload : Payloads \cup {None}, attempts : Nat, lease : {"null", "live", "expired"}]
Runners == [at : Stages \cup {"idle", "claiming", "done", "failing"},
            job : Jobs \cup {None}, attempts : Nat]

QueueTypeOK ==
  /\ jobs \in [Jobs -> Rows]
  /\ runner \in [Workers -> Runners]
  /\ \A w \in Workers : runner[w].at \notin {"idle", "claiming"} => runner[w].job \in Jobs
  /\ mishaps \in 0 .. MaxMishaps

NoRow  == [status |-> "none", key |-> None, payload |-> None, attempts |-> 0, lease |-> "null"]
AtRest == [at |-> "idle", job |-> None, attempts |-> 0]

QueueInit ==
  /\ jobs = [j \in Jobs |-> NoRow]
  /\ runner = [w \in Workers |-> AtRest]
  /\ mishaps = 0

-----------------------------------------------------------------------------
(* The unique index on live jobs: no other job of this key is live. *)
KeyFree(k) == \A j \in Jobs : jobs[j].key = k => jobs[j].status \notin Live

(* The insert; on conflict it does nothing, and a live job is looked up. *)
Insert(k, p) ==
  /\ KeyFree(k)
  /\ \E j \in Jobs :
       /\ jobs[j].status = "none"
       /\ jobs' = [jobs EXCEPT ![j] = [status |-> "queued", key |-> k, payload |-> p,
                                       attempts |-> 0, lease |-> "null"]]

Enqueue(k, p) == Insert(k, p) /\ UNCHANGED <<runner, mishaps>>

Goto(w, label) == runner' = [runner EXCEPT ![w].at = label]
Finish(w)      == runner' = [runner EXCEPT ![w] = AtRest]
Mishap         == mishaps < MaxMishaps /\ mishaps' = mishaps + 1

(* A running job whose lease ran out. *)
Expired(j) == jobs[j].status = "running" /\ jobs[j].lease = "expired"

(* Mutant: a job is retired on its last attempt, whether or not it is held. *)
WornOutWhileHeld(j) == jobs[j].status = "running" /\ jobs[j].attempts >= MaxAttempts

WornOut(j) == Expired(j) /\ jobs[j].attempts >= MaxAttempts

(* claim, first statement. *)
Retire(w) ==
  /\ runner[w].at = "idle"
  /\ jobs' = [j \in Jobs |-> IF WornOut(j)
                             THEN [jobs[j] EXCEPT !.status = "failed"] ELSE jobs[j]]
  /\ Goto(w, "claiming")
  /\ UNCHANGED mishaps

(* Mutant: a running job is claimed whether or not its lease ran out. *)
ClaimableRunning(j) == jobs[j].status \in Live

(* Mutant: only queued jobs are claimed. *)
ClaimableQueued(j) == jobs[j].status = "queued"

Claimable(j) == jobs[j].status = "queued" \/ Expired(j)

(* claim, second statement.  Kind and age order the candidates, but one that *)
(* another statement has locked is skipped: any of them may be taken.        *)
Claim(w) ==
  /\ runner[w].at = "claiming"
  /\ \E j \in Jobs :
       /\ Claimable(j)
       /\ jobs' = [jobs EXCEPT ![j].status = "running", ![j].lease = "live",
                               ![j].attempts = @ + 1]
       /\ runner' = [runner EXCEPT ![w] = [at |-> "working", job |-> j,
                                           attempts |-> jobs[j].attempts + 1]]
  /\ UNCHANGED mishaps

ClaimNothing(w) ==
  /\ runner[w].at = "claiming"
  /\ \A j \in Jobs : ~Claimable(j)
  /\ Finish(w)
  /\ UNCHANGED <<jobs, mishaps>>

SaveProgress(w) == jobs' = [jobs EXCEPT ![runner[w].job].lease = "live"]

(* The attempt is given back.  The update is refused when the job is no      *)
(* longer live and another job of its key is.                                *)
ReleaseRefused(j) ==
  \E i \in Jobs \ {j} : jobs[i].key = jobs[j].key /\ jobs[i].status \in Live

ReleaseRow(j) ==
  jobs' = [jobs EXCEPT ![j].status = "queued", ![j].lease = "null",
                       ![j].attempts = IF @ = 0 THEN 0 ELSE @ - 1]

Release(w) ==
  LET j == runner[w].job IN
  \/ ~ReleaseRefused(j) /\ ReleaseRow(j) /\ (Finish(w) \/ Goto(w, "failing"))
  \/ ReleaseRefused(j) /\ Goto(w, "failing") /\ UNCHANGED jobs

EndRow(w, status) ==
  jobs' = [jobs EXCEPT ![runner[w].job].status = status, ![runner[w].job].lease = "null"]

(* The handler returned done. *)
Complete(w) ==
  /\ runner[w].at = "done"
  /\ \/ EndRow(w, "complete") /\ Finish(w) /\ UNCHANGED mishaps
     \/ EndRow(w, "complete") /\ Goto(w, "failing") /\ Mishap
     \/ Goto(w, "failing") /\ Mishap /\ UNCHANGED jobs

(* The handler, complete or release threw. *)
Fail(w) ==
  /\ runner[w].at = "failing"
  /\ EndRow(w, "failed")
  /\ Finish(w)
  /\ UNCHANGED mishaps

(* The function is killed, or the call of fail fails and is ignored. *)
Die(w) ==
  /\ runner[w].at # "idle"
  /\ Finish(w)
  /\ Mishap
  /\ UNCHANGED jobs

(* Nobody renews the lease any more. *)
Expire(j) ==
  /\ jobs[j].status = "running" /\ jobs[j].lease = "live"
  /\ \A w \in Workers : runner[w].job # j
  /\ jobs' = [jobs EXCEPT ![j].lease = "expired"]
  /\ UNCHANGED <<runner, mishaps>>

-----------------------------------------------------------------------------
(* A handler that does anything the queue allows: it saves progress, puts   *)
(* the job back, or ends by a result or an exception.                       *)
Return(w) ==
  /\ runner[w].at = "working"
  /\ \E next \in {"done", "failing"} : Goto(w, next)
  /\ UNCHANGED <<jobs, mishaps>>

Work(w) ==
  \/ Return(w)
  \/ /\ runner[w].at = "working"
     /\ \/ SaveProgress(w) /\ UNCHANGED <<runner, mishaps>>
        \/ Release(w) /\ Mishap

(* What the loop does around the handler. *)
Loop(w) == Retire(w) \/ Claim(w) \/ ClaimNothing(w) \/ Complete(w) \/ Fail(w)

QueueNext ==
  \/ \E k \in Keys, p \in Payloads : Enqueue(k, p)
  \/ \E w \in Workers : Loop(w) \/ Work(w) \/ Die(w)
  \/ \E j \in Jobs : Expire(j)

(* Workers come back: each deployment has a daily cron for the worker route, *)
(* polls and syncs start loops, and a loop hands over to a new invocation.   *)
(* A handler ends; a death, a release or a lost reply is never owed.         *)
Fairness  == /\ \A w \in Workers : WF_queueVars(Loop(w)) /\ WF_queueVars(Return(w))
             /\ \A j \in Jobs : WF_queueVars(Expire(j))

QueueSpec == QueueInit /\ [][QueueNext]_queueVars /\ Fairness
-----------------------------------------------------------------------------
Holders == {w \in Workers : runner[w].at \in Stages \cup {"done"}}

(* No two workers have one job at a time, though nothing they write is      *)
(* fenced: a job is out of reach of claim while its handler runs.           *)
OneHolder == \A v, w \in Holders : runner[v].job = runner[w].job => v = w

(* A job that completed stays so, but for the loop whose own reply was lost. *)
CompletedStays ==
  [][\A j \in Jobs : jobs[j].status = "complete" /\ jobs'[j].status # "complete" =>
       \E w \in Workers : /\ runner[w].at = "failing" /\ runner[w].job = j
                          /\ jobs'[j].status = "failed"]_queueVars

(* A running job is failed only by a loop that had it, or when nobody has    *)
(* it any more: retiring never takes a job from under its worker.           *)
FailedOnlyWhenLost ==
  [][\A j \in Jobs : jobs[j].status = "running" /\ jobs'[j].status = "failed" =>
       \/ \E w \in Workers : runner[w].at = "failing" /\ runner[w].job = j
       \/ \A w \in Workers : runner[w].job # j]_queueVars

(* Every job ends, however its workers die, because a lease that ran out    *)
(* puts it within reach of the next claim (0009: an expired lease lets the   *)
(* next trigger pick it up).                                                *)
JobsEnd == \A j \in Jobs : jobs[j].status \in Live ~> jobs[j].status \notin Live
=============================================================================
