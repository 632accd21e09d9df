-------------------------- MODULE TestBench_proofs ---------------------------
(***************************************************************************)
(* Proofs about observed runs, for any number of runs, cases, workers and  *)
(* mishaps: their type, that a completed job leaves a run that is over,    *)
(* that every call is on record before it leaves and leaves once, and that *)
(* the workers of the queue implement ObservedOnce.  About their admission,*)
(* for any tenants, caps and costs: that ledgers and runs agree and no cap *)
(* is exceeded.  Last, the type of the two side by side.                   *)
(***************************************************************************)
EXTENDS MCTestBench, JobQueue_proofs, SumTheorems, SequenceTheorems

LEMMA StagesOfRuns ==
  /\ Evaluating \subseteq Stages
  /\ {"working", "beginning", "retiring", "abandoning"} \subseteq Stages
BY ObservedAssumption

LEMMA NumbersOfCalls == Cases \in Nat /\ 2 * Cases \in Nat /\ 1 \in Calls /\ 2 \in Calls
BY ObservedAssumption DEF Calls

-----------------------------------------------------------------------------
(* The queue below the runs.                                               *)

(* Where a step of the handler goes. *)
LEMMA HandlerGoes ==
  ASSUME NEW w \in Workers, Ends(w) \/ FailRunFails(w)
  PROVE  /\ runner[w].at \in Evaluating \cup {"working", "beginning", "retiring", "abandoning"}
         /\ \E l \in Stages \cup {"done", "failing"} : Goto(w, l)
         /\ UNCHANGED jobs
         /\ UNCHANGED mishaps \/ Mishap
<1> USE StagesOfRuns DEF Evaluating, At, Replied
<1>1. CASE Examine(w) \/ SnapshotInvalid(w) \/ EnsureNotCanceled(w) \/ Send(w) \/ Answer(w)
  BY <1>1 DEF Examine, SnapshotInvalid, EnsureNotCanceled, Send, Answer
<1>2. CASE Begin(w) \/ Intend(w)
  BY <1>2 DEF Begin, Intend
<1>3. CASE Acknowledge(w) \/ RecordCase(w) \/ Score(w)
  BY <1>3 DEF Acknowledge, RecordCase, Score
<1>4. CASE Abandon(w) \/ FailRun(w) \/ FailRunFails(w)
  BY <1>4 DEF Abandon, FailRun, FailRunFails
<1> QED
  BY <1>1, <1>2, <1>3, <1>4 DEF Ends

LEMMA HandlerHolder ==
  ASSUME HolderInv, NEW w \in Workers, Handle(w)
  PROVE  HolderInv'
<1>1. CASE Ends(w) \/ FailRunFails(w)
  <2>1. runner[w].at \in Stages
    BY <1>1, HandlerGoes, StagesOfRuns
  <2> QED
    BY <1>1, <2>1, HandlerGoes, GotoHolder
<1>2. CASE OutOfTime(w)
  <2>1. runner[w].at \in Stages /\ Release(w) /\ Mishap
    BY <1>2, StagesOfRuns DEF OutOfTime, At
  <2>2. QueueTypeOK /\ QueueTypeOK'
    <3>1. QueueTypeOK
      BY DEF HolderInv
    <3> QED
      BY <2>1, <3>1, ReleaseType, MishapType DEF QueueTypeOK
  <2> QED
    BY <2>1, <2>2, ReleaseHolder
<1> QED
  BY <1>1, <1>2 DEF Handle

LEMMA CancelHolder ==
  ASSUME HolderInv, NEW r \in Runs, Cancel(r)
  PROVE  HolderInv'
<1>1. QueueTypeOK
  BY DEF HolderInv
<1>2. CASE UNCHANGED jobs
  BY <1>1, <1>2 DEF Cancel, HolderInv, QueueTypeOK, OneHolder, Holders, OutOfReach
<1>3. CASE Dequeue(r)
  <2>1. ASSUME NEW j \in Jobs
        PROVE  jobs'[j] \in Rows /\ (OutOfReach(j) => jobs'[j] = jobs[j])
    <3>1. jobs[j] \in Rows
      BY <1>1 DEF QueueTypeOK
    <3>2. [jobs[j] EXCEPT !.status = "failed", !.lease = "null"] \in Rows
      BY <3>1 DEF Rows
    <3> QED
      BY <1>3, <3>1, <3>2 DEF Dequeue, OutOfReach
  <2>2. jobs' \in [Jobs -> Rows]
    BY <1>3, <2>1 DEF Dequeue
  <2>3. QueueTypeOK'
    BY <1>1, <2>2 DEF Cancel, QueueTypeOK
  <2>4. \A v \in Holders' : v \in Holders /\ runner'[v].job = runner[v].job /\ runner[v].job \in Jobs
    BY <1>1, StagesApart DEF Cancel, Holders, QueueTypeOK
  <2> QED
    BY <2>1, <2>3, <2>4, FewerHolders DEF HolderInv, OutOfReach
<1> QED
  BY <1>2, <1>3 DEF Cancel

LEMMA ObservedHolder == HolderInv /\ [ObservedNext]_observedVars => HolderInv'
<1> SUFFICES ASSUME HolderInv, [ObservedNext]_observedVars PROVE HolderInv'
  OBVIOUS
<1>1. ASSUME NEW r \in Runs, NEW d \in Definitions, Start(r, d) PROVE HolderInv'
  BY <1>1, EnqueueHolder, ObservedAssumption DEF Start, Runs
<1>2. ASSUME NEW w \in Workers, Around(w) PROVE HolderInv'
  BY <1>2, LoopHolder, DieHolder DEF Around
<1>3. ASSUME NEW j \in Jobs, LeaseEnds(j) PROVE HolderInv'
  BY <1>3, ExpireHolder DEF LeaseEnds
<1>4. CASE UNCHANGED observedVars
  BY <1>4, HolderStep DEF observedVars, queueVars
<1> QED
  BY <1>1, <1>2, <1>3, <1>4, CancelHolder, HandlerHolder DEF ObservedNext

(* A cancellation fails a job that is still queued; the rest is the queue's. *)
LEMMA ObservedLost == LostInv /\ [ObservedNext]_observedVars => LostInv' /\ EndsSoundly
<1> SUFFICES ASSUME LostInv, [ObservedNext]_observedVars PROVE LostInv' /\ EndsSoundly
  OBVIOUS
<1>1. HolderInv /\ HolderInv' /\ QueueTypeOK
  BY ObservedHolder DEF LostInv, HolderInv
<1>2. ASSUME [QueueNext]_queueVars PROVE LostInv' /\ EndsSoundly
  BY <1>2, LostStep, QueueEndsSoundly
<1>3. ASSUME NEW r \in Runs, NEW d \in Definitions, Start(r, d) PROVE QueueNext
  BY <1>3, ObservedAssumption DEF Start, Runs, QueueNext
<1>4. ASSUME NEW w \in Workers, Around(w) PROVE QueueNext
  BY <1>4 DEF Around, QueueNext
<1>5. ASSUME NEW j \in Jobs, LeaseEnds(j) PROVE QueueNext
  BY <1>5 DEF LeaseEnds, QueueNext
<1>6. ASSUME NEW w \in Workers, Handle(w) PROVE Lost' /\ EndsSoundly
  <2>1. CASE Ends(w) \/ FailRunFails(w)
    <3>1. runner[w].at \in Stages
      BY <2>1, HandlerGoes, StagesOfRuns
    <3> QED
      BY <2>1, <3>1, HandlerGoes, HandlerLost
  <2>2. CASE OutOfTime(w)
    BY <2>2, StagesOfRuns, HandlerLost DEF OutOfTime, At
  <2> QED
    BY <1>6, <2>1, <2>2 DEF Handle
<1>7. ASSUME NEW r \in Runs, Cancel(r) PROVE Lost' /\ EndsSoundly
  <2>1. ASSUME NEW j \in Jobs, jobs'[j] # jobs[j]
        PROVE  jobs[j].status = "queued" /\ jobs'[j].status = "failed"
    <3>1. jobs[j] \in Rows
      BY <1>1 DEF QueueTypeOK
    <3> QED
      BY <1>7, <2>1, <3>1 DEF Cancel, Dequeue, Rows
  <2>2. \A j \in Jobs : Expired(j)' => Expired(j)
    BY <2>1 DEF Expired
  <2>3. \A w \in Workers : runner'[w].job = runner[w].job
    BY <1>7 DEF Cancel
  <2> QED
    BY <2>1, <2>2, <2>3, LostKept DEF EndsSoundly
<1>8. CASE UNCHANGED observedVars
  BY <1>2, <1>8 DEF observedVars
<1> QED
  BY <1>1, <1>2, <1>3, <1>4, <1>5, <1>6, <1>7, <1>8 DEF ObservedNext, LostInv

-----------------------------------------------------------------------------
(* The runs.                                                               *)

(* A run that has a job was started, it has one job, and who has a job has  *)
(* one that exists.                                                         *)
JobsOfRuns ==
  /\ \A j \in Jobs : jobs[j].status # "none" =>
       jobs[j].payload \in Runs /\ runs[jobs[j].payload].status # "none"
  /\ \A i, j \in Jobs :
       /\ jobs[i].status # "none" /\ jobs[j].status # "none"
       /\ jobs[i].payload = jobs[j].payload
       => i = j
  /\ \A w \in Workers : runner[w].job # None => jobs[runner[w].job].status # "none"

(* The calls of r are confirmed up to n, announced up to m and sent up to k. *)
Trail(r, n, m, k) ==
  /\ runs[r].receipts = 1 .. n
  /\ \A c \in Calls :
       /\ runs[r].intents[c] = IF c <= n THEN "acknowledged" ELSE IF c <= m THEN "open" ELSE "none"
       /\ sent[r][c] = IF c <= k THEN 1 ELSE 0

(* At most the last of the calls is unconfirmed, and it may have left. *)
InOrder(r) ==
  \E n, m, k \in 0 .. 2 * Cases : n <= k /\ k <= m /\ m <= n + 1 /\ Trail(r, n, m, k)

Fresh(r) == runs[r].status \in {"none", "queued"}

(* What the place of a worker in the evaluation says of its run. *)
Placed(w) ==
  LET r == RunOf(w)  c == call[w] IN
  At(w, Evaluating) =>
    /\ c \in Calls /\ ~Fresh(r)
    /\ At(w, {"checking", "intending"}) => Trail(r, c - 1, c - 1, c - 1)
    /\ At(w, {"calling"}) => Trail(r, c - 1, c, c - 1)
    /\ At(w, {"waiting", "acknowledging"}) => Trail(r, c - 1, c, c)
    /\ At(w, {"recording", "completing"}) => Trail(r, c, c, c) /\ IsJudge(c)
    /\ At(w, {"completing"}) => c = 2 * Cases

OneCaller ==
  \A v, w \in Workers : At(v, Evaluating) /\ At(w, Evaluating) /\ RunOf(v) = RunOf(w) => v = w

CallsInv ==
  /\ HolderInv /\ ObservedTypeOK
  /\ JobsOfRuns
  /\ \A r \in Runs : InOrder(r) /\ (Fresh(r) => Trail(r, 0, 0, 0))
  /\ \A w \in Workers : Placed(w)
  /\ OneCaller

LEMMA CallsInit == ObservedInit => CallsInv
<1> SUFFICES ASSUME ObservedInit PROVE CallsInv
  OBVIOUS
<1> USE NumbersOfCalls
<1>1. HolderInv
  BY HolderInit DEF ObservedInit
<1>2. ObservedTypeOK
  <2>1. NoRun \in RunRows
    BY DEF NoRun, RunRows
  <2> QED
    BY <1>1, <2>1 DEF ObservedInit, ObservedTypeOK, HolderInv
<1>3. JobsOfRuns
  BY DEF ObservedInit, QueueInit, NoRow, AtRest, JobsOfRuns
<1>4. ASSUME NEW r \in Runs PROVE Trail(r, 0, 0, 0) /\ InOrder(r)
  <2>1. Trail(r, 0, 0, 0)
    BY DEF ObservedInit, NoRun, Trail, Calls
  <2> QED
    BY <2>1 DEF InOrder
<1>5. \A w \in Workers : ~At(w, Evaluating)
  BY DEF ObservedInit, QueueInit, AtRest, At, Evaluating
<1> QED
  BY <1>1, <1>2, <1>3, <1>4, <1>5 DEF CallsInv, Placed, OneCaller

LEMMA JobsOfRunsKept ==
  ASSUME CallsInv, SameJobs,
         \A r \in Runs : runs[r].status # "none" => runs'[r].status # "none",
         \A w \in Workers : \/ runner'[w].job \in {runner[w].job, None}
                            \/ runner'[w].job \in Jobs /\ jobs[runner'[w].job].status # "none",
         QueueTypeOK'
  PROVE  JobsOfRuns'
<1>1. \A w \in Workers : runner'[w].job # None => jobs'[runner'[w].job].status # "none"
  BY DEF CallsInv, ObservedTypeOK, QueueTypeOK, Runners, JobsOfRuns, SameJobs, KeptJobs
<1> QED
  BY <1>1 DEF CallsInv, JobsOfRuns, SameJobs, KeptJobs

(* The run a worker is at does not change while it has its job. *)
LEMMA SameRun ==
  ASSUME CallsInv, KeptJobs, NEW w \in Workers, At(w, Stages), runner'[w].job = runner[w].job
  PROVE  RunOf(w)' = RunOf(w) /\ RunOf(w) \in Runs
<1>1. runner[w].job \in Jobs /\ runner[w].job # None
  BY StagesApart, QueueAssumption DEF At, CallsInv, ObservedTypeOK, QueueTypeOK
<1> QED
  BY <1>1 DEF RunOf, KeptJobs, CallsInv, JobsOfRuns

(* A step that leaves the calls alone: it may end a run, or take workers    *)
(* out of the evaluation or to the next place where the calls are the same. *)
SamePlace(w) ==
  /\ runner'[w].job = runner[w].job /\ call'[w] = call[w]
  /\ \/ runner'[w].at = runner[w].at
     \/ runner[w].at = "checking" /\ runner'[w].at = "intending"
     \/ runner[w].at = "waiting" /\ runner'[w].at = "acknowledging"

LEMMA QuietStep ==
  ASSUME CallsInv, HolderInv', ObservedTypeOK', JobsOfRuns', KeptJobs, UNCHANGED sent,
         \A r \in Runs : /\ runs'[r].receipts = runs[r].receipts
                         /\ runs'[r].intents = runs[r].intents
                         /\ Fresh(r)' => Fresh(r),
         \A w \in Workers : At(w, Evaluating)' => SamePlace(w)
  PROVE  CallsInv'
<1>1. \A r \in Runs : \A n, m, k : Trail(r, n, m, k) => Trail(r, n, m, k)'
  BY DEF Trail
<1>2. \A r \in Runs : InOrder(r)' /\ (Fresh(r)' => Trail(r, 0, 0, 0)')
  BY <1>1 DEF CallsInv, InOrder
<1>3. ASSUME NEW w \in Workers, At(w, Evaluating)'
      PROVE  At(w, Evaluating) /\ RunOf(w)' = RunOf(w) /\ RunOf(w) \in Runs
  <2>1. SamePlace(w) /\ At(w, Evaluating)
    BY <1>3 DEF SamePlace, At, Evaluating
  <2> QED
    BY <2>1, SameRun, StagesOfRuns DEF SamePlace, At
<1>4. ASSUME NEW w \in Workers PROVE Placed(w)'
  <2> SUFFICES ASSUME At(w, Evaluating)' PROVE Placed(w)'
    BY DEF Placed
  <2>1. At(w, Evaluating) /\ RunOf(w)' = RunOf(w) /\ RunOf(w) \in Runs /\ SamePlace(w)
    BY <1>3
  <2>2. Placed(w)
    BY DEF CallsInv
  <2> QED
    BY <1>1, <2>1, <2>2 DEF Placed, SamePlace, At
<1>5. OneCaller'
  BY <1>3 DEF CallsInv, OneCaller
<1> QED
  BY <1>2, <1>4, <1>5 DEF CallsInv

(* What the statements of the loop leave of the other jobs and workers. *)
LEMMA LoopFrame ==
  ASSUME CallsInv, NEW w \in Workers, Loop(w) \/ Die(w) \/ (Release(w) /\ At(w, {"working"}))
  PROVE  /\ SameJobs
         /\ \A v \in Workers : v # w => runner'[v] = runner[v]
         /\ runner'[w].at \in {"idle", "claiming", "working", "failing"}
         /\ \/ runner'[w].job \in {runner[w].job, None}
            \/ runner'[w].job \in Jobs /\ jobs[runner'[w].job].status # "none"
BY LoopLeaves, StagesApart DEF CallsInv, ObservedTypeOK, JobsOfRuns, JobsExist, At

LEMMA LoopCalls ==
  ASSUME CallsInv, HolderInv', NEW w \in Workers, Around(w) \/ OutOfTime(w)
  PROVE  CallsInv'
<1>1. /\ Loop(w) \/ Die(w) \/ (Release(w) /\ At(w, {"working"}))
      /\ UNCHANGED <<runs, sent>>
      /\ call' \in [Workers -> 0 .. 2 * Cases] /\ \A v \in Workers : v # w => call'[v] = call[v]
  BY NumbersOfCalls DEF Around, OutOfTime, CallsInv, ObservedTypeOK
<1>2. SameJobs /\ \A v \in Workers : v # w => SamePlace(v)
  BY <1>1, LoopFrame DEF SamePlace
<1>3. ~At(w, Evaluating)'
  BY <1>1, LoopFrame DEF At, Evaluating
<1>4. ObservedTypeOK'
  BY <1>1 DEF CallsInv, ObservedTypeOK, HolderInv
<1>5. JobsOfRuns'
  BY <1>1, <1>4, LoopFrame, JobsOfRunsKept DEF ObservedTypeOK
<1> QED
  BY <1>1, <1>2, <1>3, <1>4, <1>5, QuietStep DEF Fresh, SameJobs

LEMMA LeaseCalls ==
  ASSUME CallsInv, HolderInv', NEW j \in Jobs, LeaseEnds(j)
  PROVE  CallsInv'
<1>1. SameJobs /\ UNCHANGED <<runner, runs, call, sent>>
  BY DEF LeaseEnds, Expire, SameJobs, KeptJobs, CallsInv, ObservedTypeOK, QueueTypeOK, Rows
<1>2. ObservedTypeOK'
  BY <1>1 DEF CallsInv, ObservedTypeOK, HolderInv
<1>3. JobsOfRuns'
  BY <1>1, <1>2, JobsOfRunsKept DEF ObservedTypeOK
<1> QED
  BY <1>1, <1>2, <1>3, QuietStep DEF Fresh, SamePlace, SameJobs

(* A run whose status is written keeps its calls. *)
LEMMA StatusWritten ==
  ASSUME ObservedTypeOK, NEW r \in Runs, NEW s \in Active \cup Over,
         runs' = [runs EXCEPT ![r].status = s]
  PROVE  /\ runs' \in [Runs -> RunRows]
         /\ \A q \in Runs : /\ runs'[q].receipts = runs[q].receipts
                            /\ runs'[q].intents = runs[q].intents
                            /\ runs'[q].status = IF q = r THEN s ELSE runs[q].status
<1> DEFINE row == [runs[r] EXCEPT !.status = s]
<1>1. runs[r] \in RunRows
  BY DEF ObservedTypeOK
<1>2. /\ row \in RunRows /\ row.status = s
      /\ row.receipts = runs[r].receipts /\ row.intents = runs[r].intents
  BY <1>1 DEF RunRows
<1>3. runs' = [runs EXCEPT ![r] = row]
  BY DEF ObservedTypeOK
<1> QED
  BY <1>2, <1>3 DEF ObservedTypeOK

LEMMA CancelCalls ==
  ASSUME CallsInv, HolderInv', NEW r \in Runs, Cancel(r)
  PROVE  CallsInv'
<1>1. ObservedTypeOK /\ QueueTypeOK
  BY DEF CallsInv, ObservedTypeOK
<1>2. /\ runs' \in [Runs -> RunRows]
      /\ \A q \in Runs : /\ runs'[q].receipts = runs[q].receipts
                         /\ runs'[q].intents = runs[q].intents
                         /\ runs'[q].status = IF q = r THEN "canceled" ELSE runs[q].status
  <2>1. runs' = [runs EXCEPT ![r].status = "canceled"]
    BY DEF Cancel
  <2>2. "canceled" \in Active \cup Over
    BY DEF Over
  <2> QED
    BY <1>1, <2>1, <2>2, StatusWritten
<1>3. SameJobs
  <2>1. CASE UNCHANGED jobs
    BY <2>1 DEF SameJobs, KeptJobs
  <2>2. CASE Dequeue(r)
    BY <1>1, <2>2 DEF Dequeue, SameJobs, KeptJobs, QueueTypeOK, Rows
  <2> QED
    BY <2>1, <2>2 DEF Cancel
<1>4. ObservedTypeOK'
  BY <1>1, <1>2 DEF Cancel, ObservedTypeOK, HolderInv
<1>5. JobsOfRuns'
  BY <1>2, <1>3, <1>4, JobsOfRunsKept DEF Cancel, ObservedTypeOK
<1> QED
  BY <1>2, <1>3, <1>4, <1>5, QuietStep DEF Cancel, Fresh, SamePlace, SameJobs

(* What a handler that moves on leaves of the jobs and workers. *)
LEMMA GotoFrame ==
  ASSUME CallsInv, NEW w \in Workers, NEW l, Goto(w, l), UNCHANGED jobs
  PROVE  /\ SameJobs
         /\ \A v \in Workers : v # w => runner'[v] = runner[v]
         /\ runner'[w].at = l /\ \A v \in Workers : runner'[v].job = runner[v].job
BY GotoLeaves DEF CallsInv, ObservedTypeOK

(* Steps of the handler that leave the run alone. *)
LEMMA WaitingCalls ==
  ASSUME CallsInv, HolderInv', NEW w \in Workers,
         \/ Examine(w) \/ SnapshotInvalid(w) \/ EnsureNotCanceled(w)
         \/ Answer(w) \/ Abandon(w) \/ FailRunFails(w)
  PROVE  CallsInv'
<1>1. PICK l \in Stages \cup {"done", "failing"} :
        /\ Goto(w, l)
        /\ \/ l \notin Evaluating
           \/ runner[w].at = "checking" /\ l = "intending"
           \/ runner[w].at = "waiting" /\ l = "acknowledging"
  <2>1. CASE Examine(w) \/ SnapshotInvalid(w) \/ Abandon(w) \/ FailRunFails(w)
    <3>1. \E l \in {"done", "retiring", "beginning", "abandoning", "failing"} : Goto(w, l)
      BY <2>1 DEF Examine, SnapshotInvalid, Abandon, FailRunFails
    <3> QED
      BY <3>1, StagesOfRuns DEF Evaluating
  <2>2. CASE EnsureNotCanceled(w) \/ Answer(w)
    BY <2>2, StagesOfRuns DEF EnsureNotCanceled, Answer, At, Evaluating
  <2> QED
    BY <2>1, <2>2
<1>2. UNCHANGED <<jobs, runs, call, sent>>
  BY DEF Examine, SnapshotInvalid, EnsureNotCanceled, Answer, Abandon, FailRunFails
<1>3. /\ SameJobs
      /\ \A v \in Workers : v # w => runner'[v] = runner[v]
      /\ runner'[w].at = l /\ \A v \in Workers : runner'[v].job = runner[v].job
  BY <1>1, <1>2, GotoFrame
<1>4. ObservedTypeOK'
  BY <1>2 DEF CallsInv, ObservedTypeOK, HolderInv
<1>5. JobsOfRuns'
  BY <1>2, <1>3, <1>4, JobsOfRunsKept DEF ObservedTypeOK
<1>6. \A v \in Workers : At(v, Evaluating)' => SamePlace(v)
  BY <1>1, <1>2, <1>3 DEF At, SamePlace
<1> QED
  BY <1>2, <1>3, <1>4, <1>5, <1>6, QuietStep DEF Fresh, SameJobs

(* A step that writes the calls of a run is taken by the one worker that    *)
(* evaluates it, or by the worker that begins it.                           *)
LEMMA ActorStep ==
  ASSUME CallsInv, HolderInv', ObservedTypeOK', NEW w \in Workers, NEW l, Goto(w, l), UNCHANGED jobs,
         At(w, Evaluating) \/ (At(w, {"beginning"}) /\ Fresh(RunOf(w))),
         \A q \in Runs : q # RunOf(w) => runs'[q] = runs[q] /\ sent'[q] = sent[q],
         ~Fresh(RunOf(w))', InOrder(RunOf(w))', Placed(w)',
         \A v \in Workers : v # w => call'[v] = call[v]
  PROVE  CallsInv'
<1> DEFINE r == RunOf(w)
<1>1. /\ SameJobs
      /\ \A v \in Workers : v # w => runner'[v] = runner[v]
      /\ runner'[w].at = l /\ \A v \in Workers : runner'[v].job = runner[v].job
  BY GotoFrame
<1>2. \A v \in Workers : At(v, Stages) => RunOf(v)' = RunOf(v) /\ RunOf(v) \in Runs
  BY <1>1, SameRun DEF SameJobs
<1>3. At(w, Stages) /\ r' = r /\ r \in Runs
  BY <1>2, StagesOfRuns DEF At
<1>4. ASSUME NEW v \in Workers, v # w, At(v, Evaluating)
      PROVE  RunOf(v) # r
  BY <1>4 DEF CallsInv, OneCaller, Placed
<1>5. \A q \in Runs : q # r => \A n, m, k : Trail(q, n, m, k) => Trail(q, n, m, k)'
  BY DEF Trail
<1>6. ASSUME NEW q \in Runs PROVE InOrder(q)' /\ (Fresh(q)' => Trail(q, 0, 0, 0)')
  <2>1. CASE q = r
    BY <1>3, <2>1
  <2>2. CASE q # r
    BY <1>5, <2>2 DEF CallsInv, InOrder, Fresh
  <2> QED
    BY <2>1, <2>2
<1>7. ASSUME NEW v \in Workers, v # w, At(v, Evaluating)' PROVE Placed(v)' /\ RunOf(v)' # r
  <2>1. At(v, Evaluating) /\ At(v, Stages)
    BY <1>1, <1>7, StagesOfRuns DEF At
  <2>2. RunOf(v)' = RunOf(v) /\ RunOf(v) \in Runs /\ RunOf(v) # r
    BY <1>2, <1>4, <1>7, <2>1
  <2>3. Placed(v) /\ call'[v] = call[v] /\ runner'[v] = runner[v]
    BY <1>1, <1>7 DEF CallsInv
  <2>4. Fresh(RunOf(v))' => Fresh(RunOf(v))
    BY <2>2 DEF Fresh
  <2> QED
    BY <1>5, <2>1, <2>2, <2>3, <2>4 DEF Placed, At
<1>8. JobsOfRuns'
  <2>1. \A q \in Runs : runs[q].status # "none" => runs'[q].status # "none"
    BY <1>3 DEF Fresh
  <2> QED
    BY <1>1, <2>1, JobsOfRunsKept DEF ObservedTypeOK
<1>9. OneCaller'
  <2> SUFFICES ASSUME NEW u \in Workers, NEW v \in Workers, At(u, Evaluating)', At(v, Evaluating)',
                      RunOf(u)' = RunOf(v)'
               PROVE  u = v
    BY DEF OneCaller
  <2>1. CASE u = w \/ v = w
    BY <1>3, <1>7, <2>1
  <2>2. CASE u # w /\ v # w
    BY <1>1, <1>2, <2>2, StagesOfRuns DEF CallsInv, OneCaller, At
  <2> QED
    BY <2>1, <2>2
<1> QED
  BY <1>6, <1>7, <1>8, <1>9 DEF CallsInv, Placed

(* Where the worker is, and the row of its run. *)
LEMMA ActorRun ==
  ASSUME CallsInv, NEW w \in Workers, At(w, Evaluating \cup {"beginning", "retiring", "abandoning"})
  PROVE  /\ runner[w].job \in Jobs /\ RunOf(w) \in Runs
         /\ runs[RunOf(w)] \in RunRows /\ runs[RunOf(w)].status # "none"
         /\ runs[RunOf(w)].intents \in [Calls -> {"none", "open", "acknowledged"}]
         /\ sent[RunOf(w)] \in [Calls -> Nat]
         /\ At(w, Evaluating) => call[w] \in Calls
<1>1. runner[w].job \in Jobs /\ runner[w].job # None
  BY StagesApart, StagesOfRuns, QueueAssumption DEF At, CallsInv, ObservedTypeOK, QueueTypeOK
<1>2. RunOf(w) \in Runs /\ runs[RunOf(w)].status # "none"
  BY <1>1 DEF RunOf, CallsInv, JobsOfRuns
<1>3. runs[RunOf(w)] \in RunRows /\ sent[RunOf(w)] \in [Calls -> Nat]
  BY <1>2 DEF CallsInv, ObservedTypeOK
<1>4. runs[RunOf(w)].intents \in [Calls -> {"none", "open", "acknowledged"}]
  BY <1>3 DEF RunRows
<1> QED
  BY <1>1, <1>2, <1>3, <1>4 DEF CallsInv, Placed

(* A worker that writes its run's row. *)
LEMMA RowWritten ==
  ASSUME CallsInv, HolderInv', NEW r \in Runs, NEW row \in RunRows,
         runs' = [runs EXCEPT ![r] = row], UNCHANGED sent,
         call' \in [Workers -> 0 .. 2 * Cases]
  PROVE  /\ ObservedTypeOK'
         /\ runs'[r] = row /\ \A q \in Runs : q # r => runs'[q] = runs[q]
BY DEF CallsInv, ObservedTypeOK, HolderInv

LEMMA BeginCalls ==
  ASSUME CallsInv, HolderInv', NEW w \in Workers, Begin(w)
  PROVE  CallsInv'
<1> DEFINE r == RunOf(w)
<1> USE NumbersOfCalls
<1>1. At(w, {"beginning"}) /\ UNCHANGED <<jobs, sent>>
  BY DEF Begin
<1>2. r \in Runs /\ runs[r] \in RunRows
  BY <1>1, ActorRun DEF At
<1>3. CASE Goto(w, "done") /\ UNCHANGED <<runs, call>>
  <2>1. /\ SameJobs
        /\ \A v \in Workers : v # w => runner'[v] = runner[v]
        /\ runner'[w].at = "done" /\ \A v \in Workers : runner'[v].job = runner[v].job
    BY <1>1, <1>3, GotoFrame
  <2>2. ObservedTypeOK'
    BY <1>1, <1>3 DEF CallsInv, ObservedTypeOK, HolderInv
  <2>3. JobsOfRuns'
    BY <1>3, <2>1, <2>2, JobsOfRunsKept DEF ObservedTypeOK
  <2>4. \A v \in Workers : At(v, Evaluating)' => SamePlace(v)
    BY <1>3, <2>1 DEF At, SamePlace, Evaluating
  <2> QED
    BY <1>1, <1>3, <2>1, <2>2, <2>3, <2>4, QuietStep DEF Fresh, SameJobs
<1>4. ASSUME runs[r].status = "queued", runs' = [runs EXCEPT ![r].status = "running"],
             call' = [call EXCEPT ![w] = 1], NEW l \in {"checking", "abandoning"}, Goto(w, l)
      PROVE  CallsInv'
  <2>1. /\ runs' \in [Runs -> RunRows]
        /\ \A q \in Runs : /\ runs'[q].receipts = runs[q].receipts
                           /\ runs'[q].intents = runs[q].intents
                           /\ runs'[q].status = IF q = r THEN "running" ELSE runs[q].status
    BY <1>2, <1>4, StatusWritten DEF Active, CallsInv
  <2>2. call'[w] = 1 /\ call' \in [Workers -> 0 .. 2 * Cases]
        /\ \A v \in Workers : v # w => call'[v] = call[v]
    BY <1>4 DEF CallsInv, ObservedTypeOK, Calls
  <2>3. ObservedTypeOK'
    BY <1>1, <2>1, <2>2 DEF CallsInv, ObservedTypeOK, HolderInv
  <2>4. RunOf(w)' = r /\ runner'[w].at = l
    <3>1. RunOf(w)' = r
      BY <1>1, <1>4, GotoFrame, SameRun, StagesOfRuns DEF At, SameJobs
    <3> QED
      BY <1>1, <1>4, <3>1, GotoFrame
  <2>5. Trail(r, 0, 0, 0)' /\ Trail(r, 0, 0, 0)
    BY <1>1, <1>2, <1>4, <2>1, <2>4 DEF CallsInv, Fresh, Trail
  <2>6. InOrder(RunOf(w))'
    <3>1. 0 \in 0 .. 2 * Cases /\ 0 <= 0 /\ 0 <= 0 + 1
      OBVIOUS
    <3>2. Trail(RunOf(w), 0, 0, 0)'
      BY <2>5
    <3> QED
      BY ONLY <3>1, <3>2, Zenon DEF InOrder
  <2>7. ~Fresh(r)'
    BY <1>2, <2>1, <2>4 DEF Fresh
  <2>8. Placed(w)'
    BY <1>2, <2>2, <2>4, <2>5, <2>7 DEF Placed, At
  <2>9. \A q \in Runs : q # r => runs'[q] = runs[q] /\ sent'[q] = sent[q]
    BY <1>1, <1>4 DEF CallsInv, ObservedTypeOK
  <2> QED
    BY <1>1, <1>4, <2>2, <2>3, <2>4, <2>6, <2>7, <2>8, <2>9, ActorStep DEF Fresh
<1> QED
  BY <1>3, <1>4 DEF Begin, Replied

(* The place a worker goes to, once the calls of its run and its own call   *)
(* are known.                                                               *)
LEMMA Moved ==
  ASSUME CallsInv, NEW w \in Workers, At(w, Stages), NEW l, Goto(w, l), UNCHANGED jobs
  PROVE  RunOf(w)' = RunOf(w) /\ runner'[w].at = l
BY GotoFrame, SameRun DEF SameJobs

LEMMA IntendCalls ==
  ASSUME CallsInv, HolderInv', NEW w \in Workers, Intend(w)
  PROVE  CallsInv'
<1> DEFINE r == RunOf(w)
           c == call[w]
           row == [runs[r] EXCEPT !.intents[c] = "open"]
<1> USE NumbersOfCalls
<1>1. /\ At(w, {"intending"}) /\ UNCHANGED <<jobs, call, sent>> /\ runs[r].status = "running"
      /\ \E l \in {"calling", "abandoning"} : Goto(w, l)
  BY DEF Intend, Replied
<1>2. /\ r \in Runs /\ runs[r] \in RunRows /\ c \in Calls /\ At(w, Evaluating) /\ At(w, Stages)
      /\ runs[r].intents \in [Calls -> {"none", "open", "acknowledged"}]
      /\ Trail(r, c - 1, c - 1, c - 1)
  BY <1>1, ActorRun, StagesOfRuns DEF At, Evaluating, CallsInv, Placed
<1>3. PICK l \in {"calling", "abandoning"} : Goto(w, l)
  BY <1>1
<1>4. r' = r /\ runner'[w].at = l
  BY <1>1, <1>2, <1>3, Moved
<1>5. row \in RunRows /\ row.receipts = runs[r].receipts /\ row.status = "running"
      /\ row.intents = [runs[r].intents EXCEPT ![c] = "open"]
  BY <1>1, <1>2 DEF RunRows
<1>6. ObservedTypeOK' /\ runs'[r] = row /\ \A q \in Runs : q # r => runs'[q] = runs[q]
  <2>1. runs' = [runs EXCEPT ![r] = row]
    BY <1>2 DEF Intend, CallsInv, ObservedTypeOK, RunRows
  <2>2. call' \in [Workers -> 0 .. 2 * Cases]
    BY <1>1 DEF CallsInv, ObservedTypeOK
  <2> QED
    BY <1>1, <1>2, <1>5, <2>1, <2>2, RowWritten
<1>7. Trail(r, c - 1, c, c - 1)'
  BY <1>1, <1>2, <1>4, <1>5, <1>6 DEF Trail, Calls
<1>8. InOrder(r)'
  <2>1. c \in 0 .. 2 * Cases /\ c - 1 \in 0 .. 2 * Cases /\ c' = c
    BY <1>1, <1>2 DEF Calls
  <2> QED
    BY <1>4, <1>7, <2>1 DEF InOrder
<1>9. ~Fresh(r)'
  BY <1>4, <1>5, <1>6 DEF Fresh
<1>10. Placed(w)'
  BY <1>1, <1>2, <1>4, <1>7, <1>9 DEF Placed, At, Evaluating
<1> QED
  BY <1>1, <1>2, <1>3, <1>6, <1>8, <1>9, <1>10, ActorStep

LEMMA SendCalls ==
  ASSUME CallsInv, HolderInv', NEW w \in Workers, Send(w)
  PROVE  CallsInv'
<1> DEFINE r == RunOf(w)
           c == call[w]
<1> USE NumbersOfCalls
<1>1. At(w, {"calling"}) /\ UNCHANGED <<jobs, call, runs>> /\ Goto(w, "waiting")
  BY DEF Send
<1>2. /\ r \in Runs /\ c \in Calls /\ At(w, Evaluating) /\ At(w, Stages)
      /\ sent[r] \in [Calls -> Nat]
      /\ Trail(r, c - 1, c, c - 1) /\ ~Fresh(r)
  BY <1>1, ActorRun, StagesOfRuns DEF At, Evaluating, CallsInv, Placed
<1>3. r' = r /\ runner'[w].at = "waiting"
  BY <1>1, <1>2, Moved
<1>4. /\ sent' \in [Runs -> [Calls -> Nat]] /\ sent'[r] = [sent[r] EXCEPT ![c] = @ + 1]
      /\ \A q \in Runs : q # r => sent'[q] = sent[q]
  BY <1>2 DEF Send, CallsInv, ObservedTypeOK
<1>5. ObservedTypeOK'
  BY <1>1, <1>4 DEF CallsInv, ObservedTypeOK, HolderInv
<1>6. Trail(r, c - 1, c, c)'
  <2>1. \A d \in Calls : sent'[r][d] = IF d <= c THEN 1 ELSE 0
    <3>1. c \in Nat /\ Calls \subseteq Nat /\ \A d \in Calls : sent[r][d] = IF d <= c - 1 THEN 1 ELSE 0
      <4>1. c \in Nat /\ Calls \subseteq Nat
        BY <1>2 DEF Calls
      <4> QED
        BY <1>2, <4>1 DEF Trail
    <3>2. \A d \in Calls : sent'[r][d] = IF d = c THEN sent[r][c] + 1 ELSE sent[r][d]
      BY <1>2, <1>4
    <3>3. sent[r][c] = 0
      BY <1>2, <3>1
    <3>4. ASSUME NEW d \in Calls, d # c PROVE sent'[r][d] = IF d <= c THEN 1 ELSE 0
      BY <3>1, <3>2, <3>4
    <3>5. sent'[r][c] = 1 /\ c <= c
      BY <1>2, <3>1, <3>2, <3>3
    <3> QED
      BY <3>4, <3>5
  <2> QED
    BY <1>1, <1>2, <1>3, <2>1 DEF Trail
<1>7. InOrder(r)'
  <2>1. c \in 0 .. 2 * Cases /\ c - 1 \in 0 .. 2 * Cases /\ c' = c
    BY <1>1, <1>2 DEF Calls
  <2> QED
    BY <1>3, <1>6, <2>1 DEF InOrder
<1>8. ~Fresh(r)'
  BY <1>1, <1>2, <1>3 DEF Fresh
<1>9. Placed(w)'
  BY <1>1, <1>2, <1>3, <1>6, <1>8 DEF Placed, At
<1> QED
  BY <1>1, <1>2, <1>4, <1>5, <1>7, <1>8, <1>9, ActorStep

(* The numbers of a case and its two calls. *)
LEMMA CallNumbers ==
  ASSUME NEW c \in Calls
  PROVE  /\ CaseOf(c) \in 1 .. Cases
         /\ ~IsJudge(c) => c + 1 \in Calls
         /\ IsJudge(c) /\ CaseOf(c) = Cases => c = 2 * Cases
         /\ IsJudge(c) /\ CaseOf(c) # Cases => c + 1 \in Calls
BY ObservedAssumption DEF Calls, CaseOf, IsJudge

LEMMA AcknowledgeCalls ==
  ASSUME CallsInv, HolderInv', NEW w \in Workers, Acknowledge(w)
  PROVE  CallsInv'
<1> DEFINE r == RunOf(w)
           c == call[w]
           row == [runs[r] EXCEPT !.receipts = @ \cup {c}, !.intents[c] = "acknowledged"]
<1> USE NumbersOfCalls
<1>1. /\ At(w, {"acknowledging"}) /\ UNCHANGED <<jobs, sent>>
      /\ runs[r].status \in {"running", "canceled"}
  BY DEF Acknowledge
<1>2. /\ r \in Runs /\ runs[r] \in RunRows /\ c \in Calls /\ At(w, Evaluating) /\ At(w, Stages)
      /\ runs[r].intents \in [Calls -> {"none", "open", "acknowledged"}]
      /\ Trail(r, c - 1, c, c)
  BY <1>1, ActorRun, StagesOfRuns DEF At, Evaluating, CallsInv, Placed
<1>3. PICK l \in {"recording", "checking", "abandoning"} :
        /\ Goto(w, l)
        /\ \/ IsJudge(c) /\ l # "checking" /\ UNCHANGED call
           \/ ~IsJudge(c) /\ l # "recording" /\ call' = [call EXCEPT ![w] = @ + 1]
  BY DEF Acknowledge, Replied
<1>4. r' = r /\ runner'[w].at = l
  BY <1>1, <1>2, <1>3, Moved
<1>5. /\ row \in RunRows /\ row.receipts = runs[r].receipts \cup {c} /\ row.status = runs[r].status
      /\ row.intents = [runs[r].intents EXCEPT ![c] = "acknowledged"]
  BY <1>1, <1>2 DEF RunRows
<1>6. /\ call' \in [Workers -> 0 .. 2 * Cases]
      /\ call'[w] = IF IsJudge(c) THEN c ELSE c + 1
      /\ \A v \in Workers : v # w => call'[v] = call[v]
  <2>1. c \in 0 .. 2 * Cases /\ (~IsJudge(c) => c + 1 \in 0 .. 2 * Cases)
    BY <1>2, CallNumbers DEF Calls
  <2>2. call \in [Workers -> 0 .. 2 * Cases]
    BY DEF CallsInv, ObservedTypeOK
  <2> QED
    BY <1>3, <2>1, <2>2
<1>7. ObservedTypeOK' /\ runs'[r] = row /\ \A q \in Runs : q # r => runs'[q] = runs[q]
  <2>1. runs' = [runs EXCEPT ![r] = row]
    BY <1>2 DEF Acknowledge, CallsInv, ObservedTypeOK, RunRows
  <2> QED
    BY <1>1, <1>2, <1>5, <1>6, <2>1, RowWritten
<1> DEFINE T(k) == Trail(r, k, k, k)'
<1>8. /\ runs'[r].receipts = 1 .. c
      /\ \A d \in Calls : /\ runs'[r].intents[d] = IF d <= c THEN "acknowledged" ELSE "none"
                          /\ sent'[r][d] = IF d <= c THEN 1 ELSE 0
  BY <1>1, <1>2, <1>5, <1>7 DEF Trail, Calls
<1>9. InOrder(r)'
  <2>1. c \in 0 .. 2 * Cases
    BY <1>2 DEF Calls
  <2>2. \E k \in 0 .. 2 * Cases : Trail(r, k, k, k)'
    BY <1>4, <1>8, <2>1 DEF Trail, Calls
  <2> QED
    BY <2>2 DEF InOrder
<1>10. ~Fresh(r)'
  BY <1>1, <1>4, <1>5, <1>7 DEF Fresh
<1>11. Placed(w)'
  <2>1. call'[w] \in Calls
    BY <1>2, <1>6, CallNumbers
  <2>2. CASE l = "recording"
    <3>1. Trail(RunOf(w), call[w], call[w], call[w])'
      BY <1>2, <1>3, <1>4, <1>6, <1>8, <2>2 DEF Trail, Calls
    <3> QED
      BY <1>3, <1>4, <1>6, <1>10, <2>1, <2>2, <3>1 DEF Placed, At
  <2>3. CASE l = "checking"
    <3>1. Trail(RunOf(w), call[w] - 1, call[w] - 1, call[w] - 1)'
      BY <1>2, <1>3, <1>4, <1>6, <1>8, <2>3 DEF Trail, Calls
    <3> QED
      BY <1>3, <1>4, <1>10, <2>1, <2>3, <3>1 DEF Placed, At
  <2>4. CASE l = "abandoning"
    BY <1>4, <2>4 DEF Placed, At, Evaluating
  <2> QED
    BY <2>2, <2>3, <2>4
<1> QED
  BY <1>1, <1>2, <1>3, <1>6, <1>7, <1>9, <1>10, <1>11, ActorStep

LEMMA RecordCaseCalls ==
  ASSUME CallsInv, HolderInv', NEW w \in Workers, RecordCase(w)
  PROVE  CallsInv'
<1> DEFINE r == RunOf(w)
           c == call[w]
           row == [runs[r] EXCEPT !.completed = CaseOf(c)]
<1> USE NumbersOfCalls
<1>1. At(w, {"recording"}) /\ UNCHANGED <<jobs, sent>> /\ runs[r].status = "running"
  BY DEF RecordCase
<1>2. /\ r \in Runs /\ runs[r] \in RunRows /\ c \in Calls /\ At(w, Evaluating) /\ At(w, Stages)
      /\ Trail(r, c, c, c) /\ IsJudge(c)
  BY <1>1, ActorRun, StagesOfRuns DEF At, Evaluating, CallsInv, Placed
<1>3. PICK l \in {"completing", "checking", "abandoning"} :
        /\ Goto(w, l)
        /\ \/ CaseOf(c) = Cases /\ l # "checking" /\ UNCHANGED call
           \/ CaseOf(c) # Cases /\ l # "completing" /\ call' = [call EXCEPT ![w] = @ + 1]
  BY DEF RecordCase, Replied
<1>4. r' = r /\ runner'[w].at = l
  BY <1>1, <1>2, <1>3, Moved
<1>5. /\ row \in RunRows /\ row.receipts = runs[r].receipts /\ row.status = runs[r].status
      /\ row.intents = runs[r].intents
  BY <1>1, <1>2, CallNumbers DEF RunRows
<1>6. /\ call' \in [Workers -> 0 .. 2 * Cases]
      /\ call'[w] = IF CaseOf(c) = Cases THEN c ELSE c + 1
      /\ \A v \in Workers : v # w => call'[v] = call[v]
  <2>1. c \in 0 .. 2 * Cases /\ (CaseOf(c) # Cases => c + 1 \in 0 .. 2 * Cases)
    BY <1>2, CallNumbers DEF Calls
  <2>2. call \in [Workers -> 0 .. 2 * Cases]
    BY DEF CallsInv, ObservedTypeOK
  <2> QED
    BY <1>3, <2>1, <2>2
<1>7. ObservedTypeOK' /\ runs'[r] = row /\ \A q \in Runs : q # r => runs'[q] = runs[q]
  <2>1. runs' = [runs EXCEPT ![r] = row]
    BY <1>2 DEF RecordCase, CallsInv, ObservedTypeOK, RunRows
  <2> QED
    BY <1>1, <1>2, <1>5, <1>6, <2>1, RowWritten
<1>8. \A k : Trail(r, k, k, k) => /\ runs'[r].receipts = 1 .. k
                                  /\ \A d \in Calls :
                                       /\ runs'[r].intents[d] = IF d <= k THEN "acknowledged" ELSE "none"
                                       /\ sent'[r][d] = IF d <= k THEN 1 ELSE 0
  BY <1>1, <1>5, <1>7 DEF Trail
<1>9. InOrder(r)'
  <2>1. c \in 0 .. 2 * Cases
    BY <1>2 DEF Calls
  <2>2. \E k \in 0 .. 2 * Cases : Trail(r, k, k, k)'
    BY <1>2, <1>4, <1>8, <2>1 DEF Trail, Calls
  <2> QED
    BY <2>2 DEF InOrder
<1>10. ~Fresh(r)'
  BY <1>1, <1>4, <1>5, <1>7 DEF Fresh
<1>11. Placed(w)'
  <2>1. call'[w] \in Calls
    BY <1>2, <1>6, CallNumbers
  <2>2. CASE l = "completing"
    <3>1. Trail(RunOf(w), call[w], call[w], call[w])' /\ call'[w] = c /\ c = 2 * Cases
      BY <1>2, <1>3, <1>4, <1>6, <1>8, <2>2, CallNumbers DEF Trail, Calls
    <3> QED
      BY <1>2, <1>4, <1>10, <2>1, <2>2, <3>1 DEF Placed, At
  <2>3. CASE l = "checking"
    <3>1. Trail(RunOf(w), call[w] - 1, call[w] - 1, call[w] - 1)'
      BY <1>2, <1>3, <1>4, <1>6, <1>8, <2>3 DEF Trail, Calls
    <3> QED
      BY <1>3, <1>4, <1>10, <2>1, <2>3, <3>1 DEF Placed, At
  <2>4. CASE l = "abandoning"
    BY <1>4, <2>4 DEF Placed, At, Evaluating
  <2> QED
    BY <2>2, <2>3, <2>4
<1> QED
  BY <1>1, <1>2, <1>3, <1>6, <1>7, <1>9, <1>10, <1>11, ActorStep

(* A run that ends, with all its calls as they are. *)
LEMMA EndCalls ==
  ASSUME CallsInv, HolderInv', NEW w \in Workers, Score(w) \/ FailRun(w)
  PROVE  CallsInv'
<1> DEFINE r == RunOf(w)
<1>1. /\ At(w, Evaluating \cup {"retiring", "abandoning"}) /\ UNCHANGED <<jobs, call, sent>>
      /\ \E s \in Over : runs' = [runs EXCEPT ![r].status = s] \/ runs' = [runs EXCEPT ![r].status = @]
      /\ \E l \in {"done", "abandoning", "failing"} : Goto(w, l)
  BY DEF Score, FailRun, Replied, At, Evaluating, Over
<1>2. r \in Runs /\ runs[r] \in RunRows /\ runs[r].status # "none" /\ ObservedTypeOK
  BY <1>1, ActorRun DEF At, CallsInv
<1>3. PICK s \in Active \cup Over :
        runs' = [runs EXCEPT ![r].status = s] /\ (Fresh(r) \/ s # "queued")
  <2>1. runs[r].status \in Active \cup Over
    BY <1>2 DEF RunRows
  <2>2. \A s \in Over : s # "queued"
    BY DEF Over
  <2> QED
    BY <1>1, <1>2, <2>1, <2>2 DEF Fresh
<1>4. /\ runs' \in [Runs -> RunRows]
      /\ \A q \in Runs : /\ runs'[q].receipts = runs[q].receipts
                         /\ runs'[q].intents = runs[q].intents
                         /\ runs'[q].status = IF q = r THEN s ELSE runs[q].status
  BY <1>2, <1>3, StatusWritten
<1>5. PICK l \in {"done", "abandoning", "failing"} : Goto(w, l)
  BY <1>1
<1>6. /\ SameJobs
      /\ \A v \in Workers : v # w => runner'[v] = runner[v]
      /\ runner'[w].at = l /\ \A v \in Workers : runner'[v].job = runner[v].job
  BY <1>1, <1>5, GotoFrame
<1>7. ObservedTypeOK'
  BY <1>1, <1>2, <1>4 DEF ObservedTypeOK, HolderInv
<1>8. s # "none"
  BY DEF Active, Over
<1>9. JobsOfRuns'
  BY <1>4, <1>6, <1>7, <1>8, JobsOfRunsKept DEF ObservedTypeOK
<1>10. \A v \in Workers : At(v, Evaluating)' => SamePlace(v)
  BY <1>1, <1>5, <1>6 DEF At, SamePlace, Evaluating
<1>11. \A q \in Runs : Fresh(q)' => Fresh(q)
  BY <1>3, <1>4, <1>8 DEF Fresh
<1> QED
  BY <1>1, <1>4, <1>6, <1>7, <1>9, <1>10, <1>11, QuietStep DEF SameJobs

LEMMA StartCalls ==
  ASSUME CallsInv, HolderInv', NEW r \in Runs, NEW d \in Definitions, Start(r, d)
  PROVE  CallsInv'
<1> DEFINE row == [runs[r] EXCEPT !.status = "queued", !.definition = d]
           job == [status |-> "queued", key |-> r, payload |-> r, attempts |-> 0, lease |-> "null"]
<1>1. QueueTypeOK /\ ObservedTypeOK /\ JobsOfRuns /\ UNCHANGED <<runner, mishaps, call, sent>>
  BY DEF CallsInv, ObservedTypeOK, Start, Enqueue
<1>2. row \in RunRows /\ row.status = "queued" /\ row.receipts = runs[r].receipts
      /\ row.intents = runs[r].intents /\ runs[r].status = "none"
  BY <1>1 DEF Start, ObservedTypeOK, RunRows, Active
<1>3. runs' = [runs EXCEPT ![r] = row]
  BY <1>1 DEF Start, ObservedTypeOK, RunRows
<1>4. PICK j \in Jobs : jobs[j].status = "none" /\ jobs' = [jobs EXCEPT ![j] = job]
  BY DEF Start, Enqueue, Insert
<1>5. jobs'[j] = job /\ \A i \in Jobs : i # j => jobs'[i] = jobs[i]
  BY <1>1, <1>4 DEF QueueTypeOK
<1>6. runs'[r] = row /\ \A q \in Runs : q # r => runs'[q] = runs[q]
  BY <1>1, <1>3 DEF ObservedTypeOK
<1>7. KeptJobs
  BY <1>4, <1>5 DEF KeptJobs
<1>8. ObservedTypeOK'
  BY <1>1, <1>2, <1>3 DEF ObservedTypeOK, HolderInv
<1>9. JobsOfRuns'
  <2>1. \A i \in Jobs : jobs[i].status # "none" => jobs[i].payload # r
    BY <1>1, <1>2 DEF JobsOfRuns
  <2>2. \A i \in Jobs : jobs'[i].status # "none" =>
          jobs'[i].payload \in Runs /\ runs'[jobs'[i].payload].status # "none"
    <3>1. \A q \in Runs : runs[q].status # "none" => runs'[q].status # "none"
      BY <1>2, <1>6
    <3>2. jobs'[j].payload = r /\ runs'[r].status # "none"
      BY <1>2, <1>5, <1>6
    <3> QED
      BY <1>1, <1>5, <3>1, <3>2 DEF JobsOfRuns
  <2>3. \A i, k \in Jobs :
          /\ jobs'[i].status # "none" /\ jobs'[k].status # "none"
          /\ jobs'[i].payload = jobs'[k].payload
          => i = k
    BY <1>1, <1>5, <2>1 DEF JobsOfRuns
  <2>4. \A v \in Workers : runner'[v].job # None => jobs'[runner'[v].job].status # "none"
    BY <1>1, <1>5 DEF JobsOfRuns, QueueTypeOK, Runners
  <2> QED
    BY <2>2, <2>3, <2>4 DEF JobsOfRuns
<1>10. \A q \in Runs : /\ runs'[q].receipts = runs[q].receipts
                       /\ runs'[q].intents = runs[q].intents
                       /\ Fresh(q)' => Fresh(q)
  BY <1>2, <1>6 DEF Fresh
<1>11. \A v \in Workers : At(v, Evaluating)' => SamePlace(v)
  BY <1>1 DEF SamePlace
<1> QED
  BY <1>1, <1>7, <1>8, <1>9, <1>10, <1>11, QuietStep

LEMMA CallsStep == CallsInv /\ [ObservedNext]_observedVars => CallsInv'
<1> SUFFICES ASSUME CallsInv, [ObservedNext]_observedVars PROVE CallsInv'
  OBVIOUS
<1>1. HolderInv'
  BY ObservedHolder DEF CallsInv
<1>2. ASSUME NEW w \in Workers, Ends(w) PROVE CallsInv'
  BY <1>1, <1>2, WaitingCalls, BeginCalls, IntendCalls, SendCalls, AcknowledgeCalls, RecordCaseCalls,
     EndCalls DEF Ends
<1>3. ASSUME NEW w \in Workers, Handle(w) \/ Around(w) PROVE CallsInv'
  BY <1>1, <1>2, <1>3, WaitingCalls, LoopCalls DEF Handle
<1>4. CASE UNCHANGED observedVars
  <2>1. KeptJobs /\ UNCHANGED <<jobs, runner, runs, call, sent>>
    BY <1>4 DEF observedVars, queueVars, KeptJobs
  <2>2. ObservedTypeOK' /\ JobsOfRuns'
    BY <1>1, <2>1 DEF CallsInv, ObservedTypeOK, HolderInv, JobsOfRuns
  <2> QED
    BY <1>1, <2>1, <2>2, QuietStep DEF Fresh, SamePlace
<1> QED
  BY <1>1, <1>3, <1>4, StartCalls, CancelCalls, LeaseCalls DEF ObservedNext

(***************************************************************************)
(* The runs, their jobs, the workers and their calls are type correct: a   *)
(* worker never counts a call or a case that a run does not have.          *)
(***************************************************************************)
THEOREM ObservedTyped == ObservedSpec => []ObservedTypeOK
<1>1. CallsInv => ObservedTypeOK
  BY DEF CallsInv
<1> QED
  BY <1>1, CallsInit, CallsStep, PTL DEF ObservedSpec

LEMMA CallsRecorded == CallsInv => SpendIsRecorded
<1> SUFFICES ASSUME CallsInv, NEW r \in Runs
             PROVE  /\ \A c \in Calls : sent[r][c] <= IF runs[r].intents[c] = "none" THEN 0 ELSE 1
                    /\ Cardinality({c \in Calls : runs[r].intents[c] = "open"}) <= 1
  BY DEF SpendIsRecorded
<1>1. PICK n, m, k \in 0 .. 2 * Cases : n <= k /\ k <= m /\ m <= n + 1 /\ Trail(r, n, m, k)
  BY DEF CallsInv, InOrder
<1>2. \A c \in Calls : c \in Nat
  BY NumbersOfCalls DEF Calls
<1>3. \A c \in Calls : sent[r][c] <= IF runs[r].intents[c] = "none" THEN 0 ELSE 1
  BY <1>1, <1>2 DEF Trail
<1>4. {c \in Calls : runs[r].intents[c] = "open"} \in SUBSET {m}
  BY <1>1, <1>2 DEF Trail
<1>5. Cardinality({c \in Calls : runs[r].intents[c] = "open"}) <= Cardinality({m})
  BY <1>4, FS_Singleton, FS_Subset
<1> QED
  BY <1>3, <1>5, FS_Singleton

(***************************************************************************)
(* Every call is on record before it leaves and leaves once, and one call  *)
(* at most is unconfirmed, for any number of runs, workers and deaths.     *)
(***************************************************************************)
THEOREM SpendRecorded == ObservedSpec => []SpendIsRecorded
BY CallsRecorded, CallsInit, CallsStep, PTL DEF ObservedSpec

-----------------------------------------------------------------------------
(* The end of a run and of its job.                                        *)

(* A worker that returned, or completed its job, left the run over; and no  *)
(* worker is about to begin a run that another is executing.                *)
DoneInv ==
  /\ CallsInv
  /\ \A j \in Jobs : jobs[j].status = "complete" => runs[jobs[j].payload].status \in Over
  /\ \A w \in Workers : /\ runner[w].at = "done" => runs[RunOf(w)].status \in Over
                        /\ runner[w].at = "beginning" => runs[RunOf(w)].status # "running"

LEMMA DoneInit == ObservedInit => DoneInv
<1> SUFFICES ASSUME ObservedInit PROVE DoneInv
  OBVIOUS
<1> QED
  BY CallsInit DEF DoneInv, ObservedInit, QueueInit, NoRow, AtRest

(* A run that is over stays as it ended. *)
LEMMA OverStays ==
  ASSUME CallsInv, [ObservedNext]_observedVars, NEW r \in Runs, runs[r].status \in Over
  PROVE  runs'[r].status = runs[r].status
<1> USE DEF CallsInv, ObservedTypeOK
<1>1. runs[r] \in RunRows /\ ~IsActive(r) /\ runs[r].status \notin {"none", "queued", "running"}
  BY DEF Over, IsActive, Active
<1>2. ASSUME NEW q \in Runs, NEW d \in Definitions, Start(q, d) PROVE runs'[r] = runs[r]
  BY <1>1, <1>2 DEF Start
<1>3. ASSUME NEW q \in Runs, Cancel(q) PROVE runs'[r] = runs[r]
  BY <1>1, <1>3 DEF Cancel
<1>4. ASSUME NEW w \in Workers, Ends(w) PROVE runs'[r].status = runs[r].status
  <2>1. CASE Begin(w) \/ Score(w)
    BY <1>1, <2>1 DEF Begin, Score
  <2>2. CASE FailRun(w)
    BY <1>1, <2>2 DEF FailRun, IsActive
  <2>3. CASE Intend(w) \/ Acknowledge(w) \/ RecordCase(w)
    BY <1>1, <2>3 DEF Intend, Acknowledge, RecordCase, RunRows
  <2> QED
    BY <1>4, <2>1, <2>2, <2>3
       DEF Ends, Examine, SnapshotInvalid, EnsureNotCanceled, Send, Answer, Abandon
<1>5. ASSUME NEW w \in Workers, OutOfTime(w) \/ FailRunFails(w) \/ Around(w) PROVE runs' = runs
  BY <1>5 DEF OutOfTime, FailRunFails, Around
<1> QED
  BY <1>2, <1>3, <1>4, <1>5 DEF ObservedNext, Handle, LeaseEnds, observedVars

LEMMA DoneKept ==
  ASSUME DoneInv, CallsInv', KeptJobs, [ObservedNext]_observedVars,
         \A j \in Jobs : jobs'[j].status = "complete" =>
           jobs[j].status = "complete" \/ runs'[jobs'[j].payload].status \in Over,
         \A w \in Workers : runner'[w].at = "done" =>
           runner'[w] = runner[w] \/ (runs[RunOf(w)].status \in Over)',
         \A w \in Workers : runner'[w].at = "beginning" =>
           \/ runner'[w] = runner[w] /\ (runs[RunOf(w)].status = "running" \/ (runs[RunOf(w)].status # "running")')
           \/ (runs[RunOf(w)].status # "running")'
  PROVE  DoneInv'
<1>1. \A r \in Runs : runs[r].status \in Over => runs'[r].status = runs[r].status
  BY OverStays DEF DoneInv
<1>2. JobsOfRuns /\ QueueTypeOK
  BY DEF DoneInv, CallsInv, ObservedTypeOK
<1>3. \A j \in Jobs : jobs'[j].status = "complete" => runs'[jobs'[j].payload].status \in Over
  BY <1>1, <1>2 DEF DoneInv, KeptJobs, JobsOfRuns
<1>4. ASSUME NEW w \in Workers, runner'[w] = runner[w], runner[w].at = "done"
      PROVE  (runs[RunOf(w)].status \in Over)'
  <2>1. runner[w].job \in Jobs /\ jobs[runner[w].job].status # "none"
    BY <1>2, <1>4, QueueAssumption DEF QueueTypeOK, JobsOfRuns
  <2>2. RunOf(w)' = RunOf(w) /\ RunOf(w) \in Runs
    BY <1>2, <1>4, <2>1 DEF RunOf, KeptJobs, JobsOfRuns
  <2> QED
    BY <1>1, <1>4, <2>2 DEF DoneInv
<1> QED
  BY <1>3, <1>4 DEF DoneInv

(* A run starts to be executed only where a worker begins it. *)
LEMMA RunningKept ==
  ASSUME CallsInv, NEW w \in Workers, Ends(w), ~Begin(w), NEW r \in Runs, runs'[r].status = "running"
  PROVE  runs[r].status = "running"
<1> USE DEF CallsInv, ObservedTypeOK
<1>1. runs[r] \in RunRows
  OBVIOUS
<1>2. CASE Score(w)
  BY <1>1, <1>2 DEF Score
<1>3. CASE FailRun(w)
  BY <1>1, <1>3 DEF FailRun
<1>4. CASE Intend(w)
  BY <1>1, <1>4 DEF Intend, RunRows
<1>5. CASE Acknowledge(w)
  BY <1>1, <1>5 DEF Acknowledge, RunRows
<1>6. CASE RecordCase(w)
  BY <1>1, <1>6 DEF RecordCase, RunRows
<1> QED
  BY <1>2, <1>3, <1>4, <1>5, <1>6 DEF Ends, Examine, SnapshotInvalid, EnsureNotCanceled, Send, Answer, Abandon

LEMMA HandlerDone ==
  ASSUME DoneInv, CallsInv', [ObservedNext]_observedVars, NEW w \in Workers, Ends(w) \/ FailRunFails(w)
  PROVE  DoneInv'
<1> DEFINE r == RunOf(w)
<1>1. CallsInv /\ UNCHANGED jobs
  BY HandlerGoes DEF DoneInv
<1>2. PICK l \in Stages \cup {"done", "failing"} : Goto(w, l)
  BY HandlerGoes
<1>3. /\ SameJobs
      /\ \A v \in Workers : v # w => runner'[v] = runner[v]
      /\ runner'[w].at = l /\ \A v \in Workers : runner'[v].job = runner[v].job
  BY <1>1, <1>2, GotoFrame
<1>4. /\ At(w, Stages) /\ r' = r /\ r \in Runs
      /\ runs[r] \in RunRows /\ runs[r].status # "none"
  <2>1. At(w, Stages)
    BY HandlerGoes, StagesOfRuns DEF At
  <2>2. r' = r /\ r \in Runs
    BY <1>1, <1>3, <2>1, SameRun DEF SameJobs
  <2>3. runner[w].job \in Jobs /\ runner[w].job # None
    BY <1>1, <2>1, StagesApart, QueueAssumption DEF At, CallsInv, ObservedTypeOK, QueueTypeOK
  <2> QED
    BY <1>1, <2>1, <2>2, <2>3 DEF CallsInv, ObservedTypeOK, JobsOfRuns, RunOf
<1>5. l = "done" => runs'[r].status \in Over
  <2> SUFFICES ASSUME l = "done" PROVE runs'[r].status \in Over
    OBVIOUS
  <2>1. Goto(w, "done") /\ runner'[w].at = "done"
    BY <1>2, <1>3
  <2>2. CASE Examine(w)
    BY <1>1, <1>3, <2>1, <2>2 DEF Examine, Goto, CallsInv, ObservedTypeOK, QueueTypeOK, Runners
  <2>3. CASE Begin(w)
    <3>1. runs[r].status # "running"
      BY <2>3 DEF Begin, At, DoneInv
    <3>2. runs[r].status # "queued" /\ runs' = runs
      BY <1>1, <2>1, <2>3 DEF Begin, Replied, Goto, CallsInv, ObservedTypeOK, QueueTypeOK, Runners
    <3> QED
      BY <1>4, <3>1, <3>2 DEF RunRows, Active
  <2>4. CASE Score(w)
    BY <1>1, <1>4, <2>4 DEF Score, CallsInv, ObservedTypeOK, RunRows, Over
  <2>5. CASE FailRun(w)
    <3>1. runs'[r].status = IF runs[r].status \in Active THEN "failed" ELSE runs[r].status
      BY <1>1, <1>4, <2>5 DEF FailRun, CallsInv, ObservedTypeOK, RunRows
    <3> QED
      BY <1>4, <3>1 DEF RunRows, Over
  <2>6. ASSUME NEW k, k # "done", Goto(w, k) PROVE FALSE
    BY <1>1, <2>1, <2>6, GotoFrame
  <2>7. ASSUME SnapshotInvalid(w) \/ EnsureNotCanceled(w) \/ Send(w) \/ Answer(w) \/ Abandon(w) \/ FailRunFails(w)
        PROVE FALSE
    BY <2>6, <2>7 DEF SnapshotInvalid, EnsureNotCanceled, Send, Answer, Abandon, FailRunFails
  <2>8. ASSUME Intend(w) \/ Acknowledge(w) \/ RecordCase(w) PROVE FALSE
    BY <2>6, <2>8 DEF Intend, Acknowledge, RecordCase, Replied
  <2> QED
    BY <2>2, <2>3, <2>4, <2>5, <2>7, <2>8 DEF Ends
<1>6. l = "beginning" => runs'[r].status # "running"
  <2> SUFFICES ASSUME l = "beginning" PROVE runs'[r].status # "running"
    OBVIOUS
  <2>1. ASSUME NEW k, k # "beginning", Goto(w, k) PROVE FALSE
    BY <1>1, <1>3, <2>1, GotoFrame
  <2>2. ASSUME SnapshotInvalid(w) \/ EnsureNotCanceled(w) \/ Send(w) \/ Answer(w) \/ Abandon(w)
               \/ FailRunFails(w) \/ FailRun(w) \/ Begin(w)
        PROVE FALSE
    BY <2>1, <2>2 DEF SnapshotInvalid, EnsureNotCanceled, Send, Answer, Abandon, FailRunFails,
                      FailRun, Begin, Replied
  <2>3. ASSUME Intend(w) \/ Acknowledge(w) \/ RecordCase(w) \/ Score(w) PROVE FALSE
    BY <2>1, <2>3 DEF Intend, Acknowledge, RecordCase, Score, Replied
  <2>4. CASE Examine(w)
    BY <2>1, <2>4 DEF Examine
  <2> QED
    BY <2>2, <2>3, <2>4 DEF Ends
<1>7. ASSUME NEW v \in Workers, v # w, runner'[v].at = "beginning", (runs[RunOf(v)].status = "running")'
      PROVE  runs[RunOf(v)].status = "running"
  <2>1. At(v, Stages) /\ At(v, {"beginning"})
    BY <1>3, <1>7, StagesOfRuns DEF At
  <2>2. RunOf(v)' = RunOf(v) /\ RunOf(v) \in Runs
    BY <1>1, <1>3, <2>1, SameRun DEF SameJobs
  <2>3. CASE Begin(w)
    <3>1. RunOf(v) # r
      <4>1. runner[v].job \in Jobs /\ runner[v].job # None /\ runner[w].job \in Jobs /\ runner[w].job # None
        BY <1>1, <1>4, <2>1, StagesApart, QueueAssumption
           DEF At, CallsInv, ObservedTypeOK, QueueTypeOK
      <4>2. runner[v].job # runner[w].job
        BY <1>1, <1>4, <1>7, <2>1 DEF At, CallsInv, HolderInv, OneHolder, Holders
      <4> QED
        BY <1>1, <4>1, <4>2 DEF CallsInv, JobsOfRuns, RunOf
    <3>2. runs'[RunOf(v)] = runs[RunOf(v)]
      BY <1>1, <1>4, <2>2, <2>3, <3>1 DEF Begin, CallsInv, ObservedTypeOK
    <3> QED
      BY <1>7, <2>2, <3>2
  <2>4. CASE FailRunFails(w)
    BY <1>7, <2>2, <2>4 DEF FailRunFails
  <2>5. CASE Ends(w) /\ ~Begin(w)
    BY <1>1, <1>7, <2>2, <2>5, RunningKept
  <2> QED
    BY <2>3, <2>4, <2>5
<1>8. \A v \in Workers : runner'[v].at = "done" => runner'[v] = runner[v] \/ (runs[RunOf(v)].status \in Over)'
  BY <1>3, <1>4, <1>5
<1>9. \A v \in Workers : runner'[v].at = "beginning" =>
        \/ runner'[v] = runner[v] /\ (runs[RunOf(v)].status = "running" \/ (runs[RunOf(v)].status # "running")')
        \/ (runs[RunOf(v)].status # "running")'
  BY <1>3, <1>4, <1>6, <1>7
<1> QED
  BY <1>1, <1>3, <1>8, <1>9, DoneKept DEF SameJobs

(* Steps of the loop, of people and of time. *)
LEMMA OtherDone ==
  ASSUME DoneInv, CallsInv', [ObservedNext]_observedVars,
         KeptJobs,
         \A j \in Jobs : jobs'[j].status = "complete" =>
           jobs[j].status = "complete" \/ runs'[jobs'[j].payload].status \in Over,
         \A v \in Workers : runner'[v].at \in {"done", "beginning"} => runner'[v] = runner[v],
         \A r \in Runs : runs'[r].status = "running" => runs[r].status = "running"
  PROVE  DoneInv'
<1>1. CallsInv
  BY DEF DoneInv
<1>2. ASSUME NEW v \in Workers, runner'[v].at = "beginning", (runs[RunOf(v)].status = "running")'
      PROVE  runner'[v] = runner[v] /\ runs[RunOf(v)].status = "running"
  <2>1. runner'[v] = runner[v] /\ At(v, Stages)
    BY <1>2, StagesOfRuns DEF At
  <2>2. RunOf(v)' = RunOf(v) /\ RunOf(v) \in Runs
    BY <1>1, <2>1, SameRun
  <2> QED
    BY <1>2, <2>1, <2>2
<1> QED
  BY <1>2, DoneKept

LEMMA LoopDone ==
  ASSUME DoneInv, CallsInv', [ObservedNext]_observedVars, NEW w \in Workers, Around(w) \/ OutOfTime(w)
  PROVE  DoneInv'
<1>1. CallsInv /\ QueueTypeOK
  BY DEF DoneInv, CallsInv, ObservedTypeOK
<1>2. /\ Loop(w) \/ Die(w) \/ (Release(w) /\ At(w, {"working"}))
      /\ UNCHANGED runs
  BY DEF Around, OutOfTime
<1>3. SameJobs /\ \A v \in Workers : runner'[v].at \in {"done", "beginning"} => runner'[v] = runner[v]
  BY <1>1, <1>2, LoopFrame
<1>4. ASSUME NEW j \in Jobs, jobs'[j].status = "complete", jobs[j].status # "complete"
      PROVE  runs'[jobs'[j].payload].status \in Over
  <2>2. runner[w].at = "done" /\ j = runner[w].job
    BY <1>1, <1>2, <1>4, OnlyCompleted
  <2>3. runs[jobs[j].payload].status \in Over
    BY <2>2 DEF DoneInv, RunOf
  <2>4. jobs[j].status # "none"
    BY <1>3, <1>4 DEF SameJobs
  <2> QED
    BY <1>2, <1>3, <2>3, <2>4 DEF SameJobs, KeptJobs
<1> QED
  BY <1>2, <1>3, <1>4, OtherDone DEF SameJobs

LEMMA DoneStep == DoneInv /\ CallsInv' /\ [ObservedNext]_observedVars => DoneInv'
<1> SUFFICES ASSUME DoneInv, CallsInv', [ObservedNext]_observedVars PROVE DoneInv'
  OBVIOUS
<1>1. CallsInv /\ ObservedTypeOK /\ QueueTypeOK
  BY DEF DoneInv, CallsInv, ObservedTypeOK
<1>2. ASSUME NEW r \in Runs, NEW d \in Definitions, Start(r, d) PROVE DoneInv'
  <2>1. PICK j \in Jobs :
          /\ jobs[j].status = "none" /\ jobs'[j].status = "queued"
          /\ \A i \in Jobs : i # j => jobs'[i] = jobs[i]
    BY <1>1, <1>2 DEF Start, Enqueue, Insert, QueueTypeOK
  <2>2. runs'[r].status = "queued" /\ \A q \in Runs : q # r => runs'[q] = runs[q]
    BY <1>1, <1>2 DEF Start, ObservedTypeOK, RunRows
  <2>3. runner' = runner
    BY <1>2 DEF Start, Enqueue
  <2> QED
    BY <2>1, <2>2, <2>3, OtherDone DEF KeptJobs
<1>3. ASSUME NEW r \in Runs, Cancel(r) PROVE DoneInv'
  <2>1. \A j \in Jobs : jobs[j] \in Rows
    BY <1>1 DEF QueueTypeOK
  <2>2. KeptJobs /\ \A j \in Jobs : jobs'[j].status = "complete" => jobs[j].status = "complete"
    <3>1. CASE Dequeue(r)
      <4> SUFFICES ASSUME NEW j \in Jobs
                   PROVE  /\ jobs[j].status # "none" =>
                               jobs'[j].status # "none" /\ jobs'[j].payload = jobs[j].payload
                          /\ jobs'[j].status = "complete" => jobs[j].status = "complete"
        BY DEF KeptJobs
      <4>1. jobs[j] \in Rows
        BY <2>1
      <4> QED
        BY <3>1, <4>1 DEF Dequeue, Rows
    <3>2. CASE UNCHANGED jobs
      BY <3>2 DEF KeptJobs
    <3> QED
      BY <1>3, <3>1, <3>2 DEF Cancel
  <2>3. \A q \in Runs : runs'[q].status = IF q = r THEN "canceled" ELSE runs[q].status
    BY <1>1, <1>3 DEF Cancel, ObservedTypeOK, RunRows
  <2>4. runner' = runner
    BY <1>3 DEF Cancel
  <2> QED
    BY <2>2, <2>3, <2>4, OtherDone
<1>4. ASSUME NEW j \in Jobs, LeaseEnds(j) PROVE DoneInv'
  <2>1. KeptJobs /\ \A i \in Jobs : jobs'[i].status = "complete" => jobs[i].status = "complete"
    BY <1>1, <1>4 DEF LeaseEnds, Expire, QueueTypeOK, Rows, KeptJobs
  <2> QED
    BY <1>4, <2>1, OtherDone DEF LeaseEnds, Expire
<1>5. CASE UNCHANGED observedVars
  <2>1. KeptJobs /\ UNCHANGED <<jobs, runner, runs>>
    BY <1>5 DEF observedVars, queueVars, KeptJobs
  <2> QED
    BY <2>1, OtherDone
<1>6. ASSUME NEW w \in Workers, Handle(w) \/ Around(w) PROVE DoneInv'
  BY <1>6, HandlerDone, LoopDone DEF Handle
<1> QED
  BY <1>2, <1>3, <1>4, <1>5, <1>6 DEF ObservedNext

LEMMA DoneEndsRun == DoneInv => CompletedJobEndsRun
BY DEF DoneInv, CompletedJobEndsRun, IsActive, Active, Over

(***************************************************************************)
(* A job that completed leaves a run that is over: the queue never forgets *)
(* a run that is active, whatever transactions fail or replies are lost.   *)
(***************************************************************************)
THEOREM CompletedEndsRun == ObservedSpec => []CompletedJobEndsRun
BY DoneEndsRun, CallsInit, CallsStep, DoneInit, DoneStep, PTL DEF ObservedSpec, DoneInv

(***************************************************************************)
(* What the queue promises of any handler holds of observed runs, although *)
(* cancel fails the queued job of its run from outside the queue: a        *)
(* completed job stays complete, and a running one is not failed under its *)
(* worker.                                                                 *)
(***************************************************************************)
THEOREM ObservedJobsEndSoundly == ObservedSpec => CompletedStays /\ FailedOnlyWhenLost
<1>1. ObservedInit => LostInv
  BY LostInit DEF ObservedInit
<1>2. LostInv /\ [ObservedNext]_observedVars =>
        /\ [\A j \in Jobs : jobs[j].status = "complete" /\ jobs'[j].status # "complete" =>
              LateReply(j)]_queueVars
        /\ [\A j \in Jobs : jobs[j].status = "running" /\ jobs'[j].status = "failed" =>
              FailureIsOwn(j)]_queueVars
  BY ObservedLost DEF EndsSoundly
<1> QED
  BY <1>1, <1>2, ObservedLost, PTL
     DEF ObservedSpec, CompletedStays, FailedOnlyWhenLost, LateReply, FailureIsOwn

-----------------------------------------------------------------------------
(* The implementation of ObservedOnce.                                     *)

(* A run's page of the book. *)
PhaseOf(r)   == IF IsActive(r) THEN "open" ELSE runs[r].status
Announced(r) == {c \in Calls : runs[r].intents[c] # "none"}
Left(r)      == {c \in Calls : sent[r][c] > 0}

Page(r) == [phase     |-> PhaseOf(r),
            announced |-> Announced(r),
            sent      |-> Left(r),
            confirmed |-> runs[r].receipts]

LEMMA BookOfPages ==
  /\ \A r \in Runs : Book[r] = Page(r)
  /\ (\A r \in Runs : Page(r)' = Page(r)) => Book' = Book
  /\ \A r \in Runs : (\A q \in Runs : q # r => Page(q)' = Page(q)) =>
       Book' = [Book EXCEPT ![r] = Page(r)']
<1>1. Book = [r \in Runs |-> Page(r)]
  BY DEF Book, Page, PhaseOf, Announced, Left
<1>2. Book' = [r \in Runs |-> Page(r)']
  BY DEF Book, Page, PhaseOf, Announced, Left
<1> QED
  BY <1>1, <1>2

Pages == [phase : {"none", "open"} \cup Over, announced : SUBSET Calls, sent : SUBSET Calls,
          confirmed : SUBSET Calls]

LEMMA PageType ==
  ASSUME ObservedTypeOK, ObservedTypeOK', NEW r \in Runs
  PROVE  Page(r) \in Pages /\ Page(r)' \in Pages
<1>1. runs[r] \in RunRows /\ runs'[r] \in RunRows
  BY DEF ObservedTypeOK
<1>2. PhaseOf(r) \in {"none", "open"} \cup Over /\ PhaseOf(r)' \in {"none", "open"} \cup Over
  BY <1>1 DEF PhaseOf, IsActive, RunRows
<1>3. /\ runs[r].receipts \subseteq Calls /\ runs'[r].receipts \subseteq Calls
      /\ Announced(r) \subseteq Calls /\ Announced(r)' \subseteq Calls
      /\ Left(r) \subseteq Calls /\ Left(r)' \subseteq Calls
  BY <1>1 DEF RunRows, Announced, Left
<1> QED
  BY <1>2, <1>3 DEF Page, Pages

(* An entry is added to a page. *)
LEMMA EntryAdded ==
  ASSUME NEW p \in Pages, NEW q \in Pages, NEW d, q.phase = p.phase
  PROVE  /\ /\ q.announced = p.announced \cup {d} /\ q.sent = p.sent /\ q.confirmed = p.confirmed
            => q = [p EXCEPT !.announced = @ \cup {d}]
         /\ /\ q.announced = p.announced /\ q.sent = p.sent \cup {d} /\ q.confirmed = p.confirmed
            => q = [p EXCEPT !.sent = @ \cup {d}]
         /\ /\ q.announced = p.announced /\ q.sent = p.sent /\ q.confirmed = p.confirmed \cup {d}
            => q = [p EXCEPT !.confirmed = @ \cup {d}]
BY DEF Pages

LEMMA PageKept ==
  ASSUME NEW r \in Runs, runs'[r] = runs[r], sent'[r] = sent[r]
  PROVE  Page(r)' = Page(r)
BY DEF Page, PhaseOf, Announced, Left, IsActive

(* The numbers of a trail are what is on the page. *)
LEMMA PageOfTrail ==
  ASSUME NEW r \in Runs, NEW n \in 0 .. 2 * Cases, NEW m \in 0 .. 2 * Cases, NEW k \in 0 .. 2 * Cases,
         n <= m, Trail(r, n, m, k)
  PROVE  Page(r).announced = 1 .. m /\ Page(r).sent = 1 .. k /\ Page(r).confirmed = 1 .. n
<1> USE NumbersOfCalls
<1>1. Announced(r) = 1 .. m
  BY DEF Announced, Trail, Calls
<1>2. Left(r) = 1 .. k
  BY DEF Left, Trail, Calls
<1> QED
  BY <1>1, <1>2 DEF Page, Trail

(* A step that writes nothing but the status of a run. *)
LEMMA EndImplements ==
  ASSUME ObservedTypeOK, NEW r \in Runs, NEW s \in Active \cup Over,
         runs' = [runs EXCEPT ![r].status = s], UNCHANGED sent,
         IF IsActive(r) THEN s = "complete" => runs[r].receipts = Calls
                        ELSE s = runs[r].status
  PROVE  Once!OnceNext \/ UNCHANGED Book
<1>1. \A q \in Runs : /\ runs'[q].receipts = runs[q].receipts
                      /\ runs'[q].intents = runs[q].intents
                      /\ runs'[q].status = IF q = r THEN s ELSE runs[q].status
  <2>1. runs' = [runs EXCEPT ![r].status = s]
    OBVIOUS
  <2>2. runs \in [Runs -> RunRows]
    BY DEF ObservedTypeOK
  <2> QED
    BY <2>1, <2>2 DEF RunRows
<1>2. \A q \in Runs : /\ q # r => PhaseOf(q)' = PhaseOf(q)
                      /\ Announced(q)' = Announced(q) /\ Left(q)' = Left(q)
  BY <1>1 DEF PhaseOf, Announced, Left, IsActive
<1>3. \A q \in Runs : q # r => Page(q)' = Page(q)
  BY <1>1, <1>2 DEF Page
<1>4. CASE s \in Active \/ ~IsActive(r)
  <2>1. PhaseOf(r)' = PhaseOf(r)
    BY <1>1, <1>4 DEF PhaseOf, IsActive
  <2>2. Page(r)' = Page(r)
    BY <1>1, <1>2, <2>1 DEF Page
  <2> QED
    BY <1>3, <2>2, BookOfPages
<1>5. CASE s \in Over /\ IsActive(r)
  <2>1. PhaseOf(r)' = s
    BY <1>1, <1>5 DEF PhaseOf, IsActive, Active, Over
  <2>2. Page(r)' = [Page(r) EXCEPT !.phase = s]
    BY <1>1, <1>2, <2>1 DEF Page
  <2>3. Book[r] = Page(r) /\ Book' = [Book EXCEPT ![r] = Page(r)']
    BY <1>3, BookOfPages
  <2>4. Page(r).phase = "open" /\ Page(r).confirmed = runs[r].receipts
    BY <1>5 DEF Page, PhaseOf
  <2>5. Once!Finish(r, s)
    BY <1>5, <2>2, <2>3, <2>4 DEF Once!Finish, Once!Calls, Calls
  <2> QED
    BY <1>5, <2>5 DEF Once!OnceNext, Once!Over, Over
<1> QED
  BY <1>4, <1>5

LEMMA StartImplements ==
  ASSUME CallsInv, NEW r \in Runs, NEW d \in Definitions, Start(r, d)
  PROVE  Once!OnceNext
<1>1. /\ runs'[r].status = "queued" /\ runs'[r].receipts = runs[r].receipts
      /\ runs'[r].intents = runs[r].intents /\ runs[r].status = "none" /\ UNCHANGED sent
      /\ \A q \in Runs : q # r => runs'[q] = runs[q]
  BY DEF Start, CallsInv, ObservedTypeOK, RunRows
<1>2. \A q \in Runs : q # r => Page(q)' = Page(q)
  BY <1>1, PageKept
<1>3. Page(r)' = [Page(r) EXCEPT !.phase = "open"] /\ Page(r).phase = "none"
  <2>1. /\ PhaseOf(r) = "none" /\ PhaseOf(r)' = "open"
        /\ Announced(r)' = Announced(r) /\ Left(r)' = Left(r)
    BY <1>1 DEF PhaseOf, Announced, Left, IsActive, Active
  <2> QED
    BY <1>1, <2>1 DEF Page
<1>4. Book[r] = Page(r) /\ Book' = [Book EXCEPT ![r] = Page(r)']
  BY <1>2, BookOfPages
<1>5. Once!Start(r)
  BY <1>3, <1>4 DEF Once!Start
<1> QED
  BY <1>5 DEF Once!OnceNext

LEMMA IntendImplements ==
  ASSUME CallsInv, ObservedTypeOK', NEW w \in Workers, Intend(w)
  PROVE  Once!OnceNext
<1> DEFINE r == RunOf(w)
           c == call[w]
<1> USE NumbersOfCalls
<1>0. ObservedTypeOK /\ ObservedTypeOK'
  BY DEF CallsInv
<1>1. PICK s \in Runs : s = r
  BY ActorRun DEF Intend, At, Evaluating
<1>2. /\ runs[s] \in RunRows /\ c \in Calls /\ runs[s].status = "running"
      /\ runs[s].intents \in [Calls -> {"none", "open", "acknowledged"}]
      /\ Trail(s, c - 1, c - 1, c - 1)
  BY <1>1, ActorRun DEF Intend, At, Evaluating, CallsInv, Placed
<1>3. PICK d \in Calls : d = c
  BY <1>2
<1>4. /\ runs' = [runs EXCEPT ![s].intents[d] = "open"] /\ UNCHANGED sent
  BY <1>1, <1>3 DEF Intend
<1>5. /\ runs'[s].receipts = runs[s].receipts /\ runs'[s].status = "running"
      /\ runs'[s].intents = [runs[s].intents EXCEPT ![d] = "open"]
      /\ \A q \in Runs : q # s => runs'[q] = runs[q]
  BY <1>2, <1>4 DEF CallsInv, ObservedTypeOK, RunRows
<1>6. Page(s).announced = 1 .. d - 1 /\ Page(s).confirmed = 1 .. d - 1 /\ Page(s).phase = "open"
  <2>1. d - 1 \in 0 .. 2 * Cases
    BY DEF Calls
  <2> QED
    BY <1>2, <1>3, <2>1, PageOfTrail DEF Page, PhaseOf, IsActive, Active
<1>7. Page(s)' = [Page(s) EXCEPT !.announced = @ \cup {d}]
  <2>1. Announced(s)' = Announced(s) \cup {d}
    BY <1>2, <1>5 DEF Announced
  <2>2. PhaseOf(s)' = PhaseOf(s) /\ Left(s)' = Left(s)
    BY <1>2, <1>4, <1>5 DEF PhaseOf, Left, IsActive
  <2>3. /\ Page(s)'.phase = Page(s).phase /\ Page(s)'.announced = Page(s).announced \cup {d}
        /\ Page(s)'.sent = Page(s).sent /\ Page(s)'.confirmed = Page(s).confirmed
    BY <1>5, <2>1, <2>2 DEF Page
  <2>4. Page(s) \in Pages /\ Page(s)' \in Pages
    BY <1>0, PageType
  <2> QED
    BY <2>3, <2>4, EntryAdded
<1>8. Book[s] = Page(s) /\ Book' = [Book EXCEPT ![s] = Page(s)']
  BY <1>4, <1>5, BookOfPages, PageKept
<1>9. Once!Announce(s, d)
  BY <1>6, <1>7, <1>8 DEF Once!Announce
<1> QED
  BY <1>9 DEF Once!OnceNext, Once!Calls, Calls

LEMMA SendImplements ==
  ASSUME CallsInv, ObservedTypeOK', NEW w \in Workers, Send(w)
  PROVE  Once!OnceNext
<1> DEFINE r == RunOf(w)
           c == call[w]
<1> USE NumbersOfCalls
<1>0. ObservedTypeOK /\ ObservedTypeOK'
  BY DEF CallsInv
<1>1. PICK s \in Runs : s = r
  BY ActorRun DEF Send, At, Evaluating
<1>2. c \in Calls /\ Trail(s, c - 1, c, c - 1)
  BY <1>1, ActorRun DEF Send, At, Evaluating, CallsInv, Placed
<1>3. PICK d \in Calls : d = c
  BY <1>2
<1>4. /\ UNCHANGED runs /\ sent'[s] = [sent[s] EXCEPT ![d] = @ + 1] /\ sent[s] \in [Calls -> Nat]
      /\ \A q \in Runs : q # s => sent'[q] = sent[q]
  BY <1>1, <1>3 DEF Send, CallsInv, ObservedTypeOK
<1>5. Page(s).announced = 1 .. d /\ Page(s).sent = 1 .. d - 1 /\ d \in Nat \ {0}
  <2>1. d - 1 \in 0 .. 2 * Cases /\ d \in 0 .. 2 * Cases /\ d - 1 <= d /\ d \in Nat \ {0}
    BY DEF Calls
  <2> QED
    BY <1>2, <1>3, <2>1, PageOfTrail
<1>6. Page(s)' = [Page(s) EXCEPT !.sent = @ \cup {d}]
  <2>1. Left(s)' = Left(s) \cup {d}
    BY <1>4 DEF Left
  <2>2. PhaseOf(s)' = PhaseOf(s) /\ Announced(s)' = Announced(s)
    BY <1>4 DEF PhaseOf, Announced, IsActive
  <2>3. runs'[s].receipts = runs[s].receipts
    BY <1>4
  <2>4. /\ Page(s)'.phase = Page(s).phase /\ Page(s)'.announced = Page(s).announced
        /\ Page(s)'.sent = Page(s).sent \cup {d} /\ Page(s)'.confirmed = Page(s).confirmed
    BY <2>1, <2>2, <2>3 DEF Page
  <2>5. Page(s) \in Pages /\ Page(s)' \in Pages
    BY <1>0, PageType
  <2> QED
    BY <2>4, <2>5, EntryAdded
<1>7. Book[s] = Page(s) /\ Book' = [Book EXCEPT ![s] = Page(s)']
  BY <1>4, BookOfPages, PageKept
<1>8. d \in Page(s).announced \ Page(s).sent
  BY <1>5
<1>9. Once!Send(s, d)
  BY <1>6, <1>7, <1>8 DEF Once!Send
<1> QED
  BY <1>9 DEF Once!OnceNext, Once!Calls, Calls

LEMMA AcknowledgeImplements ==
  ASSUME CallsInv, ObservedTypeOK', NEW w \in Workers, Acknowledge(w)
  PROVE  Once!OnceNext
<1> DEFINE r == RunOf(w)
           c == call[w]
<1> USE NumbersOfCalls
<1>0. ObservedTypeOK /\ ObservedTypeOK'
  BY DEF CallsInv
<1>1. PICK s \in Runs : s = r
  BY ActorRun DEF Acknowledge, At, Evaluating
<1>2. /\ runs[s] \in RunRows /\ c \in Calls /\ runs[s].status \in {"running", "canceled"}
      /\ runs[s].intents \in [Calls -> {"none", "open", "acknowledged"}]
      /\ Trail(s, c - 1, c, c)
  BY <1>1, ActorRun DEF Acknowledge, At, Evaluating, CallsInv, Placed
<1>3. PICK d \in Calls : d = c
  BY <1>2
<1>4. /\ runs' = [runs EXCEPT ![s].receipts = @ \cup {d}, ![s].intents[d] = "acknowledged"]
      /\ UNCHANGED sent
  BY <1>1, <1>3 DEF Acknowledge
<1>5. /\ runs'[s].receipts = runs[s].receipts \cup {d} /\ runs'[s].status = runs[s].status
      /\ runs'[s].intents = [runs[s].intents EXCEPT ![d] = "acknowledged"]
      /\ \A q \in Runs : q # s => runs'[q] = runs[q]
  BY <1>2, <1>4 DEF CallsInv, ObservedTypeOK, RunRows
<1>6. /\ Page(s).sent = 1 .. d /\ Page(s).confirmed = 1 .. d - 1 /\ d \in Nat \ {0}
      /\ Page(s).phase \in {"open", "canceled"} /\ Page(s).announced = 1 .. d
  <2>1. d - 1 \in 0 .. 2 * Cases /\ d \in 0 .. 2 * Cases /\ d - 1 <= d /\ d \in Nat \ {0}
    BY DEF Calls
  <2>2. Page(s).phase \in {"open", "canceled"}
    BY <1>2 DEF Page, PhaseOf, IsActive, Active
  <2> QED
    BY <1>2, <1>3, <2>1, <2>2, PageOfTrail
<1>7. Page(s)' = [Page(s) EXCEPT !.confirmed = @ \cup {d}]
  <2>1. d \in Announced(s)
    BY <1>6 DEF Page
  <2>2. Announced(s)' = Announced(s)
    BY <1>2, <1>5, <2>1 DEF Announced
  <2>3. PhaseOf(s)' = PhaseOf(s) /\ Left(s)' = Left(s)
    BY <1>2, <1>4, <1>5 DEF PhaseOf, Left, IsActive
  <2>4. runs'[s].receipts = runs[s].receipts \cup {d}
    BY <1>5
  <2>5. /\ Page(s)'.phase = Page(s).phase /\ Page(s)'.announced = Page(s).announced
        /\ Page(s)'.sent = Page(s).sent /\ Page(s)'.confirmed = Page(s).confirmed \cup {d}
    BY <2>2, <2>3, <2>4 DEF Page
  <2>6. Page(s) \in Pages /\ Page(s)' \in Pages
    BY <1>0, PageType
  <2> QED
    BY <2>5, <2>6, EntryAdded
<1>8. Book[s] = Page(s) /\ Book' = [Book EXCEPT ![s] = Page(s)']
  BY <1>4, <1>5, BookOfPages, PageKept
<1>9. d \in Page(s).sent \ Page(s).confirmed
  BY <1>6
<1>10. Once!Confirm(s, d)
  BY <1>6, <1>7, <1>8, <1>9 DEF Once!Confirm
<1> QED
  BY <1>10 DEF Once!OnceNext, Once!Calls, Calls

LEMMA HandlerImplements ==
  ASSUME CallsInv, ObservedTypeOK', NEW w \in Workers, Handle(w) \/ Around(w)
  PROVE  Once!OnceNext \/ UNCHANGED Book
<1>1. ObservedTypeOK
  BY DEF CallsInv
<1>2. ASSUME UNCHANGED <<runs, sent>> PROVE UNCHANGED Book
  BY <1>2, PageKept, BookOfPages
<1>3. ASSUME NEW r, r \in Runs, NEW s \in Active \cup Over, runs' = [runs EXCEPT ![r].status = s],
             UNCHANGED sent,
             IF IsActive(r) THEN s = "complete" => runs[r].receipts = Calls ELSE s = runs[r].status
      PROVE  Once!OnceNext \/ UNCHANGED Book
  BY <1>1, <1>3, EndImplements
<1>4. ASSUME At(w, Evaluating \cup {"beginning", "retiring", "abandoning"})
      PROVE  RunOf(w) \in Runs /\ runs[RunOf(w)].status \in Active \cup Over
  BY <1>4, ActorRun DEF RunRows
<1>5. CASE Begin(w)
  <2>1. RunOf(w) \in Runs
    BY <1>4, <1>5 DEF Begin, At
  <2>2. UNCHANGED sent
    BY <1>5 DEF Begin
  <2>3. CASE UNCHANGED runs
    BY <1>2, <2>2, <2>3
  <2>4. CASE runs[RunOf(w)].status = "queued" /\ runs' = [runs EXCEPT ![RunOf(w)].status = "running"]
    BY <1>3, <2>1, <2>2, <2>4 DEF Active, IsActive
  <2> QED
    BY <1>5, <2>3, <2>4 DEF Begin
<1>6. CASE RecordCase(w)
  <2>1. RunOf(w) \in Runs /\ UNCHANGED sent
    BY <1>4, <1>6 DEF RecordCase, At, Evaluating
  <2>2. \A q \in Runs : /\ runs'[q].receipts = runs[q].receipts /\ runs'[q].status = runs[q].status
                        /\ runs'[q].intents = runs[q].intents
    BY <1>1, <1>6, <2>1 DEF RecordCase, ObservedTypeOK, RunRows
  <2>3. \A q \in Runs : Page(q)' = Page(q)
    <3>1. \A q \in Runs : PhaseOf(q)' = PhaseOf(q) /\ Announced(q)' = Announced(q) /\ Left(q)' = Left(q)
      BY <2>1, <2>2 DEF PhaseOf, Announced, Left, IsActive
    <3> QED
      BY <2>2, <3>1 DEF Page
  <2> QED
    BY <2>3, BookOfPages
<1>7. CASE Score(w)
  <2>1. /\ RunOf(w) \in Runs /\ runs[RunOf(w)].status = "running" /\ UNCHANGED sent
        /\ runs' = [runs EXCEPT ![RunOf(w)].status = "complete"]
    BY <1>4, <1>7 DEF Score, At, Evaluating
  <2>2. runs[RunOf(w)].receipts = Calls
    BY <1>7 DEF Score, CallsInv, Placed, At, Evaluating, Trail, Calls
  <2> QED
    BY <1>3, <2>1, <2>2 DEF Active, Over, IsActive
<1>8. CASE FailRun(w)
  <2>1. RunOf(w) \in Runs /\ runs[RunOf(w)].status \in Active \cup Over /\ UNCHANGED sent
    BY <1>4, <1>8 DEF FailRun, At
  <2>2. runs' = [runs EXCEPT ![RunOf(w)].status =
                   IF IsActive(RunOf(w)) THEN "failed" ELSE runs[RunOf(w)].status]
    BY <1>8 DEF FailRun, IsActive
  <2>3. (IF IsActive(RunOf(w)) THEN "failed" ELSE runs[RunOf(w)].status) \in Active \cup Over
    BY <2>1 DEF Over
  <2> QED
    BY <1>3, <2>1, <2>2, <2>3
<1>9. CASE Intend(w) \/ Send(w) \/ Acknowledge(w)
  BY <1>9, IntendImplements, SendImplements, AcknowledgeImplements
<1>10. CASE \/ Examine(w) \/ SnapshotInvalid(w) \/ EnsureNotCanceled(w) \/ Answer(w) \/ Abandon(w)
            \/ OutOfTime(w) \/ FailRunFails(w) \/ Around(w)
  BY <1>2, <1>10 DEF Examine, SnapshotInvalid, EnsureNotCanceled, Answer, Abandon, OutOfTime,
                     FailRunFails, Around
<1> QED
  BY <1>5, <1>6, <1>7, <1>8, <1>9, <1>10 DEF Handle, Ends

LEMMA OnceInitially == ObservedInit => Once!OnceInit
<1> SUFFICES ASSUME ObservedInit PROVE Once!OnceInit
  OBVIOUS
<1>1. \A r \in Runs : runs[r] = NoRun /\ sent[r] = [c \in Calls |-> 0]
  BY DEF ObservedInit
<1>2. \A r \in Runs : PhaseOf(r) = "none" /\ Announced(r) = {} /\ Left(r) = {} /\ runs[r].receipts = {}
  BY <1>1 DEF PhaseOf, Announced, Left, IsActive, Active, NoRun
<1>3. \A r \in Runs :
        Page(r) = [phase |-> "none", announced |-> {}, sent |-> {}, confirmed |-> {}]
  BY <1>2 DEF Page
<1>4. Book = [r \in Runs |-> Page(r)]
  BY DEF Book, Page, PhaseOf, Announced, Left
<1> QED
  BY <1>3, <1>4 DEF Once!OnceInit

LEMMA OnceStep == CallsInv /\ CallsInv' /\ [ObservedNext]_observedVars => [Once!OnceNext]_Book
<1> SUFFICES ASSUME CallsInv, ObservedTypeOK', [ObservedNext]_observedVars PROVE Once!OnceNext \/ UNCHANGED Book
  BY DEF CallsInv
<1>1. ASSUME UNCHANGED <<runs, sent>> PROVE UNCHANGED Book
  BY <1>1, PageKept, BookOfPages
<1>2. ASSUME NEW r \in Runs, Cancel(r) PROVE Once!OnceNext \/ UNCHANGED Book
  <2>1. ObservedTypeOK /\ UNCHANGED sent /\ IsActive(r)
        /\ runs' = [runs EXCEPT ![r].status = "canceled"]
    BY <1>2 DEF CallsInv, Cancel
  <2> QED
    BY <2>1, EndImplements DEF Over
<1>3. ASSUME NEW j \in Jobs, LeaseEnds(j) PROVE UNCHANGED Book
  BY <1>1, <1>3 DEF LeaseEnds
<1>4. CASE UNCHANGED observedVars
  BY <1>1, <1>4 DEF observedVars
<1> QED
  BY <1>2, <1>3, <1>4, StartImplements, HandlerImplements DEF ObservedNext

(***************************************************************************)
(* Whatever becomes of the workers, every behaviour of the runs is one of  *)
(* ObservedOnce: no call leaves unannounced, twice or before its           *)
(* predecessors were confirmed, a score rests on every call, and a run     *)
(* that is over announces none.                                            *)
(***************************************************************************)
THEOREM RunsImplementOnce == ObservedSpec => ImplementsOnce
BY OnceInitially, OnceStep, CallsInit, CallsStep, PTL DEF ObservedSpec, ImplementsOnce, Once!OnceSpec

-----------------------------------------------------------------------------
(***************************************************************************)
(* The admission of runs, for any tenants, requests, concurrent calls, caps*)
(* and costs: its type, that the ledgers agree with the runs and the open  *)
(* transactions, and that no cap or limit is exceeded.                     *)
(***************************************************************************)
(* What Plan and Charge look at: a run and an open transaction alike. *)
Plannable(run) == run.tenant \in Tenants /\ run.source \in Sources /\ run.day \in Days

LEMMA LedgerNumbers ==
  /\ LastDay \in Nat /\ 0 \in Days /\ ActiveLimit \in Nat
  /\ \A l \in Ledgers : Cap[l] \in Nat
  /\ \A s \in Sources : Cost[s] \in Nat \ {0}
BY AdmissionAssumption DEF Days

(* A plan is four or five different rows of the ledgers. *)
LEMMA PlanRows ==
  ASSUME NEW run, Plannable(run)
  PROVE  /\ Plan(run) \in Seq(LedgerRows) /\ Len(Plan(run)) \in {4, 5}
         /\ \A i, j \in 1 .. Len(Plan(run)) : Plan(run)[i] = Plan(run)[j] => i = j
<1> DEFINE money == LedgerRow("moneyDay", run.tenant, run.day)
           month == LedgerRow("moneyMonth", run.tenant, 0)
           jev   == LedgerRow("jev", "platform", run.day)
           nim   == LedgerRow("nim", "platform", run.day)
           last  == LedgerRow("runs", run.tenant, run.day)
<1>1. {money, month, jev, nim, last} \subseteq LedgerRows
  BY LedgerNumbers DEF Plannable, LedgerRow, LedgerRows, Ledgers
<1>2. /\ money.ledger = "moneyDay" /\ month.ledger = "moneyMonth" /\ jev.ledger = "jev"
      /\ nim.ledger = "nim" /\ last.ledger = "runs"
  BY DEF LedgerRow
<1> DEFINE first == <<money, month, jev>>
           middle == IF run.source = "platform-nim" THEN <<nim>> ELSE << >>
<1> HIDE DEF money, month, jev, nim, last
<1>3. /\ first \in Seq(LedgerRows) /\ Len(first) = 3
      /\ first[1] = money /\ first[2] = month /\ first[3] = jev
  BY <1>1
<1>4. /\ middle \in Seq(LedgerRows) /\ Len(middle) \in {0, 1}
      /\ Len(middle) = 1 => middle[1] = nim
  <2>1. <<nim>> \in Seq(LedgerRows) /\ Len(<<nim>>) = 1 /\ <<nim>>[1] = nim
    BY <1>1
  <2>2. << >> \in Seq(LedgerRows) /\ Len(<< >>) = 0
    BY EmptySeq
  <2> QED
    BY <2>1, <2>2
<1>5. <<last>> \in Seq(LedgerRows) /\ Len(<<last>>) = 1 /\ <<last>>[1] = last
  BY <1>1
<1>6. Plan(run) = first \o middle \o <<last>>
  BY DEF Plan, money, month, jev, nim, last
<1> HIDE DEF first, middle
<1>7. /\ first \o middle \in Seq(LedgerRows) /\ Len(first \o middle) = 3 + Len(middle)
      /\ \A i \in 1 .. 3 + Len(middle) :
           (first \o middle)[i] = IF i <= 3 THEN first[i] ELSE middle[i - 3]
  <2> HIDE DEF LedgerRows
  <2>1. /\ first \o middle \in Seq(LedgerRows)
        /\ Len(first \o middle) = Len(first) + Len(middle)
        /\ \A i \in 1 .. Len(first) + Len(middle) :
             (first \o middle)[i] = IF i <= Len(first) THEN first[i] ELSE middle[i - Len(first)]
    BY <1>3, <1>4, ConcatProperties
  <2> QED
    BY <1>3, <2>1
<1>8. /\ Plan(run) \in Seq(LedgerRows) /\ Len(Plan(run)) = 4 + Len(middle)
      /\ \A i \in 1 .. 4 + Len(middle) :
           Plan(run)[i] = IF i <= 3 + Len(middle) THEN (first \o middle)[i] ELSE last
  <2>1. /\ first \o middle \o <<last>> \in Seq(LedgerRows)
        /\ Len(first \o middle \o <<last>>) = Len(first \o middle) + Len(<<last>>)
        /\ \A i \in 1 .. Len(first \o middle) + Len(<<last>>) :
             (first \o middle \o <<last>>)[i] =
               IF i <= Len(first \o middle) THEN (first \o middle)[i]
               ELSE <<last>>[i - Len(first \o middle)]
    BY <1>5, <1>7, ConcatProperties
  <2> QED
    BY <1>4, <1>5, <1>6, <1>7, <2>1
<1> DEFINE extra == Len(middle)
           row(i) == Plan(run)[i]
<1>9. extra \in {0, 1} /\ Len(Plan(run)) = 4 + extra
  BY <1>4, <1>8
<1>10. /\ row(1).ledger = "moneyDay" /\ row(2).ledger = "moneyMonth" /\ row(3).ledger = "jev"
       /\ extra = 0 => row(4).ledger = "runs"
       /\ extra = 1 => row(4).ledger = "nim" /\ row(5).ledger = "runs"
  <2> HIDE DEF LedgerRows
  <2>1. row(1) = money /\ row(2) = month /\ row(3) = jev
    <3>1. \A i \in 1 .. 3 : i \in 1 .. 4 + extra /\ i \in 1 .. 3 + extra /\ i <= 3 + extra
      BY <1>9
    <3>2. \A i \in 1 .. 3 : row(i) = first[i]
      BY <1>7, <1>8, <3>1
    <3> QED
      BY <1>3, <3>2
  <2>2. extra = 0 => row(4) = last
    BY <1>8
  <2>3. extra = 1 => row(4) = nim /\ row(5) = last
    BY <1>4, <1>7, <1>8
  <2> QED
    BY <1>2, <2>1, <2>2, <2>3
<1> HIDE DEF extra, row
<1>11. \A i, j \in 1 .. 4 + extra : row(i).ledger = row(j).ledger => i = j
  <2>1. CASE extra = 0
    <3>1. 1 .. 4 + extra = {1, 2, 3, 4}
      BY <2>1
    <3> QED
      BY <1>10, <2>1, <3>1
  <2>2. CASE extra = 1
    <3>1. 1 .. 4 + extra = {1, 2, 3, 4, 5}
      BY <2>2
    <3> QED
      BY <1>10, <2>2, <3>1
  <2> QED
    BY <1>9, <2>1, <2>2
<1>12. \A i, j \in 1 .. Len(Plan(run)) : Plan(run)[i] = Plan(run)[j] => i = j
  BY <1>9, <1>11 DEF row
<1> QED
  BY <1>8, <1>9, <1>12

FirstRows(run, n) == {Plan(run)[i] : i \in 1 .. n}

(* What a call has charged is the beginning of its plan. *)
LEMMA RowsUpTo ==
  ASSUME NEW run, Plannable(run), NEW n \in 0 .. Len(Plan(run))
  PROVE  /\ ToSet(SubSeq(Plan(run), 1, n)) = FirstRows(run, n)
         /\ FirstRows(run, n) \subseteq LedgerRows
<1> DEFINE p == Plan(run)
<1>1. p \in Seq(LedgerRows) /\ Len(p) \in Nat /\ \A i \in 1 .. n : i \in 1 .. Len(p)
  BY PlanRows
<1> HIDE DEF p
<1>2. \A i \in 1 .. n : p[i] \in LedgerRows
  BY <1>1, ElementOfSeq
<1>3. /\ SubSeq(p, 1, n) \in Seq(LedgerRows)
      /\ Len(SubSeq(p, 1, n)) = IF 1 <= n THEN n - 1 + 1 ELSE 0
      /\ \A i \in 1 .. n - 1 + 1 : SubSeq(p, 1, n)[i] = p[1 + i - 1]
  BY <1>2, SubSeqProperties
<1>4. DOMAIN SubSeq(p, 1, n) = 1 .. n /\ \A i \in 1 .. n : SubSeq(p, 1, n)[i] = p[i]
  <2>1. Len(SubSeq(p, 1, n)) = n /\ DOMAIN SubSeq(p, 1, n) = 1 .. Len(SubSeq(p, 1, n))
    BY <1>3, LenProperties
  <2>2. \A i \in 1 .. n : i \in 1 .. n - 1 + 1 /\ 1 + i - 1 = i
    OBVIOUS
  <2> QED
    BY <1>3, <2>1, <2>2
<1> QED
  BY <1>2, <1>4 DEF ToSet, FirstRows, p

LEMMA RowsOfPlan ==
  ASSUME NEW run, Plannable(run)
  PROVE  ToSet(Plan(run)) = FirstRows(run, Len(Plan(run)))
BY PlanRows, LenProperties DEF ToSet, FirstRows

(* The next row is not one of those charged before. *)
LEMMA NextRow ==
  ASSUME NEW run, Plannable(run), NEW n \in 0 .. Len(Plan(run)), n < Len(Plan(run))
  PROVE  /\ Plan(run)[n + 1] \in LedgerRows /\ Plan(run)[n + 1] \notin FirstRows(run, n)
         /\ FirstRows(run, n + 1) = FirstRows(run, n) \cup {Plan(run)[n + 1]}
<1>1. n + 1 \in 1 .. Len(Plan(run)) /\ Len(Plan(run)) \in Nat
  BY PlanRows
<1>2. \A i \in 1 .. n : i \in 1 .. Len(Plan(run)) /\ i # n + 1
  BY <1>1
<1>3. 1 .. n + 1 = (1 .. n) \cup {n + 1}
  OBVIOUS
<1>4. Plan(run)[n + 1] \in LedgerRows
  BY <1>1, PlanRows, ElementOfSeq
<1> QED
  BY <1>1, <1>2, <1>3, <1>4, PlanRows DEF FirstRows

LEMMA ChargeIsNat ==
  ASSUME NEW run, Plannable(run), NEW row PROVE Charge(run, row) \in Nat \ {0}
BY LedgerNumbers DEF Plannable, Charge

-----------------------------------------------------------------------------
(* What a set of runs has paid into a row. *)
PaidIn(R, row) == {x \in R : row \in ToSet(Plan(x))}
Paid(R, row) == SumFunction([run \in PaidIn(R, row) |-> Charge(run, row)])

LEMMA PaidIsSum ==
  ASSUME NEW R, NEW row
  PROVE  Paid(R, row) = SumFunctionOnSet([x \in PaidIn(R, row) |-> Charge(x, row)], PaidIn(R, row))
BY DEF Paid, SumFunction

LEMMA PaidNothing == ASSUME NEW row PROVE Paid({}, row) = 0
<1>1. PaidIn({}, row) = {}
  BY DEF PaidIn
<1> QED
  BY <1>1, PaidIsSum, SumEmpty

LEMMA PaidInt ==
  ASSUME NEW R, IsFiniteSet(R), \A x \in R : Plannable(x), NEW row
  PROVE  Paid(R, row) \in Nat
<1> DEFINE S == PaidIn(R, row)
           f == [x \in S |-> Charge(x, row)]
<1>1. IsFiniteSet(S)
  BY FS_Subset DEF PaidIn
<1>2. \A x \in S : f[x] \in Nat
  BY ChargeIsNat DEF PaidIn
<1>3. Paid(R, row) = SumFunctionOnSet(f, S)
  BY PaidIsSum
<1> HIDE DEF S, f
<1>4. S \in SUBSET S
  OBVIOUS
<1> QED
  BY <1>1, <1>2, <1>3, <1>4, SumSubset

(* One more run pays its charge into the rows of its plan. *)
LEMMA PaidByOneMore ==
  ASSUME NEW R, IsFiniteSet(R), \A x \in R : Plannable(x), NEW run, Plannable(run), run \notin R,
         NEW row
  PROVE  Paid(R \cup {run}, row) =
           Paid(R, row) + (IF row \in ToSet(Plan(run)) THEN Charge(run, row) ELSE 0)
<1> DEFINE S == PaidIn(R, row)
           T == PaidIn(R \cup {run}, row)
           f == [x \in S |-> Charge(x, row)]
           g == [x \in T |-> Charge(x, row)]
<1>1. IsFiniteSet(S) /\ run \notin S /\ \A x \in S : f[x] \in Int /\ f[x] = Charge(x, row)
  BY FS_Subset, ChargeIsNat DEF PaidIn
<1>2. T = IF row \in ToSet(Plan(run)) THEN S \cup {run} ELSE S
  BY DEF PaidIn
<1>3. \A x \in T : g[x] = Charge(x, row) /\ Charge(x, row) \in Int
  BY ChargeIsNat DEF PaidIn
<1>4. Paid(R, row) = SumFunctionOnSet(f, S) /\ Paid(R \cup {run}, row) = SumFunctionOnSet(g, T)
  BY PaidIsSum
<1>5. SumFunctionOnSet(f, S) \in Int
  BY <1>1, SumInt
<1> HIDE DEF S, T, f, g
<1>6. SumFunctionOnSet(f, S) = SumFunctionOnSet(g, S)
  BY <1>1, <1>2, <1>3, SumSame
<1>7. CASE row \in ToSet(Plan(run))
  <2>1. T = S \cup {run} /\ \A x \in S \cup {run} : g[x] \in Int
    BY <1>2, <1>3, <1>7
  <2>2. SumFunctionOnSet(g, T) = SumFunctionOnSet(g, S) + g[run]
    BY <1>1, <2>1, SumAdd
  <2> QED
    BY <1>3, <1>4, <1>6, <1>7, <2>1, <2>2
<1>8. CASE row \notin ToSet(Plan(run))
  BY <1>2, <1>4, <1>5, <1>6, <1>8
<1> QED
  BY <1>7, <1>8

(* The end of a run changes nothing in what was paid. *)
LEMMA PaidByEnded ==
  ASSUME NEW R, IsFiniteSet(R), \A x \in R : Plannable(x), NEW run \in R, NEW ended,
         Plannable(ended), ended \notin R \ {run}, Plan(ended) = Plan(run),
         ended.source = run.source, NEW row
  PROVE  Paid((R \ {run}) \cup {ended}, row) = Paid(R, row)
<1>1. IsFiniteSet(R \ {run}) /\ run \notin R \ {run} /\ (R \ {run}) \cup {run} = R
  BY FS_RemoveElement
<1>2. Charge(ended, row) = Charge(run, row)
  BY DEF Charge
<1>3. \A x \in R \ {run} : Plannable(x)
  OBVIOUS
<1>4. Paid(R, row) = Paid(R \ {run}, row)
                     + (IF row \in ToSet(Plan(run)) THEN Charge(run, row) ELSE 0)
  BY <1>1, <1>3, PaidByOneMore, SMTT(30)
<1>5. Paid((R \ {run}) \cup {ended}, row) =
        Paid(R \ {run}, row) + (IF row \in ToSet(Plan(ended)) THEN Charge(ended, row) ELSE 0)
  BY <1>1, <1>3, PaidByOneMore
<1> QED
  BY <1>2, <1>4, <1>5

-----------------------------------------------------------------------------
(* A call has charged nothing before its checks, the beginning of its plan  *)
(* after them, and what the checks found still holds.                       *)
InPlace(a) ==
  /\ tx[a].at \in {"locking", "checking"} => tx[a].charged = 0
  /\ tx[a].at = "charging" =>
       /\ tx[a].charged <= Len(Plan(tx[a]))
       /\ SameRequest(a) = {}
       /\ Cardinality(ActiveRuns(tx[a].tenant)) < ActiveLimit

CallsInPlace == \A a \in Admitters : InPlace(a)

(* The advisory lock: one call of a tenant is past it. *)
TenantsLocked ==
  \A a, b \in Admitters :
    a # b /\ tx[a].at \in {"checking", "charging"} /\ tx[b].at \in {"checking", "charging"}
    => tx[a].tenant # tx[b].tenant

RowsHeldOnce == \A a, b \in Admitters : a # b => Charged(a) \cap Charged(b) = {}

RequestsOnce == \A x, y \in admitted : x.tenant = y.tenant /\ x.request = y.request => x = y

AdmissionInv ==
  /\ AdmissionTypeOK /\ IsFiniteSet(admitted)
  /\ CallsInPlace /\ TenantsLocked /\ RowsHeldOnce /\ RequestsOnce
  /\ LedgersAgree /\ CapsHeld

(* What the open transactions charged into a row. *)
HoldersOf(row) == {b \in Admitters : row \in Charged(b)}
HeldBy(calls, S, row) == SumFunction([a \in S |-> Charge(calls[a], row)])
HeldIn(row) == HeldBy(tx, HoldersOf(row), row)

LEMMA OpenCalls ==
  ASSUME AdmissionTypeOK, NEW a \in Admitters, tx[a] # NoTx
  PROVE  /\ tx[a].at \in {"locking", "checking", "charging"}
         /\ Plannable(tx[a]) /\ tx[a].request \in Requests /\ tx[a].charged \in 0 .. 5
BY DEF AdmissionTypeOK, Txs, Plannable

LEMMA IdleCalls == ASSUME NEW a, tx[a] = NoTx PROVE tx[a].at = "idle" /\ Charged(a) = {}
BY DEF NoTx, Charged

LEMMA AdmittedPlannable ==
  ASSUME AdmissionTypeOK, NEW x \in admitted
  PROVE  /\ Plannable(x) /\ x.tenant \in Tenants /\ x.request \in Requests /\ x.active \in BOOLEAN
         /\ x \in Admissions
BY DEF AdmissionTypeOK, Admissions, Plannable

(* The rows of a charging call, by their positions in its plan. *)
LEMMA ChargedRows ==
  ASSUME AdmissionTypeOK, CallsInPlace, NEW a \in Admitters
  PROVE  /\ Charged(a) \subseteq LedgerRows
         /\ tx[a].at = "charging" =>
              /\ Charged(a) = FirstRows(tx[a], tx[a].charged)
              /\ tx[a].charged \in 0 .. Len(Plan(tx[a]))
<1>1. CASE tx[a].at = "charging"
  <2>1. Plannable(tx[a]) /\ tx[a].charged \in Nat
    BY <1>1, OpenCalls DEF NoTx
  <2>2. tx[a].charged \in 0 .. Len(Plan(tx[a]))
    BY <1>1, <2>1, PlanRows DEF CallsInPlace, InPlace
  <2> QED
    BY <1>1, <2>1, <2>2, RowsUpTo DEF Charged
<1>2. CASE tx[a].at # "charging"
  BY <1>2 DEF Charged
<1> QED
  BY <1>1, <1>2

(* As a row has one holder, what is held in it is that holder's charge. *)
LEMMA HeldByNobody == ASSUME NEW calls, NEW row PROVE HeldBy(calls, {}, row) = 0
BY SumEmpty DEF HeldBy, SumFunction

LEMMA HeldByHolder ==
  ASSUME NEW calls, NEW a, NEW row, Charge(calls[a], row) \in Nat
  PROVE  HeldBy(calls, {a}, row) = Charge(calls[a], row)
<1> DEFINE f == [b \in {a} |-> Charge(calls[b], row)]
<1>1. HeldBy(calls, {a}, row) = SumFunctionOnSet(f, {a}) /\ f[a] = Charge(calls[a], row)
  BY DEF HeldBy, SumFunction
<1> HIDE DEF f
<1>2. IsFiniteSet({}) /\ a \notin {} /\ {} \cup {a} = {a}
  BY FS_EmptySet
<1>3. SumFunctionOnSet(f, {a}) = SumFunctionOnSet(f, {}) + f[a]
  <2>1. \A y \in {} \cup {a} : f[y] \in Int
    BY <1>1
  <2> QED
    BY <1>2, <2>1, SumAdd
<1> QED
  BY <1>1, <1>3, SumEmpty

(* LedgersAgree, said of the holder. *)
LEMMA LedgersOfHolder ==
  LedgersAgree <=> \A row \in LedgerRows : used[row] = Paid(admitted, row) + HeldIn(row)
BY DEF LedgersAgree, Paid, PaidIn, HeldIn, HeldBy, HoldersOf

-----------------------------------------------------------------------------
OpenTxs == [at : {"locking", "checking", "charging"}, tenant : Tenants, request : Requests,
            source : Sources, day : Days, charged : 0 .. 5]

(* A step of one call leaves the others and what they hold alone. *)
LEMMA CallMoves ==
  ASSUME AdmissionTypeOK, NEW a \in Admitters, NEW t \in Txs, tx' = [tx EXCEPT ![a] = t]
  PROVE  /\ tx' \in [Admitters -> Txs] /\ tx'[a] = t
         /\ \A b \in Admitters \ {a} : tx'[b] = tx[b] /\ Charged(b)' = Charged(b)
BY DEF AdmissionTypeOK, Charged

LEMMA TxShapes ==
  /\ NoTx \in Txs /\ OpenTxs \subseteq Txs
  /\ AdmissionTypeOK => \A a \in Admitters : tx[a] = NoTx \/ tx[a] \in OpenTxs
BY DEF Txs, OpenTxs, AdmissionTypeOK

(* Steps that charge nothing, admit nothing and end no run. *)
LEMMA NothingCharged ==
  ASSUME AdmissionInv, UNCHANGED <<admitted, used>>,
         tx' \in [Admitters -> Txs], today' \in Days,
         \A b \in Admitters : Charged(b)' = Charged(b) /\ (Charged(b) # {} => tx'[b] = tx[b])
  PROVE  /\ AdmissionTypeOK' /\ IsFiniteSet(admitted)' /\ RowsHeldOnce' /\ RequestsOnce'
         /\ LedgersAgree' /\ CapsHeld'
<1>1. AdmissionTypeOK'
  BY DEF AdmissionInv, AdmissionTypeOK
<1>2. IsFiniteSet(admitted)' /\ RowsHeldOnce' /\ RequestsOnce' /\ CapsHeld'
  BY DEF AdmissionInv, RowsHeldOnce, RequestsOnce, CapsHeld, ActiveRuns
<1>3. ASSUME NEW row \in LedgerRows PROVE Paid(admitted, row)' + HeldIn(row)' = used'[row]
  <2>1. HoldersOf(row)' = HoldersOf(row) /\ \A b \in HoldersOf(row) : tx'[b] = tx[b]
    BY DEF HoldersOf
  <2>2. HeldIn(row)' = HeldIn(row)
    BY <2>1 DEF HeldIn, HeldBy
  <2>3. used[row] = Paid(admitted, row) + HeldIn(row)
    BY LedgersOfHolder DEF AdmissionInv
  <2> QED
    BY <2>2, <2>3
<1>4. LedgersAgree'
  BY <1>3 DEF LedgersAgree, Paid, PaidIn, HeldIn, HeldBy, HoldersOf
<1> QED
  BY <1>1, <1>2, <1>4

LEMMA StaysInPlace ==
  ASSUME NEW b, InPlace(b), tx'[b] = tx[b], UNCHANGED admitted
  PROVE  InPlace(b)'
<1>1. SameRequest(b)' = SameRequest(b) /\ ActiveRuns(tx[b].tenant)' = ActiveRuns(tx[b].tenant)
  BY DEF SameRequest, ActiveRuns
<1> QED
  BY <1>1 DEF InPlace, ActiveRuns

LEMMA AskKeeps ==
  ASSUME AdmissionInv, NEW a \in Admitters, NEW t \in Tenants, NEW q \in Requests, Ask(a, t, q)
  PROVE  AdmissionInv'
<1> DEFINE new == [at |-> "locking", tenant |-> t, request |-> q, source |-> SourceOf[q],
                   day |-> today, charged |-> 0]
<1>1. new \in Txs /\ new.at = "locking" /\ new.charged = 0 /\ today' = today /\ today \in Days
  BY AdmissionAssumption DEF Ask, Txs, AdmissionInv, AdmissionTypeOK
<1>2. /\ tx' \in [Admitters -> Txs] /\ tx'[a] = new
      /\ \A b \in Admitters \ {a} : tx'[b] = tx[b] /\ Charged(b)' = Charged(b)
  BY <1>1, CallMoves DEF Ask, AdmissionInv
<1> HIDE DEF new
<1>3. Charged(a) = {} /\ Charged(a)' = {}
  BY <1>1, <1>2, IdleCalls DEF Ask, Charged
<1>4. CallsInPlace'
  <2>1. InPlace(a)'
    BY <1>1, <1>2 DEF InPlace
  <2>2. \A b \in Admitters \ {a} : InPlace(b)'
    BY <1>2, StaysInPlace DEF Ask, AdmissionInv, CallsInPlace
  <2> QED
    BY <2>1, <2>2 DEF CallsInPlace
<1>5. TenantsLocked'
  BY <1>1, <1>2 DEF Ask, AdmissionInv, TenantsLocked
<1> QED
  BY <1>1, <1>2, <1>3, <1>4, <1>5, NothingCharged DEF Ask, AdmissionInv

LEMMA LockKeeps ==
  ASSUME AdmissionInv, NEW a \in Admitters, Lock(a)
  PROVE  AdmissionInv'
<1> DEFINE new == [tx[a] EXCEPT !.at = "checking"]
<1>1. tx[a] \in OpenTxs /\ tx[a].charged = 0 /\ today' = today /\ today \in Days
  BY TxShapes DEF Lock, NoTx, AdmissionInv, AdmissionTypeOK, CallsInPlace, InPlace
<1>2. new \in Txs /\ new.at = "checking" /\ new.charged = 0 /\ new.tenant = tx[a].tenant
  BY <1>1, TxShapes DEF OpenTxs
<1>3. /\ tx' \in [Admitters -> Txs] /\ tx'[a] = new
      /\ \A b \in Admitters \ {a} : tx'[b] = tx[b] /\ Charged(b)' = Charged(b)
  <2>1. tx' = [tx EXCEPT ![a] = new]
    BY DEF Lock
  <2> HIDE DEF new
  <2> QED
    BY <1>2, <2>1, CallMoves DEF AdmissionInv
<1> HIDE DEF new
<1>4. Charged(a) = {} /\ Charged(a)' = {}
  BY <1>2, <1>3 DEF Lock, Charged
<1>5. CallsInPlace'
  <2>1. InPlace(a)'
    BY <1>2, <1>3 DEF InPlace
  <2>2. \A b \in Admitters \ {a} : InPlace(b)'
    BY <1>3, StaysInPlace DEF Lock, AdmissionInv, CallsInPlace
  <2> QED
    BY <2>1, <2>2 DEF CallsInPlace
<1>6. TenantsLocked'
  <2>1. \A b \in Admitters \ {a} : tx[b].at \in {"checking", "charging"} => tx[b].tenant # tx[a].tenant
    BY DEF Lock
  <2> QED
    BY <1>2, <1>3, <2>1 DEF AdmissionInv, TenantsLocked
<1> QED
  BY <1>1, <1>3, <1>4, <1>5, <1>6, NothingCharged DEF Lock, AdmissionInv

LEMMA CheckKeeps ==
  ASSUME AdmissionInv, NEW a \in Admitters, Check(a)
  PROVE  AdmissionInv'
<1>1. tx[a] \in OpenTxs /\ tx[a].charged = 0 /\ today' = today /\ today \in Days /\ Charged(a) = {}
  BY TxShapes DEF Check, NoTx, AdmissionInv, AdmissionTypeOK, CallsInPlace, InPlace, Charged
<1>2. PICK new \in Txs :
        /\ tx' = [tx EXCEPT ![a] = new]
        /\ \/ new = NoTx
           \/ /\ new.at = "charging" /\ new.charged = 0 /\ new.tenant = tx[a].tenant
              /\ new.request = tx[a].request /\ Plannable(new)
              /\ SameRequest(a) = {} /\ Cardinality(ActiveRuns(tx[a].tenant)) < ActiveLimit
  <2>1. CASE End(a)
    BY <2>1, TxShapes DEF End
  <2>2. CASE ~End(a)
    <3> DEFINE new == [tx[a] EXCEPT !.at = "charging"]
    <3>1. /\ new \in Txs /\ new.at = "charging" /\ new.charged = 0 /\ new.tenant = tx[a].tenant
          /\ new.request = tx[a].request /\ Plannable(new)
      BY <1>1, TxShapes DEF OpenTxs, Plannable
    <3>2. /\ tx' = [tx EXCEPT ![a] = new]
          /\ SameRequest(a) = {} /\ Cardinality(ActiveRuns(tx[a].tenant)) < ActiveLimit
      BY <2>2 DEF Check
    <3> HIDE DEF new
    <3> QED
      BY <3>1, <3>2
  <2> QED
    BY <2>1, <2>2
<1>3. /\ tx' \in [Admitters -> Txs] /\ tx'[a] = new
      /\ \A b \in Admitters \ {a} : tx'[b] = tx[b] /\ Charged(b)' = Charged(b)
  BY <1>2, CallMoves DEF AdmissionInv
<1>4. Charged(a)' = {}
  <2>1. CASE new = NoTx
    BY <1>3, <2>1 DEF Charged, NoTx
  <2>2. CASE new # NoTx
    <3>1. 0 \in 0 .. Len(Plan(new)) /\ 1 .. 0 = {}
      BY <1>2, <2>2, PlanRows
    <3>2. ToSet(SubSeq(Plan(new), 1, 0)) = {}
      BY <1>2, <2>2, <3>1, RowsUpTo DEF FirstRows
    <3> QED
      BY <1>2, <1>3, <2>2, <3>2 DEF Charged
  <2> QED
    BY <2>1, <2>2
<1>5. CallsInPlace'
  <2>1. CASE new = NoTx
    BY <1>3, <2>1, StaysInPlace DEF Check, NoTx, AdmissionInv, CallsInPlace, InPlace
  <2>2. CASE new # NoTx
    <3>1. 0 <= Len(Plan(new))
      BY <1>2, <2>2, PlanRows
    <3>2. SameRequest(a)' = {} /\ ActiveRuns(tx[a].tenant)' = ActiveRuns(tx[a].tenant)
      BY <1>2, <1>3, <2>2 DEF Check, SameRequest, ActiveRuns
    <3>3. InPlace(a)'
      BY <1>2, <1>3, <2>2, <3>1, <3>2 DEF InPlace, ActiveRuns
    <3> QED
      BY <1>3, <3>3, StaysInPlace DEF Check, AdmissionInv, CallsInPlace
  <2> QED
    BY <2>1, <2>2
<1>6. TenantsLocked'
  BY <1>2, <1>3 DEF Check, AdmissionInv, TenantsLocked, NoTx
<1> QED
  BY <1>1, <1>3, <1>4, <1>5, <1>6, NothingCharged DEF Check, AdmissionInv

(* The rows of a failed transaction lose its charges, which they held. *)
LEMMA RollBackKeeps ==
  ASSUME AdmissionInv, NEW a \in Admitters, tx[a] # NoTx, RollBack(a)
  PROVE  AdmissionInv'
<1>1. /\ tx' \in [Admitters -> Txs] /\ tx'[a] = NoTx
      /\ \A b \in Admitters \ {a} : tx'[b] = tx[b] /\ Charged(b)' = Charged(b)
  BY TxShapes, CallMoves DEF RollBack, End, AdmissionInv
<1>2. Charged(a)' = {} /\ tx'[a].at = "idle"
  BY <1>1 DEF Charged, NoTx
<1>3. UNCHANGED <<admitted, today>>
  BY DEF RollBack
<1>4. \A row \in LedgerRows : used[row] = Paid(admitted, row) + HeldIn(row)
  BY LedgersOfHolder DEF AdmissionInv
<1>5. \A row \in LedgerRows : Paid(admitted, row) \in Nat
  BY PaidInt, AdmittedPlannable DEF AdmissionInv
<1>6. ASSUME NEW row \in LedgerRows
      PROVE  /\ used'[row] \in Nat /\ used'[row] <= used[row]
             /\ used'[row] = Paid(admitted, row)' + HeldIn(row)'
  <2>1. Paid(admitted, row)' = Paid(admitted, row)
    BY <1>3
  <2>2. CASE row \in Charged(a)
    <3>1. HoldersOf(row) = {a} /\ HoldersOf(row)' = {}
      BY <1>1, <1>2, <2>2 DEF HoldersOf, AdmissionInv, RowsHeldOnce
    <3>2. Charge(tx[a], row) \in Nat
      BY OpenCalls, ChargeIsNat DEF AdmissionInv
    <3>3. HeldIn(row) = Charge(tx[a], row)
      BY <3>1, <3>2, HeldByHolder DEF HeldIn
    <3>4. HeldIn(row)' = 0
      BY <3>1, HeldByNobody DEF HeldIn
    <3>5. used'[row] = used[row] - Charge(tx[a], row)
      BY <2>2 DEF RollBack, AdmissionInv, AdmissionTypeOK
    <3> QED
      BY <1>4, <1>5, <2>1, <3>2, <3>3, <3>4, <3>5
  <2>3. CASE row \notin Charged(a)
    <3>1. HoldersOf(row)' = HoldersOf(row) /\ \A b \in HoldersOf(row) : tx'[b] = tx[b]
      BY <1>1, <1>2, <2>3 DEF HoldersOf
    <3>2. HeldIn(row)' = HeldIn(row)
      BY <3>1 DEF HeldIn, HeldBy
    <3>3. used'[row] = used[row] /\ used[row] \in Nat
      BY <2>3 DEF RollBack, AdmissionInv, AdmissionTypeOK
    <3> QED
      BY <1>4, <2>1, <3>2, <3>3
  <2> QED
    BY <2>2, <2>3
<1>7. AdmissionTypeOK'
  <2>1. used' = [l \in LedgerRows |-> used'[l]]
    BY DEF RollBack
  <2>2. used' \in [LedgerRows -> Nat]
    BY <1>6, <2>1
  <2> QED
    BY <1>1, <1>3, <2>2 DEF AdmissionInv, AdmissionTypeOK
<1>8. CallsInPlace'
  BY <1>1, <1>2, <1>3, StaysInPlace DEF AdmissionInv, CallsInPlace, InPlace
<1>9. TenantsLocked' /\ RowsHeldOnce'
  BY <1>1, <1>2 DEF AdmissionInv, TenantsLocked, RowsHeldOnce
<1>10. IsFiniteSet(admitted)' /\ RequestsOnce'
  BY <1>3 DEF AdmissionInv, RequestsOnce
<1>11. LedgersAgree'
  BY <1>6 DEF LedgersAgree, Paid, PaidIn, HeldIn, HeldBy, HoldersOf
<1>12. CapsHeld'
  <2>1. \A row \in LedgerRows : Cap[row.ledger] \in Nat
    BY LedgerNumbers DEF LedgerRows
  <2>2. \A row \in LedgerRows : used'[row] <= Cap[row.ledger]
    BY <1>6, <2>1 DEF AdmissionInv, CapsHeld, AdmissionTypeOK
  <2> QED
    BY <1>3, <2>2 DEF AdmissionInv, CapsHeld, ActiveRuns
<1> QED
  BY <1>7, <1>8, <1>9, <1>10, <1>11, <1>12 DEF AdmissionInv

(* A row that nobody holds is charged, and held by the call that charged it. *)
LEMMA ChargeKeeps ==
  ASSUME AdmissionInv, NEW a \in Admitters, ChargeNext(a), ~RollBack(a)
  PROVE  AdmissionInv'
<1> DEFINE row == Plan(tx[a])[tx[a].charged + 1]
           new == [tx[a] EXCEPT !.charged = @ + 1]
<1>1. /\ tx[a].at = "charging" /\ tx[a].charged < Len(Plan(tx[a]))
      /\ \A b \in Admitters \ {a} : row \notin Charged(b)
      /\ used[row] + Charge(tx[a], row) <= Cap[row.ledger]
      /\ used' = [used EXCEPT ![row] = @ + Charge(tx[a], row)]
      /\ tx' = [tx EXCEPT ![a] = new] /\ UNCHANGED <<admitted, today>>
  BY DEF ChargeNext
<1>2. tx[a] \in OpenTxs /\ Plannable(tx[a])
  BY <1>1, TxShapes, OpenCalls DEF NoTx, AdmissionInv
<1>3. /\ tx[a].charged \in 0 .. Len(Plan(tx[a])) /\ Len(Plan(tx[a])) \in {4, 5}
      /\ Charged(a) = FirstRows(tx[a], tx[a].charged)
  BY <1>1, <1>2, ChargedRows, PlanRows DEF AdmissionInv
<1>4. /\ row \in LedgerRows /\ row \notin Charged(a)
      /\ FirstRows(tx[a], tx[a].charged + 1) = Charged(a) \cup {row}
  BY <1>1, <1>2, <1>3, NextRow
<1>5. /\ new \in OpenTxs /\ new.at = "charging" /\ new.charged = tx[a].charged + 1
      /\ new.tenant = tx[a].tenant /\ new.request = tx[a].request /\ new.source = tx[a].source
      /\ new.day = tx[a].day
  BY <1>1, <1>2, <1>3, SMTT(30) DEF OpenTxs
<1> HIDE DEF row, new
<1>6. Plannable(new) /\ Plan(new) = Plan(tx[a]) /\ \A r : Charge(new, r) = Charge(tx[a], r)
  BY <1>2, <1>5 DEF Plannable, Plan, Charge
<1>7. /\ tx' \in [Admitters -> Txs] /\ tx'[a] = new
      /\ \A b \in Admitters \ {a} : tx'[b] = tx[b] /\ Charged(b)' = Charged(b)
  BY <1>1, <1>5, TxShapes, CallMoves DEF AdmissionInv
<1>8. Charged(a)' = Charged(a) \cup {row}
  <2>1. new.charged \in 0 .. Len(Plan(new))
    BY <1>1, <1>3, <1>5, <1>6
  <2>2. ToSet(SubSeq(Plan(new), 1, new.charged)) = FirstRows(new, new.charged)
    BY <1>6, <2>1, RowsUpTo
  <2>3. FirstRows(new, new.charged) = FirstRows(tx[a], tx[a].charged + 1)
    BY <1>5, <1>6 DEF FirstRows
  <2> QED
    BY <1>4, <1>5, <1>7, <2>2, <2>3 DEF Charged
<1>9. Charge(tx[a], row) \in Nat /\ used[row] \in Nat /\ used'[row] = used[row] + Charge(tx[a], row)
      /\ \A r \in LedgerRows \ {row} : used'[r] = used[r]
  BY <1>1, <1>2, <1>4, ChargeIsNat DEF AdmissionInv, AdmissionTypeOK
<1>10. ASSUME NEW r \in LedgerRows PROVE used'[r] = Paid(admitted, r)' + HeldIn(r)'
  <2>1. used[r] = Paid(admitted, r) + HeldIn(r) /\ Paid(admitted, r)' = Paid(admitted, r)
        /\ Paid(admitted, r) \in Nat
    BY <1>1, LedgersOfHolder, PaidInt, AdmittedPlannable DEF AdmissionInv
  <2>2. CASE r = row
    <3>1. HoldersOf(r) = {} /\ HoldersOf(r)' = {a}
      BY <1>1, <1>4, <1>7, <1>8, <2>2 DEF HoldersOf
    <3>2. HeldIn(r) = 0
      BY <3>1, HeldByNobody DEF HeldIn
    <3>3. HeldIn(r)' = Charge(tx[a], row)
      BY <1>6, <1>7, <1>9, <2>2, <3>1, HeldByHolder DEF HeldIn
    <3> QED
      BY <1>9, <2>1, <2>2, <3>2, <3>3
  <2>3. CASE r # row
    <3>1. HoldersOf(r)' = HoldersOf(r)
      BY <1>7, <1>8, <2>3 DEF HoldersOf
    <3>2. \A b \in HoldersOf(r) : Charge(tx'[b], r) = Charge(tx[b], r)
      BY <1>6, <1>7 DEF HoldersOf
    <3>3. HeldIn(r)' = HeldIn(r)
      BY <3>1, <3>2 DEF HeldIn, HeldBy
    <3> QED
      BY <1>9, <2>1, <2>3, <3>3
  <2> QED
    BY <2>2, <2>3
<1>11. AdmissionTypeOK'
  BY <1>1, <1>4, <1>7, <1>9 DEF AdmissionInv, AdmissionTypeOK
<1>12. CallsInPlace'
  <2>1. SameRequest(a)' = {} /\ ActiveRuns(tx[a].tenant)' = ActiveRuns(tx[a].tenant)
        /\ Cardinality(ActiveRuns(tx[a].tenant)) < ActiveLimit
    <3>1. SameRequest(a) = {} /\ Cardinality(ActiveRuns(tx[a].tenant)) < ActiveLimit
      BY <1>1 DEF AdmissionInv, CallsInPlace, InPlace
    <3>2. SameRequest(a)' = SameRequest(a) /\ ActiveRuns(tx[a].tenant)' = ActiveRuns(tx[a].tenant)
      BY <1>1, <1>5, <1>7 DEF SameRequest, ActiveRuns
    <3> QED
      BY <3>1, <3>2
  <2>2. new.charged <= Len(Plan(new))
    BY <1>1, <1>3, <1>5, <1>6
  <2>3. InPlace(a)'
    BY <1>5, <1>7, <2>1, <2>2 DEF InPlace, ActiveRuns
  <2> QED
    BY <1>1, <1>7, <2>3, StaysInPlace DEF AdmissionInv, CallsInPlace
<1>13. TenantsLocked' /\ RowsHeldOnce'
  BY <1>1, <1>5, <1>7, <1>8 DEF AdmissionInv, TenantsLocked, RowsHeldOnce
<1>14. IsFiniteSet(admitted)' /\ RequestsOnce'
  BY <1>1 DEF AdmissionInv, RequestsOnce
<1>15. LedgersAgree'
  BY <1>10 DEF LedgersAgree, Paid, PaidIn, HeldIn, HeldBy, HoldersOf
<1>16. CapsHeld'
  BY <1>1, <1>9 DEF AdmissionInv, CapsHeld, ActiveRuns
<1> QED
  BY <1>11, <1>12, <1>13, <1>14, <1>15, <1>16 DEF AdmissionInv

(* The run of a call that has charged its whole plan takes the charges over. *)
LEMMA AdmitKeeps ==
  ASSUME AdmissionInv, NEW a \in Admitters, Admit(a)
  PROVE  AdmissionInv'
<1> DEFINE run == [tenant |-> tx[a].tenant, request |-> tx[a].request, source |-> tx[a].source,
                   day |-> tx[a].day, active |-> TRUE]
<1>1. /\ tx[a].at = "charging" /\ tx[a].charged = Len(Plan(tx[a]))
      /\ admitted' = admitted \cup {run} /\ tx' = [tx EXCEPT ![a] = NoTx] /\ UNCHANGED <<used, today>>
  BY DEF Admit, End
<1>2. tx[a] \in OpenTxs /\ Plannable(tx[a])
  BY <1>1, TxShapes, OpenCalls DEF NoTx, AdmissionInv
<1>3. /\ run \in Admissions /\ run.tenant = tx[a].tenant /\ run.request = tx[a].request
      /\ run.source = tx[a].source /\ run.day = tx[a].day /\ run.active
  BY <1>2 DEF OpenTxs, Admissions
<1> HIDE DEF run
<1>4. /\ Plannable(run) /\ Plan(run) = Plan(tx[a])
      /\ \A row : Charge(run, row) = Charge(tx[a], row) /\ Charge(run, row) \in Nat
  BY <1>2, <1>3, ChargeIsNat DEF Plannable, Plan, Charge
<1>5. run \notin admitted /\ \A x \in admitted : x.tenant = run.tenant => x.request # run.request
  BY <1>1, <1>3 DEF AdmissionInv, CallsInPlace, InPlace, SameRequest
<1>6. /\ tx' \in [Admitters -> Txs] /\ tx'[a] = NoTx
      /\ \A b \in Admitters \ {a} : tx'[b] = tx[b] /\ Charged(b)' = Charged(b)
  BY <1>1, TxShapes, CallMoves DEF AdmissionInv
<1>7. Charged(a)' = {} /\ tx'[a].at = "idle" /\ Charged(a) = ToSet(Plan(run))
  <2>1. Charged(a) = FirstRows(tx[a], Len(Plan(tx[a])))
    BY <1>1, ChargedRows DEF AdmissionInv
  <2>2. Charged(a) = ToSet(Plan(run))
    BY <1>2, <1>4, <2>1, RowsOfPlan
  <2> QED
    BY <1>6, <2>2 DEF Charged, NoTx
<1>8. ASSUME NEW row \in LedgerRows PROVE used'[row] = Paid(admitted, row)' + HeldIn(row)'
  <2>1. used[row] = Paid(admitted, row) + HeldIn(row) /\ Paid(admitted, row) \in Nat
        /\ used'[row] = used[row]
    BY <1>1, LedgersOfHolder, PaidInt, AdmittedPlannable DEF AdmissionInv
  <2>2. Paid(admitted', row) =
          Paid(admitted, row) + (IF row \in Charged(a) THEN Charge(tx[a], row) ELSE 0)
    <3>1. IsFiniteSet(admitted) /\ \A x \in admitted : Plannable(x)
      BY AdmittedPlannable DEF AdmissionInv
    <3>2. Paid(admitted \cup {run}, row) =
            Paid(admitted, row) + (IF row \in ToSet(Plan(run)) THEN Charge(run, row) ELSE 0)
      BY <1>4, <1>5, <3>1, PaidByOneMore
    <3> QED
      BY <1>1, <1>4, <1>7, <3>2
  <2>3. CASE row \in Charged(a)
    <3>1. HoldersOf(row) = {a} /\ HoldersOf(row)' = {}
      BY <1>6, <1>7, <2>3 DEF HoldersOf, AdmissionInv, RowsHeldOnce
    <3>2. HeldIn(row) = Charge(tx[a], row) /\ HeldIn(row)' = 0
      BY <1>4, <3>1, HeldByHolder, HeldByNobody DEF HeldIn
    <3> QED
      BY <1>4, <2>1, <2>2, <2>3, <3>2
  <2>4. CASE row \notin Charged(a)
    <3>1. HoldersOf(row)' = HoldersOf(row) /\ \A b \in HoldersOf(row) : tx'[b] = tx[b]
      BY <1>6, <1>7, <2>4 DEF HoldersOf
    <3>2. HeldIn(row)' = HeldIn(row)
      BY <3>1 DEF HeldIn, HeldBy
    <3> QED
      BY <2>1, <2>2, <2>4, <3>2
  <2> QED
    BY <2>3, <2>4
<1>9. AdmissionTypeOK' /\ IsFiniteSet(admitted)'
  BY <1>1, <1>3, <1>6, FS_AddElement DEF AdmissionInv, AdmissionTypeOK
<1>10. \A t \in Tenants : ActiveRuns(t)' = IF t = tx[a].tenant THEN ActiveRuns(t) \cup {run} ELSE ActiveRuns(t)
  BY <1>1, <1>3 DEF ActiveRuns
<1>11. CallsInPlace'
  <2>1. InPlace(a)'
    BY <1>7 DEF InPlace
  <2>2. ASSUME NEW b \in Admitters \ {a} PROVE InPlace(b)'
    <3>1. CASE tx[b].at # "charging"
      BY <1>6, <3>1 DEF AdmissionInv, CallsInPlace, InPlace
    <3>2. CASE tx[b].at = "charging"
      <4>1. tx[b].tenant # tx[a].tenant /\ tx[b].tenant \in Tenants
        BY <1>1, <3>2, OpenCalls DEF AdmissionInv, TenantsLocked, NoTx, Plannable
      <4>2. SameRequest(b)' = SameRequest(b) /\ ActiveRuns(tx[b].tenant)' = ActiveRuns(tx[b].tenant)
        BY <1>1, <1>3, <1>6, <4>1 DEF SameRequest, ActiveRuns
      <4> QED
        BY <1>6, <4>2 DEF AdmissionInv, CallsInPlace, InPlace, ActiveRuns
    <3> QED
      BY <3>1, <3>2
  <2> QED
    BY <2>1, <2>2 DEF CallsInPlace
<1>12. TenantsLocked' /\ RowsHeldOnce'
  BY <1>6, <1>7 DEF AdmissionInv, TenantsLocked, RowsHeldOnce
<1>13. RequestsOnce'
  BY <1>1, <1>3, <1>5 DEF AdmissionInv, RequestsOnce
<1>14. LedgersAgree'
  BY <1>8 DEF LedgersAgree, Paid, PaidIn, HeldIn, HeldBy, HoldersOf
<1>15. CapsHeld'
  <2>1. ASSUME NEW t \in Tenants PROVE Cardinality(ActiveRuns(t)') <= ActiveLimit
    <3>1. CASE t = tx[a].tenant
      <4>1. IsFiniteSet(ActiveRuns(t)) /\ run \notin ActiveRuns(t)
        BY <1>5, FS_Subset DEF ActiveRuns, AdmissionInv
      <4>2. Cardinality(ActiveRuns(t)) \in Nat
            /\ Cardinality(ActiveRuns(t) \cup {run}) = Cardinality(ActiveRuns(t)) + 1
        BY <4>1, FS_AddElement, FS_CardinalityType
      <4>3. Cardinality(ActiveRuns(t)) < ActiveLimit
        BY <1>1, <3>1 DEF AdmissionInv, CallsInPlace, InPlace
      <4> QED
        BY <1>10, <3>1, <4>2, <4>3, LedgerNumbers
    <3>2. CASE t # tx[a].tenant
      <4>1. ActiveRuns(t)' = ActiveRuns(t)
        BY <1>10, <3>2
      <4> QED
        BY <4>1 DEF AdmissionInv, CapsHeld
    <3> QED
      BY <3>1, <3>2
  <2> QED
    BY <1>1, <2>1 DEF AdmissionInv, CapsHeld, ActiveRuns
<1> QED
  BY <1>9, <1>11, <1>12, <1>13, <1>14, <1>15 DEF AdmissionInv

(* A run that ends keeps its charges and makes room among the active ones. *)
LEMMA EndRunKeeps ==
  ASSUME AdmissionInv, NEW run \in admitted, EndRun(run)
  PROVE  AdmissionInv'
<1> DEFINE ended == [run EXCEPT !.active = FALSE]
<1>1. /\ admitted' = (admitted \ {run}) \cup {ended} /\ UNCHANGED <<used, tx, today>>
      /\ run \in Admissions /\ Plannable(run) /\ run.active
  BY AdmittedPlannable DEF EndRun, AdmissionInv
<1>2. /\ ended \in Admissions /\ ended.tenant = run.tenant /\ ended.request = run.request
      /\ ended.source = run.source /\ ended.day = run.day /\ ended.active = FALSE
  BY <1>1 DEF Admissions
<1> HIDE DEF ended
<1>3. Plannable(ended) /\ Plan(ended) = Plan(run)
  BY <1>1, <1>2 DEF Plannable, Plan
<1>4. ended \notin admitted
  BY <1>1, <1>2 DEF AdmissionInv, RequestsOnce
<1>5. \A b \in Admitters : Charged(b)' = Charged(b)
  BY <1>1 DEF Charged
<1>6. ASSUME NEW row \in LedgerRows PROVE used'[row] = Paid(admitted, row)' + HeldIn(row)'
  <2>1. Paid(admitted', row) = Paid(admitted, row)
    BY <1>1, <1>2, <1>3, <1>4, PaidByEnded, AdmittedPlannable DEF AdmissionInv
  <2>2. HoldersOf(row)' = HoldersOf(row)
    BY <1>5 DEF HoldersOf
  <2>3. HeldIn(row)' = HeldIn(row)
    BY <1>1, <2>2 DEF HeldIn, HeldBy
  <2> QED
    BY <1>1, <2>1, <2>3, LedgersOfHolder DEF AdmissionInv
<1>7. AdmissionTypeOK' /\ IsFiniteSet(admitted)'
  <2>1. IsFiniteSet(admitted \ {run})
    BY FS_Subset DEF AdmissionInv
  <2> QED
    BY <1>1, <1>2, <2>1, FS_AddElement, FS_Subset DEF AdmissionInv, AdmissionTypeOK
<1> DEFINE Among(R, t) == {x \in R : x.tenant = t /\ x.active}
<1>8. ASSUME NEW t
      PROVE  /\ Cardinality(Among(admitted', t)) <= Cardinality(Among(admitted, t))
             /\ Cardinality(Among(admitted, t)) \in Nat /\ Cardinality(Among(admitted', t)) \in Nat
  <2>1. IsFiniteSet(Among(admitted, t))
    BY FS_Subset DEF AdmissionInv
  <2>2. Among(admitted', t) \subseteq Among(admitted, t)
    BY <1>1, <1>2
  <2> HIDE DEF Among
  <2> QED
    BY <2>1, <2>2, FS_Subset, FS_CardinalityType
<1>9. CallsInPlace'
  <2>1. ASSUME NEW b \in Admitters PROVE InPlace(b)'
    <3>1. SameRequest(b) = {} => SameRequest(b)' = {}
      BY <1>1, <1>2 DEF SameRequest
    <3>2. InPlace(b) /\ ActiveRuns(tx[b].tenant) = Among(admitted, tx[b].tenant)
          /\ ActiveRuns(tx[b].tenant)' = Among(admitted', tx[b].tenant)
      BY <1>1 DEF AdmissionInv, CallsInPlace, ActiveRuns
    <3> HIDE DEF Among
    <3>3. tx[b].at = "charging" => Cardinality(ActiveRuns(tx[b].tenant))' < ActiveLimit
      BY <1>8, <3>2, LedgerNumbers DEF InPlace
    <3> QED
      BY <1>1, <3>1, <3>2, <3>3 DEF InPlace
  <2> QED
    BY <2>1 DEF CallsInPlace
<1>10. TenantsLocked' /\ RowsHeldOnce'
  BY <1>1, <1>5 DEF AdmissionInv, TenantsLocked, RowsHeldOnce
<1>11. RequestsOnce'
  BY <1>1, <1>2 DEF AdmissionInv, RequestsOnce
<1>12. LedgersAgree'
  BY <1>6 DEF LedgersAgree, Paid, PaidIn, HeldIn, HeldBy, HoldersOf
<1>13. CapsHeld'
  <2>1. \A t : ActiveRuns(t) = Among(admitted, t) /\ ActiveRuns(t)' = Among(admitted', t)
    BY DEF ActiveRuns
  <2> HIDE DEF Among
  <2>2. \A t \in Tenants : Cardinality(ActiveRuns(t))' <= ActiveLimit
    BY <1>8, <2>1, LedgerNumbers DEF AdmissionInv, CapsHeld
  <2> QED
    BY <1>1, <2>2 DEF AdmissionInv, CapsHeld
<1> QED
  BY <1>7, <1>9, <1>10, <1>11, <1>12, <1>13 DEF AdmissionInv

LEMMA AdmissionInvInit == AdmissionInit => AdmissionInv
<1> SUFFICES ASSUME AdmissionInit PROVE AdmissionInv
  OBVIOUS
<1>1. \A a \in Admitters : tx[a] = NoTx /\ Charged(a) = {} /\ tx[a].at = "idle"
  BY DEF AdmissionInit, NoTx, Charged
<1>2. AdmissionTypeOK
  BY LedgerNumbers DEF AdmissionInit, AdmissionTypeOK, Txs
<1>3. IsFiniteSet(admitted) /\ RequestsOnce
  BY FS_EmptySet DEF AdmissionInit, RequestsOnce
<1>4. CallsInPlace /\ TenantsLocked /\ RowsHeldOnce
  BY <1>1 DEF CallsInPlace, InPlace, TenantsLocked, RowsHeldOnce
<1>5. LedgersAgree
  <2>1. ASSUME NEW row \in LedgerRows PROVE used[row] = Paid(admitted, row) + HeldIn(row)
    <3>1. HoldersOf(row) = {}
      BY <1>1 DEF HoldersOf
    <3>2. HeldIn(row) = 0 /\ Paid(admitted, row) = 0
      BY <3>1, HeldByNobody, PaidNothing DEF HeldIn, AdmissionInit
    <3> QED
      BY <3>2 DEF AdmissionInit
  <2> QED
    BY <2>1, LedgersOfHolder
<1>6. CapsHeld
  <2>1. \A t \in Tenants : ActiveRuns(t) = {} /\ Cardinality({}) = 0
    BY FS_EmptySet DEF AdmissionInit, ActiveRuns
  <2>2. \A row \in LedgerRows : Cap[row.ledger] \in Nat /\ used[row] = 0
    BY LedgerNumbers DEF LedgerRows, AdmissionInit
  <2> QED
    <3>1. \A t \in Tenants : Cardinality(ActiveRuns(t)) <= ActiveLimit
      BY <2>1, LedgerNumbers
    <3>2. \A row \in LedgerRows : used[row] <= Cap[row.ledger]
      BY <2>2
    <3> QED
      BY <3>1, <3>2 DEF CapsHeld
<1> QED
  BY <1>2, <1>3, <1>4, <1>5, <1>6 DEF AdmissionInv

LEMMA AdmissionInvStep == AdmissionInv /\ [AdmissionNext]_admissionVars => AdmissionInv'
<1> SUFFICES ASSUME AdmissionInv, [AdmissionNext]_admissionVars PROVE AdmissionInv'
  OBVIOUS
<1>1. ASSUME NEW a \in Admitters, NEW t \in Tenants, NEW q \in Requests, Ask(a, t, q)
      PROVE  AdmissionInv'
  BY <1>1, AskKeeps
<1>2. ASSUME NEW a \in Admitters, Statement(a) PROVE AdmissionInv'
  <2>1. CASE Lock(a)
    BY <2>1, LockKeeps
  <2>2. CASE Check(a)
    BY <2>2, CheckKeeps
  <2>3. CASE ChargeNext(a) /\ RollBack(a)
    <3>1. tx[a] # NoTx
      BY <2>3 DEF ChargeNext, NoTx
    <3> QED
      BY <2>3, <3>1, RollBackKeeps
  <2>4. CASE ChargeNext(a) /\ ~RollBack(a)
    BY <2>4, ChargeKeeps
  <2>5. CASE Admit(a)
    BY <2>5, AdmitKeeps
  <2> QED
    BY <1>2, <2>1, <2>2, <2>3, <2>4, <2>5 DEF Statement
<1>3. ASSUME NEW a \in Admitters, Abort(a) PROVE AdmissionInv'
  BY <1>3, RollBackKeeps DEF Abort
<1>4. ASSUME NEW run \in admitted, EndRun(run) PROVE AdmissionInv'
  BY <1>4, EndRunKeeps
<1>5. CASE Midnight \/ UNCHANGED admissionVars
  <2>1. UNCHANGED <<admitted, used, tx>> /\ today' \in Days
    BY <1>5, LedgerNumbers DEF Midnight, admissionVars, AdmissionInv, AdmissionTypeOK, Days
  <2>2. tx' \in [Admitters -> Txs] /\ \A b \in Admitters : Charged(b)' = Charged(b)
    BY <2>1 DEF AdmissionInv, AdmissionTypeOK, Charged
  <2>3. CallsInPlace' /\ TenantsLocked'
    BY <2>1, StaysInPlace DEF AdmissionInv, CallsInPlace, TenantsLocked
  <2> QED
    BY <2>1, <2>2, <2>3, NothingCharged DEF AdmissionInv
<1> QED
  BY <1>1, <1>2, <1>3, <1>4, <1>5 DEF AdmissionNext

LEMMA AdmissionHolds == AdmissionSpec => []AdmissionInv
BY AdmissionInvInit, AdmissionInvStep, PTL DEF AdmissionSpec

(* Runs, ledgers and transactions have their shapes, and no ledger ever     *)
(* holds less than nothing: the type invariant of observed-run-store.ts's   *)
(* start and the ledgers it charges.                                        *)
THEOREM AdmissionsTyped == AdmissionSpec => []AdmissionTypeOK
<1>1. AdmissionInv => AdmissionTypeOK
  BY DEF AdmissionInv
<1> QED
  BY <1>1, AdmissionHolds, PTL

(* Each row of each ledger holds exactly what the admitted runs and the open *)
(* transactions charged, for any number of calls that cross, fail half way   *)
(* or go past midnight.                                                     *)
THEOREM LedgersAlwaysAgree == AdmissionSpec => []LedgersAgree
<1>1. AdmissionInv => LedgersAgree
  BY DEF AdmissionInv
<1> QED
  BY <1>1, AdmissionHolds, PTL

(* No ledger exceeds its cap and no tenant its active runs, for any caps,    *)
(* costs and number of concurrent calls.                                    *)
THEOREM CapsAlwaysHeld == AdmissionSpec => []CapsHeld
<1>1. AdmissionInv => CapsHeld
  BY DEF AdmissionInv
<1> QED
  BY <1>1, AdmissionHolds, PTL

-----------------------------------------------------------------------------
(* The three parts of the run test_bench.  Where the runs are not the part  *)
(* that steps, none is ever started.                                        *)
BenchInv ==
  /\ LostInv /\ OnFile /\ ObservedTypeOK /\ AdmissionInv
  /\ part = "runs" => DoneInv
  /\ part # "runs" => \A r \in Runs : runs[r] = NoRun /\ sent[r] = [c \in Calls |-> 0]

LEMMA BenchInvInit == BenchInit => BenchInv /\ Once!OnceInit
<1> SUFFICES ASSUME BenchInit PROVE BenchInv /\ Once!OnceInit
  OBVIOUS
<1>1. ObservedInit /\ AdmissionInit /\ QueueInit
  BY DEF BenchInit, ObservedInit
<1>2. OnFile
  BY <1>1 DEF OnFile, JobsExist, QueueInit, NoRow, AtRest
<1>3. \A r \in Runs : runs[r] = NoRun /\ sent[r] = [c \in Calls |-> 0]
  BY <1>1 DEF ObservedInit
<1> QED
  BY <1>1, <1>2, <1>3, DoneInit, LostInit, AdmissionInvInit, OnceInitially DEF BenchInv, DoneInv, CallsInv

LEMMA BenchStep ==
  ASSUME BenchInv, [BenchNext]_benchVars
  PROVE  BenchInv' /\ EndsSoundly /\ [Once!OnceNext]_Book
<1>1. CASE InQueue(QueueNext)
  <2>1. LostInv' /\ EndsSoundly /\ OnFile' /\ QueueTypeOK'
    BY <1>1, LostStep, QueueEndsSoundly, OnFileStep
       DEF InQueue, BenchInv, LostInv, HolderInv
  <2>2. AdmissionInv'
    BY <1>1, AdmissionInvStep DEF InQueue, BenchInv
  <2>3. UNCHANGED <<part, runs, call, sent>> /\ part = "queue"
    BY <1>1 DEF InQueue
  <2>4. ObservedTypeOK'
    BY <2>1, <2>3 DEF BenchInv, ObservedTypeOK
  <2>5. UNCHANGED Book
    BY <2>3, PageKept, BookOfPages DEF BenchInv
  <2> QED
    BY <2>1, <2>2, <2>3, <2>4, <2>5 DEF BenchInv
<1>2. CASE InRuns(ObservedNext)
  <2>1. part = "runs" /\ part' = "runs" /\ DoneInv /\ CallsInv /\ LostInv
    BY <1>2 DEF InRuns, BenchInv, DoneInv
  <2>2. CallsInv' /\ DoneInv'
    BY <1>2, <2>1, CallsStep, DoneStep DEF InRuns
  <2>3. LostInv' /\ EndsSoundly /\ [Once!OnceNext]_Book
    BY <1>2, <2>1, <2>2, ObservedLost, OnceStep DEF InRuns
  <2>4. AdmissionInv'
    BY <1>2, AdmissionInvStep DEF InRuns, BenchInv
  <2>5. OnFile' /\ ObservedTypeOK'
    BY <2>2 DEF CallsInv, OnFile, JobsOfRuns, JobsExist, Runs
  <2> QED
    BY <2>1, <2>2, <2>3, <2>4, <2>5 DEF BenchInv
<1>3. CASE InAdmission(AdmissionNext) \/ UNCHANGED benchVars
  <2>1. UNCHANGED observedVars /\ part' = part /\ [AdmissionNext]_admissionVars
    BY <1>3 DEF InAdmission, benchVars
  <2>2. UNCHANGED <<queueVars, runs, call, sent>>
    BY <2>1 DEF observedVars
  <2>3. LostInv' /\ EndsSoundly /\ OnFile' /\ QueueTypeOK'
    BY <2>2, LostStep, QueueEndsSoundly, OnFileStep DEF BenchInv, LostInv, HolderInv
  <2>4. AdmissionInv' /\ (part' = "runs" => DoneInv')
    BY <2>1, CallsStep, DoneStep, AdmissionInvStep DEF BenchInv, DoneInv
  <2>5. ObservedTypeOK'
    BY <2>2, <2>3 DEF BenchInv, ObservedTypeOK
  <2>6. UNCHANGED Book
    BY <2>2, PageKept, BookOfPages DEF BenchInv
  <2> QED
    BY <2>1, <2>2, <2>3, <2>4, <2>5, <2>6 DEF BenchInv
<1> QED
  BY <1>1, <1>2, <1>3 DEF BenchNext

(* The run test_bench starts one of the queue, the observed runs and their   *)
(* admission; whichever it is, every row, call and ledger keeps its shape.  *)
THEOREM BenchTyped == BenchSpec => []BenchTypeOK
<1>1. BenchInv => BenchTypeOK
  BY DEF BenchInv, AdmissionInv, BenchTypeOK
<1> QED
  BY <1>1, BenchInvInit, BenchStep, PTL DEF BenchSpec

(***************************************************************************)
(* Each invariant of that run holds of whichever part steps: jobs have one *)
(* holder, calls are on record, a completed job leaves no active run,      *)
(* ledgers agree and no cap is exceeded.                                   *)
(***************************************************************************)
THEOREM BenchSafe ==
  BenchSpec => [](OneHolder /\ SpendIsRecorded /\ CompletedJobEndsRun /\ LedgersAgree /\ CapsHeld)
<1>1. BenchInv => OneHolder /\ LedgersAgree /\ CapsHeld
  BY DEF BenchInv, LostInv, HolderInv, AdmissionInv
<1>2. BenchInv => SpendIsRecorded /\ CompletedJobEndsRun
  <2>1. ASSUME BenchInv, part = "runs" PROVE SpendIsRecorded /\ CompletedJobEndsRun
    BY <2>1, CallsRecorded, DoneEndsRun DEF BenchInv, DoneInv
  <2>2. ASSUME BenchInv, part # "runs" PROVE SpendIsRecorded /\ CompletedJobEndsRun
    <3>1. \A r \in Runs : ~IsActive(r) /\ \A c \in Calls : runs[r].intents[c] = "none" /\ sent[r][c] = 0
      BY <2>2 DEF BenchInv, NoRun, IsActive, Active
    <3>2. \A r \in Runs : {c \in Calls : runs[r].intents[c] = "open"} = {}
      BY <3>1
    <3>3. SpendIsRecorded
      BY <3>1, <3>2, FS_EmptySet DEF SpendIsRecorded
    <3>4. CompletedJobEndsRun
      BY <2>2, <3>1 DEF BenchInv, OnFile, CompletedJobEndsRun, Runs
    <3> QED
      BY <3>3, <3>4
  <2> QED
    BY <2>1, <2>2
<1> QED
  BY <1>1, <1>2, BenchInvInit, BenchStep, PTL DEF BenchSpec

(***************************************************************************)
(* Each action property of that run, and the implementation of ObservedOnce,*)
(* holds of whichever part steps.                                          *)
(***************************************************************************)
THEOREM BenchStepsSafe == BenchSpec => CompletedStays /\ FailedOnlyWhenLost /\ ImplementsOnce
<1>1. BenchInv /\ [BenchNext]_benchVars =>
        /\ [\A j \in Jobs : jobs[j].status = "complete" /\ jobs'[j].status # "complete" =>
              LateReply(j)]_queueVars
        /\ [\A j \in Jobs : jobs[j].status = "running" /\ jobs'[j].status = "failed" =>
              FailureIsOwn(j)]_queueVars
        /\ [Once!OnceNext]_Book
  BY BenchStep DEF EndsSoundly
<1> QED
  BY <1>1, BenchInvInit, BenchStep, PTL
     DEF BenchSpec, CompletedStays, FailedOnlyWhenLost, ImplementsOnce, Once!OnceSpec,
         LateReply, FailureIsOwn
=============================================================================
