--------------------------- MODULE JobQueue_proofs ---------------------------
(***************************************************************************)
(* Proofs about the job queue, for any number of jobs, keys and worker     *)
(* loops and any handler: its type, that no two loops have one job, and    *)
(* who may fail a running job or change a completed one.                   *)
(***************************************************************************)
EXTENDS JobQueue, TLAPS

(* The stages of the handler are not stages of the loop. *)
LEMMA StagesApart ==
  /\ "working" \in Stages
  /\ "idle" \notin Stages /\ "claiming" \notin Stages
  /\ "done" \notin Stages /\ "failing" \notin Stages
BY QueueAssumption

LEMMA QueueTypeInit == QueueInit => QueueTypeOK
BY QueueAssumption
DEF QueueInit, QueueTypeOK, NoRow, AtRest, Rows, Runners, Live

(* A loop that starts afresh. *)
LEMMA FinishType ==
  ASSUME QueueTypeOK, NEW w \in Workers, Finish(w)
  PROVE  /\ runner' \in [Workers -> Runners]
         /\ \A v \in Workers : runner'[v].at \notin {"idle", "claiming"} => runner'[v].job \in Jobs
BY DEF Finish, AtRest, QueueTypeOK, Runners

(* A loop with a job that moves on with it. *)
LEMMA GotoType ==
  ASSUME QueueTypeOK, NEW w \in Workers, NEW l \in Stages \cup {"idle", "claiming", "done", "failing"},
         runner[w].at \notin {"idle", "claiming"} \/ l \in {"idle", "claiming"}, Goto(w, l)
  PROVE  /\ runner' \in [Workers -> Runners]
         /\ \A v \in Workers : runner'[v].at \notin {"idle", "claiming"} => runner'[v].job \in Jobs
<1>1. runner' = [runner EXCEPT ![w] = [runner[w] EXCEPT !.at = l]]
  BY DEF Goto, QueueTypeOK
<1>2. runner[w] \in Runners
  BY DEF QueueTypeOK
<1>3. /\ [runner[w] EXCEPT !.at = l] \in Runners
      /\ [runner[w] EXCEPT !.at = l].at = l /\ [runner[w] EXCEPT !.at = l].job = runner[w].job
  BY <1>2 DEF Runners
<1> QED
  BY <1>1, <1>3 DEF QueueTypeOK

(* Writing the row of a job. *)
LEMMA RowType ==
  ASSUME QueueTypeOK, NEW j \in Jobs, NEW row \in Rows, jobs' = [jobs EXCEPT ![j] = row]
  PROVE  jobs' \in [Jobs -> Rows]
BY DEF QueueTypeOK

LEMMA MishapType == ASSUME QueueTypeOK, Mishap PROVE mishaps' \in 0 .. MaxMishaps
BY QueueAssumption DEF QueueTypeOK, Mishap

LEMMA EnqueueType ==
  ASSUME QueueTypeOK, NEW k \in Keys, NEW p \in Payloads, Enqueue(k, p)
  PROVE  QueueTypeOK'
<1> DEFINE row == [status |-> "queued", key |-> k, payload |-> p, attempts |-> 0, lease |-> "null"]
<1>1. row \in Rows
  BY DEF Rows, Live
<1>2. PICK j \in Jobs : jobs' = [jobs EXCEPT ![j] = row]
  BY DEF Enqueue, Insert
<1>3. jobs' \in [Jobs -> Rows]
  BY <1>1, <1>2, RowType
<1> QED
  BY <1>3 DEF Enqueue, QueueTypeOK

LEMMA RetireType ==
  ASSUME QueueTypeOK, NEW w \in Workers, Retire(w)
  PROVE  QueueTypeOK'
<1>1. jobs' \in [Jobs -> Rows]
  <2>1. \A j \in Jobs : [jobs[j] EXCEPT !.status = "failed"] \in Rows
    BY DEF QueueTypeOK, Rows
  <2> QED
    BY <2>1 DEF Retire, QueueTypeOK
<1>2. Goto(w, "claiming")
  BY DEF Retire
<1> QED
  BY <1>1, <1>2, GotoType DEF Retire, QueueTypeOK

LEMMA ClaimType ==
  ASSUME QueueTypeOK, NEW w \in Workers, Claim(w)
  PROVE  QueueTypeOK'
<1>1. PICK j \in Jobs :
        /\ jobs' = [jobs EXCEPT ![j].status = "running", ![j].lease = "live", ![j].attempts = @ + 1]
        /\ runner' = [runner EXCEPT ![w] = [at |-> "working", job |-> j,
                                            attempts |-> jobs[j].attempts + 1]]
  BY DEF Claim
<1> DEFINE row == [jobs[j] EXCEPT !.status = "running", !.lease = "live", !.attempts = @ + 1]
<1>2. jobs[j] \in Rows /\ row \in Rows
  <2>1. jobs[j] \in Rows /\ jobs[j].attempts + 1 \in Nat
    BY DEF QueueTypeOK, Rows
  <2> QED
    BY <2>1 DEF Rows, Live
<1>3. jobs' = [jobs EXCEPT ![j] = row]
  BY <1>1 DEF QueueTypeOK
<1>4. jobs' \in [Jobs -> Rows]
  BY <1>2, <1>3, RowType
<1>5. [at |-> "working", job |-> j, attempts |-> jobs[j].attempts + 1] \in Runners
  BY <1>2, StagesApart DEF Rows, Runners
<1> QED
  BY <1>1, <1>4, <1>5 DEF Claim, QueueTypeOK

(* What the statements after a claim write. *)
LEMMA SaveProgressType ==
  ASSUME QueueTypeOK, NEW w \in Workers, runner[w].job \in Jobs, SaveProgress(w)
  PROVE  jobs' \in [Jobs -> Rows]
<1> DEFINE j == runner[w].job
           row == [jobs[j] EXCEPT !.lease = "live"]
<1>1. row \in Rows
  BY DEF QueueTypeOK, Rows
<1>2. jobs' = [jobs EXCEPT ![j] = row]
  BY DEF SaveProgress, QueueTypeOK
<1> QED
  BY <1>1, <1>2, RowType

LEMMA ReleaseRowType ==
  ASSUME QueueTypeOK, NEW j \in Jobs, ReleaseRow(j)
  PROVE  jobs' \in [Jobs -> Rows]
<1> DEFINE row == [jobs[j] EXCEPT !.status = "queued", !.lease = "null",
                                  !.attempts = IF @ = 0 THEN 0 ELSE @ - 1]
<1>1. row \in Rows
  <2>1. jobs[j] \in Rows /\ jobs[j].attempts \in Nat
    BY DEF QueueTypeOK, Rows
  <2>2. (IF jobs[j].attempts = 0 THEN 0 ELSE jobs[j].attempts - 1) \in Nat
    BY <2>1
  <2> QED
    BY <2>1, <2>2 DEF Rows, Live
<1>2. jobs' = [jobs EXCEPT ![j] = row]
  BY DEF ReleaseRow, QueueTypeOK
<1> QED
  BY <1>1, <1>2, RowType

LEMMA EndRowType ==
  ASSUME QueueTypeOK, NEW w \in Workers, runner[w].job \in Jobs,
         NEW s \in {"complete", "failed"}, EndRow(w, s)
  PROVE  jobs' \in [Jobs -> Rows]
<1> DEFINE j == runner[w].job
           row == [jobs[j] EXCEPT !.status = s, !.lease = "null"]
<1>1. row \in Rows
  <2>1. jobs[j] \in Rows
    BY DEF QueueTypeOK
  <2> QED
    BY <2>1 DEF Rows
<1>2. jobs' = [jobs EXCEPT ![j] = row]
  BY DEF EndRow, QueueTypeOK
<1> QED
  BY <1>1, <1>2, RowType

LEMMA ReleaseType ==
  ASSUME QueueTypeOK, NEW w \in Workers, runner[w].at \in Stages, Release(w)
  PROVE  /\ jobs' \in [Jobs -> Rows]
         /\ runner' \in [Workers -> Runners]
         /\ \A v \in Workers : runner'[v].at \notin {"idle", "claiming"} => runner'[v].job \in Jobs
<1>1. runner[w].at \notin {"idle", "claiming"} /\ runner[w].job \in Jobs
  BY StagesApart DEF QueueTypeOK
<1>2. jobs' \in [Jobs -> Rows]
  BY <1>1, ReleaseRowType DEF Release, QueueTypeOK
<1>3. Finish(w) \/ Goto(w, "failing")
  BY DEF Release
<1> QED
  BY <1>1, <1>2, <1>3, FinishType, GotoType

LEMMA LoopType ==
  ASSUME QueueTypeOK, NEW w \in Workers, Loop(w)
  PROVE  QueueTypeOK'
<1>1. CASE Retire(w)
  BY <1>1, RetireType
<1>2. CASE Claim(w)
  BY <1>2, ClaimType
<1>3. CASE ClaimNothing(w)
  BY <1>3, FinishType DEF ClaimNothing, QueueTypeOK
<1>4. CASE Complete(w)
  <2>1. runner[w].job \in Jobs /\ runner[w].at \notin {"idle", "claiming"}
    BY <1>4 DEF Complete, QueueTypeOK
  <2>2. jobs' \in [Jobs -> Rows]
    BY <1>4, <2>1, EndRowType DEF Complete, QueueTypeOK
  <2>3. /\ runner' \in [Workers -> Runners]
        /\ \A v \in Workers : runner'[v].at \notin {"idle", "claiming"} => runner'[v].job \in Jobs
    BY <1>4, <2>1, FinishType, GotoType DEF Complete
  <2>4. mishaps' \in 0 .. MaxMishaps
    BY <1>4, MishapType DEF Complete, QueueTypeOK
  <2> QED
    BY <2>2, <2>3, <2>4 DEF QueueTypeOK
<1>5. CASE Fail(w)
  <2>1. runner[w].job \in Jobs
    BY <1>5 DEF Fail, QueueTypeOK
  <2>2. jobs' \in [Jobs -> Rows]
    BY <1>5, <2>1, EndRowType DEF Fail
  <2> QED
    BY <1>5, <2>2, FinishType DEF Fail, QueueTypeOK
<1> QED
  BY <1>1, <1>2, <1>3, <1>4, <1>5 DEF Loop

LEMMA WorkType ==
  ASSUME QueueTypeOK, NEW w \in Workers, Work(w)
  PROVE  QueueTypeOK'
<1>1. runner[w].at \in Stages /\ runner[w].at \notin {"idle", "claiming"} /\ runner[w].job \in Jobs
  BY StagesApart DEF Work, Return, QueueTypeOK
<1>2. CASE Return(w)
  BY <1>1, <1>2, GotoType DEF Return, QueueTypeOK
<1>3. CASE SaveProgress(w) /\ UNCHANGED <<runner, mishaps>>
  BY <1>1, <1>3, SaveProgressType DEF QueueTypeOK
<1>4. CASE Release(w) /\ Mishap
  BY <1>1, <1>4, ReleaseType, MishapType DEF QueueTypeOK
<1> QED
  BY <1>2, <1>3, <1>4 DEF Work

LEMMA DieType == ASSUME QueueTypeOK, NEW w \in Workers, Die(w) PROVE QueueTypeOK'
BY FinishType, MishapType DEF Die, QueueTypeOK

LEMMA ExpireType == ASSUME QueueTypeOK, NEW j \in Jobs, Expire(j) PROVE QueueTypeOK'
<1> DEFINE row == [jobs[j] EXCEPT !.lease = "expired"]
<1>1. row \in Rows
  BY DEF QueueTypeOK, Rows
<1>2. jobs' = [jobs EXCEPT ![j] = row]
  BY DEF Expire, QueueTypeOK
<1> QED
  BY <1>1, <1>2, RowType DEF Expire, QueueTypeOK

LEMMA QueueTypeStep == QueueTypeOK /\ [QueueNext]_queueVars => QueueTypeOK'
BY EnqueueType, LoopType, WorkType, DieType, ExpireType DEF QueueNext, queueVars, QueueTypeOK

(***************************************************************************)
(* The queue and its worker loops are type correct.                        *)
(***************************************************************************)
THEOREM QueueTyped == QueueSpec => []QueueTypeOK
BY QueueTypeInit, QueueTypeStep, PTL DEF QueueSpec

-----------------------------------------------------------------------------
(* What keeps a held job out of reach of claim: it is not queued, and if it *)
(* is running its lease has not ended.  Nor has it completed: completing it *)
(* is the last thing its one holder does.                                   *)
OutOfReach(j) == jobs[j].status \in {"running", "failed"} /\ jobs[j].lease # "expired"

HolderInv ==
  /\ QueueTypeOK
  /\ OneHolder
  /\ \A w \in Holders : OutOfReach(runner[w].job)

LEMMA HolderInit == QueueInit => HolderInv
BY QueueTypeInit, StagesApart DEF QueueInit, HolderInv, OneHolder, Holders, AtRest

(* A step that takes no job keeps the holders, or makes them fewer. *)
LEMMA FewerHolders ==
  ASSUME HolderInv, QueueTypeOK',
         \A v \in Holders' : v \in Holders /\ runner'[v].job = runner[v].job,
         \A v \in Holders' : OutOfReach(runner[v].job)'
  PROVE  HolderInv'
BY DEF HolderInv, OneHolder, Holders, OutOfReach

(* A loop that finishes holds nothing; one that moves on holds at most what *)
(* it held, unless it moves from where nothing is held.                     *)
LEMMA FinishHolders ==
  ASSUME QueueTypeOK, NEW w \in Workers, Finish(w)
  PROVE  \A v \in Holders' : v \in Holders /\ v # w /\ runner'[v].job = runner[v].job
BY StagesApart DEF Finish, AtRest, Holders, QueueTypeOK

LEMMA GotoHolders ==
  ASSUME QueueTypeOK, NEW w \in Workers, NEW l, w \in Holders \/ l \notin Stages \cup {"done"},
         Goto(w, l)
  PROVE  /\ \A v \in Holders' : v \in Holders /\ runner'[v].job = runner[v].job
         /\ l \notin Stages \cup {"done"} => w \notin Holders'
<1>1. \A v \in Workers : v # w => runner'[v] = runner[v]
  BY DEF Goto, QueueTypeOK
<1>2. runner'[w].at = l /\ runner'[w].job = runner[w].job
  BY DEF Goto, QueueTypeOK, Runners
<1> QED
  BY <1>1, <1>2 DEF Holders

(* The row of a job that nobody else holds, or that stays out of reach.     *)
LEMMA EndRowReach ==
  ASSUME QueueTypeOK, NEW w \in Workers, NEW s \in {"complete", "failed"},
         runner[w].job \in Jobs, EndRow(w, s), NEW j \in Jobs, OutOfReach(j),
         s = "failed" \/ j # runner[w].job
  PROVE  OutOfReach(j)'
<1>1. jobs' = [jobs EXCEPT ![runner[w].job] =
                 [jobs[runner[w].job] EXCEPT !.status = s, !.lease = "null"]]
  BY DEF EndRow, QueueTypeOK
<1>2. jobs[runner[w].job] \in Rows
  BY DEF QueueTypeOK
<1> QED
  BY <1>1, <1>2 DEF OutOfReach, Rows, QueueTypeOK

LEMMA ClaimHolder ==
  ASSUME HolderInv, NEW w \in Workers, Claim(w)
  PROVE  HolderInv'
<1>1. QueueTypeOK /\ QueueTypeOK'
  BY ClaimType DEF HolderInv
<1>2. PICK j \in Jobs :
        /\ Claimable(j)
        /\ jobs' = [jobs EXCEPT ![j].status = "running", ![j].lease = "live", ![j].attempts = @ + 1]
        /\ runner' = [runner EXCEPT ![w] = [at |-> "working", job |-> j,
                                            attempts |-> jobs[j].attempts + 1]]
  BY DEF Claim
<1>3. \A v \in Holders : runner[v].job # j
  BY <1>2 DEF HolderInv, OutOfReach, Claimable, Expired
<1>4. /\ runner'[w].job = j
      /\ \A v \in Workers : v # w => runner'[v] = runner[v]
  BY <1>1, <1>2 DEF QueueTypeOK
<1>5. \A i \in Jobs : i # j => jobs'[i] = jobs[i]
  BY <1>1, <1>2 DEF QueueTypeOK
<1>6. jobs'[j].status = "running" /\ jobs'[j].lease = "live"
  <2>1. jobs[j] \in Rows
    BY <1>1 DEF QueueTypeOK
  <2> QED
    BY <1>1, <1>2, <2>1 DEF QueueTypeOK, Rows
<1>7. \A v \in Holders' : v = w \/ v \in Holders
  BY <1>4 DEF Holders
<1>8. \A v \in Holders : runner[v].job \in Jobs
  BY <1>1, StagesApart DEF Holders, QueueTypeOK
<1>9. OneHolder'
  BY <1>3, <1>4, <1>7 DEF OneHolder, HolderInv, Holders
<1>10. \A v \in Holders' : OutOfReach(runner[v].job)'
  <2> SUFFICES ASSUME NEW v \in Holders' PROVE OutOfReach(runner[v].job)'
    OBVIOUS
  <2>1. CASE v = w
    BY <1>4, <1>6, <2>1 DEF OutOfReach
  <2>2. CASE v # w
    BY <1>3, <1>4, <1>5, <1>7, <1>8, <2>2 DEF HolderInv, OutOfReach, Holders
  <2> QED
    BY <2>1, <2>2
<1> QED
  BY <1>1, <1>9, <1>10 DEF HolderInv

LEMMA LoopHolder ==
  ASSUME HolderInv, NEW w \in Workers, Loop(w)
  PROVE  HolderInv'
<1> QueueTypeOK /\ QueueTypeOK'
  BY LoopType DEF HolderInv
<1> USE StagesApart
<1>0. \A v \in Holders : runner[v].job \in Jobs
  BY DEF Holders, QueueTypeOK
<1>1. CASE Retire(w)
  <2>1. \A v \in Holders' : v \in Holders /\ runner'[v].job = runner[v].job
    BY <1>1, GotoHolders DEF Retire
  <2>2. \A j \in Jobs : OutOfReach(j) => OutOfReach(j)'
    <3> SUFFICES ASSUME NEW j \in Jobs, OutOfReach(j) PROVE OutOfReach(j)'
      OBVIOUS
    <3>1. jobs[j] \in Rows
      BY DEF QueueTypeOK
    <3> QED
      BY <1>1, <3>1 DEF Retire, OutOfReach, Rows
  <2> QED
    BY <1>0, <2>1, <2>2, FewerHolders DEF HolderInv, OutOfReach
<1>2. CASE Claim(w)
  BY <1>2, ClaimHolder
<1>3. CASE ClaimNothing(w)
  BY <1>3, FinishHolders, FewerHolders DEF ClaimNothing, HolderInv, OutOfReach
<1>4. CASE Complete(w)
  <2>1. w \in Holders /\ runner[w].job \in Jobs
    BY <1>4 DEF Complete, Holders, QueueTypeOK
  <2>2. \A v \in Holders' : v \in Holders /\ v # w /\ runner'[v].job = runner[v].job
    BY <1>4, <2>1, GotoHolders, FinishHolders DEF Complete
  <2>3. \A j \in Jobs : OutOfReach(j) /\ j # runner[w].job => OutOfReach(j)'
    BY <1>4, <2>1, EndRowReach DEF Complete, OutOfReach
  <2>4. \A v \in Holders' : runner[v].job # runner[w].job
    BY <2>1, <2>2 DEF HolderInv, OneHolder
  <2> QED
    BY <1>0, <2>2, <2>3, <2>4, FewerHolders DEF HolderInv, OutOfReach
<1>5. CASE Fail(w)
  <2>1. runner[w].job \in Jobs
    BY <1>5 DEF Fail, QueueTypeOK
  <2>2. \A v \in Holders' : v \in Holders /\ runner'[v].job = runner[v].job
    BY <1>5, FinishHolders DEF Fail
  <2>3. \A j \in Jobs : OutOfReach(j) => OutOfReach(j)'
    BY <1>5, <2>1, EndRowReach DEF Fail
  <2> QED
    BY <1>0, <2>2, <2>3, FewerHolders DEF HolderInv, OutOfReach
<1> QED
  BY <1>1, <1>2, <1>3, <1>4, <1>5 DEF Loop

(* Whatever a release writes, its loop holds the job no more and nobody else *)
(* held it.                                                                  *)
LEMMA ReleaseHolder ==
  ASSUME HolderInv, QueueTypeOK', NEW w \in Workers, runner[w].at \in Stages, Release(w)
  PROVE  HolderInv'
<1> QueueTypeOK
  BY DEF HolderInv
<1> USE StagesApart
<1>1. w \in Holders /\ runner[w].job \in Jobs
  BY DEF Holders, QueueTypeOK
<1>2. \A v \in Holders' : v \in Holders /\ v # w /\ runner'[v].job = runner[v].job
  BY <1>1, FinishHolders, GotoHolders DEF Release
<1>3. \A v \in Holders' : runner[v].job \in Jobs /\ runner[v].job # runner[w].job
  BY <1>1, <1>2 DEF HolderInv, OneHolder, Holders, QueueTypeOK
<1>4. \A i \in Jobs : i # runner[w].job => jobs'[i] = jobs[i]
  BY <1>1 DEF Release, ReleaseRow, QueueTypeOK
<1> QED
  BY <1>2, <1>3, <1>4, FewerHolders DEF HolderInv, OutOfReach

(* Saving progress changes who holds what no more than it changes jobs.    *)
LEMMA SaveHolder ==
  ASSUME HolderInv, NEW w \in Workers, w \in Holders, SaveProgress(w), UNCHANGED <<runner, mishaps>>
  PROVE  /\ HolderInv'
         /\ \A i \in Jobs : jobs'[i].status = jobs[i].status /\ jobs'[i].payload = jobs[i].payload
<1>1. QueueTypeOK /\ \A v \in Holders : runner[v].job \in Jobs
  BY StagesApart DEF HolderInv, Holders, QueueTypeOK
<1> DEFINE j == runner[w].job
<1>2. jobs[j] \in Rows /\ jobs' = [jobs EXCEPT ![j] = [jobs[j] EXCEPT !.lease = "live"]]
  BY <1>1 DEF SaveProgress, QueueTypeOK
<1>3. QueueTypeOK'
  BY <1>1, SaveProgressType DEF QueueTypeOK
<1>4. \A i \in Jobs : /\ OutOfReach(i) => OutOfReach(i)'
                     /\ jobs'[i].status = jobs[i].status /\ jobs'[i].payload = jobs[i].payload
  BY <1>1, <1>2 DEF OutOfReach, Rows, QueueTypeOK
<1>5. \A v \in Holders' : v \in Holders /\ runner'[v].job = runner[v].job
  BY DEF Holders
<1>6. HolderInv'
  BY <1>1, <1>3, <1>4, <1>5, FewerHolders DEF HolderInv, OutOfReach
<1> QED
  BY <1>4, <1>6

LEMMA WorkHolder ==
  ASSUME HolderInv, NEW w \in Workers, Work(w)
  PROVE  HolderInv'
<1> QueueTypeOK /\ QueueTypeOK'
  BY WorkType DEF HolderInv
<1> USE StagesApart
<1>0. \A v \in Holders : runner[v].job \in Jobs
  BY DEF Holders, QueueTypeOK
<1>1. runner[w].at \in Stages /\ w \in Holders
  BY DEF Work, Return, Holders
<1>2. CASE Return(w)
  <2>1. \A v \in Holders' : v \in Holders /\ runner'[v].job = runner[v].job
    BY <1>1, <1>2, GotoHolders DEF Return
  <2> QED
    BY <1>2, <2>1, FewerHolders DEF Return, HolderInv, OutOfReach
<1>3. CASE SaveProgress(w) /\ UNCHANGED <<runner, mishaps>>
  BY <1>1, <1>3, SaveHolder
<1>4. CASE Release(w) /\ Mishap
  BY <1>1, <1>4, ReleaseHolder
<1> QED
  BY <1>2, <1>3, <1>4 DEF Work

LEMMA EnqueueHolder ==
  ASSUME HolderInv, NEW k \in Keys, NEW p \in Payloads, Enqueue(k, p)
  PROVE  HolderInv'
<1> QueueTypeOK /\ QueueTypeOK'
  BY EnqueueType DEF HolderInv
<1>1. PICK j \in Jobs : /\ jobs[j].status = "none"
                        /\ \A i \in Jobs : i # j => jobs'[i] = jobs[i]
  BY DEF Enqueue, Insert, QueueTypeOK
<1>2. \A v \in Holders : runner[v].job \in Jobs /\ runner[v].job # j
  BY <1>1, StagesApart DEF HolderInv, OutOfReach, Holders, QueueTypeOK
<1>3. \A v \in Holders' : v \in Holders /\ runner'[v].job = runner[v].job
  BY DEF Enqueue, Holders
<1> QED
  BY <1>1, <1>2, <1>3, FewerHolders DEF HolderInv, OutOfReach

LEMMA DieHolder ==
  ASSUME HolderInv, NEW w \in Workers, Die(w)
  PROVE  HolderInv'
<1> QueueTypeOK /\ QueueTypeOK'
  BY DieType DEF HolderInv
<1>1. \A v \in Holders' : v \in Holders /\ runner'[v].job = runner[v].job
  BY FinishHolders DEF Die
<1> QED
  BY <1>1, FewerHolders DEF Die, HolderInv, OutOfReach

LEMMA ExpireHolder ==
  ASSUME HolderInv, NEW j \in Jobs, Expire(j)
  PROVE  HolderInv'
<1> QueueTypeOK /\ QueueTypeOK'
  BY ExpireType DEF HolderInv
<1>1. \A v \in Holders' : v \in Holders /\ runner'[v].job = runner[v].job /\ runner[v].job # j
  BY DEF Expire, Holders
<1>2. \A i \in Jobs : i # j => jobs'[i] = jobs[i]
  BY DEF Expire, QueueTypeOK
<1>3. \A v \in Holders : runner[v].job \in Jobs
  BY StagesApart DEF Holders, QueueTypeOK
<1> QED
  BY <1>1, <1>2, <1>3, FewerHolders DEF HolderInv, OutOfReach

LEMMA HolderStep == HolderInv /\ [QueueNext]_queueVars => HolderInv'
<1> SUFFICES ASSUME HolderInv, [QueueNext]_queueVars PROVE HolderInv'
  OBVIOUS
<1>1. CASE UNCHANGED queueVars
  BY <1>1 DEF queueVars, HolderInv, QueueTypeOK, OneHolder, Holders, OutOfReach
<1> QED
  BY <1>1, EnqueueHolder, LoopHolder, WorkHolder, DieHolder, ExpireHolder DEF QueueNext

(***************************************************************************)
(* No two worker loops have one job at a time, for any number of loops and *)
(* any handler: none of the writes is fenced, and none needs to be while a *)
(* lease outlives its worker.                                              *)
(***************************************************************************)
THEOREM HeldByOne == QueueSpec => []OneHolder
<1>1. HolderInv => OneHolder
  BY DEF HolderInv
<1> QED
  BY <1>1, HolderInit, HolderStep, PTL DEF QueueSpec

-----------------------------------------------------------------------------
(* A lease that ended belongs to a job that no loop has any more.           *)
Lost == \A j \in Jobs : Expired(j) => \A w \in Workers : runner[w].job # j

LostInv == HolderInv /\ Lost

(* A step that ends no lease and gives no loop a job.                       *)
LEMMA LostKept ==
  ASSUME LostInv,
         \A j \in Jobs : Expired(j)' => Expired(j),
         \A w \in Workers : runner'[w].job \in {runner[w].job, None}
  PROVE  Lost'
BY QueueAssumption DEF LostInv, Lost

LEMMA LostStep == LostInv /\ [QueueNext]_queueVars => LostInv'
<1> SUFFICES ASSUME LostInv, [QueueNext]_queueVars PROVE LostInv'
  OBVIOUS
<1> USE DEF LostInv
<1>1. HolderInv' /\ QueueTypeOK /\ QueueTypeOK'
  BY HolderStep, QueueTypeStep DEF HolderInv
<1>2. ASSUME NEW w \in Workers,
             Finish(w) \/ Goto(w, "claiming") \/ Goto(w, "done") \/ Goto(w, "failing")
      PROVE  \A v \in Workers : runner'[v].job \in {runner[v].job, None}
  BY <1>1, <1>2 DEF Finish, Goto, AtRest, QueueTypeOK, Runners
<1>3. ASSUME NEW k \in Keys, NEW p \in Payloads, Enqueue(k, p) PROVE Lost'
  BY <1>1, <1>3, LostKept DEF Enqueue, Insert, Expired, QueueTypeOK
<1>4. ASSUME NEW w \in Workers, Retire(w) PROVE Lost'
  <2>1. \A j \in Jobs : Expired(j)' => Expired(j)
    <3> SUFFICES ASSUME NEW j \in Jobs, Expired(j)' PROVE Expired(j)
      OBVIOUS
    <3>1. jobs[j] \in Rows
      BY <1>1 DEF QueueTypeOK
    <3> QED
      BY <1>4, <3>1 DEF Retire, Expired, Rows
  <2>2. \A v \in Workers : runner'[v].job \in {runner[v].job, None}
    BY <1>2, <1>4 DEF Retire
  <2> QED
    BY <2>1, <2>2, LostKept
<1>5. ASSUME NEW w \in Workers, Claim(w) PROVE Lost'
  <2>1. PICK j \in Jobs :
          /\ jobs' = [jobs EXCEPT ![j].status = "running", ![j].lease = "live", ![j].attempts = @ + 1]
          /\ runner' = [runner EXCEPT ![w] = [at |-> "working", job |-> j,
                                              attempts |-> jobs[j].attempts + 1]]
    BY <1>5 DEF Claim
  <2>2. ~Expired(j)'
    <3>1. jobs[j] \in Rows
      BY <1>1 DEF QueueTypeOK
    <3> QED
      BY <1>1, <2>1, <3>1 DEF Expired, QueueTypeOK, Rows
  <2>3. \A i \in Jobs : i # j => (Expired(i)' <=> Expired(i))
    BY <1>1, <2>1 DEF Expired, QueueTypeOK
  <2>4. runner'[w].job = j /\ \A v \in Workers : v # w => runner'[v] = runner[v]
    BY <1>1, <2>1 DEF QueueTypeOK
  <2> QED
    BY <2>2, <2>3, <2>4 DEF Lost
<1>6. ASSUME NEW w \in Workers, NEW s \in {"complete", "failed"}, EndRow(w, s)
      PROVE  \A j \in Jobs : Expired(j)' => Expired(j)
  BY <1>1, <1>6 DEF EndRow, Expired, QueueTypeOK, Rows
<1>7. ASSUME NEW w \in Workers, ClaimNothing(w) \/ Complete(w) \/ Fail(w) \/ Die(w) \/ Return(w)
      PROVE  Lost'
  <2>1. \A v \in Workers : runner'[v].job \in {runner[v].job, None}
    BY <1>2, <1>7 DEF ClaimNothing, Complete, Fail, Die, Return
  <2>2. EndRow(w, "complete") \/ EndRow(w, "failed") \/ UNCHANGED jobs
    BY <1>7 DEF ClaimNothing, Complete, Fail, Die, Return
  <2>3. \A j \in Jobs : Expired(j)' => Expired(j)
    BY <1>6, <2>2 DEF Expired
  <2> QED
    BY <2>1, <2>3, LostKept
<1>8. ASSUME NEW w \in Workers, SaveProgress(w), UNCHANGED <<runner, mishaps>> PROVE Lost'
  <2>1. \A j \in Jobs : Expired(j)' => Expired(j)
    BY <1>1, <1>8 DEF SaveProgress, Expired, QueueTypeOK, Rows
  <2> QED
    BY <1>8, <2>1, LostKept
<1>9. ASSUME NEW w \in Workers, Release(w) PROVE Lost'
  <2>1. \A j \in Jobs : Expired(j)' => Expired(j)
    BY <1>1, <1>9 DEF Release, ReleaseRow, Expired, QueueTypeOK, Rows
  <2>2. \A v \in Workers : runner'[v].job \in {runner[v].job, None}
    BY <1>2, <1>9 DEF Release
  <2> QED
    BY <2>1, <2>2, LostKept
<1>10. ASSUME NEW j \in Jobs, Expire(j) PROVE Lost'
  <2>1. \A i \in Jobs : i # j => jobs'[i] = jobs[i]
    BY <1>1, <1>10 DEF Expire, QueueTypeOK
  <2> QED
    BY <1>10, <2>1 DEF Expire, Expired, Lost
<1>11. CASE UNCHANGED queueVars
  <2>1. \A j \in Jobs : Expired(j)' => Expired(j)
    BY <1>11 DEF queueVars, Expired
  <2>2. \A v \in Workers : runner'[v].job \in {runner[v].job, None}
    BY <1>11 DEF queueVars
  <2> QED
    BY <1>1, <2>1, <2>2, LostKept
<1> QED
  BY <1>1, <1>3, <1>4, <1>5, <1>7, <1>8, <1>9, <1>10, <1>11 DEF QueueNext, Loop, Work

LEMMA LostInit == QueueInit => LostInv
<1> SUFFICES ASSUME QueueInit PROVE LostInv
  OBVIOUS
<1> QED
  BY HolderInit DEF LostInv, Lost, Expired, QueueInit, NoRow

(* Who may fail a running job: a loop that had it, or any once nobody has it. *)
FailureIsOwn(j) ==
  \/ \E w \in Workers : runner[w].at = "failing" /\ runner[w].job = j
  \/ \A w \in Workers : runner[w].job # j

LEMMA FailedStep ==
  ASSUME LostInv, [QueueNext]_queueVars, NEW j \in Jobs,
         jobs[j].status = "running", jobs'[j].status = "failed"
  PROVE  FailureIsOwn(j)
<1>1. QueueTypeOK /\ Lost
  BY DEF LostInv, HolderInv
<1>2. ASSUME NEW k \in Keys, NEW p \in Payloads, Enqueue(k, p) PROVE FALSE
  BY <1>1, <1>2 DEF Enqueue, Insert, QueueTypeOK
<1>3. ASSUME NEW w \in Workers, Retire(w) PROVE FailureIsOwn(j)
  BY <1>1, <1>3 DEF Retire, WornOut, Lost, FailureIsOwn
<1>4. ASSUME NEW w \in Workers, Claim(w) PROVE FALSE
  BY <1>1, <1>4 DEF Claim, QueueTypeOK, Rows
<1>5. ASSUME NEW w \in Workers, Complete(w) PROVE FALSE
  BY <1>1, <1>5 DEF Complete, EndRow, QueueTypeOK, Rows
<1>6. ASSUME NEW w \in Workers, Fail(w) PROVE FailureIsOwn(j)
  BY <1>1, <1>6 DEF Fail, EndRow, QueueTypeOK, Rows, FailureIsOwn
<1>7. ASSUME NEW w \in Workers, Work(w) PROVE FALSE
  <2>1. ASSUME SaveProgress(w) PROVE FALSE
    BY <1>1, <2>1 DEF SaveProgress, QueueTypeOK, Rows
  <2>2. ASSUME Release(w) PROVE FALSE
    BY <1>1, <2>2 DEF Release, ReleaseRow, QueueTypeOK, Rows
  <2> QED
    BY <1>7, <2>1, <2>2 DEF Work, Return
<1>8. ASSUME NEW i \in Jobs, Expire(i) PROVE FALSE
  BY <1>1, <1>8 DEF Expire, QueueTypeOK, Rows
<1> QED
  BY <1>2, <1>3, <1>4, <1>5, <1>6, <1>7, <1>8
     DEF QueueNext, Loop, ClaimNothing, Die, queueVars

(***************************************************************************)
(* A running job is failed only by a loop that had it, or when no loop has *)
(* it any more: the first statement of claim retires jobs whose lease      *)
(* ended, and Lost says that nobody has those.                             *)
(***************************************************************************)
THEOREM FailuresOfLostJobs == QueueSpec => FailedOnlyWhenLost
<1>1. LostInv /\ [QueueNext]_queueVars =>
        [\A j \in Jobs : jobs[j].status = "running" /\ jobs'[j].status = "failed" =>
           FailureIsOwn(j)]_queueVars
  BY FailedStep
<1> QED
  BY <1>1, LostInit, LostStep, PTL DEF QueueSpec, FailedOnlyWhenLost, FailureIsOwn

(* The loop that completed a job fails it, because the reply was lost. *)
LateReply(j) ==
  \E w \in Workers : /\ runner[w].at = "failing" /\ runner[w].job = j
                     /\ jobs'[j].status = "failed"

LEMMA CompletedStep ==
  ASSUME HolderInv, [QueueNext]_queueVars, NEW j \in Jobs,
         jobs[j].status = "complete", jobs'[j].status # "complete"
  PROVE  LateReply(j)
<1>1. QueueTypeOK /\ \A w \in Holders : runner[w].job # j
  BY DEF HolderInv, OutOfReach
<1>2. ASSUME NEW k \in Keys, NEW p \in Payloads, Enqueue(k, p) PROVE FALSE
  BY <1>1, <1>2 DEF Enqueue, Insert, QueueTypeOK
<1>3. ASSUME NEW w \in Workers, Retire(w) PROVE FALSE
  BY <1>1, <1>3 DEF Retire, WornOut, Expired
<1>4. ASSUME NEW w \in Workers, Claim(w) PROVE FALSE
  BY <1>1, <1>4 DEF Claim, Claimable, Expired, QueueTypeOK
<1>5. ASSUME NEW w \in Workers, Complete(w) PROVE FALSE
  BY <1>1, <1>5 DEF Complete, EndRow, QueueTypeOK, Rows
<1>6. ASSUME NEW w \in Workers, Fail(w) PROVE LateReply(j)
  BY <1>1, <1>6 DEF Fail, EndRow, QueueTypeOK, Rows, LateReply
<1>7. ASSUME NEW w \in Workers, Work(w) PROVE FALSE
  <2>1. ASSUME SaveProgress(w) PROVE FALSE
    BY <1>1, <2>1 DEF SaveProgress, QueueTypeOK, Rows
  <2>2. ASSUME Release(w), runner[w].at = "working" PROVE FALSE
    BY <1>1, <2>2, QueueAssumption DEF Release, ReleaseRow, QueueTypeOK, Rows, Holders
  <2> QED
    BY <1>7, <2>1, <2>2 DEF Work, Return
<1>8. ASSUME NEW i \in Jobs, Expire(i) PROVE FALSE
  BY <1>1, <1>8 DEF Expire, QueueTypeOK, Rows
<1> QED
  BY <1>2, <1>3, <1>4, <1>5, <1>6, <1>7, <1>8
     DEF QueueNext, Loop, ClaimNothing, Die, queueVars

(***************************************************************************)
(* A job that completed stays complete, but for the loop whose own reply   *)
(* was lost: a job that is held is not complete, and what is not held can  *)
(* be changed by claim, retire and fail alone.                             *)
(***************************************************************************)
THEOREM CompletedForGood == QueueSpec => CompletedStays
<1>1. HolderInv /\ [QueueNext]_queueVars =>
        [\A j \in Jobs : jobs[j].status = "complete" /\ jobs'[j].status # "complete" =>
           LateReply(j)]_queueVars
  BY CompletedStep
<1> QED
  BY <1>1, HolderInit, HolderStep, PTL DEF QueueSpec, CompletedStays, LateReply
-----------------------------------------------------------------------------
(* For the handlers that work on the jobs.                                  *)

(* A handler that moves on without writing the job, or back to the loop.    *)
LEMMA GotoHolder ==
  ASSUME HolderInv, NEW w \in Workers, runner[w].at \in Stages,
         NEW l \in Stages \cup {"done", "failing"}, Goto(w, l), UNCHANGED jobs,
         UNCHANGED mishaps \/ Mishap
  PROVE  HolderInv'
<1> USE StagesApart
<1>1. QueueTypeOK /\ w \in Holders
  BY DEF HolderInv, Holders
<1>2. QueueTypeOK'
  BY <1>1, GotoType, MishapType DEF QueueTypeOK
<1>3. \A v \in Holders' : v \in Holders /\ runner'[v].job = runner[v].job
  BY <1>1, GotoHolders
<1> QED
  BY <1>2, <1>3, FewerHolders DEF HolderInv, OutOfReach

(* What a step may not do to a job that is complete or running, as          *)
(* CompletedStays and FailedOnlyWhenLost say it.                            *)
EndsSoundly ==
  \A j \in Jobs :
    /\ jobs[j].status = "complete" /\ jobs'[j].status # "complete" => LateReply(j)
    /\ jobs[j].status = "running" /\ jobs'[j].status = "failed" => FailureIsOwn(j)

LEMMA QueueEndsSoundly == LostInv /\ [QueueNext]_queueVars => EndsSoundly
BY CompletedStep, FailedStep DEF EndsSoundly, LostInv

(* A handler ends no lease, gives nobody a job and ends none itself.        *)
LEMMA HandlerLost ==
  ASSUME LostInv, NEW w \in Workers, runner[w].at \in Stages,
         \/ UNCHANGED jobs /\ \E l \in Stages \cup {"done", "failing"} : Goto(w, l)
         \/ Release(w)
         \/ SaveProgress(w) /\ UNCHANGED runner
  PROVE  Lost' /\ EndsSoundly
<1>1. QueueTypeOK /\ w \in Holders /\ runner[w] \in Runners /\ runner[w].job \in Jobs
  BY StagesApart DEF LostInv, HolderInv, Holders, QueueTypeOK
<1> DEFINE j == runner[w].job
<1>2. jobs[j] \in Rows /\ jobs[j].status # "complete"
  BY <1>1 DEF LostInv, HolderInv, OutOfReach, QueueTypeOK
<1>3. /\ \A i \in Jobs \ {j} : jobs'[i] = jobs[i]
      /\ jobs'[j].status # "running" \/ jobs'[j].lease # "expired" \/ jobs'[j] = jobs[j]
      /\ jobs[j].status = "running" => jobs'[j].status # "failed"
  <2>1. CASE UNCHANGED jobs
    BY <2>1
  <2>2. CASE Release(w)
    <3>1. CASE UNCHANGED jobs
      BY <3>1
    <3>2. CASE ReleaseRow(j)
      <4>1. \A i \in Jobs \ {j} : jobs'[i] = jobs[i]
        BY <1>1, <3>2 DEF ReleaseRow, QueueTypeOK
      <4>2. jobs'[j].status = "queued"
        BY <1>1, <1>2, <3>2 DEF ReleaseRow, QueueTypeOK, Rows
      <4> QED
        BY <4>1, <4>2
    <3> QED
      BY <2>2, <3>1, <3>2 DEF Release
  <2>3. CASE SaveProgress(w)
    <3>1. jobs' = [jobs EXCEPT ![j] = [jobs[j] EXCEPT !.lease = "live"]]
      BY <1>1, <2>3 DEF SaveProgress, QueueTypeOK
    <3>2. jobs'[j].lease = "live" /\ jobs'[j].status = jobs[j].status
      BY <1>1, <1>2, <3>1 DEF QueueTypeOK, Rows
    <3> QED
      BY <1>1, <3>1, <3>2 DEF QueueTypeOK
  <2> QED
    BY <2>1, <2>2, <2>3
<1>4. \A v \in Workers : runner'[v].job \in {runner[v].job, None}
  BY <1>1 DEF Goto, Finish, AtRest, Release, QueueTypeOK, Runners
<1>5. Lost'
  <2>1. \A i \in Jobs : Expired(i)' => Expired(i)
    BY <1>3 DEF Expired
  <2> QED
    BY <1>4, <2>1, LostKept
<1>6. EndsSoundly
  BY <1>2, <1>3 DEF EndsSoundly
<1> QED
  BY <1>5, <1>6

(* A step that forgets no job, and one that makes none either. *)
KeptJobs ==
  \A j \in Jobs : jobs[j].status # "none" =>
    jobs'[j].status # "none" /\ jobs'[j].payload = jobs[j].payload

SameJobs == KeptJobs /\ \A j \in Jobs : jobs'[j].status # "none" => jobs[j].status # "none"

(* Whoever has a job has one that exists. *)
JobsExist == \A w \in Workers : runner[w].job # None => jobs[runner[w].job].status # "none"

(* What a handler that moves on leaves of the jobs and workers. *)
LEMMA GotoLeaves ==
  ASSUME QueueTypeOK, NEW w \in Workers, NEW l, Goto(w, l), UNCHANGED jobs
  PROVE  /\ SameJobs
         /\ \A v \in Workers : v # w => runner'[v] = runner[v]
         /\ runner'[w].at = l /\ \A v \in Workers : runner'[v].job = runner[v].job
BY DEF QueueTypeOK, Runners, Goto, SameJobs, KeptJobs

(* What the statements of the loop leave of the other jobs and workers. *)
LEMMA LoopLeaves ==
  ASSUME QueueTypeOK, JobsExist, NEW w \in Workers,
         Loop(w) \/ Die(w) \/ (Release(w) /\ runner[w].at \in Stages)
  PROVE  /\ SameJobs
         /\ \A v \in Workers : v # w => runner'[v] = runner[v]
         /\ runner'[w].at \in {"idle", "claiming", "working", "failing"}
         /\ \/ runner'[w].job \in {runner[w].job, None}
            \/ runner'[w].job \in Jobs /\ jobs[runner'[w].job].status # "none"
<1> USE DEF SameJobs, KeptJobs
<1>0. QueueTypeOK /\ JobsExist /\ runner[w] \in Runners /\ \A j \in Jobs : jobs[j] \in Rows
  BY DEF QueueTypeOK
<1>1. ASSUME Finish(w)
      PROVE  /\ \A v \in Workers : v # w => runner'[v] = runner[v]
             /\ runner'[w].at = "idle" /\ runner'[w].job = None
  BY <1>0, <1>1 DEF Finish, AtRest, QueueTypeOK
<1>2. ASSUME NEW l, Goto(w, l)
      PROVE  /\ \A v \in Workers : v # w => runner'[v] = runner[v]
             /\ runner'[w].at = l /\ runner'[w].job = runner[w].job
  BY <1>0, <1>2 DEF Goto, QueueTypeOK, Runners
<1>3. ASSUME NEW t \in {"complete", "failed"}, EndRow(w, t),
             runner[w].job # None
      PROVE  SameJobs
  BY <1>0, <1>3 DEF EndRow, JobsExist, QueueTypeOK, Rows
<1>4. CASE Retire(w)
  <2>1. SameJobs
    BY <1>0, <1>4 DEF Retire, WornOut, Expired, Rows
  <2> QED
    BY <1>2, <1>4, <2>1 DEF Retire
<1>5. CASE Claim(w)
  <2>1. PICK j \in Jobs :
          /\ Claimable(j)
          /\ jobs' = [jobs EXCEPT ![j].status = "running", ![j].lease = "live", ![j].attempts = @ + 1]
          /\ runner' = [runner EXCEPT ![w] = [at |-> "working", job |-> j,
                                              attempts |-> jobs[j].attempts + 1]]
    BY <1>5 DEF Claim
  <2>2. jobs[j].status # "none"
    BY <2>1 DEF Claimable, Expired
  <2>3. SameJobs
    BY <1>0, <2>1, <2>2 DEF QueueTypeOK, Rows
  <2> QED
    BY <1>0, <2>1, <2>2, <2>3 DEF QueueTypeOK
<1>6. CASE ClaimNothing(w) \/ Die(w)
  BY <1>1, <1>6 DEF ClaimNothing, Die
<1>7. CASE Complete(w) \/ Fail(w)
  <2>1. runner[w].job # None
    BY <1>0, <1>7, QueueAssumption DEF Complete, Fail, QueueTypeOK
  <2> QED
    BY <1>1, <1>2, <1>3, <1>7, <2>1 DEF Complete, Fail
<1>8. CASE Release(w) /\ runner[w].at \in Stages
  <2>1. runner[w].job \in Jobs /\ jobs[runner[w].job].status # "none"
    BY <1>0, <1>8, StagesApart, QueueAssumption DEF QueueTypeOK, JobsExist
  <2>2. SameJobs
    BY <1>0, <1>8, <2>1 DEF Release, ReleaseRow, QueueTypeOK, Rows
  <2> QED
    BY <1>1, <1>2, <1>8, <2>2 DEF Release
<1> QED
  BY <1>4, <1>5, <1>6, <1>7, <1>8 DEF Loop

(* Every job on file has a payload it was given, and who has one has one on  *)
(* file.                                                                    *)
OnFile == JobsExist /\ \A j \in Jobs : jobs[j].status # "none" => jobs[j].payload \in Payloads

LEMMA OnFileStep == QueueTypeOK /\ OnFile /\ [QueueNext]_queueVars => OnFile'
<1> SUFFICES ASSUME QueueTypeOK, OnFile, [QueueNext]_queueVars PROVE OnFile'
  OBVIOUS
<1>1. ASSUME NEW k \in Keys, NEW p \in Payloads, Enqueue(k, p) PROVE OnFile'
  <2>1. PICK j \in Jobs :
          jobs' = [jobs EXCEPT ![j] = [status |-> "queued", key |-> k, payload |-> p,
                                       attempts |-> 0, lease |-> "null"]]
    BY <1>1 DEF Enqueue, Insert
  <2>2. /\ jobs'[j].status = "queued" /\ jobs'[j].payload = p
        /\ \A i \in Jobs : i # j => jobs'[i] = jobs[i]
    BY <2>1 DEF QueueTypeOK
  <2>3. UNCHANGED runner /\ \A w \in Workers : runner[w].job \in Jobs \cup {None}
    BY <1>1 DEF Enqueue, QueueTypeOK, Runners
  <2> QED
    BY <2>2, <2>3 DEF OnFile, JobsExist
<1>2. ASSUME SameJobs, NEW w \in Workers, \A v \in Workers : v # w => runner'[v] = runner[v],
             \/ runner'[w].job \in {runner[w].job, None}
             \/ runner'[w].job \in Jobs /\ jobs[runner'[w].job].status # "none"
      PROVE  OnFile'
  <2>1. \A v \in Workers : runner[v].job \in Jobs \cup {None}
    BY DEF QueueTypeOK, Runners
  <2> QED
    BY <1>2, <2>1 DEF OnFile, JobsExist, SameJobs, KeptJobs
<1>3. ASSUME NEW w \in Workers, Loop(w) \/ Die(w) \/ Work(w) PROVE OnFile'
  <2>1. CASE Loop(w) \/ Die(w) \/ (Release(w) /\ runner[w].at \in Stages)
    BY <1>2, <2>1, LoopLeaves DEF OnFile
  <2>2. CASE Return(w)
    BY <1>2, <2>2, GotoLeaves DEF Return
  <2>3. CASE runner[w].at = "working" /\ SaveProgress(w) /\ UNCHANGED <<runner, mishaps>>
    <3>1. SameJobs
      BY <2>3 DEF SaveProgress, SameJobs, KeptJobs, QueueTypeOK, Rows
    <3> QED
      BY <1>2, <2>3, <3>1
  <2> QED
    BY <1>3, <2>1, <2>2, <2>3, StagesApart DEF Work
<1>4. CASE UNCHANGED queueVars \/ \E j \in Jobs : Expire(j)
  <2>1. SameJobs
    BY <1>4 DEF queueVars, Expire, SameJobs, KeptJobs, QueueTypeOK, Rows
  <2>2. UNCHANGED runner /\ \A w \in Workers : runner[w].job \in Jobs \cup {None}
    BY <1>4 DEF queueVars, Expire, QueueTypeOK, Runners
  <2> QED
    BY <2>1, <2>2 DEF OnFile, JobsExist, SameJobs, KeptJobs
<1> QED
  BY <1>1, <1>3, <1>4 DEF QueueNext

(* A job becomes complete only where a handler has returned. *)
LEMMA OnlyCompleted ==
  ASSUME QueueTypeOK, NEW w \in Workers, Loop(w) \/ Die(w) \/ Release(w),
         NEW j \in Jobs, jobs'[j].status = "complete", jobs[j].status # "complete"
  PROVE  runner[w].at = "done" /\ j = runner[w].job
<1>1. jobs[j] \in Rows
  BY DEF QueueTypeOK
<1>2. ~Retire(w)
  BY <1>1 DEF Retire, Rows
<1>3. ~Claim(w)
  <2> SUFFICES ASSUME Claim(w) PROVE FALSE
    OBVIOUS
  <2>1. PICK k \in Jobs :
          jobs' = [jobs EXCEPT ![k].status = "running", ![k].lease = "live", ![k].attempts = @ + 1]
    BY DEF Claim
  <2>2. jobs'[k].status = "running" /\ \A i \in Jobs : i # k => jobs'[i] = jobs[i]
    BY <2>1 DEF QueueTypeOK, Rows
  <2> QED
    BY <2>2
<1>4. ~Release(w)
  BY <1>1 DEF Release, ReleaseRow, QueueTypeOK, Rows
<1>5. ~Fail(w) /\ ~ClaimNothing(w) /\ ~Die(w)
  BY <1>1 DEF Fail, EndRow, ClaimNothing, Die, QueueTypeOK, Rows
<1>6. Complete(w)
  BY <1>2, <1>3, <1>4, <1>5 DEF Loop
<1> QED
  BY <1>1, <1>6 DEF Complete, EndRow, QueueTypeOK
=============================================================================
