------------------------- MODULE Improvement_proofs -------------------------
(***************************************************************************)
(* Proofs about rows that are replaced after work outside the database:    *)
(* skill recommendations, and encrypted definitions under key maintenance. *)
(* The two share no variable.                                              *)
(***************************************************************************)
EXTENDS MCImprovement, TLAPS


-----------------------------------------------------------------------------
(***************************************************************************)
(* Skill recommendations, for any number of reviewers, workers, rows and   *)
(* contents: the type, and that what is approved or released carries the   *)
(* approvals it claims, though rows are replaced whole from stale copies.  *)
(*                                                                         *)
(* The argument is about copies: every payload that is stored, read or     *)
(* about to be saved is sound, so it does not matter which one wins.       *)
(***************************************************************************)
WorkRows == [at : {"idle", "claimed", "working", "admitted", "failing", "reopening",
                   "evaluated", "superseding", "finishing"},
             job : OptimizationJobs \cup {Nil}, bundle : Contents \cup {Nil},
             seen : [Recommendations -> Payloads \cup {Absent}]]
CallRows == [at : {"idle", "rejecting", "returning", "approving", "requeueing", "staging", "recording"},
             rec : Recommendations \cup {Nil}, saved : Payloads \cup {Absent}]

(* Everyone but the exempt has consented to the content, and an approved     *)
(* payload has passed the gate with enough approvals.                       *)
Gated(p) == p.status = "approved" =>
  /\ p.validated = p.content /\ p.passed /\ ~p.requires
  /\ Cardinality(p.approvals) >= RequiredApprovals

Consented(r, p, exempt) == \A v \in p.approvals \ exempt : <<v, r, p.content>> \in consents

Sound(r, p) == Gated(p) /\ Consented(r, p, {})

RecOK(r, p) == p \in Payloads \cup {Absent} /\ (p # Absent => Sound(r, p))

(* A worker's call: its job exists, and where it needs a parent, a bundle or *)
(* a copy it has one; the copies are sound.                                 *)
WorkOK(row) ==
  /\ row \in WorkRows
  /\ row.at # "idle" => row.job \in OptimizationJobs /\ optJobs[row.job].status # "none"
  /\ row.at \in {"working", "admitted", "evaluated"} /\ optJobs[row.job].parent # Nil =>
       row.bundle \in Contents
  /\ row.at \in {"failing", "reopening", "evaluated"} => optJobs[row.job].parent # Nil
  /\ row.at = "reopening" => row.seen[optJobs[row.job].parent] # Absent
  /\ \A r \in Recommendations : RecOK(r, row.seen[r])

(* A reviewer's call: the payload to be saved is sound, but for the consent  *)
(* of the reviewer who is giving it.                                        *)
CallOK(v, call) ==
  /\ call \in CallRows
  /\ call.at # "idle" => /\ call.rec \in Recommendations /\ call.saved \in Payloads
                         /\ Gated(call.saved)
                         /\ Consented(call.rec, call.saved, IF call.at = "approving" THEN {v} ELSE {})
  /\ call.at \in {"staging", "recording"} => call.saved.status = "approved"

ReleaseRows == [rec : Recommendations, content : Contents, approvals : SUBSET Reviewers]

ImprovementInv ==
  /\ recs \in [Recommendations -> Payloads \cup {Absent}]
  /\ optJobs \in [OptimizationJobs -> JobRows]
  /\ work \in [Workers -> WorkRows]
  /\ review \in [Reviewers -> CallRows]
  /\ consents \subseteq Reviewers \X Recommendations \X Contents
  /\ releases \subseteq ReleaseRows
  /\ slips \in 0..MaxSlips /\ asks \in 0..MaxAsks
  /\ \A r \in Recommendations : RecOK(r, recs[r])
  /\ \A w \in Workers : WorkOK(work[w])
  /\ \A v \in Reviewers : CallOK(v, review[v])
  /\ ReleasedWasApproved

(* What a step may do to the jobs and the consents without any harm. *)
JobsKept ==
  /\ optJobs' \in [OptimizationJobs -> JobRows]
  /\ \A j \in OptimizationJobs : optJobs[j].status # "none" =>
       optJobs'[j].status # "none" /\ optJobs'[j].parent = optJobs[j].parent

ConsentsKept ==
  consents \subseteq consents' /\ consents' \subseteq Reviewers \X Recommendations \X Contents

CountsKept == slips' \in 0..MaxSlips /\ asks' \in 0..MaxAsks

LEMMA AbsentApart == Absent \notin Payloads /\ Nil \notin Recommendations
<1>1. \A p \in Payloads : p.status # "none"
  BY DEF Payloads, OpenStatuses, Closed
<1> QED
  BY <1>1, ImprovementAssumption DEF Absent

LEMMA RecOKKept == ConsentsKept => \A r, p : RecOK(r, p) => RecOK(r, p)'
BY DEF ConsentsKept, RecOK, Sound, Gated, Consented

LEMMA WorkOKKept == ConsentsKept /\ JobsKept => \A row : WorkOK(row) => WorkOK(row)'
<1> SUFFICES ASSUME ConsentsKept, JobsKept, NEW row, WorkOK(row) PROVE WorkOK(row)'
  OBVIOUS
<1>1. \A r \in Recommendations : RecOK(r, row.seen[r])'
  BY RecOKKept DEF WorkOK
<1>2. row.at # "idle" =>
        /\ row.job \in OptimizationJobs /\ optJobs[row.job].status # "none"
        /\ optJobs'[row.job].status # "none" /\ optJobs'[row.job].parent = optJobs[row.job].parent
  BY DEF WorkOK, JobsKept
<1> QED
  BY <1>1, <1>2 DEF WorkOK

LEMMA CallOKKept == ConsentsKept => \A v, call : CallOK(v, call) => CallOK(v, call)'
BY DEF ConsentsKept, CallOK, Gated, Consented

LEMMA ReleasesKept == ASSUME ConsentsKept, ReleasedWasApproved, releases' = releases
                      PROVE  ReleasedWasApproved'
BY DEF ConsentsKept, ReleasedWasApproved

(* All that is sound stays so. *)
LEMMA AllKept ==
  ASSUME ImprovementInv, JobsKept, ConsentsKept
  PROVE  /\ recs' = recs => \A r \in Recommendations : RecOK(r, recs[r])'
         /\ \A w \in Workers : work'[w] = work[w] => WorkOK(work[w])'
         /\ \A v \in Reviewers : review'[v] = review[v] => CallOK(v, review[v])'
<1>1. ASSUME NEW r \in Recommendations, recs' = recs PROVE RecOK(r, recs[r])'
  BY <1>1, RecOKKept DEF ImprovementInv
<1>2. ASSUME NEW w \in Workers, work'[w] = work[w] PROVE WorkOK(work[w])'
  BY <1>2, WorkOKKept DEF ImprovementInv
<1>3. ASSUME NEW v \in Reviewers, review'[v] = review[v] PROVE CallOK(v, review[v])'
  BY <1>3, CallOKKept DEF ImprovementInv
<1> QED
  BY <1>1, <1>2, <1>3

(* A step of a worker, of a reviewer or of neither: it replaces its own row, *)
(* perhaps recommendations, and what it writes is sound.                    *)
LEMMA WorkerMoves ==
  ASSUME ImprovementInv, JobsKept, CountsKept, NEW w \in Workers, NEW row, WorkOK(row)',
         work' = [work EXCEPT ![w] = row],
         recs' \in [Recommendations -> Payloads \cup {Absent}],
         \A r \in Recommendations : recs'[r] = recs[r] \/ RecOK(r, recs[r])',
         UNCHANGED <<review, consents, releases>>
  PROVE  ImprovementInv'
<1>1. ConsentsKept
  BY DEF ConsentsKept, ImprovementInv
<1>2. row \in WorkRows
  BY DEF WorkOK
<1>3. work' \in [Workers -> WorkRows]
  BY <1>2 DEF ImprovementInv
<1>4. \A u \in Workers : WorkOK(work[u])'
  <2>1. work'[w] = row /\ \A u \in Workers : u # w => work'[u] = work[u]
    BY DEF ImprovementInv
  <2>2. WorkOK(work[w])'
    BY <2>1
  <2> QED
    BY <1>1, <2>1, <2>2, AllKept
<1>5. \A r \in Recommendations : RecOK(r, recs[r])'
  BY <1>1, RecOKKept DEF ImprovementInv
<1>6. \A v \in Reviewers : CallOK(v, review[v])'
  BY <1>1, AllKept
<1> QED
  BY <1>1, <1>3, <1>4, <1>5, <1>6, ReleasesKept DEF ImprovementInv, JobsKept, ConsentsKept, CountsKept

LEMMA ReviewerMoves ==
  ASSUME ImprovementInv, JobsKept, CountsKept, ConsentsKept, NEW v \in Reviewers,
         NEW call, CallOK(v, call)',
         review' = [review EXCEPT ![v] = call],
         recs' \in [Recommendations -> Payloads \cup {Absent}],
         \A r \in Recommendations : recs'[r] = recs[r] \/ RecOK(r, recs[r])',
         releases' \subseteq ReleaseRows, ReleasedWasApproved', work' = work
  PROVE  ImprovementInv'
<1>1. call \in CallRows
  BY DEF CallOK
<1>2. review' \in [Reviewers -> CallRows]
  BY <1>1 DEF ImprovementInv
<1>3. \A u \in Reviewers : CallOK(u, review[u])'
  <2>1. review'[v] = call /\ \A u \in Reviewers : u # v => review'[u] = review[u]
    BY DEF ImprovementInv
  <2>2. CallOK(v, review[v])'
    BY <2>1
  <2> QED
    BY <2>1, <2>2, AllKept
<1>4. \A r \in Recommendations : RecOK(r, recs[r])'
  BY RecOKKept DEF ImprovementInv
<1>5. \A w \in Workers : WorkOK(work[w])'
  BY AllKept
<1> QED
  BY <1>2, <1>3, <1>4, <1>5 DEF ImprovementInv, JobsKept, ConsentsKept, CountsKept

LEMMA OthersMove ==
  ASSUME ImprovementInv, JobsKept, CountsKept, UNCHANGED <<recs, work, review, consents, releases>>
  PROVE  ImprovementInv'
<1>1. ConsentsKept
  BY DEF ConsentsKept, ImprovementInv
<1>2. /\ \A r \in Recommendations : RecOK(r, recs[r])'
      /\ \A w \in Workers : WorkOK(work[w])'
      /\ \A v \in Reviewers : CallOK(v, review[v])'
  BY <1>1, AllKept
<1> QED
  BY <1>1, <1>2, ReleasesKept DEF ImprovementInv, JobsKept, CountsKept, ConsentsKept

-----------------------------------------------------------------------------
(* Jobs. *)

LEMMA JobsLeft == ImprovementInv /\ optJobs' = optJobs => JobsKept
BY DEF ImprovementInv, JobsKept

LEMMA CountsLeft == ImprovementInv /\ UNCHANGED <<slips, asks>> => CountsKept
BY DEF ImprovementInv, CountsKept

LEMMA OneMore ==
  ASSUME ImprovementInv
  PROVE  /\ slips < MaxSlips /\ slips' = slips + 1 /\ asks' = asks => CountsKept
         /\ asks < MaxAsks /\ asks' = asks + 1 /\ slips' = slips => CountsKept
BY ImprovementAssumption DEF ImprovementInv, CountsKept

LEMMA EnqueueKeeps ==
  ASSUME ImprovementInv, NEW parent \in Recommendations \cup {Nil}, EnqueueJob(parent)
  PROVE  JobsKept
<1> DEFINE row == [NoJob EXCEPT !.status = "queued", !.parent = parent]
<1>1. row \in JobRows /\ row.status = "queued"
  BY DEF NoJob, JobRows
<1>2. PICK j \in OptimizationJobs : optJobs[j].status = "none" /\ optJobs' = [optJobs EXCEPT ![j] = row]
  BY DEF EnqueueJob
<1> HIDE DEF row
<1> QED
  BY <1>1, <1>2 DEF ImprovementInv, JobsKept

LEMMA FinishKeeps ==
  ASSUME ImprovementInv, NEW j \in OptimizationJobs, NEW status \in {"completed", "failed"},
         FinishJob(j, status)
  PROVE  JobsKept
<1> DEFINE row == [optJobs[j] EXCEPT !.status = status, !.holder = Nil, !.leased = FALSE]
<1>1. row \in JobRows /\ row.status = status /\ row.parent = optJobs[j].parent
  BY DEF ImprovementInv, JobRows
<1>2. optJobs' = [optJobs EXCEPT ![j] = row]
  BY DEF FinishJob, ImprovementInv
<1> HIDE DEF row
<1> QED
  BY <1>1, <1>2 DEF ImprovementInv, JobsKept

LEMMA LeaseRunsOutHolds ==
  ASSUME ImprovementInv, NEW j \in OptimizationJobs, LeaseRunsOut(j)
  PROVE  ImprovementInv'
<1> DEFINE row == [optJobs[j] EXCEPT !.leased = FALSE]
<1>1. row \in JobRows /\ row.status = optJobs[j].status /\ row.parent = optJobs[j].parent
  BY DEF ImprovementInv, JobRows
<1>2. optJobs' = [optJobs EXCEPT ![j] = row]
  BY DEF LeaseRunsOut, ImprovementInv
<1> HIDE DEF row
<1>3. JobsKept
  BY <1>1, <1>2 DEF ImprovementInv, JobsKept
<1>4. CountsKept
  BY OneMore, CountsLeft DEF LeaseRunsOut
<1> QED
  BY <1>3, <1>4, OthersMove DEF LeaseRunsOut

LEMMA RequestOptimizationHolds == ImprovementInv /\ RequestOptimization => ImprovementInv'
BY EnqueueKeeps, OneMore, OthersMove DEF RequestOptimization

-----------------------------------------------------------------------------
(* Workers. *)

(* A call that is over. *)
LEMMA RestIsOK == ImprovementInv => WorkOK(WorkerIdle)
<1> SUFFICES ASSUME ImprovementInv PROVE WorkOK(WorkerIdle)
  OBVIOUS
<1>1. WorkerIdle.at = "idle" /\ \A r \in Recommendations : WorkerIdle.seen[r] = Absent
  BY DEF WorkerIdle, Unread
<1>2. WorkerIdle \in WorkRows
  BY DEF WorkerIdle, WorkRows, Unread
<1> QED
  BY <1>1, <1>2 DEF WorkOK, RecOK

LEMMA RestHolds ==
  ASSUME ImprovementInv, NEW w \in Workers, Rest(w), JobsKept, CountsKept,
         UNCHANGED <<review, consents, releases>>,
         recs' \in [Recommendations -> Payloads \cup {Absent}],
         \A r \in Recommendations : recs'[r] = recs[r] \/ RecOK(r, recs[r])'
  PROVE  ImprovementInv'
<1>1. ConsentsKept
  BY DEF ConsentsKept, ImprovementInv
<1>2. WorkOK(WorkerIdle)'
  BY <1>1, RestIsOK, WorkOKKept
<1>3. work' = [work EXCEPT ![w] = WorkerIdle]
  BY DEF Rest
<1> QED
  BY <1>2, <1>3, WorkerMoves

LEMMA RecsLeft == ImprovementInv /\ recs' = recs =>
  /\ recs' \in [Recommendations -> Payloads \cup {Absent}]
  /\ \A r \in Recommendations : recs'[r] = recs[r] \/ RecOK(r, recs[r])'
BY DEF ImprovementInv

(* The job of a call, its parent and its row. *)
LEMMA BusyWorker ==
  ASSUME ImprovementInv, NEW w \in Workers, work[w].at # "idle"
  PROVE  /\ work[w] \in WorkRows /\ WorkOK(work[w]) /\ JobOf(w) \in OptimizationJobs
         /\ optJobs[JobOf(w)].status # "none" /\ ParentOf(w) = optJobs[work[w].job].parent
         /\ ParentOf(w) \in Recommendations \cup {Nil}
BY DEF ImprovementInv, WorkOK, JobOf, ParentOf, JobRows

Stays(w, l) ==
  /\ l \in {"claimed", "working", "admitted", "failing", "evaluated", "superseding", "finishing"}
  /\ l \in {"working", "admitted", "evaluated"} /\ ParentOf(w) # Nil => work[w].bundle \in Contents
  /\ l \in {"failing", "evaluated"} => ParentOf(w) # Nil

(* A call that goes on with the same job, bundle and copies. *)
LEMMA StepHolds ==
  ASSUME ImprovementInv, NEW w \in Workers, work[w].at # "idle", NEW l, Stays(w, l), Step(w, l),
         JobsKept, CountsKept, UNCHANGED <<review, consents, releases>>,
         recs' \in [Recommendations -> Payloads \cup {Absent}],
         \A r \in Recommendations : recs'[r] = recs[r] \/ RecOK(r, recs[r])'
  PROVE  ImprovementInv'
<1>0. PICK row : row = [work[w] EXCEPT !.at = l]
  OBVIOUS
<1>1. /\ row \in WorkRows /\ row.at = l /\ row.job = work[w].job /\ row.bundle = work[w].bundle
      /\ row.seen = work[w].seen
  BY <1>0, BusyWorker DEF WorkRows, Stays
<1>2. work' = [work EXCEPT ![w] = row]
  BY <1>0 DEF Step, ImprovementInv
<1>3. WorkOK(row)
  BY <1>1, BusyWorker DEF WorkOK, Stays
<1>4. ConsentsKept
  BY DEF ConsentsKept, ImprovementInv
<1>5. WorkOK(row)'
  BY <1>3, <1>4, WorkOKKept
<1> QED
  BY <1>2, <1>5, WorkerMoves

(* A call that reads recommendations. *)
LEMMA LookHolds ==
  ASSUME ImprovementInv, NEW w \in Workers, NEW S, NEW l \in {"reopening", "evaluated", "superseding"},
         work[w].at # "idle", Look(w, l, S),
         l = "evaluated" /\ ParentOf(w) # Nil => work[w].bundle \in Contents,
         l \in {"reopening", "evaluated"} => ParentOf(w) # Nil,
         l = "reopening" => ParentOf(w) \in S /\ recs[ParentOf(w)] # Absent,
         UNCHANGED <<recs, optJobs, review, consents, releases, slips, asks>>
  PROVE  ImprovementInv'
<1> DEFINE seen == [r \in Recommendations |-> IF r \in S THEN recs[r] ELSE Absent]
<1>0. PICK row : row = [work[w] EXCEPT !.at = l, !.seen = seen]
  OBVIOUS
<1>1. seen \in [Recommendations -> Payloads \cup {Absent}]
  BY DEF ImprovementInv
<1>2. \A r \in Recommendations : RecOK(r, seen[r])
  BY DEF ImprovementInv, RecOK
<1>3. l = "reopening" => seen[ParentOf(w)] # Absent
  BY BusyWorker
<1> HIDE DEF seen
<1>4. /\ row \in WorkRows /\ row.at = l /\ row.job = work[w].job /\ row.bundle = work[w].bundle
      /\ row.seen = seen
  BY <1>0, <1>1, BusyWorker DEF WorkRows
<1>5. work' = [work EXCEPT ![w] = row]
  BY <1>0 DEF Look, ImprovementInv, seen
<1>6. WorkOK(row)
  BY <1>2, <1>3, <1>4, BusyWorker DEF WorkOK
<1>7. ConsentsKept /\ JobsKept /\ CountsKept
  BY JobsLeft, CountsLeft DEF ConsentsKept, ImprovementInv
<1>8. WorkOK(row)'
  BY <1>6, <1>7, WorkOKKept
<1> QED
  BY <1>5, <1>7, <1>8, RecsLeft, WorkerMoves

LEMMA ClaimHolds ==
  ASSUME ImprovementInv, NEW w \in Workers, ClaimNextJob(w)
  PROVE  ImprovementInv'
<1>1. PICK j \in OptimizationJobs :
        /\ optJobs[j].status \in {"queued", "running"}
        /\ optJobs' = [optJobs EXCEPT ![j].status = "running", ![j].holder = w, ![j].leased = TRUE]
        /\ work' = [work EXCEPT ![w] = [WorkerIdle EXCEPT !.at = "claimed", !.job = j]]
  BY DEF ClaimNextJob
<1> DEFINE row == [WorkerIdle EXCEPT !.at = "claimed", !.job = j]
           jobRow == [optJobs[j] EXCEPT !.status = "running", !.holder = w, !.leased = TRUE]
<1>2. jobRow \in JobRows /\ jobRow.status = "running" /\ jobRow.parent = optJobs[j].parent
  BY DEF ImprovementInv, JobRows
<1>3. optJobs' = [optJobs EXCEPT ![j] = jobRow]
  BY <1>1 DEF ImprovementInv
<1> HIDE DEF jobRow
<1>4. JobsKept /\ optJobs'[j].status = "running"
  BY <1>2, <1>3 DEF ImprovementInv, JobsKept
<1>5. /\ row \in WorkRows /\ row.at = "claimed" /\ row.job = j
      /\ \A r \in Recommendations : row.seen[r] = Absent
  BY DEF WorkerIdle, WorkRows, Unread
<1> HIDE DEF row
<1>6. WorkOK(row)'
  BY <1>4, <1>5 DEF WorkOK, RecOK
<1> QED
  BY <1>1, <1>4, <1>6, CountsLeft, RecsLeft, WorkerMoves DEF ClaimNextJob, row

LEMMA PrepareBundleHolds ==
  ASSUME ImprovementInv, NEW w \in Workers, PrepareBundle(w)
  PROVE  ImprovementInv'
<1>1. JobsKept /\ CountsKept
  BY JobsLeft, CountsLeft DEF PrepareBundle
<1>2. CASE ParentOf(w) = Nil
  <2>1. Step(w, "working") /\ Stays(w, "working") /\ work[w].at # "idle"
    BY <1>2 DEF PrepareBundle, Stays
  <2> QED
    BY <1>1, <2>1, StepHolds, RecsLeft DEF PrepareBundle
<1>3. CASE ParentOf(w) # Nil
  <2>1. PICK content : content = recs[ParentOf(w)].content
    OBVIOUS
  <2>2. PICK row : row = [work[w] EXCEPT !.at = "working", !.bundle = content]
    OBVIOUS
  <2>3. work[w].at # "idle" /\ ParentOf(w) \in Recommendations /\ recs[ParentOf(w)].status = "evaluating"
    BY <1>3, BusyWorker DEF PrepareBundle
  <2>4. recs[ParentOf(w)] \in Payloads
    BY <2>3 DEF ImprovementInv, Absent
  <2>5. content \in Contents
    BY <2>1, <2>4 DEF Payloads
  <2>6. /\ row \in WorkRows /\ row.at = "working" /\ row.job = work[w].job /\ row.bundle = content
        /\ row.seen = work[w].seen
    BY <2>2, <2>3, <2>5, BusyWorker DEF WorkRows
  <2>7. work' = [work EXCEPT ![w] = row]
    BY <1>3, <2>1, <2>2 DEF PrepareBundle, ImprovementInv
  <2>8. WorkOK(row)
    BY <2>3, <2>5, <2>6, BusyWorker DEF WorkOK
  <2>9. ConsentsKept
    BY DEF ConsentsKept, ImprovementInv, PrepareBundle
  <2>10. WorkOK(row)'
    BY <1>1, <2>8, <2>9, WorkOKKept
  <2> QED
    BY <1>1, <2>7, <2>10, RecsLeft, WorkerMoves DEF PrepareBundle
<1> QED
  BY <1>2, <1>3

LEMMA RefuseBundleHolds ==
  ASSUME ImprovementInv, NEW w \in Workers, RefuseBundle(w)
  PROVE  ImprovementInv'
<1>1. JobsKept /\ CountsKept
  BY BusyWorker, FinishKeeps, CountsLeft DEF RefuseBundle
<1> QED
  BY <1>1, RestHolds, RecsLeft DEF RefuseBundle

LEMMA AdmitResultHolds ==
  ASSUME ImprovementInv, NEW w \in Workers, AdmitResult(w)
  PROVE  ImprovementInv'
<1>1. JobsKept /\ CountsKept
  BY JobsLeft, CountsLeft DEF AdmitResult
<1>2. Stays(w, "admitted") /\ work[w].at # "idle"
  BY BusyWorker DEF Stays, AdmitResult, WorkOK
<1> QED
  BY <1>1, <1>2, StepHolds, RestHolds, RecsLeft DEF AdmitResult

LEMMA FailJobHolds ==
  ASSUME ImprovementInv, NEW w \in Workers, work[w].at # "idle", FailJob(w),
         UNCHANGED <<recs, review, consents, releases, slips, asks>>
  PROVE  ImprovementInv'
<1>1. JobsKept /\ CountsKept
  BY BusyWorker, FinishKeeps, CountsLeft DEF FailJob
<1>2. ParentOf(w) # Nil => Stays(w, "failing")
  BY DEF Stays
<1> QED
  BY <1>1, <1>2, StepHolds, RestHolds, RecsLeft DEF FailJob

LEMMA ReadFailedParentHolds ==
  ASSUME ImprovementInv, NEW w \in Workers, ReadFailedParent(w)
  PROVE  ImprovementInv'
<1>1. work[w].at # "idle" /\ ParentOf(w) # Nil
  BY BusyWorker DEF ReadFailedParent, WorkOK
<1>2. CASE recs[ParentOf(w)].status = "evaluating"
  <2>1. recs[ParentOf(w)] # Absent
    BY <1>2 DEF Absent
  <2> QED
    BY <1>1, <1>2, <2>1, LookHolds DEF ReadFailedParent
<1>3. CASE recs[ParentOf(w)].status # "evaluating"
  BY <1>3, JobsLeft, CountsLeft, RestHolds, RecsLeft DEF ReadFailedParent
<1> QED
  BY <1>2, <1>3

(* A payload that is written: what was left stays, and the new one is sound. *)
LEMMA Written ==
  ASSUME ImprovementInv, NEW r \in Recommendations, NEW p, RecOK(r, p)',
         recs' = [recs EXCEPT ![r] = p]
  PROVE  /\ recs' \in [Recommendations -> Payloads \cup {Absent}]
         /\ \A q \in Recommendations : recs'[q] = recs[q] \/ RecOK(q, recs[q])'
<1>1. p \in Payloads \cup {Absent}
  BY DEF RecOK
<1>2. recs'[r] = p /\ \A q \in Recommendations : q # r => recs'[q] = recs[q]
  BY DEF ImprovementInv
<1>3. RecOK(r, recs[r])'
  BY <1>2
<1> QED
  BY <1>1, <1>2, <1>3 DEF ImprovementInv

(* A copy whose status is changed to one that claims nothing. *)
LEMMA Restated ==
  ASSUME NEW r \in Recommendations, NEW p, RecOK(r, p), p # Absent,
         NEW status \in {"evaluating", "ready-for-review", "rejected", "superseded"}
  PROVE  RecOK(r, [p EXCEPT !.status = status]) /\ [p EXCEPT !.status = status] # Absent
<1> DEFINE q == [p EXCEPT !.status = status]
<1>1. p \in Payloads
  BY DEF RecOK
<1>2. q \in Payloads /\ q.status = status /\ q.content = p.content /\ q.approvals = p.approvals
  BY <1>1 DEF Payloads, OpenStatuses, Closed
<1>3. q # Absent
  BY <1>2, AbsentApart
<1> HIDE DEF q
<1> QED
  BY <1>2, <1>3 DEF RecOK, Sound, Gated, Consented, q

LEMMA ReopenParentHolds ==
  ASSUME ImprovementInv, NEW w \in Workers, ReopenParent(w)
  PROVE  ImprovementInv'
<1>1. JobsKept /\ CountsKept /\ ConsentsKept
  BY JobsLeft, CountsLeft DEF ReopenParent, ConsentsKept, ImprovementInv
<1>2. work[w].at = "reopening" /\ ParentOf(w) \in Recommendations
  BY BusyWorker DEF ReopenParent, WorkOK
<1>3. RecOK(ParentOf(w), work[w].seen[ParentOf(w)]) /\ work[w].seen[ParentOf(w)] # Absent
  BY <1>2, BusyWorker DEF WorkOK
<1>4. PICK p : p = [work[w].seen[ParentOf(w)] EXCEPT !.status = "ready-for-review"]
  OBVIOUS
<1>5. PICK r \in Recommendations : r = ParentOf(w)
  BY <1>2
<1>6. RecOK(r, p)
  BY <1>3, <1>4, <1>5, Restated
<1>7. RecOK(r, p)'
  BY <1>1, <1>6, RecOKKept
<1>8. recs' = [recs EXCEPT ![r] = p]
  BY <1>4, <1>5 DEF ReopenParent
<1> QED
  BY <1>1, <1>7, <1>8, Written, RestHolds DEF ReopenParent

LEMMA NoImprovementHolds ==
  ASSUME ImprovementInv, NEW w \in Workers, NoImprovement(w)
  PROVE  ImprovementInv'
<1>1. JobsKept /\ CountsKept
  BY BusyWorker, FinishKeeps, CountsLeft DEF NoImprovement
<1> QED
  BY <1>1, RestHolds, RecsLeft DEF NoImprovement

LEMMA ReadParentHolds ==
  ASSUME ImprovementInv, NEW w \in Workers, ReadParent(w)
  PROVE  ImprovementInv'
<1>1. work[w].at # "idle" /\ work[w].bundle \in Contents
  BY BusyWorker DEF ReadParent, WorkOK
<1> QED
  BY <1>1, LookHolds DEF ReadParent

LEMMA ListOpenHolds ==
  ASSUME ImprovementInv, NEW w \in Workers, ListOpen(w)
  PROVE  ImprovementInv'
<1>1. PICK S : S = {r \in Recommendations : recs[r].status \in OpenStatuses}
  OBVIOUS
<1> QED
  BY <1>1, LookHolds DEF ListOpen

LEMMA SaveReevaluationHolds ==
  ASSUME ImprovementInv, NEW w \in Workers, SaveReevaluation(w)
  PROVE  ImprovementInv'
<1>1. JobsKept /\ CountsKept /\ ConsentsKept
  BY JobsLeft, CountsLeft DEF SaveReevaluation, ConsentsKept, ImprovementInv
<1>2. /\ work[w].at = "evaluated" /\ ParentOf(w) \in Recommendations /\ ParentOf(w) # Nil
      /\ work[w].bundle \in Contents /\ work[w].seen[ParentOf(w)].status = "evaluating"
  BY BusyWorker DEF SaveReevaluation, WorkOK
<1>3. PICK old : old = work[w].seen[ParentOf(w)]
  OBVIOUS
<1>4. RecOK(ParentOf(w), old) /\ old \in Payloads
  <2>1. RecOK(ParentOf(w), old) /\ old # Absent
    BY <1>2, <1>3, BusyWorker DEF WorkOK, Absent
  <2> QED
    BY <2>1 DEF RecOK
<1>5. PICK passed \in BOOLEAN :
        recs' = [recs EXCEPT ![ParentOf(w)] = Validate(old, work[w].bundle, passed)]
  BY <1>3 DEF SaveReevaluation
<1>6. PICK p : p = Validate(old, work[w].bundle, passed)
  OBVIOUS
<1>7. p \in Payloads /\ p.status = "ready-for-review" /\ p.content = old.content /\ p.approvals = old.approvals
  BY <1>2, <1>4, <1>6 DEF Validate, Payloads, OpenStatuses, Closed
<1>8. PICK r \in Recommendations : r = ParentOf(w)
  BY <1>2
<1>9. RecOK(r, p)
  BY <1>4, <1>7, <1>8, AbsentApart DEF RecOK, Sound, Gated, Consented
<1>10. RecOK(r, p)'
  BY <1>1, <1>9, RecOKKept
<1>11. Stays(w, "finishing")
  BY DEF Stays
<1>12. recs' = [recs EXCEPT ![r] = p]
  BY <1>5, <1>6, <1>8
<1>13. /\ recs' \in [Recommendations -> Payloads \cup {Absent}]
       /\ \A q \in Recommendations : recs'[q] = recs[q] \/ RecOK(q, recs[q])'
  BY <1>10, <1>12, Written
<1> QED
  BY <1>1, <1>2, <1>11, <1>13, StepHolds DEF SaveReevaluation

LEMMA SupersedeHolds ==
  ASSUME ImprovementInv, NEW w \in Workers, Supersede(w)
  PROVE  ImprovementInv'
<1>1. JobsKept /\ CountsKept /\ ConsentsKept
  BY JobsLeft, CountsLeft DEF Supersede, ConsentsKept, ImprovementInv
<1>2. PICK r \in Recommendations :
        /\ work[w].seen[r] # Absent
        /\ recs' = [recs EXCEPT ![r] = [work[w].seen[r] EXCEPT !.status = "superseded"]]
        /\ work' = [work EXCEPT ![w].seen[r] = Absent]
  BY DEF Supersede
<1>3. PICK p : p = [work[w].seen[r] EXCEPT !.status = "superseded"]
  OBVIOUS
<1>4. PICK row : row = [work[w] EXCEPT !.seen[r] = Absent]
  OBVIOUS
<1>5. work[w].at = "superseding" /\ work[w] \in WorkRows /\ WorkOK(work[w])
  BY BusyWorker DEF Supersede
<1>6. RecOK(r, p)
  BY <1>2, <1>3, <1>5, Restated DEF WorkOK
<1>7. RecOK(r, p)' /\ recs' = [recs EXCEPT ![r] = p]
  BY <1>1, <1>2, <1>3, <1>6, RecOKKept
<1>8. /\ row \in WorkRows /\ row.at = "superseding" /\ row.job = work[w].job
      /\ \A q \in Recommendations : row.seen[q] = IF q = r THEN Absent ELSE work[w].seen[q]
  BY <1>4, <1>5 DEF WorkRows
<1>9. work' = [work EXCEPT ![w] = row]
  BY <1>2, <1>4 DEF ImprovementInv
<1>10. \A q \in Recommendations : RecOK(q, row.seen[q])
  BY <1>5, <1>8 DEF WorkOK, RecOK
<1>11. WorkOK(row)
  BY <1>5, <1>8, <1>10 DEF WorkOK
<1>12. WorkOK(row)'
  BY <1>1, <1>11, WorkOKKept
<1>13. /\ recs' \in [Recommendations -> Payloads \cup {Absent}]
       /\ \A q \in Recommendations : recs'[q] = recs[q] \/ RecOK(q, recs[q])'
  BY <1>7, Written
<1> QED
  BY <1>1, <1>9, <1>12, <1>13, WorkerMoves DEF Supersede

LEMMA InsertRecommendationHolds ==
  ASSUME ImprovementInv, NEW w \in Workers, InsertRecommendation(w)
  PROVE  ImprovementInv'
<1>1. JobsKept /\ CountsKept /\ ConsentsKept
  BY JobsLeft, CountsLeft DEF InsertRecommendation, ConsentsKept, ImprovementInv
<1>2. PICK r \in Recommendations, content \in Contents, passed \in BOOLEAN :
        recs' = [recs EXCEPT ![r] = NewRecommendation(content, passed)]
  BY DEF InsertRecommendation
<1>3. PICK p : p = NewRecommendation(content, passed)
  OBVIOUS
<1>4. p \in Payloads /\ p.status = "ready-for-review" /\ p.approvals = {}
  BY <1>3 DEF NewRecommendation, Payloads, OpenStatuses, Closed
<1>5. RecOK(r, p)
  BY <1>4 DEF RecOK, Sound, Gated, Consented
<1>6. RecOK(r, p)' /\ recs' = [recs EXCEPT ![r] = p]
  BY <1>1, <1>2, <1>3, <1>5, RecOKKept
<1>7. /\ recs' \in [Recommendations -> Payloads \cup {Absent}]
      /\ \A q \in Recommendations : recs'[q] = recs[q] \/ RecOK(q, recs[q])'
  BY <1>6, Written
<1>8. Stays(w, "finishing") /\ work[w].at # "idle"
  BY DEF Stays, InsertRecommendation
<1> QED
  BY <1>1, <1>7, <1>8, StepHolds DEF InsertRecommendation

LEMMA FinishResultHolds ==
  ASSUME ImprovementInv, NEW w \in Workers, FinishResult(w)
  PROVE  ImprovementInv'
<1>1. JobsKept /\ CountsKept
  BY BusyWorker, FinishKeeps, CountsLeft DEF FinishResult
<1> QED
  BY <1>1, RestHolds, RecsLeft DEF FinishResult

LEMMA WorkerCallDiesHolds ==
  ASSUME ImprovementInv, NEW w \in Workers, WorkerCallDies(w)
  PROVE  ImprovementInv'
BY JobsLeft, OneMore, RestHolds, RecsLeft DEF WorkerCallDies

-----------------------------------------------------------------------------
(* Reviewers. *)

(* The call that is over. *)
LEMMA CallRests ==
  ASSUME ImprovementInv, NEW v \in Reviewers, JobsKept, CountsKept,
         UNCHANGED <<recs, work, consents, releases>>,
         review' = [review EXCEPT ![v] = ReviewerIdle]
  PROVE  ImprovementInv'
<1>1. ConsentsKept
  BY DEF ConsentsKept, ImprovementInv
<1>2. CallOK(v, ReviewerIdle)'
  BY DEF CallOK, CallRows, ReviewerIdle
<1>3. releases' \subseteq ReleaseRows /\ ReleasedWasApproved'
  BY <1>1, ReleasesKept DEF ImprovementInv
<1> QED
  BY <1>1, <1>2, <1>3, RecsLeft, ReviewerMoves

(* A decision made on the copy that was read. *)
LEMMA DecidedHolds ==
  ASSUME ImprovementInv, NEW v \in Reviewers, NEW r \in Recommendations, NEW at, NEW p \in Payloads,
         at \in {"rejecting", "returning", "approving", "requeueing", "staging"},
         Gated(p), Consented(r, p, IF at = "approving" THEN {v} ELSE {}),
         at = "staging" => p.status = "approved",
         Decided(v, r, at, p), UNCHANGED <<recs, optJobs, work, consents, releases, slips>>
  PROVE  ImprovementInv'
<1>1. JobsKept /\ CountsKept /\ ConsentsKept
  BY JobsLeft, OneMore DEF Decided, ConsentsKept, ImprovementInv
<1>2. PICK call : call = [at |-> at, rec |-> r, saved |-> p]
  OBVIOUS
<1>3. CallOK(v, call)
  BY <1>2 DEF CallOK, CallRows
<1>4. CallOK(v, call)'
  BY <1>1, <1>3, CallOKKept
<1>5. releases' \subseteq ReleaseRows /\ ReleasedWasApproved'
  BY <1>1, ReleasesKept DEF ImprovementInv
<1> QED
  BY <1>1, <1>2, <1>4, <1>5, RecsLeft, ReviewerMoves DEF Decided

(* A row that can be decided about is there and sound. *)
LEMMA RowRead ==
  ASSUME ImprovementInv, NEW r \in Recommendations, recs[r].status # "none"
  PROVE  recs[r] \in Payloads /\ RecOK(r, recs[r]) /\ Sound(r, recs[r]) /\ recs[r] # Absent
BY AbsentApart DEF ImprovementInv, RecOK, Absent

LEMMA RestatedDecision ==
  ASSUME ImprovementInv, NEW v \in Reviewers, NEW r \in Recommendations,
         NEW status \in {"evaluating", "rejected"}, NEW at \in {"rejecting", "returning"},
         recs[r].status # "none", Decided(v, r, at, [recs[r] EXCEPT !.status = status]),
         UNCHANGED <<recs, optJobs, work, consents, releases, slips>>
  PROVE  ImprovementInv'
<1>1. PICK p : p = [recs[r] EXCEPT !.status = status]
  OBVIOUS
<1>2. RecOK(r, p) /\ p # Absent
  BY <1>1, RowRead, Restated
<1>3. p \in Payloads /\ Gated(p) /\ Consented(r, p, {})
  BY <1>2 DEF RecOK, Sound
<1> QED
  BY <1>1, <1>3, DecidedHolds

LEMMA RejectHolds ==
  ASSUME ImprovementInv, NEW v \in Reviewers, NEW r \in Recommendations, Reject(v, r)
  PROVE  ImprovementInv'
BY RestatedDecision DEF Reject, Reviewable, OpenStatuses

LEMMA RequestMoreTestingHolds ==
  ASSUME ImprovementInv, NEW v \in Reviewers, NEW r \in Recommendations, RequestMoreTesting(v, r)
  PROVE  ImprovementInv'
BY RestatedDecision DEF RequestMoreTesting, Reviewable, OpenStatuses

LEMMA ModifyHolds ==
  ASSUME ImprovementInv, NEW v \in Reviewers, NEW r \in Recommendations, Modify(v, r)
  PROVE  ImprovementInv'
<1>1. PICK content \in Contents : Decided(v, r, "returning", Modified(recs[r], content))
  BY DEF Modify
<1>2. recs[r] \in Payloads
  BY RowRead DEF Modify, Reviewable, OpenStatuses
<1>3. PICK p : p = Modified(recs[r], content)
  OBVIOUS
<1>4. p \in Payloads /\ p.status = "evaluating" /\ p.approvals = {}
  BY <1>2, <1>3 DEF Modified, Payloads, OpenStatuses, Closed
<1>5. Gated(p) /\ Consented(r, p, {})
  BY <1>4 DEF Gated, Consented
<1> QED
  BY <1>1, <1>3, <1>4, <1>5, DecidedHolds DEF Modify

LEMMA ApproveHolds ==
  ASSUME ImprovementInv, NEW v \in Reviewers, NEW r \in Recommendations, Approve(v, r)
  PROVE  ImprovementInv'
<1>1. /\ Decided(v, r, "approving", Approved(v, recs[r])) /\ Approvable(v, recs[r])
      /\ recs[r].status # "none"
  BY DEF Approve, Reviewable, OpenStatuses
<1>2. recs[r] \in Payloads /\ Consented(r, recs[r], {})
  BY <1>1, RowRead DEF Sound
<1>3. PICK p : p = Approved(v, recs[r])
  OBVIOUS
<1>4. /\ p \in Payloads /\ p.content = recs[r].content /\ p.approvals = recs[r].approvals \cup {v}
      /\ p.validated = recs[r].validated /\ p.passed = recs[r].passed /\ p.requires = recs[r].requires
      /\ p.status = IF Cardinality(p.approvals) >= RequiredApprovals THEN "approved" ELSE "ready-for-review"
  BY <1>2, <1>3 DEF Approved, Payloads, OpenStatuses, Closed
<1>5. Gated(p)
  BY <1>1, <1>4 DEF Gated, Approvable
<1>6. Consented(r, p, {v})
  BY <1>2, <1>4 DEF Consented
<1> QED
  BY <1>1, <1>3, <1>4, <1>5, <1>6, DecidedHolds DEF Approve

LEMMA RequestReevaluationHolds ==
  ASSUME ImprovementInv, NEW v \in Reviewers, NEW r \in Recommendations, RequestReevaluation(v, r)
  PROVE  ImprovementInv'
<1>1. recs[r] \in Payloads /\ Gated(recs[r]) /\ Consented(r, recs[r], {})
  BY RowRead DEF RequestReevaluation, Sound
<1> QED
  BY <1>1, DecidedHolds DEF RequestReevaluation

LEMMA RequestStagingHolds ==
  ASSUME ImprovementInv, NEW v \in Reviewers, NEW r \in Recommendations, RequestStaging(v, r)
  PROVE  ImprovementInv'
<1>1. recs[r] \in Payloads /\ Gated(recs[r]) /\ Consented(r, recs[r], {}) /\ recs[r].status = "approved"
  BY RowRead DEF RequestStaging, Sound
<1> QED
  BY <1>1, DecidedHolds DEF RequestStaging

(* What is known of a reviewer's call under way. *)
LEMMA BusyReviewer ==
  ASSUME ImprovementInv, NEW v \in Reviewers, review[v].at # "idle"
  PROVE  /\ review[v] \in CallRows /\ CallOK(v, review[v])
         /\ review[v].rec \in Recommendations /\ review[v].saved \in Payloads /\ Gated(review[v].saved)
         /\ Consented(review[v].rec, review[v].saved, IF review[v].at = "approving" THEN {v} ELSE {})
BY DEF ImprovementInv, CallOK

LEMMA SaveReviewHolds ==
  ASSUME ImprovementInv, NEW v \in Reviewers, SaveReview(v)
  PROVE  ImprovementInv'
<1>1. PICK call : call = review[v]
  OBVIOUS
<1>2. /\ call.at \in {"rejecting", "returning", "approving"}
      /\ recs' = [recs EXCEPT ![call.rec] = call.saved]
      /\ UNCHANGED <<optJobs, work, releases, slips, asks>>
      /\ consents' = IF call.at = "approving"
                       THEN consents \cup {<<v, call.rec, call.saved.content>>} ELSE consents
  BY <1>1 DEF SaveReview
<1>3. PICK next : next = AfterSaving(call.at, call.saved.status)
  OBVIOUS
<1>4. review' = [review EXCEPT ![v] = IF next = "idle" THEN ReviewerIdle ELSE [call EXCEPT !.at = next]]
  BY <1>1, <1>3 DEF SaveReview
<1>5. next \in {"idle", "requeueing", "staging"} /\ (next = "staging" => call.saved.status = "approved")
  BY <1>2, <1>3 DEF AfterSaving
<1>6. /\ call \in CallRows /\ call.rec \in Recommendations /\ call.saved \in Payloads
      /\ Gated(call.saved)
      /\ Consented(call.rec, call.saved, IF call.at = "approving" THEN {v} ELSE {})
  BY <1>1, <1>2, BusyReviewer
<1>7. call.saved.content \in Contents
  BY <1>6 DEF Payloads
<1>8. JobsKept /\ CountsKept
  BY <1>2, JobsLeft, CountsLeft
<1>9. ConsentsKept
  BY <1>2, <1>6, <1>7 DEF ConsentsKept, ImprovementInv
<1>10. Consented(call.rec, call.saved, {})'
  BY <1>2, <1>6 DEF Consented
<1>11. RecOK(call.rec, call.saved)'
  BY <1>6, <1>10 DEF RecOK, Sound, Gated
<1>12. PICK row : row = IF next = "idle" THEN ReviewerIdle ELSE [call EXCEPT !.at = next]
  OBVIOUS
<1>13. CallOK(v, row)'
  <2>1. CASE next = "idle"
    BY <1>12, <2>1 DEF CallOK, CallRows, ReviewerIdle
  <2>2. CASE next # "idle"
    <3>1. row \in CallRows /\ row.at = next /\ row.rec = call.rec /\ row.saved = call.saved
      BY <1>5, <1>6, <1>12, <2>2 DEF CallRows
    <3> QED
      BY <1>5, <1>6, <1>10, <2>2, <3>1 DEF CallOK, Gated
  <2> QED
    BY <2>1, <2>2
<1>14. releases' \subseteq ReleaseRows /\ ReleasedWasApproved'
  BY <1>2, <1>9, ReleasesKept DEF ImprovementInv
<1>15. /\ recs' \in [Recommendations -> Payloads \cup {Absent}]
       /\ \A q \in Recommendations : recs'[q] = recs[q] \/ RecOK(q, recs[q])'
  BY <1>2, <1>6, <1>11, Written
<1>16. review' = [review EXCEPT ![v] = row] /\ work' = work
  BY <1>2, <1>4, <1>12
<1> QED
  BY <1>8, <1>9, <1>13, <1>14, <1>15, <1>16, ReviewerMoves

LEMMA RequeueHolds ==
  ASSUME ImprovementInv, NEW v \in Reviewers, Requeue(v)
  PROVE  ImprovementInv'
<1>1. review[v].rec \in Recommendations \cup {Nil}
  BY BusyReviewer DEF Requeue
<1>2. JobsKept /\ CountsKept
  BY <1>1, EnqueueKeeps, JobsLeft, CountsLeft DEF Requeue
<1> QED
  BY <1>2, CallRests DEF Requeue

LEMMA StageCandidateHolds ==
  ASSUME ImprovementInv, NEW v \in Reviewers, StageCandidate(v)
  PROVE  ImprovementInv'
<1>1. JobsKept /\ CountsKept /\ ConsentsKept
  BY JobsLeft, CountsLeft DEF StageCandidate, ConsentsKept, ImprovementInv
<1>2. PICK call : call = review[v]
  OBVIOUS
<1>3. /\ call.at = "staging" /\ call \in CallRows /\ call.rec \in Recommendations
      /\ call.saved \in Payloads /\ Gated(call.saved) /\ Consented(call.rec, call.saved, {})
      /\ call.saved.status = "approved"
  BY <1>2, BusyReviewer DEF StageCandidate, CallOK
<1>4. PICK row : row = [call EXCEPT !.at = "recording", !.saved.released = TRUE]
  OBVIOUS
<1>5. /\ row \in CallRows /\ row.at = "recording" /\ row.rec = call.rec /\ row.saved \in Payloads
      /\ row.saved = [call.saved EXCEPT !.released = TRUE]
  <2>1. [call.saved EXCEPT !.released = TRUE] \in Payloads
    BY <1>3 DEF Payloads
  <2>2. row = [call EXCEPT !.at = "recording", !.saved = [call.saved EXCEPT !.released = TRUE]]
    BY <1>3, <1>4 DEF CallRows
  <2> QED
    BY <1>3, <2>1, <2>2 DEF CallRows
<1>6. /\ row.saved.status = "approved" /\ row.saved.content = call.saved.content
      /\ row.saved.approvals = call.saved.approvals /\ Gated(row.saved)
  <2>1. call.saved \in Payloads
    BY <1>3
  <2> QED
    BY <1>3, <1>5, <2>1 DEF Payloads, Gated
<1>7. CallOK(v, row)
  BY <1>3, <1>5, <1>6 DEF CallOK, Consented
<1>8. CallOK(v, row)'
  BY <1>1, <1>7, CallOKKept
<1>9. PICK release : release = ReleaseOf(call.rec, call.saved)
  OBVIOUS
<1>10. /\ release \in ReleaseRows /\ release.rec = call.rec /\ release.content = call.saved.content
       /\ release.approvals = call.saved.approvals
  BY <1>3, <1>9 DEF ReleaseOf, ReleaseRows, Payloads
<1>11. /\ releases' = releases \cup {release} /\ consents' = consents
       /\ review' = [review EXCEPT ![v] = row] /\ work' = work /\ recs' = recs
  BY <1>2, <1>4, <1>9 DEF StageCandidate, ImprovementInv
<1>12. releases' \subseteq ReleaseRows
  BY <1>10, <1>11 DEF ImprovementInv
<1>13. /\ Cardinality(release.approvals) >= RequiredApprovals
       /\ \A u \in release.approvals : <<u, release.rec, release.content>> \in consents
  BY <1>3, <1>10 DEF Gated, Consented
<1>14. ReleasedWasApproved'
  BY <1>11, <1>13 DEF ImprovementInv, ReleasedWasApproved
<1> QED
  BY <1>1, <1>8, <1>11, <1>12, <1>14, RecsLeft, ReviewerMoves

LEMMA StagingPendingHolds ==
  ASSUME ImprovementInv, NEW v \in Reviewers, StagingPending(v)
  PROVE  ImprovementInv'
BY JobsLeft, CountsLeft, CallRests DEF StagingPending

LEMMA RecordReleaseHolds ==
  ASSUME ImprovementInv, NEW v \in Reviewers, RecordRelease(v)
  PROVE  ImprovementInv'
<1>1. JobsKept /\ CountsKept /\ ConsentsKept
  BY JobsLeft, CountsLeft DEF RecordRelease, ConsentsKept, ImprovementInv
<1>2. PICK p : p = review[v].saved
  OBVIOUS
<1>3. PICK r : r = review[v].rec
  OBVIOUS
<1>4. r \in Recommendations /\ p \in Payloads /\ Gated(p) /\ Consented(r, p, {})
  BY <1>2, <1>3, BusyReviewer DEF RecordRelease
<1>5. RecOK(r, p)
  BY <1>4 DEF RecOK, Sound
<1>6. RecOK(r, p)' /\ recs' = [recs EXCEPT ![r] = p]
  BY <1>1, <1>2, <1>3, <1>5, RecOKKept DEF RecordRelease
<1>7. /\ recs' \in [Recommendations -> Payloads \cup {Absent}]
      /\ \A q \in Recommendations : recs'[q] = recs[q] \/ RecOK(q, recs[q])'
  BY <1>4, <1>6, Written
<1>8. CallOK(v, ReviewerIdle)'
  BY DEF CallOK, CallRows, ReviewerIdle
<1>9. releases' \subseteq ReleaseRows /\ ReleasedWasApproved'
  BY <1>1, ReleasesKept DEF ImprovementInv, RecordRelease
<1> QED
  BY <1>1, <1>7, <1>8, <1>9, ReviewerMoves DEF RecordRelease

LEMMA ReviewCallDiesHolds ==
  ASSUME ImprovementInv, NEW v \in Reviewers, ReviewCallDies(v)
  PROVE  ImprovementInv'
BY JobsLeft, OneMore, CallRests DEF ReviewCallDies

-----------------------------------------------------------------------------
LEMMA ImprovementStarts == ImprovementInit => ImprovementInv
<1> SUFFICES ASSUME ImprovementInit PROVE ImprovementInv
  OBVIOUS
<1>1. recs \in [Recommendations -> Payloads \cup {Absent}] /\ \A r \in Recommendations : recs[r] = Absent
  BY DEF ImprovementInit, Unread
<1>2. optJobs \in [OptimizationJobs -> JobRows]
  BY DEF ImprovementInit, NoJob, JobRows
<1>3. WorkerIdle \in WorkRows /\ WorkOK(WorkerIdle)
  <2>1. WorkerIdle \in WorkRows /\ WorkerIdle.at = "idle" /\ \A r \in Recommendations : WorkerIdle.seen[r] = Absent
    BY DEF WorkerIdle, WorkRows, Unread
  <2> QED
    BY <2>1 DEF WorkOK, RecOK
<1>4. \A v \in Reviewers : ReviewerIdle \in CallRows /\ CallOK(v, ReviewerIdle)
  BY DEF CallOK, CallRows, ReviewerIdle
<1>5. work \in [Workers -> WorkRows] /\ \A w \in Workers : WorkOK(work[w])
  BY <1>3 DEF ImprovementInit
<1>6. review \in [Reviewers -> CallRows] /\ \A v \in Reviewers : CallOK(v, review[v])
  BY <1>4 DEF ImprovementInit
<1>7. \A r \in Recommendations : RecOK(r, recs[r])
  BY <1>1 DEF RecOK
<1>8. slips \in 0..MaxSlips /\ asks \in 0..MaxAsks
  BY ImprovementAssumption DEF ImprovementInit
<1> QED
  BY <1>1, <1>2, <1>5, <1>6, <1>7, <1>8 DEF ImprovementInit, ImprovementInv, ReleasedWasApproved

LEMMA WorkerStepHolds ==
  ASSUME ImprovementInv, NEW w \in Workers, WorkerStep(w)
  PROVE  ImprovementInv'
<1>1. CASE ResultFails(w) \/ ParentMovedOn(w)
  BY <1>1, FailJobHolds DEF ResultFails, ParentMovedOn
<1> QED
  BY <1>1, PrepareBundleHolds, RefuseBundleHolds, AdmitResultHolds, ReadFailedParentHolds,
     ReopenParentHolds, NoImprovementHolds, ReadParentHolds, SaveReevaluationHolds, ListOpenHolds,
     SupersedeHolds, InsertRecommendationHolds, FinishResultHolds DEF WorkerStep

LEMMA ReviewerStepHolds ==
  ASSUME ImprovementInv, NEW v \in Reviewers,
         ReviewerStep(v) \/ \E r \in Recommendations : ReviewerAsks(v, r)
  PROVE  ImprovementInv'
<1>1. CASE ReviewerStep(v)
  BY <1>1, SaveReviewHolds, RequeueHolds, StageCandidateHolds, StagingPendingHolds,
     RecordReleaseHolds DEF ReviewerStep
<1>2. ASSUME NEW r \in Recommendations, ReviewerAsks(v, r) PROVE ImprovementInv'
  BY <1>2, RejectHolds, RequestMoreTestingHolds, ModifyHolds, ApproveHolds,
     RequestReevaluationHolds, RequestStagingHolds DEF ReviewerAsks
<1> QED
  BY <1>1, <1>2

LEMMA ImprovementSteps == ImprovementInv /\ [ImprovementNext]_improvementVars => ImprovementInv'
<1> SUFFICES ASSUME ImprovementInv, [ImprovementNext]_improvementVars PROVE ImprovementInv'
  OBVIOUS
<1>1. CASE UNCHANGED improvementVars
  BY <1>1, JobsLeft, CountsLeft, OthersMove DEF improvementVars
<1>2. CASE RequestOptimization
  BY <1>2, RequestOptimizationHolds
<1>3. ASSUME NEW w \in Workers, ClaimNextJob(w) \/ WorkerStep(w) \/ WorkerCallDies(w)
      PROVE  ImprovementInv'
  BY <1>3, ClaimHolds, WorkerStepHolds, WorkerCallDiesHolds
<1>4. ASSUME NEW j \in OptimizationJobs, LeaseRunsOut(j) PROVE ImprovementInv'
  BY <1>4, LeaseRunsOutHolds
<1>5. ASSUME NEW v \in Reviewers,
             ReviewerStep(v) \/ ReviewCallDies(v) \/ \E r \in Recommendations : ReviewerAsks(v, r)
      PROVE  ImprovementInv'
  BY <1>5, ReviewerStepHolds, ReviewCallDiesHolds
<1> QED
  BY <1>1, <1>2, <1>3, <1>4, <1>5 DEF ImprovementNext

LEMMA ImprovementAlways == ImprovementSpec => []ImprovementInv
BY ImprovementStarts, ImprovementSteps, PTL DEF ImprovementSpec

(* Every row, copy and call keeps its shape, whatever order people and      *)
(* workers read and write in (postgres-store.ts, service.ts).              *)
THEOREM ImprovementTyped == ImprovementSpec => []ImprovementTypeOK
<1>1. ImprovementInv => ImprovementTypeOK
  BY DEF ImprovementInv, ImprovementTypeOK, WorkRows, CallRows, ReleaseRows
<1> QED
  BY <1>1, ImprovementAlways, PTL

(* An approved recommendation carries enough approvals, each given for the   *)
(* content it has, and the gate's verdict on that content, though updates   *)
(* replace whole rows from stale copies (recommendation-workflow.ts 270-322,*)
(* postgres-store.ts 506-518).                                             *)
THEOREM ApprovalsSound == ImprovementSpec => []ApprovedIsValidated
<1>1. ImprovementInv => ApprovedIsValidated
  <2> SUFFICES ASSUME ImprovementInv, NEW r \in Recommendations, recs[r].status = "approved"
               PROVE  /\ recs[r].validated = recs[r].content
                      /\ recs[r].passed /\ ~recs[r].requires
                      /\ Cardinality(recs[r].approvals) >= RequiredApprovals
                      /\ \A v \in recs[r].approvals : <<v, r, recs[r].content>> \in consents
    BY DEF ApprovedIsValidated
  <2> QED
    BY RowRead DEF Sound, Gated, Consented
<1> QED
  BY <1>1, ImprovementAlways, PTL

(* Every release request opened was for content that enough different        *)
(* people had approved (service.ts 953-1017).                              *)
THEOREM ReleasesApproved == ImprovementSpec => []ReleasedWasApproved
<1>1. ImprovementInv => ReleasedWasApproved
  BY DEF ImprovementInv
<1> QED
  BY <1>1, ImprovementAlways, PTL

-----------------------------------------------------------------------------
(***************************************************************************)
(* Encrypted definitions, for any number of definitions, approvals and     *)
(* executions: the type, that every stored ciphertext opens, and that an   *)
(* approval is carried out once.                                           *)
(***************************************************************************)
Places == {"idle", "reserved", "started", "completing", "uncertain"}
Execs  == [at : Places, approval : Approvals \cup {NoApproval}]

(* A live row still has room for the revision that archives it. *)
RoomToArchive ==
  \A d \in BenchDefinitions :
    /\ definition[d].state = "live" => definition[d].revision \in 1 .. MaxRevision - 1
    /\ definition[d].state = "archived" => definition[d].revision \in 1 .. MaxRevision

(* What an operation's status says of its batch, and what the place of an    *)
(* execution says of its operation.                                         *)
OperationsAgree ==
  /\ \A a \in Approvals :
       /\ rewraps[a] <= 1
       /\ operation[a] \in {"none", "admitted"} => rewraps[a] = 0
       /\ operation[a] = "completed" => rewraps[a] = 1
  /\ \A a, b \in Unfinished : a = b

ExecutionsAgree ==
  /\ \A e \in Executors :
       LET a == executor[e].approval IN
       /\ executor[e].at # "idle" => a \in Approvals
       /\ executor[e].at = "reserved" => operation[a] = "admitted"
       /\ executor[e].at = "started" => operation[a] = "running" /\ rewraps[a] = 0
       /\ executor[e].at = "completing" => operation[a] = "running" /\ rewraps[a] = 1
       /\ executor[e].at = "uncertain" => operation[a] \in {"running", "completed"}
  /\ \A e, f \in Executors :
       executor[e].at # "idle" /\ executor[f].at # "idle"
         /\ executor[e].approval = executor[f].approval => e = f

EditInv == MaintenanceTypeOK /\ RoomToArchive /\ DefinitionsReadable
RunsInv == OperationsAgree /\ ExecutionsAgree

-----------------------------------------------------------------------------
(* Definitions. *)

(* Writing one row of the table, and what it was meant to hold. *)
LEMMA RowWritten ==
  ASSUME EditInv, NEW d \in BenchDefinitions, NEW row \in DefinitionRows, NEW content \in Revisions,
         definition' = [definition EXCEPT ![d] = row], written' = [written EXCEPT ![d] = content],
         row.state # "none" => row.sealed = SealedRevision(row) /\ row.cases = content,
         row.state = "live" => row.revision \in 1 .. MaxRevision - 1,
         row.state = "archived" => row.revision \in 1 .. MaxRevision
  PROVE  /\ definition' \in [BenchDefinitions -> DefinitionRows]
         /\ written' \in [BenchDefinitions -> Revisions]
         /\ RoomToArchive' /\ DefinitionsReadable'
BY DEF EditInv, MaintenanceTypeOK, RoomToArchive, DefinitionsReadable, Opens, SealedRevision

LEMMA DefinitionsLeft ==
  ASSUME EditInv, UNCHANGED <<definition, written>>
  PROVE  /\ definition' \in [BenchDefinitions -> DefinitionRows]
         /\ written' \in [BenchDefinitions -> Revisions]
         /\ RoomToArchive' /\ DefinitionsReadable'
BY DEF EditInv, MaintenanceTypeOK, RoomToArchive, DefinitionsReadable, Opens, SealedRevision

LEMMA CreateHolds ==
  ASSUME EditInv, NEW d \in BenchDefinitions, CreateDefinition(d)
  PROVE  EditInv'
<1> DEFINE row == [state |-> "live", revision |-> 1, version |-> KeyVersion, sealed |-> 1, cases |-> 1]
<1>1. row \in DefinitionRows /\ 1 \in Revisions /\ 1 \in 1 .. MaxRevision - 1
  BY MaintenanceAssumption DEF DefinitionRows, Revisions, KeyVersion
<1>2. row.sealed = SealedRevision(row)
  BY DEF SealedRevision
<1>3. definition' = [definition EXCEPT ![d] = row] /\ written' = [written EXCEPT ![d] = 1]
  BY DEF CreateDefinition
<1>4. /\ definition' \in [BenchDefinitions -> DefinitionRows]
      /\ written' \in [BenchDefinitions -> Revisions]
      /\ RoomToArchive' /\ DefinitionsReadable'
  BY <1>1, <1>2, <1>3, RowWritten
<1> QED
  BY <1>4 DEF CreateDefinition, EditInv, MaintenanceTypeOK

LEMMA UpdateHolds ==
  ASSUME EditInv, NEW d \in BenchDefinitions, NEW expected \in Revisions,
         UpdateDefinition(d, expected)
  PROVE  EditInv'
<1> DEFINE next == definition[d].revision + 1
           row == [definition[d] EXCEPT !.revision = next, !.version = KeyVersion,
                                        !.sealed = next, !.cases = next]
<1>1. definition[d] \in DefinitionRows /\ definition[d].state = "live" /\ next < MaxRevision
  BY DEF UpdateDefinition, EditInv, MaintenanceTypeOK
<1>2. definition[d].revision \in 1 .. MaxRevision - 1
  BY <1>1 DEF EditInv, RoomToArchive
<1>3. next \in Revisions /\ next \in 1 .. MaxRevision - 1
  BY <1>1, <1>2, MaintenanceAssumption DEF Revisions
<1>4. KeyVersion \in {1, 2}
  BY DEF KeyVersion
<1>5. row \in DefinitionRows
  BY <1>1, <1>3, <1>4 DEF DefinitionRows
<1>6. /\ row.state = "live" /\ row.revision = next
      /\ row.sealed = next /\ row.cases = next
  BY <1>1 DEF DefinitionRows
<1>7. definition' = [definition EXCEPT ![d] = row] /\ written' = [written EXCEPT ![d] = next]
  BY DEF UpdateDefinition, EditInv, MaintenanceTypeOK
<1> HIDE DEF row, next
<1>8. /\ definition' \in [BenchDefinitions -> DefinitionRows]
      /\ written' \in [BenchDefinitions -> Revisions]
      /\ RoomToArchive' /\ DefinitionsReadable'
  BY <1>3, <1>5, <1>6, <1>7, RowWritten DEF SealedRevision
<1> QED
  BY <1>8 DEF UpdateDefinition, EditInv, MaintenanceTypeOK

LEMMA ArchiveHolds ==
  ASSUME EditInv, NEW d \in BenchDefinitions, NEW expected \in Revisions,
         ArchiveDefinition(d, expected)
  PROVE  EditInv'
<1> DEFINE row == [definition[d] EXCEPT !.state = "archived", !.revision = definition[d].revision + 1]
<1>1. definition[d] \in DefinitionRows /\ definition[d].state = "live"
  BY DEF ArchiveDefinition, EditInv, MaintenanceTypeOK
<1>2. definition[d].revision \in 1 .. MaxRevision - 1
  BY <1>1 DEF EditInv, RoomToArchive
<1>3. definition[d].sealed = definition[d].revision /\ definition[d].cases = written[d]
  BY <1>1 DEF EditInv, DefinitionsReadable, Opens, SealedRevision
<1>4. /\ definition[d].revision + 1 \in Revisions /\ definition[d].revision + 1 \in 1 .. MaxRevision
      /\ definition[d].revision + 1 - 1 = definition[d].revision
  BY <1>2, MaintenanceAssumption DEF Revisions
<1>5. row \in DefinitionRows
  BY <1>1, <1>4 DEF DefinitionRows
<1>6. /\ row.state = "archived" /\ row.revision = definition[d].revision + 1
      /\ row.sealed = definition[d].sealed /\ row.cases = definition[d].cases
  BY <1>1 DEF DefinitionRows
<1>7. /\ definition' = [definition EXCEPT ![d] = row]
      /\ written' = [written EXCEPT ![d] = written[d]] /\ written[d] \in Revisions
  BY DEF ArchiveDefinition, EditInv, MaintenanceTypeOK
<1> HIDE DEF row
<1>8. row.sealed = SealedRevision(row) /\ row.cases = written[d]
  BY <1>2, <1>3, <1>6, MaintenanceAssumption DEF SealedRevision
<1>9. /\ definition' \in [BenchDefinitions -> DefinitionRows]
      /\ written' \in [BenchDefinitions -> Revisions]
      /\ RoomToArchive' /\ DefinitionsReadable'
  BY <1>4, <1>5, <1>6, <1>7, <1>8, RowWritten
<1> QED
  BY <1>9 DEF ArchiveDefinition, EditInv, MaintenanceTypeOK

(* A rewrapped row opens under the same revision and means the same content. *)
LEMMA RewrappedRow ==
  ASSUME EditInv, NEW d \in BenchDefinitions, definition[d].state # "none"
  PROVE  /\ Rewrapped(definition[d]) \in DefinitionRows
         /\ Opens(Rewrapped(definition[d]))
         /\ Rewrapped(definition[d]).state = definition[d].state
         /\ Rewrapped(definition[d]).revision = definition[d].revision
         /\ Rewrapped(definition[d]).cases = definition[d].cases
<1> DEFINE row == definition[d]
<1>1. row \in DefinitionRows /\ row.sealed = SealedRevision(row)
  BY DEF EditInv, MaintenanceTypeOK, DefinitionsReadable, Opens
<1>2. SealedRevision(row) \in Revisions
  BY <1>1 DEF DefinitionRows
<1>3. Rewrapped(row) = [row EXCEPT !.version = 2, !.sealed = SealedRevision(row)]
  BY DEF Rewrapped
<1> HIDE DEF row
<1>4. /\ Rewrapped(row) \in DefinitionRows
      /\ Rewrapped(row).state = row.state /\ Rewrapped(row).revision = row.revision
      /\ Rewrapped(row).cases = row.cases /\ Rewrapped(row).sealed = SealedRevision(row)
  BY <1>1, <1>2, <1>3 DEF DefinitionRows
<1>5. Opens(Rewrapped(row))
  BY <1>4 DEF Opens, SealedRevision
<1> QED
  BY <1>4, <1>5 DEF row

LEMMA RewrapHolds ==
  ASSUME EditInv, NEW e \in Executors, RewrapNext(e)
  PROVE  /\ definition' \in [BenchDefinitions -> DefinitionRows]
         /\ RoomToArchive' /\ DefinitionsReadable'
<1>1. PICK batch \in SUBSET {d \in BenchDefinitions :
                               definition[d].state # "none" /\ definition[d].version = 1} :
        definition' = [d \in BenchDefinitions |->
                         IF d \in batch THEN Rewrapped(definition[d]) ELSE definition[d]]
  BY DEF RewrapNext
<1>2. \A d \in BenchDefinitions :
        definition'[d] = IF d \in batch THEN Rewrapped(definition[d]) ELSE definition[d]
  BY <1>1
<1>3. \A d \in batch : d \in BenchDefinitions /\ definition[d].state # "none"
  BY <1>1
<1>4. \A d \in BenchDefinitions : definition'[d] \in DefinitionRows
  BY <1>2, <1>3, RewrappedRow DEF EditInv, MaintenanceTypeOK
<1>5. definition' \in [BenchDefinitions -> DefinitionRows]
  BY <1>1, <1>4
<1>6. RoomToArchive'
  BY <1>2, <1>3, RewrappedRow DEF EditInv, RoomToArchive
<1>7. written' = written
  BY DEF RewrapNext
<1>8. \A d \in BenchDefinitions :
        definition'[d].state # "none" => Opens(definition'[d]) /\ definition'[d].cases = written[d]
  BY <1>2, <1>3, RewrappedRow DEF EditInv, DefinitionsReadable
<1>9. DefinitionsReadable'
  BY <1>7, <1>8 DEF DefinitionsReadable, Opens, SealedRevision
<1> QED
  BY <1>5, <1>6, <1>9

-----------------------------------------------------------------------------
(* Operations and executions. *)

OperationStates == {"none", "admitted", "running", "completed", "uncertain"}

(* An execution that goes on, with its approval; the others stay. *)
LEMMA AtMoves ==
  ASSUME MaintenanceTypeOK, NEW e \in Executors, NEW l \in Places, At(e, l)
  PROVE  /\ executor' \in [Executors -> Execs]
         /\ executor'[e].at = l /\ executor'[e].approval = executor[e].approval
         /\ \A f \in Executors \ {e} : executor'[f] = executor[f]
<1>1. executor \in [Executors -> Execs]
  BY DEF MaintenanceTypeOK, Execs, Places
<1>2. executor' = [executor EXCEPT ![e] = [executor[e] EXCEPT !.at = l]]
  BY <1>1 DEF At
<1>3. /\ [executor[e] EXCEPT !.at = l] \in Execs
      /\ [executor[e] EXCEPT !.at = l].at = l
      /\ [executor[e] EXCEPT !.at = l].approval = executor[e].approval
  BY <1>1 DEF Execs
<1> QED
  BY <1>1, <1>2, <1>3

LEMMA ExecutionEndsMoves ==
  ASSUME MaintenanceTypeOK, NEW e \in Executors, ExecutionEnds(e)
  PROVE  /\ executor' \in [Executors -> Execs]
         /\ executor'[e].at = "idle"
         /\ \A f \in Executors \ {e} : executor'[f] = executor[f]
<1>1. executor \in [Executors -> Execs]
  BY DEF MaintenanceTypeOK, Execs, Places
<1>2. ExecutorIdle \in Execs /\ ExecutorIdle.at = "idle"
  BY DEF ExecutorIdle, Execs, Places
<1> QED
  BY <1>1, <1>2 DEF ExecutionEnds

(* One execution moves on its own operation, from one place and status to   *)
(* another that agree: all the others still do.                             *)
LEMMA ExecutionMoves ==
  ASSUME MaintenanceTypeOK, RunsInv, NEW e \in Executors, executor[e].at # "idle",
         NEW l \in Places, NEW o \in OperationStates, NEW n \in {0, 1},
         executor'[e].at = l,
         l # "idle" => executor'[e].approval = executor[e].approval,
         \A f \in Executors \ {e} : executor'[f] = executor[f],
         operation' = [operation EXCEPT ![executor[e].approval] = o],
         rewraps' = [rewraps EXCEPT ![executor[e].approval] = n],
         o \in {"none", "admitted"} => n = 0,
         o = "completed" => n = 1,
         o \in {"admitted", "running", "uncertain"} =>
           operation[executor[e].approval] \in {"admitted", "running", "uncertain"},
         l = "reserved" => o = "admitted",
         l = "started" => o = "running" /\ n = 0,
         l = "completing" => o = "running" /\ n = 1,
         l = "uncertain" => o \in {"running", "completed"}
  PROVE  RunsInv'
<1> DEFINE a == executor[e].approval
<1>1. a \in Approvals
  BY DEF RunsInv, ExecutionsAgree
<1>2. /\ operation \in [Approvals -> OperationStates] /\ rewraps \in [Approvals -> Nat]
  BY DEF MaintenanceTypeOK, OperationStates
<1> HIDE DEF a
<1>3. /\ \A b \in Approvals : b # a => operation'[b] = operation[b] /\ rewraps'[b] = rewraps[b]
      /\ operation'[a] = o /\ rewraps'[a] = n
  BY <1>1, <1>2 DEF a
<1>4. \A f \in Executors : f # e /\ executor[f].at # "idle" => executor[f].approval # a
  BY DEF RunsInv, ExecutionsAgree, a
<1>5. OperationsAgree'
  <2>1. \A b \in Approvals : b \in Unfinished' => b \in Unfinished
    BY <1>1, <1>3 DEF Unfinished, a
  <2>2. Unfinished' \subseteq Approvals
    BY DEF Unfinished
  <2>3. \A b \in Approvals :
          /\ rewraps'[b] <= 1
          /\ operation'[b] \in {"none", "admitted"} => rewraps'[b] = 0
          /\ operation'[b] = "completed" => rewraps'[b] = 1
    BY <1>1, <1>3 DEF RunsInv, OperationsAgree
  <2> QED
    BY <2>1, <2>2, <2>3 DEF RunsInv, OperationsAgree
<1>6. ExecutionsAgree'
  <2>1. \A f \in Executors \ {e} : executor'[f] = executor[f]
    OBVIOUS
  <2>2. \A f \in Executors \ {e} : executor[f].at # "idle" =>
          /\ executor[f].approval \in Approvals
          /\ operation'[executor[f].approval] = operation[executor[f].approval]
          /\ rewraps'[executor[f].approval] = rewraps[executor[f].approval]
    BY <1>3, <1>4 DEF RunsInv, ExecutionsAgree
  <2>3. \A f \in Executors \ {e} :
          LET b == executor'[f].approval IN
          /\ executor'[f].at # "idle" => b \in Approvals
          /\ executor'[f].at = "reserved" => operation'[b] = "admitted"
          /\ executor'[f].at = "started" => operation'[b] = "running" /\ rewraps'[b] = 0
          /\ executor'[f].at = "completing" => operation'[b] = "running" /\ rewraps'[b] = 1
          /\ executor'[f].at = "uncertain" => operation'[b] \in {"running", "completed"}
    BY <2>1, <2>2 DEF RunsInv, ExecutionsAgree
  <2>4. executor'[e].at # "idle" => executor'[e].approval = a
    BY DEF a
  <2>5. LET b == executor'[e].approval IN
          /\ executor'[e].at # "idle" => b \in Approvals
          /\ executor'[e].at = "reserved" => operation'[b] = "admitted"
          /\ executor'[e].at = "started" => operation'[b] = "running" /\ rewraps'[b] = 0
          /\ executor'[e].at = "completing" => operation'[b] = "running" /\ rewraps'[b] = 1
          /\ executor'[e].at = "uncertain" => operation'[b] \in {"running", "completed"}
    BY <1>1, <1>3, <2>4
  <2>6. \A f, g \in Executors :
          executor'[f].at # "idle" /\ executor'[g].at # "idle"
            /\ executor'[f].approval = executor'[g].approval => f = g
    BY <1>4, <2>1, <2>4 DEF RunsInv, ExecutionsAgree
  <2> QED
    BY <2>3, <2>5, <2>6 DEF ExecutionsAgree
<1> QED
  BY <1>5, <1>6 DEF RunsInv

(* The new operation's approval is fresh, so no other execution has it, and  *)
(* no other operation is unfinished.                                        *)
LEMMA ReserveHolds ==
  ASSUME MaintenanceTypeOK, RunsInv, NEW e \in Executors, NEW a \in Approvals,
         ReserveOperation(e, a)
  PROVE  executor' \in [Executors -> Execs] /\ RunsInv'
<1>1. executor \in [Executors -> Execs] /\ operation \in [Approvals -> OperationStates]
  BY DEF MaintenanceTypeOK, Execs, Places, OperationStates
<1>2. /\ executor' = [executor EXCEPT ![e] = [at |-> "reserved", approval |-> a]]
      /\ operation' = [operation EXCEPT ![a] = "admitted"]
      /\ rewraps' = rewraps /\ Unfinished = {} /\ operation[a] = "none"
  BY DEF ReserveOperation
<1>3. [at |-> "reserved", approval |-> a] \in Execs
  BY DEF Execs, Places
<1>4. executor' \in [Executors -> Execs]
  BY <1>1, <1>2, <1>3
<1>5. /\ executor'[e].at = "reserved" /\ executor'[e].approval = a
      /\ \A f \in Executors : f # e => executor'[f] = executor[f]
      /\ operation'[a] = "admitted"
      /\ \A b \in Approvals : b # a => operation'[b] = operation[b]
  BY <1>1, <1>2
<1>6. OperationsAgree'
  <2>1. \A b \in Unfinished' : b = a
    BY <1>2, <1>5 DEF Unfinished
  <2> QED
    BY <1>2, <1>5, <2>1 DEF RunsInv, OperationsAgree
<1>7. \A f \in Executors : f # e /\ executor[f].at # "idle" => executor[f].approval # a
  BY <1>1, <1>2 DEF RunsInv, ExecutionsAgree, Execs, Places
<1>8. ExecutionsAgree'
  <2>1. \A f \in Executors :
          LET b == executor'[f].approval IN
          /\ executor'[f].at # "idle" => b \in Approvals
          /\ executor'[f].at = "reserved" => operation'[b] = "admitted"
          /\ executor'[f].at = "started" => operation'[b] = "running" /\ rewraps'[b] = 0
          /\ executor'[f].at = "completing" => operation'[b] = "running" /\ rewraps'[b] = 1
          /\ executor'[f].at = "uncertain" => operation'[b] \in {"running", "completed"}
    BY <1>2, <1>5, <1>7 DEF RunsInv, ExecutionsAgree
  <2>2. \A f, g \in Executors :
          executor'[f].at # "idle" /\ executor'[g].at # "idle"
            /\ executor'[f].approval = executor'[g].approval => f = g
    BY <1>5, <1>7 DEF RunsInv, ExecutionsAgree
  <2> QED
    BY <2>1, <2>2 DEF ExecutionsAgree
<1> QED
  BY <1>4, <1>6, <1>8 DEF RunsInv

(* Every other step of an execution is a move that ExecutionMoves covers. *)
LEMMA ExecutionHolds ==
  ASSUME MaintenanceTypeOK, RunsInv, NEW e \in Executors,
         \/ StartOperation(e) \/ StartUncertain(e) \/ RewrapNext(e) \/ RewrapFails(e)
         \/ CompleteOperation(e) \/ MarkUncertain(e) \/ ExecutorDies(e)
  PROVE  executor' \in [Executors -> Execs] /\ RunsInv'
<1> DEFINE a == executor[e].approval
<1>1. /\ operation \in [Approvals -> OperationStates] /\ rewraps \in [Approvals -> Nat]
      /\ {"idle", "reserved", "started", "completing", "uncertain"} = Places
  BY DEF MaintenanceTypeOK, OperationStates, Places
<1>2. executor[e].at # "idle"
  BY DEF StartOperation, StartUncertain, RewrapNext, RewrapFails, CompleteOperation,
         MarkUncertain, ExecutorDies
<1>3. /\ a \in Approvals /\ operation[a] \in OperationStates /\ rewraps[a] \in {0, 1}
      /\ operation = [operation EXCEPT ![a] = operation[a]]
      /\ rewraps = [rewraps EXCEPT ![a] = rewraps[a]]
  BY <1>1, <1>2 DEF RunsInv, ExecutionsAgree, OperationsAgree
<1>4. /\ operation[a] \in {"none", "admitted"} => rewraps[a] = 0
      /\ operation[a] = "completed" => rewraps[a] = 1
      /\ executor[e].at = "reserved" => operation[a] = "admitted"
      /\ executor[e].at = "started" => operation[a] = "running" /\ rewraps[a] = 0
      /\ executor[e].at = "completing" => operation[a] = "running" /\ rewraps[a] = 1
      /\ executor[e].at = "uncertain" => operation[a] \in {"running", "completed"}
  BY <1>3 DEF RunsInv, ExecutionsAgree, OperationsAgree
<1> DEFINE Moves(l, o, n) ==
      /\ l # "idle" => executor'[e].approval = a
      /\ executor'[e].at = l /\ \A f \in Executors \ {e} : executor'[f] = executor[f]
      /\ operation' = [operation EXCEPT ![a] = o] /\ rewraps' = [rewraps EXCEPT ![a] = n]
<1>5. CASE StartOperation(e)
  <2>1. At(e, "started") /\ operation' = [operation EXCEPT ![a] = "running"] /\ rewraps' = rewraps
    BY <1>5 DEF StartOperation
  <2>2. executor[e].at = "reserved"
    BY <1>5 DEF StartOperation
  <2>3. Moves("started", "running", 0) /\ executor' \in [Executors -> Execs]
    BY <1>1, <1>3, <1>4, <2>1, <2>2, AtMoves
  <2> QED
    BY <1>2, <1>4, <2>2, <2>3, ExecutionMoves DEF Places, OperationStates
<1>6. CASE StartUncertain(e)
  <2>1. ExecutionEnds(e) /\ operation' = [operation EXCEPT ![a] = "running"] /\ rewraps' = rewraps
    BY <1>6 DEF StartUncertain
  <2>2. executor[e].at = "reserved"
    BY <1>6 DEF StartUncertain
  <2>3. Moves("idle", "running", 0) /\ executor' \in [Executors -> Execs]
    BY <1>1, <1>3, <1>4, <2>1, <2>2, ExecutionEndsMoves
  <2> QED
    BY <1>2, <1>4, <2>2, <2>3, ExecutionMoves DEF Places, OperationStates
<1>7. CASE RewrapNext(e)
  <2>1. /\ At(e, "completing") \/ At(e, "uncertain")
        /\ operation' = operation /\ rewraps' = [rewraps EXCEPT ![a] = rewraps[a] + 1]
        /\ executor[e].at = "started"
    BY <1>7 DEF RewrapNext
  <2>2. rewraps' = [rewraps EXCEPT ![a] = 1] /\ operation[a] = "running"
    <3>1. operation[a] = "running" /\ rewraps[a] = 0
      BY <1>4, <2>1
    <3>2. rewraps[a] + 1 = 1
      BY <3>1
    <3> QED
      BY <2>1, <3>1, <3>2
  <2>3. CASE At(e, "completing")
    <3>1. Moves("completing", "running", 1) /\ executor' \in [Executors -> Execs]
      BY <1>1, <1>3, <2>1, <2>2, <2>3, AtMoves
    <3> QED
      BY <1>2, <2>2, <3>1, ExecutionMoves DEF Places, OperationStates
  <2>4. CASE At(e, "uncertain")
    <3>1. Moves("uncertain", "running", 1) /\ executor' \in [Executors -> Execs]
      BY <1>1, <1>3, <2>1, <2>2, <2>4, AtMoves
    <3> QED
      BY <1>2, <2>2, <3>1, ExecutionMoves DEF Places, OperationStates
  <2> QED
    BY <2>1, <2>3, <2>4
<1>8. CASE RewrapFails(e)
  <2>1. At(e, "uncertain") /\ operation' = operation /\ rewraps' = rewraps
        /\ executor[e].at = "started"
    BY <1>8 DEF RewrapFails
  <2>2. Moves("uncertain", "running", 0) /\ executor' \in [Executors -> Execs]
    BY <1>1, <1>3, <1>4, <2>1, AtMoves
  <2> QED
    BY <1>2, <1>4, <2>1, <2>2, ExecutionMoves DEF Places, OperationStates
<1>9. CASE CompleteOperation(e)
  <2>1. executor[e].at = "completing" /\ operation[a] = "running" /\ rewraps[a] = 1
        /\ rewraps' = rewraps
    BY <1>4, <1>9 DEF CompleteOperation
  <2>2. \/ ExecutionEnds(e) /\ operation' = [operation EXCEPT ![a] = "completed"]
        \/ At(e, "uncertain") /\ operation' = [operation EXCEPT ![a] = "completed"]
        \/ At(e, "uncertain") /\ operation' = operation
    BY <1>9 DEF CompleteOperation
  <2>3. CASE ExecutionEnds(e) /\ operation' = [operation EXCEPT ![a] = "completed"]
    <3>1. Moves("idle", "completed", 1) /\ executor' \in [Executors -> Execs]
      BY <1>1, <1>3, <2>1, <2>3, ExecutionEndsMoves
    <3> QED
      BY <1>2, <3>1, ExecutionMoves DEF Places, OperationStates
  <2>4. CASE At(e, "uncertain") /\ operation' = [operation EXCEPT ![a] = "completed"]
    <3>1. Moves("uncertain", "completed", 1) /\ executor' \in [Executors -> Execs]
      BY <1>1, <1>3, <2>1, <2>4, AtMoves
    <3> QED
      BY <1>2, <3>1, ExecutionMoves DEF Places, OperationStates
  <2>5. CASE At(e, "uncertain") /\ operation' = operation
    <3>1. Moves("uncertain", "running", 1) /\ executor' \in [Executors -> Execs]
      BY <1>1, <1>3, <2>1, <2>5, AtMoves
    <3> QED
      BY <1>2, <2>1, <3>1, ExecutionMoves DEF Places, OperationStates
  <2> QED
    BY <2>2, <2>3, <2>4, <2>5
<1>10. CASE MarkUncertain(e)
  <2>1. ExecutionEnds(e) /\ rewraps' = rewraps /\ executor[e].at = "uncertain"
    BY <1>10 DEF MarkUncertain
  <2>2. operation[a] = "running" \/ operation[a] = "completed"
    BY <1>4, <2>1
  <2>3. CASE operation[a] = "running"
    <3>1. operation' = [operation EXCEPT ![a] = "uncertain"]
      BY <1>10, <2>3 DEF MarkUncertain
    <3>2. Moves("idle", "uncertain", rewraps[a]) /\ executor' \in [Executors -> Execs]
      BY <1>1, <1>3, <2>1, <3>1, ExecutionEndsMoves
    <3> QED
      BY <1>2, <1>3, <2>3, <3>2, ExecutionMoves DEF Places, OperationStates
  <2>4. CASE operation[a] = "completed"
    <3>1. operation' = operation
      BY <1>10, <2>4 DEF MarkUncertain
    <3>2. Moves("idle", "completed", 1) /\ executor' \in [Executors -> Execs]
      BY <1>1, <1>3, <1>4, <2>1, <2>4, <3>1, ExecutionEndsMoves
    <3> QED
      BY <1>2, <3>2, ExecutionMoves DEF Places, OperationStates
  <2> QED
    BY <2>2, <2>3, <2>4
<1>11. CASE ExecutorDies(e)
  <2>1. ExecutionEnds(e) /\ rewraps' = rewraps /\ operation' = operation
    BY <1>11 DEF ExecutorDies
  <2>2. Moves("idle", operation[a], rewraps[a]) /\ executor' \in [Executors -> Execs]
    BY <1>1, <1>3, <2>1, ExecutionEndsMoves
  <2> QED
    BY <1>2, <1>3, <1>4, <2>2, ExecutionMoves DEF Places
<1> QED
  BY <1>5, <1>6, <1>7, <1>8, <1>9, <1>10, <1>11

-----------------------------------------------------------------------------
MaintenanceInv == EditInv /\ RunsInv

LEMMA MaintenanceInvInit == MaintenanceInit => MaintenanceInv
<1> SUFFICES ASSUME MaintenanceInit PROVE MaintenanceInv
  OBVIOUS
<1>1. MaintenanceTypeOK
  <2>1. 0 \in Revisions /\ NoDefinition \in DefinitionRows
    BY MaintenanceAssumption DEF NoDefinition, DefinitionRows, Revisions
  <2>2. ExecutorIdle \in Execs
    BY DEF ExecutorIdle, Execs, Places
  <2> QED
    BY <2>1, <2>2 DEF MaintenanceInit, MaintenanceTypeOK, Execs, Places
<1>2. RoomToArchive /\ DefinitionsReadable
  BY DEF MaintenanceInit, RoomToArchive, DefinitionsReadable, NoDefinition
<1>3. OperationsAgree
  BY DEF MaintenanceInit, OperationsAgree, Unfinished
<1>4. ExecutionsAgree
  BY DEF MaintenanceInit, ExecutionsAgree, ExecutorIdle
<1> QED
  BY <1>1, <1>2, <1>3, <1>4 DEF MaintenanceInv, EditInv, RunsInv

(* The steps that touch no operation leave RunsInv alone. *)
LEMMA RunsLeft ==
  ASSUME RunsInv, UNCHANGED <<operation, executor, rewraps>>
  PROVE  RunsInv'
BY DEF RunsInv, OperationsAgree, ExecutionsAgree, Unfinished

LEMMA MaintenanceInvStep == MaintenanceInv /\ [MaintenanceNext]_maintenanceVars => MaintenanceInv'
<1> SUFFICES ASSUME MaintenanceInv, [MaintenanceNext]_maintenanceVars PROVE MaintenanceInv'
  OBVIOUS
<1> USE DEF MaintenanceInv
<1>0. EditInv /\ RunsInv /\ MaintenanceTypeOK
  BY DEF EditInv
<1>1. ASSUME NEW d \in BenchDefinitions, Edit(d) PROVE MaintenanceInv'
  <2>1. EditInv'
    BY <1>0, <1>1, CreateHolds, UpdateHolds, ArchiveHolds DEF Edit
  <2>2. UNCHANGED <<operation, executor, rewraps>>
    BY <1>1 DEF Edit, CreateDefinition, UpdateDefinition, ArchiveDefinition
  <2> QED
    BY <1>0, <2>1, <2>2, RunsLeft
<1>2. CASE ConfigureKey
  <2>1. UNCHANGED <<definition, written, operation, executor, rewraps>> /\ keyed' = TRUE
    BY <1>2 DEF ConfigureKey
  <2>2. EditInv'
    BY <1>0, <2>1, DefinitionsLeft DEF EditInv, MaintenanceTypeOK
  <2> QED
    BY <1>0, <2>1, <2>2, RunsLeft
<1>3. ASSUME NEW e \in Executors, Execution(e) PROVE MaintenanceInv'
  <2>1. executor' \in [Executors -> Execs] /\ RunsInv'
    BY <1>0, <1>3, ReserveHolds, ExecutionHolds DEF Execution
  <2>2. operation' \in [Approvals -> OperationStates] /\ rewraps' \in [Approvals -> Nat]
    BY <1>0, <1>3
    DEF Execution, ReserveOperation, StartOperation, StartUncertain, RewrapNext, RewrapFails,
        CompleteOperation, MarkUncertain, ExecutorDies, MaintenanceTypeOK, OperationStates
  <2>3. written' = written /\ keyed' = keyed
    BY <1>3
    DEF Execution, ReserveOperation, StartOperation, StartUncertain, RewrapNext, RewrapFails,
        CompleteOperation, MarkUncertain, ExecutorDies
  <2>4. definition' = definition \/ RewrapNext(e)
    BY <1>3
    DEF Execution, ReserveOperation, StartOperation, StartUncertain, RewrapFails,
        CompleteOperation, MarkUncertain, ExecutorDies
  <2>5. definition' \in [BenchDefinitions -> DefinitionRows] /\ RoomToArchive' /\ DefinitionsReadable'
    BY <1>0, <2>3, <2>4, DefinitionsLeft, RewrapHolds
  <2>6. MaintenanceTypeOK'
    BY <1>0, <2>1, <2>2, <2>3, <2>5 DEF MaintenanceTypeOK, OperationStates, Execs, Places
  <2> QED
    BY <2>1, <2>5, <2>6 DEF EditInv
<1>4. CASE UNCHANGED maintenanceVars
  <2>1. EditInv'
    BY <1>0, <1>4, DefinitionsLeft DEF maintenanceVars, EditInv, MaintenanceTypeOK
  <2> QED
    BY <1>0, <1>4, <2>1, RunsLeft DEF maintenanceVars
<1> QED
  BY <1>1, <1>2, <1>3, <1>4 DEF MaintenanceNext

(* Definitions, operations and executions have their shapes. *)
THEOREM MaintenanceTyped == MaintenanceSpec => []MaintenanceTypeOK
<1>1. MaintenanceInv => MaintenanceTypeOK
  BY DEF MaintenanceInv, EditInv
<1> QED
  BY <1>1, MaintenanceInvInit, MaintenanceInvStep, PTL DEF MaintenanceSpec

(* Every stored ciphertext opens under the revision its reader uses and      *)
(* holds the last accepted content, whatever edits, archivings and rewraps   *)
(* of definition-store.ts and managed-ciphertext-rewrap.ts cross.            *)
THEOREM DefinitionsStayReadable == MaintenanceSpec => []DefinitionsReadable
<1>1. MaintenanceInv => DefinitionsReadable
  BY DEF MaintenanceInv, EditInv
<1> QED
  BY <1>1, MaintenanceInvInit, MaintenanceInvStep, PTL DEF MaintenanceSpec

(* An approval is executed at most once, one execution at a time: the        *)
(* admission, the start and the completion of crypto-maintenance-executor.ts *)
(* leave nothing for a second one, whatever replies are lost.               *)
THEOREM ApprovalsRunOnce == MaintenanceSpec => []MaintenanceRunsOnce
<1>1. MaintenanceInv => MaintenanceRunsOnce
  <2> SUFFICES ASSUME MaintenanceInv PROVE MaintenanceRunsOnce
    OBVIOUS
  <2>1. \A e \in Executors :
          executor[e].at # "idle" /\ operation[executor[e].approval] # "completed" =>
            executor[e].approval \in Unfinished
    BY DEF MaintenanceInv, EditInv, MaintenanceTypeOK, RunsInv, ExecutionsAgree, Unfinished
  <2>2. \A e, f \in Executors :
          executor[e].at # "idle" /\ executor[f].at # "idle"
            /\ operation[executor[e].approval] # "completed"
            /\ operation[executor[f].approval] # "completed" => e = f
    BY <2>1 DEF MaintenanceInv, RunsInv, OperationsAgree, ExecutionsAgree
  <2> QED
    BY <2>2 DEF MaintenanceInv, RunsInv, OperationsAgree, MaintenanceRunsOnce
<1> QED
  BY <1>1, MaintenanceInvInit, MaintenanceInvStep, PTL DEF MaintenanceSpec

-----------------------------------------------------------------------------
(* The run improvement starts either component; a step of the one is a       *)
(* stutter of the other, so its specification implements both, and what is   *)
(* proved of a component holds of it.                                       *)
THEOREM PartsImplementBoth == PartsSpec => ImprovementSpec /\ MaintenanceSpec
<1>1. PartsInit => ImprovementInit /\ MaintenanceInit
  BY DEF PartsInit
<1>2. [PartsNext]_<<part, improvementVars, maintenanceVars>>
      => [ImprovementNext]_improvementVars /\ [MaintenanceNext]_maintenanceVars
  BY DEF PartsNext
<1> QED
  BY <1>1, <1>2, PTL DEF PartsSpec, ImprovementSpec, MaintenanceSpec

(* Every row, copy, call and operation of the two keeps its shape.          *)
THEOREM PartsTyped == PartsSpec => []PartsTypeOK
<1>1. ImprovementTypeOK /\ MaintenanceTypeOK => PartsTypeOK
  BY DEF PartsTypeOK
<1> QED
  BY <1>1, PartsImplementBoth, ImprovementTyped, MaintenanceTyped, PTL
=============================================================================
