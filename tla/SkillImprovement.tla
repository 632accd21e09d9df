--------------------------- MODULE SkillImprovement ---------------------------
(***************************************************************************)
(* Skill intelligence for one skill: the optimisation jobs a worker claims *)
(* and answers, and the recommendations people review.  A recommendation   *)
(* is one row that every writer replaces whole, from the copy it read      *)
(* (server/skill-intelligence/service.ts, postgres-store.ts,               *)
(* lib/skill-intelligence/recommendation-workflow.ts).                     *)
(***************************************************************************)
EXTENDS Naturals, FiniteSets

CONSTANTS Reviewers, Workers, Recommendations, OptimizationJobs, Contents,
          RequiredApprovals, MaxSlips, MaxAsks, Nil

ASSUME ImprovementAssumption ==
    /\ RequiredApprovals \in Nat
    /\ MaxSlips \in Nat /\ MaxAsks \in Nat
    /\ IsFiniteSet(Reviewers)
    /\ Nil \notin Recommendations

VARIABLES recs,      \* improvement_recommendations, one payload per id
          optJobs,   \* optimization_jobs
          work,      \* what each worker's call is doing
          review,    \* what each reviewer's call is doing
          consents,  \* who approved which content of which recommendation
          releases,  \* release requests opened
          slips,     \* calls that died and leases that ran out under their holder
          asks       \* requests people made

improvementVars == <<recs, optJobs, work, review, consents, releases, slips, asks>>

OpenStatuses == {"evaluating", "ready-for-review"}
Closed == {"approved", "rejected", "superseded"}

\* measured: the content the worker's evaluation really ran on; nothing stores it
Payloads == [status : OpenStatuses \cup Closed, content : Contents, validated : Contents,
             measured : Contents, passed : BOOLEAN, requires : BOOLEAN,
             approvals : SUBSET Reviewers, released : BOOLEAN]
Absent == [status |-> "none"]

JobRows == [status : {"none", "queued", "running", "completed", "failed"},
            parent : Recommendations \cup {Nil}, holder : Workers \cup {Nil},
            leased : BOOLEAN]
NoJob == [status |-> "none", parent |-> Nil, holder |-> Nil, leased |-> FALSE]

Unread == [r \in Recommendations |-> Absent]
WorkerIdle == [at |-> "idle", job |-> Nil, bundle |-> Nil, seen |-> Unread]
ReviewerIdle == [at |-> "idle", rec |-> Nil, saved |-> Absent]

ImprovementInit ==
    /\ recs = Unread
    /\ optJobs = [j \in OptimizationJobs |-> NoJob]
    /\ work = [w \in Workers |-> WorkerIdle]
    /\ review = [v \in Reviewers |-> ReviewerIdle]
    /\ consents = {}
    /\ releases = {}
    /\ slips = 0
    /\ asks = 0

(***************************************************************************)
(* The job queue: one active job per skill, a lease, and a finish that     *)
(* names the job by its id only.                                           *)
(***************************************************************************)
ActiveJob(j) == optJobs[j].status \in {"queued", "running"}

EnqueueJob(parent) ==
    /\ \A j \in OptimizationJobs : ~ActiveJob(j)
    /\ \E j \in OptimizationJobs :
         /\ optJobs[j].status = "none"
         /\ optJobs' = [optJobs EXCEPT ![j] = [NoJob EXCEPT !.status = "queued", !.parent = parent]]

RequestOptimization ==
    /\ asks < MaxAsks /\ asks' = asks + 1
    /\ EnqueueJob(Nil)
    /\ UNCHANGED <<recs, work, review, consents, releases, slips>>

ClaimNextJob(w) ==
    /\ work[w].at = "idle"
    /\ \E j \in OptimizationJobs :
         /\ \/ optJobs[j].status = "queued"
            \/ optJobs[j].status = "running" /\ ~optJobs[j].leased
         /\ optJobs' = [optJobs EXCEPT ![j].status = "running", ![j].holder = w, ![j].leased = TRUE]
         /\ work' = [work EXCEPT ![w] = [WorkerIdle EXCEPT !.at = "claimed", !.job = j]]
    /\ UNCHANGED <<recs, review, consents, releases, slips, asks>>

FinishJob(j, status) ==
    optJobs' = [optJobs EXCEPT ![j].status = status, ![j].holder = Nil, ![j].leased = FALSE]

HasJob(w, j) == work[w].at # "idle" /\ work[w].job = j

LeaseRunsOut(j) ==
    /\ optJobs[j].status = "running" /\ optJobs[j].leased
    /\ optJobs' = [optJobs EXCEPT ![j].leased = FALSE]
    /\ IF \E w \in Workers : HasJob(w, j)
         THEN slips < MaxSlips /\ slips' = slips + 1
         ELSE UNCHANGED slips
    /\ UNCHANGED <<recs, work, review, consents, releases, asks>>

(***************************************************************************)
(* A worker's job: claim with its bundle, then the submitted result.       *)
(***************************************************************************)
Step(w, at) == work' = [work EXCEPT ![w].at = at]
Rest(w) == work' = [work EXCEPT ![w] = WorkerIdle]
JobOf(w) == work[w].job
ParentOf(w) == optJobs[JobOf(w)].parent
Look(w, at, S) ==
    work' = [work EXCEPT ![w].at = at,
                         ![w].seen = [r \in Recommendations |-> IF r \in S THEN recs[r] ELSE Absent]]

PrepareBundle(w) ==
    /\ work[w].at = "claimed"
    /\ IF ParentOf(w) = Nil
         THEN Step(w, "working")
         ELSE /\ recs[ParentOf(w)].status = "evaluating"
              /\ work' = [work EXCEPT ![w].at = "working", ![w].bundle = recs[ParentOf(w)].content]
    /\ UNCHANGED <<recs, optJobs, review, consents, releases, slips, asks>>

RefuseBundle(w) ==
    /\ work[w].at = "claimed"
    /\ FinishJob(JobOf(w), "failed")
    /\ Rest(w)
    /\ UNCHANGED <<recs, review, consents, releases, slips, asks>>

LeaseHeld(w) ==
    LET job == optJobs[JobOf(w)]
    IN  job.status = "running" /\ job.holder = w /\ job.leased

AdmitResult(w) ==
    /\ work[w].at = "working"
    /\ IF LeaseHeld(w) THEN Step(w, "admitted") ELSE Rest(w)
    /\ UNCHANGED <<recs, optJobs, review, consents, releases, slips, asks>>

FailJob(w) ==
    /\ FinishJob(JobOf(w), "failed")
    /\ IF ParentOf(w) = Nil THEN Rest(w) ELSE Step(w, "failing")

ResultFails(w) ==
    /\ work[w].at = "admitted"
    /\ FailJob(w)
    /\ UNCHANGED <<recs, review, consents, releases, slips, asks>>

ReadFailedParent(w) ==
    /\ work[w].at = "failing"
    /\ IF recs[ParentOf(w)].status = "evaluating"
         THEN Look(w, "reopening", {ParentOf(w)})
         ELSE Rest(w)
    /\ UNCHANGED <<recs, optJobs, review, consents, releases, slips, asks>>

ReopenParent(w) ==
    /\ work[w].at = "reopening"
    /\ recs' = [recs EXCEPT ![ParentOf(w)] =
                   [work[w].seen[ParentOf(w)] EXCEPT !.status = "ready-for-review"]]
    /\ Rest(w)
    /\ UNCHANGED <<optJobs, review, consents, releases, slips, asks>>

NoImprovement(w) ==
    /\ work[w].at = "admitted" /\ ParentOf(w) = Nil
    /\ FinishJob(JobOf(w), "completed")
    /\ Rest(w)
    /\ UNCHANGED <<recs, review, consents, releases, slips, asks>>

ReadParent(w) ==
    /\ work[w].at = "admitted" /\ ParentOf(w) # Nil
    /\ Look(w, "evaluated", {ParentOf(w)})
    /\ UNCHANGED <<recs, optJobs, review, consents, releases, slips, asks>>

ParentMovedOn(w) ==
    /\ work[w].at = "evaluated"
    /\ work[w].seen[ParentOf(w)].status # "evaluating"
    /\ FailJob(w)
    /\ UNCHANGED <<recs, review, consents, releases, slips, asks>>

Validate(payload, measured, passed) ==
    [payload EXCEPT !.status = "ready-for-review", !.validated = payload.content,
                    !.measured = measured, !.passed = passed, !.requires = FALSE]

SaveReevaluation(w) ==
    LET parent == work[w].seen[ParentOf(w)]
    IN  /\ work[w].at = "evaluated" /\ parent.status = "evaluating"
        /\ \E passed \in BOOLEAN :
             recs' = [recs EXCEPT ![ParentOf(w)] = Validate(parent, work[w].bundle, passed)]
        /\ Step(w, "finishing")
        /\ UNCHANGED <<optJobs, review, consents, releases, slips, asks>>

ListOpen(w) ==
    /\ work[w].at = "admitted" /\ ParentOf(w) = Nil
    /\ Look(w, "superseding", {r \in Recommendations : recs[r].status \in OpenStatuses})
    /\ UNCHANGED <<recs, optJobs, review, consents, releases, slips, asks>>

Supersede(w) ==
    /\ work[w].at = "superseding"
    /\ \E r \in Recommendations :
         /\ work[w].seen[r] # Absent
         /\ recs' = [recs EXCEPT ![r] = [work[w].seen[r] EXCEPT !.status = "superseded"]]
         /\ work' = [work EXCEPT ![w].seen[r] = Absent]
    /\ UNCHANGED <<optJobs, review, consents, releases, slips, asks>>

\* Mutant: a new row has the table's default status, which no other step knows.
NewRecommendationGenerated(content, passed) ==
    [status |-> "generated", content |-> content, validated |-> content,
     measured |-> content, passed |-> passed, requires |-> FALSE, approvals |-> {}, released |-> FALSE]

NewRecommendation(content, passed) ==
    [status |-> "ready-for-review", content |-> content, validated |-> content,
     measured |-> content, passed |-> passed, requires |-> FALSE, approvals |-> {}, released |-> FALSE]

InsertRecommendation(w) ==
    /\ work[w].at = "superseding" /\ work[w].seen = Unread
    /\ \E r \in Recommendations, content \in Contents, passed \in BOOLEAN :
         /\ recs[r].status = "none"
         /\ recs' = [recs EXCEPT ![r] = NewRecommendation(content, passed)]
    /\ Step(w, "finishing")
    /\ UNCHANGED <<optJobs, review, consents, releases, slips, asks>>

FinishResult(w) ==
    /\ work[w].at = "finishing"
    /\ FinishJob(JobOf(w), "completed")
    /\ Rest(w)
    /\ UNCHANGED <<recs, review, consents, releases, slips, asks>>

WorkerCallDies(w) ==
    /\ work[w].at # "idle"
    /\ slips < MaxSlips /\ slips' = slips + 1
    /\ Rest(w)
    /\ UNCHANGED <<recs, optJobs, review, consents, releases, asks>>

(***************************************************************************)
(* A review: the decision is made on the copy that was read, and saved     *)
(* whole; its effects follow as further statements.                        *)
(***************************************************************************)
Decided(v, r, at, payload) ==
    /\ asks < MaxAsks /\ asks' = asks + 1
    /\ review' = [review EXCEPT ![v] = [at |-> at, rec |-> r, saved |-> payload]]
Reviewable(v, r) == review[v].at = "idle" /\ recs[r].status \in OpenStatuses

Reject(v, r) ==
    /\ Reviewable(v, r)
    /\ Decided(v, r, "rejecting", [recs[r] EXCEPT !.status = "rejected"])
    /\ UNCHANGED <<recs, optJobs, work, consents, releases, slips>>

RequestMoreTesting(v, r) ==
    /\ Reviewable(v, r)
    /\ Decided(v, r, "returning", [recs[r] EXCEPT !.status = "evaluating"])
    /\ UNCHANGED <<recs, optJobs, work, consents, releases, slips>>

\* Mutant: the approvals of the old content are kept.
ModifiedKeepingApprovals(payload, content) ==
    [payload EXCEPT !.content = content, !.status = "evaluating", !.requires = TRUE]

Modified(payload, content) ==
    [payload EXCEPT !.content = content, !.status = "evaluating", !.requires = TRUE, !.approvals = {}]

Modify(v, r) ==
    /\ Reviewable(v, r)
    /\ \E content \in Contents : Decided(v, r, "returning", Modified(recs[r], content))
    /\ UNCHANGED <<recs, optJobs, work, consents, releases, slips>>

\* Mutant: the gate's verdict is not looked at.
ApprovableUnchecked(v, payload) ==
    /\ payload.status = "ready-for-review"
    /\ payload.validated = payload.content
    /\ v \notin payload.approvals

Approvable(v, payload) ==
    /\ payload.status = "ready-for-review"
    /\ ~payload.requires
    /\ payload.validated = payload.content
    /\ payload.passed
    /\ v \notin payload.approvals

Approved(v, payload) ==
    LET approvals == payload.approvals \cup {v}
    IN  [payload EXCEPT !.approvals = approvals,
           !.status = IF Cardinality(approvals) >= RequiredApprovals
                        THEN "approved" ELSE "ready-for-review"]

Approve(v, r) ==
    /\ Reviewable(v, r) /\ Approvable(v, recs[r])
    /\ Decided(v, r, "approving", Approved(v, recs[r]))
    /\ UNCHANGED <<recs, optJobs, work, consents, releases, slips>>

AfterSaving(at, status) ==
    CASE at = "returning" -> "requeueing"
      [] at = "approving" /\ status = "approved" -> "staging"
      [] OTHER -> "idle"

SaveReview(v) ==
    LET call == review[v]  next == AfterSaving(call.at, call.saved.status)
    IN  /\ call.at \in {"rejecting", "returning", "approving"}
        /\ recs' = [recs EXCEPT ![call.rec] = call.saved]
        /\ review' = [review EXCEPT ![v] = IF next = "idle" THEN ReviewerIdle ELSE [call EXCEPT !.at = next]]
        /\ consents' = IF call.at = "approving"
                         THEN consents \cup {<<v, call.rec, call.saved.content>>} ELSE consents
        /\ UNCHANGED <<optJobs, work, releases, slips, asks>>

RequestReevaluation(v, r) ==
    /\ review[v].at = "idle" /\ recs[r].status = "evaluating"
    /\ Decided(v, r, "requeueing", recs[r])
    /\ UNCHANGED <<recs, optJobs, work, consents, releases, slips>>

Requeue(v) ==
    /\ review[v].at = "requeueing"
    /\ EnqueueJob(review[v].rec) \/ UNCHANGED optJobs
    /\ review' = [review EXCEPT ![v] = ReviewerIdle]
    /\ UNCHANGED <<recs, work, consents, releases, slips, asks>>

RequestStaging(v, r) ==
    /\ review[v].at = "idle" /\ recs[r].status = "approved" /\ ~recs[r].released
    /\ Decided(v, r, "staging", recs[r])
    /\ UNCHANGED <<recs, optJobs, work, consents, releases, slips>>

ReleaseOf(r, payload) == [rec |-> r, content |-> payload.content, approvals |-> payload.approvals]

StageCandidate(v) ==
    /\ review[v].at = "staging"
    /\ releases' = releases \cup {ReleaseOf(review[v].rec, review[v].saved)}
    /\ review' = [review EXCEPT ![v].at = "recording", ![v].saved.released = TRUE]
    /\ UNCHANGED <<recs, optJobs, work, consents, slips, asks>>

StagingPending(v) ==
    /\ review[v].at = "staging"
    /\ review' = [review EXCEPT ![v] = ReviewerIdle]
    /\ UNCHANGED <<recs, optJobs, work, consents, releases, slips, asks>>

RecordRelease(v) ==
    /\ review[v].at = "recording"
    /\ recs' = [recs EXCEPT ![review[v].rec] = review[v].saved]
    /\ review' = [review EXCEPT ![v] = ReviewerIdle]
    /\ UNCHANGED <<optJobs, work, consents, releases, slips, asks>>

ReviewCallDies(v) ==
    /\ review[v].at # "idle"
    /\ slips < MaxSlips /\ slips' = slips + 1
    /\ review' = [review EXCEPT ![v] = ReviewerIdle]
    /\ UNCHANGED <<recs, optJobs, work, consents, releases, asks>>

-----------------------------------------------------------------------------
WorkerStep(w) ==
    \/ PrepareBundle(w) \/ RefuseBundle(w) \/ AdmitResult(w) \/ ResultFails(w)
    \/ ReadFailedParent(w) \/ ReopenParent(w) \/ NoImprovement(w)
    \/ ReadParent(w) \/ ParentMovedOn(w) \/ SaveReevaluation(w)
    \/ ListOpen(w) \/ Supersede(w) \/ InsertRecommendation(w) \/ FinishResult(w)

ReviewerStep(v) ==
    \/ SaveReview(v) \/ Requeue(v) \/ StageCandidate(v) \/ StagingPending(v) \/ RecordRelease(v)

ReviewerAsks(v, r) ==
    \/ Reject(v, r) \/ RequestMoreTesting(v, r) \/ Modify(v, r) \/ Approve(v, r)
    \/ RequestReevaluation(v, r) \/ RequestStaging(v, r)

ImprovementNext ==
    \/ RequestOptimization
    \/ \E w \in Workers : ClaimNextJob(w) \/ WorkerStep(w) \/ WorkerCallDies(w)
    \/ \E j \in OptimizationJobs : LeaseRunsOut(j)
    \/ \E v \in Reviewers :
         ReviewerStep(v) \/ ReviewCallDies(v) \/ \E r \in Recommendations : ReviewerAsks(v, r)

ImprovementSpec == ImprovementInit /\ [][ImprovementNext]_improvementVars

-----------------------------------------------------------------------------
\* Every row, copy and call has its shape.
ImprovementTypeOK ==
    /\ recs \in [Recommendations -> Payloads \cup {Absent}]
    /\ optJobs \in [OptimizationJobs -> JobRows]
    /\ work \in [Workers ->
         [at : {"idle", "claimed", "working", "admitted", "failing", "reopening",
                "evaluated", "superseding", "finishing"},
          job : OptimizationJobs \cup {Nil}, bundle : Contents \cup {Nil}, seen : [Recommendations -> Payloads \cup {Absent}]]]
    /\ review \in [Reviewers ->
         [at : {"idle", "rejecting", "returning", "approving", "requeueing", "staging", "recording"},
          rec : Recommendations \cup {Nil}, saved : Payloads \cup {Absent}]]
    /\ consents \subseteq Reviewers \X Recommendations \X Contents
    /\ releases \subseteq [rec : Recommendations, content : Contents, approvals : SUBSET Reviewers]
    /\ slips \in 0..MaxSlips /\ asks \in 0..MaxAsks

\* An approved recommendation names its own content as the validated one, with a
\* passed gate and enough different approvals, each given for that content,
\* whoever else was writing the row.
ApprovedIsValidated ==
    \A r \in Recommendations :
      recs[r].status = "approved" =>
        /\ recs[r].validated = recs[r].content
        /\ recs[r].passed /\ ~recs[r].requires
        /\ Cardinality(recs[r].approvals) >= RequiredApprovals
        /\ \A v \in recs[r].approvals : <<v, r, recs[r].content>> \in consents

\* What is staged was approved, content for content, by enough different people.
ReleasedWasApproved ==
    \A release \in releases :
      /\ Cardinality(release.approvals) >= RequiredApprovals
      /\ \A v \in release.approvals : <<v, release.rec, release.content>> \in consents

\* What was approved is what an evaluation ran on: "human modification voids
\* approvals and forces re-evaluation of the exact new artifact".
ApprovedWasMeasured ==
    \A r \in Recommendations : recs[r].status = "approved" => recs[r].measured = recs[r].content
=============================================================================
