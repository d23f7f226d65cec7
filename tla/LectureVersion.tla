--------------------------- MODULE LectureVersion ---------------------------
(***************************************************************************)
(* One lecture version: its screenplay, the reviews it stops for, its      *)
(* build, the jobs that change it and the requests that edit it.           *)
(*                                                                         *)
(* Nobody holds a lock from reading the version to writing it. A handler   *)
(* (pipeline/orchestrator.py) works on a snapshot and compares and sets    *)
(* the revision; a request (version_actions.py, versions.py) reads, does   *)
(* its checks and writes later, some on the revision, some on the status.  *)
(*                                                                         *)
(* The queue is reduced to one step per transition (module JobQueue splits *)
(* them). A worker that lost its lease cannot write (JobQueue,             *)
(* WritesAreFenced), so it is a worker that crashed. A shutdown releases   *)
(* the job like a retry does.                                              *)
(***************************************************************************)
EXTENDS Integers, FiniteSets

CONSTANTS
  Requests,         \* request threads of the API
  MaxJobs,          \* bound: jobs ever enqueued for the version
  JobMaxAttempts,   \* Settings.job_max_attempts
  MaxRevision,      \* bound: teachers save while the revision is below it
  Edits,            \* what a teacher can write into a plan or the corrections
  Asks              \* the reviews a generation may be asked to pause for

ASSUME ConstantsAssumption ==
  /\ MaxJobs \in Nat \ {0}
  /\ JobMaxAttempts \in Nat \ {0}
  /\ MaxRevision \in Nat \ {0}
  /\ 0 \in Edits /\ Edits \subseteq Nat
  /\ Asks \subseteq {"source", "plan"}

VARIABLES
  version,    \* the ProjectVersion row
  jobs,       \* jobs[j]: the version's jobs in the order of their ids
  handler,    \* the handler that runs, with its snapshot of the version
  requests,   \* requests[q]: what a request has read
  asked,      \* payload of the generation: the reviews it pauses for
  approved,   \* history: the plan in the version at its last approval
  scripts     \* history: scripts[j]: screenplays job j has written

vars == <<version, jobs, handler, requests, asked, approved, scripts>>

-----------------------------------------------------------------------------
JobIds == 1..MaxJobs
Kinds == {"generate_lecture", "translate", "regenerate_scene", "build_assets"}
Active == {"queued", "running", "awaiting_review"}
Retryable == {"failed", "cancelled"}
Transient == {"generating", "building", "awaiting_review"}

NoPlan == [notes |-> 0, edit |-> -1]
NoWriter == [job |-> 0, revision |-> 0]

\* generation_meta: the review marker, the plan under review, the teacher's
\* corrections and who wrote the current revision.
NewMeta == [stage |-> "none", plan |-> NoPlan, notes |-> 0, writer |-> NoWriter]

NoJob == [kind |-> "none", status |-> "absent", attempts |-> 0, base |-> 0,
          resume |-> "none", result |-> "none", cancel |-> FALSE,
          retried |-> FALSE, retryOf |-> 0, skipped |-> FALSE]
NoJobs == [j \in JobIds |-> NoJob]
NewJob(kind, base, resume) ==
  [NoJob EXCEPT !.kind = kind, !.status = "queued", !.base = base, !.resume = resume]

\* Fields that count no more have their first value.
NoHandler == [at |-> "idle", job |-> 0, revision |-> 0, text |-> 0, built |-> 0,
              meta |-> NewMeta, outcome |-> "none"]
NoRequest == [op |-> "none", revision |-> 0, meta |-> NewMeta, job |-> 0]

ActiveJobs == {j \in JobIds : jobs[j].status \in Active}
IsNextId(j) ==
  /\ jobs[j].status = "absent"
  /\ \A k \in JobIds : k < j => jobs[k].status # "absent"

\* compare_and_set on the revision, for a handler.
Current == version.revision = handler.revision

-----------------------------------------------------------------------------
(* The queue, one step per transition *)

\* Faulty variant: settled before the job is over, so that it still counts.
SettledFirst(j) ==
  IF version.status \in Transient /\ ActiveJobs = {}
  THEN [version EXCEPT !.status = IF version.built # 0 THEN "ready" ELSE "failed"]
  ELSE version

\* settle_version, in the transition that ends job j.
Settled(j) ==
  IF version.status \in Transient /\ ActiveJobs \subseteq {j}
  THEN [version EXCEPT !.status = IF version.built # 0 THEN "ready" ELSE "failed"]
  ELSE version

\* A job that is over; its attempts and its cancel flag count no more.
Over(j, status) ==
  [jobs[j] EXCEPT !.status = status, !.attempts = 0, !.cancel = FALSE]

End(j, status) ==
  /\ jobs' = [jobs EXCEPT ![j] = Over(j, status)]
  /\ version' = Settled(j)

Claim(j) ==
  /\ handler.at = "idle"
  /\ jobs[j].status = "queued"
  /\ jobs' = [jobs EXCEPT ![j].status = "running", ![j].attempts = @ + 1]
  /\ handler' = [NoHandler EXCEPT !.at = "load", !.job = j]
  /\ UNCHANGED <<version, requests, asked, approved, scripts>>

\* The process dies, or its lease is lost.
Crash ==
  /\ handler.at # "idle"
  /\ handler' = NoHandler
  /\ UNCHANGED <<version, jobs, requests, asked, approved, scripts>>

\* reap_stale, recover_own_host.
Recover(j) ==
  /\ jobs[j].status = "running"
  /\ handler.job # j
  /\ IF jobs[j].cancel THEN End(j, "cancelled")
     ELSE IF jobs[j].attempts >= JobMaxAttempts THEN End(j, "failed")
     ELSE jobs' = [jobs EXCEPT ![j].status = "queued"] /\ UNCHANGED version
  /\ UNCHANGED <<handler, requests, asked, approved, scripts>>

RequestCancel(j) ==
  /\ \/ jobs[j].status \in {"queued", "awaiting_review"} /\ End(j, "cancelled")
     \/ /\ jobs[j].status = "running"
        /\ ~jobs[j].cancel
        /\ jobs' = [jobs EXCEPT ![j].cancel = TRUE]
        /\ UNCHANGED version
  /\ UNCHANGED <<handler, requests, asked, approved, scripts>>

\* retry_job: the payload is copied, the old base revision with it.
RetryJob(j) ==
  /\ jobs[j].status \in Retryable
  /\ ~jobs[j].retried
  /\ ActiveJobs = {}
  /\ \E n \in JobIds :
       /\ IsNextId(n)
       /\ jobs' = [jobs EXCEPT ![j].retried = TRUE,
            ![n] = [NewJob(jobs[j].kind, jobs[j].base, jobs[j].resume) EXCEPT !.retryOf = j]]
  /\ UNCHANGED <<version, handler, requests, asked, approved, scripts>>

\* Worker._persist of what the handler returned or raised; a pending cancel
\* wins over a pause and a retry.
Persist ==
  LET j == handler.job IN
  /\ handler.at = "ended"
  /\ \/ handler.outcome \in {"succeeded", "failed", "cancelled"} /\ End(j, handler.outcome)
     \/ /\ handler.outcome = "skipped"
        /\ jobs' = [jobs EXCEPT ![j] = [Over(j, "succeeded") EXCEPT !.skipped = TRUE]]
        /\ version' = Settled(j)
     \/ /\ handler.outcome \in {"source_review", "plan_review", "retry"}
        /\ jobs[j].cancel
        /\ End(j, "cancelled")
     \/ /\ handler.outcome \in {"source_review", "plan_review"}
        /\ ~jobs[j].cancel
        /\ jobs' = [jobs EXCEPT ![j].status = "awaiting_review", ![j].result = handler.outcome]
        /\ UNCHANGED version
     \/ /\ handler.outcome = "retry"
        /\ ~jobs[j].cancel
        /\ jobs' = [jobs EXCEPT ![j].status = "queued"]
        /\ UNCHANGED version
  /\ handler' = NoHandler
  /\ UNCHANGED <<requests, asked, approved, scripts>>

-----------------------------------------------------------------------------
(* The handlers generate_lecture, translate, regenerate_scene, build_assets *)

To(at) == handler' = [handler EXCEPT !.at = at]
Ends(outcome) ==
  handler' = [NoHandler EXCEPT !.at = "ended", !.job = handler.job, !.outcome = outcome]

TheJob == jobs[handler.job]
Generates == TheJob.kind = "generate_lecture"
Translates == TheJob.kind = "translate"
ChecksSource == Generates /\ TheJob.resume = "source_review"

\* Faulty variant: the revision it was enqueued for.
WrittenAtBase ==
  /\ Translates \/ version.revision = TheJob.base + 1
  /\ version.meta.writer = [job |-> handler.job, revision |-> TheJob.base]

\* written_by_this_job: an earlier attempt saved the current revision.
WrittenByThisJob ==
  /\ Translates \/ version.revision = TheJob.base + 1
  /\ version.meta.writer = [job |-> handler.job, revision |-> version.revision]

\* Faulty variant: the base revision is the one just read.
LoadLatest ==
  /\ handler.at = "load"
  /\ handler' = [handler EXCEPT !.at = "begin",
       !.revision = version.revision, !.text = version.text,
       !.built = version.built, !.meta = version.meta]
  /\ UNCHANGED <<version, jobs, requests, asked, approved, scripts>>

\* The snapshot, and the base revision of the payload; that of a translation
\* has none, so it begins on any revision it did not write.
Load ==
  LET begins == IF Translates THEN ~WrittenByThisJob ELSE version.revision = TheJob.base IN
  /\ handler.at = "load"
  /\ IF begins \/ WrittenByThisJob
     THEN handler' = [handler EXCEPT
            !.at = IF begins THEN "begin" ELSE "resume",
            !.revision = version.revision, !.text = version.text,
            !.built = version.built, !.meta = version.meta]
     ELSE Ends("skipped")
  /\ UNCHANGED <<version, jobs, requests, asked, approved, scripts>>

\* _cas(ctx, vid, {"revision": base}, values); a conflict ends the job.
Cas(values, at) ==
  \/ Current /\ version' = values /\ at
  \/ ~Current /\ UNCHANGED version /\ Ends("skipped")

\* The first write: the status; after a source review also the metadata,
\* without the marker.
Begin ==
  LET meta == IF ChecksSource THEN [handler.meta EXCEPT !.stage = "none"] ELSE handler.meta
      next == IF TheJob.kind = "build_assets" THEN "build"
              ELSE IF Generates /\ (TheJob.resume # "plan_review" \/ meta.plan = NoPlan)
              THEN "plan" ELSE "script"
  IN
  /\ handler.at = "begin"
  /\ Cas([version EXCEPT
            !.status = IF TheJob.kind = "build_assets" THEN "building" ELSE "generating",
            !.meta = IF ChecksSource THEN meta ELSE version.meta],
         handler' = [handler EXCEPT !.at = next, !.meta = meta])
  /\ UNCHANGED <<jobs, requests, asked, approved, scripts>>

\* _resume_build: the script is saved, its build goes on.
ResumeBuild ==
  /\ handler.at = "resume"
  /\ Cas([version EXCEPT !.status = "building"], To("build"))
  /\ UNCHANGED <<jobs, requests, asked, approved, scripts>>

\* Brief and plan. Only a continuation applies the teacher's corrections; a
\* source review comes before the plan.
Plan ==
  LET notes == IF TheJob.resume = "none" THEN 0 ELSE handler.meta.notes
      next == IF "source" \in asked /\ TheJob.resume = "none" THEN "pause_source"
              ELSE IF "plan" \in asked THEN "pause_plan" ELSE "script"
  IN
  /\ handler.at = "plan"
  /\ IF Current
     THEN handler' = [handler EXCEPT !.at = next,
            !.meta.plan = IF next = "pause_source" THEN @ ELSE [notes |-> notes, edit |-> 0]]
     ELSE Ends("skipped")
  /\ UNCHANGED <<version, jobs, requests, asked, approved, scripts>>

PauseForSource ==             \* _pause_for_source_review
  /\ handler.at = "pause_source"
  /\ Cas([version EXCEPT !.status = "awaiting_review",
            !.meta = [handler.meta EXCEPT !.stage = "source"]],
         Ends("source_review"))
  /\ UNCHANGED <<jobs, requests, asked, approved, scripts>>

PauseForPlan ==
  /\ handler.at = "pause_plan"
  /\ Cas([version EXCEPT !.status = "awaiting_review", !.meta = handler.meta],
         Ends("plan_review"))
  /\ UNCHANGED <<jobs, requests, asked, approved, scripts>>

\* writer_mark; the plan is only kept while awaiting review, and a translation
\* has metadata of its own.
Signed(revision) ==
  [IF Translates THEN NewMeta ELSE handler.meta EXCEPT
     !.writer = [job |-> handler.job, revision |-> revision],
     !.plan = IF Generates THEN NoPlan ELSE @]

WriteScript ==
  LET new == handler.revision + 1 IN
  /\ handler.at = "script"
  /\ Cas([version EXCEPT !.status = "building", !.revision = new,
            !.text = version.text + 1, !.meta = Signed(new)],
         handler' = [handler EXCEPT !.at = "build", !.revision = new,
                       !.text = version.text + 1, !.meta = Signed(new)])
  /\ scripts' = IF Current THEN [scripts EXCEPT ![handler.job] = @ + 1] ELSE scripts
  /\ UNCHANGED <<jobs, requests, asked, approved>>

\* _final_values. The timeline may fail; a build of some scenes that reused
\* changed ones does not count as a build of the revision.
FinishBuild ==
  /\ handler.at = "build"
  /\ \E timeline \in BOOLEAN, complete \in BOOLEAN :
       /\ complete \/ TheJob.kind = "build_assets"
       /\ Cas([version EXCEPT !.status = "ready", !.meta = handler.meta,
                 !.film = IF timeline THEN handler.text ELSE version.film,
                 !.built = IF timeline /\ complete THEN handler.revision ELSE version.built],
              Ends("succeeded"))
  /\ UNCHANGED <<jobs, requests, asked, approved, scripts>>

\* _mark_failed: the version is failed, or as it was before the job.
Marked ==
  LET statuses == CASE Generates \/ Translates -> Transient
                    [] TheJob.kind = "regenerate_scene" -> {"generating", "building"}
                    [] TheJob.kind = "build_assets" -> {"building"}
      restored == IF ~(Generates \/ Translates) /\ handler.built # 0 THEN "ready" ELSE "failed"
  IN IF version.status \in statuses THEN [version EXCEPT !.status = restored] ELSE version

Working == {"begin", "resume", "plan", "pause_source", "pause_plan", "script", "build"}

\* _guard: the version is marked only when the job really ends.
Fail ==
  /\ handler.at \in Working
  /\ \/ /\ TheJob.attempts < JobMaxAttempts
        /\ ~TheJob.cancel
        /\ UNCHANGED version
        /\ Ends("retry")
     \/ ~TheJob.cancel /\ version' = Marked /\ Ends("failed")
     \/ TheJob.cancel /\ version' = Marked /\ Ends("cancelled")
  /\ UNCHANGED <<jobs, requests, asked, approved, scripts>>

-----------------------------------------------------------------------------
(* Requests: a read with its checks, then one transaction that writes *)

Read(q, op, j) ==
  requests' = [requests EXCEPT ![q] =
    [op |-> op, revision |-> version.revision, job |-> j,
     meta |-> IF op \in {"save_plan", "save_source"} THEN version.meta ELSE NewMeta]]

Done(q) == requests' = [requests EXCEPT ![q] = NoRequest]

AwaitsSource == version.status = "awaiting_review" /\ version.meta.stage = "source"

\* The awaiting generation, 0 when there is none.
Waiting ==
  LET waiting == {j \in JobIds : jobs[j].status = "awaiting_review"}
  IN IF waiting = {} THEN 0 ELSE CHOOSE j \in waiting : \A k \in waiting : k <= j

Enqueue(kind, base, resume, ended) ==
  \E n \in JobIds :
    /\ IsNextId(n)
    /\ jobs' = [j \in JobIds |-> IF j = n THEN NewJob(kind, base, resume)
                                 ELSE IF j = ended THEN Over(j, "succeeded")
                                 ELSE jobs[j]]

ReadPlan(q) ==                \* save_plan
  /\ version.status = "awaiting_review"
  /\ ~AwaitsSource
  /\ Read(q, "save_plan", 0)

\* Faulty variant: the status was checked when the version was read.
SavePlanLate(q) ==
  /\ requests[q].op = "save_plan"
  /\ \E e \in Edits : version' = [version EXCEPT !.meta =
                                    [requests[q].meta EXCEPT !.plan.edit = e]]
  /\ UNCHANGED <<jobs, approved>>

SavePlan(q) ==                \* compare-and-set on the status
  /\ requests[q].op = "save_plan"
  /\ IF version.status = "awaiting_review"
     THEN \E e \in Edits : version' = [version EXCEPT !.meta =
                                        [requests[q].meta EXCEPT !.plan.edit = e]]
     ELSE UNCHANGED version
  /\ UNCHANGED <<jobs, approved>>

ReadSource(q) ==              \* save_source_review
  /\ AwaitsSource
  /\ Read(q, "save_source", 0)

SaveSource(q) ==              \* compare-and-set on the status
  /\ requests[q].op = "save_source"
  /\ IF version.status = "awaiting_review"
     THEN \E n \in Edits : version' = [version EXCEPT !.meta =
                                        [requests[q].meta EXCEPT !.notes = n]]
     ELSE UNCHANGED version
  /\ UNCHANGED <<jobs, approved>>

\* approve_plan refuses while either side says the source is under review,
\* approve_source unless both do.
ReadApproval(q) ==
  /\ version.status = "awaiting_review"
  /\ Waiting # 0
  /\ (jobs[Waiting].result = "source_review") = AwaitsSource
  /\ Read(q, "approve", Waiting)

\* The status, the waiting job (complete_review) and its continuation.
Approve(q) ==
  LET seen == requests[q] IN
  /\ seen.op = "approve"
  /\ IF version.status = "awaiting_review" /\ jobs[seen.job].status = "awaiting_review"
     THEN /\ version' = [version EXCEPT !.status = "generating"]
          /\ Enqueue("generate_lecture", seen.revision, jobs[seen.job].result, seen.job)
          /\ approved' = version.meta.plan
     ELSE UNCHANGED <<version, jobs, approved>>

\* Any request that will edit the screenplay or enqueue work on it; which
\* one shows when it commits.
ReadScreenplay(q) ==
  /\ version.text # 0
  /\ version.revision < MaxRevision
  /\ Read(q, "change", 0)

\* Faulty variants: the revision is not compared; it is not raised.
SaveOverwrites(q) ==
  /\ requests[q].op = "change"
  /\ IF ActiveJobs = {}
     THEN version' = [version EXCEPT !.revision = @ + 1, !.text = @ + 1]
     ELSE UNCHANGED version
  /\ UNCHANGED <<jobs, approved>>

SaveInPlace(q) ==
  /\ requests[q].op = "change"
  /\ IF version.revision = requests[q].revision /\ ActiveJobs = {}
     THEN version' = [version EXCEPT !.text = @ + 1]
     ELSE UNCHANGED version
  /\ UNCHANGED <<jobs, approved>>

\* put_screenplay, and write_screenplay of the visual review: on the
\* revision, while no job changes the version.
SaveScreenplay(q) ==
  /\ requests[q].op = "change"
  /\ IF version.revision = requests[q].revision /\ ActiveJobs = {}
     THEN version' = [version EXCEPT !.revision = @ + 1, !.text = @ + 1]
     ELSE UNCHANGED version
  /\ UNCHANGED <<jobs, approved>>

\* visual_action "new_version": the edited screenplay and its build.
NewVisual(q) ==
  /\ requests[q].op = "change"
  /\ IF version.revision = requests[q].revision /\ ActiveJobs = {}
     THEN /\ version' = [version EXCEPT !.revision = @ + 1, !.text = @ + 1]
          /\ Enqueue("build_assets", version.revision + 1, "none", 0)
     ELSE UNCHANGED <<version, jobs>>
  /\ UNCHANGED approved

\* POST /build and /scenes/{id}/regenerate: the job gets the revision read.
EnqueueWork(q) ==
  /\ requests[q].op = "change"
  /\ \E kind \in {"build_assets", "regenerate_scene"} :
       IF ActiveJobs = {} THEN Enqueue(kind, requests[q].revision, "none", 0)
       ELSE UNCHANGED jobs
  /\ UNCHANGED <<version, approved>>

Starts(q) ==
  /\ requests[q].op = "none"
  /\ \/ ReadPlan(q) \/ ReadSource(q) \/ ReadApproval(q)
     \/ ReadScreenplay(q)
  /\ UNCHANGED <<version, jobs, handler, asked, approved, scripts>>

Commits(q) ==
  /\ \/ SavePlan(q) \/ SaveSource(q) \/ Approve(q)
     \/ SaveScreenplay(q) \/ NewVisual(q) \/ EnqueueWork(q)
  /\ Done(q)
  /\ UNCHANGED <<handler, asked, scripts>>

-----------------------------------------------------------------------------
\* create_version
NewVersion ==
  [status |-> "generating", revision |-> 1, text |-> 0, built |-> 0, film |-> 0, meta |-> NewMeta]

\* A project is created or generated again, or a version is translated: the
\* new version and its first job. (An imported lecture starts like a
\* generated one whose screenplay was just edited.)
Init ==
  /\ version = NewVersion
  /\ \/ /\ jobs = [NoJobs EXCEPT ![1] = NewJob("generate_lecture", 1, "none")]
        /\ asked \in SUBSET Asks
     \/ /\ jobs = [NoJobs EXCEPT ![1] = NewJob("translate", 0, "none")]
        /\ asked = {}
  /\ handler = NoHandler
  /\ requests = [q \in Requests |-> NoRequest]
  /\ approved = NoPlan
  /\ scripts = [j \in JobIds |-> 0]

Handler ==
  \/ Load \/ Begin \/ ResumeBuild \/ Plan \/ PauseForSource \/ PauseForPlan
  \/ WriteScript \/ FinishBuild \/ Fail

Next ==
  \/ Handler \/ Persist \/ Crash
  \/ \E j \in JobIds : Claim(j) \/ Recover(j) \/ RequestCancel(j) \/ RetryJob(j)
  \/ \E q \in Requests : Starts(q) \/ Commits(q)

Spec == Init /\ [][Next]_vars

-----------------------------------------------------------------------------
(* The next step offered to the teacher: derive (stage.py), first match wins *)

Works(j) == jobs[j].status \in {"queued", "running"}

NextStep ==
  CASE AwaitsSource -> "review_source"
    [] version.status = "awaiting_review" /\ ~AwaitsSource -> "review_plan"
    [] version.status \in {"generating", "building"} \/ \E j \in JobIds : Works(j) -> "wait"
    [] version.status = "failed" -> "retry"
    [] version.built # version.revision -> "build"
    [] OTHER -> "render"

-----------------------------------------------------------------------------
(* Properties *)

PlanType == [notes : Edits, edit : Edits] \cup {NoPlan}
MetaType == [stage : {"none", "source"}, plan : PlanType, notes : Edits,
             writer : [job : JobIds \cup {0}, revision : Nat]]
JobType == [kind : Kinds \cup {"none"}, status : Active \cup Retryable \cup {"absent", "succeeded"},
            attempts : 0..JobMaxAttempts, base : Nat,
            resume : {"none", "source_review", "plan_review"},
            result : {"none", "source_review", "plan_review"},
            cancel : BOOLEAN, retried : BOOLEAN, retryOf : JobIds \cup {0}, skipped : BOOLEAN]

\* The rows, the snapshot and what requests have read have their shapes.
TypeOK ==
  /\ version \in [status : Transient \cup {"ready", "failed"}, revision : Nat \ {0},
                  text : Nat, built : Nat, film : Nat, meta : MetaType]
  /\ jobs \in [JobIds -> JobType]
  /\ handler \in [at : Working \cup {"idle", "load", "ended"}, job : JobIds \cup {0},
                  revision : Nat, text : Nat, built : Nat, meta : MetaType,
                  outcome : {"none", "succeeded", "skipped", "source_review", "plan_review",
                             "retry", "failed", "cancelled"}]
  /\ requests \in [Requests -> [op : {"none", "save_plan", "save_source", "approve", "change"},
                                revision : Nat, meta : MetaType, job : JobIds \cup {0}]]
  /\ asked \subseteq Asks
  /\ approved \in PlanType
  /\ scripts \in [JobIds -> Nat]

\* "The teacher's edits": the lecture is written from the plan that was
\* approved, whatever was saved, cancelled or retried around it. (A late save
\* of the source review can remove the plan under review; approving then
\* approves none, and the lecture is planned anew. ReviewsAgree is about
\* corrections that come after their review.)
ApprovedPlanIsWritten ==
  handler.at = "script" /\ TheJob.resume = "plan_review" /\ approved # NoPlan
    => handler.meta.plan = approved

\* A retried attempt does not write the screenplay again.
ScriptOnce == \A j \in JobIds : scripts[j] <= 1

\* written_by_this_job: a job never stops because of its own earlier write.
OwnWriteResumes ==
  \A j \in JobIds : jobs[j].skipped
    => version.meta.writer # [job |-> j, revision |-> version.revision]

\* A render is offered only of the screenplay as it is: whoever edits, builds
\* or is retried, "built from this revision" means built from this text.
RenderIsCurrent == NextStep = "render" => version.film = version.text

\* Nobody replaces a screenplay that somebody else saved after he read it.
NoLostEdit ==
  [][version'.text # version.text =>
       \/ handler.at = "script" /\ handler.text = version.text
       \/ \E q \in Requests : /\ requests[q].op \in {"change"}
                              /\ requests'[q].op = "none"
                              /\ requests[q].revision = version.revision]_vars

\* API.md, "Lesson stage": a failed version offers the retry of its failed
\* job. The retry does the work unless somebody else changed the version.
RetryGoesOn ==
  \A j \in JobIds : jobs[j].skipped /\ jobs[j].retryOf # 0
    => version.meta.writer # [job |-> jobs[j].retryOf, revision |-> version.revision]

\* save_source_review: "a concurrent approval is never overwritten": what the
\* version waits for is what its waiting job waits for.
ReviewsAgree ==
  version.status = "awaiting_review" /\ Waiting # 0
    => (jobs[Waiting].result = "source_review") = AwaitsSource

-----------------------------------------------------------------------------
(* Liveness: workers go on, lost leases are recovered. *)

Fairness ==
  /\ WF_vars(Handler) /\ WF_vars(Persist)
  /\ \A j \in JobIds : WF_vars(Claim(j)) /\ WF_vars(Recover(j))

FairSpec == Spec /\ Fairness

\* A version in progress comes to a state the teacher can act on.
ProgressEnds ==
  version.status \in {"generating", "building"}
    ~> version.status \in {"ready", "failed", "awaiting_review"}

=============================================================================
