------------------------------ MODULE JobQueue ------------------------------
(***************************************************************************)
(* The durable job queue (aadhi/jobs): the rows of the jobs table, the     *)
(* version and render rows a transition settles in its own transaction,    *)
(* the worker processes that claim jobs under a lease, and the maintenance *)
(* thread that recovers the jobs of dead or silent workers.                *)
(*                                                                         *)
(* One action is one committed transaction or one step of a process.       *)
(* Under READ COMMITTED (PostgreSQL) the statements of a transaction that  *)
(* took no row lock can be interleaved with another session's commit, so   *)
(* the transitions "cancel if requested, else ..." take two steps; with a  *)
(* single writer lock (SQLite) they take one.                              *)
(***************************************************************************)
EXTENDS Integers, FiniteSets

CONSTANTS
  Workers,          \* worker processes (one job thread each)
  Reapers,          \* bound: worker processes whose maintenance thread takes steps
  Hosts, HostOf,    \* the machine each worker process runs on
  Versions,         \* ProjectVersion rows
  Renders,          \* Render rows
  JobKinds,         \* bound: kinds of job that requests create
  MaxJobs,          \* bound: rows ever inserted into jobs
  JobMaxAttempts,   \* Settings.job_max_attempts
  MaxBoots,         \* bound: starts of one worker process
  ReadCommitted,    \* TRUE: PostgreSQL, FALSE: SQLite's single writer
  NoVersion, NoRender

ASSUME ConstantsAssumption ==
  /\ MaxJobs \in Nat
  /\ JobMaxAttempts \in Nat \ {0}
  /\ MaxBoots \in Nat
  /\ ReadCommitted \in BOOLEAN
  /\ HostOf \in [Workers -> Hosts]
  /\ Reapers \subseteq Workers
  /\ NoVersion \notin Versions
  /\ NoRender \notin Renders

VARIABLES
  jobs,       \* jobs[i]: the row with id i
  versions,   \* versions[v]: status and whether built_revision is set
  renders,    \* renders[r]: status and job_id
  workers,    \* workers[w]: the job thread and its DBJobContext
  maint,      \* maint[w]: the maintenance thread
  writer      \* writer[v]: lease token of the last handler write (history)

vars == <<jobs, versions, renders, workers, maint, writer>>

-----------------------------------------------------------------------------
(* Rows *)

JobIds == 1..MaxJobs
MutatingKinds == {"generate_lecture", "build_assets"}
Kinds == MutatingKinds \cup {"render_video", "cleanup"}
Active == {"queued", "running", "awaiting_review"}
Terminal == {"succeeded", "failed", "cancelled"}
Retryable == {"failed", "cancelled"}
JobStatus == Active \cup Terminal \cup {"absent"}
\* "busy" stands for the statuses generating and building.
Transient == {"busy", "awaiting_review"}
VersionStatus == Transient \cup {"absent", "ready", "failed"}
RenderStatus == {"absent", "queued", "running"} \cup Terminal

\* "host:pid:boot_uuid:thread"; a restarted process has a new boot id.
OwnerIds == [worker : Workers, boot : Nat]
NoOwner == [worker |-> "none", boot |-> 0]
Owners == OwnerIds \cup {NoOwner}
Self(w) == [worker |-> w, boot |-> workers[w].boot]

Leases == [job : JobIds \cup {0}, owner : Owners, attempt : Nat]
NoLease == [job |-> 0, owner |-> NoOwner, attempt |-> 0]

Priority(kind) == IF kind = "cleanup" THEN 500 ELSE 100

NewRow(kind, v, r) ==
  [status |-> "queued", kind |-> kind, version |-> v, render |-> r,
   owner |-> NoOwner, attempts |-> 0, max |-> JobMaxAttempts,
   fresh |-> TRUE, due |-> TRUE, cancel |-> FALSE, retried |-> FALSE]

AbsentRow == [NewRow("cleanup", NoVersion, NoRender) EXCEPT !.status = "absent"]

IsMutating(j) == jobs[j].kind \in MutatingKinds
ActiveFor(v) == {j \in JobIds : /\ jobs[j].status \in Active
                                /\ IsMutating(j)
                                /\ jobs[j].version = v}

\* Faulty variant: the fence looks at the status only.
HoldsByStatus(l) == l.job \in JobIds /\ jobs[l.job].status = "running"

\* lease.fence: the predicate of every write made on behalf of a running job.
Holds(l) ==
  /\ l.job \in JobIds
  /\ jobs[l.job].status = "running"
  /\ jobs[l.job].owner = l.owner
  /\ jobs[l.job].attempts = l.attempt

\* The id the next INSERT gets.
IsNextId(j) ==
  /\ jobs[j].status = "absent"
  /\ \A k \in JobIds : k < j => jobs[k].status # "absent"

-----------------------------------------------------------------------------
(* Transitions of a job row and the rows settled in the same transaction *)

\* A row without a lock: locked_by, locked_at and heartbeat_at are cleared.
Unlocked(row) == [row EXCEPT !.owner = NoOwner, !.fresh = TRUE]

WithStatus(row, s) == [Unlocked(row) EXCEPT !.status = s]

\* A row that is over. Its attempts and its cancel flag are not read again,
\* so they are put back to what a new row has.
Over(row, s) ==
  [WithStatus(row, s) EXCEPT !.attempts = 0, !.max = JobMaxAttempts,
                             !.due = TRUE, !.cancel = FALSE]

Requeued(row, due, refund) ==
  [WithStatus(row, "queued") EXCEPT !.due = due, !.max = row.max + refund]

\* Faulty variant: the version is left alone.
SettleNothing(j) == versions

\* settle_version: the version of a mutating job that just ended leaves a
\* transient status unless another mutating job is active for it.
SettleVersion(j) ==
  LET v == jobs[j].version IN
  IF /\ IsMutating(j)
     /\ v \in Versions
     /\ versions[v].status \in Transient
     /\ ActiveFor(v) \subseteq {j}
  THEN [versions EXCEPT ![v].status = IF versions[v].built THEN "ready" ELSE "failed"]
  ELSE versions

\* settle_render: the render of a render job that failed or was cancelled
\* outside its handler leaves queued / running.
SettleRender(j, s) ==
  [r \in Renders |->
    IF /\ jobs[j].kind = "render_video"
       /\ s \in Retryable
       /\ renders[r].job = j
       /\ renders[r].status \in {"queued", "running"}
    THEN [renders[r] EXCEPT !.status = s]
    ELSE renders[r]]

\* The job ends with status s; its version and render are settled with it.
End(j, s) ==
  /\ jobs' = [jobs EXCEPT ![j] = Over(jobs[j], s)]
  /\ versions' = SettleVersion(j)
  /\ renders' = SettleRender(j, s)

\* The job goes back to the queue; refund raises max_attempts.
Requeue(j, due, refund) ==
  /\ jobs' = [jobs EXCEPT ![j] = Requeued(jobs[j], due, refund)]
  /\ UNCHANGED <<versions, renders>>

AwaitReview(j) ==
  /\ jobs' = [jobs EXCEPT ![j] = WithStatus(jobs[j], "awaiting_review")]
  /\ UNCHANGED <<versions, renders>>

NoWrite == UNCHANGED <<jobs, versions, renders>>

-----------------------------------------------------------------------------
(* Requests of the API *)

Insert(kind, v, r, j) ==
  /\ kind \in JobKinds
  /\ IsNextId(j)
  /\ jobs' = [jobs EXCEPT ![j] = NewRow(kind, v, r)]

\* A new version and the job that fills it: POST /projects and /translate
\* (generate_lecture, status generating), import (build_assets, status
\* building).
CreateVersion(v, kind) ==
  /\ versions[v].status = "absent"
  /\ \E j \in JobIds : Insert(kind, v, NoRender, j)
  /\ versions' = [versions EXCEPT ![v].status = "busy"]
  /\ UNCHANGED <<renders, workers, maint, writer>>

\* build / regenerate_scene on a version that exists: JobInProgress while
\* another mutating job is active for it (uq_jobs_active_version).
EnqueueBuild(v) ==
  /\ versions[v].status # "absent"
  /\ ActiveFor(v) = {}
  /\ \E j \in JobIds : Insert("build_assets", v, NoRender, j)
  /\ UNCHANGED <<versions, renders, workers, maint, writer>>

\* POST /render: the Render row and its job (admission: see RenderJobs).
EnqueueRender(r, v) ==
  /\ renders[r].status = "absent"
  /\ versions[v].built
  /\ \E j \in JobIds :
       /\ Insert("render_video", v, r, j)
       /\ renders' = [renders EXCEPT ![r] = [status |-> "queued", job |-> j]]
  /\ UNCHANGED <<versions, workers, maint, writer>>

\* ensure_cleanup_scheduled: one atomic INSERT ... WHERE NOT EXISTS.
EnqueueCleanup ==
  /\ \A j \in JobIds : jobs[j].kind = "cleanup" => jobs[j].status \notin Active
  /\ \E j \in JobIds : Insert("cleanup", NoVersion, NoRender, j)
  /\ UNCHANGED <<versions, renders, workers, maint, writer>>

\* Faulty variant: every job that is not running is cancelled at once.
CancelAnyIdle(j) ==
  /\ jobs[j].status \notin {"absent", "running"}
  /\ jobs' = [jobs EXCEPT ![j] = Over(jobs[j], "cancelled")]
  /\ versions' = SettleVersion(j)
  /\ renders' = SettleRender(j, "cancelled")
  /\ UNCHANGED <<workers, maint, writer>>

\* request_cancel: at once unless a worker runs the job, then only a flag.
RequestCancel(j) ==
  /\ \/ /\ jobs[j].status \in {"queued", "awaiting_review"}
        /\ jobs' = [jobs EXCEPT ![j] = Over(jobs[j], "cancelled")]
        /\ versions' = SettleVersion(j)
        /\ renders' = SettleRender(j, "cancelled")
     \/ /\ jobs[j].status = "running"
        /\ ~jobs[j].cancel
        /\ jobs' = [jobs EXCEPT ![j].cancel = TRUE]
        /\ UNCHANGED <<versions, renders>>
  /\ UNCHANGED <<workers, maint, writer>>

\* retry_job: the old job is claimed (error_code := 'retried') and a copy is
\* inserted; JobInProgress undoes the claim, so the request changes nothing.
\* A retried render row follows its new job (api/routers/jobs.retry).
RetryJob(j) ==
  /\ jobs[j].status \in Retryable
  /\ ~jobs[j].retried
  /\ IsMutating(j) => ActiveFor(jobs[j].version) = {}
  /\ \E n \in JobIds :
       /\ IsNextId(n)
       /\ jobs' = [jobs EXCEPT ![j].retried = TRUE,
                     ![n] = NewRow(jobs[j].kind, jobs[j].version, jobs[j].render)]
       /\ renders' = IF jobs[j].render = NoRender THEN renders
                     ELSE [renders EXCEPT ![jobs[j].render] = [status |-> "queued", job |-> n]]
  /\ UNCHANGED <<versions, workers, maint, writer>>

\* Faulty variant: the continuation is queued and the waiting job kept.
ApproveAndWait(j) ==
  /\ jobs[j].status = "awaiting_review"
  /\ versions[jobs[j].version].status = "awaiting_review"
  /\ \E n \in JobIds :
       /\ IsNextId(n)
       /\ jobs' = [jobs EXCEPT ![n] = NewRow("generate_lecture", jobs[j].version, NoRender)]
  /\ versions' = [versions EXCEPT ![jobs[j].version].status = "busy"]
  /\ UNCHANGED <<renders, workers, maint, writer>>

\* approve_plan / approve_source: version awaiting_review -> generating,
\* the waiting job succeeds (complete_review) and a continuation is queued.
ApproveReview(j) ==
  /\ jobs[j].status = "awaiting_review"
  /\ jobs[j].kind = "generate_lecture"
  /\ versions[jobs[j].version].status = "awaiting_review"
  /\ \E n \in JobIds :
       /\ IsNextId(n)
       /\ jobs' = [jobs EXCEPT ![j] = Over(jobs[j], "succeeded"),
                     ![n] = NewRow("generate_lecture", jobs[j].version, NoRender)]
  /\ versions' = [versions EXCEPT ![jobs[j].version].status = "busy"]
  /\ UNCHANGED <<renders, workers, maint, writer>>

-----------------------------------------------------------------------------
(* Time *)

\* run_after passes.
BackoffElapses(j) ==
  /\ jobs[j].status = "queued"
  /\ ~jobs[j].due
  /\ jobs' = [jobs EXCEPT ![j].due = TRUE]
  /\ UNCHANGED <<versions, renders, workers, maint, writer>>

\* No heartbeat for JOB_STALE_SECONDS: the worker is gone, frozen, or could
\* not reach the database.
HeartbeatGoesStale(j) ==
  /\ jobs[j].status = "running"
  /\ jobs[j].fresh
  /\ jobs' = [jobs EXCEPT ![j].fresh = FALSE]
  /\ UNCHANGED <<versions, renders, workers, maint, writer>>

-----------------------------------------------------------------------------
(* Worker threads *)

Phases == {"down", "idle", "claimed", "running", "persisting", "writing"}
Outcomes == {"none", "succeeded", "failed", "cancelled", "awaiting_review",
             "release", "retry", "retry_if_left", "lost"}

\* seen / lost: ctx.cancel_requested / ctx.lease_lost; stopping:
\* Worker._stopping; shutdown: ctx.request_shutdown; max: read by open.
FreshWorker(boot, phase) ==
  [phase |-> phase, boot |-> boot, lease |-> NoLease, max |-> 0, seen |-> FALSE,
   lost |-> FALSE, stopping |-> FALSE, shutdown |-> FALSE, outcome |-> "none"]

Up(w) == workers[w].phase # "down"

\* The thread is done with its job and polls again.
Idle(w) == [FreshWorker(workers[w].boot, "idle") EXCEPT !.stopping = workers[w].stopping]

ToIdle(w) == workers' = [workers EXCEPT ![w] = Idle(w)]

\* The flags of the context are not read again once the outcome is decided.
ToOutcome(w, o) ==
  workers' = [workers EXCEPT ![w] = [workers[w] EXCEPT
                !.phase = "persisting", !.outcome = o,
                !.max = 0, !.seen = FALSE, !.lost = FALSE, !.shutdown = FALSE]]

Claimable == {j \in JobIds : jobs[j].status = "queued" /\ jobs[j].due}

\* ORDER BY priority, id LIMIT 1
FirstClaimable(j) ==
  /\ j \in Claimable
  /\ \A k \in Claimable :
       \/ Priority(jobs[j].kind) < Priority(jobs[k].kind)
       \/ Priority(jobs[j].kind) = Priority(jobs[k].kind) /\ j <= k

Claimed(row, owner) ==
  [row EXCEPT !.status = "running", !.owner = owner, !.fresh = TRUE,
              !.attempts = row.attempts + 1]

Claim(w) ==
  /\ workers[w].phase = "idle"
  /\ ~workers[w].stopping
  /\ \E j \in JobIds :
       /\ FirstClaimable(j)
       /\ jobs' = [jobs EXCEPT ![j] = Claimed(jobs[j], Self(w))]
       /\ workers' = [workers EXCEPT ![w].phase = "claimed", ![w].lease =
                        [job |-> j, owner |-> Self(w), attempt |-> jobs[j].attempts + 1]]
  /\ UNCHANGED <<versions, renders, maint, writer>>

\* DBJobContext.open, and the checks of Worker.process before the handler:
\* the lease may be lost, loading may fail, the worker may be stopping, the
\* kind may have no handler or a document be from a newer build.
Open(w) ==
  LET l == workers[w].lease IN
  /\ workers[w].phase = "claimed"
  /\ \/ ~Holds(l) /\ ToIdle(w)
     \/ /\ Holds(l)
        /\ ~workers[w].stopping
        /\ workers' = [workers EXCEPT ![w].phase = "running",
                         ![w].max = jobs[l.job].max, ![w].seen = jobs[l.job].cancel]
     \/ Holds(l) /\ workers[w].stopping /\ ToOutcome(w, "release")
     \/ \E o \in {"retry_if_left", "failed"} : ToOutcome(w, o)
  /\ UNCHANGED <<jobs, versions, renders, maint, writer>>

\* A handler's compare-and-set on its version: assert_lease beats the heart
\* in the same transaction, or marks the lease lost and writes nothing. The
\* pause for review follows the write of awaiting_review immediately.
HandlerWritesVersion(w, s) ==
  LET l == workers[w].lease
      v == jobs[l.job].version IN
  /\ workers[w].phase = "running"
  /\ IsMutating(l.job)
  /\ IF Holds(l)
     THEN /\ jobs' = [jobs EXCEPT ![l.job].fresh = TRUE]
          /\ \E b \in (IF s = "ready" THEN {versions[v].built, TRUE} ELSE {versions[v].built}) :
               versions' = [versions EXCEPT ![v] = [status |-> s, built |-> b]]
          /\ writer' = [writer EXCEPT ![v] = [job |-> l.job, attempt |-> l.attempt]]
          /\ s = "awaiting_review" => jobs[l.job].kind = "generate_lecture"
          /\ IF s = "awaiting_review" THEN ToOutcome(w, "awaiting_review")
                                     ELSE UNCHANGED workers
     ELSE /\ workers' = [workers EXCEPT ![w].lost = TRUE]
          /\ UNCHANGED <<jobs, versions, writer>>
  /\ UNCHANGED <<renders, maint>>

\* Worker._execute: what the handler did, mapped to an outcome.
HandlerReturns(w) ==
  /\ workers[w].phase = "running"
  /\ ToOutcome(w, "succeeded")
  /\ UNCHANGED <<jobs, versions, renders, maint, writer>>

HandlerFailsForGood(w) ==     \* FatalJobError, BudgetExceeded, NewerDocumentError
  /\ workers[w].phase = "running"
  /\ ToOutcome(w, "failed")
  /\ UNCHANGED <<jobs, versions, renders, maint, writer>>

HandlerRaises(w) ==           \* Worker._error_outcome
  /\ workers[w].phase = "running"
  /\ ToOutcome(w, IF workers[w].lost THEN "lost"
                  ELSE IF workers[w].seen THEN "cancelled"
                  ELSE IF workers[w].lease.attempt < workers[w].max THEN "retry"
                  ELSE "failed")
  /\ UNCHANGED <<jobs, versions, renders, maint, writer>>

\* check_cancelled raised, or the watcher cancelled a handler that ignored
\* the stop for the grace period: Worker._cancel_outcome.
HandlerStops(w) ==
  /\ workers[w].phase = "running"
  /\ workers[w].lost \/ workers[w].seen \/ workers[w].shutdown
  /\ ToOutcome(w, IF workers[w].lost THEN "lost"
                  ELSE IF workers[w].seen THEN "cancelled" ELSE "release")
  /\ UNCHANGED <<jobs, versions, renders, maint, writer>>

\* The handler lost a race of its own and stops itself (lease_lost), or an
\* exit exception is raised in it while the worker is stopping.
HandlerQuits(w) ==
  /\ workers[w].phase = "running"
  /\ \/ ToOutcome(w, IF workers[w].lost THEN "lost" ELSE "cancelled")
     \/ workers[w].stopping /\ ToOutcome(w, "release")
  /\ UNCHANGED <<jobs, versions, renders, maint, writer>>

\* Faulty variant: the pause for a review does not look at the pending cancel.
PersistOverCancel(w) ==
  LET l == workers[w].lease
      o == workers[w].outcome IN
  /\ workers[w].phase = "persisting"
  /\ IF o = "lost" \/ ~Holds(l) THEN NoWrite /\ ToIdle(w)
     ELSE IF o \in Terminal THEN End(l.job, o) /\ ToIdle(w)
     ELSE IF jobs[l.job].cancel /\ o # "awaiting_review"
          THEN End(l.job, "cancelled") /\ ToIdle(w)
     ELSE NoWrite /\ workers' = [workers EXCEPT ![w].phase = "writing"]
  /\ UNCHANGED <<maint, writer>>

\* Worker._persist up to the first statement of _transition. Without the
\* lease nothing is written; a pending cancel wins over retry, release and
\* review; fallback: the database refuses the result, so the job fails.
Persist(w) ==
  LET l == workers[w].lease
      o == workers[w].outcome IN
  /\ workers[w].phase = "persisting"
  /\ \/ /\ (o = "lost" \/ ~Holds(l))
        /\ NoWrite
        /\ ToIdle(w)
     \/ /\ o \in Terminal
        /\ Holds(l)
        /\ End(l.job, o)
        /\ ToIdle(w)
     \/ /\ o \in {"succeeded", "awaiting_review"}
        /\ NoWrite
        /\ ToOutcome(w, "failed")
     \/ /\ o \in {"awaiting_review", "release", "retry", "retry_if_left"}
        /\ Holds(l)
        /\ jobs[l.job].cancel
        /\ End(l.job, "cancelled")
        /\ ToIdle(w)
     \/ /\ o \in {"awaiting_review", "release", "retry", "retry_if_left"}
        /\ Holds(l)
        /\ ~jobs[l.job].cancel
        /\ NoWrite
        /\ workers' = [workers EXCEPT ![w].phase = "writing"]
  /\ UNCHANGED <<maint, writer>>

\* The second statement of requeue_job, release_job and mark_awaiting_review.
Write(w) ==
  LET l == workers[w].lease
      o == workers[w].outcome IN
  /\ workers[w].phase = "writing"
  /\ \/ ~Holds(l) /\ NoWrite
     \/ Holds(l) /\ o = "awaiting_review" /\ AwaitReview(l.job)
     \/ Holds(l) /\ o = "release" /\ Requeue(l.job, TRUE, 1)
     \/ Holds(l) /\ o = "retry" /\ Requeue(l.job, FALSE, 0)
     \/ /\ Holds(l) /\ o = "retry_if_left"
        /\ IF jobs[l.job].attempts < jobs[l.job].max
           THEN Requeue(l.job, FALSE, 0) ELSE End(l.job, "failed")
  /\ ToIdle(w)
  /\ UNCHANGED <<maint, writer>>

\* The outcome could not be recorded before the deadline: the lease is left
\* to the reaper.
GiveUp(w) ==
  /\ workers[w].phase \in {"persisting", "writing"}
  /\ ToIdle(w)
  /\ UNCHANGED <<jobs, versions, renders, maint, writer>>

\* HeartbeatService: touch every registered lease (from the start of the
\* handler until its outcome is recorded). ctx.close stops the flags only.
Registered == {"running", "persisting", "writing"}

Observed(w) ==
  IF workers[w].phase # "running" THEN workers
  ELSE IF Holds(workers[w].lease)
  THEN [workers EXCEPT ![w].seen = workers[w].seen \/ jobs[workers[w].lease.job].cancel]
  ELSE [workers EXCEPT ![w].lost = TRUE]

BeatOnce(w) ==
  /\ workers[w].phase \in Registered
  /\ jobs' = IF Holds(workers[w].lease)
             THEN [jobs EXCEPT ![workers[w].lease.job].fresh = TRUE] ELSE jobs
  /\ workers' = Observed(w)
  /\ UNCHANGED <<versions, renders, maint, writer>>

RefreshFlags(w) ==            \* refresh_flags_once: a SELECT between two beats
  /\ workers[w].phase = "running"
  /\ workers' = Observed(w)
  /\ UNCHANGED <<jobs, versions, renders, maint, writer>>

-----------------------------------------------------------------------------
(* Worker processes *)

NoRecovery == [stage |-> "idle", why |-> "stale", lease |-> NoLease]

Stop(w) ==                    \* Worker.stop: no new claims
  /\ Up(w)
  /\ ~workers[w].stopping
  /\ workers[w].boot < MaxBoots
  /\ workers' = [workers EXCEPT ![w].stopping = TRUE]
  /\ UNCHANGED <<jobs, versions, renders, maint, writer>>

RequestShutdown(w) ==         \* the stop timeout passed: ask the job to stop
  /\ workers[w].phase = "running"
  /\ workers[w].stopping
  /\ workers' = [workers EXCEPT ![w].shutdown = TRUE]
  /\ UNCHANGED <<jobs, versions, renders, maint, writer>>

Exits(w) ==
  /\ workers' = [workers EXCEPT ![w] = FreshWorker(workers[w].boot, "down")]
  /\ maint' = [maint EXCEPT ![w] = NoRecovery]
  /\ UNCHANGED <<jobs, versions, renders, writer>>

Exit(w) ==                    \* every thread stopped
  /\ workers[w].phase = "idle"
  /\ workers[w].stopping
  /\ Exits(w)

Crash(w) ==                   \* killed at any point; an open transaction rolls back
  /\ Up(w)
  /\ workers[w].boot < MaxBoots
  /\ Exits(w)

Restart(w) ==                 \* a new process: new boot id, recovery first
  /\ workers[w].phase = "down"
  /\ workers[w].boot < MaxBoots
  /\ workers' = [workers EXCEPT ![w] = FreshWorker(workers[w].boot + 1, "idle")]
  /\ maint' = [maint EXCEPT ![w].stage = IF w \in Reapers THEN "starting" ELSE "idle"]
  /\ UNCHANGED <<jobs, versions, renders, writer>>

-----------------------------------------------------------------------------
(* Maintenance: recover_own_host at start, reap_stale periodically *)

Stages == {"idle", "starting", "selected", "checked"}

OwnerGone(o) == workers[o.worker].boot # o.boot \/ workers[o.worker].phase = "down"

RowLease(j) == [job |-> j, owner |-> jobs[j].owner, attempt |-> jobs[j].attempts]

SelectStale(w, j) ==
  /\ Up(w)
  /\ w \in Reapers
  /\ maint[w].stage = "idle"
  /\ jobs[j].status = "running"
  /\ ~jobs[j].fresh
  /\ maint' = [maint EXCEPT ![w] = [stage |-> "selected", why |-> "stale", lease |-> RowLease(j)]]
  /\ UNCHANGED <<jobs, versions, renders, workers, writer>>

\* Locked on this host under another boot id by a process that is gone.
SelectOwnHost(w, j) ==
  /\ maint[w].stage = "starting"
  /\ jobs[j].status = "running"
  /\ HostOf[jobs[j].owner.worker] = HostOf[w]
  /\ OwnerGone(jobs[j].owner)
  /\ maint' = [maint EXCEPT ![w] = [stage |-> "selected", why |-> "dead", lease |-> RowLease(j)]]
  /\ UNCHANGED <<jobs, versions, renders, workers, writer>>

RecoveryDone(w) ==            \* every row that was found is done, or recovery failed
  /\ maint[w].stage = "starting"
  /\ maint' = [maint EXCEPT ![w] = NoRecovery]
  /\ UNCHANGED <<jobs, versions, renders, workers, writer>>

AfterRow(w) ==
  maint' = [maint EXCEPT ![w] = [NoRecovery EXCEPT
              !.stage = IF maint[w].why = "dead" THEN "starting" ELSE "idle"]]

\* Every statement re-checks the old lease and, for the reaper, staleness.
StillLost(w) ==
  LET l == maint[w].lease IN
  Holds(l) /\ (maint[w].why = "stale" => ~jobs[l.job].fresh)

RecoverCancelled(w) ==        \* first statement of _recover_one
  LET l == maint[w].lease IN
  /\ maint[w].stage = "selected"
  /\ IF StillLost(w) /\ jobs[l.job].cancel
     THEN End(l.job, "cancelled") /\ AfterRow(w)
     ELSE NoWrite /\ maint' = [maint EXCEPT ![w].stage = "checked"]
  /\ UNCHANGED <<workers, writer>>

\* Faulty variant: a job without attempts is skipped.
RecoverOnlyRequeues(w) ==
  LET l == maint[w].lease IN
  /\ maint[w].stage = "checked"
  /\ IF StillLost(w) /\ jobs[l.job].attempts < jobs[l.job].max
     THEN Requeue(l.job, TRUE, 0) ELSE NoWrite
  /\ AfterRow(w)
  /\ UNCHANGED <<workers, writer>>

RecoverRow(w) ==              \* fail without attempts left, else requeue
  LET l == maint[w].lease IN
  /\ maint[w].stage = "checked"
  /\ IF ~StillLost(w) THEN NoWrite
     ELSE IF jobs[l.job].attempts >= jobs[l.job].max THEN End(l.job, "failed")
     ELSE Requeue(l.job, TRUE, 0)
  /\ AfterRow(w)
  /\ UNCHANGED <<workers, writer>>

-----------------------------------------------------------------------------
Init ==
  /\ jobs = [j \in JobIds |-> AbsentRow]
  /\ versions = [v \in Versions |-> [status |-> "absent", built |-> FALSE]]
  /\ renders = [r \in Renders |-> [status |-> "absent", job |-> 0]]
  /\ workers = [w \in Workers |-> FreshWorker(0, "idle")]
  /\ maint = [w \in Workers |-> NoRecovery]
  /\ writer = [v \in Versions |-> [job |-> 0, attempt |-> 0]]

\* Processes between the statements of a transaction.
InTransaction == {w \in Workers : workers[w].phase = "writing" \/ maint[w].stage = "checked"}

SecondStatement == \E w \in Workers : Write(w) \/ RecoverRow(w)

Request ==
  \/ \E v \in Versions, k \in MutatingKinds : CreateVersion(v, k)
  \/ \E v \in Versions : EnqueueBuild(v)
  \/ \E r \in Renders, v \in Versions : EnqueueRender(r, v)
  \/ EnqueueCleanup
  \/ \E j \in JobIds : RequestCancel(j) \/ RetryJob(j) \/ ApproveReview(j)

Tick == \E j \in JobIds : BackoffElapses(j) \/ HeartbeatGoesStale(j)

HandlerEnds(w) ==
  \/ HandlerReturns(w) \/ HandlerFailsForGood(w) \/ HandlerRaises(w)
  \/ HandlerStops(w) \/ HandlerQuits(w)

Handler(w) ==
  \/ \E s \in VersionStatus \ {"absent"} : HandlerWritesVersion(w, s)
  \/ HandlerEnds(w)

Thread(w) == Claim(w) \/ Open(w) \/ Handler(w) \/ Persist(w) \/ GiveUp(w)

Heartbeat(w) == BeatOnce(w) \/ RefreshFlags(w)

Process(w) == Stop(w) \/ RequestShutdown(w) \/ Exit(w) \/ Crash(w) \/ Restart(w)

Maintenance(w) ==
  \/ \E j \in JobIds : SelectStale(w, j) \/ SelectOwnHost(w, j)
  \/ RecoveryDone(w) \/ RecoverCancelled(w)

OneStatement ==
  \/ Request
  \/ Tick
  \/ \E w \in Workers : Thread(w) \/ Heartbeat(w) \/ Process(w) \/ Maintenance(w)

\* With one writer lock nobody acts between the statements of a transaction.
Next ==
  \/ SecondStatement
  \/ (ReadCommitted \/ InTransaction = {}) /\ OneStatement

Spec == Init /\ [][Next]_vars

-----------------------------------------------------------------------------
(* Properties *)

JobRow ==
  [status : JobStatus, kind : Kinds, version : Versions \cup {NoVersion},
   render : Renders \cup {NoRender}, owner : Owners, attempts : Nat, max : Nat,
   fresh : BOOLEAN, due : BOOLEAN, cancel : BOOLEAN, retried : BOOLEAN]

WorkerRow ==
  [phase : Phases, boot : Nat, lease : Leases, max : Nat, seen : BOOLEAN,
   lost : BOOLEAN, stopping : BOOLEAN, shutdown : BOOLEAN, outcome : Outcomes]

Tokens == [job : JobIds \cup {0}, attempt : Nat]

\* Every variable has the shape of the table or object it stands for.
TypeOK ==
  /\ jobs \in [JobIds -> JobRow]
  /\ versions \in [Versions -> [status : VersionStatus, built : BOOLEAN]]
  /\ renders \in [Renders -> [status : RenderStatus, job : JobIds \cup {0}]]
  /\ workers \in [Workers -> WorkerRow]
  /\ maint \in [Workers -> [stage : Stages, why : {"stale", "dead"}, lease : Leases]]
  /\ writer \in [Versions -> Tokens]

\* uq_jobs_active_version and every path around it (retry, continuation of a
\* review, recovery): a version never has two active mutating jobs.
OneActivePerVersion ==
  \A i, j \in JobIds :
    /\ jobs[i].status \in Active /\ IsMutating(i)
    /\ jobs[j].status \in Active /\ IsMutating(j)
    /\ jobs[i].version = jobs[j].version
    => i = j

\* settle_version: a version in generating, building or awaiting_review has
\* an active job that will move it on, whatever was cancelled, lost,
\* recovered or failed, and whoever wrote the status.
TransientHasJob ==
  \A v \in Versions : versions[v].status \in Transient => ActiveFor(v) # {}

\* A job waiting for review can be approved: its version waits as well, in
\* spite of stale workers that still run an earlier attempt of the job.
ReviewReachable ==
  \A j \in JobIds :
    jobs[j].status = "awaiting_review"
      => versions[jobs[j].version].status = "awaiting_review"

\* "A pending user cancellation wins over every non-final transition (retry,
\* release, review)" (queue.py docstring): a cancelled job never waits again.
PendingCancelWins ==
  \A j \in JobIds :
    jobs[j].status \in {"queued", "awaiting_review"} => ~jobs[j].cancel

\* No attempt is started beyond max_attempts, although claim_next does not
\* look: only jobs with an attempt left go back to the queue.
AttemptsBounded ==
  \A j \in JobIds :
    /\ jobs[j].status = "running" => jobs[j].attempts <= jobs[j].max
    /\ jobs[j].status = "queued" => jobs[j].attempts < jobs[j].max

\* Fencing: the writes of handlers to a version are ordered by job and
\* attempt; a worker that lost its lease never writes after its successor.
LexLeq(a, b) == a.job < b.job \/ (a.job = b.job /\ a.attempt <= b.attempt)
WritesAreFenced == [][\A v \in Versions : LexLeq(writer[v], writer'[v])]_vars

\* An ended job stays ended, whatever a late worker, reaper or request does;
\* the attempts of a job that goes on are never taken back.
EndedStaysEnded ==
  [][\A j \in JobIds :
       /\ jobs[j].status \in Terminal => jobs'[j].status = jobs[j].status
       /\ jobs'[j].status \in Active => jobs'[j].attempts >= jobs[j].attempts]_vars

-----------------------------------------------------------------------------
(* Liveness *)

\* The lease is nobody's any more: its process is gone or gave it up.
Abandoned(j) ==
  /\ jobs[j].status = "running"
  /\ \A w \in Workers : workers[w].phase # "down" => workers[w].lease # RowLease(j)

\* Threads and maintenance loops keep running, handlers return or raise, a
\* dead process is restarted, and time passes for backoffs and dead leases.
Fairness ==
  /\ \A w \in Workers :
       /\ WF_vars(Write(w)) /\ WF_vars(RecoverRow(w))
       /\ WF_vars(Claim(w)) /\ WF_vars(Open(w)) /\ WF_vars(HandlerEnds(w))
       /\ WF_vars(Persist(w)) /\ WF_vars(Exit(w)) /\ WF_vars(Restart(w))
       /\ WF_vars(RecoveryDone(w)) /\ WF_vars(RecoverCancelled(w))
       /\ WF_vars(~workers[w].stopping /\ \E j \in JobIds : SelectStale(w, j))
  /\ \A j \in JobIds :
       /\ WF_vars(BackoffElapses(j))
       /\ WF_vars(Abandoned(j) /\ HeartbeatGoesStale(j))

FairSpec == Spec /\ Fairness

\* Every job that was accepted ends or waits for its teacher: no crash,
\* lost lease, retry or restart leaves it queued or running for ever.
JobsEnd ==
  \A j \in JobIds :
    jobs[j].status \in {"queued", "running"}
      ~> jobs[j].status \in Terminal \cup {"awaiting_review"}

=============================================================================
