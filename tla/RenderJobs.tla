----------------------------- MODULE RenderJobs -----------------------------
(***************************************************************************)
(* Video renders: a Render row and the render_video job that produces it.  *)
(* POST /render creates both under the lock of the version row; a retry    *)
(* creates a second job for the same row under no such lock. The handler   *)
(* (compose/video.py) writes the Render row in statements of its own, next *)
(* to the fenced transitions of its job, which settle the row as well.     *)
(*                                                                         *)
(* Requests take one step per statement that reads or locks, so requests   *)
(* interleave as the database lets them. The transitions of the job itself *)
(* are one step here; module JobQueue splits them. A worker acts on what   *)
(* its heartbeat told it last, which may be older than the row.            *)
(***************************************************************************)
EXTENDS Integers, FiniteSets

CONSTANTS
  Requests,         \* request threads of the API
  Workers,          \* worker processes
  Versions,
  MaxRenders,       \* bound: rows ever inserted into renders
  MaxJobs,          \* bound: rows ever inserted into jobs
  SingleWriter,     \* TRUE: SQLite, FALSE: PostgreSQL
  Retries,          \* TRUE: users retry failed and cancelled renders
  Sites             \* the deployments under study, one per behaviour

\* The threads, the versions and the Settings of a deployment: render_max_queued
\* and job_max_attempts. With pauses a worker may stand still until its lease is
\* stale. Bounds: the Render rows inserted, the releases of one job.
Site == [api : SUBSET Requests, workers : SUBSET Workers, versions : SUBSET Versions,
         limit : Nat \ {0}, attempts : Nat \ {0}, pauses : BOOLEAN,
         renders : Nat, releases : Nat]

ASSUME ConstantsAssumption ==
  /\ MaxRenders \in Nat
  /\ MaxJobs \in Nat
  /\ SingleWriter \in BOOLEAN
  /\ Retries \in BOOLEAN
  /\ Sites \subseteq Site

VARIABLES
  jobs,      \* jobs[j]: the render_video job with id j
  renders,   \* renders[r]: version_id, status and job_id
  workers,   \* workers[w]: lease and stage of the job thread, and whether
             \* its heartbeat has seen the cancellation
  requests,  \* requests[q]: the statement a request has reached
  site       \* this deployment

vars == <<jobs, renders, workers, requests, site>>

-----------------------------------------------------------------------------
JobIds == 1..MaxJobs
Renders == 1..MaxRenders
Active == {"queued", "running"}
Ended == {"succeeded", "failed", "cancelled"}
Retryable == {"failed", "cancelled"}
Status == Active \cup Ended \cup {"absent"}

NobodyJob == [status |-> "absent", render |-> 0, attempts |-> 0,
              max |-> 0, cancel |-> FALSE, retried |-> FALSE]
QueuedRender(v, j) == [status |-> "queued", job |-> j, version |-> v]
NewJob(r) == [NobodyJob EXCEPT !.status = "queued", !.render = r, !.max = site.attempts]

Version(j) == renders[jobs[j].render].version
ActiveJobs == {j \in JobIds : jobs[j].status \in Active}
ActiveRenders(v) == {j \in ActiveJobs : Version(j) = v}

\* The id the next INSERT into a table gets.
IsNextId(table, n) ==
  /\ n \in DOMAIN table
  /\ table[n].status = "absent"
  /\ \A k \in DOMAIN table : k < n => table[k].status # "absent"

\* lease.fence; the owner of an attempt is the worker that claimed it.
Holds(w) ==
  /\ workers[w].job \in JobIds
  /\ jobs[workers[w].job].status = "running"
  /\ jobs[workers[w].job].attempts = workers[w].attempt

\* settle_render, inside the transition that ends job j.
Settled(j, s) ==
  [r \in Renders |->
     IF renders[r].job = j /\ renders[r].status \in Active /\ s \in Retryable
     THEN [renders[r] EXCEPT !.status = s] ELSE renders[r]]

\* A job that is over; its attempts and its cancel flag count no more.
Over(j, s) ==
  [NobodyJob EXCEPT !.status = s, !.render = jobs[j].render, !.retried = jobs[j].retried]

\* Faulty variant: the job ends and its Render row is forgotten.
EndOnly(j, s) ==
  /\ jobs' = [jobs EXCEPT ![j] = Over(j, s)]
  /\ UNCHANGED renders

End(j, s) ==
  /\ jobs' = [jobs EXCEPT ![j] = Over(j, s)]
  /\ renders' = Settled(j, s)

\* refund: a release raises max_attempts.
Requeue(j, refund) ==
  /\ jobs' = [jobs EXCEPT ![j] = [jobs[j] EXCEPT !.status = "queued",
                                     !.max = jobs[j].max + refund]]
  /\ UNCHANGED renders

-----------------------------------------------------------------------------
(* POST /versions/{vid}/render *)

NoRequest == [stage |-> "idle", version |-> "none", job |-> 0]

To(q, stage) == requests' = [requests EXCEPT ![q].stage = stage]
Drop(q) == requests' = [requests EXCEPT ![q] = NoRequest]

StartStages == {"start_locked", "start_checked", "start_admitted"}
RetryStages == {"retry_loaded", "retry_checked", "retry_admitted"}

\* Locks held until commit or rollback: the version row; the advisory lock.
HasVersion(v) == {q \in Requests : /\ requests[q].stage \in StartStages
                                   /\ requests[q].version = v}
HasAdmission == {q \in Requests : requests[q].stage \in {"start_admitted", "retry_admitted"}}

\* Faulty variant: the version row is read and not locked.
StartUnlocked(q, v) ==
  /\ q \in site.api /\ v \in site.versions
  /\ requests[q].stage = "idle"
  /\ requests' = [requests EXCEPT ![q] =
                    [stage |-> "start_locked", version |-> v, job |-> 0]]
  /\ UNCHANGED <<jobs, renders, workers>>

\* lock_version_for_render: the first write of the transaction.
StartLock(q, v) ==
  /\ q \in site.api /\ v \in site.versions
  /\ requests[q].stage = "idle"
  /\ HasVersion(v) = {}
  /\ requests' = [requests EXCEPT ![q] =
                    [stage |-> "start_locked", version |-> v, job |-> 0]]
  /\ UNCHANGED <<jobs, renders, workers>>

StartCheck(q) ==              \* active_render_job: 409 job_in_progress
  /\ requests[q].stage = "start_locked"
  /\ IF ActiveRenders(requests[q].version) = {} THEN To(q, "start_checked") ELSE Drop(q)
  /\ UNCHANGED <<jobs, renders, workers>>

\* Faulty variant: the admission lock is not taken.
AdmitUnlocked(q, stage) ==
  /\ IF Cardinality(ActiveJobs) < site.limit THEN To(q, stage) ELSE Drop(q)
  /\ UNCHANGED <<jobs, renders, workers>>

\* check_admission: the advisory lock (PostgreSQL only), then the count;
\* 429 render_queue_full. An atomic step per request that holds the lock.
Admit(q, stage) ==
  /\ SingleWriter \/ HasAdmission = {}
  /\ IF Cardinality(ActiveJobs) < site.limit THEN To(q, stage) ELSE Drop(q)
  /\ UNCHANGED <<jobs, renders, workers>>

StartAdmit(q) ==
  /\ requests[q].stage = "start_checked"
  /\ Admit(q, "start_admitted")

StartInsert(q) ==             \* the Render row, its job, and commit
  /\ requests[q].stage = "start_admitted"
  /\ \E r \in Renders, n \in JobIds :
       /\ r <= site.renders /\ IsNextId(renders, r)
       /\ IsNextId(jobs, n)
       /\ jobs' = [jobs EXCEPT ![n] = NewJob(r)]
       /\ renders' = [renders EXCEPT ![r] = QueuedRender(requests[q].version, n)]
  /\ Drop(q)
  /\ UNCHANGED workers

Refused(q) ==                 \* preflight refusal: rollback after admission
  /\ requests[q].stage = "start_admitted"
  /\ Drop(q)
  /\ UNCHANGED <<jobs, renders, workers>>

-----------------------------------------------------------------------------
(* POST /jobs/{id}/retry of a render job *)

RetryLoad(q, j) ==
  /\ Retries /\ q \in site.api
  /\ requests[q].stage = "idle"
  /\ jobs[j].status \in Retryable
  /\ ~jobs[j].retried
  /\ requests' = [requests EXCEPT ![q] =
                    [stage |-> "retry_loaded", version |-> Version(j), job |-> j]]
  /\ UNCHANGED <<jobs, renders, workers>>

RetryCheck(q) ==              \* active_render_job, under no lock
  /\ requests[q].stage = "retry_loaded"
  /\ IF ActiveRenders(requests[q].version) = {} THEN To(q, "retry_checked") ELSE Drop(q)
  /\ UNCHANGED <<jobs, renders, workers>>

RetryAdmit(q) ==
  /\ requests[q].stage = "retry_checked"
  /\ Admit(q, "retry_admitted")

\* retry_job claims the old job (error_code := 'retried') or refuses, inserts
\* the copy; the Render row is queued for it; commit.
RetryInsert(q) ==
  LET old == requests[q].job IN
  /\ requests[q].stage = "retry_admitted"
  /\ IF jobs[old].status \in Retryable /\ ~jobs[old].retried
     THEN \E n \in JobIds :
            /\ IsNextId(jobs, n)
            /\ jobs' = [jobs EXCEPT ![old].retried = TRUE, ![n] = NewJob(jobs[old].render)]
            /\ renders' = [renders EXCEPT ![jobs[old].render] = QueuedRender(Version(old), n)]
     ELSE UNCHANGED <<jobs, renders>>
  /\ Drop(q)
  /\ UNCHANGED workers

\* POST /jobs/{id}/cancel
RequestCancel(j) ==
  /\ \/ jobs[j].status = "queued" /\ End(j, "cancelled")
     \/ /\ jobs[j].status = "running"
        /\ ~jobs[j].cancel
        /\ jobs' = [jobs EXCEPT ![j].cancel = TRUE]
        /\ UNCHANGED renders
  /\ UNCHANGED <<workers, requests>>

-----------------------------------------------------------------------------
(* The worker and the handler render_video *)

Outcomes == {"none", "succeeded", "failed", "cancelled", "retry", "release", "lost"}
Idle == [stage |-> "idle", job |-> 0, attempt |-> 0, max |-> 0, outcome |-> "none",
         seen |-> FALSE]

ToIdle(w) == workers' = [workers EXCEPT ![w] = Idle]
ToOutcome(w, o) ==
  workers' = [workers EXCEPT ![w] = [workers[w] EXCEPT !.stage = "ended", !.outcome = o]]

Job(w) == workers[w].job
Target(w) == jobs[Job(w)].render
LastAttempt(w) == workers[w].attempt >= workers[w].max

\* claim_next; a backoff may hold any queued job back.
Claim(w) ==
  /\ w \in site.workers
  /\ workers[w].stage = "idle"
  /\ \E j \in JobIds :
       /\ jobs[j].status = "queued"
       /\ jobs' = [jobs EXCEPT ![j] = [jobs[j] EXCEPT !.status = "running",
                                         !.attempts = jobs[j].attempts + 1]]
       /\ workers' = [workers EXCEPT ![w] = [stage |-> "claimed", job |-> j,
                        attempt |-> jobs[j].attempts + 1, max |-> jobs[j].max, outcome |-> "none",
                        seen |-> FALSE]]
  /\ UNCHANGED <<renders, requests>>

\* DBJobContext.open: the last look at the lease and at the cancel flag; a
\* cancelled job never starts work.
Open(w) ==
  /\ workers[w].stage = "claimed"
  /\ \/ ~Holds(w) /\ ToIdle(w)
     \/ Holds(w) /\ jobs[Job(w)].cancel /\ ToOutcome(w, "cancelled")
     \/ Holds(w) /\ ~jobs[Job(w)].cancel /\ workers' = [workers EXCEPT ![w].stage = "opened"]
  /\ UNCHANGED <<jobs, renders, requests>>

\* The heartbeat of a worker that holds its lease sees the cancellation. The
\* worker does not forget it, whatever becomes of the lease.
Heartbeat(w) ==
  /\ workers[w].stage \in {"opened", "rendering"}
  /\ ~workers[w].seen
  /\ Holds(w) /\ jobs[Job(w)].cancel
  /\ workers' = [workers EXCEPT ![w].seen = TRUE]
  /\ UNCHANGED <<jobs, renders, requests>>

TakenOver(w) == [renders EXCEPT ![Target(w)].status = "running", ![Target(w)].job = Job(w)]

\* Faulty variant: only a queued render starts, as if no attempt was before.
StartQueued(w) ==
  /\ workers[w].stage = "opened"
  /\ \/ /\ renders[Target(w)].status = "queued"
        /\ renders' = TakenOver(w)
        /\ workers' = [workers EXCEPT ![w].stage = "rendering"]
     \/ /\ renders[Target(w)].status # "queued"
        /\ UNCHANGED renders
        /\ ToOutcome(w, "succeeded")
  /\ UNCHANGED <<jobs, requests>>

\* _start_render: a finished render is returned as it is, a cancelled one
\* fails the job ("conflict"); otherwise the row is taken over, unfenced.
StartRender(w) ==
  /\ workers[w].stage = "opened"
  /\ \/ /\ renders[Target(w)].status = "succeeded"
        /\ UNCHANGED renders
        /\ ToOutcome(w, "succeeded")
     \/ /\ renders[Target(w)].status \in {"queued", "running", "failed"}
        /\ renders' = TakenOver(w)
        /\ workers' = [workers EXCEPT ![w].stage = "rendering"]
     \/ /\ renders[Target(w)].status = "cancelled"
        /\ UNCHANGED renders
        /\ ToOutcome(w, "failed")
  /\ UNCHANGED <<jobs, requests>>

\* A worker that stops gives its job back, unless it has seen it cancelled.
Release(w) ==
  /\ ~workers[w].seen
  /\ workers[w].max < site.attempts + site.releases
  /\ ToOutcome(w, "release")

Delivered(w) == [renders EXCEPT ![Target(w)].status = "succeeded"]
Matches(w) == renders[Target(w)].status = "running" /\ renders[Target(w)].job = Job(w)

\* Faulty variant: nobody looks whether the compare-and-set found its row.
FinishUnchecked(w) ==
  /\ workers[w].stage = "rendering"
  /\ renders' = IF Matches(w) THEN Delivered(w) ELSE renders
  /\ ToOutcome(w, "succeeded")
  /\ UNCHANGED <<jobs, requests>>

\* Faulty variant: the result is written without the comparison.
FinishWithoutCompare(w) ==
  /\ workers[w].stage = "rendering"
  /\ renders' = Delivered(w)
  /\ ToOutcome(w, "succeeded")
  /\ UNCHANGED <<jobs, requests>>

\* _finish_render: compare-and-set on (running, job_id); else JobCancelled,
\* which ends the job unless the worker is stopping as well.
FinishRender(w) ==
  /\ workers[w].stage = "rendering"
  /\ \/ Matches(w) /\ renders' = Delivered(w) /\ ToOutcome(w, "succeeded")
     \/ ~Matches(w) /\ UNCHANGED renders /\ (ToOutcome(w, "cancelled") \/ Release(w))
  /\ UNCHANGED <<jobs, requests>>

\* _mark_render: matched on the id and the status of the row only.
Mark(w, s) ==
  renders' = IF renders[Target(w)].status \in Active
             THEN [renders EXCEPT ![Target(w)].status = s] ELSE renders

RenderFails(w) ==             \* FatalJobError, FFmpegError, BudgetExceeded
  /\ workers[w].stage = "rendering"
  /\ Mark(w, "failed")
  /\ ToOutcome(w, "failed")
  /\ UNCHANGED <<jobs, requests>>

\* Any other exception: retried while attempts remain; a cancellation the
\* heartbeat has seen, or a lost lease, decides the outcome instead.
RenderRaises(w) ==
  /\ workers[w].stage = "rendering"
  /\ IF LastAttempt(w) THEN Mark(w, "failed") ELSE UNCHANGED renders
  /\ \/ ~workers[w].seen /\ ToOutcome(w, IF LastAttempt(w) THEN "failed" ELSE "retry")
     \/ workers[w].seen /\ ToOutcome(w, "cancelled")
     \/ ~Holds(w) /\ ToOutcome(w, "lost")
  /\ UNCHANGED <<jobs, requests>>

\* check_cancelled: the user's cancellation, as the heartbeat saw it, also
\* when the lease was lost since and the loss is not noticed yet.
RenderCancelled(w) ==
  /\ workers[w].stage = "rendering"
  /\ workers[w].seen
  /\ Mark(w, "cancelled")
  /\ ToOutcome(w, "cancelled")
  /\ UNCHANGED <<jobs, requests>>

\* Faulty variant: a lost lease is taken for a cancellation and marks the row.
LostMarksRender(w) ==
  /\ workers[w].stage = "rendering"
  /\ \/ Release(w) /\ UNCHANGED renders
     \/ workers[w].seen /\ ToOutcome(w, "cancelled") /\ UNCHANGED renders
     \/ ~Holds(w) /\ ToOutcome(w, "lost") /\ Mark(w, "cancelled")
  /\ UNCHANGED <<jobs, requests>>

\* check_cancelled: shutdown or a lost lease; or the watcher cancels a handler
\* that ignored its stop, and the row is left as it is.
RenderStops(w) ==
  /\ workers[w].stage = "rendering"
  /\ \/ Release(w)
     \/ workers[w].seen /\ ToOutcome(w, "cancelled")
     \/ ~Holds(w) /\ ToOutcome(w, "lost")
  /\ UNCHANGED <<jobs, renders, requests>>

\* Worker._persist: fenced; a result the database refuses fails the job; a
\* pending cancel wins over retry and release.
Persist(w) ==
  /\ workers[w].stage = "ended"
  /\ \/ /\ (workers[w].outcome = "lost" \/ ~Holds(w))
        /\ UNCHANGED <<jobs, renders>>
     \/ /\ Holds(w) /\ workers[w].outcome \in Ended
        /\ End(Job(w), workers[w].outcome)
     \/ Holds(w) /\ workers[w].outcome = "succeeded" /\ End(Job(w), "failed")
     \/ /\ Holds(w) /\ workers[w].outcome \in {"retry", "release"}
        /\ IF jobs[Job(w)].cancel THEN End(Job(w), "cancelled")
           ELSE Requeue(Job(w), IF workers[w].outcome = "release" THEN 1 ELSE 0)
  /\ ToIdle(w)
  /\ UNCHANGED requests

Crash(w) ==
  /\ workers[w].stage # "idle"
  /\ ToIdle(w)
  /\ UNCHANGED <<jobs, renders, requests>>

\* reap_stale / recover_own_host: the lease of a worker that is gone or, where
\* workers pause, of one that only stands still.
Abandoned(j) == \A w \in Workers : workers[w].job = j => ~Holds(w)

Recover(j) ==
  /\ jobs[j].status = "running"
  /\ site.pauses \/ Abandoned(j)
  /\ IF jobs[j].cancel THEN End(j, "cancelled")
     ELSE IF jobs[j].attempts >= jobs[j].max THEN End(j, "failed")
     ELSE Requeue(j, 0)
  /\ UNCHANGED <<workers, requests>>

-----------------------------------------------------------------------------
Init ==
  /\ jobs = [j \in JobIds |-> NobodyJob]
  /\ renders = [r \in Renders |-> [status |-> "absent", job |-> 0, version |-> "none"]]
  /\ workers = [w \in Workers |-> Idle]
  /\ requests = [q \in Requests |-> NoRequest]
  /\ site \in Sites

RenderEnds(w) ==
  \/ FinishRender(w) \/ RenderFails(w) \/ RenderRaises(w)
  \/ RenderCancelled(w) \/ RenderStops(w)

Worker(w) ==
  \/ Claim(w) \/ Open(w) \/ Heartbeat(w) \/ StartRender(w) \/ RenderEnds(w)
  \/ Persist(w) \/ Crash(w)

Writes(q) ==
  \/ StartCheck(q) \/ StartAdmit(q) \/ StartInsert(q) \/ Refused(q)

Reads(q) ==
  \/ \E v \in Versions : StartLock(q, v)
  \/ \E j \in JobIds : RetryLoad(q, j)
  \/ RetryCheck(q) \/ RetryAdmit(q) \/ RetryInsert(q)

\* SQLite: while a transaction has written, every other writer waits for it.
WriterIsBusy == SingleWriter /\ \E q \in Requests : requests[q].stage \in StartStages

Step ==
  \/ \E q \in Requests : Writes(q)
  \/ /\ ~WriterIsBusy
     /\ \/ \E q \in Requests : Reads(q)
        \/ \E j \in JobIds : RequestCancel(j) \/ Recover(j)
        \/ \E w \in Workers : Worker(w)

SameSite == UNCHANGED site

Next == Step /\ SameSite

Spec == Init /\ [][Next]_vars

-----------------------------------------------------------------------------
(* Properties *)

JobRow == [status : Status, render : Renders \cup {0}, attempts : Nat,
           max : Nat, cancel : BOOLEAN, retried : BOOLEAN]
WorkerRow == [stage : {"idle", "claimed", "opened", "rendering", "ended"},
              job : JobIds \cup {0}, attempt : Nat, max : Nat, outcome : Outcomes,
              seen : BOOLEAN]
RequestRow == [stage : {"idle"} \cup StartStages \cup RetryStages,
               version : Versions \cup {"none"}, job : JobIds \cup {0}]

\* The rows and the program counters have their shapes.
TypeOK ==
  /\ jobs \in [JobIds -> JobRow]
  /\ renders \in [Renders -> [status : Status, job : JobIds \cup {0},
                          version : Versions \cup {"none"}]]
  /\ workers \in [Workers -> WorkerRow]
  /\ requests \in [Requests -> RequestRow]
  /\ site \in Sites

\* settle_render: "the Renders list never shows a dead render as in progress":
\* a queued Render row names an active job, and so does a running one, unless
\* a paused worker of a job that is over takes the row up again.
RendersSettled ==
  \A r \in Renders :
    renders[r].status = "queued" \/ (renders[r].status = "running" /\ ~site.pauses)
      => renders[r].job \in JobIds /\ jobs[renders[r].job].status \in Active

\* "One active render per version" (POST /render, retry).
OneActiveRender == \A v \in Versions : Cardinality(ActiveRenders(v)) <= 1

\* The job POST /render inserted with the row; later ones are retries.
FirstJob(j) == \A k \in JobIds : k < j => jobs[k].render # jobs[j].render

\* Among the renders that POST /render started, one is active per version,
\* however many requests, retries, crashes and recoveries there are. (With
\* the retries' own jobs it is OneActiveRender, which fails.)
StartsExclude ==
  \A v \in Versions : Cardinality({j \in ActiveRenders(v) : FirstJob(j)}) <= 1

\* RENDER_MAX_QUEUED: the admission count and the insert are one step.
AdmissionLimit == Cardinality(ActiveJobs) <= site.limit

\* A render job reported as succeeded has its video, whatever crashed, was
\* retried or ran twice: not when an attempt that lost its lease has marked
\* the row behind the back of the one that holds it.
SucceededHasVideo ==
  \A j \in JobIds : jobs[j].status = "succeeded" => renders[jobs[j].render].status = "succeeded"

\* A job of the same render, retried since, was cancelled.
CancelledBefore(j) ==
  \E k \in JobIds : k < j /\ jobs[k].render = jobs[j].render /\ jobs[k].status = "cancelled"

\* An active job can still make its video: its row is not cancelled unless
\* the job itself is being cancelled. Stops, releases and failures of earlier
\* attempts leave the row restartable. Where workers pause there is one
\* exception: a worker that saw the cancellation of an earlier job marks the
\* row late, in the middle of the retry.
ActiveCanRender ==
  \A j \in ActiveJobs :
    renders[jobs[j].render].status = "cancelled"
      => jobs[j].cancel \/ (site.pauses /\ CancelledBefore(j))

\* A render shown as succeeded or cancelled changes only when a retry queues it
\* again: no attempt that comes late, paused or superseded, rewrites it.
FinalRendersStay ==
  [][\A r \in Renders : renders[r].status \in {"succeeded", "cancelled"}
       => renders'[r] = renders[r] \/ renders'[r].status = "queued"]_vars

-----------------------------------------------------------------------------
(* Liveness: threads and handlers go on, dead leases are recovered. *)

Fairness ==
  /\ \A w \in Workers :
       /\ WF_vars(Claim(w) /\ SameSite) /\ WF_vars(Open(w) /\ SameSite)
       /\ WF_vars(StartRender(w) /\ SameSite) /\ WF_vars(RenderEnds(w) /\ SameSite)
       /\ WF_vars(Persist(w) /\ SameSite)
  /\ \A j \in JobIds : WF_vars(Abandoned(j) /\ Recover(j) /\ SameSite)
  /\ \A q \in Requests : WF_vars(Writes(q) /\ SameSite)

FairSpec == Spec /\ Fairness

\* Every render the list shows in progress comes to an end (where no worker
\* pauses: a paused one may take a row up that nobody settles any more).
RendersEnd ==
  \A r \in Renders :
    renders[r].status \in Active /\ ~site.pauses ~> renders[r].status \in Ended

=============================================================================
