# Verification of aadhi

Aadhi turns a source text into a narrated lecture: an HTTP API stores projects
and versions, worker processes generate, build and render them through a durable
job queue, and providers that cost money supply text, speech, pictures and
video clips. This directory holds TLA+ models of the parts of the program that
are concurrent or must survive failures, the TLC configurations that check them
on small instances, and TLAPS proofs for instances of every size. The models are
translated from the code in `aadhi/`; `PROJECT.json` names the lines behind every
definition.

To check a configuration: `tlc -config JobQueueTwoWorkers.cfg MCJobQueue`; to
check a proof: `tlapm JobQueueProofs.tla`.

## 1. Inventory

| Component | Code | State | Operations | Model |
|---|---|---|---|---|
| Job queue | `jobs/queue.py`, `jobs/lease.py`, `api/routers/jobs.py` | rows of `jobs`; status of the `project_versions` and `renders` rows they settle | enqueue, claim, heartbeat, requeue, release, await review, finish, cancel, retry, approve, reap | `JobQueue` |
| Worker processes | `jobs/worker.py`, `heartbeat.py`, `inline.py`, `runner.py`, `aadhi/worker.py` | lease, outcome and flags of each job thread; lease list of the maintenance thread | claim and process a job, heartbeat, shutdown, crash, restart, stale and own-host recovery | `JobQueue` |
| Job context | `jobs/context.py` | event, usage and cost buffers; lost and finalized flags; the thread that flushes | log, progress, record usage, flush, final flush, late flush, mark lease lost | `JobContext` |
| Process-wide limits | `jobs/limits.py` | available permits, queue of waiters | acquire (async, blocking), release, abandon, close of a loop | `ProcessLimit`, `FifoLimit` |
| MP4 renders | `api/routers/renders.py`, `compose/video.py` | a `renders` row beside its job | start, retry, cancel, admit, start and finish an attempt, settle, recover | `RenderJobs` |
| Asset store, paid clips | `storage/assets.py`, `providers/operations.py`, `providers/video/veo.py`, `pipeline/assets.py` | asset row, blobs, claim row, operation record in job payload and claim, reported charges | claim, wait, take over, send, poll, report, checkpoint, store, release, expire, sweep | `AssetClaims`, `AssetCleanup` |
| Lecture pipeline handlers | `pipeline/orchestrator.py`, `dbops.py`, `plan_state.py` | status, revision, plan, screenplay, manifest and metadata of a version | the snapshot and compare-and-set writes of a generation, translation, regeneration and build; review pauses; resumed builds | `LectureVersion`; in `JobQueue` as writes of the status |
| Version actions, editing | `api/routers/version_actions.py`, `versions.py`, `visual_review.py`, `aadhi/stage.py`, `review.py` | what a request has read | save and approve the plan and the source review, edit, rebuild, regenerate, retry, cancel; the step offered next | `LectureVersion`; the job requests also in `JobQueue` |
| Job events | `jobs/events.py`, `api/sse.py` | cursor of a reader, slots per user | poll, stream | not modelled (section 9) |
| Cleanup | `jobs/cleanup.py` | retention times, unreferenced assets | collect, sweep, purge | `AssetCleanup`; the claims sweep in `AssetClaims` |
| Others | providers, pipeline stages, composition, Manim, accounts, library, browser, evaluation | | | not modelled (section 9) |

How they interact. A request handler inserts a job in the transaction that
moves the version to a busy status. A worker thread takes the job under a lease
(owner, attempt), runs the handler, and ends the job in one transaction that
checks the lease (the *fence*) and settles the version or render row. A
maintenance thread in every worker process takes jobs with a dead lease away
from their owner, who is not told: it may go on running until its next fenced
write fails. The handler reports through a job context, whose buffers outlive
the lease and even the job. Handlers of different jobs, in different processes,
want the same clips and meet at the claim row; in one process they share the
process-wide limits. What a handler writes to its version it compares with the
revision it read; a teacher's requests write beside it, some on the revision,
some on the status. The cleanup job deletes assets that nothing refers to from
the store that running builds read.

What is hard here. Two sessions between the statements of one transaction (READ
COMMITTED on PostgreSQL; one writer lock on SQLite); a worker that is alive but
no longer owns its job; commits whose acknowledgement is lost; crashes between a
paid request and its record; waiters cancelled in the instant they are served;
and callers that check a count without a lock. `PROJECT.json` lists each hazard
at its line with the properties that cover it.

What makes each component correct.

- *Queue*: one active mutating job per version; a version that looks busy has a
  job that will move it on; ended jobs stay ended; no attempt beyond the limit;
  writes of handlers in the order of their leases; a cancel is not forgotten; a
  job in review can be approved; every job ends.
- *Job context*: no usage is lost or billed twice; the cost follows the usage
  rows; events keep their order; everything is written in the end and the
  threads that do so end.
- *Limits*: permits are neither lost nor doubled, the queue is FIFO, no permit
  is idle beside a waiter, nobody waits for ever.
- *Renders*: at most one active render per version, at most the configured
  number in all, no dead render shown in progress, success means a video.
- *Claims*: one producer of a clip at a time, one payment by a job, inherited
  operations are polled, a charge is reported before its operation is left to
  others and not again by the same job, every caller returns.
- *Versions*: nobody's edit is lost; the approved plan is the one written; a
  screenplay is written (and paid for) once by a job, however often it is
  started; what a render is offered of is what was built; a retry goes on where
  the failed job stopped; a version in progress comes to rest.
- *Assets*: a row has its blob; what a build uses or a lecture names is not
  collected; garbage goes.

## 2. Modules

| Module | Role |
|---|---|
| `JobQueue` | queue, workers and maintenance threads; one action per committed transaction or per statement where it matters |
| `RenderJobs` | a second, coarser view of the queue for one job kind, with request threads statement by statement and the render row that handlers write outside the fence |
| `JobContext` | the buffers of one running job |
| `ProcessLimit` | the semaphore as coded; implements `FifoLimit` |
| `FifoLimit` | what a limit promises: abstract specification |
| `AssetClaims` | one clip, several jobs, attempts and processes |
| `LectureVersion` | one version, its handlers and the requests that edit it, with the queue reduced to one step per transition |
| `AssetCleanup` | the content-addressed store between builds and the collector |
| `MC...` | constants for TLC |
| `JobQueueProofs`, `JobQueueSafetyProofs` | theorems about the queue |
| `ProcessLimitProofs`, `RenderJobsProofs`, `JobContextProofs`, `AssetClaimsProofs`, `LectureVersionProofs`, `AssetCleanupProofs` | theorems about the module they name |

`JobQueue` and `RenderJobs` describe the same tables. `JobQueue` gives every
transition of a job its real statements and treats a render row as settled by
those transitions only; `RenderJobs` gives the requests and the render handler
their real statements and makes each transition of the job one step. The steps
that remain whole in one module are split in the other. `LectureVersion` rests on
`JobQueue` in the same way: that a stale worker cannot write (`WritesAreFenced`)
is checked there and assumed here, and what a handler writes, anything in
`JobQueue`, is given stage by stage. `AssetClaims` and `AssetCleanup` share the
asset row: the former has the payment, the latter the blobs.

In each module a definition preceded by "Faulty variant" is a plausible bug. No
specification uses it; it is there to show that a property notices it.

### JobQueue

`jobs[i]` is the row with id `i`. `fresh` stands for a heartbeat younger than
the stale limit, `due` for `run_after` in the past; time itself is absent, and
`Tick` lets a backoff end or a heartbeat age. `versions[v]` has the status (with
generating and building joined as `busy`) and whether a build exists.
`workers[w]` is the job thread of a process: its phase, its lease, what it has
learnt (`seen` a cancel, `lost` the lease) and the outcome it will persist. A
worker that crashed comes back under another boot id. `maint[w]` is one lease
that the maintenance thread has selected and not yet handled. `writer[v]` is a
history variable: the lease of the last handler write.

`HandlerWritesVersion` is any fenced write of a handler: every status, at any
time while the handler runs. What the pipeline writes is thus over-approximated
and no property depends on the order of its stages. `_cancel_if_requested` and
the update that follows it are two steps under `ReadCommitted`; with the SQLite
writer lock nobody acts between them (`InTransaction`).

### RenderJobs

`requests[q]` is the program counter of a request thread: the version lock, the
count of active renders, the admission lock and count, the insert. A retry reads
without the version lock, as the code does. `workers[w]` performs the render;
`_start_render` and `_finish_render` write the row on their own conditions.
A worker acts on what its heartbeat told it last (`seen`), and that may be older
than the row: it is how a superseded attempt still marks a render as cancelled.
`site` is the deployment, drawn from `Sites` in the initial state and never
changed: the threads, the limits of the settings, and `pauses`, which lets a living
worker lose its lease; without it only crashed workers do.

### JobContext

Sections under `ctx._lock` and transactions are the actions. A usage is a model
value priced as one unit, counted per usage so that a second billing is visible.
`log` is two steps because `_lease_lost` is read before the lock is taken. A
transaction succeeds, is refused row by row, finds the lease gone, fails before
its commit, or fails after it. Row by row, the database may keep any part of the
events (`Remainders`, the subsequences of the batch) and refuse the others.

### ProcessLimit

A user is a task of an event loop or a thread. `granted` holds the users that
were given a permit and have not yet run; the callback posted with
`call_soon_threadsafe` is part of their next step. A closed loop destroys its
tasks, whose `except BaseException` clause then runs `_abandon`. `FifoLimit`
knows no deque: it has the set of those who wait and the relation *came before*.
The users of a closed loop have stopped waiting there (`Live`), and `Before` is
read off the positions in the deque.

### AssetClaims

A process is attempt `a` of job `j` at the clip; it may run on after its lease
is lost. `task[p].rec` is the record the process keeps in memory, `saved[j]` the
one in the payload of the job, `claim.op` the one on the claim row. The row
insert runs in a thread that outlives a cancelled caller (`thread`). `charged`
holds the charges the usage sink was given, by operation and job. Of a process
that ended only the operation it gave up is kept. `trouble` counts the
disturbances, so that one bound covers all of them together.

### LectureVersion

`version` is the row: status, revision, the number of the screenplay text, the
revision and the text last built, and of `generation_meta` the parts that steer
control: the review marker, the plan under review with the teacher's edit, the
corrections to the source, and the writer mark (job and revision). `handler` is
the one handler that can write, its place in the code and its snapshot.
`requests[q]` is what a request read before it writes; a request is a read step
with its checks and a commit step with its compare-and-set. `approved` and
`scripts` are history variables. `NextStep` is `stage.derive`, first match wins.

### AssetCleanup

A build asks for a set of keys, finds each in the store or produces it (upload,
then the row, whose insert decides between two producers), records the
references, and writes the manifest under its lease. A thread that was taken for
dead goes on without the lease. `collectors[c]` is a run of the cleanup handler,
statement by statement: select candidates, scan documents, delete a row, delete
its blob. On SQLite the guarded DELETE is one step; on PostgreSQL its snapshot
is taken one step before the row goes.

## 3. Runs

| Run | States | Question and answer |
|---|---|---|
| `JobQueueTwoWorkers` | 827 k | SQLite; two processes, two jobs of one version, two attempts: one active job per version, reachable reviews, ordered writes, a busy version has its job, a pending cancel is never lost, ended jobs stay ended |
| `JobQueueKinds` | 266 k | SQLite; build, render and cleanup jobs, crash and restart, fair scheduling: every job ends |
| `JobQueuePostgresCancel` | violation | a cancel between two statements is forgotten (finding 1) |
| `RenderJobs` | 472 k | four deployments, two with a worker that crashes and stops, two with workers that pause and are superseded: admission, exclusive starts, settled rows, active jobs can render, finished rows stay, success has a video, every render shown in progress ends |
| `RenderJobsRetryRace` | violation | a retry beside a start gives two active renders (finding 2) |
| `ProcessLimit` | 4 k | permits, order, refinement of `FifoLimit`, no starvation |
| `JobContext` | 913 k | usage, cost, event order, everything written |
| `AssetClaims` | 769 k | one producer, one payment per job, inherited operations polled, charges reported and not reported again, every call returns |
| `AssetClaimsBudget` | violation | a stop over the budget discards a billed operation (finding 3) |
| `LectureVersion` | 624 k | both reviews, edits, builds, retries, crashes: approved plan written, no lost edit, no second screenplay, own writes resumed, renders of the current text, versions come to rest |
| `LectureVersionRetry` | violation | a retry takes the failed job's write for a conflict (finding 4) |
| `AssetCleanup` | 351 k | two collectors beside two builds, both databases: rows and blobs, nothing used is collected (SQLite), garbage goes |

`TypeOK` is an invariant of the run `ProcessLimit`, where it says that there are
never more permits than the limit; in the other modules it documents the
variables. It is proved for every module.

The mutants in `PROJECT.json` replace one definition by its faulty variant and
name the property that then fails, one for each property of each passing run.

### Bounds, and why they are enough

- *Queue.* Two jobs suffice for a first job, its retry and a competing one; two
  workers for an owner and its successor. `JobMaxAttempts = 2` makes the second
  attempt the last, so both outcomes of a recovery happen. `Reapers` has one
  process: maintenance threads race with workers in the same way whoever runs
  them. Crashes appear in `JobQueueKinds` (`MaxBoots = 1`); in the other run a
  lease is lost by silence, which for the tables is the harsher case, because
  the old owner runs on.
  Both runs use the single writer of SQLite. With `ReadCommitted = TRUE` the
  first instance has 1.28 million states and passes as well, in three minutes of
  two cores, but for `PendingCancelWins` (finding 1); the theorems of section 4 hold
  for either value, but for `CancelWins`.
- *Renders.* Four deployments in one run (`SmallSites`). Two have one worker, which
  never outlives its lease: two requests race, and two versions and two renders
  reach a limit of one and a limit of two, the former with two attempts and a
  release. The other two have one render and two workers that pause: an attempt is
  superseded by the second attempt of its job (two attempts), or by the job of a
  retry or by the attempt after a release (one attempt, one release). There the
  compare in `FinishRender` fails, a lost lease is noticed late, and a
  cancellation is acted on after the job that it was meant for is over. Two jobs
  suffice: a job and the retry of its render or of another one.
- *Limits.* Two permits, three tasks on two loops and a thread: a queue of two,
  a loop that closes with waiters before and behind one that lives.
- *Context.* Buffer of one event and two events: it overflows. Two usages: one
  in a flush and one that arrives meanwhile. One connection failure, before or
  after the commit, at any batch.
- *Claims.* One job that may run twice and one that runs once, so that a clip is
  wanted by a crashed attempt, its successor and a stranger. One disturbance
  anywhere, of any kind.
- *Versions.* Three jobs: a generation, its continuation after a review (or its
  retry), and a build or a second continuation. Two requests, since every hazard
  of a request is another request (or the handler) between its read and its
  write. Teachers save while the revision is below three; two different edits
  tell a saved plan from the one it replaced. Two attempts: one crash and resume.
- *Assets.* One key of one lecture asked for by two builds, two blobs (so that a
  blob and its replacement exist together), two collectors, one that stops half
  way. Two lectures, two keys and more blobs were explored for safety, each up
  to 8.5 million states, without a violation.

`CHECK_DEADLOCK FALSE` is given where a run may finish: when every job has ended
and the bounds are used up, nothing is left to do. `ProcessLimit` never stops
and is checked for deadlock.

### Fairness

- *Queue and renders*: job threads take their next step, handlers return or
  raise (they run under time limits of their own), maintenance threads poll,
  a dead process is restarted (the supervisor of the container), backoffs end,
  and the heartbeat of an abandoned lease becomes stale. No fairness for
  requests, crashes, cancels or approvals, and none for the loss of a lease that
  a living worker renews. A job in `awaiting_review` waits for a person and may
  do so for ever, so `JobsEnd` counts it as arrived.
- *Limits*: a `with` block ends, a resolved future resumes its task, a destroyed
  task is collected. Nobody is obliged to cancel.
- *Context*: threads go on and a transaction ends one way or another. Failures
  are bounded by `MaxFailures`; `UsageWritten` admits the case in which a late
  flush has used up its tries.
- *Claims*: the event loop and its threads run on; a claim that is not renewed
  expires. Crashes and stops are never obliged.
- *Versions*: the running handler goes on, its outcome is persisted, queued jobs
  are claimed and running jobs without a worker recovered. A person is obliged to
  nothing; `ProgressEnds` counts a version that waits for one as arrived.
- *Assets*: builds go on, dead leases are recovered, and the cleanup is run again
  and again (it schedules its successor). Builds that start for ever could keep
  garbage for ever, which the code accepts: their number is bounded
  (`MaxBuilds`).

## 4. What is proved

Every safety invariant and every action property of the passing runs, `TypeOK` of
every module, and the refinement of `FifoLimit`, for every number of workers,
versions, renders, jobs, attempts, users, loops, permits, usages, events, lectures,
assets and collectors. The proofs assume the named assumptions of the modules:
`ConstantsAssumption` (types of the constants, at least one attempt, one permit,
one place in the buffer, null values outside the sets) and, in `AssetClaims`,
`NoneAssumption`. Three theorems have a premise of their own, the one under which
the property holds of the code: `~ReadCommitted`,
`~(SingleWriter /\ Retries)` and `~Retries`; where the premise fails the property does
too (a run or an observation in section 5). Two theorems on the collector and two on
renders carry theirs in the property (`database = "sqlite"`, `site.pauses`).

Few of the properties are inductive; each theorem has a stronger invariant that is.
The longer proofs go in two stages: lemmas that say in a few *shapes* what any
action may do to the tables, then one induction over the shapes, which never looks
at an action again.

`JobQueueProofs`

- `TypeCorrect`: `Spec => []TypeOK`. The bulk is one lemma per group of actions;
  the facts about rows are separated (`EndType`, `RequeueType`, `AwaitReviewType`)
  because most actions end in one of those transitions.
- `OneActiveJob` (`OneActivePerVersion`), for both transaction modes. The request
  that creates a version together with its first job does not look for active
  jobs, because the version is new: `ActiveInv` adds the types and
  `JobsHaveVersions` (a mutating job names a version that exists). Every step
  either *shrinks* the active set or *enqueues* exactly one row for a version that
  has none.

`JobQueueSafetyProofs`: a step is quiet, a handler's write, a claim, the parking of
a row (requeue, release, review), its end, or its creation.

- `EndedForGood` (`EndedStaysEnded`) needs that an absent row has no attempts.
- `WritesFenced` (`WritesAreFenced`). `WriterInv`: ids are given in order, and the
  active job of a version is no older, in job and attempt, than the last write. Then
  a fenced write is of the active job, and a new job has a greater id.
- `NoStuckVersion` (`TransientHasJob`), from `OneActiveJob`: the job that ends was
  the only one, and its transaction settles the version.
- `ReviewCanGoOn` (`ReviewReachable`). `ReviewInv`: a thread about to persist a pause
  under its lease has a version that waits already, and a thread holds leases of
  its own process only.
- `CancelWins` (`PendingCancelWins`), `~ReadCommitted`: between the statements of a
  transition of a thread or a reaper that still holds, no cancel is pending.
- `AttemptsLimited` (`AttemptsBounded`; no run lists it): what a thread read as
  the maximum never exceeds the row's.

`ProcessLimitProofs`

- `TypeCorrect`, `PermitsNeverLeak` (`PermitsConserved`) and `NeverIdle`
  (`NoIdlePermit`). `Inv` adds that a user is queued at most once (otherwise a
  permit could reach it twice and one would vanish) and that the set of users with a
  permit is finite, which no assumption gives. `GivesBack` treats release and
  abandonment together. `available` never exceeds the size, so the `ValueError` of
  `_release_locked` cannot occur.
- `KeepsItsPromise` (`KeepsPromise`): the semaphore implements `FifoLimit`.
  `OrderStays` says what dropping users from the deque does to positions, and
  `HandsOver` that a handed permit passes dead waiters only; then each action maps to
  `Come`, `Leave`, `GiveUp` or a stutter. `FifoLimit` has a relation for its queue
  because a sequence filtered of the dead is defined by recursion, about which the
  prover can show nothing.

`RenderJobsProofs`. `ChainInv`: the jobs of a render are a chain of retries of which
all but the last are over and retried, a row names one of its jobs, and whatever a
thread or a request has in hand exists.

- `SuccessHasVideo` (`SucceededHasVideo`): the holder that reports success finds the
  row so, although rows are written without the lease.
- `ActiveJobsCanRender` (`ActiveCanRender`). `HolderInv`: no two workers hold a job,
  without pauses whoever is at work holds its own, and a worker that saw a
  cancellation either holds a job with a pending cancel or had a job that was
  cancelled. In the latter case it was superseded, so its job precedes the active one.
- `FinishedRendersStay` (`FinalRendersStay`): the marks and the result are written on
  conditions of the row itself, and what settles the row looks at them too.
- `RowsAreSettled` (`RendersSettled`): a queued row names the job inserted with it,
  which settles it; a running one was taken up by a thread that, without pauses,
  held its job.
- `QueueIsLimited` (`AdmissionLimit`), `~(SingleWriter /\ Retries)`: one request is
  between count and insert, and there is room while it is.
- `StartsExcludeEachOther` (`StartsExclude`): the version lock covers check and
  insert.
- `OneRenderWithoutRetries` (`OneActiveRender`), `~Retries`: without retries every
  render has one job, so what the run `RenderJobsRetryRace` finds is due to the
  retry alone.

`JobContextProofs`

- `UsagesAccounted`, `UsagesBilledOnce`, `CostsFollowUsage` from `AccountInv`: for each
  usage, where it is and how often, in numbers (`Billed` counts buffer, snapshot
  and rows), split by what a step does to buffer and books.
- `EventsStayInOrder` (`EventsInOrder`) and `TypeCorrect` from `OrderInv`. Buffer and
  snapshot rise, the snapshot is older than the buffer, and an event that is still
  in either was stored before anything later was (`Shown`), which is what makes
  a batch that was committed unheard, and is written again, harmless. The lemmas on
  sequences speak of positions: appending, dropping the head, cutting a prefix,
  removing a place and keeping a subsequence all leave a *part* of a rising sequence.

`AssetClaimsProofs`. `BaseInv`: every record fits the place of its process and says
what is true (`Sound`): a noted charge was reported, a completed record has its
clip, an abandoned operation has a process that gave it up.

- `ChargesReported` (`ChargeReported`), from `BaseInv`.
- `ClaimsExclude` (`OneProducer`). `HeldInv`: a process with its lease in a place the
  claim guards holds the claim, unexpired; a claim judged dead is dead for good.
- `OnePayment` (`PaidOncePerJob`). `PayInv`: at most one operation of a job stands,
  and both the saved record and every attempt that runs keep the job from paying
  for another.
- `InheritanceIsResumed` (`InheritedIsResumed`): on the way to a request of its own, a
  process with a resumable inheritance is confirmed, or somebody gave that up.
- `ChargesReportedOnce` (`ChargedOnce`). `SecretInv`: an operation the provider
  accepted and nobody was told of is in no record. `ToldInv`: every record of an
  operation whose charge the job reported says so, but while the note is saved.

`LectureVersionProofs`. `HistInv`: the snapshot of a handler is current, each text has
its revision, bases are known, the writer mark names a job that raised its base.

- `EditsAreKept` (`NoLostEdit`), `RendersAreCurrent` (`RenderIsCurrent`).
- `ScriptsOnce` (`ScriptOnce`): a job that wrote has left its base behind or, a
  translation, has its mark on the current revision.
- `OwnWritesResume` (`OwnWriteResumes`).
- `ApprovedPlansAreWritten` (`ApprovedPlanIsWritten`). `PlanInv`: one generation is
  live, its version keeps the plan approved until a text is written, and the
  handler of a continuation neither plans nor pauses.

`AssetCleanupProofs`

- `HandedOutIsStored` (`RowHasBlob`), both databases. `OwnInv`: a blob has one owner, a
  row, a thread that uploaded it or the cleanups that deleted its row.
- `BuildsKeepAssets` (`BuildKeepsAssets`), `ManifestsPlay` (`ManifestStored`), SQLite.
  `KeepInv` adds the leases (a holder has a running build of its own) and that
  references precede the manifest; a row goes only while no build runs and nothing
  refers to it.

Only model-checked: the liveness properties `JobsEnd`, `RendersEnd`, `WaitersServed`,
`UsageWritten`, `CallsEnd`, `ProgressEnds` and `GarbageGoes` (fairness and `ENABLED`
are outside what the prover handles), and the violations.

## 5. Findings

1. *A cancel can be forgotten on PostgreSQL* (`JobQueuePostgresCancel`). A
   requeue, release or review pause runs "cancel if requested" and then an update
   that does not look at the flag. A cancel committed between the two leaves a
   waiting job with the flag set; the docstring says a pending cancel always wins.
2. *Two active renders of a version* (`RenderJobsRetryRace`). A retry reads the
   active renders without the lock that a start takes.
3. *A stop over the budget forgets a paid operation* (`AssetClaimsBudget`). The
   record is marked abandoned before the stop is seen for what it is.
4. *A retry of a job that had saved the screenplay does nothing*
   (`LectureVersionRetry`). The copied payload names the old revision and the
   writer mark the old job, so the retry ends as a conflict, reported as success,
   and the version stays failed although its lesson stage offers that retry.

Observed while modelling, with no run of their own:

- *Queue, PostgreSQL.* Approving a review locks the version row and then the job
  row, a cancel the job row and then the version row. The two can deadlock; the
  database aborts one of them.
- *Renders.* On SQLite the admission count of a retry is not protected by the
  writer lock (the transaction has not written yet), so `AdmissionLimit` fails
  with `SingleWriter` and `Retries`. Where workers pause, a superseded one shows
  a failed render as running, because `_start_render` has no fence, and nobody
  settles that row again. And one whose heartbeat saw the cancellation of its job
  marks the row as cancelled after the job was cancelled by the reaper and the
  render retried: the retry then fails as a conflict. The comment in `render_video`
  says that the row is left untouched on a lost lease, which holds of a loss the
  worker has noticed. `RendersSettled` and `ActiveCanRender` except these two cases
  and no others.
- *Context.* `log` and `progress` test `_lease_lost` outside the lock. An event
  appended after the buffers of a lost context were discarded is never written
  and never removed, and each late flush thread starts the next, for ever.
- *Claims.* The note that a charge was reported is in the record of one job. When
  another job takes the claim over, reports the charge and then gives the clip
  up (over its own budget), the first job's retry resumes the operation from its
  own record and reports the charge again, to its own budget. `ChargedOnce`
  therefore speaks of one job.
- *Claims, three attempts.* The second attempt may resume the operation of the first
  and give it up before the third pays again. Whose record says so is thus any
  attempt of the job, and `PaidOncePerJob` asks for that.
- *Versions.* `save_source_review` compares the status only: while a request holds
  the old metadata the source may be approved and the plan reach its own pause,
  with the same status; the save then brings back the source marker and loses the
  plan (`ReviewsAgree` fails with two requests). An approval after that finds no
  plan, and its continuation plans anew; `ApprovedPlanIsWritten` speaks of the
  approvals that found one. A worker that dies after it opened the
  version for review and before the job awaits it leaves a plan the teacher may
  edit while the job is queued again; the second attempt plans anew over the
  edit. The payload of a translation has no base revision, so the retry of one
  whose build failed translates again over a teacher's edits.
- *Assets, PostgreSQL.* The comment on the collector's DELETE calls the check
  atomic with the delete. Under READ COMMITTED the statement's snapshot may
  precede the commit of a claim, and the build that begins may find an asset that
  the DELETE then removes: `BuildKeepsAssets` and `ManifestStored` fail there and
  are claimed for SQLite. A cleanup that dies between the row and the blob leaves
  the blob for ever, and no code removes an `AssetRef`.

## 6. What the models leave out of what they cover

- Values of time, priorities other than cleanup's, worker kinds filters, thread
  counts per process (one job thread per process), back-off durations.
- In `JobQueue` the contents of payloads and results, `progress` columns, and the
  idempotency of enqueue by key; and the two statements of a cancel request (a
  queued row ends, a running one is flagged) are one step.
- In `RenderJobs` the encoder; the limit of active renders per user, beside the
  global one (only that is claimed); and what can go wrong between the claim and the
  start of a render (a row or a timeline that cannot be loaded), which ends as the
  modelled failure does.
- In `JobContext` a crash of the process (its buffers are lost, by design), the
  message text and stage that decide what a progress event replaces, and progress
  that is written without an event.
- In `AssetClaims` the sharing of a production inside one process, assets whose
  blob was lost, and the second payment that the code's documentation accepts:
  after an ambiguous request was released to another job, or when the holder of a
  claim is frozen beyond its lifetime.
- In `ProcessLimit` the replacement of limits while permits are held: only tests
  call `configure_limits` and `reset_limits`.
- In `LectureVersion` the content of plans and screenplays, imported and
  duplicated versions (they start like a version whose screenplay was just
  edited), the checkpoints of partial results inside a stage, the error text of a
  failure in the metadata, and more than one handler at a time: a worker that lost
  its lease cannot write. `NextStep` joins the steps offered once a lesson is built
  (render, watch, a failed render), which no property tells apart.
- In `AssetCleanup` the kinds of asset that are never collected, and the age of
  an asset beyond old or not; the operator's option `force_assets`, which overrides
  the guard, and `dry_run`; and that a cleanup which finds another one running
  collects nothing: here they overlap freely.

## 7. Plan

Done: the queue (the core), renders, limits, context, claims with the reported
charge, the lecture version, the cleanup; every safety invariant and action
property of the runs as a theorem, and the refinement of `FifoLimit`.

Next, in this order:

1. The lease register of section 8 as a module, and the queue shown to implement it.
2. With `ReadCommitted`: that a cancel is lost only between the two statements of a
   transition, and that a render left as running where workers pause is one whose job was
   recovered under a living worker. Both say how far the first finding and the observation
   on renders reach.
3. Invariants behind the liveness properties: that whoever waits has somebody whose
   next step is enabled.

## 8. Abstract specifications

`FifoLimit` is the one stated so far; that `ProcessLimit` implements it is model
checked and proved. For the queue, the useful abstraction is a
lease register per job ("at most one attempt writes at a time, attempts in
order"); it is stated as the action property `WritesAreFenced` rather than as a
module because nothing else of the queue is visible through it.

## 9. Not modelled, and why

- *Event streams*: every writer of `job_events` first updates the job row of the
  same transaction, so the ids of one job are committed in order and a reader
  that polls by id misses none; the reader reads the job before its events, so
  the last event is never skipped. What remains is framing and slot counts.
- *Generation stages* (plan, script, critic, repair, source scope): rules over
  text, no shared state.
- *Provider adapters*: request wrappers and key pools around external services;
  the one whose effects last, a paid video operation, is in `AssetClaims`.
- *Composition, FFmpeg, Manim*: real-valued timing and external programs.
- *Accounts, rate limits, quotas, shares, library, analytics*: single statements
  or one lock per call.
- *Browser player and studio*: JavaScript that reads the API.
- *Evaluation harness and the first version of the program*: developer tools.
