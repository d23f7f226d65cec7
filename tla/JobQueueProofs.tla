--------------------------- MODULE JobQueueProofs ---------------------------
(* Proofs about the job queue, for any number of workers, versions, jobs   *)
(* and attempts and for both transaction modes.                            *)
EXTENDS JobQueue, TLAPS

-----------------------------------------------------------------------------
(* Type correctness *)

\* The part of TypeOK about the tables.
RowsOK ==
  /\ jobs \in [JobIds -> JobRow]
  /\ versions \in [Versions -> [status : VersionStatus, built : BOOLEAN]]
  /\ renders \in [Renders -> [status : RenderStatus, job : JobIds \cup {0}]]

\* _insert_job: a new row is well typed.
LEMMA NewRowType ==
  ASSUME NEW k \in Kinds, NEW v \in Versions \cup {NoVersion}, NEW r \in Renders \cup {NoRender}
  PROVE  NewRow(k, v, r) \in JobRow
BY ConstantsAssumption DEF NewRow, JobRow, JobStatus, Active, Owners, NoOwner

\* Clearing the lock columns keeps a row well typed.
LEMMA UnlockedType ==
  ASSUME NEW row \in JobRow
  PROVE  Unlocked(row) \in JobRow
BY DEF Unlocked, JobRow, Owners

\* settle_version writes a version row of the right shape.
LEMMA SettleVersionType ==
  ASSUME RowsOK, NEW j \in JobIds
  PROVE  SettleVersion(j) \in [Versions -> [status : VersionStatus, built : BOOLEAN]]
BY DEF RowsOK, SettleVersion, VersionStatus

\* settle_render writes render rows of the right shape.
LEMMA SettleRenderType ==
  ASSUME RowsOK, NEW j \in JobIds, NEW s \in Terminal
  PROVE  SettleRender(j, s) \in [Renders -> [status : RenderStatus, job : JobIds \cup {0}]]
BY DEF RowsOK, SettleRender, RenderStatus

\* So does a change of status that clears the lock.
LEMMA WithStatusType ==
  ASSUME NEW row \in JobRow, NEW s \in JobStatus
  PROVE  WithStatus(row, s) \in JobRow
BY UnlockedType DEF WithStatus, JobRow

\* So does the end of a job.
LEMMA OverType ==
  ASSUME NEW row \in JobRow, NEW s \in JobStatus
  PROVE  Over(row, s) \in JobRow
<1>1. WithStatus(row, s) \in JobRow
  BY WithStatusType
<1> QED BY <1>1, ConstantsAssumption DEF Over, JobRow

\* The end of a job changes its status and nothing that names its version.
LEMMA OverShape ==
  ASSUME NEW row \in JobRow, NEW s
  PROVE  Over(row, s).kind = row.kind /\ Over(row, s).version = row.version
         /\ Over(row, s).status = s
BY DEF Over, WithStatus, Unlocked, JobRow

\* finish, cancel and fail: the terminal transition with what it settles.
LEMMA EndType ==
  ASSUME RowsOK, NEW j \in JobIds, NEW s \in Terminal, End(j, s)
  PROVE  RowsOK'
<1>1. Over(jobs[j], s) \in JobRow
  BY OverType DEF RowsOK, JobStatus
<1> QED BY <1>1, SettleVersionType, SettleRenderType DEF RowsOK, End

\* requeue, release and recovery.
LEMMA RequeueType ==
  ASSUME RowsOK, NEW j \in JobIds, NEW due \in BOOLEAN, NEW n \in Nat, Requeue(j, due, n)
  PROVE  RowsOK'
<1>1. WithStatus(jobs[j], "queued") \in JobRow
  BY WithStatusType DEF RowsOK, JobStatus, Active
<1>2. jobs[j].max + n \in Nat
  BY DEF RowsOK, JobRow
<1>3. Requeued(jobs[j], due, n) \in JobRow
  BY <1>1, <1>2 DEF Requeued, JobRow
<1> QED BY <1>3 DEF RowsOK, Requeue

\* The review pause.
LEMMA AwaitReviewType ==
  ASSUME RowsOK, NEW j \in JobIds, AwaitReview(j)
  PROVE  RowsOK'
<1>1. WithStatus(jobs[j], "awaiting_review") \in JobRow
  BY WithStatusType DEF RowsOK, JobStatus, Active
<1> QED BY <1>1 DEF RowsOK, AwaitReview

\* An insert, whichever rows changed before it in the transaction.
LEMMA NextIdType ==
  ASSUME TypeOK, NEW k \in Kinds, NEW v \in Versions \cup {NoVersion},
         NEW r \in Renders \cup {NoRender}, NEW n \in JobIds, NEW f,
         f \in [JobIds -> JobRow], jobs' = [f EXCEPT ![n] = NewRow(k, v, r)]
  PROVE  jobs' \in [JobIds -> JobRow]
BY NewRowType

\* The thread of a fresh process, and of one that looks for work.
LEMMA IdleType ==
  ASSUME TypeOK, NEW w \in Workers, NEW b \in Nat, NEW p \in Phases
  PROVE  FreshWorker(b, p) \in WorkerRow
BY DEF FreshWorker, WorkerRow, Outcomes, NoLease, Leases, Owners, TypeOK

\* A thread that forgets its job.
LEMMA ToIdleType ==
  ASSUME TypeOK, NEW w \in Workers, ToIdle(w)
  PROVE  workers' \in [Workers -> WorkerRow]
<1>1. FreshWorker(workers[w].boot, "idle") \in WorkerRow
  BY IdleType DEF TypeOK, Phases, WorkerRow
<1>2. Idle(w) \in WorkerRow
  BY <1>1 DEF Idle, WorkerRow, TypeOK
<1> QED BY <1>2 DEF ToIdle, TypeOK

\* A thread whose handler is over.
LEMMA ToOutcomeType ==
  ASSUME TypeOK, NEW w \in Workers, NEW o \in Outcomes, ToOutcome(w, o)
  PROVE  workers' \in [Workers -> WorkerRow]
<1>1. workers[w] \in WorkerRow
  BY DEF TypeOK
<1>2. [workers[w] EXCEPT !.phase = "persisting", !.outcome = o, !.max = 0,
                         !.seen = FALSE, !.lost = FALSE, !.shutdown = FALSE] \in WorkerRow
  BY <1>1 DEF WorkerRow, Phases
<1> QED BY <1>2 DEF ToOutcome, TypeOK

\* The name of a process is an owner.
LEMMA SelfType ==
  ASSUME TypeOK, NEW w \in Workers
  PROVE  Self(w) \in Owners
BY DEF Self, Owners, OwnerIds, TypeOK, WorkerRow

\* What a heartbeat or a fenced write tells the thread.
LEMMA ObservedType ==
  ASSUME TypeOK, NEW w \in Workers
  PROVE  Observed(w) \in [Workers -> WorkerRow]
<1>1. workers[w] \in WorkerRow
  BY DEF TypeOK
<1>2. CASE Holds(workers[w].lease)
  <2>1. jobs[workers[w].lease.job].cancel \in BOOLEAN
    BY <1>2 DEF Holds, TypeOK, JobRow
  <2>2. (workers[w].seen \/ jobs[workers[w].lease.job].cancel) \in BOOLEAN
    BY <1>1 DEF WorkerRow
  <2>3. [workers[w] EXCEPT !.seen = workers[w].seen \/ jobs[workers[w].lease.job].cancel]
          \in WorkerRow
    BY <1>1, <2>2 DEF WorkerRow
  <2> QED BY <1>2, <2>3 DEF Observed, TypeOK
<1>3. CASE ~Holds(workers[w].lease)
  <2>1. [workers[w] EXCEPT !.lost = TRUE] \in WorkerRow
    BY <1>1 DEF WorkerRow
  <2> QED BY <1>3, <2>1 DEF Observed, TypeOK
<1> QED BY <1>2, <1>3

\* The empty database and fresh processes.
LEMMA InitType == Init => TypeOK
<1> SUFFICES ASSUME Init PROVE TypeOK
  OBVIOUS
<1>1. NewRow("cleanup", NoVersion, NoRender) \in JobRow
  BY NewRowType DEF Kinds
<1>2. AbsentRow \in JobRow
  BY <1>1 DEF AbsentRow, JobRow, JobStatus
<1>3. jobs \in [JobIds -> JobRow]
  BY <1>2 DEF Init
<1>4. FreshWorker(0, "idle") \in WorkerRow
  BY DEF FreshWorker, WorkerRow, Outcomes, NoLease, Leases, Owners, Phases
<1>5. NoRecovery \in [stage : Stages, why : {"stale", "dead"}, lease : Leases]
  BY DEF NoRecovery, Stages, NoLease, Leases, Owners
<1> QED BY <1>3, <1>4, <1>5 DEF Init, TypeOK, VersionStatus, RenderStatus, Tokens

\* Requests of the API.
LEMMA RequestType ==
  ASSUME TypeOK, Request PROVE TypeOK'
<1>1. ASSUME NEW v \in Versions, NEW k \in MutatingKinds, CreateVersion(v, k) PROVE TypeOK'
  <2>1. k \in Kinds
    BY DEF Kinds
  <2>2. jobs' \in [JobIds -> JobRow]
    BY <1>1, <2>1, NextIdType DEF CreateVersion, Insert, TypeOK
  <2> QED BY <1>1, <2>2 DEF CreateVersion, TypeOK, VersionStatus, Transient
<1>2. ASSUME NEW v \in Versions, EnqueueBuild(v) PROVE TypeOK'
  <2>1. jobs' \in [JobIds -> JobRow]
    BY <1>2, NextIdType DEF EnqueueBuild, Insert, TypeOK, Kinds, MutatingKinds
  <2> QED BY <1>2, <2>1 DEF EnqueueBuild, TypeOK
<1>3. ASSUME NEW r \in Renders, NEW v \in Versions, EnqueueRender(r, v) PROVE TypeOK'
  <2>1. jobs' \in [JobIds -> JobRow]
    BY <1>3, NextIdType DEF EnqueueRender, Insert, TypeOK, Kinds
  <2> QED BY <1>3, <2>1 DEF EnqueueRender, TypeOK, RenderStatus
<1>4. ASSUME EnqueueCleanup PROVE TypeOK'
  <2>1. jobs' \in [JobIds -> JobRow]
    BY <1>4, NextIdType DEF EnqueueCleanup, Insert, TypeOK, Kinds
  <2> QED BY <1>4, <2>1 DEF EnqueueCleanup, TypeOK
<1>5. ASSUME NEW j \in JobIds, RequestCancel(j) PROVE TypeOK'
  <2>1. RowsOK /\ jobs[j] \in JobRow
    BY DEF RowsOK, TypeOK
  <2>3. Over(jobs[j], "cancelled") \in JobRow
    BY <2>1, OverType DEF JobStatus, Terminal
  <2>4. SettleRender(j, "cancelled") \in [Renders -> [status : RenderStatus, job : JobIds \cup {0}]]
    BY <2>1, SettleRenderType DEF Terminal
  <2>5. [jobs[j] EXCEPT !.cancel = TRUE] \in JobRow
    BY <2>1 DEF JobRow
  <2>6. jobs' \in [JobIds -> JobRow]
    BY <1>5, <2>3, <2>5 DEF RequestCancel, TypeOK
  <2>7. versions' \in [Versions -> [status : VersionStatus, built : BOOLEAN]]
    BY <1>5, <2>1, SettleVersionType DEF RequestCancel, TypeOK
  <2>8. renders' \in [Renders -> [status : RenderStatus, job : JobIds \cup {0}]]
    BY <1>5, <2>4 DEF RequestCancel, TypeOK
  <2> QED BY <1>5, <2>6, <2>7, <2>8 DEF RequestCancel, TypeOK
<1>6. ASSUME NEW j \in JobIds, RetryJob(j) PROVE TypeOK'
  <2>1. jobs[j] \in JobRow
    BY DEF TypeOK
  <2>2. [jobs[j] EXCEPT !.retried = TRUE] \in JobRow
    BY <2>1 DEF JobRow
  <2>3. NewRow(jobs[j].kind, jobs[j].version, jobs[j].render) \in JobRow
    BY <2>1, NewRowType DEF JobRow
  <2>4. PICK n \in JobIds :
          /\ jobs' = [jobs EXCEPT ![j].retried = TRUE,
                        ![n] = NewRow(jobs[j].kind, jobs[j].version, jobs[j].render)]
          /\ renders' = IF jobs[j].render = NoRender THEN renders
                        ELSE [renders EXCEPT ![jobs[j].render] = [status |-> "queued", job |-> n]]
    BY <1>6 DEF RetryJob
  <2>5. jobs' \in [JobIds -> JobRow]
    BY <2>2, <2>3, <2>4 DEF TypeOK
  <2>6. renders' \in [Renders -> [status : RenderStatus, job : JobIds \cup {0}]]
    BY <2>4 DEF TypeOK, RenderStatus
  <2> QED BY <1>6, <2>5, <2>6 DEF RetryJob, TypeOK
<1>7. ASSUME NEW j \in JobIds, ApproveReview(j) PROVE TypeOK'
  <2>1. jobs[j] \in JobRow
    BY DEF TypeOK
  <2>2. Over(jobs[j], "succeeded") \in JobRow
    BY <2>1, OverType DEF JobStatus, Terminal
  <2>3. NewRow("generate_lecture", jobs[j].version, NoRender) \in JobRow
    BY <2>1, NewRowType DEF JobRow, Kinds, MutatingKinds
  <2>4. PICK n \in JobIds :
          jobs' = [jobs EXCEPT ![j] = Over(jobs[j], "succeeded"),
                     ![n] = NewRow("generate_lecture", jobs[j].version, NoRender)]
    BY <1>7 DEF ApproveReview
  <2>5. jobs' \in [JobIds -> JobRow]
    BY <2>2, <2>3, <2>4 DEF TypeOK
  <2>6. versions' \in [Versions -> [status : VersionStatus, built : BOOLEAN]]
    <3>1. \A v \in Versions : [versions[v] EXCEPT !.status = "busy"]
                               \in [status : VersionStatus, built : BOOLEAN]
      BY DEF TypeOK, VersionStatus, Transient
    <3> QED BY <1>7, <3>1 DEF ApproveReview, TypeOK
  <2> QED BY <1>7, <2>5, <2>6 DEF ApproveReview, TypeOK
<1> QED BY <1>1, <1>2, <1>3, <1>4, <1>5, <1>6, <1>7 DEF Request

\* The passing of time.
LEMMA TickType ==
  ASSUME TypeOK, Tick PROVE TypeOK'
<1>1. PICK j \in JobIds : BackoffElapses(j) \/ HeartbeatGoesStale(j)
  BY DEF Tick
<1>2. jobs[j] \in JobRow
  BY DEF TypeOK
<1>3. [jobs[j] EXCEPT !.due = TRUE] \in JobRow /\ [jobs[j] EXCEPT !.fresh = FALSE] \in JobRow
  BY <1>2 DEF JobRow
<1> QED BY <1>1, <1>3 DEF BackoffElapses, HeartbeatGoesStale, TypeOK

\* Steps of a thread that write no row and end the handler.
LEMMA OutcomeStepType ==
  ASSUME TypeOK, NEW w \in Workers, NEW o \in Outcomes, ToOutcome(w, o),
         UNCHANGED <<jobs, versions, renders, maint, writer>>
  PROVE  TypeOK'
BY ToOutcomeType DEF TypeOK

\* Steps of a thread that write rows of the right shape and end the job.
LEMMA IdleStepType ==
  ASSUME TypeOK, NEW w \in Workers, ToIdle(w), RowsOK', UNCHANGED <<maint, writer>>
  PROVE  TypeOK'
BY ToIdleType DEF TypeOK, RowsOK

\* Every step of a job thread.
LEMMA ThreadType ==
  ASSUME TypeOK, NEW w \in Workers, Thread(w) PROVE TypeOK'
<1> DEFINE l == workers[w].lease
<1>a. RowsOK /\ workers[w] \in WorkerRow /\ l \in Leases
  BY DEF TypeOK, RowsOK, WorkerRow
<1>b. Holds(l) => l.job \in JobIds /\ jobs[l.job] \in JobRow
  BY DEF TypeOK, Holds
<1>1. CASE Claim(w)
  <2>1. PICK j \in JobIds :
          /\ jobs' = [jobs EXCEPT ![j] = Claimed(jobs[j], Self(w))]
          /\ workers' = [workers EXCEPT ![w].phase = "claimed", ![w].lease =
                           [job |-> j, owner |-> Self(w), attempt |-> jobs[j].attempts + 1]]
    BY <1>1 DEF Claim
  <2>2. jobs[j] \in JobRow /\ jobs[j].attempts + 1 \in Nat
    BY DEF TypeOK, JobRow
  <2>3. Claimed(jobs[j], Self(w)) \in JobRow
    BY <2>2, SelfType DEF Claimed, JobRow, JobStatus, Active
  <2>4. [job |-> j, owner |-> Self(w), attempt |-> jobs[j].attempts + 1] \in Leases
    BY <2>2, SelfType DEF Leases
  <2>5. [workers[w] EXCEPT !.phase = "claimed", !.lease =
           [job |-> j, owner |-> Self(w), attempt |-> jobs[j].attempts + 1]] \in WorkerRow
    BY <1>a, <2>4 DEF WorkerRow, Phases
  <2>6. workers' = [workers EXCEPT ![w] = [workers[w] EXCEPT !.phase = "claimed", !.lease =
           [job |-> j, owner |-> Self(w), attempt |-> jobs[j].attempts + 1]]]
    BY <2>1 DEF TypeOK, WorkerRow
  <2>7. workers' \in [Workers -> WorkerRow]
    BY <2>5, <2>6 DEF TypeOK
  <2> QED BY <1>1, <2>1, <2>3, <2>7 DEF Claim, TypeOK
<1>2. CASE Open(w)
  <2>1. ASSUME ToIdle(w) PROVE TypeOK'
    BY <1>2, <2>1, <1>a, IdleStepType DEF Open, RowsOK
  <2>2. ASSUME Holds(l),
               workers' = [workers EXCEPT ![w].phase = "running",
                             ![w].max = jobs[l.job].max, ![w].seen = jobs[l.job].cancel]
        PROVE  TypeOK'
    <3>1. jobs[l.job].max \in Nat /\ jobs[l.job].cancel \in BOOLEAN
      BY <2>2, <1>b DEF JobRow
    <3>2. [workers[w] EXCEPT !.phase = "running", !.max = jobs[l.job].max,
                             !.seen = jobs[l.job].cancel] \in WorkerRow
      BY <1>a, <3>1 DEF WorkerRow, Phases
    <3>3. workers' \in [Workers -> WorkerRow]
      BY <2>2, <3>2 DEF TypeOK
    <3> QED BY <1>2, <3>3 DEF Open, TypeOK
  <2>3. ASSUME NEW o \in {"release", "retry_if_left", "failed"}, ToOutcome(w, o) PROVE TypeOK'
    BY <1>2, <2>3, OutcomeStepType DEF Open, Outcomes
  <2> QED BY <1>2, <2>1, <2>2, <2>3 DEF Open
<1>3. ASSUME NEW s \in VersionStatus, HandlerWritesVersion(w, s) PROVE TypeOK'
  <2>1. CASE Holds(l)
    <3>1. [jobs[l.job] EXCEPT !.fresh = TRUE] \in JobRow
      BY <2>1, <1>b DEF JobRow
    <3>2. jobs' \in [JobIds -> JobRow]
      BY <1>3, <2>1, <3>1 DEF HandlerWritesVersion, TypeOK
    <3>3. versions' \in [Versions -> [status : VersionStatus, built : BOOLEAN]]
      <4>1. PICK b \in (IF s = "ready" THEN {versions[jobs[l.job].version].built, TRUE}
                        ELSE {versions[jobs[l.job].version].built}) :
              versions' = [versions EXCEPT ![jobs[l.job].version] = [status |-> s, built |-> b]]
        BY <1>3, <2>1 DEF HandlerWritesVersion
      <4>2. CASE jobs[l.job].version \in Versions
        <5>1. b \in BOOLEAN
          BY <4>2 DEF TypeOK
        <5> QED BY <4>1, <5>1 DEF TypeOK
      <4>3. CASE jobs[l.job].version \notin Versions
        BY <4>1, <4>3 DEF TypeOK
      <4> QED BY <4>2, <4>3
    <3>4. writer' \in [Versions -> Tokens]
      BY <1>3, <2>1, <1>a DEF HandlerWritesVersion, TypeOK, Tokens, Leases
    <3>5. workers' \in [Workers -> WorkerRow]
      BY <1>3, <2>1, ToOutcomeType DEF HandlerWritesVersion, TypeOK, Outcomes
    <3> QED BY <1>3, <3>2, <3>3, <3>4, <3>5 DEF HandlerWritesVersion, TypeOK
  <2>2. CASE ~Holds(l)
    <3>1. [workers[w] EXCEPT !.lost = TRUE] \in WorkerRow
      BY <1>a DEF WorkerRow
    <3> QED BY <1>3, <2>2, <3>1 DEF HandlerWritesVersion, TypeOK
  <2> QED BY <2>1, <2>2
<1>4. CASE HandlerEnds(w)
  <2>1. PICK o \in Outcomes : ToOutcome(w, o)
    BY <1>4 DEF HandlerEnds, HandlerReturns, HandlerFailsForGood, HandlerRaises, HandlerStops,
                HandlerQuits, Outcomes
  <2> QED BY <1>4, <2>1, OutcomeStepType
         DEF HandlerEnds, HandlerReturns, HandlerFailsForGood, HandlerRaises, HandlerStops, HandlerQuits
<1>5. CASE Persist(w)
  <2>1. ASSUME NoWrite, ToIdle(w) PROVE TypeOK'
    BY <1>5, <2>1, <1>a, IdleStepType DEF Persist, NoWrite, RowsOK
  <2>2. ASSUME NEW s \in Terminal, Holds(l), End(l.job, s), ToIdle(w) PROVE TypeOK'
    BY <1>5, <2>2, <1>a, <1>b, EndType, IdleStepType DEF Persist
  <2>3. ASSUME NoWrite, ToOutcome(w, "failed") PROVE TypeOK'
    BY <1>5, <2>3, OutcomeStepType DEF Persist, NoWrite, Outcomes
  <2>4. ASSUME NoWrite, workers' = [workers EXCEPT ![w].phase = "writing"] PROVE TypeOK'
    <3>1. [workers[w] EXCEPT !.phase = "writing"] \in WorkerRow
      BY <1>a DEF WorkerRow, Phases
    <3>2. UNCHANGED <<jobs, versions, renders, maint, writer>>
      BY <1>5, <2>4 DEF Persist, NoWrite
    <3> QED BY <2>4, <3>1, <3>2 DEF TypeOK
  <2> QED BY <1>5, <2>1, <2>2, <2>3, <2>4 DEF Persist, Terminal
<1>6. CASE GiveUp(w)
  BY <1>6, <1>a, IdleStepType DEF GiveUp, RowsOK
<1> QED BY <1>1, <1>2, <1>3, <1>4, <1>5, <1>6 DEF Thread, Handler

\* Every step of a heartbeat.
LEMMA HeartbeatType ==
  ASSUME TypeOK, NEW w \in Workers, Heartbeat(w) PROVE TypeOK'
<1>1. CASE BeatOnce(w)
  <2>1. CASE Holds(workers[w].lease)
    <3>1. jobs[workers[w].lease.job] \in JobRow
      BY <2>1 DEF Holds, TypeOK
    <3>2. [jobs[workers[w].lease.job] EXCEPT !.fresh = TRUE] \in JobRow
      BY <3>1 DEF JobRow
    <3> QED BY <1>1, <2>1, <3>2, ObservedType DEF BeatOnce, TypeOK
  <2> QED BY <1>1, <2>1, ObservedType DEF BeatOnce, TypeOK
<1>2. CASE RefreshFlags(w)
  BY <1>2, ObservedType DEF RefreshFlags, TypeOK
<1> QED BY <1>1, <1>2 DEF Heartbeat

\* The rows of maint.
MaintRow == [stage : Stages, why : {"stale", "dead"}, lease : Leases]

\* Shutdown, crash and restart.
LEMMA ProcessType ==
  ASSUME TypeOK, NEW w \in Workers, Process(w) PROVE TypeOK'
<1>1. workers[w] \in WorkerRow /\ maint[w] \in MaintRow
  BY DEF TypeOK, MaintRow
<1>2. NoRecovery \in MaintRow
  BY DEF NoRecovery, MaintRow, Stages, NoLease, Leases, Owners
<1>b. workers[w].boot \in Nat /\ workers[w].boot + 1 \in Nat
  BY <1>1 DEF WorkerRow
<1>3. CASE Stop(w) \/ RequestShutdown(w)
  <2>1. [workers[w] EXCEPT !.stopping = TRUE] \in WorkerRow /\
        [workers[w] EXCEPT !.shutdown = TRUE] \in WorkerRow
    BY <1>1 DEF WorkerRow
  <2> QED BY <1>3, <2>1 DEF Stop, RequestShutdown, TypeOK
<1>4. CASE Exit(w) \/ Crash(w)
  <2>1. FreshWorker(workers[w].boot, "down") \in WorkerRow
    BY <1>b, IdleType DEF Phases
  <2>2. Exits(w)
    BY <1>4 DEF Exit, Crash
  <2> QED BY <1>2, <2>1, <2>2 DEF Exits, TypeOK, MaintRow
<1>5. CASE Restart(w)
  <2>1. FreshWorker(workers[w].boot + 1, "idle") \in WorkerRow
    BY <1>b, IdleType DEF Phases
  <2>2. \A s \in Stages : [maint[w] EXCEPT !.stage = s] \in MaintRow
    BY <1>1 DEF MaintRow
  <2>3. workers' \in [Workers -> WorkerRow]
    BY <1>5, <2>1 DEF Restart, TypeOK
  <2>4. maint' \in [Workers -> MaintRow]
    BY <1>5, <2>2 DEF Restart, TypeOK, MaintRow, Stages
  <2> QED BY <1>5, <2>3, <2>4 DEF Restart, TypeOK, MaintRow
<1> QED BY <1>3, <1>4, <1>5 DEF Process

\* The lease a maintenance thread reads from a row.
LEMMA RowLeaseType ==
  ASSUME TypeOK, NEW j \in JobIds PROVE RowLease(j) \in Leases
BY DEF RowLease, Leases, TypeOK, JobRow

\* A maintenance thread that is done with a row.
LEMMA AfterRowType ==
  ASSUME TypeOK, NEW w \in Workers, AfterRow(w) PROVE maint' \in [Workers -> MaintRow]
<1>1. \A s \in Stages : [NoRecovery EXCEPT !.stage = s] \in MaintRow
  BY DEF NoRecovery, MaintRow, Stages, NoLease, Leases, Owners
<1> QED BY <1>1 DEF AfterRow, TypeOK, MaintRow, Stages

\* Every first step of a recovery.
LEMMA MaintenanceType ==
  ASSUME TypeOK, NEW w \in Workers, Maintenance(w) \/ RecoverRow(w) PROVE TypeOK'
<1> DEFINE l == maint[w].lease
<1>a. RowsOK /\ maint[w] \in MaintRow
  BY DEF TypeOK, RowsOK, MaintRow
<1>1. ASSUME NEW j \in JobIds, SelectStale(w, j) \/ SelectOwnHost(w, j) PROVE TypeOK'
  <2>1. \A y \in {"stale", "dead"} :
          [stage |-> "selected", why |-> y, lease |-> RowLease(j)] \in MaintRow
    BY RowLeaseType DEF MaintRow, Stages
  <2> QED BY <1>1, <2>1 DEF SelectStale, SelectOwnHost, TypeOK, MaintRow
<1>2. CASE RecoveryDone(w)
  <2>1. NoRecovery \in MaintRow
    BY DEF NoRecovery, MaintRow, Stages, NoLease, Leases, Owners
  <2> QED BY <1>2, <2>1 DEF RecoveryDone, TypeOK, MaintRow
<1>3. CASE RecoverCancelled(w)
  <2>1. CASE End(l.job, "cancelled") /\ StillLost(w)
    <3>1. RowsOK'
      BY <1>a, <2>1, EndType DEF StillLost, Holds, Terminal
    <3>2. maint' \in [Workers -> MaintRow]
      <4>1. CASE AfterRow(w)
        BY <4>1, AfterRowType
      <4>2. CASE maint' = [maint EXCEPT ![w].stage = "checked"]
        <5>1. [maint[w] EXCEPT !.stage = "checked"] \in MaintRow
          BY <1>a DEF MaintRow, Stages
        <5> QED BY <4>2, <5>1 DEF TypeOK, MaintRow
      <4> QED BY <1>3, <4>1, <4>2 DEF RecoverCancelled
    <3> QED BY <1>3, <3>1, <3>2 DEF RecoverCancelled, TypeOK, RowsOK, MaintRow
  <2>2. CASE NoWrite
    <3>1. [maint[w] EXCEPT !.stage = "checked"] \in MaintRow
      BY <1>a DEF MaintRow, Stages
    <3>2. maint' \in [Workers -> MaintRow]
      BY <1>3, <3>1, AfterRowType DEF RecoverCancelled, TypeOK, MaintRow
    <3> QED BY <1>3, <2>2, <3>2 DEF RecoverCancelled, NoWrite, TypeOK, MaintRow
  <2> QED BY <1>3, <2>1, <2>2 DEF RecoverCancelled
<1>4. CASE RecoverRow(w)
  <2>1. RowsOK'
    BY <1>4, <1>a, EndType, RequeueType DEF RecoverRow, NoWrite, RowsOK, StillLost, Holds, Terminal
  <2> QED BY <1>4, <2>1, AfterRowType DEF RecoverRow, TypeOK, RowsOK, MaintRow
<1> QED BY <1>1, <1>2, <1>3, <1>4 DEF Maintenance

\* The second statement of a transition.
LEMMA WriteType ==
  ASSUME TypeOK, NEW w \in Workers, Write(w) PROVE TypeOK'
<1> DEFINE l == workers[w].lease
<1>1. RowsOK
  BY DEF TypeOK, RowsOK
<1>2. CASE NoWrite
  BY <1>1, <1>2, IdleStepType DEF Write, NoWrite, RowsOK
<1>3. ASSUME Holds(l), AwaitReview(l.job) PROVE TypeOK'
  BY <1>1, <1>3, AwaitReviewType, IdleStepType DEF Write, Holds
<1>4. ASSUME NEW due \in BOOLEAN, NEW n \in {0, 1}, Holds(l), Requeue(l.job, due, n) PROVE TypeOK'
  BY <1>1, <1>4, RequeueType, IdleStepType DEF Write, Holds
<1>5. ASSUME Holds(l), End(l.job, "failed") PROVE TypeOK'
  BY <1>1, <1>5, EndType, IdleStepType DEF Write, Holds, Terminal
<1> QED BY <1>2, <1>3, <1>4, <1>5 DEF Write

\* Every step keeps the types.
LEMMA NextType == TypeOK /\ [Next]_vars => TypeOK'
<1> SUFFICES ASSUME TypeOK, [Next]_vars PROVE TypeOK'
  OBVIOUS
<1>1. CASE UNCHANGED vars
  BY <1>1 DEF vars, TypeOK
<1>2. CASE Next
  BY <1>2, RequestType, TickType, ThreadType, HeartbeatType, ProcessType, MaintenanceType, WriteType
     DEF Next, SecondStatement, OneStatement
<1> QED BY <1>1, <1>2

\* The rows, the worker threads and the maintenance threads keep the shape
\* of their tables and objects (models.py, worker.py, queue.py).
THEOREM TypeCorrect == Spec => []TypeOK
BY InitType, NextType, PTL DEF Spec

-----------------------------------------------------------------------------
(* One active job per version.  Every step either keeps or ends jobs        *)
(* (Shrinks) or inserts one row that no active mutating job contradicts.    *)

\* A mutating job belongs to a version that exists.
JobsHaveVersions ==
  \A j \in JobIds :
    jobs[j].status # "absent" /\ IsMutating(j)
      => jobs[j].version \in Versions /\ versions[jobs[j].version].status # "absent"

\* The inductive invariant: a request that creates a version looks at the
\* version only, so that no job names it must be known.
ActiveInv == TypeOK /\ OneActivePerVersion /\ JobsHaveVersions

\* Row k may end but is not started, and stays the same job.
ShrinksRow(k) ==
  /\ jobs'[k].kind = jobs[k].kind
  /\ jobs'[k].version = jobs[k].version
  /\ jobs'[k].status \in Active => jobs[k].status \in Active
  /\ jobs'[k].status = "absent" <=> jobs[k].status = "absent"

Shrinks == \A k \in JobIds : ShrinksRow(k)

\* Row n is inserted, for a version without an active job, and nothing starts.
Enqueues(n) ==
  /\ jobs'[n].status # "absent"
  /\ \A k \in JobIds \ {n} : ShrinksRow(k)
  /\ jobs'[n].kind \in MutatingKinds =>
       /\ jobs'[n].version \in Versions
       /\ versions'[jobs'[n].version].status # "absent"
       /\ \A k \in JobIds \ {n} :
            jobs'[k].status \in Active /\ jobs'[k].kind \in MutatingKinds
              => jobs'[k].version # jobs'[n].version

\* No version is deleted.
VersionsStay ==
  \A v \in Versions : versions[v].status # "absent" => versions'[v].status # "absent"

\* One row changes, keeps its identity and does not become active.
LEMMA ChangeRow ==
  ASSUME TypeOK, NEW j \in JobIds, NEW row, jobs' = [jobs EXCEPT ![j] = row],
         row.kind = jobs[j].kind, row.version = jobs[j].version,
         row.status \in Active => jobs[j].status \in Active,
         row.status = "absent" <=> jobs[j].status = "absent"
  PROVE  Shrinks
BY DEF Shrinks, ShrinksRow, TypeOK

\* Ending a job activates nothing.
LEMMA EndShape ==
  ASSUME TypeOK, NEW j \in JobIds, NEW s \in Terminal, End(j, s), jobs[j].status # "absent"
  PROVE  Shrinks /\ VersionsStay
<1>1. jobs[j] \in JobRow
  BY DEF TypeOK
<1>2. /\ Over(jobs[j], s).kind = jobs[j].kind
      /\ Over(jobs[j], s).version = jobs[j].version
      /\ Over(jobs[j], s).status = s
  BY <1>1, OverShape
<1>3. Shrinks
  BY <1>2, ChangeRow DEF End, Terminal, Active
<1>4. VersionsStay
  BY DEF End, SettleVersion, VersionsStay, TypeOK
<1> QED BY <1>3, <1>4

\* A requeue or a review pause keeps an active job active.
LEMMA RequeueShape ==
  ASSUME TypeOK, NEW j \in JobIds, NEW due, NEW n, jobs[j].status = "running",
         Requeue(j, due, n) \/ AwaitReview(j)
  PROVE  Shrinks /\ VersionsStay
<1>1. jobs[j] \in JobRow
  BY DEF TypeOK
<1>2. \A s : /\ WithStatus(jobs[j], s).kind = jobs[j].kind
             /\ WithStatus(jobs[j], s).version = jobs[j].version
             /\ WithStatus(jobs[j], s).status = s
             /\ Requeued(jobs[j], due, n).kind = jobs[j].kind
             /\ Requeued(jobs[j], due, n).version = jobs[j].version
             /\ Requeued(jobs[j], due, n).status = "queued"
  BY <1>1 DEF WithStatus, Unlocked, Requeued, JobRow
<1>3. CASE Requeue(j, due, n)
  BY <1>2, <1>3, ChangeRow DEF Requeue, Active, VersionsStay
<1>4. CASE AwaitReview(j)
  <2> DEFINE row == WithStatus(jobs[j], "awaiting_review")
  <2>1. row.kind = jobs[j].kind /\ row.version = jobs[j].version /\ row.status = "awaiting_review"
    BY <1>2
  <2>2. jobs' = [jobs EXCEPT ![j] = row] /\ UNCHANGED versions
    BY <1>4 DEF AwaitReview
  <2> HIDE DEF row
  <2> QED BY <2>1, <2>2, ChangeRow DEF Active, VersionsStay
<1> QED BY <1>3, <1>4

\* A step that writes no row.
LEMMA SameRows ==
  ASSUME TypeOK, NoWrite PROVE Shrinks /\ VersionsStay
BY DEF NoWrite, Shrinks, ShrinksRow, VersionsStay

\* One row changes within the active states.
LEMMA SameShape ==
  ASSUME TypeOK, NEW j \in JobIds, NEW row,
         row.kind = jobs[j].kind, row.version = jobs[j].version,
         row.status = jobs[j].status \/ (row.status \in Active /\ jobs[j].status \in Active),
         jobs' = [jobs EXCEPT ![j] = row]
  PROVE  Shrinks
BY ChangeRow DEF Active

\* An insert for a version without an active job.
LEMMA InsertShape ==
  ASSUME ActiveInv, NEW k \in Kinds, NEW v \in Versions \cup {NoVersion}, NEW r, NEW n \in JobIds,
         IsNextId(n), jobs' = [jobs EXCEPT ![n] = NewRow(k, v, r)],
         k \in MutatingKinds => /\ v \in Versions
                               /\ versions'[v].status # "absent"
                               /\ ActiveFor(v) = {}
  PROVE  Enqueues(n)
<1>1. jobs'[n] = NewRow(k, v, r)
  BY DEF ActiveInv, TypeOK
<1>2. \A i \in JobIds \ {n} : jobs'[i] = jobs[i]
  BY DEF ActiveInv, TypeOK
<1>3. jobs'[n].status # "absent" /\ jobs'[n].kind = k /\ jobs'[n].version = v
  BY <1>1 DEF NewRow
<1>4. \A i \in JobIds \ {n} : ShrinksRow(i)
  BY <1>2 DEF ShrinksRow
<1>5. ASSUME k \in MutatingKinds, NEW i \in JobIds \ {n},
             jobs'[i].status \in Active, jobs'[i].kind \in MutatingKinds
      PROVE  jobs'[i].version # v
  <2>1. jobs[i].status \in Active /\ jobs[i].kind \in MutatingKinds /\ i \notin ActiveFor(v)
    BY <1>2, <1>5
  <2>2. jobs[i].version # v
    BY <2>1 DEF ActiveFor, IsMutating
  <2> QED BY <1>2, <2>2
<1> QED BY <1>3, <1>4, <1>5 DEF Enqueues

\* A request inserts at most one job, for a version that has no active one.
LEMMA RequestShape ==
  ASSUME ActiveInv, Request
  PROVE  VersionsStay /\ (Shrinks \/ \E n \in JobIds : Enqueues(n))
<1>a. TypeOK
  BY DEF ActiveInv
<1>1. ASSUME NEW v \in Versions, NEW k \in MutatingKinds, CreateVersion(v, k)
      PROVE  VersionsStay /\ \E n \in JobIds : Enqueues(n)
  <2>1. PICK n \in JobIds : Insert(k, v, NoRender, n)
    BY <1>1 DEF CreateVersion
  <2>2. versions'[v].status = "busy"
    BY <1>1, <1>a DEF CreateVersion, TypeOK
  <2>3. ActiveFor(v) = {}
    BY <1>1 DEF CreateVersion, ActiveInv, JobsHaveVersions, ActiveFor, Active
  <2>4. Enqueues(n)
    BY <2>1, <2>2, <2>3, InsertShape DEF Insert, Kinds
  <2>5. VersionsStay
    BY <1>1, <1>a DEF CreateVersion, VersionsStay, TypeOK
  <2> QED BY <2>4, <2>5
<1>2. ASSUME NEW v \in Versions, EnqueueBuild(v)
      PROVE  VersionsStay /\ \E n \in JobIds : Enqueues(n)
  <2>1. PICK n \in JobIds : Insert("build_assets", v, NoRender, n)
    BY <1>2 DEF EnqueueBuild
  <2>2. Enqueues(n)
    BY <1>2, <2>1, InsertShape DEF EnqueueBuild, Insert, Kinds, MutatingKinds
  <2> QED BY <1>2, <2>2 DEF EnqueueBuild, VersionsStay
<1>3. ASSUME NEW r \in Renders, NEW v \in Versions, EnqueueRender(r, v)
      PROVE  VersionsStay /\ \E n \in JobIds : Enqueues(n)
  <2>1. PICK n \in JobIds : Insert("render_video", v, r, n)
    BY <1>3 DEF EnqueueRender
  <2>2. Enqueues(n)
    BY <1>3, <2>1, InsertShape DEF Insert, Kinds, MutatingKinds
  <2> QED BY <1>3, <2>2 DEF EnqueueRender, VersionsStay
<1>4. ASSUME EnqueueCleanup
      PROVE  VersionsStay /\ \E n \in JobIds : Enqueues(n)
  <2>1. PICK n \in JobIds : Insert("cleanup", NoVersion, NoRender, n)
    BY <1>4 DEF EnqueueCleanup
  <2>2. Enqueues(n)
    BY <1>4, <2>1, InsertShape DEF Insert, Kinds, MutatingKinds
  <2> QED BY <1>4, <2>2 DEF EnqueueCleanup, VersionsStay
<1>5. ASSUME NEW j \in JobIds, RequestCancel(j) PROVE VersionsStay /\ Shrinks
  <2>1. jobs[j] \in JobRow
    BY <1>a DEF TypeOK
  <2>2. CASE jobs[j].status \in {"queued", "awaiting_review"} /\
             jobs' = [jobs EXCEPT ![j] = Over(jobs[j], "cancelled")]
             /\ versions' = SettleVersion(j)
    <3> DEFINE row == Over(jobs[j], "cancelled")
    <3>1. row.kind = jobs[j].kind /\ row.version = jobs[j].version /\ row.status = "cancelled"
      BY <2>1, OverShape
    <3>4. jobs' = [jobs EXCEPT ![j] = row] /\ jobs[j].status # "absent"
      BY <2>2
    <3> HIDE DEF row
    <3>2. Shrinks
      BY <1>a, <3>1, <3>4, ChangeRow DEF Active
    <3>3. VersionsStay
      BY <1>a, <2>2 DEF SettleVersion, VersionsStay, TypeOK
    <3> QED BY <3>2, <3>3
  <2>3. CASE jobs' = [jobs EXCEPT ![j].cancel = TRUE] /\ UNCHANGED versions
    BY <1>a, <2>1, <2>3 DEF TypeOK, Shrinks, ShrinksRow, VersionsStay, JobRow
  <2> QED BY <1>5, <2>2, <2>3 DEF RequestCancel
<1>6. ASSUME NEW j \in JobIds, RetryJob(j)
      PROVE  VersionsStay /\ \E n \in JobIds : Enqueues(n)
  <2>1. PICK n \in JobIds :
          /\ IsNextId(n)
          /\ jobs' = [jobs EXCEPT ![j].retried = TRUE,
                        ![n] = NewRow(jobs[j].kind, jobs[j].version, jobs[j].render)]
    BY <1>6 DEF RetryJob
  <2>2. j # n /\ jobs[j] \in JobRow /\ jobs[j].status # "absent"
    BY <1>6, <1>a, <2>1 DEF RetryJob, IsNextId, Retryable, TypeOK
  <2>3. jobs'[n] = NewRow(jobs[j].kind, jobs[j].version, jobs[j].render)
    BY <1>a, <2>1, <2>2 DEF TypeOK
  <2>4. \A i \in JobIds \ {n} : /\ jobs'[i].status = jobs[i].status
                                 /\ jobs'[i].kind = jobs[i].kind
                                 /\ jobs'[i].version = jobs[i].version
    BY <1>a, <2>1, <2>2 DEF TypeOK, JobRow
  <2>5. /\ jobs'[n].status = "queued" /\ jobs'[n].kind = jobs[j].kind
        /\ jobs'[n].version = jobs[j].version
    BY <2>3 DEF NewRow
  <2>6. IsMutating(j) => /\ ActiveFor(jobs[j].version) = {}
                         /\ jobs[j].version \in Versions
                         /\ versions'[jobs[j].version].status # "absent"
    BY <1>6, <2>2 DEF RetryJob, ActiveInv, JobsHaveVersions
  <2>7. Enqueues(n)
    BY <2>4, <2>5, <2>6 DEF Enqueues, ShrinksRow, ActiveFor, IsMutating
  <2> QED BY <1>6, <2>7 DEF RetryJob, VersionsStay
<1>7. ASSUME NEW j \in JobIds, ApproveReview(j)
      PROVE  VersionsStay /\ \E n \in JobIds : Enqueues(n)
  <2>1. PICK n \in JobIds :
          /\ IsNextId(n)
          /\ jobs' = [jobs EXCEPT ![j] = Over(jobs[j], "succeeded"),
                        ![n] = NewRow("generate_lecture", jobs[j].version, NoRender)]
    BY <1>7 DEF ApproveReview
  <2>2. j # n /\ jobs[j] \in JobRow /\ jobs[j].status = "awaiting_review" /\ IsMutating(j)
    BY <1>7, <1>a, <2>1 DEF ApproveReview, IsNextId, TypeOK, IsMutating, MutatingKinds
  <2>3. jobs'[n] = NewRow("generate_lecture", jobs[j].version, NoRender)
    BY <1>a, <2>1, <2>2 DEF TypeOK
  <2>4. \A i \in JobIds \ {n} : /\ jobs'[i].kind = jobs[i].kind
                                 /\ jobs'[i].version = jobs[i].version
                                 /\ jobs'[i].status = IF i = j THEN "succeeded" ELSE jobs[i].status
    <3>1. jobs'[j] = Over(jobs[j], "succeeded")
      BY <1>a, <2>1, <2>2 DEF TypeOK
    <3>2. \A i \in JobIds \ {n, j} : jobs'[i] = jobs[i]
      BY <1>a, <2>1 DEF TypeOK
    <3>3. /\ jobs'[j].kind = jobs[j].kind /\ jobs'[j].version = jobs[j].version
          /\ jobs'[j].status = "succeeded"
      BY <2>2, <3>1, OverShape
    <3> QED BY <3>2, <3>3
  <2>5. /\ jobs'[n].status = "queued" /\ jobs'[n].kind = "generate_lecture"
        /\ jobs'[n].version = jobs[j].version
    BY <2>3 DEF NewRow
  <2>6. jobs[j].version \in Versions /\ versions'[jobs[j].version].status # "absent"
    BY <1>7, <1>a, <2>2 DEF ApproveReview, ActiveInv, JobsHaveVersions, TypeOK
  <2>7. \A i \in JobIds \ {n} : ShrinksRow(i)
    BY <2>2, <2>4 DEF ShrinksRow, Active
  <2>8. ASSUME NEW i \in JobIds \ {n}, jobs'[i].status \in Active, jobs'[i].kind \in MutatingKinds
        PROVE  jobs'[i].version # jobs'[n].version
    <3>1. i # j
      BY <2>4, <2>8 DEF Active
    <3> QED BY <2>2, <2>4, <2>5, <2>8, <3>1 DEF ActiveInv, OneActivePerVersion, IsMutating, Active
  <2>9. Enqueues(n)
    BY <2>5, <2>6, <2>7, <2>8 DEF Enqueues
  <2>10. VersionsStay
    BY <1>7, <1>a DEF ApproveReview, VersionsStay, TypeOK
  <2> QED BY <2>9, <2>10
<1> QED BY <1>1, <1>2, <1>3, <1>4, <1>5, <1>6, <1>7 DEF Request

\* A job whose lease is held is running.
LEMMA FenceRuns ==
  ASSUME TypeOK, NEW l, Holds(l)
  PROVE  l.job \in JobIds /\ jobs[l.job] \in JobRow /\ jobs[l.job].status = "running"
BY DEF Holds, TypeOK

\* A change of a flag of a row.
LEMMA FieldShape ==
  ASSUME TypeOK, NEW j \in JobIds, NEW b,
         \/ jobs' = [jobs EXCEPT ![j].fresh = b]
         \/ jobs' = [jobs EXCEPT ![j].due = b]
         \/ jobs' = jobs
  PROVE  Shrinks
<1>1. jobs[j] \in JobRow
  BY DEF TypeOK
<1>2. \A k \in JobIds : /\ jobs'[k].status = jobs[k].status
                       /\ jobs'[k].kind = jobs[k].kind
                       /\ jobs'[k].version = jobs[k].version
  <2>1. CASE jobs' = [jobs EXCEPT ![j].fresh = b]
    BY <1>1, <2>1 DEF TypeOK, JobRow
  <2>2. CASE jobs' = [jobs EXCEPT ![j].due = b]
    BY <1>1, <2>2 DEF TypeOK, JobRow
  <2> QED BY <2>1, <2>2
<1> QED BY <1>2 DEF Shrinks, ShrinksRow

\* Time activates nothing, ...
LEMMA TickShape ==
  ASSUME TypeOK, Tick PROVE Shrinks /\ VersionsStay
BY FieldShape DEF Tick, BackoffElapses, HeartbeatGoesStale, VersionsStay

\* ... nor do job threads, ...
LEMMA ThreadShape ==
  ASSUME TypeOK, NEW w \in Workers, Thread(w) PROVE Shrinks /\ VersionsStay
<1> DEFINE l == workers[w].lease
<1>1. CASE Claim(w)
  <2>1. PICK j \in JobIds : FirstClaimable(j) /\ jobs' = [jobs EXCEPT ![j] = Claimed(jobs[j], Self(w))]
    BY <1>1 DEF Claim
  <2> DEFINE row == Claimed(jobs[j], Self(w))
  <2>2. row.kind = jobs[j].kind /\ row.version = jobs[j].version /\ row.status = "running"
    BY DEF Claimed, TypeOK, JobRow
  <2>3. jobs[j].status = "queued"
    BY <2>1 DEF FirstClaimable, Claimable
  <2> HIDE DEF row
  <2>4. Shrinks
    BY <2>1, <2>2, <2>3, ChangeRow DEF Active, row
  <2> QED BY <1>1, <2>4 DEF Claim, VersionsStay
<1>2. ASSUME NEW s \in VersionStatus \ {"absent"}, HandlerWritesVersion(w, s)
      PROVE  Shrinks /\ VersionsStay
  <2>1. CASE Holds(l)
    <3>1. Shrinks
      BY <1>2, <2>1, FenceRuns, FieldShape DEF HandlerWritesVersion
    <3>2. PICK b : versions' = [versions EXCEPT ![jobs[l.job].version] = [status |-> s, built |-> b]]
      BY <1>2, <2>1 DEF HandlerWritesVersion
    <3> QED BY <3>1, <3>2 DEF VersionsStay, TypeOK
  <2>2. CASE ~Holds(l)
    BY <1>2, <2>2, FieldShape DEF HandlerWritesVersion, Shrinks, ShrinksRow, VersionsStay
  <2> QED BY <2>1, <2>2
<1>3. CASE Persist(w)
  <2>1. CASE NoWrite
    BY <2>1, SameRows
  <2>2. ASSUME NEW s \in Terminal, Holds(l), End(l.job, s) PROVE Shrinks /\ VersionsStay
    BY <2>2, FenceRuns, EndShape
  <2> QED BY <1>3, <2>1, <2>2 DEF Persist, Terminal
<1>4. CASE Open(w) \/ HandlerEnds(w) \/ GiveUp(w)
  BY <1>4, SameRows DEF Open, HandlerEnds, HandlerReturns, HandlerFailsForGood, HandlerRaises,
                        HandlerStops, HandlerQuits, GiveUp, NoWrite
<1> QED BY <1>1, <1>2, <1>3, <1>4 DEF Thread, Handler

\* ... heartbeats, ...
LEMMA HeartbeatShape ==
  ASSUME TypeOK, NEW w \in Workers, Heartbeat(w) PROVE Shrinks /\ VersionsStay
<1>1. CASE BeatOnce(w)
  BY <1>1, FenceRuns, FieldShape DEF BeatOnce, VersionsStay, Shrinks, ShrinksRow
<1>2. CASE RefreshFlags(w)
  BY <1>2, SameRows DEF RefreshFlags, NoWrite
<1> QED BY <1>1, <1>2 DEF Heartbeat

\* ... crashes and restarts, ...
LEMMA ProcessShape ==
  ASSUME TypeOK, NEW w \in Workers, Process(w) PROVE Shrinks /\ VersionsStay
BY SameRows DEF Process, Stop, RequestShutdown, Exit, Crash, Exits, Restart, NoWrite

\* ... recoveries ...
LEMMA MaintenanceShape ==
  ASSUME TypeOK, NEW w \in Workers, Maintenance(w) PROVE Shrinks /\ VersionsStay
<1>1. CASE RecoverCancelled(w)
  BY <1>1, FenceRuns, EndShape, SameRows DEF RecoverCancelled, StillLost, Terminal
<1>2. CASE (\E j \in JobIds : SelectStale(w, j) \/ SelectOwnHost(w, j)) \/ RecoveryDone(w)
  BY <1>2, SameRows DEF SelectStale, SelectOwnHost, RecoveryDone, NoWrite
<1> QED BY <1>1, <1>2 DEF Maintenance

\* ... and second statements.
LEMMA SecondShape ==
  ASSUME TypeOK, NEW w \in Workers, Write(w) \/ RecoverRow(w) PROVE Shrinks /\ VersionsStay
<1>1. CASE Write(w)
  BY <1>1, FenceRuns, EndShape, RequeueShape, SameRows DEF Write, Terminal
<1>2. CASE RecoverRow(w)
  BY <1>2, FenceRuns, EndShape, RequeueShape, SameRows DEF RecoverRow, StillLost, Terminal
<1> QED BY <1>1, <1>2

\* So every step shrinks the active set or inserts one row.
LEMMA StepShape ==
  ASSUME ActiveInv, [Next]_vars
  PROVE  VersionsStay /\ (Shrinks \/ \E n \in JobIds : Enqueues(n))
<1>1. TypeOK
  BY DEF ActiveInv
<1>2. CASE UNCHANGED vars
  BY <1>1, <1>2, SameRows DEF vars, NoWrite
<1>3. CASE Next
  BY <1>1, <1>3, RequestShape, TickShape, ThreadShape, HeartbeatShape, ProcessShape,
     MaintenanceShape, SecondShape DEF Next, SecondStatement, OneStatement
<1> QED BY <1>2, <1>3

\* Both kinds of step preserve the invariant.
LEMMA ActiveStep == ActiveInv /\ [Next]_vars => ActiveInv'
<1> SUFFICES ASSUME ActiveInv, [Next]_vars PROVE ActiveInv'
  OBVIOUS
<1>1. TypeOK'
  BY NextType DEF ActiveInv
<1>2. VersionsStay
  BY StepShape
<1>3. CASE Shrinks
  <2>1. OneActivePerVersion'
    BY <1>3 DEF Shrinks, ShrinksRow, ActiveInv, OneActivePerVersion, IsMutating
  <2>2. JobsHaveVersions'
    BY <1>2, <1>3 DEF Shrinks, ShrinksRow, ActiveInv, JobsHaveVersions, IsMutating, VersionsStay
  <2> QED BY <1>1, <2>1, <2>2 DEF ActiveInv
<1>4. ASSUME NEW n \in JobIds, Enqueues(n) PROVE ActiveInv'
  <2>1. OneActivePerVersion'
    BY <1>4 DEF Enqueues, ShrinksRow, ActiveInv, OneActivePerVersion, IsMutating
  <2>2. JobsHaveVersions'
    BY <1>2, <1>4 DEF Enqueues, ShrinksRow, ActiveInv, JobsHaveVersions, IsMutating, VersionsStay
  <2> QED BY <1>1, <2>1, <2>2 DEF ActiveInv
<1> QED BY <1>3, <1>4, StepShape

\* It holds of the empty table.
LEMMA ActiveInit == Init => ActiveInv
<1> SUFFICES ASSUME Init PROVE ActiveInv
  OBVIOUS
<1>1. \A j \in JobIds : jobs[j].status = "absent"
  BY DEF Init, AbsentRow, NewRow
<1> QED BY <1>1, InitType DEF ActiveInv, OneActivePerVersion, JobsHaveVersions, Active

\* uq_jobs_active_version: at no time are two mutating jobs active for one
\* version, whatever is enqueued, retried, approved, released or recovered.
THEOREM OneActiveJob == Spec => []OneActivePerVersion
<1>1. Spec => []ActiveInv
  BY ActiveInit, ActiveStep, PTL DEF Spec
<1>2. ActiveInv => OneActivePerVersion
  BY DEF ActiveInv
<1> QED BY <1>1, <1>2, PTL

=============================================================================
